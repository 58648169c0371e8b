SPECIFICATION FairSpec
CONSTANTS
    Posters = {p1, p2}
    Loop = loop
    Functors = {f1, f2, f3}
    NoFunctor = NoFunctor
    MaxQueued = 3
INVARIANTS
    Inv
    PendingIsSignalled
PROPERTIES
    RunsInOrder
