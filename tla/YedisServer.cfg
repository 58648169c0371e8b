SPECIFICATION FairSpec
CONSTANTS
    Clients = {c1, c2}
    SplitClients = {c2}
    Descriptors = {1, 2}
    NumWorkers = 2
    MaxSize = 1
    SendBuffer = 1
    MaxOutstanding = 2
    MaxRequests = 2
    MaxSplit = 1
    None = None
INVARIANTS
    TypeOK
    InOrder
    NoDanglingConnection
    PoolHoldsLoops
PROPERTIES
    Answered
    StartupEnds
CHECK_DEADLOCK FALSE
