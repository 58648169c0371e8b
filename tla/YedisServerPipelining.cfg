SPECIFICATION Spec
CONSTANTS
    Clients = {c1}
    SplitClients = {}
    Descriptors = {1}
    NumWorkers = 1
    MaxSize = 1
    SendBuffer = 3
    MaxOutstanding = 2
    MaxRequests = 3
    MaxSplit = 0
    None = None
INVARIANTS
    EveryRequestAnswered
CHECK_DEADLOCK FALSE
