SPECIFICATION FairSpec
CONSTANTS
    Producers = {p1, p2, p3}
    Consumer = consumer
    Cmds = {get, set}
    MaxSize = 2
    NoThread = NoThread
    NoRequest = NoRequest
INVARIANTS
    TypeOK
    QueueExclusion
    QueueBounded
    FrontIsServed
    NoLostWakeup
    OneSleepingProducer
PROPERTIES
    QueueFrozenWhileServing
    ImplementsRequestQueue
    HolderPushes
    SubmissionsProgress
