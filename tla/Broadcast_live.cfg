SPECIFICATION FairSpec
CONSTANTS
    Clients = {c1}
    MaxMsgs = 2
    MaxConns = 2
    MaxFaults = 0
    MaxStats = 1
    Parts = 3
    Room = 1
    InitResults <- NullInit
    HasTimeout = TRUE
CHECK_DEADLOCK FALSE
PROPERTIES
    Dispatched StatsReturns StopCompletes
INVARIANTS
    QueueSeen PipeBound
