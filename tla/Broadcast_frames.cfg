SPECIFICATION Spec
CONSTANTS
    Clients = {c1}
    MaxMsgs = 2
    MaxConns = 1
    MaxFaults = 1
    MaxStats = 0
    Parts = 2
    Room = 1
    InitResults <- AlwaysInit
    HasTimeout = TRUE
CHECK_DEADLOCK FALSE
INVARIANT
    FramesIntact
