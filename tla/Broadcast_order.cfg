SPECIFICATION Spec
CONSTANTS
    Clients = {c1, c2}
    MaxMsgs = 2
    MaxConns = 1
    MaxFaults = 1
    MaxStats = 0
    Parts = 2
    Room = 1
    InitResults <- AlwaysInit
    HasTimeout = FALSE
CHECK_DEADLOCK FALSE
SYMMETRY Symmetry
INVARIANTS
    TypeOK RefExact FramesIntact
PROPERTY
    ImplementsLog
