SPECIFICATION FairSpec
CONSTANTS
    c1 = c1
    c2 = c2
    Clients = {c1}
    Hdr = 2
    MaxBody = 2
    MaxReqs <- OneAsks
    MaxConns = 2
    MaxLost = 1
    Bufsizes <- WithAndWithout
    Room = 3
    MinSend = 1
    MayStop = TRUE
CHECK_DEADLOCK FALSE
INVARIANT
    SendsTheRest
