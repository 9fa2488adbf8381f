SPECIFICATION FairSpec
CONSTANTS
    c1 = c1
    c2 = c2
    Clients = {c1, c2}
    Hdr = 2
    MaxBody = 2
    MaxReqs <- OneAsks
    MaxConns = 2
    MaxLost = 1
    Bufsizes <- WithAndWithout
    Room = 3
    MinSend = 2
    MayStop = TRUE
CHECK_DEADLOCK FALSE
INVARIANTS
    TypeOK ExecutesAsked RepliesWhole NotStranded
PROPERTY
    Serves
