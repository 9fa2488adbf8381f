SPECIFICATION FairSpec
CONSTANTS
    a1 = a1
    a2 = a2
    Clients = {c1}
    Threads = {t1, t2}
    Arrays <- TwoArrays
    Keys = {k1}
    Stored <- OneStored
    Linked <- LinkAll
    MaxValue = 1
    Unset = Unset
    Nobody = Nobody
    Bcast = Bcast
    InitMsg = InitMsg
    Starts <- InitFirst
    MaxMsgs = 1
    MaxConns = 1
    MaxFaults = 0
    MaxStats = 1
    Overlap = FALSE
CHECK_DEADLOCK FALSE
PROPERTY
    UpdateAppears
