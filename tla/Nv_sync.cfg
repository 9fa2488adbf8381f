SPECIFICATION FairSpec
CONSTANTS
    a1 = a1
    a2 = a2
    Clients = {c1}
    Threads = {t1, t2}
    Arrays <- TwoArrays
    Keys = {k1}
    Stored <- OneStored
    Linked <- LinkAll
    MaxValue = 1
    Unset = Unset
    Nobody = Nobody
    Bcast = Bcast
    InitMsg = InitMsg
    Starts <- InitFirst
    MaxMsgs = 2
    MaxConns = 2
    MaxFaults = 1
    MaxStats = 1
    Overlap = FALSE
CHECK_DEADLOCK FALSE
INVARIANTS
    NvType Synced
PROPERTY
    Converges
