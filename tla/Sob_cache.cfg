SPECIFICATION FairSpec
CONSTANTS
    Clients = {p1}
    Threads = {t1, t2}
    Writers = {t1}
    Home <- OneHome
    Keys = {k1}
    MaxWrites = 2
    MaxGets = 3
    MaxFaults = 1
    FlushOnWrite = TRUE
    None = None
    Pending = Pending
    InitMsg = InitMsg
    Starts <- InitFirst
    MaxMsgs = 2
    MaxConns = 2
CHECK_DEADLOCK FALSE
INVARIANTS
    TypeOK NotOlder StaleOnlyByRace
PROPERTY
    GetReturns
