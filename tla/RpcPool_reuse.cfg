SPECIFICATION Spec
CONSTANTS
    r1 = r1
    Rpcs = {r1}
    Threads = {t1, t2}
    Conns = {c1, c2}
    HttpRpcs = {r1}
    HttpMax = 1
    JobLists <- OneJob
    MaxJobs = 1
    MaxRuns = 2
    MaxDrops = 1
    MayStop = FALSE
    NoConn = NoConn
    Listener = Listener
CHECK_DEADLOCK FALSE
SYMMETRY Symmetry
INVARIANTS
    OwnReply HttpPlaces NsocksExact NoLostWakeup
PROPERTY
    ImplementsService
