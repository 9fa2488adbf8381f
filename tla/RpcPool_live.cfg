SPECIFICATION FairSpec
CONSTANTS
    r1 = r1
    Rpcs = {r1}
    Threads = {t1, t2}
    Conns = {c1, c2}
    HttpRpcs = {}
    HttpMax = 0
    JobLists <- TwoJobs
    MaxJobs = 2
    MaxRuns = 1
    MaxDrops = 0
    MayStop = TRUE
    NoConn = NoConn
    Listener = Listener
CHECK_DEADLOCK FALSE
INVARIANTS
    TypeOK OneOwner AllOrNothing PollArrayFits
PROPERTIES
    RunReturns ShutdownCompletes
