SPECIFICATION FairSpec
CONSTANTS
    Threads = {t1, t2, t3, t4}
    Pools = {q1, q2}
    Sizes = {1, 2}
    MaxProxies = 2
    MaxSends = 5
    None = None
CHECK_DEADLOCK FALSE
INVARIANTS
    TypeOK Stock
PROPERTY
    Served
