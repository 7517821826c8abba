CONSTANTS
    Threads = {t1, t2}
    Objects = {o1, o2}
    Refs = {r1, r2, r3}
    MaxCount = 4
    None = None
SPECIFICATION FairSpec
INVARIANT NothingLeaksAtRest
PROPERTY EveryObjectEnds
CHECK_DEADLOCK FALSE
