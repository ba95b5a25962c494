SPECIFICATION FairSpec
CONSTANTS
    Threads = {t1, t2}
    NoThread = NoThread
    N = 3
    Window = 2
    ComparatorIsGe = TRUE
    Timestamps = {5, 6, 7, 9}
    MaxEvents = 2
INVARIANTS
    EvictedIsOldest
PROPERTIES
    VerdictCountsEvents
    ImplementsRateWindow
CHECK_DEADLOCK FALSE
