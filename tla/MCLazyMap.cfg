SPECIFICATION FairSpec
CONSTANTS
    Threads = {t1, t2}
    NoThread = NoThread
    Keys = {k1, k2}
    Times = {1, 3, 6}
    MaxAge = 2
    CheckupPeriod = 3
INVARIANTS
    LenCacheExact
    AccessProtected
    NothingRecentForgotten
PROPERTIES
    EveryCallReturns
