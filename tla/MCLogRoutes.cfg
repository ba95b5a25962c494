SPECIFICATION Spec
CONSTANTS
    Threads = {t1, t2}
    NoThread = NoThread
    Everywhere = Everywhere
    Routes <- MCRoutes
    OverallLimits <- MCOverallLimits
    MaxAge = 2
    CheckupPeriod = 2
    Messages <- MCMessages
    MaxCalls = 3
INVARIANTS
    AnswersCountEverything
    OverallCountsOnce
    AlertsCapped
SYMMETRY ThreadSymmetry
CHECK_DEADLOCK FALSE
