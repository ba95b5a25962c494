SPECIFICATION FairSpec
CONSTANTS
    Messages = {m1, m2, m3}
    NoMessage = NoMessage
    Origins = {o1, o2}
    Destinations = {admins}
    Suppressed = Suppressed
    Capacity = 2
    MaxAge = 5
    CheckupPeriod = 2
    MsPerSec = 10
    Start = 1000
    Ticks = {3}
    Lags = {0}
    MaxClock = 1003
INVARIANTS
    AccountedOnce
    AlertIsRecentLog
PROPERTIES
    EveryPassingMessageAlerts
CHECK_DEADLOCK FALSE
