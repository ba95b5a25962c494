SPECIFICATION Spec
CONSTANTS
    Threads = {t1, t2}
    NoThread = NoThread
    N = 2
    Window = 2
    ComparatorIsGe = TRUE
    Timestamps = {5, 6, 7}
    MaxEvents = 2
PROPERTY PassesAtRate
CHECK_DEADLOCK FALSE
