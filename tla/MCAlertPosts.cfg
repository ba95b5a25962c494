SPECIFICATION FairSpec
CONSTANTS
    Conns = {c1, c2}
    Requests <- MCRequests
    Numbers = {"1", "2"}
    AgeLimit = 1
    MaxPosts = 2
    MaxCommands = 1
    MaxPlots = 3
    MaxClock = 2
INVARIANTS
    PostsAccounted
    PlotsOutliveWait
PROPERTIES
    OnlyOutsideBlocks
CHECK_DEADLOCK FALSE
