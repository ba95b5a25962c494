SPECIFICATION MCSpec
CONSTANTS
    TriggerChars = 3
    MinInterval = 2
    MaxIterations = 2
    Sizes = {2}
    ToolSizes = {1}
    MaxTools = 2
    MaxCalls = 3
    MaxClock = 2
    c1 = c1
    c2 = c2
    v1 = v1
    v2 = v2
    v3 = v3
    Calls = {c1, c2}
    NoCall = NoCall
    Versions = {v1, v2, v3}
    NoVersion = NoVersion
    Glob <- MCGlob
    IncludeNonUtf8 = FALSE
    Plans <- MCPlans
    Newline = "newline"
    Odd = "odd"
    SampleSize = 3
    OddShare = 2
    MaxMatches = 4
    U32 = 8
    All = All
INVARIANTS HistoryAccounted CompactionsApart ToolResultsFollow CurrentUnlessFailed
PROPERTIES CancelledReturns StaleRatherThanNone EveryCallReturns ReadGivesLines SearchFindsLines
CHECK_DEADLOCK FALSE
