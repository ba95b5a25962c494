SPECIFICATION Spec
CONSTANTS
    c1 = c1
    c2 = c2
    Connections = {c1, c2}
    MaxLen = 12
    MaxSecs = 7
    Buffer = 3
    Scripts <- MCScripts
INVARIANTS FramesDelivered ClosedOnlyIfBroken PathsStripped
PROPERTIES FramesRead
CHECK_DEADLOCK FALSE
