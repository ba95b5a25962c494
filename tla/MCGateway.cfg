SPECIFICATION FairSpec
CONSTANTS
    Requests = {1, 2}
    QueueSize = 2
    StopSize = 1
    Router <- MCRouter
    Incoming <- MCIncoming
    MaxMessages = 2
    MaxAlerts = 2
    MaxArrivals = 3
CHECK_DEADLOCK FALSE
INVARIANTS AcceptedIsRecorded AlertsAccounted ConversationInOrder
PROPERTIES LongestPrefixDecides RequestReturns EveryAlertTried ShutdownCompletes
