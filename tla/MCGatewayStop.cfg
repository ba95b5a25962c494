SPECIFICATION PatientSpec
CONSTANTS
    Requests = {1, 2}
    QueueSize = 2
    StopSize = 1
    Router <- MCRouter
    Incoming <- MCStopIncoming
    MaxMessages = 2
    MaxAlerts = 1
    MaxArrivals = 3
CHECK_DEADLOCK FALSE
PROPERTY StopEndsRequest
