SPECIFICATION FairSpec
CONSTANTS
    Workers = {w}
    Levels = {"WARNING"}
    Configured = {"telegram"}
    QueueSize = 1
    Threshold = 3
    Capacity = 1
    MaxAlerts = 3
PROPERTY BacksOffAfterFailures
CHECK_DEADLOCK FALSE
