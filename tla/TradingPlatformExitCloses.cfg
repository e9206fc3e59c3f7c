SPECIFICATION SmoothSpec
CONSTANTS
    Processes = {p}
    Initial = 2
    BatchSize = 2
    MaxLen = 1
    Share = 75
    MaxRetries = 2
    MaxSignals = 2
    MaxStarts = 1
INVARIANT ExitCloses
CHECK_DEADLOCK FALSE
