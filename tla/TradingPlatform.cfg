SPECIFICATION FairSpec
CONSTANTS
    Processes = {p, q}
    Initial = 2
    BatchSize = 2
    MaxLen = 1
    Share = 75
    MaxRetries = 2
    MaxSignals = 3
    MaxStarts = 2
INVARIANTS
    TypeOK
    CurrentExitCloses
    EntriesWithinCapital
PROPERTIES
    DriftOnlyFromFailures
    StreamsDrain
CHECK_DEADLOCK FALSE
