SPECIFICATION FairSpec
CONSTANTS
    Processes = {p1, p2}
    MaxEntries = 3
    BatchSize = 2
    MaxLen = 2
    MaxRetryAttempts = 3
INVARIANTS
    TypeOK
    NoHistoryReplay
    AcknowledgedAfterRun
PROPERTIES
    ImplementsAtMostOnce
    SkipsOnlyWhenBehind
    EveryEntryRead
    ReadEntriesHandled
