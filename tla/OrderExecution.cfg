SPECIFICATION FairSpec
CONSTANTS
    Callers = {c1, c2}
    Orders = {o1, o2}
    Slice = 2
    NumSlices = 2
    VolumeBy <- MCVolumeBy
    MaxRetries = 2
INVARIANTS
    TypeOK
    FillsWithinOrder
    OvertradeBounded
PROPERTIES
    NeverExecutedTwice
    RecordTracksExecution
    LastSliceCompletes
    EveryCallEnds
