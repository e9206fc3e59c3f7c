SPECIFICATION Spec
CONSTANTS
    Callers = {c1, c2}
    Orders = {o1, o2}
    Slice = 2
    NumSlices = 2
    VolumeBy <- MCVolumeBy
    MaxRetries = 2
SYMMETRY Interchangeable
INVARIANTS
    FillsEmitted
