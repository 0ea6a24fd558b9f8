SPECIFICATION Spec
CONSTANTS
    Key = {k1, k2, k3}
    SecKey = {s1}
    SegCap = 1
    MaxBatch = 3
    MaxSegId = 6
    Faults = {}
INVARIANT IndexedRowsMatch
