SPECIFICATION Spec
CONSTANTS
    Key = {k1, k2, k3}
    SecKey = {s1, s2}
    SegCap = 2
    MaxBatch = 2
    MaxSegId = 4
    Faults = {"crash", "segment", "reopen", "metaOpen", "metaWrite", "metaClose"}
SYMMETRY Symmetry
INVARIANTS
    IndexedRowsMatch
    EveryRowIndexed
    UniquePrimaryKeys
    LookupsFollowScans
    MetaNamesWholeSegments
    LostOnlyByFailedWrites
PROPERTY PublishedIsStable
\* A table whose table.meta was torn by a crash can never be opened again.
CHECK_DEADLOCK FALSE
