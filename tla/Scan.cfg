SPECIFICATION Spec
CONSTANTS
    Pred <- MCPred
    BatchRows = 2
    MaxRows = 3
    MaxSegments = 2
    Faults = {"open"}
INVARIANTS
    ScanIsExact
PROPERTY ScanEnds
