SPECIFICATION FairSpec
CONSTANTS
    MaxWorkers = 3
    PoolSize = 4
    FreeThreads = 2
    BatchesIn <- MCBatches
    Faults = {"worker", "submit", "consumer"}
INVARIANTS
    WorkersInsideFrame
    ResultIsWhole
PROPERTY Termination
