SPECIFICATION FairSpec
CONSTANTS
    MaxWorkers = 3
    PoolSize = 3
    FreeThreads = 2
    BatchesIn <- MCBatches
    QueueCapacity = 1
    Faults = {"worker", "submit", "consumer"}
INVARIANTS
    WorkersInsideFrame
    EachBatchOnce
    ErrorsReachCaller
    CloseIsLast
PROPERTIES
    Termination
    WorkersLeave
    Delivers
