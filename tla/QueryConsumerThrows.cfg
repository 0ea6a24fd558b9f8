SPECIFICATION Spec
CONSTANTS
    MaxWorkers = 2
    PoolSize = 2
    FreeThreads = 2
    BatchesIn <- MCBatches
    QueueCapacity = 1
    Faults = {"consumer"}
INVARIANT CallJoinsWorkers
