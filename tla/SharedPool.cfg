SPECIFICATION Spec
CONSTANTS
    MaxWorkers = 2
    PoolSize = 3
    BatchesIn <- MCBatches
    QueueCapacity = 1
PROPERTIES
    BothReturn
