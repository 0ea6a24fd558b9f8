SPECIFICATION PoolSpec
CONSTANTS
    Worker <- MCWorker
    Client <- MCClient
    MaxTasks = 4
INVARIANTS
    EachTaskOnce
    NoTaskForgotten
PROPERTIES
    AcceptedRuns
    ShutdownEnds
