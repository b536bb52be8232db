SPECIFICATION Spec
CONSTANTS
    Depth = 3
    PoolSize = 10
    QueueSize = 2
    MaxErrors = 0
    MaxTroubles = 1
INVARIANT FinishedMeansFinished
