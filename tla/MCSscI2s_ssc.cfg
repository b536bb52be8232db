SPECIFICATION FairSpec
CONSTANTS
    Depth = 3
    PoolSize = 9
    QueueSize = 1
    MaxErrors = 1
    MaxTroubles = 2
INVARIANTS
    TxRoomIsReal
    RxRoomIsReal
    ReclaimsBehindTheChannel
    EveryBufferInOnePlace
PROPERTIES
    AudioFlows
