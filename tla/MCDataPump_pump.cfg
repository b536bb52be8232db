SPECIFICATION PumpFairSpec
CONSTANTS
    BufferSize = 2
    TicksPerSecond = 2
    SelectTicks = 3
    WordSpan = 8
    FieldSpan = 4
    Timeouts = {0, 3}
    Overrides = {0, 1, 7}
    TxRoom = 1
    MaxBytes <- ThreeAndOne
INVARIANTS
    BufferHoldsTheGap
    DeadLinkIsCut
    NeverMeansNever
PROPERTIES
    PumpsLikeAPipe
    EveryByteForwarded
    SuitorServed
CHECK_DEADLOCK FALSE
