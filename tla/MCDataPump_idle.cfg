SPECIFICATION PumpSpec
CONSTANTS
    BufferSize = 2
    TicksPerSecond = 2
    SelectTicks = 3
    WordSpan = 8
    FieldSpan = 4
    Timeouts = {3}
    Overrides = {1}
    TxRoom = 1
    MaxBytes <- ThreeAndOne
INVARIANT TimedOutMeansIdle
CHECK_DEADLOCK FALSE
