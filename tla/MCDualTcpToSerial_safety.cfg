SPECIFICATION Spec
CONSTANTS
    WordSpan = 32
    StartTick = {20}
    LastTick = 9
    idle_timeout = 3
    SelectTicks = 2
    ListenMayFail = TRUE
    MaxClients = 3
    MaxBatches = 3
INVARIANTS
    ReplaceableInTime
PROPERTIES
    ServesOneClient
    BumpedOnlyWhenIdle
CHECK_DEADLOCK FALSE
