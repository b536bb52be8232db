SPECIFICATION FairSpec
CONSTANTS
    TicksPerSecond = 2
    SelectTicks = 2
    TimeoutLimit = 3
    OverideTimeout = 2
    Never = 15
    MaxClients = 4
INVARIANTS
    CutOnlyWhenQuiet
PROPERTIES
    ServesOneClient
    OverridesOnlyQuiet
    EveryClientServed
CHECK_DEADLOCK FALSE
