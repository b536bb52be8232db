SPECIFICATION FairSpec
CONSTANTS
    MaxCount = 2
    Forever = 2
    Array = {a1}
    wavBuffer = wavBuffer
    File <- MCFile
    Disk <- MCDisk
    Counts = {0, 1, 2, 4}
INVARIANTS
    EndsAfterAllPlays
    PostedOnce
    BuffersRestored
    RampsUndisturbed
PROPERTIES
    WholeRepetitions
    EveryPlayEnds
CHECK_DEADLOCK FALSE
