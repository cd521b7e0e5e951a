SPECIFICATION Spec
CONSTANTS
    Keys <- MCKeys
    Requests <- MCRequests
    ReadKeys <- MCReadKeys
    MaxSeq = 9
    MemCap = 2
    PauseTrigger = 1
    MaxLevel = 2
    MaxCrashes = 2
    ReaderLives = 1
    Merging = TRUE
INVARIANTS ReadLatest SnapshotIntact LevelsOrdered Recoverable
CHECK_DEADLOCK FALSE
