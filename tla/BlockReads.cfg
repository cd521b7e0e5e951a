SPECIFICATION Spec
CONSTANTS
    k1 = k1
    k2 = k2
    k2b = k2b
    k3 = k3
    Keys = {k1, k2, k2b, k3}
    Vals = {v1}
    MaxBlock = 6
    MaxLog = 4
    MaxRestarts = 2
    RecentN = 2
    IgnoredThreshold = 3
    KeyBlock <- MCKeyBlock
    Tombstone = Tombstone
    Programs <- MCPrograms
INVARIANTS GetLatest SkiplistNewest
CHECK_DEADLOCK FALSE
