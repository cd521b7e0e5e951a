SPECIFICATION Spec
CONSTANTS
    k1 = k1
    k2 = k2
    k2b = k2b
    k3 = k3
    Keys = {k1, k2, k3}
    Vals = {v1}
    MaxBlock = 5
    MaxLog = 5
    MaxRestarts = 1
    RecentN = 2
    IgnoredThreshold = 3
    KeyBlock <- MCKeyBlockFew
    Tombstone = Tombstone
    Callers = {"put", "batch", "sync", "prune", "mark", "restart"}
INVARIANTS  TombstoneHides
CHECK_DEADLOCK FALSE
