SPECIFICATION Spec
CONSTANTS
    Keys = {"a"}
    Readers = {"r1", "r2"}
    Buffers = {1, 2, 3}
    MaxWrites = 3
    MaxUnsorted = 4
    Callers = {"account", "pointer", "delete", "sweep", "storageGC", "evict"}
INVARIANTS GetLatest CompactLosesNothing HitBufferHeld
PROPERTIES WriteCompletes 
CHECK_DEADLOCK FALSE
