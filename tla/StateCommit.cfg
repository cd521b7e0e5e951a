SPECIFICATION Spec
CONSTANTS
    Keys = {"a", "g"}
    Global = {"g"}
    MaxBlock = 2
    MaxCrashes = 1
    MaxEvicts = 1
    Kinds = {"none", "put", "stor", "both", "del"}
INVARIANTS NoDangling AccountsConsistent StorageConsistent CacheCoherent StoresInOrder
CHECK_DEADLOCK FALSE
