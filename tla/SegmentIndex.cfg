SPECIFICATION Spec
CONSTANTS
    MaxStart = 3
    FlatMax = 2
    PageSize = 2
    CacheMin = 2
    InitMetas <- FolderIndexes
    MaxChanges = 3
    MaxGen = 1
    MaxCrashes = 1
INVARIANTS IndexComplete LookupExact
PROPERTIES CrashCovers
