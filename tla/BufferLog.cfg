SPECIFICATION Spec
CONSTANTS
    Keys = {"x", "y"}
    Logged = {"x"}
    Deleted = {"y"}
    Prefetch = FALSE
    PromoteMin = 4
    ChainMax = 3
    MaxAppends = 3
    MaxRestarts = 1
INVARIANTS ReadLatest IndexesExact
PROPERTIES CommittedKept
CHECK_DEADLOCK FALSE
