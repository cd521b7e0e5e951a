SPECIFICATION Spec
CONSTANTS
    Blocks = {1, 2, 3, 4}
    MaxSlot = 4
    MaxKvs = 2
    MaxData = 5
    MaxStops = 1
    RecentN = 2
    Clients = {"append", "extend", "new", "delete", "mark", "flush", "close"}
    BgFlush = FALSE
    CloseTimeout = FALSE
    Preload = 1
INVARIANTS AckedDurable ContiguousIndex
CHECK_DEADLOCK FALSE
