SPECIFICATION FairSpec
CONSTANTS
    Blocks = {1, 2, 3}
    MaxSlot = 3
    MaxKvs = 2
    MaxData = 4
    MaxStops = 2
    RecentN = 2
    Clients = {"append", "mark", "flush", "close", "crash"}
    BgFlush = TRUE
    CloseTimeout = TRUE
    Preload = 1
INVARIANTS AckedHeldOrDurable DataIntact Reopenable
PROPERTIES SlotsOnlyGrow EventuallyDurable
CHECK_DEADLOCK FALSE
