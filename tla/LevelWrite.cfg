SPECIFICATION FairSpec
CONSTANTS
  wr = wr
  ws = ws
  wt = wt
  Writers = {wr, ws, wt}
  StoreOf <- MCStoreOf
  Sizes <- MCSizes
  Transactions = {wt}
  BufferCap = 2
  CompTrigger = 1
  PauseTrigger = 2
  Found <- MCFound
  MaxWrites = 1
  MaxFaults = 1
  ReadOnlyCalls = TRUE
INVARIANTS LockOwned  RotationFindsRoom CompactionsExclude
  
CHECK_DEADLOCK FALSE
