SPECIFICATION Spec
CONSTANTS
  Proc = {p1, p2}
  Buf = {b1, b2, b3}
  Sectors = 3
  Workload <- MCWorkload
  MaxErrors = 1
  MaxCrashes = 1
CHECK_DEADLOCK FALSE
INVARIANTS PoolInv ReadsLatest NoWriteLost SyncedStays NoSleepForGood
PROPERTIES FlushReachesDisk
