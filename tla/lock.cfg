SPECIFICATION LiveSpec
CONSTANTS
  Procs = {p1, p2}
  StaleAfter = 2
  Wait = 1
  MaxRun = 3
  MaxFaults = 2
  MaxSeized = 2
INVARIANTS TypeOK HoldersBounded ExclusiveWhenOrderly
PROPERTIES AcquireReturns AbandonedLockGoes
