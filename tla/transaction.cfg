SPECIFICATION FairSpec
CONSTANTS
  t1 = t1
  t2 = t2
  Txns = {t1, t2}
  WithRetries <- MCRetrying
  MaxWrites = 3
  MaxRuns = 2
  MaxFaults = 2
PROPERTIES NoLostUpdate CallsReturn WritesReleased
INVARIANTS IInv CommittedOnce ErrorLeavesNothing FinalWithThird
CHECK_DEADLOCK FALSE
