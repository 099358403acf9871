SPECIFICATION FairSpec
CONSTANTS
  Ids = {r1}
  NanosPerSecond = 1000
  CreateIndexesMayFail = FALSE
  MaxFaults = 2
  Locks = {l1, l2}
  Callers = {c1, c2}
  LockOf <- MCLockOf1
  AcquireMaxRetries = 1
  UnlockMaxRetries = 1
  MaxCalls = 2
  NoLease = NoLease
  l1 = l1
  l2 = l2
  c1 = c1
  c2 = c2
INVARIANT MutualExclusion
PROPERTIES UnlockReturns CloseReturns StaleLocksPurged
CHECK_DEADLOCK FALSE
