SPECIFICATION Spec
CONSTANTS
  Ids = {r1}
  NanosPerSecond = 1000
  CreateIndexesMayFail = TRUE
  MaxFaults = 0
  Locks = {l1, l2}
  Callers = {c1, c2}
  LockOf <- MCLockOf1
  AcquireMaxRetries = 1
  UnlockMaxRetries = 1
  MaxCalls = 2
  NoLease = NoLease
  l1 = l1
  l2 = l2
  c1 = c1
  c2 = c2
INVARIANTS MutualExclusion
CHECK_DEADLOCK FALSE
