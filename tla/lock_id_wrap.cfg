SPECIFICATION Spec
CONSTANTS
  Ids = {r1}
  NanosPerSecond = 2
  CreateIndexesMayFail = FALSE
  MaxFaults = 0
  Locks = {l1}
  Callers = {c1, c2}
  LockOf <- MCLockOfOne
  AcquireMaxRetries = 1
  UnlockMaxRetries = 1
  MaxCalls = 4
  NoLease = NoLease
  l1 = l1
  l2 = l2
  c1 = c1
  c2 = c2
INVARIANTS MutualExclusion
CHECK_DEADLOCK FALSE
