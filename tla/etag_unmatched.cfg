SPECIFICATION Spec
CONSTANTS
  c1 = c1
  c2 = c2
  Callers = {c1, c2}
  MaxId = 2
  IsStrongReadConcernEnabled = TRUE
  IsWriteConcernMajorityEnabled = TRUE
  Writes <- NoWrites
  MustForms <- MCPlain
  OptionLists <- NoOptionLists
  Readers = {}
  DriverErrors <- MCOneError
  MaxWrites = 4
  MaxCalls = 1
  MaxFaults = 0
INVARIANT NilMeansWritten
CHECK_DEADLOCK FALSE
