SPECIFICATION Spec
CONSTANTS
  c1 = c1
  c2 = c2
  Callers = {c1, c2}
  MaxId = 2
  IsStrongReadConcernEnabled = FALSE
  IsWriteConcernMajorityEnabled = TRUE
  Writes <- MCWrites
  MustForms <- MCMust
  OptionLists <- MCOptionLists
  Readers <- OneReader
  DriverErrors <- MCErrors
  MaxWrites = 5
  MaxCalls = 1
  MaxFaults = 2
INVARIANTS
  IInv NoLostUpdate AcknowledgedWritesStay MustToldTrue
  ReadsExact UpdatedAtomically ErrorsRecognised
CHECK_DEADLOCK FALSE
