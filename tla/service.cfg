SPECIFICATION FairServiceSpec
CONSTANTS
  Closers = {c1, c2}
  Deadlines <- MCDeadlines
  Checkers = {k1}
  Timed = {k1}
  Collections = {a}
  databaseCollection <- MCDatabaseCollection
  c1 = c1
  c2 = c2
  k1 = k1
  d1 = d1
  d2 = d2
  a = a
INVARIANTS IInv NilAfterDisconnect PanicOnlyAfterError HealthInv
PROPERTIES OKIsTrue CriticalIsTrue CloseReturns ChecksReport DisconnectShows
CHECK_DEADLOCK FALSE
