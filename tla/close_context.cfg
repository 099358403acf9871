SPECIFICATION FairSpec
CONSTANTS
  Closers = {c1, c2}
  Deadlines <- MCDeadlines
  c1 = c1
  c2 = c2
PROPERTY ContextErrorOverHardcoded
CHECK_DEADLOCK FALSE
