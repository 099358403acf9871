SPECIFICATION Spec
CONSTANTS
  Closers = {c1, c2}
  Deadlines <- MCDeadlines
  c1 = c1
  c2 = c2
INVARIANTS NoPanic
CHECK_DEADLOCK FALSE
