SPECIFICATION Spec
CONSTANTS
  Docs = {u1, u2}
  Maps = {m1, m2}
  Namespaces <- MCNamespaces
  OwnKeys <- MCOwnKeys
  MaxPrefixes = 2
  MaxStamp = 2
  m1 = m1
  m2 = m2
  u1 = u1
  u2 = u2
SYMMETRY Symmetry
INVARIANTS OnlyForeignLost QueryPairs
PROPERTY OnlySharersChange
CHECK_DEADLOCK FALSE
