SPECIFICATION Spec
CONSTANTS
  a = a
  b = b
  c = c
  Sheet = {a, b, c}
  Kind <- MCKind
  FirstSheets <- MCSheets
  MaxWrites = 4
  MaxSessions = 2
CHECK_DEADLOCK FALSE
INVARIANTS
  StylesMatch
  PoolLeaves
  ElementShownOnce
