SPECIFICATION Spec
CONSTANTS
  a = a
  b = b
  c = c
  s = s
  Body = Body
  Element = {a, b, c, s}
  Dropped = {s}
  FirstTree <- MCTree
  StaleLimit = 3
  FailureLimit = 2
  MaxEdits = 3
  MaxSnapshots = 1
CHECK_DEADLOCK FALSE
INVARIANTS
  UntangledMatches
  LossIsCounted
