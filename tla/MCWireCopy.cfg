CONSTANTS
  Order <- MCOrder
  Parent <- MCParent
  Chain <- MCChain
  Media = {"a"}
  Control = {"i"}
  Long = 8
  Budget = 6
  Limit = 7
  MaxMarked = 1
  MaxEdits = 2
SPECIFICATION Spec
CHECK_DEADLOCK FALSE
INVARIANTS
  PathsAgree
  KnownTargets
