SPECIFICATION Spec
CONSTANTS
  Nid = {v}
  Pages = 2
  Sessions = 2
  Reports = 2
  MaxWire = 2
  MaxTroubles = 1
  NoNid = NoNid
INVARIANTS
  RightMedia
  NoStrayPlayer
PROPERTY
  PageHintIsUsed
CHECK_DEADLOCK FALSE
