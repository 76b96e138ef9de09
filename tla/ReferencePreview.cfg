SPECIFICATION Spec
CONSTANTS
  Sessions = {1, 2, 3, 4, 5, 6, 7, 8, 9}
  MaxTroubles = 2
  MaxAwaits = 1
  QueueLimit = 1
  None = 0
CHECK_DEADLOCK FALSE
INVARIANTS
  LoadingIsWatched
  NoForeignPage
  OnlineIsReal
PROPERTIES
  Settles
