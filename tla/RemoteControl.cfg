SPECIFICATION Spec
CONSTANTS
  MaxRequests = 2
  MaxActions = 2
  MaxNoise = 1
  MaxFailures = 1
CHECK_DEADLOCK FALSE
INVARIANTS
  ButtonsComeUp
  ViewerAgrees
PROPERTIES
  QuietPage
  RequestsAreDecided
