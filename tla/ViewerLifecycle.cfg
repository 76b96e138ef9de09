SPECIFICATION Spec
CONSTANTS
  Nid = {n}
  StaleLimit = 0
  MaxSessions = 2
  MaxEdits = 2
  MaxRequests = 2
  MaxNoise = 1
CHECK_DEADLOCK FALSE
INVARIANTS
  DisconnectIsReal
  FetchedShowsPage
PROPERTIES
  PatchIsOurs
  RequestsSettle
