SPECIFICATION WatchdogSpec
CONSTANTS
  MaxEdits = 4
  MaxSessions = 2
  NoDiff = {2}
  ShadowRoots = {{1, 4}}
  StaleTicks = 1
  TickLength = {1, 2}
INVARIANTS
  EachEditOnceInOrder
  OnlyPausedEditsMissed
  PoolIsScheduled
  NothingOverstays
PROPERTIES
  ImplementsFeed
  EveryEditLeaves
