SPECIFICATION Spec
CONSTANTS
  Ghosts <- MCGhosts
  Threads <- MCThreads
  JoinLimit = 5
  MaxLoads = 2
INVARIANTS
  OneThread
  ListIsGuarded
PROPERTIES
  KilledOnlyAmongMany
  GhostEventReturns
  UnloadReturns
CHECK_DEADLOCK FALSE
