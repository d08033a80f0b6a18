SPECIFICATION Spec
CONSTANTS
  Host = h
  Procs = {p1, p2}
  Callers = {h, p1, p2}
  Servers = {1, 2}
  MaxLoads = 2
  MaxCalls = 5
INVARIANTS TypeOK ObjectOutlivesProc CallIsDone DataLives NoServerLeft
PROPERTIES CallReturns UnloadReturns
CHECK_DEADLOCK FALSE
CONSTRAINT NotCrossed
