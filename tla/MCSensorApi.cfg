SPECIFICATION Spec
CONSTANTS
  Sensors <- MCSensors
  Reports <- MCReports
  Empty = "none"
  MaxPlugs = 2
  MaxData = 3
  MaxMoves = 3
INVARIANTS
  TypeOK
  DataHeldOnce
  DeniedIsSilent
PROPERTIES
  Settles
CHECK_DEADLOCK FALSE
