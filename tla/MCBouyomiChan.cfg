SPECIFICATION Spec
CONSTANTS
  MaxLoads = 2
  MaxPieces = 3
INVARIANTS
  TypeOK
  NoLostWakeup
  InOrder
  NoThreadInFreedObject
PROPERTIES
  TalkReturns
  UnloadReturns
  EveryPieceTaken
CHECK_DEADLOCK FALSE
