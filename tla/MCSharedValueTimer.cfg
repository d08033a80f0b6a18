SPECIFICATION TimedSpec
CONSTANTS
  Ghosts <- MCGhosts
  Keys <- MCKeys
  Texts <- MCTexts
  Empty = ""
  Fold <- MCSame
  Trunc <- MCSame
  Cut <- MCCut
  Batches <- MCBatches
  Queries <- MCQueries
  MaxWrites = 2
  MaxFailures = 1
  SaveAfter = 3
  Interval = 2
  Jumps <- MCJumps
  MaxTime = 7
  MaxMisses = 1
CONSTRAINT MCNear
INVARIANTS
  BoundedLoss
VIEW MCView
