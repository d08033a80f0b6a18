SPECIFICATION Spec
CONSTANTS
  Ghosts <- MCGhosts
  Keys <- MCKeys
  Texts <- MCTexts
  Empty = ""
  Fold <- MCFold
  Trunc <- MCTrunc
  Cut <- MCCut
  Batches <- MCBatches
  Queries <- MCQueries
  MaxWrites = 2
  MaxFailures = 1
INVARIANTS
  TypeOK
  OneOfEach
PROPERTIES
  ImplementsStore
VIEW MCView
