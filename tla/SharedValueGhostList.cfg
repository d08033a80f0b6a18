SPECIFICATION Spec
CONSTANTS
  Ghosts <- MCGhosts
  Keys <- MCKeys
  Texts <- MCTexts
  Empty = ""
  Fold <- MCFold
  Trunc <- MCTrunc
  Cut <- MCCut
  Batches <- MCBatches
  Queries <- MCQueries
  MaxWrites = 1
  MaxFailures = 0
INVARIANTS
  ListedGhostsStore
