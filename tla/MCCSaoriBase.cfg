SPECIFICATION Spec
CONSTANTS
  MaxObjects = 2
  MaxRequests = 3
  CallIdLimit = 3
INVARIANTS
  LoadUnloadPaired
  ReadyMeansLoaded
  AnswerIsOwn
PROPERTIES
  CallIdsDiffer
  KeepsContract
