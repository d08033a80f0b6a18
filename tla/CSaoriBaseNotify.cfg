SPECIFICATION Spec
CONSTANTS
  MaxObjects = 1
  MaxRequests = 1
  CallIdLimit = 3
INVARIANTS
  NotifyAnswersNothing
