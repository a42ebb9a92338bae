SPECIFICATION FairSpec
CONSTANTS
  e1 = e1  w1 = w1  w2 = w2
  Event <- MCEvent
  Worker <- MCWorker
  CreatedAt <- MCCreatedAt
  NumSync <- MCNumSync
  NumAsync <- MCNumAsync
  MaxHandlers = 2
  Retries = 1
  MaxAttempts = 2
  BatchLimit = 1
  FaultBudget = 3
INVARIANTS
  ProcessedWasHandled
PROPERTIES
  EventuallySettled
