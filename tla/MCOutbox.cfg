SPECIFICATION Spec
CONSTANTS
  e1 = e1  e2 = e2  w1 = w1  w2 = w2
  Event <- MCEvent
  Worker <- MCWorker
  CreatedAt <- MCCreatedAt
  NumSync <- MCNumSync
  NumAsync <- MCNumAsync
  MaxHandlers = 2
  Retries = 1
  MaxAttempts = 2
  BatchLimit = 2
  FaultBudget = 1
SYMMETRY MCWorkerSymmetry
INVARIANTS
  ClaimExclusive
  NotifiedAfterHandled
PROPERTIES
  ImplementsDelivery
