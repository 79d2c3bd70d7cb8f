SPECIFICATION FairSpec
CONSTANTS
  Timeout = 20
  PollDelay = 4
  RetryDelay = 5
  MaxRetries = 3
  Lag = 1
  Horizon = 28
  GetInfo = "getTransactionByTransactionHash"
  Origin = "TransactionV1"
  NodeApi = 2
INVARIANTS ResolvesOnlyWhenExecuted RetryBudget KeepsTimeout NothingPilesUp ExecutionNotMissed
PROPERTIES SilentOnceSettled Settles ImplementsPromise
CHECK_DEADLOCK FALSE
