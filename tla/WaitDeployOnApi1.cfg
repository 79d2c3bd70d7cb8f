SPECIFICATION Spec
CONSTANTS
  Timeout = 20
  PollDelay = 4
  RetryDelay = 5
  MaxRetries = 3
  Lag = 1
  Horizon = 28
  GetInfo = "getDeploy"
  Origin = "Deploy"
  NodeApi = 1
INVARIANT LegacyResultConfirms
CHECK_DEADLOCK FALSE
