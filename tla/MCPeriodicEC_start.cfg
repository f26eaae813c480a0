CONSTANTS
  k1 = k1
  k2 = k2
  N = 1
  Clients <- OneClient
  Ops <- ActivationOps
  SyncOps <- AllRequests
  Timeouts = TRUE
  CanFail <- NoFailure
SPECIFICATION Spec
INVARIANT StoppedOnlyWhenInactive
