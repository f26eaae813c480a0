CONSTANTS
  k1 = k1
  k2 = k2
  N = 2
  Clients <- OneClient
  Ops <- ServiceOps
  SyncOps <- AllRequests
  Timeouts = FALSE
  CanFail <- WorkFailures
SPECIFICATION FairSpec
INVARIANTS StoppedOnlyWhenInactive NoStrandedRequest
PROPERTIES SyncCallsAnswered DeactivationIsFinal CallsReturn ActiveAreExecuted
CHECK_DEADLOCK FALSE
