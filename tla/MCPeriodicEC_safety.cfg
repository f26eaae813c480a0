CONSTANTS
  k1 = k1
  k2 = k2
  N = 1
  Clients <- TwoClients
  Ops <- AllOps
  SyncOps <- AllRequests
  Timeouts = TRUE
  CanFail <- AllFailures
SYMMETRY ClientSymmetry
SPECIFICATION Spec
PROPERTY LifeCycle
CHECK_DEADLOCK FALSE
