SPECIFICATION Spec
CONSTANTS
  k1 = k1
  c1 = c1
  Clients <- OneClient
  Participants <- OneParticipant
  Owner = owner
  Ops <- AddOps
  MaxObjects = 3
  Disciplined = TRUE
PROPERTIES
  StableIteration
CHECK_DEADLOCK FALSE
