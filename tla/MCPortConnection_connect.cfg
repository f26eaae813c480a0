SPECIFICATION FairSpec
CONSTANTS
  in1 = in1
  out = out
  in2 = in2
  Ports <- ThePorts
  Providers <- InPorts
  Conns = {c1, c2}
  Clients = {k1, k2}
  PortLists <- OneOrder
  Limit <- LimitOfO
  Fan <- FanOfA
  Mortal = {out, in2}
  MaxCalls = 3
  NoLimit = NoLimit
  None = None
INVARIANTS WaitsInListOrder  LimitKept NoDoubleConnection
PROPERTIES DisconnectedMeansGone CallsReturn
CHECK_DEADLOCK FALSE
