SPECIFICATION ServicesSpec
CONSTANTS
  Clients = {k1, k2}
  Participants = {c1, c2}
  Owner = owner
  Ops = {"add", "remove", "start", "stop", "open", "close"}
  MaxObjects = 3
  Disciplined = TRUE
  Rtcs = {r1, r2}
  Users = {u1, u2}
  Servers = {s1}
  MaxNumber = 1
  NoRtc = NoRtc
  Main = Main
  ShutsDown = TRUE
  Orderly = TRUE
INVARIANTS ServicesTypeOK   KnownByName
PROPERTIES ListsAreServed  BoundAgain
CHECK_DEADLOCK FALSE
