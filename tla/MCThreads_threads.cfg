SPECIFICATION ThreadsSpec
CONSTANTS
  Room = 2
  Comps = {x1, x2}
  NTasks = 2
  Sets = {default, s1}
  Default = default
  NoSet = NoSet
  Params = {p1}
  Versions = {1, 2}
  Editors = {e1, e2}
  Length = 2
  SpuriousWakes = FALSE
  Setups <- EveryPush
  SkipCount = 1
  Failures <- AnyFailure
  MaxWrites = 3
  Disconnects = TRUE
INVARIANTS ThreadsTypeOK NeverBothStuck HandedOver LastTickKept MembersInStep ActiveSetApplied
PROPERTIES HookLeavesPassAlone RequestServed PassEnds SentOnceInOrder SentAtRate
CHECK_DEADLOCK FALSE
