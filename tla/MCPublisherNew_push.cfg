SPECIFICATION FairSpec
CONSTANTS
  Length = 2
  SpuriousWakes = TRUE
  Setups <- EveryPolicy
  SkipCount = 1
  Failures <- SomeFailures
  MaxWrites = 4
  Disconnects = TRUE
INVARIANTS NothingLost
PROPERTIES SentInOrder PushKeepsUp BorrowedSlotKept DeletionEnds
CHECK_DEADLOCK FALSE
