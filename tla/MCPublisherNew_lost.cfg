SPECIFICATION FairSpec
CONSTANTS
  Length = 2
  SpuriousWakes = FALSE
  Setups <- HealthyNew
  SkipCount = 1
  Failures <- SomeFailures
  MaxWrites = 3
  Disconnects = FALSE
PROPERTIES StoredIsSent
CHECK_DEADLOCK FALSE
