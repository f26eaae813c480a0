SPECIFICATION FairSpec
CONSTANTS
  w1 = w1
  w2 = w2
  r1 = r1
  r2 = r2
  nobody = nobody
  Writers <- OneWriter
  Readers <- OneReader
  Nobody = nobody
  Length = 2
  WritePolicy = "block"
  ReadPolicy = "block"
  TimeoutGiven <- PolicyOnly
  TimersExpire = FALSE
  SpuriousWakes = FALSE
  MaxWrites = 4
  MaxReads = 4
PROPERTIES WriterReleased
CHECK_DEADLOCK FALSE
