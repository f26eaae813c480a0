SPECIFICATION FairSpec
CONSTANTS
  w1 = w1
  w2 = w2
  r1 = r1
  r2 = r2
  nobody = nobody
  Writers <- OneWriter
  Readers <- OneReader
  Nobody = nobody
  Length = 2
  WritePolicy = "do_nothing"
  ReadPolicy = "do_nothing"
  TimeoutGiven <- Both
  TimersExpire = TRUE
  SpuriousWakes = FALSE
  MaxWrites = 6
  MaxReads = 6
PROPERTIES BehavesAsFifo WrittenIsRead
CHECK_DEADLOCK FALSE
