SPECIFICATION Spec
CONSTANTS
  w1 = w1
  w2 = w2
  r1 = r1
  r2 = r2
  nobody = nobody
  Writers <- TwoWriters
  Readers <- TwoReaders
  Nobody = nobody
  Length = 2
  WritePolicy = "overwrite"
  ReadPolicy = "readback"
  TimeoutGiven <- Both
  TimersExpire = TRUE
  SpuriousWakes = TRUE
  MaxWrites = 4
  MaxReads = 2
SYMMETRY Symmetry
INVARIANTS PointersAgree LatestKept
CHECK_DEADLOCK FALSE
