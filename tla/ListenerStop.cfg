CONSTANTS
  Threads = {t1, t2}
  MaxArt = 3
  MaxId = 2
  PageSize = 1
  TightPages = 50
  InitialPosted = 2
  MaxDeleted = 0
  MaxFails = 1
  Quiet = TRUE
  MayStop = TRUE
SPECIFICATION FairSpec
CHECK_DEADLOCK FALSE
INVARIANTS
  NoThreadAfterStop
PROPERTIES
  StopEnds
  CatchesUp
