CONSTANTS
  Threads = {t1, t2}
  MaxArt = 5
  MaxId = 4
  PageSize = 2
  TightPages = 50
  InitialPosted = 4
  MaxDeleted = 1
  MaxFails = 1
  Quiet = TRUE
  MayStop = FALSE
SPECIFICATION Spec
SYMMETRY ThreadSymmetry
INVARIANTS
  MirrorInOrder
  NothingSkipped
  CompleteIsComplete
