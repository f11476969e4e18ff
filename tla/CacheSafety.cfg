CONSTANTS
  u0 = u0
  u1 = u1
  u2 = u2
  u3 = u3
  Readers = {r1, r2}
  MaxId = 3
  MaxVer = 1
  CacheSize = 2
  MayStop = FALSE
  Urls <- MCUrls
  Url <- MCUrl
  Num <- MCNum
SPECIFICATION Spec
SYMMETRY ReaderSymmetry
INVARIANTS
  IndexInv
  AnswersTheId
  AnswersTheUrl
PROPERTIES
  EvictsOnlyTheOldest
