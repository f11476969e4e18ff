CONSTANTS
  u0 = u0
  u1 = u1
  u2 = u2
  u3 = u3
  Readers = {r1}
  MaxId = 2
  MaxVer = 2
  CacheSize = 2
  MayStop = TRUE
  Urls <- DupUrls
  Url <- DupUrl
  Num <- MCNum
SPECIFICATION FairSpec
INVARIANTS
  WindowInv
PROPERTIES
  OnlyLateInsertsGoStale
  StopJoins
  WaitersAreServed
