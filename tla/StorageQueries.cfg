CONSTANTS
  new = new
  fill = fill
  Adders = {new, fill}
  Assigned <- Meeting
  Readers = {r1}
  MaxId = 2
  MaxVer = 1
  MayUpdate = TRUE
  MayFail = FALSE
  MayStop = TRUE
  MaxCrashes = 1
  Num <- InOrder
SPECIFICATION Spec
INVARIANTS
  MaxIdIsNewest
  SearchFinds
  TornOnlyByCrash
PROPERTIES
  OldestIsAboveGap
