CONSTANTS
  new = new
  fill = fill
  Adders = {new, fill}
  Assigned <- All
  Readers = {}
  MaxId = 1
  MaxVer = 2
  MayUpdate = TRUE
  MayFail = TRUE
  MayStop = FALSE
  MaxCrashes = 1
  Num <- InOrder
SYMMETRY AddersAlike
SPECIFICATION Spec
INVARIANTS
  RecentAllRefetched
PROPERTIES
  OnlyRacesOverwrite
  MirrorsPages
