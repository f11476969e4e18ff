CONSTANTS
  Names = {positive, negative, neutral}
  MaxDocs = 2
  MaxUpdates = 2
SPECIFICATION Spec
SYMMETRY NameSymmetry
CHECK_DEADLOCK FALSE
INVARIANTS
  OneUpdateAtATime
  LateDocumentShowsAll
