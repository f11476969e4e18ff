CONSTANTS
  MaxDocs = 5
  MaxPositive = 3
  Base = 2
  Weights <- SomeWeights
  SizeMod = 8
SPECIFICATION FairSpec
CHECK_DEADLOCK FALSE
INVARIANTS
  AnswersBestThree
PROPERTIES
  OnlyContentServes
