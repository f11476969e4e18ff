CONSTANTS
  MaxPage = 5
  Nums <- SomeNums
  MaxDeletes = 2
SPECIFICATION FairSearch
CHECK_DEADLOCK FALSE
INVARIANTS
  FoundPage
PROPERTIES
  SearchEnds
