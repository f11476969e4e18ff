CONSTANTS
  Conns = {c1, c2}
  big = big
  small = small
  Boards = {big, small}
  Matches <- MCMatches
  MaxDocs <- MCMaxDocs
  AskedIds <- MCAskedIds
SPECIFICATION FairSpec
CHECK_DEADLOCK FALSE
INVARIANTS
  OneWorker
  QueriesSeeUpdates
  NothingRunsAtExit
PROPERTIES
  RequestsEnd
  ShutdownEnds
