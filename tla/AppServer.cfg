CONSTANTS
  d1 = d1
  d2 = d2
  Docs = {d1, d2}
  MinerSize = 2
  AnalysisSize = 1
  Tries = 2
  MaxRel = 1
  MaxFaults = 2
  Absent = Absent
  None = None
  Lost = Lost
  Failed = Failed
SPECIFICATION FairSpec
INVARIANTS
  FreshUnlessCached
  CachesBounded
PROPERTIES
  AnswersBelong
  PostsEnd
  Recovers
