SPECIFICATION FairSpec
CONSTANTS
  Urls = {u1}
  ThreadsPerUrl = 3
  Kinds = {prevotes}
  v1 = v1
  v2 = v2
  v3 = v3
  Validators = {v1, v2, v3}
  Active <- StaticSet
  Offline = {v1, v2}
  RawCap = 3
  ProcCap = 2
  OutagedCap = 3
  MaxRound = 2
  MaxSession = 1
  MaxFailures = 1
  Null = Null
INVARIANTS
  CountedByDistinctThreads
PROPERTIES
  ObservedIsCounted
