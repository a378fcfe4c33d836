SPECIFICATION Spec
CONSTANTS
  Urls = {u1, u2}
  ThreadsPerUrl = 1
  Kinds = {prevotes}
  v1 = v1
  v2 = v2
  v3 = v3
  Validators = {v1, v2, v3}
  Active <- LeavingSet
  Offline = {v3}
  RawCap = 2
  ProcCap = 2
  OutagedCap = 3
  MaxRound = 2
  MaxSession = 2
  MaxFailures = 0
  Null = Null
INVARIANTS
  TypeOK
  VotesWithinRounds
  OfflineNeverCredited
  VotesKeptPerNode
  ProcessedDistinct
