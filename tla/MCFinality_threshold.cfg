SPECIFICATION Spec
CONSTANTS
  Urls = {u1}
  ThreadsPerUrl = 2
  Kinds = {prevotes}
  v1 = v1
  v2 = v2
  v3 = v3
  Validators = {v1, v2, v3}
  Active <- StaticSet
  Offline = {v1}
  RawCap = 2
  ProcCap = 2
  OutagedCap = 3
  MaxRound = 3
  MaxSession = 1
  MaxFailures = 1
  Null = Null
INVARIANTS
  UnmarkedIsPolled
