SPECIFICATION Spec
CONSTANTS
  Urls = {u1}
  ThreadsPerUrl = 2
  Kinds = {prevotes}
  v1 = v1
  v2 = v2
  v3 = v3
  Validators = {v1, v2, v3}
  Active <- RotatingSet
  Offline = {v1, v2}
  RawCap = 2
  ProcCap = 2
  OutagedCap = 3
  MaxRound = 3
  MaxSession = 2
  MaxFailures = 0
  Null = Null
INVARIANTS
  OnlySuccessfulVotes
