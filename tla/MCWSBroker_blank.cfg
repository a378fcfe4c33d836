SPECIFICATION Spec
CONSTANTS
  MaxCalls = 2
  MaxInFlight = 1
  MaxBrokers = 1
  Ids = {1, 2}
  None = None
  Blank = Blank
  Pending = Pending
  Failed = Failed
  Closed = Closed
CHECK_DEADLOCK FALSE
INVARIANTS
  SuccessIsAnAnswer
