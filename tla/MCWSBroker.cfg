SPECIFICATION FairSpec
CONSTANTS
  MaxCalls = 3
  MaxInFlight = 2
  MaxBrokers = 2
  Ids = {1, 2}
  None = None
  Blank = Blank
  Pending = Pending
  Failed = Failed
  Closed = Closed
CHECK_DEADLOCK FALSE
INVARIANTS
  TypeOK
  AtMostOneFrame
  AnswersAreOwn
  WaiterIsTold
  ReplacedIsFinished
PROPERTIES
  CallsReturn
