SPECIFICATION FairSpec
CONSTANTS
  MaxHeight = 3
  MaxFailures = 1
  EventCounts = {0, 3}
  Blank = Blank
CHECK_DEADLOCK FALSE
PROPERTIES
  FailureRestarts
