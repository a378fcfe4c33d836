SPECIFICATION FairSpec
CONSTANTS
  MaxHeight = 4
  MaxFailures = 2
  EventCounts = {0, 3}
  Blank = Blank
CHECK_DEADLOCK FALSE
INVARIANTS
  TypeOK
PROPERTIES
  FollowsHead
  EveryHeightIsTaken
