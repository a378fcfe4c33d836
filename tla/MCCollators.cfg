SPECIFICATION FairSpec
CONSTANTS
  a = a
  b = b
  Collators = {a, b}
  Active <- Listed
  PeriodLength = 2
  MaxBlock = 5
  MaxFailures = 1
  None = None
  Live = Live
INVARIANTS
  TypeOK
  NoOvercount
  BlocksAreDistinct
  PublishedIsWhole
PROPERTIES
  PagesGrow
  PeriodIsShown
