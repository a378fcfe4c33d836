SPECIFICATION FairSpec
CONSTANTS
  v1 = v1
  v2 = v2
  Validators = {v1, v2}
  Era <- TwoEras
  Para <- ParaSets
  Active <- Everyone
  Unapplied <- Slashes
  SlashDepth = 2
  SessionLength = 2
  MaxSession = 5
  MaxPoints = 3
  None = None
INVARIANTS
  TypeOK
  SessionIsInEra
  PointsAddUp
  ShowsParavalidators
  MissesOnlyWhilePublishing
PROPERTIES
  LedgerSpec
  SessionIsShown
