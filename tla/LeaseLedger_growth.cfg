CONSTANTS
  g1 = g1
  o1 = o1
  Growers <- OneGrower
  Owners <- OneOwner
  Weights = Weights
  Admin = Admin
  None = None
  Limits <- TwoLimits
  MaxRequest = 2
  MaxUsed = 2
SPECIFICATION FairSpec
CHECK_DEADLOCK FALSE
INVARIANTS
  UsedCoversLeases
  AllowancesCovered
  MappedWithinAllowance
PROPERTIES
  NoGrantBeyondLimit
  QueueServed
