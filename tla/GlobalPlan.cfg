SPECIFICATION Spec
CONSTANTS
  e = e
  n = n
  w = w
  Points <- MCPoints
  Dist <- MCDist
  Yaws = {e, n, w}
  Close <- MCClose
  TerminalClose <- MCAnyYaw
  Plans <- MCPlans
  PruneDistance = 2
  NearDistance = 1
  Window = 2
  Lookahead = 1
  XyTolerance = 0
  SurgeYaw = TRUE
  OverwriteOrientation = TRUE
  ShrinkHorizon = TRUE
  MaxInfeasible = 1
  MaxPlans = 1
  MaxDrifts = 1
INVARIANTS
  TurnsAreTaken
  ArrivalAfterTurns
  LocalGoalBeforeTurn
PROPERTIES
  RotationsRetained
