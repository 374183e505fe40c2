SPECIFICATION RouteSpec
CONSTANTS
  e = e
  n = n
  w = w
  Points <- MCPoints
  Dist <- MCDist
  Yaws = {e, w}
  Close <- MCSame
  TerminalClose <- MCSame
  Plans <- MCRoutes
  PruneDistance = 2
  NearDistance = 1
  Window = 2
  Lookahead = 2
  XyTolerance = 0
  SurgeYaw = TRUE
  OverwriteOrientation = TRUE
  ShrinkHorizon = TRUE
  MaxInfeasible = 1
  MaxPlans = 1
  MaxDrifts = 0
PROPERTIES
  RouteIsCompleted
