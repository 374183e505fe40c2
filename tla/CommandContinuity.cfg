SPECIFICATION Spec
CONSTANTS
  r1 = r1
  r2 = r2
  Routes <- MCRoutes
  Horizons <- MCHorizons
  Requests <- MCRequests
  Limits <- MCLimits
  Period = 2
  Acc = 1
  AngularAcc = 1
  MaxTime = 5
INVARIANTS
  LimitsOverruleHistory
  HistoryOfItsRoute
PROPERTIES
  FollowsReference
