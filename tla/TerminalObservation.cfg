SPECIFICATION Spec
CONSTANTS
  MaxPlans = 3
  MaxCycles = 4
CHECK_DEADLOCK FALSE
INVARIANTS
  ReachedGoalIsCurrent
PROPERTIES
  EpochNeverGoesBack
