CONSTANTS
  Obstacles <- MCObstacles
  ViaPoints <- MCViaPoints
  Configs <- MCCandidateConfigs
  Positions = {0, 4}
  Durations = {1, 9}
  MaxHeading = 8
  Null = Null
SPECIFICATION Spec
INVARIANT CostIsOfThisBand
