CONSTANTS
  Obstacles <- MCObstacles
  ViaPoints <- MCViaPoints
  Configs <- MCConfigs
  Positions = {0, 4}
  Durations = {1, 9}
  MaxHeading = 8
  Null = Null
SPECIFICATION Spec
INVARIANTS
  GraphMatchesBand
  AnswerExecutable
PROPERTIES
  SeedAlwaysFeasible
  TurnKept
  ImplementsInterface
