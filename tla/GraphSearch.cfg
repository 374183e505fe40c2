CONSTANTS
  Scenes <- MCScenes
  MaxClasses = 5
SPECIFICATION Spec
INVARIANTS
  SearchIsComplete
  CandidatesAreDistinct
  CandidatesAreFree
  DistancesAreTrue
CHECK_DEADLOCK FALSE
