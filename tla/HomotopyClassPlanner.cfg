SPECIFICATION Spec
CONSTANTS
  a = a  b = b  c = c  nan = nan  plusnan = plusnan  minusnan = minusnan
  None = None  NoCost = NoCost
  Tebs = {1,2,3,4,5}
  Sigs = {a, b, nan}
  ValidSigs <- MCValidApart
  Similar <- MCSimilarApart
  InitialSigs = {a, nan}
  Costs = {2, 3}
  MaxClasses = 2
  MaxPlansInCurrentClass = 2
  Weight <- MCWeight
  BlockingPeriod = 0
  DeleteDetours = TRUE
  DropRandomly = TRUE
  ViaPointsAllCandidates = FALSE
INVARIANTS
  AtMostMaxClasses
  ContainersInStep
  ClassesMatchTebs
  SelectionIsACandidate
  CheckedTebIsCommanded
PROPERTIES
  BestSurvivesExploration
  SwitchIsEarned
