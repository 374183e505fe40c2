SPECIFICATION FairSpec
CONSTANTS
  a = a  b = b  c = c  nan = nan  plusnan = plusnan  minusnan = minusnan
  None = None  NoCost = NoCost
  Tebs = {1, 2, 3, 4, 5, 6}
  Sigs = {a, b, c, nan}
  ValidSigs <- MCValidSides
  Similar <- MCSimilarSides
  InitialSigs = {None}
  Costs = {2}
  MaxClasses = 3
  MaxPlansInCurrentClass = 1
  Weight <- MCWeight
  BlockingPeriod = 0
  DeleteDetours = TRUE
  DropRandomly = FALSE
  ViaPointsAllCandidates = FALSE
INVARIANTS
  CurrentClassBounded
PROPERTIES
  CallsReturn
