CONSTANTS
  Scenes <- MCScenes
  Period = 1
  Capacity = 3
  Epsilon = 10
  MinDuration = 2
  MaxBack = 1
  MaxFailures = 1
SPECIFICATION Spec
INVARIANTS
  CommandIsChecked
  CapsAreObeyed
  CapsAreLifted
  CustomViaPointsKept
  RecoveryHasDirection
  PreferencesExpire
PROPERTIES
  RecoveryEnds
