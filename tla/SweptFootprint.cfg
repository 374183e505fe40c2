CONSTANTS
  Width = 6
  Height = 5
  Half = 1
  HullX = 2
  HullY = 1
  Padding = 1
  AllowUnknown = FALSE
  Maps <- MCMaps
  Starts <- MCStarts
  Margins = {0, 2}
SPECIFICATION Spec
INVARIANTS
  HullOutOfUnknown
  NewCellsRefused
  PaddingRestored
  OverlapNeverDeepens
  TerminalEndpointClear
