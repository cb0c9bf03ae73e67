SPECIFICATION Spec
CONSTANTS
  Options <- MCOptions
  UsesPoppler = TRUE
  MaxRuns = 2
  MaxFaults = 1
INVARIANTS RequestedDone NoPreviousOutput NoLeftovers RefusedForCause
PROPERTIES UserTeXUntouched
CHECK_DEADLOCK FALSE
