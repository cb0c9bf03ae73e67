CONSTANTS
  Scripts = {s1}
  MaxRequests = 3
  Poppler = TRUE
SPECIFICATION Spec
INVARIANTS
  NoPreviousRendering
CHECK_DEADLOCK FALSE
