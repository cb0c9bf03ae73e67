CONSTANTS
  Scripts = {s1}
  MaxRequests = 1
  Poppler = FALSE
SPECIFICATION Spec
PROPERTIES
  AbortQuits
CHECK_DEADLOCK FALSE
