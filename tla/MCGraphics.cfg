CONSTANTS
  Families <- MCFamilies
  MaxLen = 7
  Lapses = {}
SPECIFICATION Spec
INVARIANTS DrawnAsWritten DeviceAsBelieved
\* A script ends; an empty box ends it too.
CHECK_DEADLOCK FALSE
