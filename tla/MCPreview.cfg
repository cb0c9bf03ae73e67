CONSTANTS
  c1 = c1
  c2 = c2
  a = a
  b = b
  Clients = {c1, c2}
  Files = {a, b}
  Wants <- MCWants
  MayFail = {b}
  Data = data
  Changing = {a, data}
  MaxActions = 1
  MaxDialogs = 1
SPECIFICATION Spec
CHECK_DEADLOCK FALSE
INVARIANTS
  OwnAnswer
  BackToNormal
  ShowsOpenFile
PROPERTIES
  ChangeNoticed
  ClientServed
  ServerQuits
