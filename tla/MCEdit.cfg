SPECIFICATION Spec
CONSTANTS
  Files = {"a"}
  NoName = "No Name"
  Scripts <- TheScripts
  Points = {0, 1}
  Colors = {1, 2}
  MaxObjects = 4
  MaxCommands = 2
  Lapses = {}
INVARIANTS ObjectsMatch OtherLinesKept CommitIsStable
PROPERTIES IsDocument
