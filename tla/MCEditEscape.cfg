SPECIFICATION Spec
CONSTANTS
  Files = {"a"}
  NoName = "No Name"
  Scripts <- TheScripts
  Points = {0, 1}
  Colors = {1, 2}
  MaxObjects = 5
  MaxCommands = 2
  Lapses = {"escape"}
PROPERTIES IsDocument
