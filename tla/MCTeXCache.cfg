\* Three runs, for an edit after an edit; one fault, which may hit any of them.
CONSTANTS
  Texts <- MCTexts
  Preambles <- MCPreambles
  Default = "article"
  Scripts <- MCScripts
  MaxRuns = 3
  MaxFaults = 1
SPECIFICATION Spec
INVARIANTS
  TypeOK
  OwnDimensions
  MeasuredInThisRun
  SizesOfPreamble
PROPERTIES
  PassesEnd
\* There are only so many runs.
CHECK_DEADLOCK FALSE
