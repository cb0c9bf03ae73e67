\* Every source of five lines: two chains of IF in each other, two loops in each
\* other with a line between, a subroutine and its caller.  Three lines leave room
\* for errors in each; the second source follows the first.
CONSTANTS
  Sources <- All
  MaxLines <- Lines
  MaxPasses <- Passes
  Redefine = FALSE
  Vars = {1, 2}
  MaxDepth = 2
SPECIFICATION RunSpec
INVARIANTS
  TypeOK
  AllPatched
  WellNested
  JumpsNest
  FirstValueTested
PROPERTIES
  Structured
\* The program ends.
CHECK_DEADLOCK FALSE
