CONSTANTS
  Sources <- LoopInSub
  MaxLines <- SixLines
  MaxPasses <- Passes
  Redefine = FALSE
  Vars = {1}
  MaxDepth = 2
SPECIFICATION RunSpec
INVARIANTS
  FirstValueTested
\* The program ends.
CHECK_DEADLOCK FALSE
