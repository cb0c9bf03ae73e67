\* Two scripts, three requests: enough for a request to overtake another that is
\* being rendered, and for a third to follow in the same slot.
CONSTANTS
  Scripts = {s1, s2}
  MaxRequests = 3
  Poppler = TRUE
SPECIFICATION Spec
INVARIANTS
  TypeOK
  NothingForgotten
  LastRequestShown
  AtMostTwice
  EPSIsOfLastRun
PROPERTIES
  AnswersLatest
\* The worker sleeps for ever when nothing more is asked.
CHECK_DEADLOCK FALSE
