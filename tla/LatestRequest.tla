---------------------------- MODULE LatestRequest ----------------------------
(***************************************************************************)
(* What the main window of QGLE relies on when it asks its rendering worker *)
(* for images: only the last request counts, answers come in the order of   *)
(* the requests they answer, none is given more than twice, and the last    *)
(* request is answered unless the window is closed.  RenderThread is shown  *)
(* to implement it with one slot, a mutex and a flag; the main window       *)
(* (module Preview) is built on it.                                         *)
(***************************************************************************)
EXTENDS Naturals, Sequences

VARIABLES
  asked,    \* number of requests made so far
  working,  \* the request the worker is at, 0: none
  last,     \* the request it has taken last
  times,    \* how many times it has taken that one
  answers,  \* requests answered, the window has not seen it yet
  shown,    \* the last answer the window has seen
  closed    \* the window is being closed

vars == <<asked, working, last, times, answers, shown, closed>>

Init ==
  /\ asked = 0 /\ working = 0 /\ last = 0 /\ times = 0 /\ shown = 0
  /\ answers = << >>
  /\ closed = FALSE

Ask ==
  /\ ~closed
  /\ asked' = asked + 1
  /\ UNCHANGED <<working, last, times, answers, shown, closed>>

\* The worker takes the last request, whatever it has done before.
Take ==
  /\ ~closed
  /\ working = 0 /\ asked > 0
  /\ last = asked => times < 2
  /\ working' = asked
  /\ last' = asked
  /\ times' = IF last = asked THEN times + 1 ELSE 1
  /\ UNCHANGED <<asked, answers, shown, closed>>

Answer ==
  /\ working > 0
  /\ working' = 0
  /\ answers' = Append(answers, working)
  /\ UNCHANGED <<asked, last, times, shown, closed>>

Deliver ==
  /\ answers # << >>
  /\ shown' = Head(answers)
  /\ answers' = Tail(answers)
  /\ UNCHANGED <<asked, working, last, times, closed>>

Close ==
  /\ ~closed
  /\ closed' = TRUE
  /\ UNCHANGED <<asked, working, last, times, answers, shown>>

Next == Ask \/ Take \/ Answer \/ Deliver \/ Close

\* A request taken twice need not be: only new ones oblige the worker.
Fairness ==
  /\ WF_vars(last < asked /\ Take)
  /\ WF_vars(Answer)
  /\ WF_vars(~closed /\ Deliver)

Spec == Init /\ [][Next]_vars /\ Fairness
=============================================================================
