---------------------------- MODULE RenderThread ----------------------------
(***************************************************************************)
(* GLERenderThread (src/src/gui/serverthread.cpp): the worker that turns    *)
(* the GLE script or EPS file open in QGLE into an image.                   *)
(*                                                                          *)
(* The GUI thread leaves ONE request in members guarded by a mutex (todo,   *)
(* gleScript, outFileName, ...) and wakes the worker; a newer request       *)
(* overwrites an older one that has not been taken.  The worker copies the  *)
(* members, runs the GLE interpreter and then Ghostscript or Poppler        *)
(* without the mutex, and emits renderComplete, a queued signal that the    *)
(* event loop of the GUI thread delivers later.                             *)
(*                                                                          *)
(* Each action below is one critical section of the mutex or one stretch    *)
(* the worker runs without it.                                              *)
(***************************************************************************)
EXTENDS Naturals, Sequences

CONSTANTS Scripts,      \* the GLEScript objects of the main window
          MaxRequests,  \* bound on the number of requests the GUI makes
          Poppler       \* HAVE_POPPLER: Cairo's PDF can be rasterised

ASSUME MaxRequestsAssumption == MaxRequests \in Nat
ASSUME PopplerAssumption == Poppler \in BOOLEAN

VARIABLES
  asked,    \* number of requests made; the last request has this number
  slot,     \* the request members: what to do, for which script, its number
  restart,  \* member restart
  abort,    \* member abort, set by the destructor
  pc,       \* where the worker is
  job,      \* the worker's copies of the members
  taken,    \* how many times the request in job has been taken
  bytes,    \* per script: the request whose output each buffer holds (0: empty)
  ran,      \* per script: the last request that ran the interpreter on it
  events,   \* renderComplete signals queued for the GUI thread
  shown     \* the last renderComplete the GUI thread has handled

gui    == <<asked, slot, abort>>
output == <<events, shown>>
vars   == <<asked, slot, restart, abort, pc, job, taken, bytes, ran,
            events, shown>>

FromMemory == {"EPSFromMemory", "PDFFromMemory"}
ToDo       == {"GLE", "EPSFromFile"} \cup FromMemory
Formats    == {"EPS", "PDF"}
Requests   == 0 .. MaxRequests

\* A request; number 0 is the state before the first one.
Request == [todo: ToDo, script: Scripts, req: Requests]
\* A rendered image: the request it answers and the output it shows (0: none).
Image   == [req: Requests, of: Requests]

\* isRunning(): start() was called and run() has not returned.
IsRunning == pc \notin {"off", "done"}
-----------------------------------------------------------------------------
Init ==
  /\ asked = 0
  /\ slot \in [todo: {"GLE"}, script: Scripts, req: {0}]
  /\ job = slot
  /\ restart = FALSE
  /\ abort = FALSE
  /\ pc = "off"
  /\ taken = 0
  /\ bytes = [s \in Scripts |-> [f \in Formats |-> 0]]
  /\ ran = [s \in Scripts |-> 0]
  /\ events = << >>
  /\ shown = [req |-> 0, of |-> 0]
-----------------------------------------------------------------------------
(***************************************************************************)
(* The GUI thread.                                                          *)
(***************************************************************************)

\* Mutants: the flag that makes a busy worker go round again is not set; the
\* sleeping worker is not woken.
PostSetsNoRestart(t, s) ==
  /\ ~abort
  /\ asked < MaxRequests
  /\ asked' = asked + 1
  /\ slot' = [todo |-> t, script |-> s, req |-> asked + 1]
  /\ pc' = CASE pc = "wait" -> "woken" [] ~IsRunning -> "take" [] OTHER -> pc
  /\ UNCHANGED restart

PostWakesNobody(t, s) ==
  /\ ~abort
  /\ asked < MaxRequests
  /\ asked' = asked + 1
  /\ slot' = [todo |-> t, script |-> s, req |-> asked + 1]
  /\ restart' = (IsRunning \/ restart)
  /\ pc' = IF IsRunning THEN pc ELSE "take"

\* The tail shared by the three render...ToImage functions: store the request,
\* then start the thread, or ask it to go round again and wake it.
Post(t, s) ==
  /\ ~abort
  /\ asked < MaxRequests
  /\ asked' = asked + 1
  /\ slot' = [todo |-> t, script |-> s, req |-> asked + 1]
  /\ IF IsRunning
       THEN /\ restart' = TRUE
            /\ pc' = IF pc = "wait" THEN "woken" ELSE pc
       ELSE /\ pc' = "take"
            /\ UNCHANGED restart

renderGLEToImage(s) ==
  /\ Post("GLE", s)
  /\ UNCHANGED <<abort, job, taken, bytes, ran, output>>

\* The recorded PDF is preferred to the recorded EPS.  Its only caller,
\* GLEMainWindow::renderEPS, makes the call when one of them is not empty.
renderOutputFromMemoryToImage(s) ==
  /\ \E f \in Formats : bytes[s][f] # 0
  /\ Post(IF Poppler /\ bytes[s]["PDF"] # 0 THEN "PDFFromMemory"
                                            ELSE "EPSFromMemory", s)
  /\ UNCHANGED <<abort, job, taken, bytes, ran, output>>

\* gleScript keeps the value it had.
renderEPSFromFileToImage ==
  /\ Post("EPSFromFile", slot.script)
  /\ UNCHANGED <<abort, job, taken, bytes, ran, output>>

\* The GUI event loop handles the next queued renderComplete.
Deliver ==
  /\ events # << >>
  /\ shown' = Head(events)
  /\ events' = Tail(events)
  /\ UNCHANGED <<gui, restart, pc, job, taken, bytes, ran>>

\* The first half of the destructor; the second half is wait(), which returns
\* in the states described by Joined.
Close ==
  /\ ~abort
  /\ abort' = TRUE
  /\ pc' = IF pc = "wait" THEN "woken" ELSE pc
  /\ UNCHANGED <<asked, slot, restart, job, taken, bytes, ran, output>>

Joined == abort /\ ~IsRunning
-----------------------------------------------------------------------------
(***************************************************************************)
(* The worker, GLERenderThread::run.                                        *)
(***************************************************************************)

Emit(image) == /\ events' = Append(events, image)
               /\ UNCHANGED shown

\* Mutant: the copies are not those of the request.
TakeMiscounts ==
  /\ pc = "take"
  /\ IF abort
       THEN /\ pc' = "done"
            /\ UNCHANGED <<job, taken>>
       ELSE /\ job' = [slot EXCEPT !.req = @ + 1]
            /\ taken' = IF slot.req = job.req THEN taken + 1 ELSE 1
            /\ pc' = IF slot.todo = "GLE" THEN "interpret" ELSE "rasterise"
  /\ UNCHANGED <<gui, restart, bytes, ran, output>>

\* Top of the loop: leave if asked to, else copy the request members.
Take ==
  /\ pc = "take"
  /\ IF abort
       THEN /\ pc' = "done"
            /\ UNCHANGED <<job, taken>>
       ELSE /\ job' = slot
            /\ taken' = IF slot.req = job.req THEN taken + 1 ELSE 1
            /\ pc' = IF slot.todo = "GLE" THEN "interpret" ELSE "rasterise"
  /\ UNCHANGED <<gui, restart, bytes, ran, output>>

\* Mutant: cleanUp leaves the PostScript buffer alone.
RecordedKeepsEPS(b, f, recorded) ==
  [g \in Formats |-> IF g = f /\ recorded THEN job.req ELSE b[g]]

\* GLEScript::cleanUp at the start of a render, then the recording of the
\* output, if the run gets that far.
Recorded(b, f, recorded) ==
  [g \in Formats |-> CASE g = f /\ recorded -> job.req
                       [] g = "EPS" /\ ~(g = f /\ recorded) -> 0
                       [] OTHER -> b[g]]

\* GLEInterface::renderGLE; Cairo (PDF) or not is read from the user's settings.
\* A run with errors may have recorded its output or not; it ends here, with
\* an empty image.
Interpret ==
  /\ pc = "interpret"
  /\ \E f \in IF Poppler THEN Formats ELSE {"EPS"}, recorded, failed \in BOOLEAN :
       /\ recorded \/ failed
       /\ bytes' = [bytes EXCEPT ![job.script] = Recorded(@, f, recorded)]
       /\ ran' = [ran EXCEPT ![job.script] = job.req]
       /\ IF failed
            THEN /\ Emit([req |-> job.req, of |-> 0])
                 /\ pc' = "settle"
                 /\ UNCHANGED job
            ELSE /\ job' = [job EXCEPT !.todo = IF f = "PDF" THEN "PDFFromMemory"
                                                             ELSE "EPSFromMemory"]
                 /\ pc' = "rasterise"
                 /\ UNCHANGED output
  /\ UNCHANGED <<gui, restart, taken>>

\* Ghostscript or Poppler; an EPS file that cannot be opened gives no image.
Rasterise ==
  /\ pc = "rasterise"
  /\ \E of \in CASE job.todo = "EPSFromMemory" -> {bytes[job.script]["EPS"]}
                 [] job.todo = "PDFFromMemory" -> {bytes[job.script]["PDF"]}
                 [] OTHER -> {0, job.req} :
       Emit([req |-> job.req, of |-> of])
  /\ pc' = "settle"
  /\ UNCHANGED <<gui, restart, job, taken, bytes, ran>>

\* Mutants: the worker sleeps without a look at restart; restart is not reset.
SettleIgnoresRestart ==
  /\ pc = "settle"
  /\ pc' = "wait"
  /\ restart' = FALSE
  /\ UNCHANGED <<gui, job, taken, bytes, ran, output>>

SettleKeepsRestart ==
  /\ pc = "settle"
  /\ pc' = IF restart THEN "take" ELSE "wait"
  /\ UNCHANGED <<gui, restart, job, taken, bytes, ran, output>>

\* Bottom of the loop: go round at once if a request came in, else sleep.
Settle ==
  /\ pc = "settle"
  /\ pc' = IF restart THEN "take" ELSE "wait"
  /\ restart' = FALSE
  /\ UNCHANGED <<gui, job, taken, bytes, ran, output>>

\* condition.wait returns with the mutex held again.
Wake ==
  /\ pc = "woken"
  /\ pc' = "take"
  /\ restart' = FALSE
  /\ UNCHANGED <<gui, job, taken, bytes, ran, output>>
-----------------------------------------------------------------------------
Worker == Take \/ Interpret \/ Rasterise \/ Settle \/ Wake

Next ==
  \/ \E s \in Scripts : \/ renderGLEToImage(s)
                        \/ renderOutputFromMemoryToImage(s)
  \/ renderEPSFromFileToImage
  \/ Deliver
  \/ Close
  \/ Worker

\* The operating system schedules the worker and the event loop runs; nothing
\* obliges the user to ask for anything or to quit.
Fairness == WF_vars(Worker) /\ WF_vars(Deliver)

Spec == Init /\ [][Next]_vars /\ Fairness
-----------------------------------------------------------------------------
TypeOK ==
  /\ asked \in Requests
  /\ slot \in Request
  /\ restart \in BOOLEAN
  /\ abort \in BOOLEAN
  /\ pc \in {"off", "take", "interpret", "rasterise", "settle", "wait",
             "woken", "done"}
  /\ job \in Request
  /\ taken \in Nat
  /\ bytes \in [Scripts -> [Formats -> Requests]]
  /\ ran \in [Scripts -> Requests]
  /\ events \in Seq(Image)
  /\ shown \in Image

\* The request answered by the last renderComplete emitted so far.
Answered == IF events = << >> THEN shown.req ELSE events[Len(events)].req

\* A worker asleep with nobody about to wake it has answered the last request
\* of the GUI: the wake-up of a request that arrives while the worker is busy,
\* or between its loop's two critical sections, is never lost.
NothingForgotten == pc = "wait" => Answered = asked

\* When the worker sleeps and the event queue is empty the GUI shows the answer
\* to its last request and not to an earlier one that was overtaken.
LastRequestShown == pc = "wait" /\ events = << >> => shown.req = asked

\* A request is rendered at most twice.  It is twice when it arrives just before
\* the worker copies it, for the worker then still sees restart set.
AtMostTwice == taken <= 2

\* An image made from recorded EPS shows the output of the last run of the
\* interpreter on its script, or nothing: what a failed run leaves in the buffer
\* of an earlier run is not shown.
EPSIsOfLastRun ==
  pc = "rasterise" /\ job.todo = "EPSFromMemory" =>
    bytes[job.script]["EPS"] \in {0, ran[job.script]}

\* Every image shows the output of the last run of the interpreter on its
\* script, or nothing: what a failed run leaves in the buffers of an earlier
\* run is not shown (gle.cpp: "Delete output so that QGLE does not display
\* previous rendering if there are errors").
NoPreviousRendering ==
  pc = "rasterise" /\ job.todo \in FromMemory =>
    LET f == IF job.todo = "PDFFromMemory" THEN "PDF" ELSE "EPS"
    IN  bytes[job.script][f] \in {0, ran[job.script]}

\* The worker with its slot and its flag is a worker that answers the latest
\* request: what it is at while it holds the mutex or sleeps is nothing.
Latest == INSTANCE LatestRequest WITH
  working <- IF pc \in {"interpret", "rasterise"} THEN job.req ELSE 0,
  last    <- job.req,
  times   <- taken,
  answers <- [k \in DOMAIN events |-> events[k].req],
  shown   <- shown.req,
  closed  <- abort

\* The worker implements LatestRequest, the answer in the end included: no request
\* the window relies on is lost between the two critical sections of its loop, and
\* the last request is answered unless the window is closed first.
AnswersLatest == Latest!Spec

\* Once abort is set the worker quits, so that the destructor returns
\* (serverthread.h: "Set true to quit").
AbortQuits == abort ~> Joined
=============================================================================
