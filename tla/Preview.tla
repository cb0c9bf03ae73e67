------------------------------- MODULE Preview -------------------------------
(***************************************************************************)
(* QGLE as a previewer: "gle -p" processes send the name of a script to the *)
(* GLEServerThread (serverthread.cpp), which passes it to the main window   *)
(* (mainwindow.cpp) as a queued signal and sends back whatever message the  *)
(* main window leaves for it.  The main window opens files for them, for    *)
(* the user and for its own monitor of changed files (fileinfo.cpp), and    *)
(* has them rendered by the worker, here any worker that satisfies          *)
(* LatestRequest.  Its slots are atomic but for the questions they ask: the *)
(* event loop of a question goes on handling events.                        *)
(***************************************************************************)
EXTENDS Naturals, Sequences, SequencesExt, Functions

CONSTANTS
  Clients,     \* the gle -p processes, each sends one request
  Files,       \* the GLE scripts
  Wants,       \* the script of each gle -p process
  MayFail,     \* the scripts that cannot always be read or run
  Data,        \* a file every script reads
  Changing,    \* the files among them that other programs write
  MaxActions,  \* bound on what the user and other programs do
  MaxDialogs   \* bound on questions the monitor asks inside of others

ASSUME WantsAssumption == Wants \in [Clients -> Files]
ASSUME MayFailAssumption == MayFail \subseteq Files
ASSUME DataAssumption == Data \notin Files
ASSUME ChangingAssumption == Changing \subseteq Files \cup {Data}
ASSUME BoundsAssumption == MaxActions \in Nat /\ MaxDialogs \in Nat

None == "none"
Nobody == "nobody"

ASSUME ClientsAssumption == Clients \cap {Nobody, "user", "monitor"} = {}

VARIABLES
  client,   \* the gle -p processes; "misled" if the answer was not the own one
  own,      \* what the client being served should be answered, {}: anything
  srv,      \* the server thread: where it is, its client, the member message
  abort,    \* set by the destructors of the threads
  events,   \* signals queued for the main window
  dialogs,  \* its open questions, the innermost last
  win,      \* the main window
  mon,      \* its monitor of changed files
  auto,     \* settings->monitorautoFile()
  disk,     \* how often each file has been written
  asked,    \* number of renderings asked for
  slot,     \* the last one
  job,      \* the one the worker is at
  working, last, times, shown,  \* the worker, as in LatestRequest
  actions,  \* what the user and other programs have done
  mixed     \* something else than one client after the other was rendered

worker == <<working, last, times, job>>
request == <<asked, slot>>
vars == <<client, own, srv, abort, events, dialogs, win, mon, auto, disk,
          request, worker, shown, actions, mixed>>

\* The requests the worker has answered and the window has not seen.
Answers(queue) ==
  LET done == SelectSeq(queue, LAMBDA e : e.what = "complete")
  IN  [k \in DOMAIN done |-> done[k].req]

Worker == INSTANCE LatestRequest WITH
  answers <- Answers(events), closed <- abort

\* What a run of a script shows: the versions of the script and of the data.
Versions == 0 .. MaxActions
Image == [file: Files \cup {None}, ver: Versions, data: Versions]
Blank == [file |-> None, ver |-> 0, data |-> 0]
\* A request: run a script, or make another image of what it has recorded.
Job == [kind: {"run", "zoom"}, script: Nat, of: Image]
NoJob == [kind |-> "zoom", script |-> 0, of |-> Blank]
NotMonitored == MaxActions + 1

Init ==
  /\ client = [c \in Clients |-> "off"] /\ own = {}
  /\ srv = [pc |-> "listen", conn |-> Nobody, message |-> << >>]
  /\ abort = FALSE
  /\ events = << >> /\ dialogs = << >>
  /\ win = [todo |-> FALSE, console |-> {}, file |-> None, script |-> 0,
            dirty |-> FALSE, enable |-> TRUE, recorded |-> Blank, image |-> Blank]
  /\ mon = [timer |-> TRUE, ticks |-> 0, stamp |-> 0,
            data |-> NotMonitored, infos |-> FALSE]
  /\ auto \in BOOLEAN
  /\ disk = [f \in Files \cup {Data} |-> 0]
  /\ asked = 0 /\ slot = NoJob /\ job = NoJob
  /\ working = 0 /\ last = 0 /\ times = 0 /\ shown = 0
  /\ actions = 0 /\ mixed = FALSE
-----------------------------------------------------------------------------
(***************************************************************************)
(* The gle -p processes and the server thread.                              *)
(***************************************************************************)
gui == <<dialogs, win, mon, auto, disk, request, worker, shown, actions>>

\* waitForNewConnection, unless the thread is to quit: gle_preview_file connects
\* and sends the name of its script.
Listen ==
  /\ srv.pc = "listen"
  /\ IF abort
       THEN srv' = [srv EXCEPT !.pc = "gone"]
       ELSE \E c \in Clients : /\ client[c] = "off"
                               /\ srv' = [srv EXCEPT !.pc = "read", !.conn = c]
  /\ UNCHANGED <<client, own, abort, events, gui, mixed>>

\* The thread quits; the client sees its connection close.
CutOff ==
  /\ srv' = [srv EXCEPT !.pc = "gone", !.conn = Nobody]
  /\ client' = [client EXCEPT ![srv.conn] = "cut"]
  /\ UNCHANGED own

\* The request is read and passed on to the main window.
Read ==
  /\ srv.pc = "read"
  /\ IF abort
       THEN CutOff /\ UNCHANGED events
       ELSE /\ srv' = [srv EXCEPT !.pc = "look"]
            /\ client' = [client EXCEPT ![srv.conn] = "waiting"]
            /\ UNCHANGED own
            /\ events' = Append(events, [what |-> "open", by |-> srv.conn])
  /\ UNCHANGED <<abort, gui, mixed>>

\* Mutant: the message stays for the next client.
ReplyKeepsMessage ==
  /\ srv' = [srv EXCEPT !.pc = "listen", !.conn = Nobody]
  /\ client' = [client EXCEPT ![srv.conn] =
       IF own \in {{}, srv.message[1]} THEN "answered" ELSE "misled"]
  /\ own' = {}

\* The message is sent on and the connection closed.
Reply ==
  /\ srv' = [pc |-> "listen", conn |-> Nobody, message |-> << >>]
  /\ client' = [client EXCEPT ![srv.conn] =
       IF own \in {{}, srv.message[1]} THEN "answered" ELSE "misled"]
  /\ own' = {}

\* Holding the mutex: quit, send the message on, or wait for one.
Look ==
  /\ srv.pc = "look"
  /\ CASE abort -> CutOff
       [] ~abort /\ srv.message # << >> -> Reply
       [] OTHER -> srv' = [srv EXCEPT !.pc = "asleep"] /\ UNCHANGED <<client, own>>
  /\ UNCHANGED <<abort, events, gui, mixed>>

Server == Listen \/ Read \/ Look

\* Mutants: nobody is woken.
SendWakesNobody(text) == srv' = [srv EXCEPT !.message = <<text>>]

CloseWakesNobody ==
  /\ ~abort /\ dialogs = << >>
  /\ UNCHANGED <<srv, client, own, events, gui, mixed>>
  /\ Worker!Close

\* The text is put in place of an earlier one and the server is woken.
sendMessageToGLEMinusP(text) ==
  srv' = [srv EXCEPT !.message = <<text>>,
                     !.pc = IF @ = "asleep" THEN "look" ELSE @]

\* The event loop has ended and the destructors of the threads run.
Close ==
  /\ ~abort /\ dialogs = << >>
  /\ srv' = [srv EXCEPT !.pc = IF @ = "asleep" THEN "look" ELSE @]
  /\ UNCHANGED <<client, own, events, gui, mixed>>
  /\ Worker!Close
-----------------------------------------------------------------------------
(***************************************************************************)
(* The slots of the main window.                                            *)
(***************************************************************************)

\* Mutants: the actions stay disabled; the list of things to do is kept.
ShownDisabled(w, image) == [w EXCEPT !.image = image, !.todo = FALSE]
ShownKeepsTodo(w, image) == [w EXCEPT !.enable = TRUE, !.image = image]

\* The window w with its actions enabled, an image and nothing left to do.
Shown(w, image) == [w EXCEPT !.enable = TRUE, !.image = image, !.todo = FALSE]

\* An image is there: the files its run has read are monitored from now on and
\* what is to be done after opening a file is done.
renderComplete(w, m, image) ==
  LET files == [m EXCEPT !.data = IF m.infos THEN disk[Data] ELSE NotMonitored]
  IN  /\ win' = Shown(w, image)
      /\ IF w.todo
           THEN /\ sendMessageToGLEMinusP(w.console)
                /\ mon' = [files EXCEPT !.timer = TRUE, !.ticks = 0]
           ELSE mon' = files /\ UNCHANGED srv

\* Mutant: a busy worker is not asked.
AskUnlessBusy(kind, script, of) ==
  IF working > 0
    THEN UNCHANGED <<request, worker, shown, abort>>
    ELSE /\ asked' = asked + 1
         /\ slot' = [kind |-> kind, script |-> script, of |-> of]
         /\ UNCHANGED job
         /\ Worker!Ask

\* A rendering is asked for.
Ask(kind, script, of) ==
  /\ asked' = asked + 1
  /\ slot' = [kind |-> kind, script |-> script, of |-> of]
  /\ UNCHANGED job
  /\ Worker!Ask

\* Nothing else is going on than that file is opened.
Alone ==
  /\ srv.message = << >> /\ ~win.todo /\ working = 0 /\ dialogs' = << >>
  /\ \A k \in DOMAIN events' : events'[k].what = "open"

\* When the file of client by is opened by rendering n, or somebody else opens
\* one.  (A reload of the monitor can replace an answer not sent on yet.)
Expecting(by, n) ==
  CASE by = srv.conn /\ client[by] = "waiting" /\ (Alone \/ ~mixed) -> {n}
    [] by = "user" \/ (by = "monitor" /\ srv.message # << >>) -> {}
    [] OTHER -> own

\* openFile once the changes to the old file, d being what is on disk then, are
\* out of the way.
LoadFile(by, f, d) ==
  LET w == [win EXCEPT !.todo = TRUE, !.console = {}, !.dirty = FALSE, !.recorded = Blank]
      m == [mon EXCEPT !.timer = FALSE, !.ticks = 0, !.infos = FALSE]
      n == asked + 1
      of == [file |-> f, ver |-> d[f], data |-> 0]
  IN  /\ mixed' = (mixed \/ by \notin Clients)
      /\ disk' = d
      /\ \/ /\ Ask("run", n, of)
            /\ win' = [w EXCEPT !.file = f, !.script = n, !.enable = FALSE]
            /\ mon' = [m EXCEPT !.stamp = d[f]]
            /\ own' = Expecting(by, n)
            /\ UNCHANGED srv
         \/ /\ f \in MayFail
            /\ renderComplete([w EXCEPT !.file = None, !.script = 0, !.console = {0}], m, Blank)
            /\ own' = Expecting(by, 0)
            /\ UNCHANGED <<request, worker, shown, abort>>

openFile(by, f) ==
  IF win.dirty /\ f # win.file
    THEN /\ dialogs' = Append(dialogs, [ask |-> "save", by |-> by, file |-> f])
         /\ UNCHANGED <<own, srv, win, mon, disk, request, worker, shown, abort, mixed>>
    ELSE /\ UNCHANGED dialogs
         /\ LoadFile(by, f, disk)

Asking(what) == ~abort /\ dialogs # << >> /\ Last(dialogs).ask = what

\* Yes, which saves the file if nothing has cleared the changes since; no; cancel.
AnswerSave ==
  /\ Asking("save")
  /\ dialogs' = Front(dialogs)
  /\ LET by == Last(dialogs).by
         saved == IF win.dirty
                    THEN {[disk EXCEPT ![win.file] = @ + 1]} ELSE {}
     IN  /\ UNCHANGED events
         /\ \/ \E d \in {disk} \cup saved : LoadFile(by, Last(dialogs).file, d)
               /\ UNCHANGED client
            \/ /\ mon' = [mon EXCEPT !.timer = TRUE, !.ticks = 0]
               /\ client' = [c \in Clients |->
                    IF c = by /\ client[c] = "waiting" THEN "dropped" ELSE client[c]]
               /\ mixed' = TRUE
               /\ UNCHANGED <<own, srv, win, disk, request, worker, shown, abort>>
  /\ UNCHANGED <<auto, actions>>

AnswerReload ==
  /\ Asking("reload")
  /\ dialogs' = Front(dialogs)
  /\ UNCHANGED events
  /\ \/ /\ win.file # None
        /\ LoadFile("monitor", win.file, disk)
     \/ \* ignore; without a file, reload asks for one: that is cancelled
        /\ mon' = [mon EXCEPT !.timer = TRUE,
                              !.stamp = IF win.file = None THEN 0 ELSE disk[win.file]]
        /\ UNCHANGED <<own, srv, win, disk, request, worker, shown, abort, mixed>>
  /\ UNCHANGED <<client, auto, actions>>

hasChanged ==
  /\ win.file # None
  /\ disk[win.file] > mon.stamp \/ disk[Data] > mon.data

\* A file is not reloaded at the first tick, so that the program that writes it
\* can finish.
FirstTick == auto /\ mon.ticks < 1

\* A tick of the monitor.
checkForFileUpdates ==
  /\ ~abort /\ mon.timer /\ win.enable /\ hasChanged
  /\ UNCHANGED events
  /\ CASE FirstTick ->
            /\ mon' = [mon EXCEPT !.ticks = @ + 1]
            /\ UNCHANGED <<own, srv, dialogs, win, disk, request, worker,
                           shown, abort, mixed>>
       [] ~FirstTick /\ auto /\ ~win.dirty ->
            /\ UNCHANGED dialogs
            /\ LoadFile("monitor", win.file, disk)
       [] OTHER ->
            /\ Len(dialogs) < MaxDialogs
            /\ dialogs' = Append(dialogs, [ask |-> "reload", by |-> "monitor",
                                           file |-> win.file])
            /\ mon' = [mon EXCEPT !.timer = FALSE, !.ticks = 0]
            /\ mixed' = TRUE
            /\ UNCHANGED <<own, srv, win, disk, request, worker, shown, abort>>
  /\ UNCHANGED <<client, auto, actions>>

\* The next queued signal: gleMinusPRunned, print or renderComplete.
Handle ==
  /\ ~abort /\ events # << >>
  /\ events' = Tail(events)
  /\ LET e == Head(events)
     IN  CASE e.what = "open" -> openFile(e.by, Wants[e.by])
           [] e.what = "print" ->
                /\ win' = [win EXCEPT !.console = @ \cup {e.req}]
                /\ UNCHANGED <<own, srv, dialogs, mon, disk, request, worker,
                               shown, abort, mixed>>
           [] e.what = "complete" ->
                /\ renderComplete(win, mon, e.image)
                /\ UNCHANGED <<own, dialogs, disk, request, job, mixed>>
                /\ Worker!Deliver
  /\ UNCHANGED <<client, auto, actions>>
-----------------------------------------------------------------------------
(***************************************************************************)
(* The user and other programs.                                             *)
(***************************************************************************)
User == /\ ~abort /\ dialogs = << >> /\ actions < MaxActions
        /\ actions' = actions + 1
        /\ UNCHANGED <<auto, events>>

\* The menu, or a file dropped on the window, which works at any time.
Open(f) == User /\ openFile("user", f) /\ UNCHANGED client

\* What the open script has recorded is rendered again, if there is any.
Zoom ==
  /\ User /\ win.enable /\ win.file # None
  /\ mixed' = TRUE
  /\ UNCHANGED <<client, own, dialogs, disk>>
  /\ IF win.recorded # Blank
       THEN /\ Ask("zoom", win.script, win.recorded)
            /\ win' = [win EXCEPT !.enable = FALSE]
            /\ UNCHANGED <<srv, mon>>
       ELSE /\ renderComplete(win, mon, Blank)
            /\ UNCHANGED <<request, worker, shown, abort>>

Edit ==
  /\ User /\ win.enable /\ win.file # None /\ ~win.dirty
  /\ win' = [win EXCEPT !.dirty = TRUE]
  /\ UNCHANGED <<client, own, srv, dialogs, mon, disk, request, worker, shown,
                 abort, mixed>>

Write(f) ==
  /\ actions < MaxActions
  /\ actions' = actions + 1
  /\ disk' = [disk EXCEPT ![f] = @ + 1]
  /\ UNCHANGED <<client, own, srv, abort, events, dialogs, win, mon, auto,
                 request, worker, shown, mixed>>
-----------------------------------------------------------------------------
(***************************************************************************)
(* The worker.                                                              *)
(***************************************************************************)
Take ==
  /\ UNCHANGED <<client, own, srv, events, dialogs, win, mon, auto, disk, request, actions>>
  /\ job' = slot
  /\ Worker!Take
  /\ mixed' = (mixed \/ times' > 1)

\* What the job makes an image of: what its script has recorded, now that the
\* interpreter has run if that was asked for, with errors or without.
Rendered ==
  CASE job.kind = "run" ->
         {[job.of EXCEPT !.data = disk[Data]]}
           \cup (IF job.of.file \in MayFail THEN {Blank} ELSE {})
    [] job.kind = "zoom" /\ job.script = win.script -> {win.recorded}
    [] OTHER -> {job.of}

\* Every script has its own buffers.
Records(image) ==
  win' = [win EXCEPT !.recorded = IF job.script = win.script THEN image ELSE @]

\* The interpreter, if it runs, enters the data in its list of files and prints;
\* then the recorded output is made an image.
Finish ==
  /\ working > 0
  /\ \E image \in Rendered :
       /\ Records(image)
       /\ mon' = [mon EXCEPT !.infos = @ \/ job.kind = "run"]
       /\ events' = events
            \o (IF job.kind = "run" THEN <<[what |-> "print", req |-> working]>>
                                    ELSE << >>)
            \o <<[what |-> "complete", req |-> working, image |-> image]>>
  /\ job' = NoJob
  /\ UNCHANGED <<client, own, srv, dialogs, auto, disk, request, actions, mixed>>
  /\ Worker!Answer
-----------------------------------------------------------------------------
Next ==
  \/ Server
  \/ Handle \/ AnswerSave \/ AnswerReload \/ checkForFileUpdates
  \/ \E f \in Files : Open(f)
  \/ Zoom \/ Edit \/ Close
  \/ \E f \in Changing : Write(f)
  \/ Take \/ Finish

\* The threads are scheduled, signals and timers are handled and the user answers
\* questions; nobody has to open, change or close anything.
Fairness ==
  /\ WF_vars(Server)
  /\ WF_vars(Handle)
  /\ WF_vars(checkForFileUpdates \/ AnswerSave \/ AnswerReload)
  /\ WF_vars(Finish \/ (last < asked /\ Take))

Spec == Init /\ [][Next]_vars /\ Fairness
-----------------------------------------------------------------------------
\* A client whose file is opened while nothing else is going on, or when the
\* window has done nothing but serve one client after the other, is answered
\* with the output of that very rendering: neither a zoom nor the monitor nor
\* what an earlier client has left behind comes between.
OwnAnswer == \A c \in Clients : client[c] # "misled"

\* Nothing is rendered, queued or asked.
Quiet ==
  /\ events = << >> /\ dialogs = << >>
  /\ working = 0 /\ last = asked

\* At rest the monitor runs, the actions are enabled and nothing is left to do,
\* whatever was opened, zoomed, cancelled or ignored meanwhile and whichever
\* rendering has run the things to do of another.
BackToNormal == Quiet => mon.timer /\ win.enable /\ ~win.todo

\* At rest the image on display is what the open script has recorded.
ShowsOpenFile ==
  Quiet /\ win.file # None => win.image = win.recorded

\* A file that has changed is reloaded, by itself or when the user wants it,
\* unless there are changes to it in the window.
ChangeNoticed ==
  auto /\ hasChanged ~> ~hasChanged \/ win.dirty \/ abort

\* A client gets an answer, unless the user cancels what it has asked for or the
\* window is closed.  (They are served one at a time.)
ClientServed ==
  (\E c \in Clients : client[c] = "waiting")
    ~> \A c \in Clients : client[c] # "waiting"

\* The thread quits when it is asked to, so that its destructor returns.
ServerQuits == abort ~> srv.pc = "gone"
=============================================================================
