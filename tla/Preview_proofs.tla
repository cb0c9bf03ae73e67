--------------------------- MODULE Preview_proofs ---------------------------
(***************************************************************************)
(* For any number of clients, files, actions and questions, whatever is     *)
(* opened, zoomed, cancelled or reloaded in whatever order: the main window *)
(* comes to rest with its monitor running and its actions enabled, the      *)
(* image on display then is the one of the open script, and a client whose  *)
(* file is opened while nothing else goes on is answered with the output of *)
(* that very rendering.                                                     *)
(***************************************************************************)
EXTENDS Preview, SequenceTheorems, TLAPS

IsSeq(s) == \E S : s \in Seq(S)

\* The members of the window and of the monitor that count here.
Window(w) == \E A : w \in [todo: BOOLEAN, console: A, file: A, script: A, dirty: A,
                           enable: BOOLEAN, recorded: A, image: A]
Monitor(m) == \E A : m \in [timer: BOOLEAN, ticks: A, stamp: A, data: A, infos: A]

Queue(s) == IsSeq(s) /\ \A k \in DOMAIN s : s[k].what \in {"open", "print", "complete"}
Completes(s) == \E k \in DOMAIN s : s[k].what = "complete"

\* A renderComplete is to come.
Coming == working > 0 \/ last < asked \/ Completes(events)

(***************************************************************************)
(* BackToNormal says something of a window at rest only.  The invariant     *)
(* says who will put right what is not: actions that are disabled and       *)
(* things to do wait for a rendering, whichever it is; a monitor that is    *)
(* stopped waits for things to do or for an answer of the user.             *)
(***************************************************************************)
PutRight ==
  /\ Queue(events) /\ IsSeq(dialogs)
  /\ Window(win) /\ Monitor(mon)
  /\ asked \in Nat /\ last \in Nat /\ working \in Nat /\ last <= asked
  /\ win.todo \/ ~win.enable => Coming
  /\ mon.timer \/ win.todo \/ dialogs # << >>

\* Queues.
LEMMA TailIs ==
  ASSUME NEW s, Queue(s), s # << >>
  PROVE  /\ Queue(Tail(s)) /\ Head(s).what \in {"open", "print", "complete"}
         /\ Completes(s) => Head(s).what = "complete" \/ Completes(Tail(s))
<1> PICK S : s \in Seq(S)
  BY DEF Queue, IsSeq
<1>1. /\ Tail(s) \in Seq(S) /\ Len(Tail(s)) = Len(s) - 1 /\ Len(s) \in Nat \ {0}
      /\ \A i \in 1 .. Len(Tail(s)) : Tail(s)[i] = s[i + 1]
  BY HeadTailProperties, EmptySeq
<1>2. DOMAIN s = 1 .. Len(s) /\ DOMAIN Tail(s) = 1 .. Len(s) - 1 /\ Head(s) = s[1]
  BY <1>1, LenProperties
<1>3. ASSUME NEW k \in 1 .. Len(s), s[k].what = "complete", k # 1
      PROVE  Completes(Tail(s))
  <2>1. k - 1 \in 1 .. Len(s) - 1 /\ k - 1 + 1 = k
    BY <1>1, <1>3
  <2>2. Tail(s)[k - 1] = s[k]
    BY <1>1, <2>1
  <2> QED
    BY <1>2, <1>3, <2>1, <2>2 DEF Completes
<1>4. \A k \in 1 .. Len(s) - 1 : k + 1 \in 1 .. Len(s) /\ Tail(s)[k] = s[k + 1]
  BY <1>1
<1>5. 1 \in 1 .. Len(s)
  BY <1>1
<1>6. Queue(Tail(s)) /\ Head(s).what \in {"open", "print", "complete"}
  BY <1>1, <1>2, <1>4, <1>5 DEF Queue, IsSeq
<1> QED
  BY <1>2, <1>3, <1>6 DEF Completes

LEMMA ConcatIs ==
  ASSUME NEW s, Queue(s), NEW t, Queue(t)
  PROVE  Queue(s \o t) /\ (Completes(s) \/ Completes(t) => Completes(s \o t))
<1> PICK S : s \in Seq(S)
  BY DEF Queue, IsSeq
<1> PICK T : t \in Seq(T)
  BY DEF Queue, IsSeq
<1>1. s \in Seq(S \cup T) /\ t \in Seq(S \cup T)
  BY SeqMonotonic
<1>2. /\ s \o t \in Seq(S \cup T) /\ Len(s \o t) = Len(s) + Len(t)
      /\ \A i \in 1 .. Len(s) + Len(t) :
           (s \o t)[i] = IF i <= Len(s) THEN s[i] ELSE t[i - Len(s)]
  BY <1>1, ConcatProperties
<1>3. /\ Len(s) \in Nat /\ Len(t) \in Nat /\ DOMAIN s = 1 .. Len(s) /\ DOMAIN t = 1 .. Len(t)
      /\ DOMAIN (s \o t) = 1 .. Len(s) + Len(t)
  BY <1>1, <1>2, LenProperties
<1>4. ASSUME NEW k \in 1 .. Len(s), s[k].what = "complete" PROVE Completes(s \o t)
  <2>1. k \in 1 .. Len(s) + Len(t) /\ k <= Len(s)
    BY <1>3
  <2> QED
    BY <1>2, <1>3, <1>4, <2>1 DEF Completes
<1>5. ASSUME NEW k \in 1 .. Len(t), t[k].what = "complete" PROVE Completes(s \o t)
  <2>1. k + Len(s) \in 1 .. Len(s) + Len(t) /\ ~(k + Len(s) <= Len(s)) /\ k + Len(s) - Len(s) = k
    BY <1>3
  <2>2. (s \o t)[k + Len(s)] = t[k]
    BY <1>2, <2>1
  <2> QED
    BY <1>3, <1>5, <2>1, <2>2 DEF Completes
<1>6. ASSUME NEW k \in 1 .. Len(s) + Len(t)
      PROVE  (s \o t)[k].what \in {"open", "print", "complete"}
  <2>1. CASE k <= Len(s)
    <3>1. k \in 1 .. Len(s) /\ (s \o t)[k] = s[k]
      BY <1>2, <1>3, <2>1
    <3> QED
      BY <1>3, <3>1 DEF Queue
  <2>2. CASE ~(k <= Len(s))
    <3>1. k - Len(s) \in 1 .. Len(t) /\ (s \o t)[k] = t[k - Len(s)]
      BY <1>2, <1>3, <2>2
    <3> QED
      BY <1>3, <3>1 DEF Queue
  <2> QED
    BY <2>1, <2>2
<1> QED
  BY <1>2, <1>3, <1>4, <1>5, <1>6 DEF Queue, IsSeq, Completes

LEMMA AppendIs ==
  ASSUME NEW s, IsSeq(s), NEW e
  PROVE  /\ IsSeq(Append(s, e)) /\ Append(s, e) # << >>
         /\ Completes(s) => Completes(Append(s, e))
         /\ Queue(s) /\ e.what = "open" => Queue(Append(s, e))
<1> PICK S : s \in Seq(S)
  BY DEF IsSeq
<1>1. s \in Seq(S \cup {e})
  BY SeqMonotonic
<1>2. /\ Append(s, e) \in Seq(S \cup {e}) /\ Append(s, e) # << >>
      /\ Len(Append(s, e)) = Len(s) + 1
      /\ \A i \in 1 .. Len(s) : Append(s, e)[i] = s[i]
      /\ Append(s, e)[Len(s) + 1] = e
  BY <1>1, AppendProperties
<1>3. Len(s) \in Nat /\ DOMAIN s = 1 .. Len(s) /\ DOMAIN Append(s, e) = 1 .. Len(s) + 1
  BY <1>1, <1>2, LenProperties
<1>4. Completes(s) => Completes(Append(s, e))
  BY <1>2, <1>3 DEF Completes
<1>5. ASSUME Queue(s), e.what = "open", NEW k \in 1 .. Len(s) + 1
      PROVE  Append(s, e)[k].what \in {"open", "print", "complete"}
  <2>1. k \in 1 .. Len(s) \/ k = Len(s) + 1
    BY <1>3
  <2> QED
    BY <1>2, <1>3, <1>5, <2>1 DEF Queue
<1> QED
  BY <1>2, <1>3, <1>4, <1>5 DEF Queue, IsSeq

LEMMA FrontIs ==
  ASSUME NEW s, IsSeq(s), s # << >> PROVE IsSeq(Front(s))
<1> PICK S : s \in Seq(S)
  BY DEF IsSeq
<1> DEFINE n == Len(s) - 1
<1>1. n \in Nat /\ \A i \in 1 .. n : s[i] \in S
  BY EmptySeq, ElementOfSeq
<1> HIDE DEF n
<1>2. SubSeq(s, 1, n) \in Seq(S)
  BY <1>1, SubSeqProperties
<1> QED
  BY <1>2 DEF Front, n, IsSeq

\* What a member can hold, with one value more.
LEMMA WindowSet ==
  ASSUME NEW w, Window(w), NEW v, NEW b \in BOOLEAN
  PROVE  /\ Window([w EXCEPT !.todo = b]) /\ Window([w EXCEPT !.enable = b])
         /\ Window([w EXCEPT !.console = v]) /\ Window([w EXCEPT !.file = v])
         /\ Window([w EXCEPT !.script = v]) /\ Window([w EXCEPT !.dirty = v])
         /\ Window([w EXCEPT !.recorded = v]) /\ Window([w EXCEPT !.image = v])
<1> PICK A : w \in [todo: BOOLEAN, console: A, file: A, script: A, dirty: A,
                    enable: BOOLEAN, recorded: A, image: A]
  BY DEF Window
<1> DEFINE B == A \cup {v}
           W == [todo: BOOLEAN, console: B, file: B, script: B, dirty: B,
                 enable: BOOLEAN, recorded: B, image: B]
<1>1. w \in W
  OBVIOUS
<1>2. /\ [w EXCEPT !.todo = b] \in W /\ [w EXCEPT !.enable = b] \in W
      /\ [w EXCEPT !.console = v] \in W /\ [w EXCEPT !.file = v] \in W
      /\ [w EXCEPT !.script = v] \in W /\ [w EXCEPT !.dirty = v] \in W
      /\ [w EXCEPT !.recorded = v] \in W /\ [w EXCEPT !.image = v] \in W
  BY <1>1
<1>3. ASSUME NEW x \in W PROVE Window(x)
  BY <1>3 DEF Window
<1> HIDE DEF W
<1> QED
  BY <1>2, <1>3

\* An image puts the window right, whatever it was waiting for.
LEMMA RenderCompleteIs ==
  ASSUME NEW w, Window(w), NEW m, Monitor(m), NEW image, renderComplete(w, m, image)
  PROVE  /\ Window(win') /\ ~win'.todo /\ win'.enable
         /\ Monitor(mon') /\ (w.todo \/ m.timer => mon'.timer)
<1>1. win' = [w EXCEPT !.enable = TRUE, !.image = image, !.todo = FALSE]
  BY DEF renderComplete, Shown
<1>2. Window(win') /\ ~win'.todo /\ win'.enable
  <2> PICK A : w \in [todo: BOOLEAN, console: A, file: A, script: A, dirty: A,
                      enable: BOOLEAN, recorded: A, image: A]
    BY DEF Window
  <2> DEFINE B == A \cup {image}
  <2>1. win' \in [todo: BOOLEAN, console: B, file: B, script: B, dirty: B,
                  enable: BOOLEAN, recorded: B, image: B]
    BY <1>1
  <2>2. ~win'.todo /\ win'.enable
    BY <1>1
  <2> QED
    BY <2>1, <2>2 DEF Window
<1>3. Monitor(mon') /\ (w.todo \/ m.timer => mon'.timer)
  <2> PICK A : m \in [timer: BOOLEAN, ticks: A, stamp: A, data: A, infos: A]
    BY DEF Monitor
  <2> PICK v : \/ w.todo /\ mon' = [m EXCEPT !.data = v, !.timer = TRUE, !.ticks = 0]
               \/ ~w.todo /\ mon' = [m EXCEPT !.data = v]
    <3> DEFINE v == IF m.infos THEN disk[Data] ELSE NotMonitored
    <3>1. \/ w.todo /\ mon' = [[m EXCEPT !.data = v] EXCEPT !.timer = TRUE, !.ticks = 0]
          \/ ~w.todo /\ mon' = [m EXCEPT !.data = v]
      BY DEF renderComplete
    <3> HIDE DEF v
    <3>2. [[m EXCEPT !.data = v] EXCEPT !.timer = TRUE, !.ticks = 0]
            = [m EXCEPT !.data = v, !.timer = TRUE, !.ticks = 0]
      OBVIOUS
    <3> QED
      BY <3>1, <3>2
  <2> DEFINE B == A \cup {v, 0}
  <2>1. mon' \in [timer: BOOLEAN, ticks: B, stamp: B, data: B, infos: B]
    OBVIOUS
  <2>2. w.todo \/ m.timer => mon'.timer
    OBVIOUS
  <2> QED
    BY <2>1, <2>2 DEF Monitor
<1> QED
  BY <1>2, <1>3

\* A request for a rendering.
LEMMA AskIs ==
  ASSUME asked \in Nat, last \in Nat, working \in Nat, last <= asked,
         NEW k, NEW s, NEW of, Ask(k, s, of)
  PROVE  asked' \in Nat /\ last' \in Nat /\ working' \in Nat /\ last' < asked' /\ last' <= asked'
BY DEF Ask, Worker!Ask

\* A file is opened: it is rendered, or what is to be done is done at once.
LEMMA LoadFileIs ==
  ASSUME PutRight, NEW by, NEW f, NEW d, LoadFile(by, f, d), Queue(events'), IsSeq(dialogs')
  PROVE  PutRight'
<1> PICK A : win \in [todo: BOOLEAN, console: A, file: A, script: A, dirty: A,
                      enable: BOOLEAN, recorded: A, image: A]
  BY DEF PutRight, Window
<1> PICK C : mon \in [timer: BOOLEAN, ticks: C, stamp: C, data: C, infos: C]
  BY DEF PutRight, Monitor
<1> DEFINE w == [win EXCEPT !.todo = TRUE, !.console = {}, !.dirty = FALSE, !.recorded = Blank]
           m == [mon EXCEPT !.timer = FALSE, !.ticks = 0, !.infos = FALSE]
           n == asked + 1
           of == [file |-> f, ver |-> d[f], data |-> 0]
           failed == [w EXCEPT !.file = None, !.script = 0, !.console = {0}]
<1>1. CASE /\ Ask("run", n, of)
           /\ win' = [w EXCEPT !.file = f, !.script = n, !.enable = FALSE]
           /\ mon' = [m EXCEPT !.stamp = d[f]]
  <2> DEFINE B == A \cup {{}, FALSE, Blank, f, n}
             D == C \cup {0, FALSE, d[f]}
  <2>1. win' \in [todo: BOOLEAN, console: B, file: B, script: B, dirty: B,
                  enable: BOOLEAN, recorded: B, image: B] /\ win'.todo
    BY <1>1
  <2>2. mon' \in [timer: BOOLEAN, ticks: D, stamp: D, data: D, infos: D]
    BY <1>1
  <2>3. asked' \in Nat /\ last' \in Nat /\ working' \in Nat /\ last' < asked' /\ last' <= asked'
    BY <1>1, AskIs DEF PutRight
  <2> QED
    BY <2>1, <2>2, <2>3 DEF PutRight, Window, Monitor, Coming
<1>2. CASE renderComplete(failed, m, Blank) /\ UNCHANGED <<request, worker>>
  <2>1. Window(failed) /\ failed.todo
    <3> DEFINE B == A \cup {{}, FALSE, Blank, None, 0, {0}}
    <3>1. failed \in [todo: BOOLEAN, console: B, file: B, script: B, dirty: B,
                      enable: BOOLEAN, recorded: B, image: B] /\ failed.todo
      OBVIOUS
    <3> QED
      BY <3>1 DEF Window
  <2>2. Monitor(m)
    <3> DEFINE D == C \cup {0, FALSE}
    <3>1. m \in [timer: BOOLEAN, ticks: D, stamp: D, data: D, infos: D]
      OBVIOUS
    <3> QED
      BY <3>1 DEF Monitor
  <2> HIDE DEF failed, m
  <2>3. Window(win') /\ ~win'.todo /\ win'.enable /\ Monitor(mon') /\ mon'.timer
    BY <1>2, <2>1, <2>2, RenderCompleteIs
  <2> QED
    BY <1>2, <2>3 DEF PutRight, request, worker
<1> QED
  BY <1>1, <1>2 DEF LoadFile

\* A question, or the file.
LEMMA OpenFileIs ==
  ASSUME PutRight, NEW by, NEW f, openFile(by, f), Queue(events'),
         Completes(events) => Completes(events')
  PROVE  PutRight'
<1>1. CASE win.dirty /\ f # win.file
  <2>1. /\ dialogs' = Append(dialogs, [ask |-> "save", by |-> by, file |-> f])
        /\ UNCHANGED <<win, mon, request, worker>>
    BY <1>1 DEF openFile
  <2>2. IsSeq(dialogs') /\ dialogs' # << >>
    BY <2>1, AppendIs DEF PutRight
  <2> QED
    BY <2>1, <2>2 DEF PutRight, Coming, request, worker
<1>2. CASE ~(win.dirty /\ f # win.file)
  <2>1. LoadFile(by, f, disk) /\ dialogs' = dialogs
    BY <1>2 DEF openFile
  <2>2. IsSeq(dialogs')
    BY <2>1 DEF PutRight
  <2> QED
    BY <2>1, <2>2, LoadFileIs
<1> QED
  BY <1>1, <1>2

\* One step of a client, the server, the window, the user or the worker.
LEMMA PutRightStep == PutRight /\ [Next]_vars => PutRight'
<1> SUFFICES ASSUME PutRight, [Next]_vars PROVE PutRight'
  OBVIOUS
<1>0. /\ Queue(events) /\ IsSeq(dialogs) /\ Window(win) /\ Monitor(mon)
      /\ asked \in Nat /\ last \in Nat /\ working \in Nat /\ last <= asked
  BY DEF PutRight
<1>1. ASSUME UNCHANGED <<win, mon, dialogs, asked, last, working>>, Queue(events'),
             Completes(events) => Completes(events')
      PROVE  PutRight'
  BY <1>1 DEF PutRight, Coming
<1>2. CASE Listen \/ Look \/ (\E f \in Changing : Write(f)) \/ UNCHANGED vars
  BY <1>0, <1>1, <1>2 DEF Listen, Look, Write, gui, request, worker, vars
<1>3. CASE Read
  <2>1. \/ events' = events
        \/ events' = Append(events, [what |-> "open", by |-> srv.conn])
    BY <1>3 DEF Read
  <2>2. UNCHANGED <<win, mon, dialogs, asked, last, working>>
    BY <1>3 DEF Read, gui, request, worker
  <2> QED
    BY <1>0, <1>1, <2>1, <2>2, AppendIs DEF Queue
<1>4. CASE Close
  BY <1>0, <1>1, <1>4 DEF Close, gui, request, worker, Worker!Close
<1>5. CASE Handle
  <2>1. events # << >> /\ events' = Tail(events)
    BY <1>5 DEF Handle
  <2>2. Queue(events') /\ (Completes(events) => Head(events).what = "complete" \/ Completes(events'))
    BY <1>0, <2>1, TailIs
  <2>3. CASE Head(events).what = "open"
    BY <1>5, <2>2, <2>3, OpenFileIs DEF Handle
  <2>4. CASE Head(events).what = "print"
    <3>1. /\ win' = [win EXCEPT !.console = @ \cup {Head(events).req}]
          /\ UNCHANGED <<mon, dialogs, asked, last, working>>
      BY <1>5, <2>4 DEF Handle, request, worker
    <3>2. Window(win')
      BY <1>0, <3>1, WindowSet
    <3>3. win'.todo = win.todo /\ win'.enable = win.enable
      BY <1>0, <3>1 DEF Window
    <3> QED
      BY <2>2, <2>4, <3>1, <3>2, <3>3 DEF PutRight, Coming
  <2>5. CASE Head(events).what = "complete"
    <3>1. renderComplete(win, mon, Head(events).image)
          /\ UNCHANGED <<dialogs, asked, last, working>>
      BY <1>5, <2>5 DEF Handle, request, Worker!Deliver
    <3>2. Window(win') /\ ~win'.todo /\ win'.enable /\ Monitor(mon')
          /\ (win.todo \/ mon.timer => mon'.timer)
      BY <1>0, <3>1, RenderCompleteIs
    <3> QED
      BY <2>2, <3>1, <3>2 DEF PutRight
  <2>6. Head(events).what \in {"open", "print", "complete"}
    BY <1>0, <2>1, TailIs
  <2> QED
    BY <2>3, <2>4, <2>5, <2>6
<1>6. CASE AnswerSave
  <2>1. dialogs # << >> /\ dialogs' = Front(dialogs) /\ events' = events
    BY <1>6 DEF AnswerSave, Asking
  <2>2. IsSeq(dialogs') /\ Queue(events')
    BY <1>0, <2>1, FrontIs
  <2>3. CASE \E by, f, d : LoadFile(by, f, d)
    BY <2>2, <2>3, LoadFileIs
  <2>4. CASE /\ mon' = [mon EXCEPT !.timer = TRUE, !.ticks = 0]
             /\ UNCHANGED <<win, request, worker>>
    <3> PICK A : mon \in [timer: BOOLEAN, ticks: A, stamp: A, data: A, infos: A]
      BY <1>0 DEF Monitor
    <3> DEFINE B == A \cup {0}
    <3>1. mon' \in [timer: BOOLEAN, ticks: B, stamp: B, data: B, infos: B] /\ mon'.timer
      BY <2>4
    <3>2. Monitor(mon') /\ mon'.timer
      BY <3>1 DEF Monitor
    <3> QED
      BY <2>1, <2>2, <2>4, <3>2 DEF PutRight, Coming, request, worker
  <2> QED
    BY <1>6, <2>3, <2>4 DEF AnswerSave
<1>7. CASE AnswerReload
  <2>1. dialogs # << >> /\ dialogs' = Front(dialogs) /\ events' = events
    BY <1>7 DEF AnswerReload, Asking
  <2>2. IsSeq(dialogs') /\ Queue(events')
    BY <1>0, <2>1, FrontIs
  <2>3. CASE \E by, f, d : LoadFile(by, f, d)
    BY <2>2, <2>3, LoadFileIs
  <2>4. ASSUME NEW v, mon' = [mon EXCEPT !.timer = TRUE, !.stamp = v],
               UNCHANGED <<win, request, worker>>
        PROVE  PutRight'
    <3> PICK A : mon \in [timer: BOOLEAN, ticks: A, stamp: A, data: A, infos: A]
      BY <1>0 DEF Monitor
    <3> DEFINE B == A \cup {v}
    <3>1. mon' \in [timer: BOOLEAN, ticks: B, stamp: B, data: B, infos: B] /\ mon'.timer
      BY <2>4
    <3>2. Monitor(mon') /\ mon'.timer
      BY <3>1 DEF Monitor
    <3> QED
      BY <2>1, <2>2, <2>4, <3>2 DEF PutRight, Coming, request, worker
  <2> QED
    BY <1>7, <2>3, <2>4 DEF AnswerReload
<1>8. CASE checkForFileUpdates
  <2>0. events' = events
    BY <1>8 DEF checkForFileUpdates
  <2>1. CASE FirstTick
    <3>1. mon' = [mon EXCEPT !.ticks = @ + 1] /\ UNCHANGED <<win, dialogs, request, worker>>
      BY <1>8, <2>1 DEF checkForFileUpdates
    <3> PICK A : mon \in [timer: BOOLEAN, ticks: A, stamp: A, data: A, infos: A]
      BY <1>0 DEF Monitor
    <3> DEFINE B == A \cup {mon.ticks + 1}
    <3>2. mon' \in [timer: BOOLEAN, ticks: B, stamp: B, data: B, infos: B] /\ mon'.timer = mon.timer
      BY <3>1
    <3>3. Monitor(mon') /\ mon'.timer = mon.timer
      BY <3>2 DEF Monitor
    <3> QED
      BY <2>0, <3>1, <3>3 DEF PutRight, Coming, request, worker
  <2>2. CASE ~FirstTick /\ auto /\ ~win.dirty
    <3>1. LoadFile("monitor", win.file, disk) /\ dialogs' = dialogs
      BY <1>8, <2>2 DEF checkForFileUpdates
    <3> QED
      BY <1>0, <2>0, <3>1, LoadFileIs
  <2>3. CASE ~FirstTick /\ ~(auto /\ ~win.dirty)
    <3>1. /\ dialogs' = Append(dialogs, [ask |-> "reload", by |-> "monitor", file |-> win.file])
          /\ mon' = [mon EXCEPT !.timer = FALSE, !.ticks = 0]
          /\ UNCHANGED <<win, request, worker>>
      BY <1>8, <2>3 DEF checkForFileUpdates
    <3>2. IsSeq(dialogs') /\ dialogs' # << >>
      BY <1>0, <3>1, AppendIs
    <3>3. Monitor(mon')
      <4> PICK A : mon \in [timer: BOOLEAN, ticks: A, stamp: A, data: A, infos: A]
        BY <1>0 DEF Monitor
      <4> DEFINE B == A \cup {0}
      <4>1. mon' \in [timer: BOOLEAN, ticks: B, stamp: B, data: B, infos: B]
        BY <3>1
      <4> QED
        BY <4>1 DEF Monitor
    <3> QED
      BY <2>0, <3>1, <3>2, <3>3 DEF PutRight, Coming, request, worker
  <2> QED
    BY <2>1, <2>2, <2>3
<1>9. ASSUME NEW f \in Files, Open(f) PROVE PutRight'
  <2>1. events' = events /\ openFile("user", f)
    BY <1>9 DEF Open, User
  <2> QED
    BY <1>0, <2>1, OpenFileIs
<1>10. CASE Zoom
  <2>1. events' = events /\ dialogs' = dialogs
    BY <1>10 DEF Zoom, User
  <2>2. CASE win.recorded # Blank
    <3>1. /\ Ask("zoom", win.script, win.recorded)
          /\ win' = [win EXCEPT !.enable = FALSE] /\ mon' = mon
      BY <1>10, <2>2 DEF Zoom
    <3>2. asked' \in Nat /\ last' \in Nat /\ working' \in Nat /\ last' < asked' /\ last' <= asked'
      BY <1>0, <3>1, AskIs
    <3>3. Window(win')
      BY <1>0, <3>1, WindowSet
    <3>4. win'.todo = win.todo
      BY <1>0, <3>1 DEF Window
    <3> QED
      BY <2>1, <3>1, <3>2, <3>3, <3>4 DEF PutRight, Coming
  <2>3. CASE ~(win.recorded # Blank)
    <3>1. renderComplete(win, mon, Blank) /\ UNCHANGED <<request, worker>>
      BY <1>10, <2>3 DEF Zoom
    <3>2. Window(win') /\ ~win'.todo /\ win'.enable /\ Monitor(mon')
          /\ (win.todo \/ mon.timer => mon'.timer)
      BY <1>0, <3>1, RenderCompleteIs
    <3> QED
      BY <2>1, <3>1, <3>2 DEF PutRight, request, worker
  <2> QED
    BY <2>2, <2>3
<1>11. CASE Edit
  <2>1. win' = [win EXCEPT !.dirty = TRUE]
        /\ UNCHANGED <<events, dialogs, mon, request, worker>>
    BY <1>11 DEF Edit, User
  <2>2. Window(win')
    BY <1>0, <2>1, WindowSet
  <2>3. win'.todo = win.todo /\ win'.enable = win.enable
    BY <1>0, <2>1 DEF Window
  <2> QED
    BY <2>1, <2>2, <2>3 DEF PutRight, Coming, request, worker
<1>12. CASE Take
  <2>1. UNCHANGED <<events, dialogs, win, mon, asked>> /\ working' = asked /\ last' = asked
        /\ asked > 0
    BY <1>12 DEF Take, Worker!Take, request
  <2> QED
    BY <2>1 DEF PutRight, Coming
<1>13. CASE Finish
  <2> PICK image : /\ Records(image)
                   /\ mon' = [mon EXCEPT !.infos = @ \/ job.kind = "run"]
                   /\ events' = events
                        \o (IF job.kind = "run" THEN <<[what |-> "print", req |-> working]>>
                                                ELSE << >>)
                        \o <<[what |-> "complete", req |-> working, image |-> image]>>
    BY <1>13 DEF Finish
  <2>1. UNCHANGED <<dialogs, asked, last>> /\ working' = 0
    BY <1>13 DEF Finish, request, Worker!Answer
  <2>2. Queue(events') /\ Completes(events')
    <3> DEFINE p == IF job.kind = "run" THEN <<[what |-> "print", req |-> working]>> ELSE << >>
               q == <<[what |-> "complete", req |-> working, image |-> image]>>
    <3>1. Queue(p)
      <4> DEFINE e == [what |-> "print", req |-> working]
      <4>1. e.what = "print"
        OBVIOUS
      <4> HIDE DEF e
      <4>2. /\ <<e>> \in Seq({e}) /\ DOMAIN <<e>> = {1} /\ <<e>>[1] = e
            /\ << >> \in Seq({e}) /\ DOMAIN << >> = {}
        OBVIOUS
      <4>3. Queue(<<e>>) /\ Queue(<< >>)
        BY <4>1, <4>2 DEF Queue, IsSeq
      <4> QED
        BY <4>3 DEF e
    <3>2. Queue(q) /\ Completes(q)
      <4> DEFINE e == [what |-> "complete", req |-> working, image |-> image]
      <4>1. e.what = "complete"
        OBVIOUS
      <4> HIDE DEF e
      <4>2. <<e>> \in Seq({e}) /\ DOMAIN <<e>> = {1} /\ <<e>>[1] = e
        OBVIOUS
      <4>3. Queue(<<e>>) /\ Completes(<<e>>)
        BY <4>1, <4>2 DEF Queue, IsSeq, Completes
      <4> QED
        BY <4>3 DEF e
    <3> HIDE DEF p, q
    <3>3. Queue(events \o p)
      BY <1>0, <3>1, ConcatIs
    <3>4. Queue((events \o p) \o q) /\ Completes((events \o p) \o q)
      BY <3>2, <3>3, ConcatIs
    <3> QED
      BY <3>4 DEF p, q
  <2>3. Window(win') /\ win'.todo = win.todo /\ win'.enable = win.enable
    <3> PICK v : win' = [win EXCEPT !.recorded = v]
      BY DEF Records
    <3>1. Window(win')
      BY <1>0, WindowSet
    <3> QED
      BY <1>0, <3>1 DEF Window
  <2>4. Monitor(mon') /\ mon'.timer = mon.timer
    <3> DEFINE v == mon.infos \/ job.kind = "run"
    <3> PICK A : mon \in [timer: BOOLEAN, ticks: A, stamp: A, data: A, infos: A]
      BY <1>0 DEF Monitor
    <3> DEFINE B == A \cup {v}
    <3>0. mon' = [mon EXCEPT !.infos = v]
      OBVIOUS
    <3> HIDE DEF v
    <3>1. mon' \in [timer: BOOLEAN, ticks: B, stamp: B, data: B, infos: B] /\ mon'.timer = mon.timer
      BY <3>0
    <3> QED
      BY <3>1 DEF Monitor
  <2> QED
    BY <1>0, <2>1, <2>2, <2>3, <2>4 DEF PutRight, Coming
<1> QED
  BY <1>2, <1>3, <1>4, <1>5, <1>6, <1>7, <1>8, <1>9, <1>10, <1>11, <1>12, <1>13 DEF Next, Server

LEMMA InitPutRight == Init => PutRight
<1> SUFFICES ASSUME Init PROVE PutRight
  OBVIOUS
<1>1. Queue(<< >>)
  <2>1. << >> \in Seq({}) /\ DOMAIN << >> = {}
    OBVIOUS
  <2> QED
    BY <2>1 DEF Queue, IsSeq
<1>2. Window(win) /\ win.todo = FALSE /\ win.enable = TRUE
  <2> DEFINE A == {{}, None, 0, FALSE, Blank}
  <2>1. win = [todo |-> FALSE, console |-> {}, file |-> None, script |-> 0,
               dirty |-> FALSE, enable |-> TRUE, recorded |-> Blank, image |-> Blank]
    BY DEF Init
  <2>2. win \in [todo: BOOLEAN, console: A, file: A, script: A, dirty: A,
                 enable: BOOLEAN, recorded: A, image: A]
        /\ win.todo = FALSE /\ win.enable = TRUE
    BY <2>1
  <2> QED
    BY <2>2 DEF Window
<1>3. Monitor(mon) /\ mon.timer = TRUE
  <2> DEFINE A == {0, NotMonitored, FALSE}
  <2>1. mon = [timer |-> TRUE, ticks |-> 0, stamp |-> 0,
               data |-> NotMonitored, infos |-> FALSE]
    BY DEF Init
  <2>2. mon \in [timer: BOOLEAN, ticks: A, stamp: A, data: A, infos: A] /\ mon.timer = TRUE
    BY <2>1
  <2> QED
    BY <2>2 DEF Monitor
<1>4. events = << >> /\ dialogs = << >> /\ asked = 0 /\ last = 0 /\ working = 0
  BY DEF Init
<1> QED
  BY <1>1, <1>2, <1>3, <1>4 DEF PutRight, Queue

\* However files are opened, zoomed, cancelled and reloaded, and whichever
\* rendering runs the things to do of another: at rest the monitor runs, the
\* actions are enabled and nothing is left to do.
THEOREM WindowComesToRest == Spec => []BackToNormal
<1>1. Init => PutRight
  BY InitPutRight
<1>2. PutRight => BackToNormal
  <2> SUFFICES ASSUME PutRight, Quiet PROVE mon.timer /\ win.enable /\ ~win.todo
    BY DEF BackToNormal
  <2>1. ~Completes(events)
    <3>1. DOMAIN << >> = {}
      OBVIOUS
    <3> QED
      BY <3>1 DEF Quiet, Completes
  <2>2. ~Coming
    BY <2>1 DEF Quiet, Coming, PutRight
  <2> QED
    BY <2>2 DEF Quiet, PutRight
<1> QED
  BY <1>1, <1>2, PutRightStep, PTL DEF Spec
-----------------------------------------------------------------------------
\* What is at which place.
LEMMA TailAt ==
  ASSUME NEW s, IsSeq(s), s # << >>
  PROVE  /\ IsSeq(Tail(s)) /\ Len(s) \in Nat \ {0} /\ DOMAIN s = 1 .. Len(s) /\ Head(s) = s[1]
         /\ DOMAIN Tail(s) = 1 .. Len(s) - 1
         /\ \A k \in 1 .. Len(s) - 1 : Tail(s)[k] = s[k + 1]
<1> PICK S : s \in Seq(S)
  BY DEF IsSeq
<1>1. /\ Tail(s) \in Seq(S) /\ Len(Tail(s)) = Len(s) - 1 /\ Len(s) \in Nat \ {0}
      /\ \A i \in 1 .. Len(Tail(s)) : Tail(s)[i] = s[i + 1]
  BY HeadTailProperties, EmptySeq
<1>2. DOMAIN s = 1 .. Len(s) /\ DOMAIN Tail(s) = 1 .. Len(s) - 1 /\ Head(s) = s[1]
  BY <1>1, LenProperties
<1> QED
  BY <1>1, <1>2 DEF IsSeq

LEMMA AppendAt ==
  ASSUME NEW s, IsSeq(s), NEW e
  PROVE  /\ IsSeq(Append(s, e)) /\ Len(s) \in Nat /\ DOMAIN s = 1 .. Len(s)
         /\ Len(Append(s, e)) = Len(s) + 1
         /\ DOMAIN Append(s, e) = 1 .. Len(s) + 1
         /\ \A k \in 1 .. Len(s) : Append(s, e)[k] = s[k]
         /\ Append(s, e)[Len(s) + 1] = e
         /\ s \o <<e>> = Append(s, e) /\ s \o << >> = s
<1> PICK S : s \in Seq(S)
  BY DEF IsSeq
<1>1. s \in Seq(S \cup {e})
  BY SeqMonotonic
<1>2. /\ Append(s, e) \in Seq(S \cup {e}) /\ Append(s, e) # << >>
      /\ Len(Append(s, e)) = Len(s) + 1
      /\ \A i \in 1 .. Len(s) : Append(s, e)[i] = s[i]
      /\ Append(s, e)[Len(s) + 1] = e
  BY <1>1, AppendProperties
<1>3. s \o <<e>> = Append(s, e) /\ s \o << >> = s
  BY <1>1, AppendIsConcat, ConcatEmptySeq
<1> QED
  BY <1>1, <1>2, <1>3, LenProperties DEF IsSeq

(***************************************************************************)
(* The image.  When the queue s is worked off after image i, v is on        *)
(* display.                                                                 *)
(***************************************************************************)
ShowsAtLast(s, i, v) ==
  \/ ~Completes(s) /\ i = v
  \/ \E k \in DOMAIN s :
       /\ s[k].what = "complete" /\ s[k].image = v
       /\ \A j \in DOMAIN s : s[j].what = "complete" => j <= k

\* An open file is the last that was asked for; once the worker has nothing left
\* to do, what its script has recorded is on display or in the queue, with
\* no other image after it.
AtLast ==
  /\ win.file # None => slot.script = win.script
  /\ working > 0 /\ last = asked => job = slot
  /\ win.file # None /\ working = 0 /\ last = asked
       => ShowsAtLast(events, win.image, win.recorded)

LEMMA ShowsTail ==
  ASSUME NEW s, IsSeq(s), s # << >>, NEW i, NEW v, ShowsAtLast(s, i, v)
  PROVE  /\ Head(s).what # "complete" => ShowsAtLast(Tail(s), i, v)
         /\ Head(s).what = "complete" => ShowsAtLast(Tail(s), Head(s).image, v)
<1>1. /\ Len(s) \in Nat \ {0} /\ DOMAIN s = 1 .. Len(s) /\ Head(s) = s[1]
      /\ DOMAIN Tail(s) = 1 .. Len(s) - 1
      /\ \A k \in 1 .. Len(s) - 1 : Tail(s)[k] = s[k + 1] /\ k + 1 \in 1 .. Len(s)
  BY TailAt
<1>2. CASE ~Completes(s) /\ i = v
  <2>1. ~Completes(Tail(s)) /\ Head(s).what # "complete"
    BY <1>1, <1>2 DEF Completes
  <2> QED
    BY <1>2, <2>1 DEF ShowsAtLast
<1>3. CASE \E k \in DOMAIN s : /\ s[k].what = "complete" /\ s[k].image = v
                               /\ \A j \in DOMAIN s : s[j].what = "complete" => j <= k
  <2>1. PICK k \in 1 .. Len(s) : /\ s[k].what = "complete" /\ s[k].image = v
                                 /\ \A j \in 1 .. Len(s) : s[j].what = "complete" => j <= k
    BY <1>1, <1>3
  <2>2. CASE k = 1
    <3>1. ~Completes(Tail(s))
      BY <1>1, <2>1, <2>2 DEF Completes
    <3> QED
      BY <1>1, <2>1, <2>2, <3>1 DEF ShowsAtLast
  <2>3. CASE k # 1
    <3>1. k - 1 \in 1 .. Len(s) - 1 /\ Tail(s)[k - 1] = s[k]
      BY <1>1, <2>3
    <3>2. \A j \in 1 .. Len(s) - 1 : Tail(s)[j].what = "complete" => j <= k - 1
      BY <1>1, <2>1
    <3> QED
      BY <1>1, <2>1, <3>1, <3>2 DEF ShowsAtLast
  <2> QED
    BY <2>2, <2>3
<1> QED
  BY <1>2, <1>3 DEF ShowsAtLast

LEMMA ShowsOpen ==
  ASSUME NEW s, IsSeq(s), NEW i, NEW v, ShowsAtLast(s, i, v), NEW e, e.what = "open"
  PROVE  ShowsAtLast(Append(s, e), i, v)
<1>1. /\ Len(s) \in Nat /\ DOMAIN s = 1 .. Len(s)
      /\ DOMAIN Append(s, e) = 1 .. Len(s) + 1
      /\ \A k \in 1 .. Len(s) : Append(s, e)[k] = s[k] /\ k \in 1 .. Len(s) + 1
      /\ Append(s, e)[Len(s) + 1] = e
      /\ \A k \in 1 .. Len(s) + 1 : k \in 1 .. Len(s) \/ k = Len(s) + 1
  BY AppendAt
<1>2. \A k \in 1 .. Len(s) + 1 : Append(s, e)[k].what = "complete" =>
        k \in 1 .. Len(s) /\ s[k].what = "complete"
  BY <1>1
<1>3. CASE ~Completes(s) /\ i = v
  BY <1>1, <1>2, <1>3 DEF Completes, ShowsAtLast
<1>4. CASE \E k \in DOMAIN s : /\ s[k].what = "complete" /\ s[k].image = v
                               /\ \A j \in DOMAIN s : s[j].what = "complete" => j <= k
  BY <1>1, <1>2, <1>4 DEF ShowsAtLast
<1> QED
  BY <1>3, <1>4 DEF ShowsAtLast

LEMMA ShowsComplete ==
  ASSUME NEW s, IsSeq(s), NEW i, NEW e, e.what = "complete"
  PROVE  ShowsAtLast(Append(s, e), i, e.image)
<1>1. /\ Len(s) \in Nat
      /\ DOMAIN Append(s, e) = 1 .. Len(s) + 1
      /\ Append(s, e)[Len(s) + 1] = e
      /\ \A k \in 1 .. Len(s) + 1 : k <= Len(s) + 1
      /\ Len(s) + 1 \in 1 .. Len(s) + 1
  BY AppendAt
<1> QED
  BY <1>1 DEF ShowsAtLast

LEMMA ShowsBlank ==
  ASSUME NEW s, NEW i, NEW v, ShowsAtLast(s, i, v)
  PROVE  ShowsAtLast(s, v, v)
BY DEF ShowsAtLast

\* What the worker puts into the queue.
LEMMA FinishedIs ==
  ASSUME IsSeq(events), Finish
  PROVE  \E image, p :
           /\ image \in Rendered /\ Records(image) /\ IsSeq(p)
           /\ p = IF job.kind = "run"
                    THEN Append(events, [what |-> "print", req |-> working]) ELSE events
           /\ events' = Append(p, [what |-> "complete", req |-> working, image |-> image])
<1>1. PICK image \in Rendered :
        /\ Records(image)
        /\ events' = events
             \o (IF job.kind = "run" THEN <<[what |-> "print", req |-> working]>> ELSE << >>)
             \o <<[what |-> "complete", req |-> working, image |-> image]>>
  BY DEF Finish
<1> DEFINE e == [what |-> "print", req |-> working]
           f == [what |-> "complete", req |-> working, image |-> image]
           p == IF job.kind = "run" THEN Append(events, e) ELSE events
<1>2. events \o (IF job.kind = "run" THEN <<e>> ELSE << >>) = p
  <2> HIDE DEF e
  <2>1. events \o <<e>> = Append(events, e) /\ events \o << >> = events
    BY AppendAt
  <2> QED
    BY <2>1
<1>3. IsSeq(p)
  BY AppendAt
<1>4. p \o <<f>> = Append(p, f)
  <2> HIDE DEF f, p
  <2> QED
    BY <1>3, AppendAt
<1>5. events' = Append(p, f)
  BY <1>1, <1>2, <1>4
<1> QED
  BY <1>1, <1>3, <1>5

\* The window after its members are set.
LEMMA ShownIs ==
  ASSUME NEW w, Window(w), NEW m, NEW image, renderComplete(w, m, image)
  PROVE  /\ win'.file = w.file /\ win'.script = w.script /\ win'.recorded = w.recorded
         /\ win'.image = image /\ win'.console = w.console
         /\ win'.todo = FALSE /\ win'.enable = TRUE
BY DEF renderComplete, Shown, Window

LEMMA LoadedAtLast ==
  ASSUME PutRight, AtLast, NEW by, NEW f, NEW d, LoadFile(by, f, d)
  PROVE  AtLast'
<1> USE DEF PutRight
<1> DEFINE w == [win EXCEPT !.todo = TRUE, !.console = {}, !.dirty = FALSE, !.recorded = Blank]
           m == [mon EXCEPT !.timer = FALSE, !.ticks = 0, !.infos = FALSE]
           n == asked + 1
           of == [file |-> f, ver |-> d[f], data |-> 0]
           failed == [w EXCEPT !.file = None, !.script = 0, !.console = {0}]
<1>0. PICK A : win \in [todo: BOOLEAN, console: A, file: A, script: A, dirty: A,
                        enable: BOOLEAN, recorded: A, image: A]
  BY DEF Window
<1>1. CASE /\ Ask("run", n, of)
           /\ win' = [w EXCEPT !.file = f, !.script = n, !.enable = FALSE]
  <2>1. last' < asked' /\ asked' \in Nat /\ last' \in Nat
    BY <1>1, AskIs
  <2>2. win'.script = n
    BY <1>0, <1>1
  <2>3. slot'.script = n
    BY <1>1 DEF Ask
  <2> QED
    BY <2>1, <2>2, <2>3 DEF AtLast
<1>2. CASE renderComplete(failed, m, Blank) /\ UNCHANGED <<request, worker>>
  <2>1. Window(failed) /\ failed.file = None
    <3> DEFINE B == A \cup {{}, FALSE, Blank, None, 0, {0}}
    <3>1. failed \in [todo: BOOLEAN, console: B, file: B, script: B, dirty: B,
                      enable: BOOLEAN, recorded: B, image: B] /\ failed.file = None
      BY <1>0
    <3> QED
      BY <3>1 DEF Window
  <2> HIDE DEF failed, m
  <2>2. win'.file = None
    BY <1>2, <2>1, ShownIs
  <2> QED
    BY <1>2, <2>2 DEF AtLast, request, worker
<1> QED
  BY <1>1, <1>2 DEF LoadFile

LEMMA AtLastStep == PutRight /\ AtLast /\ [Next]_vars => AtLast'
<1> SUFFICES ASSUME PutRight, AtLast, [Next]_vars PROVE AtLast'
  OBVIOUS
<1>0. /\ IsSeq(events) /\ Window(win)
      /\ asked \in Nat /\ last \in Nat /\ working \in Nat /\ last <= asked
  BY DEF PutRight, Queue
<1>1. ASSUME UNCHANGED <<request, worker>>, events' = events,
             win'.file = win.file, win'.script = win.script,
             win'.recorded = win.recorded, win'.image = win.image
      PROVE  AtLast'
  BY <1>1 DEF AtLast, request, worker
<1>2. CASE Listen \/ Look \/ (\E f \in Changing : Write(f)) \/ UNCHANGED vars
  BY <1>1, <1>2 DEF Listen, Look, Write, gui, vars
<1>3. CASE Read
  <2>1. \/ events' = events
        \/ events' = Append(events, [what |-> "open", by |-> srv.conn])
    BY <1>3 DEF Read
  <2>2. UNCHANGED <<win, request, worker>>
    BY <1>3 DEF Read, gui
  <2>3. ASSUME ShowsAtLast(events, win.image, win.recorded)
        PROVE  ShowsAtLast(events', win.image, win.recorded)
    <3> DEFINE e == [what |-> "open", by |-> srv.conn]
    <3>1. e.what = "open"
      OBVIOUS
    <3>2. events' = events \/ events' = Append(events, e)
      BY <2>1
    <3> HIDE DEF e
    <3> QED
      BY <1>0, <2>3, <3>1, <3>2, ShowsOpen
  <2> QED
    BY <2>2, <2>3 DEF AtLast, request, worker
<1>4. CASE Close
  BY <1>1, <1>4 DEF Close, gui, request, worker, Worker!Close
<1>5. CASE Handle
  <2>1. events # << >> /\ events' = Tail(events)
    BY <1>5 DEF Handle
  <2>2. CASE Head(events).what = "open"
    <3>1. openFile(Head(events).by, Wants[Head(events).by])
      BY <1>5, <2>2 DEF Handle
    <3>2. CASE UNCHANGED <<win, request, worker>>
      <4>1. ShowsAtLast(events, win.image, win.recorded) => ShowsAtLast(events', win.image, win.recorded)
        BY <1>0, <2>1, <2>2, ShowsTail
      <4> QED
        BY <3>2, <4>1 DEF AtLast, request, worker
    <3> QED
      BY <3>1, <3>2, LoadedAtLast DEF openFile
  <2>3. CASE Head(events).what = "print"
    <3>1. /\ win' = [win EXCEPT !.console = @ \cup {Head(events).req}]
          /\ UNCHANGED <<request, worker>>
      BY <1>5, <2>3 DEF Handle
    <3>2. /\ win'.file = win.file /\ win'.script = win.script
          /\ win'.recorded = win.recorded /\ win'.image = win.image
      BY <1>0, <3>1 DEF Window
    <3>3. ShowsAtLast(events, win.image, win.recorded) => ShowsAtLast(events', win.image, win.recorded)
      BY <1>0, <2>1, <2>3, ShowsTail
    <3> QED
      BY <3>1, <3>2, <3>3 DEF AtLast, request, worker
  <2>4. CASE Head(events).what = "complete"
    <3>1. renderComplete(win, mon, Head(events).image)
          /\ UNCHANGED <<asked, slot, job, last, working>>
      BY <1>5, <2>4 DEF Handle, request, Worker!Deliver
    <3>2. /\ win'.file = win.file /\ win'.script = win.script
          /\ win'.recorded = win.recorded /\ win'.image = Head(events).image
      BY <1>0, <3>1, ShownIs
    <3>3. ShowsAtLast(events, win.image, win.recorded)
            => ShowsAtLast(events', Head(events).image, win.recorded)
      BY <1>0, <2>1, <2>4, ShowsTail
    <3> QED
      BY <3>1, <3>2, <3>3 DEF AtLast
  <2>5. Head(events).what \in {"open", "print", "complete"}
    BY <2>1, TailIs DEF PutRight
  <2> QED
    BY <2>2, <2>3, <2>4, <2>5
<1>6. CASE AnswerSave
  BY <1>1, <1>6, LoadedAtLast DEF AnswerSave
<1>7. CASE AnswerReload
  BY <1>1, <1>7, LoadedAtLast DEF AnswerReload
<1>8. CASE checkForFileUpdates
  BY <1>1, <1>8, LoadedAtLast DEF checkForFileUpdates
<1>9. ASSUME NEW f \in Files, Open(f) PROVE AtLast'
  <2>1. events' = events /\ openFile("user", f)
    BY <1>9 DEF Open, User
  <2> QED
    BY <1>1, <2>1, LoadedAtLast DEF openFile
<1>10. CASE Zoom
  <2>1. events' = events
    BY <1>10 DEF Zoom, User
  <2>2. CASE win.recorded # Blank
    <3>1. /\ Ask("zoom", win.script, win.recorded)
          /\ win' = [win EXCEPT !.enable = FALSE]
      BY <1>10, <2>2 DEF Zoom
    <3>2. asked' \in Nat /\ last' \in Nat /\ last' < asked'
      BY <1>0, <3>1, AskIs
    <3>3. win'.script = win.script /\ slot'.script = win.script
      BY <1>0, <3>1 DEF Window, Ask
    <3> QED
      BY <3>2, <3>3 DEF AtLast
  <2>3. CASE ~(win.recorded # Blank)
    <3>1. renderComplete(win, mon, Blank) /\ UNCHANGED <<request, worker>>
      BY <1>10, <2>3 DEF Zoom
    <3>2. /\ win'.file = win.file /\ win'.script = win.script
          /\ win'.recorded = win.recorded /\ win'.image = win.recorded
      BY <1>0, <2>3, <3>1, ShownIs
    <3> QED
      BY <2>1, <3>1, <3>2, ShowsBlank DEF AtLast, request, worker
  <2> QED
    BY <2>2, <2>3
<1>11. CASE Edit
  <2>1. win' = [win EXCEPT !.dirty = TRUE] /\ UNCHANGED <<events, request, worker>>
    BY <1>11 DEF Edit, User
  <2>2. /\ win'.file = win.file /\ win'.script = win.script
        /\ win'.recorded = win.recorded /\ win'.image = win.image
    BY <1>0, <2>1 DEF Window
  <2> QED
    BY <1>1, <2>1, <2>2
<1>12. CASE Take
  <2>1. /\ UNCHANGED <<win, asked, slot>> /\ working' = asked /\ last' = asked
        /\ asked > 0 /\ job' = slot
    BY <1>12 DEF Take, Worker!Take, request
  <2> QED
    BY <1>0, <2>1 DEF AtLast
<1>13. CASE Finish
  <2>1. PICK image, p :
          /\ Records(image) /\ IsSeq(p)
          /\ events' = Append(p, [what |-> "complete", req |-> working, image |-> image])
    BY <1>0, <1>13, FinishedIs
  <2>2. UNCHANGED <<asked, slot, last>> /\ working' = 0 /\ working > 0
    BY <1>13 DEF Finish, request, Worker!Answer
  <2>3. /\ win'.file = win.file /\ win'.script = win.script
        /\ job.script = win.script => win'.recorded = image
    BY <1>0, <2>1 DEF Records, Window
  <2>4. ASSUME NEW i PROVE ShowsAtLast(events', i, image)
    <3> DEFINE e == [what |-> "complete", req |-> working, image |-> image]
    <3>1. e.what = "complete" /\ e.image = image /\ events' = Append(p, e)
      BY <2>1
    <3> HIDE DEF e
    <3> QED
      BY <2>1, <3>1, ShowsComplete
  <2>5. ~(working' > 0)
    BY <2>2
  <2> QED
    BY <2>2, <2>3, <2>4, <2>5 DEF AtLast
<1> QED
  BY <1>2, <1>3, <1>4, <1>5, <1>6, <1>7, <1>8, <1>9, <1>10, <1>11, <1>12, <1>13 DEF Next, Server

\* At rest the image is what the open script has recorded.
THEOREM ImageIsOfOpenFile == Spec => []ShowsOpenFile
<1>1. Init => PutRight /\ AtLast
  BY InitPutRight DEF Init, AtLast
<1>2. PutRight /\ AtLast /\ [Next]_vars => PutRight' /\ AtLast'
  BY PutRightStep, AtLastStep
<1>3. PutRight /\ AtLast => ShowsOpenFile
  <2>1. ~Completes(<< >>)
    <3>1. DOMAIN << >> = {}
      OBVIOUS
    <3> QED
      BY <3>1 DEF Completes
  <2>2. ASSUME NEW i, NEW v, ShowsAtLast(<< >>, i, v) PROVE i = v
    <3>1. DOMAIN << >> = {}
      OBVIOUS
    <3> QED
      BY <2>1, <2>2, <3>1 DEF ShowsAtLast
  <2> QED
    BY <2>2 DEF AtLast, ShowsOpenFile, Quiet
<1> QED
  BY <1>1, <1>2, <1>3, PTL DEF Spec
-----------------------------------------------------------------------------
(***************************************************************************)
(* The answers.  A client is answered with whatever message there is, so    *)
(* OwnAnswer has to say why the message is the right one when own claims    *)
(* one for it.  Claimed holds in every state: what is claimed is already in *)
(* the message and nothing is left to do, or the window waits for the       *)
(* output of the last rendering asked for, with its actions disabled, no    *)
(* request of another client before it and no older output in the queue.    *)
(* OneByOne holds while only clients have had files rendered, one after the *)
(* other: then every request finds the worker and the queue empty.          *)
(***************************************************************************)
AllOpen(s) == \A k \in DOMAIN s : s[k].what = "open"
NoneOpen(s) == \A k \in DOMAIN s : s[k].what # "open"

\* Questions: none of a client; none but whether to save, at a click of the user.
NoClients(q) == \A k \in DOMAIN q : q[k].by \notin Clients
OnlyUser(q) == \A k \in DOMAIN q : q[k].ask = "save" /\ q[k].by = "user"

\* The client whose request has been passed on and not been answered.
Served == srv.pc \in {"look", "asleep"}
Now == IF Served THEN srv.conn ELSE Nobody

ServerThread(s) ==
  \E A : s \in [pc: {"listen", "read", "look", "asleep", "gone"},
                conn: Clients \cup {Nobody}, message: A]

ClientStates == {"off", "waiting", "answered", "misled", "dropped", "cut"}

Turns ==
  /\ ServerThread(srv) /\ client \in [Clients -> ClientStates]
  /\ times \in Nat /\ abort \in BOOLEAN /\ mixed \in BOOLEAN
  /\ last = asked /\ asked > 0 => times > 0

Conversation ==
  /\ srv.pc # "gone"
  /\ srv.pc = "listen" => srv.conn = Nobody
  /\ srv.pc = "read" => srv.conn \in Clients /\ client[srv.conn] = "off"
  /\ Served => srv.conn \in Clients /\ client[srv.conn] # "off"

\* Requests in the queue s and in the questions q, cl being the clients: that of
\* who is the last, and it is in one place.
Queued(s, who, cl) ==
  \A k \in DOMAIN s : s[k].what = "open" =>
    /\ s[k].by \in Clients /\ cl[s[k].by] # "off"
    /\ s[k].by = who => \A j \in DOMAIN s : s[j].what = "open" => j <= k
Questions(q, s, who, cl) ==
  \A k \in DOMAIN q :
    /\ q[k].by \in Clients \cup {"user", "monitor"}
    /\ q[k].by \in Clients => cl[q[k].by] # "off" /\ (q[k].by = who => NoneOpen(s))

Line == Queued(events, Now, client) /\ Questions(dialogs, events, Now, client)

NothingAsked == NoneOpen(events) /\ NoClients(dialogs)

\* Nothing but the output of n is in the queue s, after what is in console.
Printed(s, console, n) ==
  /\ console \subseteq {n}
  /\ \A k \in DOMAIN s : s[k].what = "print" => s[k].req = n
  /\ \A k \in DOMAIN s : s[k].what = "complete" =>
       console # {} \/ \E j \in DOMAIN s : j < k /\ s[j].what = "print"

\* The window waits for the output of the last rendering.
Serving ==
  /\ srv.message = << >> /\ win.todo /\ ~win.enable
  /\ OnlyUser(dialogs)
  /\ slot.kind = "run"
  /\ last < asked => working = 0 /\ AllOpen(events)
  /\ working > 0 => working = asked /\ job.kind = "run"
  /\ Printed(events, win.console, asked)

Given == srv.message = <<own>> /\ ~win.todo

Claimed ==
  /\ ~Served => own = {}
  /\ own # {} => NothingAsked /\ (Given \/ (own = {asked} /\ Serving))

Idle == working = 0 /\ last = asked /\ ~win.todo /\ AllOpen(events)

\* Of the questions q only one is of a client, that of who.
OneQuestion(q, who) ==
  \A k \in DOMAIN q :
    /\ q[k].ask = "save" /\ q[k].by \in Clients \cup {"user"}
    /\ q[k].by \in Clients => q[k].by = who /\ \A j \in DOMAIN q : q[j].by \in Clients => j = k
\* After an image only requests.
ThenOpen(s) ==
  \A k \in DOMAIN s : s[k].what = "complete" =>
    \A j \in DOMAIN s : j > k => s[j].what = "open"

OneByOne ==
  /\ Served => client[srv.conn] = "waiting"
  /\ Idle \/ own # {}
  /\ ~Served => srv.message = << >>
  /\ ~Served \/ srv.message # << >> => Idle /\ NothingAsked
  /\ ~NothingAsked => Idle /\ own = {} /\ srv.message = << >>
  /\ \A k \in DOMAIN events : events[k].what = "open" =>
       events[k].by = srv.conn /\ NoClients(dialogs)
  /\ OneQuestion(dialogs, srv.conn)
  /\ Completes(events) => working = 0 /\ last = asked
  /\ ThenOpen(events)

Answering == ~abort => Conversation /\ Line /\ Claimed /\ (mixed \/ OneByOne)

\* One event less.
LEMMA TailKeeps ==
  ASSUME NEW s, IsSeq(s), s # << >>
  PROVE  /\ AllOpen(s) => AllOpen(Tail(s)) /\ Head(s).what = "open"
         /\ NoneOpen(s) => NoneOpen(Tail(s))
         /\ ThenOpen(s) => ThenOpen(Tail(s)) /\ (Head(s).what = "complete" => AllOpen(Tail(s)))
         /\ Completes(Tail(s)) => Completes(s)
         /\ Head(s).what = "complete" => Completes(s)
         /\ Head(s).what = "open" => ~NoneOpen(s)
<1>1. /\ Len(s) \in Nat \ {0} /\ DOMAIN s = 1 .. Len(s) /\ Head(s) = s[1]
      /\ DOMAIN Tail(s) = 1 .. Len(s) - 1 /\ 1 \in 1 .. Len(s)
      /\ \A k \in 1 .. Len(s) - 1 : Tail(s)[k] = s[k + 1] /\ k + 1 \in 1 .. Len(s)
  BY TailAt
<1>2. AllOpen(s) => AllOpen(Tail(s)) /\ Head(s).what = "open"
  BY <1>1 DEF AllOpen
<1>3. NoneOpen(s) => NoneOpen(Tail(s))
  BY <1>1 DEF NoneOpen
<1>4. Completes(Tail(s)) => Completes(s)
  BY <1>1 DEF Completes
<1>5. /\ Head(s).what = "complete" => Completes(s)
      /\ Head(s).what = "open" => ~NoneOpen(s)
  BY <1>1 DEF Completes, NoneOpen
<1>6. ASSUME ThenOpen(s) PROVE ThenOpen(Tail(s))
  <2>1. ASSUME NEW k \in 1 .. Len(s) - 1, Tail(s)[k].what = "complete",
               NEW j \in 1 .. Len(s) - 1, j > k
        PROVE  Tail(s)[j].what = "open"
    <3>1. s[k + 1].what = "complete" /\ k + 1 \in 1 .. Len(s) /\ j + 1 \in 1 .. Len(s)
          /\ j + 1 > k + 1 /\ Tail(s)[j] = s[j + 1]
      BY <1>1, <2>1
    <3> QED
      BY <1>1, <1>6, <3>1 DEF ThenOpen
  <2> QED
    BY <1>1, <2>1 DEF ThenOpen
<1>7. ASSUME ThenOpen(s), Head(s).what = "complete" PROVE AllOpen(Tail(s))
  <2>1. ASSUME NEW j \in 1 .. Len(s) - 1 PROVE Tail(s)[j].what = "open"
    <3>1. j + 1 \in 1 .. Len(s) /\ j + 1 > 1 /\ Tail(s)[j] = s[j + 1] /\ s[1].what = "complete"
      BY <1>1, <1>7
    <3> QED
      BY <1>1, <1>7, <3>1 DEF ThenOpen
  <2> QED
    BY <1>1, <2>1 DEF AllOpen
<1> QED
  BY <1>2, <1>3, <1>4, <1>5, <1>6, <1>7

LEMMA TailQueued ==
  ASSUME NEW s, IsSeq(s), s # << >>, NEW who, NEW cl, Queued(s, who, cl)
  PROVE  /\ Queued(Tail(s), who, cl)
         /\ Head(s).what = "open" => Head(s).by \in Clients /\ cl[Head(s).by] # "off"
         /\ Head(s).what = "open" /\ Head(s).by = who => NoneOpen(Tail(s))
<1>1. /\ Len(s) \in Nat \ {0} /\ DOMAIN s = 1 .. Len(s) /\ Head(s) = s[1]
      /\ DOMAIN Tail(s) = 1 .. Len(s) - 1 /\ 1 \in 1 .. Len(s)
      /\ \A k \in 1 .. Len(s) - 1 : Tail(s)[k] = s[k + 1] /\ k + 1 \in 1 .. Len(s)
  BY TailAt
<1>2. ASSUME NEW k \in 1 .. Len(s) - 1, Tail(s)[k].what = "open"
      PROVE  /\ Tail(s)[k].by \in Clients /\ cl[Tail(s)[k].by] # "off"
             /\ Tail(s)[k].by = who =>
                  \A j \in 1 .. Len(s) - 1 : Tail(s)[j].what = "open" => j <= k
  <2>1. s[k + 1].what = "open" /\ k + 1 \in 1 .. Len(s) /\ Tail(s)[k] = s[k + 1]
    BY <1>1, <1>2
  <2>2. /\ s[k + 1].by \in Clients /\ cl[s[k + 1].by] # "off"
        /\ s[k + 1].by = who => \A j \in 1 .. Len(s) : s[j].what = "open" => j <= k + 1
    BY <1>1, <2>1 DEF Queued
  <2>3. ASSUME s[k + 1].by = who, NEW j \in 1 .. Len(s) - 1, Tail(s)[j].what = "open"
        PROVE  j <= k
    <3>1. j + 1 \in 1 .. Len(s) /\ s[j + 1].what = "open"
      BY <1>1, <2>3
    <3>2. j + 1 <= k + 1
      BY <2>2, <2>3, <3>1
    <3> QED
      BY <3>2
  <2> QED
    BY <2>1, <2>2, <2>3
<1>3. Queued(Tail(s), who, cl)
  BY <1>1, <1>2 DEF Queued
<1>4. Head(s).what = "open" => Head(s).by \in Clients /\ cl[Head(s).by] # "off"
  BY <1>1 DEF Queued
<1>5. ASSUME s[1].what = "open", s[1].by = who, NEW j \in 1 .. Len(s) - 1
      PROVE  Tail(s)[j].what # "open"
  <2>1. j + 1 \in 1 .. Len(s) /\ ~(j + 1 <= 1) /\ Tail(s)[j] = s[j + 1]
    BY <1>1
  <2>2. \A i \in 1 .. Len(s) : s[i].what = "open" => i <= 1
    BY <1>1, <1>5 DEF Queued
  <2> QED
    BY <2>1, <2>2
<1> QED
  BY <1>1, <1>3, <1>4, <1>5 DEF NoneOpen

LEMMA TailPrinted ==
  ASSUME NEW s, IsSeq(s), s # << >>, NEW console, NEW n, Printed(s, console, n)
  PROVE  /\ Head(s).what = "open" => Printed(Tail(s), console, n)
         /\ Head(s).what = "print" => Printed(Tail(s), console \cup {Head(s).req}, n)
         /\ Head(s).what = "complete" => console = {n}
<1>1. /\ Len(s) \in Nat \ {0} /\ DOMAIN s = 1 .. Len(s) /\ Head(s) = s[1]
      /\ DOMAIN Tail(s) = 1 .. Len(s) - 1 /\ 1 \in 1 .. Len(s)
      /\ \A k \in 1 .. Len(s) - 1 : Tail(s)[k] = s[k + 1] /\ k + 1 \in 1 .. Len(s)
  BY TailAt
<1>2. \A k \in 1 .. Len(s) - 1 : Tail(s)[k].what = "print" => Tail(s)[k].req = n
  BY <1>1 DEF Printed
<1>3. ASSUME s[1].what = "open", NEW k \in 1 .. Len(s) - 1, Tail(s)[k].what = "complete",
             console = {}
      PROVE  \E j \in 1 .. Len(s) - 1 : j < k /\ Tail(s)[j].what = "print"
  <2>1. s[k + 1].what = "complete" /\ k + 1 \in 1 .. Len(s)
    BY <1>1, <1>3
  <2>2. PICK j \in 1 .. Len(s) : j < k + 1 /\ s[j].what = "print"
    BY <1>1, <1>3, <2>1 DEF Printed
  <2>3. j # 1
    BY <1>3, <2>2
  <2>4. j - 1 \in 1 .. Len(s) - 1 /\ j - 1 < k /\ Tail(s)[j - 1] = s[j]
    BY <1>1, <2>2, <2>3
  <2> QED
    BY <2>2, <2>4
<1>4. ASSUME s[1].what = "complete" PROVE console = {n}
  <2>1. console # {} \/ \E j \in 1 .. Len(s) : j < 1 /\ s[j].what = "print"
    BY <1>1, <1>4 DEF Printed
  <2>2. console # {}
    BY <1>1, <2>1
  <2> QED
    BY <2>2 DEF Printed
<1>5. s[1].what = "print" => s[1].req = n
  BY <1>1 DEF Printed
<1>6. s[1].what = "open" => Printed(Tail(s), console, n)
  BY <1>1, <1>2, <1>3 DEF Printed
<1>7. s[1].what = "print" => Printed(Tail(s), console \cup {s[1].req}, n)
  BY <1>1, <1>2, <1>5 DEF Printed
<1> QED
  BY <1>1, <1>4, <1>6, <1>7

\* One event more.
LEMMA AppendKeeps ==
  ASSUME NEW s, IsSeq(s), NEW e
  PROVE  /\ AllOpen(s) /\ e.what = "open" => AllOpen(Append(s, e))
         /\ NoneOpen(s) /\ e.what # "open" => NoneOpen(Append(s, e))
         /\ ~Completes(s) => ThenOpen(Append(s, e))
         /\ ~Completes(s) /\ e.what # "complete" => ~Completes(Append(s, e))
<1>1. /\ Len(s) \in Nat /\ DOMAIN s = 1 .. Len(s)
      /\ DOMAIN Append(s, e) = 1 .. Len(s) + 1
      /\ \A k \in 1 .. Len(s) : Append(s, e)[k] = s[k]
      /\ Append(s, e)[Len(s) + 1] = e
      /\ \A k \in 1 .. Len(s) + 1 : k \in 1 .. Len(s) \/ k = Len(s) + 1
  BY AppendAt
<1>2. /\ AllOpen(s) /\ e.what = "open" => AllOpen(Append(s, e))
      /\ NoneOpen(s) /\ e.what # "open" => NoneOpen(Append(s, e))
  BY <1>1 DEF AllOpen, NoneOpen
<1>3. ASSUME ~Completes(s), NEW k \in 1 .. Len(s) + 1, Append(s, e)[k].what = "complete"
      PROVE  k = Len(s) + 1
  BY <1>1, <1>3 DEF Completes
<1>4. ~Completes(s) => ThenOpen(Append(s, e))
  <2>1. \A j \in 1 .. Len(s) + 1 : ~(j > Len(s) + 1)
    BY <1>1
  <2> QED
    BY <1>1, <1>3, <2>1 DEF ThenOpen
<1>5. ~Completes(s) /\ e.what # "complete" => ~Completes(Append(s, e))
  BY <1>1, <1>3 DEF Completes
<1> QED
  BY <1>2, <1>4, <1>5

LEMMA AppendQueued ==
  ASSUME NEW s, IsSeq(s), NEW who, NEW cl, Queued(s, who, cl), NEW e, e.what # "open"
  PROVE  Queued(Append(s, e), who, cl)
<1>1. /\ Len(s) \in Nat /\ DOMAIN s = 1 .. Len(s)
      /\ DOMAIN Append(s, e) = 1 .. Len(s) + 1
      /\ \A k \in 1 .. Len(s) : Append(s, e)[k] = s[k]
      /\ Append(s, e)[Len(s) + 1] = e
      /\ \A k \in 1 .. Len(s) + 1 : k \in 1 .. Len(s) \/ k = Len(s) + 1
  BY AppendAt
<1>2. \A k \in 1 .. Len(s) + 1 : Append(s, e)[k].what = "open" =>
        k \in 1 .. Len(s) /\ Append(s, e)[k] = s[k]
  BY <1>1
<1> QED
  BY <1>1, <1>2 DEF Queued

\* A new client has asked.
LEMMA AppendRequest ==
  ASSUME NEW s, IsSeq(s), NEW who, NEW cl, Queued(s, who, cl),
         NEW c \in Clients, cl[c] = "off", NEW dl,
         dl[c] # "off", \A d \in Clients : d # c => dl[d] = cl[d],
         NEW e, e.what = "open", e.by = c
  PROVE  Queued(Append(s, e), c, dl)
<1>1. /\ Len(s) \in Nat /\ DOMAIN s = 1 .. Len(s)
      /\ DOMAIN Append(s, e) = 1 .. Len(s) + 1
      /\ \A k \in 1 .. Len(s) : Append(s, e)[k] = s[k]
      /\ Append(s, e)[Len(s) + 1] = e
      /\ \A k \in 1 .. Len(s) + 1 : k <= Len(s) + 1
      /\ \A k \in 1 .. Len(s) + 1 : k \in 1 .. Len(s) \/ k = Len(s) + 1
  BY AppendAt
<1>2. ASSUME NEW k \in 1 .. Len(s), s[k].what = "open"
      PROVE  s[k].by \in Clients /\ dl[s[k].by] # "off" /\ s[k].by # c
  <2>1. s[k].by \in Clients /\ cl[s[k].by] # "off"
    BY <1>1, <1>2 DEF Queued
  <2> QED
    BY <2>1
<1> QED
  BY <1>1, <1>2 DEF Queued

\* The output of a run.
LEMMA AppendPrinted ==
  ASSUME NEW s, IsSeq(s), NEW console, NEW n, Printed(s, console, n), NEW e
  PROVE  /\ e.what = "open" => Printed(Append(s, e), console, n)
         /\ e.what = "print" /\ e.req = n =>
              /\ Printed(Append(s, e), console, n)
              /\ \A f : f.what = "complete" => Printed(Append(Append(s, e), f), console, n)
<1> DEFINE t == Append(s, e)
<1>1. /\ IsSeq(t) /\ Len(t) = Len(s) + 1
      /\ Len(s) \in Nat /\ DOMAIN s = 1 .. Len(s)
      /\ DOMAIN t = 1 .. Len(s) + 1
      /\ \A k \in 1 .. Len(s) : t[k] = s[k]
      /\ t[Len(s) + 1] = e
  BY AppendAt
<1>2. /\ \A k \in 1 .. Len(s) : k \in 1 .. Len(s) + 1
      /\ \A k \in 1 .. Len(s) + 1 : k \in 1 .. Len(s) \/ k = Len(s) + 1
  BY <1>1
<1> HIDE DEF t
<1>3. ASSUME e.what # "complete", e.what = "print" => e.req = n PROVE Printed(t, console, n)
  <2>1. \A k \in 1 .. Len(s) + 1 : t[k].what = "print" => t[k].req = n
    BY <1>1, <1>2, <1>3 DEF Printed
  <2>2. \A k \in 1 .. Len(s) + 1 : t[k].what = "complete" =>
          console # {} \/ \E j \in 1 .. Len(s) + 1 : j < k /\ t[j].what = "print"
    BY <1>1, <1>2, <1>3 DEF Printed
  <2> QED
    BY <1>1, <2>1, <2>2 DEF Printed
<1>4. ASSUME e.what = "print", e.req = n, NEW f, f.what = "complete"
      PROVE  Printed(Append(t, f), console, n)
  <2>1. /\ DOMAIN Append(t, f) = 1 .. Len(s) + 2
        /\ \A k \in 1 .. Len(s) + 1 : Append(t, f)[k] = t[k]
        /\ Append(t, f)[Len(s) + 2] = f
    <3>1. /\ Len(t) \in Nat /\ DOMAIN Append(t, f) = 1 .. Len(t) + 1
          /\ \A k \in 1 .. Len(t) : Append(t, f)[k] = t[k]
          /\ Append(t, f)[Len(t) + 1] = f
      BY <1>1, AppendAt
    <3>2. Len(t) + 1 = Len(s) + 2
      BY <1>1
    <3> QED
      BY <1>1, <3>1, <3>2
  <2>2. /\ \A k \in 1 .. Len(s) + 1 : k \in 1 .. Len(s) + 2
        /\ \A k \in 1 .. Len(s) + 2 : k \in 1 .. Len(s) + 1 \/ k = Len(s) + 2
        /\ Len(s) + 1 \in 1 .. Len(s) + 1 /\ Len(s) + 1 < Len(s) + 2
    BY <1>1
  <2>3. Printed(t, console, n)
    BY <1>3, <1>4
  <2>4. \A k \in 1 .. Len(s) + 2 : Append(t, f)[k].what = "print" => Append(t, f)[k].req = n
    BY <1>1, <1>4, <2>1, <2>2, <2>3 DEF Printed
  <2>5. Append(t, f)[Len(s) + 1].what = "print"
    BY <1>1, <1>4, <2>1, <2>2
  <2>6. \A k \in 1 .. Len(s) + 2 : Append(t, f)[k].what = "complete" =>
          console # {} \/ \E j \in 1 .. Len(s) + 2 : j < k /\ Append(t, f)[j].what = "print"
    <3>1. SUFFICES ASSUME NEW k \in 1 .. Len(s) + 2, Append(t, f)[k].what = "complete", console = {}
                   PROVE  \E j \in 1 .. Len(s) + 2 : j < k /\ Append(t, f)[j].what = "print"
      OBVIOUS
    <3>2. CASE k = Len(s) + 2
      BY <2>2, <2>5, <3>2
    <3>3. CASE k \in 1 .. Len(s) + 1
      <4>1. PICK j \in 1 .. Len(s) + 1 : j < k /\ t[j].what = "print"
        BY <1>1, <2>1, <2>3, <3>1, <3>3 DEF Printed
      <4> QED
        BY <2>1, <2>2, <4>1
    <3> QED
      BY <2>2, <3>2, <3>3
  <2> QED
    BY <2>1, <2>3, <2>4, <2>6 DEF Printed
<1> QED
  BY <1>3, <1>4 DEF t

\* Questions.
LEMMA FrontAt ==
  ASSUME NEW q, IsSeq(q), q # << >>
  PROVE  /\ IsSeq(Front(q)) /\ Len(q) \in Nat \ {0} /\ DOMAIN q = 1 .. Len(q)
         /\ DOMAIN Front(q) = 1 .. Len(q) - 1 /\ Last(q) = q[Len(q)] /\ Len(q) \in DOMAIN q
         /\ \A k \in DOMAIN Front(q) : Front(q)[k] = q[k] /\ k \in DOMAIN q /\ k # Len(q)
<1> PICK S : q \in Seq(S)
  BY DEF IsSeq
<1> DEFINE n == Len(q) - 1
<1>1. n \in Nat /\ Len(q) \in Nat \ {0} /\ DOMAIN q = 1 .. Len(q) /\ \A i \in 1 .. n : q[i] \in S
  BY EmptySeq, ElementOfSeq, LenProperties
<1>2. \A k \in 1 .. n : k \in 1 .. Len(q) /\ k # Len(q)
  <2>1. Len(q) \in Nat
    BY <1>1
  <2> QED
    BY <2>1
<1>3. Len(q) \in DOMAIN q
  BY <1>1
<1>4. Last(q) = q[Len(q)] /\ Front(q) = SubSeq(q, 1, n)
  BY DEF Last, Front
<1> HIDE DEF n
<1>5. /\ SubSeq(q, 1, n) \in Seq(S)
      /\ Len(SubSeq(q, 1, n)) = IF 1 <= n THEN n - 1 + 1 ELSE 0
      /\ \A i \in 1 .. n - 1 + 1 : SubSeq(q, 1, n)[i] = q[1 + i - 1]
  BY <1>1, SubSeqProperties
<1>6. Len(SubSeq(q, 1, n)) = n /\ \A i \in 1 .. n : SubSeq(q, 1, n)[i] = q[i]
  BY <1>1, <1>5
<1>7. DOMAIN SubSeq(q, 1, n) = 1 .. n
  BY <1>5, <1>6, LenProperties
<1>8. IsSeq(SubSeq(q, 1, n))
  BY <1>5 DEF IsSeq
<1> QED
  BY <1>1, <1>2, <1>3, <1>4, <1>6, <1>7, <1>8 DEF n

LEMMA FrontKeeps ==
  ASSUME NEW q, IsSeq(q), q # << >>
  PROVE  /\ NoClients(q) => NoClients(Front(q)) /\ Last(q).by \notin Clients
         /\ OnlyUser(q) => OnlyUser(Front(q)) /\ Last(q).ask = "save" /\ Last(q).by = "user"
         /\ \A who : OneQuestion(q, who) =>
              /\ OneQuestion(Front(q), who)
              /\ Last(q).ask = "save" /\ Last(q).by \in Clients \cup {"user"}
              /\ Last(q).by \in Clients => Last(q).by = who /\ NoClients(Front(q))
         /\ \A s, who, cl : Questions(q, s, who, cl) =>
              /\ Questions(Front(q), s, who, cl)
              /\ Last(q).by \in Clients \cup {"user", "monitor"}
              /\ Last(q).by \in Clients =>
                   cl[Last(q).by] # "off" /\ (Last(q).by = who => NoneOpen(s))
         /\ NoClients(Front(q)) /\ Last(q).by \notin Clients => NoClients(q)
<1>1. /\ Last(q) = q[Len(q)] /\ Len(q) \in DOMAIN q
      /\ \A k \in DOMAIN Front(q) : Front(q)[k] = q[k] /\ k \in DOMAIN q /\ k # Len(q)
  BY FrontAt
<1>2. NoClients(q) => NoClients(Front(q)) /\ Last(q).by \notin Clients
  BY <1>1 DEF NoClients
<1>3. OnlyUser(q) => OnlyUser(Front(q)) /\ Last(q).ask = "save" /\ Last(q).by = "user"
  BY <1>1 DEF OnlyUser
<1>4. ASSUME NEW who, OneQuestion(q, who)
      PROVE  /\ OneQuestion(Front(q), who)
             /\ Last(q).ask = "save" /\ Last(q).by \in Clients \cup {"user"}
             /\ Last(q).by \in Clients => Last(q).by = who /\ NoClients(Front(q))
  <2>1. OneQuestion(Front(q), who)
    BY <1>1, <1>4 DEF OneQuestion
  <2>2. Last(q).ask = "save" /\ Last(q).by \in Clients \cup {"user"}
    BY <1>1, <1>4 DEF OneQuestion
  <2>3. ASSUME Last(q).by \in Clients PROVE Last(q).by = who /\ NoClients(Front(q))
    <3>1. q[Len(q)].by = who /\ \A j \in DOMAIN q : q[j].by \in Clients => j = Len(q)
      BY <1>1, <1>4, <2>3 DEF OneQuestion
    <3> QED
      BY <1>1, <3>1 DEF NoClients
  <2> QED
    BY <2>1, <2>2, <2>3
<1>5. ASSUME NEW s, NEW who, NEW cl, Questions(q, s, who, cl)
      PROVE  /\ Questions(Front(q), s, who, cl)
             /\ Last(q).by \in Clients \cup {"user", "monitor"}
             /\ Last(q).by \in Clients =>
                  cl[Last(q).by] # "off" /\ (Last(q).by = who => NoneOpen(s))
  BY <1>1, <1>5 DEF Questions
<1>6. NoClients(Front(q)) /\ Last(q).by \notin Clients => NoClients(q)
  <2>1. \A k \in DOMAIN q : k = Len(q) \/ k \in DOMAIN Front(q)
    BY FrontAt
  <2> QED
    BY <1>1, <2>1 DEF NoClients
<1> QED
  BY <1>2, <1>3, <1>4, <1>5, <1>6

LEMMA AskKeeps ==
  ASSUME NEW q, IsSeq(q), NEW e
  PROVE  /\ IsSeq(Append(q, e))
         /\ NoClients(q) /\ e.by \notin Clients => NoClients(Append(q, e))
         /\ OnlyUser(q) /\ e.ask = "save" /\ e.by = "user" => OnlyUser(Append(q, e))
         /\ \A who : OneQuestion(q, who) /\ e.ask = "save" /\ e.by = "user" /\ e.by \notin Clients
              => OneQuestion(Append(q, e), who)
         /\ \A who : OneQuestion(q, who) /\ e.ask = "save" /\ e.by = who /\ NoClients(q)
                     /\ e.by \in Clients
              => OneQuestion(Append(q, e), who)
         /\ \A s, who, cl : /\ Questions(q, s, who, cl)
                            /\ e.by \in Clients \cup {"user", "monitor"}
                            /\ e.by \in Clients =>
                                 cl[e.by] # "off" /\ (e.by = who => NoneOpen(s))
              => Questions(Append(q, e), s, who, cl)
         /\ NoClients(Append(q, e)) => e.by \notin Clients
<1>1. /\ IsSeq(Append(q, e)) /\ DOMAIN Append(q, e) = 1 .. Len(q) + 1
      /\ DOMAIN q = 1 .. Len(q) /\ Len(q) \in Nat
      /\ \A k \in 1 .. Len(q) : Append(q, e)[k] = q[k]
      /\ Append(q, e)[Len(q) + 1] = e
      /\ \A k \in 1 .. Len(q) + 1 : k \in 1 .. Len(q) \/ k = Len(q) + 1
  BY AppendAt
<1>2. NoClients(q) /\ e.by \notin Clients => NoClients(Append(q, e))
  BY <1>1 DEF NoClients
<1>3. OnlyUser(q) /\ e.ask = "save" /\ e.by = "user" => OnlyUser(Append(q, e))
  BY <1>1 DEF OnlyUser
<1>4. ASSUME NEW who, OneQuestion(q, who), e.ask = "save", e.by = "user", e.by \notin Clients
      PROVE  OneQuestion(Append(q, e), who)
  BY <1>1, <1>4 DEF OneQuestion
<1>5. ASSUME NEW who, OneQuestion(q, who), e.ask = "save", e.by = who, NoClients(q), e.by \in Clients
      PROVE  OneQuestion(Append(q, e), who)
  <2>1. \A k \in 1 .. Len(q) + 1 : Append(q, e)[k].by \in Clients => k = Len(q) + 1
    BY <1>1, <1>5 DEF NoClients
  <2>2. \A k \in 1 .. Len(q) + 1 : /\ Append(q, e)[k].ask = "save"
                                   /\ Append(q, e)[k].by \in Clients \cup {"user"}
    BY <1>1, <1>5 DEF OneQuestion
  <2> QED
    BY <1>1, <1>5, <2>1, <2>2 DEF OneQuestion
<1>6. ASSUME NEW s, NEW who, NEW cl, Questions(q, s, who, cl), e.by \in Clients \cup {"user", "monitor"},
             e.by \in Clients => cl[e.by] # "off" /\ (e.by = who => NoneOpen(s))
      PROVE  Questions(Append(q, e), s, who, cl)
  BY <1>1, <1>6 DEF Questions
<1>7. NoClients(Append(q, e)) => e.by \notin Clients
  <2>1. Len(q) + 1 \in 1 .. Len(q) + 1
    BY <1>1
  <2> QED
    BY <1>1, <2>1 DEF NoClients
<1> QED
  BY <1>1, <1>2, <1>3, <1>4, <1>5, <1>6, <1>7

\* The server thread goes on serving whom it serves.
SameTurn ==
  /\ ServerThread(srv') /\ srv'.conn = srv.conn
  /\ srv'.pc = srv.pc \/ (srv.pc = "asleep" /\ srv'.pc = "look")

LEMMA SameTurnIs ==
  ASSUME SameTurn
  PROVE  /\ Served' <=> Served
         /\ Now' = Now
         /\ srv'.pc = "read" <=> srv.pc = "read"
         /\ srv'.pc = "gone" <=> srv.pc = "gone"
         /\ srv'.pc = "listen" <=> srv.pc = "listen"
<1>1. Served' <=> Served
  BY DEF SameTurn, Served
<1>2. Now' = Now
  BY <1>1 DEF Now, SameTurn
<1>3. /\ srv'.pc = "read" <=> srv.pc = "read"
      /\ srv'.pc = "gone" <=> srv.pc = "gone"
      /\ srv'.pc = "listen" <=> srv.pc = "listen"
  BY DEF SameTurn
<1> QED
  BY <1>1, <1>2, <1>3

LEMMA SentIs ==
  ASSUME ServerThread(srv), NEW text, sendMessageToGLEMinusP(text)
  PROVE  SameTurn /\ srv'.message = <<text>>
<1> PICK A : srv \in [pc: {"listen", "read", "look", "asleep", "gone"},
                      conn: Clients \cup {Nobody}, message: A]
  BY DEF ServerThread
<1> DEFINE B == A \cup {<<text>>}
           p == IF srv.pc = "asleep" THEN "look" ELSE srv.pc
<1>1. srv' = [srv EXCEPT !.message = <<text>>, !.pc = p]
  BY DEF sendMessageToGLEMinusP
<1>2. p \in {"listen", "read", "look", "asleep", "gone"}
  OBVIOUS
<1> HIDE DEF p
<1>3. /\ srv' \in [pc: {"listen", "read", "look", "asleep", "gone"},
                   conn: Clients \cup {Nobody}, message: B]
      /\ srv'.conn = srv.conn /\ srv'.message = <<text>> /\ srv'.pc = p
  BY <1>1, <1>2
<1>4. ServerThread(srv')
  BY <1>3 DEF ServerThread
<1> QED
  BY <1>3, <1>4 DEF SameTurn, p

LEMMA CompletedIs ==
  ASSUME ServerThread(srv), NEW w, NEW m, NEW image, renderComplete(w, m, image)
  PROVE  SameTurn /\ srv'.message = IF w.todo THEN <<w.console>> ELSE srv.message
<1>1. CASE w.todo
  <2>1. sendMessageToGLEMinusP(w.console)
    BY <1>1 DEF renderComplete
  <2> QED
    BY <1>1, <2>1, SentIs
<1>2. CASE ~w.todo
  <2>1. srv' = srv
    BY <1>2 DEF renderComplete
  <2> QED
    BY <1>2, <2>1 DEF SameTurn
<1> QED
  BY <1>1, <1>2

\* What opening a file does to all that counts here.
Loaded(by) ==
  /\ SameTurn /\ abort' = abort /\ mixed' = (mixed \/ by \notin Clients)
  /\ UNCHANGED <<working, last, times, job>>
  /\ \/ /\ asked' = asked + 1 /\ slot'.kind = "run"
        /\ win'.todo = TRUE /\ win'.enable = FALSE /\ win'.console = {}
        /\ srv'.message = srv.message
        /\ own' = Expecting(by, asked + 1)
     \/ /\ UNCHANGED request
        /\ win'.todo = FALSE /\ srv'.message = <<{0}>>
        /\ own' = Expecting(by, 0)

LEMMA LoadedIs ==
  ASSUME ServerThread(srv), Window(win), NEW by, NEW f, NEW d, LoadFile(by, f, d)
  PROVE  Loaded(by)
<1> DEFINE w == [win EXCEPT !.todo = TRUE, !.console = {}, !.dirty = FALSE, !.recorded = Blank]
           m == [mon EXCEPT !.timer = FALSE, !.ticks = 0, !.infos = FALSE]
           n == asked + 1
           of == [file |-> f, ver |-> d[f], data |-> 0]
           failed == [w EXCEPT !.file = None, !.script = 0, !.console = {0}]
<1>0. PICK A : win \in [todo: BOOLEAN, console: A, file: A, script: A, dirty: A,
                        enable: BOOLEAN, recorded: A, image: A]
  BY DEF Window
<1>1. mixed' = (mixed \/ by \notin Clients)
  BY DEF LoadFile
<1>2. CASE /\ Ask("run", n, of)
           /\ win' = [w EXCEPT !.file = f, !.script = n, !.enable = FALSE]
           /\ own' = Expecting(by, n)
           /\ UNCHANGED srv
  <2>1. win'.todo = TRUE /\ win'.enable = FALSE /\ win'.console = {}
    BY <1>0, <1>2
  <2>2. /\ asked' = asked + 1 /\ slot'.kind = "run" /\ abort' = abort
        /\ UNCHANGED <<working, last, times, job>>
    BY <1>2 DEF Ask, Worker!Ask
  <2>3. SameTurn
    BY <1>2 DEF SameTurn
  <2> QED
    BY <1>1, <1>2, <2>1, <2>2, <2>3 DEF Loaded
<1>3. CASE /\ renderComplete(failed, m, Blank) /\ own' = Expecting(by, 0)
           /\ UNCHANGED <<request, worker, abort>>
  <2>1. Window(failed) /\ failed.todo = TRUE /\ failed.console = {0}
    <3> DEFINE B == A \cup {{}, FALSE, Blank, None, 0, {0}}
    <3>1. failed \in [todo: BOOLEAN, console: B, file: B, script: B, dirty: B,
                      enable: BOOLEAN, recorded: B, image: B]
          /\ failed.todo = TRUE /\ failed.console = {0}
      BY <1>0
    <3> QED
      BY <3>1 DEF Window
  <2> HIDE DEF failed, m
  <2>2. win'.todo = FALSE
    BY <1>3, <2>1, ShownIs
  <2>3. SameTurn /\ srv'.message = <<{0}>>
    BY <1>3, <2>1, CompletedIs
  <2> QED
    BY <1>1, <1>3, <2>2, <2>3 DEF Loaded, worker
<1> QED
  BY <1>2, <1>3 DEF LoadFile

\* Whom an opened file is for.
LEMMA ExpectingIs ==
  ASSUME ServerThread(srv), NEW n
  PROVE  /\ Expecting("user", n) = {}
         /\ Expecting("monitor", n) = IF srv.message # << >> THEN {} ELSE own
         /\ \A c \in Clients :
              Expecting(c, n) = IF c = srv.conn /\ client[c] = "waiting" /\ (Alone \/ ~mixed)
                                  THEN {n} ELSE own
<1>1. srv.conn \in Clients \cup {Nobody}
  BY DEF ServerThread
<1>2. "user" # srv.conn /\ "monitor" # srv.conn /\ "user" \notin Clients /\ "monitor" \notin Clients
  BY <1>1, ClientsAssumption DEF Nobody
<1>3. Expecting("user", n) = {}
  BY <1>2 DEF Expecting
<1>4. Expecting("monitor", n) = IF srv.message # << >> THEN {} ELSE own
  BY <1>2 DEF Expecting
<1>5. ASSUME NEW c \in Clients
      PROVE  Expecting(c, n) = IF c = srv.conn /\ client[c] = "waiting" /\ (Alone \/ ~mixed)
                                 THEN {n} ELSE own
  <2>1. c # "user" /\ c # "monitor"
    BY <1>2
  <2> QED
    BY <2>1 DEF Expecting
<1> QED
  BY <1>3, <1>4, <1>5

LEMMA ServedIs ==
  ASSUME ServerThread(srv), Conversation
  PROVE  /\ Served => srv.conn \in Clients /\ Now = srv.conn
         /\ ~Served => Now \notin Clients
         /\ {"user", "monitor", Nobody} \cap Clients = {}
BY ClientsAssumption DEF Conversation, Now

LEMMA ConversationKept ==
  ASSUME SameTurn, Conversation, \A c \in Clients : client'[c] = "off" <=> client[c] = "off"
  PROVE  Conversation'
<1>1. /\ Served' <=> Served
      /\ srv'.pc = "read" <=> srv.pc = "read"
      /\ srv'.pc = "gone" <=> srv.pc = "gone"
      /\ srv'.pc = "listen" <=> srv.pc = "listen"
      /\ srv'.conn = srv.conn
  BY SameTurnIs DEF SameTurn
<1> QED
  BY <1>1 DEF Conversation

\* The user or the monitor opens a file, or what is claimed is given up otherwise.
LEMMA LoadForOthers ==
  ASSUME ServerThread(srv), Window(win), Conversation, NEW by, by \notin Clients,
         NEW f, NEW d, LoadFile(by, f, d),
         own' = {}, client' = client, events' = events, Line,
         Questions(dialogs', events, Now, client)
  PROVE  Answering'
<1>1. SameTurn /\ mixed' = (mixed \/ by \notin Clients)
  BY LoadedIs DEF Loaded
<1>2. Conversation'
  BY <1>1, ConversationKept
<1>3. Now' = Now
  BY <1>1, SameTurnIs
<1>4. Line'
  BY <1>3 DEF Line
<1>5. mixed'
  BY <1>1
<1> QED
  BY <1>2, <1>4, <1>5 DEF Answering, Claimed

\* A client's file is opened.
LEMMA LoadForClient ==
  ASSUME ServerThread(srv), Window(win), Conversation, Claimed, mixed \/ OneByOne,
         working \in Nat, last \in Nat, asked \in Nat, last <= asked, mixed \in BOOLEAN,
         NEW by \in Clients, NEW f, NEW d, LoadFile(by, f, d),
         own = {}, client' = client, Line',
         client[by] # "off",
         Served /\ by = srv.conn => NoneOpen(events'),
         ~mixed => /\ Idle /\ srv.message = << >> /\ AllOpen(events') /\ NoClients(dialogs')
                   /\ OneQuestion(dialogs', srv.conn) /\ by = srv.conn /\ Served
  PROVE  Answering'
<1>1. Loaded(by)
  BY LoadedIs
<1>2. /\ SameTurn /\ (mixed' <=> mixed)
      /\ UNCHANGED <<working, last, times, job>>
  BY <1>1 DEF Loaded
<1>3. Conversation'
  BY <1>2, ConversationKept
<1>4. /\ Now' = Now /\ (Served' <=> Served) /\ srv'.conn = srv.conn
      /\ Served => srv.conn \in Clients /\ Now = srv.conn
  BY <1>2, SameTurnIs, ServedIs DEF SameTurn
<1>5. PICK n : /\ own' = Expecting(by, n)
               /\ \/ /\ n = asked + 1 /\ asked' = n /\ slot'.kind = "run"
                     /\ win'.todo = TRUE /\ win'.enable = FALSE /\ win'.console = {}
                     /\ srv'.message = srv.message
                  \/ /\ n = 0 /\ UNCHANGED request
                     /\ win'.todo = FALSE /\ srv'.message = <<{0}>>
  <2>1. CASE /\ asked' = asked + 1 /\ slot'.kind = "run"
             /\ win'.todo = TRUE /\ win'.enable = FALSE /\ win'.console = {}
             /\ srv'.message = srv.message
             /\ own' = Expecting(by, asked + 1)
    BY <2>1
  <2>2. CASE /\ UNCHANGED request
             /\ win'.todo = FALSE /\ srv'.message = <<{0}>>
             /\ own' = Expecting(by, 0)
    BY <2>2
  <2> QED
    BY <1>1, <2>1, <2>2 DEF Loaded
<1>6. Expecting(by, n) = IF by = srv.conn /\ client[by] = "waiting" /\ (Alone \/ ~mixed)
                           THEN {n} ELSE own
  BY ExpectingIs
<1>7. CASE by = srv.conn /\ client[by] = "waiting" /\ (Alone \/ ~mixed)
  <2>1. own' = {n}
    BY <1>5, <1>6, <1>7
  <2>2. Served
    <3>1. srv.pc \in {"listen", "read", "look", "asleep"}
      BY DEF Conversation, ServerThread
    <3>2. srv.pc # "listen"
      BY <1>7, ClientsAssumption DEF Conversation
    <3>3. srv.pc # "read"
      BY <1>7 DEF Conversation
    <3> QED
      BY <3>1, <3>2, <3>3 DEF Served
  <2>3. /\ srv.message = << >> /\ working = 0 /\ AllOpen(events') /\ NoneOpen(events')
        /\ NoClients(dialogs') /\ OnlyUser(dialogs')
    <3>1. CASE Alone
      <4>1. srv.message = << >> /\ working = 0 /\ AllOpen(events') /\ dialogs' = << >>
        BY <3>1 DEF Alone, AllOpen
      <4>2. DOMAIN << >> = {}
        OBVIOUS
      <4>3. NoClients(dialogs') /\ OnlyUser(dialogs')
        BY <4>1, <4>2 DEF NoClients, OnlyUser
      <4> QED
        BY <1>7, <2>2, <4>1, <4>3
    <3>2. CASE ~mixed
      <4>1. OnlyUser(dialogs')
        BY <3>2 DEF NoClients, OnlyUser, OneQuestion
      <4> QED
        BY <1>7, <2>2, <3>2, <4>1 DEF Idle
    <3> QED
      BY <1>7, <3>1, <3>2
  <2>4. DOMAIN events' = {}
    BY <2>3 DEF AllOpen, NoneOpen
  <2>5. NothingAsked'
    BY <2>3 DEF NothingAsked
  <2>6. CASE n = 0 /\ UNCHANGED request /\ win'.todo = FALSE /\ srv'.message = <<{0}>>
    <3>1. Given'
      BY <2>1, <2>6 DEF Given
    <3>2. Claimed'
      BY <1>4, <2>2, <2>5, <3>1 DEF Claimed
    <3>3. ASSUME ~mixed PROVE OneByOne'
      <4>1. Idle'
        BY <1>2, <2>3, <2>6, <3>3 DEF Idle, request
      <4>2. ~Completes(events') /\ ThenOpen(events')
        BY <2>4 DEF Completes, ThenOpen
      <4>3. client'[srv'.conn] = "waiting"
        BY <1>4, <1>7
      <4>4. OneQuestion(dialogs', srv'.conn)
        BY <1>4, <3>3
      <4> QED
        BY <1>4, <2>2, <2>4, <2>5, <4>1, <4>2, <4>3, <4>4 DEF OneByOne
    <3> QED
      BY <1>2, <1>3, <3>2, <3>3 DEF Answering
  <2>7. CASE /\ n = asked + 1 /\ asked' = n /\ slot'.kind = "run"
             /\ win'.todo = TRUE /\ win'.enable = FALSE /\ win'.console = {}
             /\ srv'.message = srv.message
    <3>1. Printed(events', win'.console, asked')
      BY <2>4, <2>7 DEF Printed
    <3>2. ~(working' > 0)
      BY <1>2, <2>3
    <3>3. Serving'
      BY <1>2, <2>3, <2>7, <3>1, <3>2 DEF Serving
    <3>4. Claimed'
      BY <1>4, <2>1, <2>2, <2>5, <2>7, <3>3 DEF Claimed
    <3>5. ASSUME ~mixed PROVE OneByOne'
      <4>1. own' # {}
        BY <2>1
      <4>2. ~Completes(events') /\ ThenOpen(events')
        BY <2>4 DEF Completes, ThenOpen
      <4>3. client'[srv'.conn] = "waiting"
        BY <1>4, <1>7
      <4>4. OneQuestion(dialogs', srv'.conn)
        BY <1>4, <3>5
      <4> QED
        BY <1>4, <2>2, <2>3, <2>4, <2>5, <2>7, <4>1, <4>2, <4>3, <4>4 DEF OneByOne
    <3> QED
      BY <1>2, <1>3, <3>4, <3>5 DEF Answering
  <2> QED
    BY <1>5, <2>6, <2>7
<1>8. CASE ~(by = srv.conn /\ client[by] = "waiting" /\ (Alone \/ ~mixed))
  <2>1. own' = {}
    BY <1>5, <1>6, <1>8
  <2>2. ~mixed => client[srv.conn] = "waiting"
    BY DEF OneByOne
  <2>3. mixed
    BY <1>8, <2>2
  <2> QED
    BY <1>2, <1>3, <2>1, <2>3 DEF Answering, Claimed
<1> QED
  BY <1>7, <1>8

\* The server thread and its clients, one step.
LEMMA TurnsStep == PutRight /\ Turns /\ [Next]_vars => Turns'
<1> SUFFICES ASSUME PutRight, Turns, [Next]_vars PROVE Turns'
  OBVIOUS
<1>0. /\ ServerThread(srv) /\ client \in [Clients -> ClientStates]
      /\ times \in Nat /\ abort \in BOOLEAN /\ mixed \in BOOLEAN
      /\ last = asked /\ asked > 0 => times > 0
      /\ asked \in Nat /\ last \in Nat /\ last <= asked /\ Window(win)
  BY DEF Turns, PutRight
<1>0a. PICK A : srv \in [pc: {"listen", "read", "look", "asleep", "gone"},
                         conn: Clients \cup {Nobody}, message: A]
  BY <1>0 DEF ServerThread
<1>1. ASSUME ServerThread(srv'), UNCHANGED <<client, times, asked, last>>,
             abort' \in BOOLEAN, mixed' \in BOOLEAN
      PROVE  Turns'
  BY <1>0, <1>1 DEF Turns
<1>2. ASSUME NEW p \in {"listen", "read", "look", "asleep", "gone"},
             NEW c \in Clients \cup {Nobody}
      PROVE  /\ ServerThread([srv EXCEPT !.pc = p])
             /\ ServerThread([srv EXCEPT !.pc = p, !.conn = c])
             /\ ServerThread([pc |-> p, conn |-> c, message |-> << >>])
  <2> DEFINE B == A \cup {<< >>}
  <2>1. /\ [srv EXCEPT !.pc = p]
             \in [pc: {"listen", "read", "look", "asleep", "gone"}, conn: Clients \cup {Nobody}, message: B]
        /\ [srv EXCEPT !.pc = p, !.conn = c]
             \in [pc: {"listen", "read", "look", "asleep", "gone"}, conn: Clients \cup {Nobody}, message: B]
        /\ [pc |-> p, conn |-> c, message |-> << >>]
             \in [pc: {"listen", "read", "look", "asleep", "gone"}, conn: Clients \cup {Nobody}, message: B]
    BY <1>0a, <1>2
  <2> QED
    BY <2>1 DEF ServerThread
<1>3. ASSUME NEW c, NEW v \in ClientStates PROVE [client EXCEPT ![c] = v] \in [Clients -> ClientStates]
  BY <1>0, <1>3
<1>4. ASSUME ServerThread(srv'), client' \in [Clients -> ClientStates],
             UNCHANGED <<times, asked, last, abort, mixed>>
      PROVE  Turns'
  BY <1>0, <1>4 DEF Turns
<1>5. CASE Listen
  <2>1. UNCHANGED <<client, times, asked, last, abort, mixed>>
    BY <1>5 DEF Listen, gui, request, worker
  <2>2. \/ srv' = [srv EXCEPT !.pc = "gone"]
        \/ \E c \in Clients : srv' = [srv EXCEPT !.pc = "read", !.conn = c]
    BY <1>5 DEF Listen
  <2> QED
    BY <1>0, <1>2, <1>4, <2>1, <2>2
<1>6. CASE Read \/ Look
  <2>1. UNCHANGED <<times, asked, last, abort, mixed>>
    BY <1>6 DEF Read, Look, gui, request, worker
  <2>2. \/ CutOff
        \/ srv' = [srv EXCEPT !.pc = "look"] /\ client' = [client EXCEPT ![srv.conn] = "waiting"]
        \/ Reply
        \/ srv' = [srv EXCEPT !.pc = "asleep"] /\ UNCHANGED client
    BY <1>6 DEF Read, Look
  <2>3. ServerThread(srv')
    <3>0. srv.conn \in Clients \cup {Nobody}
      BY <1>0a
    <3>1. CASE CutOff
      <4>1. srv' = [srv EXCEPT !.pc = "gone", !.conn = Nobody]
        BY <3>1 DEF CutOff
      <4> QED
        BY <1>2, <4>1
    <3>2. CASE Reply
      <4>1. srv' = [pc |-> "listen", conn |-> Nobody, message |-> << >>]
        BY <3>2 DEF Reply, ClientStates
      <4> QED
        BY <1>2, <4>1
    <3>3. CASE srv' = [srv EXCEPT !.pc = "look"] \/ srv' = [srv EXCEPT !.pc = "asleep"]
      BY <1>2, <3>0, <3>3
    <3> QED
      BY <2>2, <3>1, <3>2, <3>3
  <2>4. client' \in [Clients -> ClientStates]
    <3>1. CASE CutOff
      BY <1>3, <3>1 DEF CutOff, ClientStates
    <3>2. CASE Reply
      <4> DEFINE v == IF own \in {{}, srv.message[1]} THEN "answered" ELSE "misled"
      <4>1. client' = [client EXCEPT ![srv.conn] = v] /\ v \in ClientStates
        BY <3>2 DEF Reply, ClientStates
      <4> HIDE DEF v
      <4> QED
        BY <1>3, <4>1
    <3>3. CASE client' = [client EXCEPT ![srv.conn] = "waiting"]
      BY <1>3, <3>3 DEF ClientStates
    <3> QED
      BY <1>0, <2>2, <3>1, <3>2, <3>3
  <2> QED
    BY <1>4, <2>1, <2>3, <2>4
<1>7. ASSUME NEW by, NEW f, NEW d, LoadFile(by, f, d), UNCHANGED client PROVE Turns'
  <2>1. Loaded(by)
    BY <1>0, <1>7, LoadedIs
  <2>2. asked' = asked + 1 \/ asked' = asked
    BY <2>1 DEF Loaded, request
  <2>3. UNCHANGED <<times, last, abort>> /\ mixed' \in BOOLEAN /\ ServerThread(srv')
    BY <2>1 DEF Loaded, SameTurn
  <2>4. CASE asked' = asked + 1
    <3>1. last' # asked'
      BY <1>0, <2>3, <2>4
    <3> QED
      BY <1>0, <1>7, <2>3, <3>1 DEF Turns
  <2> QED
    BY <1>0, <1>7, <2>2, <2>3, <2>4 DEF Turns
<1>8. ASSUME UNCHANGED <<srv, client, request, worker, abort>>, mixed' \in BOOLEAN
      PROVE  Turns'
  BY <1>0, <1>1, <1>8 DEF request, worker
<1>9. ASSUME NEW by, NEW f, openFile(by, f), UNCHANGED client PROVE Turns'
  BY <1>0, <1>7, <1>8, <1>9 DEF openFile
<1>10. ASSUME NEW m, NEW image, renderComplete(win, m, image),
              UNCHANGED <<client, times, asked, last, abort>>, mixed' \in BOOLEAN
       PROVE  Turns'
  <2>1. ServerThread(srv')
    BY <1>0, <1>10, CompletedIs DEF SameTurn
  <2> QED
    BY <1>0, <1>1, <1>10, <2>1
<1>11. CASE Handle
  <2>1. CASE Head(events).what = "open"
    BY <1>9, <1>11, <2>1 DEF Handle
  <2>2. CASE Head(events).what = "complete"
    BY <1>0, <1>10, <1>11, <2>2 DEF Handle, request, Worker!Deliver
  <2>3. CASE Head(events).what = "print"
    BY <1>0, <1>8, <1>11, <2>3 DEF Handle
  <2>4. Head(events).what \in {"open", "print", "complete"}
    BY <1>11, TailIs DEF PutRight, Handle
  <2> QED
    BY <2>1, <2>2, <2>3, <2>4
<1>12. CASE AnswerSave
  <2>1. CASE /\ client' = [c \in Clients |->
                   IF c = Last(dialogs).by /\ client[c] = "waiting" THEN "dropped" ELSE client[c]]
             /\ mixed' = TRUE /\ UNCHANGED <<srv, request, worker, abort>>
    <3> DEFINE dropped(c) == IF c = Last(dialogs).by /\ client[c] = "waiting"
                               THEN "dropped" ELSE client[c]
    <3>1. \A c \in Clients : dropped(c) \in ClientStates
      <4>1. \A c \in Clients : client[c] \in ClientStates
        BY <1>0
      <4>2. "dropped" \in ClientStates
        BY DEF ClientStates
      <4> QED
        BY <4>1, <4>2
    <3>2. client' = [c \in Clients |-> dropped(c)]
      BY <2>1
    <3> HIDE DEF dropped
    <3>3. client' \in [Clients -> ClientStates]
      BY <3>1, <3>2
    <3> QED
      BY <1>0, <2>1, <3>3 DEF Turns, request, worker
  <2> QED
    BY <1>7, <1>12, <2>1 DEF AnswerSave
<1>13. CASE AnswerReload
  BY <1>0, <1>7, <1>8, <1>13 DEF AnswerReload
<1>14. CASE checkForFileUpdates
  BY <1>0, <1>7, <1>8, <1>14 DEF checkForFileUpdates
<1>15. ASSUME NEW f \in Files, Open(f) PROVE Turns'
  BY <1>9, <1>15 DEF Open
<1>16. CASE Zoom
  <2>1. mixed' = TRUE /\ UNCHANGED client
    BY <1>16 DEF Zoom
  <2>2. CASE renderComplete(win, mon, Blank) /\ UNCHANGED <<request, worker, abort>>
    BY <1>10, <2>1, <2>2 DEF request, worker
  <2>3. CASE Ask("zoom", win.script, win.recorded) /\ UNCHANGED <<srv, mon>>
    <3>1. asked' = asked + 1 /\ UNCHANGED <<last, times, abort>>
      BY <2>3 DEF Ask, Worker!Ask
    <3>2. last' # asked'
      BY <1>0, <3>1
    <3> QED
      BY <1>0, <2>1, <2>3, <3>1, <3>2 DEF Turns
  <2> QED
    BY <1>16, <2>2, <2>3 DEF Zoom
<1>17. CASE Edit
  BY <1>0, <1>8, <1>17 DEF Edit
<1>18. CASE Close
  <2>1. /\ UNCHANGED <<client, times, asked, last, mixed>> /\ abort' = TRUE
        /\ srv' = [srv EXCEPT !.pc = IF srv.pc = "asleep" THEN "look" ELSE srv.pc]
    BY <1>18 DEF Close, gui, request, worker, Worker!Close
  <2>2. (IF srv.pc = "asleep" THEN "look" ELSE srv.pc) \in {"listen", "read", "look", "asleep", "gone"}
    BY <1>0a
  <2> QED
    BY <1>0, <1>1, <1>2, <2>1, <2>2
<1>19. ASSUME NEW f \in Changing, Write(f) PROVE Turns'
  BY <1>0, <1>8, <1>19 DEF Write
<1>20. CASE Take
  <2>1. /\ UNCHANGED <<srv, client, abort, asked>> /\ asked > 0 /\ last' = asked
        /\ mixed' = (mixed \/ times' > 1)
        /\ times' = IF last = asked THEN times + 1 ELSE 1
    BY <1>20 DEF Take, Worker!Take, request
  <2>2. times' \in Nat /\ times' > 0
    BY <1>0, <2>1
  <2> QED
    BY <1>0, <2>1, <2>2 DEF Turns
<1>21. CASE Finish
  <2>1. UNCHANGED <<srv, client, abort, asked, last, times, mixed>>
    BY <1>21 DEF Finish, Worker!Answer, request
  <2> QED
    BY <1>0, <1>4, <2>1
<1>22. CASE UNCHANGED vars
  BY <1>0, <1>8, <1>22 DEF vars
<1> QED
  BY <1>5, <1>6, <1>11, <1>12, <1>13, <1>14, <1>15, <1>16, <1>17, <1>18, <1>19, <1>20,
     <1>21, <1>22 DEF Next, Server

\* Nobody but the server thread answers, and it answers with what is claimed.
LEMMA OwnAnswerStep == Turns /\ Answering /\ OwnAnswer /\ [Next]_vars => OwnAnswer'
<1> SUFFICES ASSUME Turns, Answering, OwnAnswer, [Next]_vars, NEW c \in Clients,
                    client'[c] = "misled"
             PROVE  FALSE
  BY DEF OwnAnswer
<1>1. client \in [Clients -> ClientStates] /\ client[c] # "misled"
  BY DEF Turns, OwnAnswer
<1>2. CASE Look
  <2>1. CASE abort
    BY <1>1, <1>2, <2>1 DEF Look, CutOff
  <2>2. CASE ~abort /\ srv.message # << >>
    <3>1. Reply
      BY <1>2, <2>2 DEF Look
    <3>2. own = {} \/ srv.message = <<own>>
      BY <2>2 DEF Answering, Claimed, Given, Serving
    <3>3. own \in {{}, srv.message[1]}
      BY <3>2
    <3>4. client' = [client EXCEPT ![srv.conn] = "answered"]
      BY <3>1, <3>3 DEF Reply
    <3> QED
      BY <1>1, <3>4
  <2>3. CASE ~abort /\ ~(srv.message # << >>)
    BY <1>1, <1>2, <2>3 DEF Look
  <2> QED
    BY <2>1, <2>2, <2>3
<1>3. CASE Read
  BY <1>1, <1>3 DEF Read, CutOff
<1>4. CASE AnswerSave
  BY <1>1, <1>4 DEF AnswerSave
<1>5. CASE Listen \/ Handle \/ AnswerReload \/ checkForFileUpdates \/ (\E f \in Files : Open(f))
  BY <1>1, <1>5 DEF Listen, Handle, AnswerReload, checkForFileUpdates, Open
<1>6. CASE Zoom \/ Edit \/ Close \/ (\E f \in Changing : Write(f)) \/ Take \/ Finish \/ UNCHANGED vars
  BY <1>1, <1>6 DEF Zoom, Edit, Close, Write, Take, Finish, vars
<1> QED
  BY <1>2, <1>3, <1>4, <1>5, <1>6 DEF Next, Server

\* What the two bounds of a queue and its questions become.
LEMMA QuestionsOf ==
  ASSUME NEW q, NEW s, NEW t, NEW who, NEW cl, Questions(q, s, who, cl), NoneOpen(s) => NoneOpen(t)
  PROVE  Questions(q, t, who, cl)
BY DEF Questions

\* A step of the server thread.
LEMMA ServerAnswering ==
  ASSUME PutRight, Turns, Answering, Server, ~abort
  PROVE  Answering'
<1>0. /\ ServerThread(srv) /\ client \in [Clients -> ClientStates] /\ IsSeq(events)
      /\ Conversation /\ Line /\ Claimed /\ (mixed \/ OneByOne)
      /\ srv.conn \in Clients \cup {Nobody} /\ Nobody \notin Clients
  BY ClientsAssumption DEF Turns, PutRight, Queue, Answering, ServerThread
<1>0a. PICK A : srv \in [pc: {"listen", "read", "look", "asleep", "gone"},
                         conn: Clients \cup {Nobody}, message: A]
  BY <1>0 DEF ServerThread
<1>1. UNCHANGED <<dialogs, win, request, worker, mixed, abort>>
  BY DEF Server, Listen, Read, Look, gui
<1>2. CASE Listen
  <2>1. UNCHANGED <<client, own, events>>
    BY <1>2 DEF Listen
  <2>2. PICK c \in Clients : client[c] = "off" /\ srv' = [srv EXCEPT !.pc = "read", !.conn = c]
    BY <1>2 DEF Listen
  <2>3. srv'.pc = "read" /\ srv'.conn = c /\ srv'.message = srv.message /\ srv.pc = "listen"
    BY <1>0a, <1>2, <2>2 DEF Listen
  <2>4. ~Served /\ ~Served' /\ Now = Nobody /\ Now' = Nobody
    BY <2>3 DEF Served, Now
  <2>5. Conversation'
    BY <2>1, <2>2, <2>3, <2>4 DEF Conversation
  <2>6. Line'
    BY <1>0, <1>1, <2>1, <2>4 DEF Line
  <2>7. own = {}
    BY <1>0, <2>4 DEF Claimed
  <2>8. Claimed'
    BY <2>1, <2>7 DEF Claimed
  <2>9. ASSUME OneByOne PROVE OneByOne'
    <3>1. Idle /\ NothingAsked /\ ThenOpen(events) /\ srv.message = << >>
      BY <2>4, <2>9 DEF OneByOne
    <3>2. Idle' /\ NothingAsked' /\ ThenOpen(events')
      BY <1>1, <2>1, <3>1 DEF Idle, NothingAsked, request, worker
    <3>3. OneQuestion(dialogs, c)
      BY <2>9, <3>1 DEF OneByOne, OneQuestion, NothingAsked, NoClients
    <3>4. DOMAIN events = {}
      BY <3>1 DEF Idle, NothingAsked, AllOpen, NoneOpen
    <3> QED
      BY <1>1, <2>1, <2>3, <2>4, <3>1, <3>2, <3>3, <3>4 DEF OneByOne, Completes
  <2> QED
    BY <1>0, <1>1, <2>5, <2>6, <2>8, <2>9 DEF Answering
<1>3. CASE Read
  <2> DEFINE c == srv.conn
             e == [what |-> "open", by |-> srv.conn]
  <2>1. /\ srv.pc = "read" /\ srv' = [srv EXCEPT !.pc = "look"]
        /\ client' = [client EXCEPT ![c] = "waiting"] /\ own' = own
        /\ events' = Append(events, e)
    BY <1>3 DEF Read
  <2>2. srv'.pc = "look" /\ srv'.conn = c /\ srv'.message = srv.message
    BY <1>0a, <2>1
  <2>3. c \in Clients /\ client[c] = "off" /\ e.what = "open" /\ e.by = c
    BY <1>0, <2>1 DEF Conversation
  <2>4. client'[c] = "waiting" /\ \A d \in Clients : d # c => client'[d] = client[d]
    BY <1>0, <2>1, <2>3
  <2> HIDE DEF e
  <2>5. ~Served /\ Served' /\ Now = Nobody /\ Now' = c
    BY <2>1, <2>2 DEF Served, Now
  <2>6. own = {}
    BY <1>0, <2>5 DEF Claimed
  <2>7. Conversation'
    BY <2>2, <2>3, <2>4, <2>5 DEF Conversation
  <2>8. Queued(events', c, client')
    BY <1>0, <2>1, <2>3, <2>4, AppendRequest DEF Line
  <2>9. Questions(dialogs, events', c, client')
    <3>0. \A k \in DOMAIN dialogs : dialogs[k].by \in Clients \cup {"user", "monitor"}
      BY <1>0 DEF Line, Questions
    <3>1. ASSUME NEW k \in DOMAIN dialogs, dialogs[k].by \in Clients
          PROVE  client'[dialogs[k].by] # "off" /\ dialogs[k].by # c
      <4>1. client[dialogs[k].by] # "off"
        BY <1>0, <3>1 DEF Line, Questions
      <4> QED
        BY <2>3, <2>4, <3>1, <4>1
    <3> QED
      BY <3>0, <3>1 DEF Questions
  <2>10. Line'
    BY <1>1, <2>5, <2>8, <2>9 DEF Line
  <2>11. Claimed'
    BY <2>1, <2>5, <2>6 DEF Claimed
  <2>12. ASSUME OneByOne PROVE OneByOne'
    <3>1. Idle /\ NothingAsked /\ ThenOpen(events) /\ srv.message = << >>
      BY <2>5, <2>12 DEF OneByOne
    <3>2. DOMAIN events = {}
      BY <3>1 DEF Idle, NothingAsked, AllOpen, NoneOpen
    <3>3. ~Completes(events)
      BY <3>2 DEF Completes
    <3>4. AllOpen(events') /\ ~Completes(events') /\ ThenOpen(events')
      BY <1>0, <2>1, <2>3, <3>1, <3>3, AppendKeeps DEF Idle
    <3>5. Idle'
      BY <1>1, <3>1, <3>4 DEF Idle, request, worker
    <3>6. OneQuestion(dialogs, c)
      BY <2>12, <3>1 DEF OneByOne, OneQuestion, NothingAsked, NoClients
    <3>7. \A k \in DOMAIN events' : events'[k].by = c
      BY <1>0, <2>1, <2>3, <3>2, AppendAt
    <3>8. NoClients(dialogs)
      BY <3>1 DEF NothingAsked
    <3> QED
      BY <1>1, <2>1, <2>2, <2>4, <2>5, <2>6, <3>1, <3>4, <3>5, <3>6, <3>7, <3>8 DEF OneByOne
  <2> QED
    BY <1>0, <1>1, <2>7, <2>10, <2>11, <2>12 DEF Answering
<1>4. CASE Look /\ srv.message # << >>
  <2>1. Reply /\ srv.pc = "look" /\ events' = events
    BY <1>4 DEF Look
  <2>2. /\ srv'.pc = "listen" /\ srv'.conn = Nobody /\ srv'.message = << >> /\ own' = {}
    BY <2>1 DEF Reply
  <2>3. \A d \in Clients : client'[d] = "off" => client[d] = "off"
    BY <1>0, <2>1 DEF Reply
  <2>4. Served /\ ~Served' /\ Now' = Nobody
    BY <2>1, <2>2 DEF Served, Now
  <2>5. Conversation'
    BY <2>2, <2>4 DEF Conversation
  <2>6. Line'
    <3>1. Queued(events, Nobody, client')
      BY <1>0, <2>3 DEF Line, Queued
    <3>2. Questions(dialogs, events, Nobody, client')
      BY <1>0, <2>3 DEF Line, Questions
    <3> QED
      BY <1>1, <2>1, <2>4, <3>1, <3>2 DEF Line
  <2>7. Claimed'
    BY <2>2 DEF Claimed
  <2>8. ASSUME OneByOne PROVE OneByOne'
    <3>1. Idle /\ NothingAsked /\ ThenOpen(events)
      BY <1>4, <2>8 DEF OneByOne
    <3>2. DOMAIN events = {}
      BY <3>1 DEF Idle, NothingAsked, AllOpen, NoneOpen
    <3>3. Idle' /\ NothingAsked' /\ ThenOpen(events')
      BY <1>1, <2>1, <3>1 DEF Idle, NothingAsked, request, worker
    <3>4. OneQuestion(dialogs, Nobody)
      BY <2>8, <3>1 DEF OneByOne, OneQuestion, NothingAsked, NoClients
    <3> QED
      BY <1>1, <2>1, <2>2, <2>4, <3>2, <3>3, <3>4 DEF OneByOne, Completes
  <2> QED
    BY <1>0, <1>1, <2>5, <2>6, <2>7, <2>8 DEF Answering
<1>5. CASE Look /\ ~(srv.message # << >>)
  <2>1. /\ srv.pc = "look" /\ srv' = [srv EXCEPT !.pc = "asleep"]
        /\ UNCHANGED <<client, own, events>>
    BY <1>5 DEF Look
  <2>2. srv'.pc = "asleep" /\ srv'.conn = srv.conn /\ srv'.message = srv.message
    BY <1>0a, <2>1
  <2>3. Served /\ Served' /\ Now' = Now
    BY <2>1, <2>2 DEF Served, Now
  <2>4. Conversation' /\ Line'
    BY <1>0, <1>1, <2>1, <2>2, <2>3 DEF Conversation, Line
  <2>5. Claimed'
    BY <1>0, <1>1, <2>1, <2>2, <2>3
       DEF Claimed, NothingAsked, Given, Serving, request, worker
  <2>6. ASSUME OneByOne PROVE OneByOne'
    BY <1>1, <2>1, <2>2, <2>3, <2>6 DEF OneByOne, NothingAsked, Idle, request, worker
  <2> QED
    BY <1>0, <1>1, <2>4, <2>5, <2>6 DEF Answering
<1> QED
  BY <1>2, <1>3, <1>4, <1>5 DEF Server

\* A step that has to do with nothing of that.
LEMMA UnaffectedAnswering ==
  ASSUME Answering, ~abort,
         UNCHANGED <<client, own, srv, events, dialogs, asked, slot, job, working, last, mixed>>,
         win'.todo = win.todo, win'.enable = win.enable, win'.console = win.console
  PROVE  Answering'
<1>1. /\ Now' = Now /\ (Served' <=> Served) /\ (Conversation' <=> Conversation)
  BY DEF Now, Served, Conversation
<1>2. (Line' <=> Line) /\ (NothingAsked' <=> NothingAsked) /\ (Idle' <=> Idle)
  BY <1>1 DEF Line, NothingAsked, Idle
<1>3. (Given' <=> Given) /\ (Serving' <=> Serving)
  BY DEF Given, Serving
<1>4. (Claimed' <=> Claimed) /\ (OneByOne' <=> OneByOne)
  BY <1>1, <1>2, <1>3 DEF Claimed, OneByOne
<1> QED
  BY <1>1, <1>2, <1>4 DEF Answering

\* A question is asked that has not come from a client.
LEMMA AskedByOthers ==
  ASSUME PutRight, Turns, Answering, ~abort, NEW e, e.by \in {"user", "monitor"},
         dialogs' = Append(dialogs, e),
         UNCHANGED <<client, own, srv, events, asked, slot, job, working, last, win>>,
         mixed => mixed',
         own # {} => Given \/ (e.by = "user" /\ e.ask = "save"),
         mixed' \/ (e.by = "user" /\ e.ask = "save")
  PROVE  Answering'
<1>0. /\ Conversation /\ Line /\ Claimed /\ (mixed \/ OneByOne) /\ IsSeq(dialogs)
      /\ e.by \notin Clients
  BY ClientsAssumption DEF PutRight, Answering
<1>1. /\ Now' = Now /\ (Served' <=> Served) /\ Conversation'
  BY <1>0 DEF Now, Served, Conversation
<1>2. Questions(dialogs', events, Now, client)
  BY <1>0, AskKeeps DEF Line
<1>3. Line'
  BY <1>0, <1>1, <1>2 DEF Line
<1>4. NoClients(dialogs) => NoClients(dialogs')
  BY <1>0, AskKeeps
<1>5. NothingAsked => NothingAsked'
  BY <1>4 DEF NothingAsked
<1>6. ASSUME own # {} PROVE Given' \/ (own' = {asked'} /\ Serving')
  <2>1. CASE Given
    BY <2>1 DEF Given
  <2>2. CASE ~Given
    <3>1. own = {asked} /\ Serving /\ e.by = "user" /\ e.ask = "save"
      BY <1>0, <1>6, <2>2 DEF Claimed
    <3>2. OnlyUser(dialogs')
      BY <1>0, <3>1, AskKeeps DEF Serving
    <3> QED
      BY <3>1, <3>2 DEF Serving
  <2> QED
    BY <2>1, <2>2
<1>7. Claimed'
  BY <1>0, <1>1, <1>5, <1>6 DEF Claimed
<1>8. ASSUME ~mixed' PROVE OneByOne'
  <2>1. OneByOne /\ e.by = "user" /\ e.ask = "save"
    BY <1>0, <1>8
  <2>2. OneQuestion(dialogs', srv.conn)
    BY <1>0, <2>1, AskKeeps DEF OneByOne
  <2>3. ~NothingAsked' => ~NothingAsked
    BY <1>5
  <2> QED
    BY <1>1, <1>4, <1>5, <2>1, <2>2, <2>3 DEF OneByOne, Idle
<1> QED
  BY <1>1, <1>3, <1>7, <1>8 DEF Answering

\* A question is answered, and no file is opened.
LEMMA QuestionGone ==
  ASSUME PutRight, Turns, Answering, ~abort, dialogs # << >>, dialogs' = Front(dialogs),
         UNCHANGED <<own, srv, events, asked, slot, job, working, last, win>>,
         \A c \in Clients : client'[c] = "off" <=> client[c] = "off",
         mixed'
  PROVE  Answering'
<1>0. Conversation /\ Line /\ Claimed /\ IsSeq(dialogs)
  BY DEF PutRight, Answering
<1>1. /\ Now' = Now /\ (Served' <=> Served)
  BY DEF Now, Served
<1>2. Conversation'
  BY <1>0, <1>1 DEF Conversation
<1>3. Questions(dialogs', events, Now, client)
  BY <1>0, FrontKeeps DEF Line
<1>4. Line'
  <2>1. Queued(events, Now, client')
    BY <1>0 DEF Line, Queued
  <2>2. Questions(dialogs', events, Now, client')
    BY <1>3 DEF Questions
  <2> QED
    BY <1>1, <2>1, <2>2 DEF Line
<1>5. /\ NoClients(dialogs) => NoClients(dialogs')
      /\ OnlyUser(dialogs) => OnlyUser(dialogs')
  BY <1>0, FrontKeeps
<1>6. NothingAsked => NothingAsked'
  BY <1>5 DEF NothingAsked
<1>7. (Given => Given') /\ (Serving => Serving')
  BY <1>5 DEF Given, Serving
<1>8. Claimed'
  BY <1>0, <1>1, <1>6, <1>7 DEF Claimed
<1> QED
  BY <1>2, <1>4, <1>8 DEF Answering

\* Somebody who is no client opens a file while nothing is claimed that is not given.
LEMMA OthersOpen ==
  ASSUME PutRight, Turns, Answering, ~abort, NEW by \in {"user", "monitor"}, NEW f, NEW d,
         LoadFile(by, f, d), client' = client, events' = events,
         Questions(dialogs', events, Now, client),
         by = "user" \/ own = {} \/ Given
  PROVE  Answering'
<1>0. /\ ServerThread(srv) /\ Window(win) /\ Conversation /\ Line /\ by \notin Clients
  BY ClientsAssumption DEF PutRight, Turns, Answering
<1>1. PICK n : own' = Expecting(by, n)
  BY <1>0, LoadedIs DEF Loaded
<1>2. Given => srv.message # << >>
  BY DEF Given
<1>3. own' = {}
  BY <1>0, <1>1, <1>2, ExpectingIs
<1> QED
  BY <1>0, <1>3, LoadForOthers

\* A client opens a file, from the queue or after a question.
LEMMA ClientOpens ==
  ASSUME PutRight, Turns, Answering, ~abort,
         events # << >>, Head(events).what = "open", events' = Tail(events),
         client' = client, NEW f, openFile(Head(events).by, f)
  PROVE  Answering'
<1> DEFINE c == Head(events).by
<1>0. /\ ServerThread(srv) /\ Window(win) /\ IsSeq(events) /\ IsSeq(dialogs)
      /\ working \in Nat /\ last \in Nat /\ asked \in Nat /\ last <= asked /\ mixed \in BOOLEAN
      /\ Conversation /\ Line /\ Claimed /\ (mixed \/ OneByOne)
      /\ abort \in BOOLEAN
  BY DEF PutRight, Turns, Answering, Queue
<1>1. /\ Queued(Tail(events), Now, client) /\ c \in Clients /\ client[c] # "off"
      /\ c = Now => NoneOpen(Tail(events))
  BY <1>0, TailQueued DEF Line
<1>2. /\ AllOpen(events) => AllOpen(Tail(events))
      /\ NoneOpen(events) => NoneOpen(Tail(events))
      /\ ThenOpen(events) => ThenOpen(Tail(events))
      /\ Completes(Tail(events)) => Completes(events)
      /\ ~NoneOpen(events)
  BY <1>0, TailKeeps
<1>3. ~NothingAsked
  BY <1>2 DEF NothingAsked
<1>4. own = {}
  BY <1>0, <1>3 DEF Claimed
<1>5. ~mixed => /\ Idle /\ srv.message = << >> /\ Served /\ c = srv.conn /\ NoClients(dialogs)
                /\ OneQuestion(dialogs, srv.conn) /\ AllOpen(events)
  <2>1. \E k \in DOMAIN events : events[k] = Head(events)
    <3>1. Head(events) = events[1] /\ Len(events) \in Nat \ {0} /\ DOMAIN events = 1 .. Len(events)
      BY <1>0, TailAt
    <3>2. 1 \in DOMAIN events
      BY <3>1
    <3> QED
      BY <3>1, <3>2
  <2>2. ASSUME OneByOne PROVE c = srv.conn /\ NoClients(dialogs)
    BY <2>1, <2>2 DEF OneByOne
  <2> QED
    BY <1>0, <1>3, <2>2 DEF OneByOne, Idle
<1>6. Served /\ c = srv.conn => NoneOpen(Tail(events))
  BY <1>1 DEF Now
<1>7. Questions(dialogs, events', Now, client)
  BY <1>0, <1>2, QuestionsOf DEF Line
<1> HIDE DEF c
<1>8. CASE win.dirty /\ f # win.file
  <2> DEFINE e == [ask |-> "save", by |-> c, file |-> f]
  <2>1. /\ dialogs' = Append(dialogs, e)
        /\ UNCHANGED <<own, srv, win, asked, slot, job, working, last, mixed, abort>>
    BY <1>8 DEF openFile, request, worker, c
  <2>2. e.ask = "save" /\ e.by = c
    OBVIOUS
  <2> HIDE DEF e
  <2>3. /\ Now' = Now /\ (Served' <=> Served) /\ Conversation'
    BY <1>0, <2>1 DEF Now, Served, Conversation
  <2>4. Questions(dialogs', events', Now, client)
    BY <1>0, <1>1, <1>7, <2>1, <2>2, AskKeeps
  <2>5. Line'
    BY <1>1, <2>3, <2>4 DEF Line
  <2>6. Claimed'
    BY <1>4, <2>1 DEF Claimed
  <2>7. ASSUME ~mixed PROVE OneByOne'
    <3>1. OneQuestion(dialogs', srv.conn)
      BY <1>0, <1>1, <1>5, <2>1, <2>2, <2>7, AskKeeps
    <3>2. NoneOpen(events') /\ AllOpen(events') /\ ThenOpen(events')
      BY <1>0, <1>2, <1>5, <1>6, <2>7 DEF OneByOne
    <3>3. \A k \in DOMAIN events' : events'[k].what # "open"
      BY <3>2 DEF NoneOpen
    <3>4. Idle'
      BY <1>5, <2>1, <2>7, <3>2 DEF Idle
    <3>5. srv.message = << >> /\ Served /\ client[srv.conn] = "waiting"
      BY <1>0, <1>5, <2>7 DEF OneByOne
    <3>6. working' = 0 /\ last' = asked'
      BY <3>4 DEF Idle
    <3> QED
      BY <1>4, <2>1, <2>3, <3>1, <3>2, <3>3, <3>4, <3>5, <3>6 DEF OneByOne
  <2> QED
    BY <1>0, <2>1, <2>3, <2>5, <2>6, <2>7 DEF Answering
<1>9. CASE ~(win.dirty /\ f # win.file)
  <2>1. LoadFile(c, f, disk) /\ dialogs' = dialogs
    BY <1>9 DEF openFile, c
  <2>2. SameTurn
    BY <1>0, <2>1, LoadedIs DEF Loaded
  <2>3. Now' = Now
    BY <2>2, SameTurnIs
  <2>4. Line'
    BY <1>1, <1>7, <2>1, <2>3 DEF Line
  <2> QED
    BY <1>0, <1>1, <1>2, <1>4, <1>5, <1>6, <2>1, <2>4, LoadForClient
<1> QED
  BY <1>8, <1>9

\* The next queued signal.
LEMMA HandleAnswering ==
  ASSUME PutRight, Turns, Answering, Handle
  PROVE  Answering'
<1>0. /\ ServerThread(srv) /\ Window(win) /\ IsSeq(events) /\ ~abort
      /\ Conversation /\ Line /\ Claimed /\ (mixed \/ OneByOne)
      /\ events # << >> /\ events' = Tail(events) /\ client' = client
  BY DEF PutRight, Turns, Answering, Queue, Handle
<1>1. CASE Head(events).what = "open"
  <2>1. openFile(Head(events).by, Wants[Head(events).by])
    BY <1>1 DEF Handle
  <2> QED
    BY <1>0, <1>1, <2>1, ClientOpens
<1>a. /\ Queued(Tail(events), Now, client)
      /\ NoneOpen(events) => NoneOpen(Tail(events))
      /\ ThenOpen(events) => ThenOpen(Tail(events))
      /\ AllOpen(events) => Head(events).what = "open"
      /\ Completes(Tail(events)) => Completes(events)
      /\ Head(events).what = "complete" => Completes(events)
      /\ Head(events).what = "complete" /\ ThenOpen(events) => AllOpen(Tail(events))
  BY <1>0, TailQueued, TailKeeps DEF Line
<1>b. Questions(dialogs, events', Now, client)
  BY <1>0, <1>a, QuestionsOf DEF Line
<1>c. ASSUME OneByOne, Head(events).what # "open"
      PROVE  ~Idle /\ own # {} /\ NothingAsked /\ Served /\ srv.message = << >>
             /\ client[srv.conn] = "waiting"
  BY <1>0, <1>a, <1>c DEF OneByOne, Idle
<1>d. \A k \in DOMAIN events' : NothingAsked => events'[k].what # "open"
  BY <1>0, <1>a DEF NothingAsked, NoneOpen
<1>2. CASE Head(events).what = "print"
  <2>1. /\ win' = [win EXCEPT !.console = @ \cup {Head(events).req}]
        /\ UNCHANGED <<own, srv, dialogs, asked, slot, job, working, last, abort, mixed>>
    BY <1>2 DEF Handle, request, worker
  <2>2. /\ win'.todo = win.todo /\ win'.enable = win.enable
        /\ win'.console = win.console \cup {Head(events).req}
    BY <1>0, <2>1 DEF Window
  <2>3. /\ Now' = Now /\ (Served' <=> Served) /\ Conversation'
    BY <1>0, <2>1 DEF Now, Served, Conversation
  <2>4. Line'
    BY <1>0, <1>a, <1>b, <2>1, <2>3 DEF Line
  <2>5. NothingAsked => NothingAsked'
    BY <1>0, <1>a, <2>1 DEF NothingAsked
  <2>6. Given => Given'
    BY <2>1, <2>2 DEF Given
  <2>7. ASSUME Serving PROVE Serving'
    <3>1. Printed(events', win'.console, asked)
      BY <1>0, <1>2, <2>2, <2>7, TailPrinted DEF Serving
    <3>2. last < asked => working = 0 /\ AllOpen(events')
      BY <1>2, <1>a, <2>7 DEF Serving
    <3> QED
      BY <2>1, <2>2, <2>7, <3>1, <3>2 DEF Serving
  <2>8. Claimed'
    BY <1>0, <2>1, <2>3, <2>5, <2>6, <2>7 DEF Claimed
  <2>9. ASSUME OneByOne PROVE OneByOne'
    <3>1. own # {} /\ NothingAsked /\ Served /\ srv.message = << >> /\ client[srv.conn] = "waiting"
      BY <1>2, <1>c, <2>9
    <3> QED
      BY <1>0, <1>a, <1>d, <2>1, <2>3, <2>5, <2>9, <3>1 DEF OneByOne
  <2> QED
    BY <1>0, <2>1, <2>3, <2>4, <2>8, <2>9 DEF Answering
<1>3. CASE Head(events).what = "complete"
  <2>1. /\ renderComplete(win, mon, Head(events).image)
        /\ UNCHANGED <<own, dialogs, asked, slot, job, working, last, abort, mixed>>
    BY <1>3 DEF Handle, request, Worker!Deliver
  <2>2. win'.todo = FALSE
    BY <1>0, <2>1, ShownIs
  <2>3. /\ SameTurn
        /\ srv'.message = IF win.todo THEN <<win.console>> ELSE srv.message
    BY <1>0, <2>1, CompletedIs
  <2>4. /\ Now' = Now /\ (Served' <=> Served) /\ srv'.conn = srv.conn /\ Conversation'
    <3>1. \A d \in Clients : client'[d] = "off" <=> client[d] = "off"
      BY <1>0
    <3> QED
      BY <1>0, <2>3, <3>1, SameTurnIs, ConversationKept DEF SameTurn
  <2>5. Line'
    BY <1>0, <1>a, <1>b, <2>1, <2>4 DEF Line
  <2>6. NothingAsked => NothingAsked'
    BY <1>0, <1>a, <2>1 DEF NothingAsked
  <2>7. ASSUME own # {} PROVE Given'
    <3>1. CASE Given
      BY <2>1, <2>2, <2>3, <3>1 DEF Given
    <3>2. CASE own = {asked} /\ Serving
      <4>1. win.console = {asked} /\ win.todo
        BY <1>0, <1>3, <3>2, TailPrinted DEF Serving
      <4> QED
        BY <2>1, <2>2, <2>3, <3>2, <4>1 DEF Given
    <3> QED
      BY <1>0, <2>7, <3>1, <3>2 DEF Claimed
  <2>8. Claimed'
    BY <1>0, <2>1, <2>4, <2>6, <2>7 DEF Claimed
  <2>9. ASSUME OneByOne PROVE OneByOne'
    <3>1. own # {} /\ NothingAsked /\ Served /\ client[srv.conn] = "waiting"
      BY <1>3, <1>c, <2>9
    <3>2. working = 0 /\ last = asked /\ AllOpen(events')
      BY <1>0, <1>3, <1>a, <2>9 DEF OneByOne
    <3>3. Idle'
      BY <2>1, <2>2, <3>2 DEF Idle
    <3>4. ThenOpen(events')
      BY <1>0, <1>a, <2>9 DEF OneByOne
    <3>5. OneQuestion(dialogs, srv.conn)
      BY <2>9 DEF OneByOne
    <3> QED
      BY <1>0, <1>d, <2>1, <2>4, <2>6, <3>1, <3>2, <3>3, <3>4, <3>5 DEF OneByOne
  <2> QED
    BY <1>0, <2>1, <2>4, <2>5, <2>8, <2>9 DEF Answering
<1>4. Head(events).what \in {"open", "print", "complete"}
  BY <1>0, TailIs DEF PutRight
<1> QED
  BY <1>1, <1>2, <1>3, <1>4

\* A question whether to save is answered.
LEMMA SaveAnswering ==
  ASSUME PutRight, Turns, Answering, AnswerSave
  PROVE  Answering'
<1>0. /\ ServerThread(srv) /\ Window(win) /\ IsSeq(dialogs) /\ ~abort
      /\ working \in Nat /\ last \in Nat /\ asked \in Nat /\ last <= asked /\ mixed \in BOOLEAN
      /\ Conversation /\ Line /\ Claimed /\ (mixed \/ OneByOne)
      /\ dialogs # << >> /\ dialogs' = Front(dialogs) /\ events' = events
  BY DEF PutRight, Turns, Answering, AnswerSave, Asking
<1> DEFINE by == Last(dialogs).by
<1>1. ASSUME NEW d, LoadFile(by, Last(dialogs).file, d), client' = client
      PROVE  Answering'
  <2>1. /\ Questions(dialogs', events, Now, client)
        /\ by \in Clients \cup {"user", "monitor"}
        /\ by \in Clients => client[by] # "off" /\ (by = Now => NoneOpen(events))
    BY <1>0, FrontKeeps DEF Line
  <2>2. CASE by \in Clients
    <3>1. ~NoClients(dialogs)
      BY <1>0, <2>2, FrontKeeps
    <3>2. ~NothingAsked
      BY <3>1 DEF NothingAsked
    <3>3. own = {}
      BY <1>0, <3>2 DEF Claimed
    <3>4. SameTurn
      BY <1>0, <1>1, LoadedIs DEF Loaded
    <3>5. Now' = Now
      BY <3>4, SameTurnIs
    <3>6. Line'
      BY <1>0, <1>1, <2>1, <3>5 DEF Line
    <3>7. Served /\ by = srv.conn => NoneOpen(events')
      BY <1>0, <2>1, <2>2 DEF Now
    <3>8. ~mixed => /\ Idle /\ srv.message = << >> /\ AllOpen(events') /\ NoClients(dialogs')
                    /\ OneQuestion(dialogs', srv.conn) /\ by = srv.conn /\ Served
      <4>1. ASSUME OneByOne
            PROVE  NoClients(dialogs') /\ OneQuestion(dialogs', srv.conn) /\ by = srv.conn
        <5>1. OneQuestion(dialogs, srv.conn)
          BY <4>1 DEF OneByOne
        <5> QED
          BY <1>0, <2>2, <5>1, FrontKeeps
      <4>2. ASSUME OneByOne PROVE Idle /\ srv.message = << >> /\ AllOpen(events') /\ Served
        BY <1>0, <3>2, <4>2 DEF OneByOne, Idle
      <4> QED
        BY <1>0, <4>1, <4>2
    <3> HIDE DEF by
    <3> QED
      BY <1>0, <1>1, <2>1, <2>2, <3>3, <3>6, <3>7, <3>8, LoadForClient
  <2>3. CASE by \notin Clients
    <3>1. by \in {"user", "monitor"}
      BY <2>1, <2>3
    <3>2. Serving => by = "user"
      BY <1>0, FrontKeeps DEF Serving
    <3>3. by = "user" \/ own = {} \/ Given
      BY <1>0, <3>2 DEF Claimed
    <3> HIDE DEF by
    <3> QED
      BY <1>0, <1>1, <2>1, <3>1, <3>3, OthersOpen
  <2> QED
    BY <2>2, <2>3
<1>2. CASE /\ client' = [c \in Clients |->
                IF c = by /\ client[c] = "waiting" THEN "dropped" ELSE client[c]]
           /\ mixed' = TRUE
           /\ UNCHANGED <<own, srv, win, disk, request, worker, shown, abort>>
  <2>1. \A c \in Clients : client'[c] = "off" <=> client[c] = "off"
    BY <1>2
  <2> QED
    BY <1>0, <1>2, <2>1, QuestionGone DEF request, worker
<1> QED
  BY <1>1, <1>2 DEF AnswerSave

\* The questions and the clock of the monitor.
LEMMA MonitorAnswering ==
  ASSUME PutRight, Turns, Answering, AnswerReload \/ checkForFileUpdates
  PROVE  Answering'
<1>0. /\ ServerThread(srv) /\ Window(win) /\ IsSeq(dialogs) /\ ~abort
      /\ Conversation /\ Line /\ Claimed /\ (mixed \/ OneByOne)
      /\ events' = events /\ client' = client
  BY DEF PutRight, Turns, Answering, AnswerReload, checkForFileUpdates, Asking
<1>1. CASE AnswerReload
  <2>1. dialogs # << >> /\ dialogs' = Front(dialogs) /\ Last(dialogs).ask = "reload"
    BY <1>1 DEF AnswerReload, Asking
  <2>2. Serving => FALSE
    BY <1>0, <2>1, FrontKeeps DEF Serving
  <2>3. OneByOne => FALSE
    <3>1. OneByOne => OneQuestion(dialogs, srv.conn)
      BY DEF OneByOne
    <3>2. OneQuestion(dialogs, srv.conn) => Last(dialogs).ask = "save"
      BY <1>0, <2>1, FrontKeeps
    <3> QED
      BY <2>1, <3>1, <3>2
  <2>4. CASE LoadFile("monitor", win.file, disk)
    <3>1. Questions(dialogs', events, Now, client)
      BY <1>0, <2>1, FrontKeeps DEF Line
    <3>2. own = {} \/ Given
      BY <1>0, <2>2 DEF Claimed
    <3> QED
      BY <1>0, <2>4, <3>1, <3>2, OthersOpen
  <2>5. CASE UNCHANGED <<own, srv, win, disk, request, worker, shown, abort, mixed>>
    <3>1. UNCHANGED <<own, srv, events, asked, slot, job, working, last, win>>
      BY <1>0, <2>5 DEF request, worker
    <3>2. mixed'
      BY <1>0, <2>3, <2>5
    <3> QED
      BY <1>0, <2>1, <3>1, <3>2, QuestionGone
  <2> QED
    BY <1>1, <2>4, <2>5 DEF AnswerReload
<1>2. CASE checkForFileUpdates
  <2>0. win.enable
    BY <1>2 DEF checkForFileUpdates
  <2>1. own = {} \/ Given
    BY <1>0, <2>0 DEF Claimed, Serving
  <2>2. CASE FirstTick
    <3>1. UNCHANGED <<own, srv, dialogs, win, request, worker, mixed>>
      BY <1>2, <2>2 DEF checkForFileUpdates
    <3> QED
      BY <1>0, <3>1, UnaffectedAnswering DEF request, worker
  <2>3. CASE ~FirstTick /\ auto /\ ~win.dirty
    <3>1. LoadFile("monitor", win.file, disk) /\ dialogs' = dialogs
      BY <1>2, <2>3 DEF checkForFileUpdates
    <3>2. Questions(dialogs', events, Now, client)
      BY <1>0, <3>1 DEF Line
    <3> QED
      BY <1>0, <2>1, <3>1, <3>2, OthersOpen
  <2>4. CASE ~FirstTick /\ ~(auto /\ ~win.dirty)
    <3> DEFINE e == [ask |-> "reload", by |-> "monitor", file |-> win.file]
    <3>1. /\ dialogs' = Append(dialogs, e) /\ mixed' = TRUE
          /\ UNCHANGED <<own, srv, win, request, worker>>
      BY <1>2, <2>4 DEF checkForFileUpdates
    <3>2. e.by = "monitor"
      OBVIOUS
    <3>3. UNCHANGED <<client, own, srv, events, asked, slot, job, working, last, win>>
      BY <1>0, <3>1 DEF request, worker
    <3> HIDE DEF e
    <3> QED
      BY <1>0, <2>1, <3>1, <3>2, <3>3, AskedByOthers
  <2> QED
    BY <2>2, <2>3, <2>4
<1> QED
  BY <1>1, <1>2

\* The user.
LEMMA UserAnswering ==
  ASSUME PutRight, Turns, Answering, (\E f \in Files : Open(f)) \/ Zoom \/ Edit
  PROVE  Answering'
<1>0. /\ ServerThread(srv) /\ Window(win) /\ IsSeq(dialogs) /\ ~abort /\ mixed \in BOOLEAN
      /\ Conversation /\ Line /\ Claimed /\ (mixed \/ OneByOne)
      /\ events' = events /\ client' = client
  BY DEF PutRight, Turns, Answering, Open, Zoom, Edit, User
<1>1. ASSUME NEW f, openFile("user", f) PROVE Answering'
  <2>1. CASE win.dirty /\ f # win.file
    <3> DEFINE e == [ask |-> "save", by |-> "user", file |-> f]
    <3>1. /\ dialogs' = Append(dialogs, e)
          /\ UNCHANGED <<own, srv, win, request, worker, mixed>>
      BY <1>1, <2>1 DEF openFile
    <3>2. e.by = "user" /\ e.ask = "save"
      OBVIOUS
    <3>3. UNCHANGED <<client, own, srv, events, asked, slot, job, working, last, win>>
      BY <1>0, <3>1 DEF request, worker
    <3> HIDE DEF e
    <3> QED
      BY <1>0, <3>1, <3>2, <3>3, AskedByOthers
  <2>2. CASE ~(win.dirty /\ f # win.file)
    <3>1. LoadFile("user", f, disk) /\ dialogs' = dialogs
      BY <1>1, <2>2 DEF openFile
    <3>2. Questions(dialogs', events, Now, client)
      BY <1>0, <3>1 DEF Line
    <3> QED
      BY <1>0, <3>1, <3>2, OthersOpen
  <2> QED
    BY <2>1, <2>2
<1>2. CASE \E f \in Files : Open(f)
  BY <1>1, <1>2 DEF Open
<1>3. CASE Edit
  <2>1. /\ win' = [win EXCEPT !.dirty = TRUE]
        /\ UNCHANGED <<own, srv, dialogs, request, worker, mixed>>
    BY <1>3 DEF Edit
  <2>2. win'.todo = win.todo /\ win'.enable = win.enable /\ win'.console = win.console
    BY <1>0, <2>1 DEF Window
  <2> QED
    BY <1>0, <2>1, <2>2, UnaffectedAnswering DEF request, worker
<1>4. CASE Zoom
  <2>1. win.enable /\ mixed' = TRUE /\ UNCHANGED <<own, dialogs>>
    BY <1>4 DEF Zoom
  <2>2. own = {} \/ Given
    BY <1>0, <2>1 DEF Claimed, Serving
  <2>3. SameTurn /\ (Given => Given')
    <3>1. CASE renderComplete(win, mon, Blank)
      <4>1. SameTurn /\ srv'.message = IF win.todo THEN <<win.console>> ELSE srv.message
        BY <1>0, <3>1, CompletedIs
      <4>2. win'.todo = FALSE
        BY <1>0, <3>1, ShownIs
      <4> QED
        BY <2>1, <4>1, <4>2 DEF Given
    <3>2. CASE win' = [win EXCEPT !.enable = FALSE] /\ UNCHANGED srv
      <4>1. win'.todo = win.todo
        BY <1>0, <3>2 DEF Window
      <4> QED
        BY <1>0, <2>1, <3>2, <4>1 DEF Given, SameTurn
    <3> QED
      BY <1>4, <3>1, <3>2 DEF Zoom
  <2>4. /\ Now' = Now /\ (Served' <=> Served) /\ Conversation'
    <3>1. \A d \in Clients : client'[d] = "off" <=> client[d] = "off"
      BY <1>0
    <3> QED
      BY <1>0, <2>3, <3>1, SameTurnIs, ConversationKept
  <2>5. Line'
    BY <1>0, <2>1, <2>4 DEF Line
  <2>6. NothingAsked => NothingAsked'
    BY <1>0, <2>1 DEF NothingAsked
  <2>7. Claimed'
    BY <1>0, <2>1, <2>2, <2>3, <2>4, <2>6 DEF Claimed
  <2> QED
    BY <2>1, <2>4, <2>5, <2>7 DEF Answering
<1> QED
  BY <1>2, <1>3, <1>4

\* The worker takes the last request.
LEMMA TakeAnswering ==
  ASSUME PutRight, Turns, Answering, ~abort, Take
  PROVE  Answering'
<1>0. /\ working \in Nat /\ last \in Nat /\ asked \in Nat /\ last <= asked
      /\ times \in Nat /\ mixed \in BOOLEAN
      /\ last = asked /\ asked > 0 => times > 0
      /\ Conversation /\ Line /\ Claimed /\ (mixed \/ OneByOne)
  BY DEF PutRight, Turns, Answering
<1>1. /\ UNCHANGED <<client, own, srv, events, dialogs, win, asked, slot>>
      /\ job' = slot /\ working' = asked /\ last' = asked /\ asked > 0
      /\ times' = IF last = asked THEN times + 1 ELSE 1
      /\ mixed' = (mixed \/ times' > 1)
  BY DEF Take, Worker!Take, request
<1>2. /\ Now' = Now /\ (Served' <=> Served) /\ Conversation' /\ Line'
      /\ (NothingAsked' <=> NothingAsked) /\ (Given' <=> Given)
  BY <1>0, <1>1 DEF Now, Served, Conversation, Line, NothingAsked, Given
<1>3. Serving => Serving'
  <2>1. ~(last' < asked')
    BY <1>0, <1>1
  <2> QED
    BY <1>1, <2>1 DEF Serving
<1>4. Claimed'
  BY <1>0, <1>1, <1>2, <1>3 DEF Claimed
<1>5. ASSUME ~mixed' PROVE OneByOne'
  <2>1. OneByOne /\ ~(times' > 1)
    BY <1>0, <1>1, <1>5
  <2>2. last # asked
    <3>1. last = asked => times' > 1
      BY <1>0, <1>1
    <3> QED
      BY <2>1, <3>1
  <2>3. ~Idle /\ ~Completes(events)
    BY <2>1, <2>2 DEF Idle, OneByOne
  <2>4. own # {} /\ NothingAsked /\ Served /\ srv.message = << >>
    BY <2>1, <2>3 DEF OneByOne
  <2> QED
    BY <1>1, <1>2, <2>1, <2>3, <2>4 DEF OneByOne
<1> QED
  BY <1>2, <1>4, <1>5 DEF Answering

\* The worker's output is put into the queue.
LEMMA FinishAnswering ==
  ASSUME PutRight, Turns, Answering, ~abort, Finish
  PROVE  Answering'
<1>0. /\ working \in Nat /\ last \in Nat /\ asked \in Nat /\ last <= asked
      /\ IsSeq(events) /\ Window(win)
      /\ Conversation /\ Line /\ Claimed /\ (mixed \/ OneByOne)
  BY DEF PutRight, Turns, Answering, Queue
<1>1. /\ UNCHANGED <<client, own, srv, dialogs, asked, slot, last, mixed>>
      /\ working > 0 /\ working' = 0
  BY DEF Finish, Worker!Answer, request
<1>2. PICK image, p :
        /\ Records(image) /\ IsSeq(p)
        /\ p = IF job.kind = "run"
                 THEN Append(events, [what |-> "print", req |-> working]) ELSE events
        /\ events' = Append(p, [what |-> "complete", req |-> working, image |-> image])
  BY <1>0, FinishedIs
<1>3. win'.todo = win.todo /\ win'.enable = win.enable /\ win'.console = win.console
  <2> PICK v : win' = [win EXCEPT !.recorded = v]
    BY <1>2 DEF Records
  <2> QED
    BY <1>0 DEF Window
<1> DEFINE e == [what |-> "print", req |-> working]
           f == [what |-> "complete", req |-> working, image |-> image]
<1>4. /\ e.what = "print" /\ e.req = working /\ f.what = "complete"
      /\ p = (IF job.kind = "run" THEN Append(events, e) ELSE events)
      /\ events' = Append(p, f)
  BY <1>2
<1> HIDE DEF e, f
<1>5. /\ Now' = Now /\ (Served' <=> Served) /\ Conversation'
  BY <1>0, <1>1 DEF Now, Served, Conversation
<1>6. /\ NoneOpen(events) => NoneOpen(p) /\ NoneOpen(events')
      /\ ~Completes(events) => ~Completes(p) /\ ThenOpen(events')
  <2>1. e.what # "open" /\ e.what # "complete" /\ f.what # "open"
    BY <1>4
  <2>2. /\ NoneOpen(events) => NoneOpen(p)
        /\ ~Completes(events) => ~Completes(p)
    BY <1>0, <1>4, <2>1, AppendKeeps
  <2>3. /\ NoneOpen(p) => NoneOpen(events')
        /\ ~Completes(p) => ThenOpen(events')
    BY <1>2, <1>4, <2>1, AppendKeeps
  <2> QED
    BY <2>2, <2>3
<1>7. Line'
  <2>1. Queued(p, Now, client)
    <3>1. e.what # "open"
      BY <1>4
    <3> QED
      BY <1>0, <1>4, <3>1, AppendQueued DEF Line
  <2>2. Queued(events', Now, client)
    <3>1. f.what # "open"
      BY <1>4
    <3> QED
      BY <1>2, <1>4, <2>1, <3>1, AppendQueued
  <2>3. Questions(dialogs, events', Now, client)
    BY <1>0, <1>6, QuestionsOf DEF Line
  <2> QED
    BY <1>1, <1>5, <2>2, <2>3 DEF Line
<1>8. NothingAsked => NothingAsked'
  BY <1>1, <1>6 DEF NothingAsked
<1>9. Given => Given'
  BY <1>1, <1>3 DEF Given
<1>10. ASSUME Serving PROVE Serving'
  <2>1. working = asked /\ job.kind = "run" /\ last = asked /\ ~(last < asked)
    BY <1>0, <1>1, <1>10 DEF Serving
  <2>2. Printed(events', win.console, asked)
    <3>1. p = Append(events, e) /\ e.what = "print" /\ e.req = asked
      BY <1>4, <2>1
    <3>2. \A g : g.what = "complete" => Printed(Append(Append(events, e), g), win.console, asked)
      BY <1>0, <1>10, <3>1, AppendPrinted DEF Serving
    <3> QED
      BY <1>4, <3>1, <3>2
  <2>3. ~(working' > 0) /\ ~(last' < asked')
    BY <1>1, <2>1
  <2> QED
    BY <1>1, <1>3, <1>10, <2>2, <2>3 DEF Serving
<1>11. Claimed'
  BY <1>0, <1>1, <1>5, <1>8, <1>9, <1>10 DEF Claimed
<1>12. ASSUME OneByOne PROVE OneByOne'
  <2>1. ~Idle /\ ~Completes(events)
    BY <1>1, <1>0, <1>12 DEF Idle, OneByOne
  <2>2. own # {} /\ NothingAsked /\ Served /\ srv.message = << >>
    BY <1>12, <2>1 DEF OneByOne
  <2>3. last = asked
    <3>1. Serving
      BY <1>0, <2>2 DEF Claimed, Given
    <3> QED
      BY <1>0, <1>1, <3>1 DEF Serving
  <2>4. NothingAsked' /\ ThenOpen(events')
    BY <1>6, <1>8, <2>1, <2>2
  <2>5. \A k \in DOMAIN events' : events'[k].what # "open"
    BY <2>4 DEF NothingAsked, NoneOpen
  <2> QED
    BY <1>1, <1>5, <1>12, <2>2, <2>3, <2>4, <2>5 DEF OneByOne
<1> QED
  BY <1>1, <1>5, <1>7, <1>11, <1>12 DEF Answering

\* One step of anybody.
LEMMA AnsweringStep == PutRight /\ Turns /\ Answering /\ [Next]_vars => Answering'
<1> SUFFICES ASSUME PutRight, Turns, Answering, [Next]_vars PROVE Answering'
  OBVIOUS
<1>1. CASE Close
  BY <1>1 DEF Close, Worker!Close, Answering
<1>2. CASE abort
  <2>1. Server \/ Take \/ Finish \/ (\E f \in Changing : Write(f)) \/ UNCHANGED vars => abort' = abort
    BY DEF Server, Listen, Read, Look, Take, Finish, Write, Worker!Take, Worker!Answer, vars
  <2>2. ~Handle /\ ~AnswerSave /\ ~AnswerReload /\ ~checkForFileUpdates
        /\ ~(\E f \in Files : Open(f)) /\ ~Zoom /\ ~Edit
    BY <1>2 DEF Handle, AnswerSave, AnswerReload, Asking, checkForFileUpdates, Open, Zoom, Edit, User
  <2> QED
    BY <1>1, <1>2, <2>1, <2>2 DEF Next, Answering
<1>3. CASE ~abort
  <2>1. CASE Server
    BY <1>3, <2>1, ServerAnswering
  <2>2. CASE Handle
    BY <2>2, HandleAnswering
  <2>3. CASE AnswerSave
    BY <2>3, SaveAnswering
  <2>4. CASE AnswerReload \/ checkForFileUpdates
    BY <2>4, MonitorAnswering
  <2>5. CASE (\E f \in Files : Open(f)) \/ Zoom \/ Edit
    BY <2>5, UserAnswering
  <2>6. CASE (\E f \in Changing : Write(f)) \/ UNCHANGED vars
    BY <1>3, <2>6, UnaffectedAnswering DEF Write, vars, request, worker
  <2>7. CASE Take
    BY <1>3, <2>7, TakeAnswering
  <2>8. CASE Finish
    BY <1>3, <2>8, FinishAnswering
  <2> QED
    BY <1>1, <2>1, <2>2, <2>3, <2>4, <2>5, <2>6, <2>7, <2>8 DEF Next
<1> QED
  BY <1>2, <1>3

LEMMA InitAnswering == Init => Turns /\ Answering /\ OwnAnswer
<1> SUFFICES ASSUME Init PROVE Turns /\ Answering /\ OwnAnswer
  OBVIOUS
<1>1. /\ srv = [pc |-> "listen", conn |-> Nobody, message |-> << >>]
      /\ client = [c \in Clients |-> "off"] /\ own = {} /\ abort = FALSE /\ mixed = FALSE
      /\ events = << >> /\ dialogs = << >>
      /\ asked = 0 /\ last = 0 /\ working = 0 /\ times = 0
      /\ win.todo = FALSE
  BY DEF Init
<1>2. DOMAIN << >> = {}
  OBVIOUS
<1>3. srv.pc = "listen" /\ srv.conn = Nobody /\ srv.message = << >>
  BY <1>1
<1>4. ServerThread(srv)
  <2> DEFINE A == {<< >>}
  <2>1. srv \in [pc: {"listen", "read", "look", "asleep", "gone"},
                 conn: Clients \cup {Nobody}, message: A]
    BY <1>1
  <2> QED
    BY <2>1 DEF ServerThread
<1>5. client \in [Clients -> ClientStates] /\ OwnAnswer
  BY <1>1 DEF ClientStates, OwnAnswer
<1>6. Turns
  BY <1>1, <1>4, <1>5 DEF Turns
<1>7. ~Served
  BY <1>3 DEF Served
<1>8. Conversation /\ Line /\ Claimed
  BY <1>1, <1>2, <1>3, <1>7 DEF Conversation, Line, Queued, Questions, Claimed
<1>9. Idle /\ NothingAsked
  BY <1>1, <1>2 DEF Idle, AllOpen, NothingAsked, NoneOpen, NoClients
<1>10. OneByOne
  BY <1>1, <1>2, <1>3, <1>7, <1>9 DEF OneByOne, OneQuestion, Completes, ThenOpen
<1> QED
  BY <1>5, <1>6, <1>8, <1>10 DEF Answering

\* Whoever is answered while something is claimed for him is answered with the
\* output of that rendering.
THEOREM AnswersAreOwn == Spec => []OwnAnswer
<1>1. Init => PutRight /\ Turns /\ Answering /\ OwnAnswer
  BY InitPutRight, InitAnswering
<1>2. PutRight /\ Turns /\ Answering /\ OwnAnswer /\ [Next]_vars
        => PutRight' /\ Turns' /\ Answering' /\ OwnAnswer'
  BY PutRightStep, TurnsStep, AnsweringStep, OwnAnswerStep
<1> QED
  BY <1>1, <1>2, PTL DEF Spec
=============================================================================
