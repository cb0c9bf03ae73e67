------------------------ MODULE RenderThread_proofs -------------------------
(***************************************************************************)
(* Proofs about GLERenderThread: for any number of scripts and requests no  *)
(* request of the GUI is forgotten, the image on display is that of the     *)
(* last one, and no request is rendered more than twice.                    *)
(***************************************************************************)
EXTENDS RenderThread, SequenceTheorems, TLAPS

\* Every variable keeps its type.
THEOREM TypeCorrect == Spec => []TypeOK
<1> USE MaxRequestsAssumption
<1>1. ASSUME Init PROVE TypeOK
  <2>1. slot \in Request
    BY <1>1 DEF Init, Request, ToDo, Requests
  <2>2. bytes \in [Scripts -> [Formats -> Requests]] /\ ran \in [Scripts -> Requests]
    BY <1>1 DEF Init, Requests
  <2>3. shown \in Image /\ events \in Seq(Image) /\ asked \in Requests
    BY <1>1 DEF Init, Image, Requests
  <2> QED
    BY <1>1, <2>1, <2>2, <2>3 DEF Init, TypeOK
<1>2. TypeOK /\ [Next]_vars => TypeOK'
  <2> SUFFICES ASSUME TypeOK, [Next]_vars PROVE TypeOK'
    OBVIOUS
  <2> USE DEF TypeOK
  <2>1. ASSUME NEW t \in ToDo, NEW s \in Scripts, Post(t, s),
               UNCHANGED <<abort, job, taken, bytes, ran, output>>
        PROVE TypeOK'
    <3>1. asked' \in Requests /\ asked + 1 \in Requests
      BY <2>1 DEF Post, Requests
    <3>2. slot' \in Request
      BY <2>1, <3>1 DEF Post, Request
    <3>3. restart' \in BOOLEAN /\ pc' \in {"off", "take", "interpret", "rasterise",
                                           "settle", "wait", "woken", "done"}
      BY <2>1 DEF Post, IsRunning
    <3> QED
      BY <2>1, <3>1, <3>2, <3>3 DEF output
  <2>2. ASSUME NEW s \in Scripts, renderGLEToImage(s) PROVE TypeOK'
    BY <2>1, <2>2 DEF renderGLEToImage, ToDo
  <2>3. ASSUME NEW s \in Scripts, renderOutputFromMemoryToImage(s) PROVE TypeOK'
    BY <2>1, <2>3 DEF renderOutputFromMemoryToImage, ToDo, FromMemory
  <2>4. CASE renderEPSFromFileToImage
    <3>1. slot.script \in Scripts
      BY DEF Request
    <3> QED
      BY <2>1, <2>4, <3>1 DEF renderEPSFromFileToImage, ToDo
  <2>5. CASE Deliver
    BY <2>5 DEF Deliver, gui
  <2>6. CASE Close
    BY <2>6 DEF Close, output
  <2>7. CASE Take
    BY <2>7 DEF Take, gui, output, Requests, Request
  <2>8. CASE Interpret
    <3> PICK f \in Formats, recorded \in BOOLEAN, failed \in BOOLEAN :
          /\ bytes' = [bytes EXCEPT ![job.script] = Recorded(@, f, recorded)]
          /\ ran' = [ran EXCEPT ![job.script] = job.req]
          /\ IF failed
               THEN /\ Emit([req |-> job.req, of |-> 0])
                    /\ pc' = "settle"
                    /\ UNCHANGED job
               ELSE /\ job' = [job EXCEPT !.todo = IF f = "PDF" THEN "PDFFromMemory"
                                                                ELSE "EPSFromMemory"]
                    /\ pc' = "rasterise"
                    /\ UNCHANGED output
      BY <2>8 DEF Interpret, Formats
    <3>1. UNCHANGED <<gui, restart, taken>>
      BY <2>8 DEF Interpret
    <3>2. job.req \in Requests /\ 0 \in Requests /\ job.script \in Scripts
      BY DEF Requests, Request
    <3>3. bytes' \in [Scripts -> [Formats -> Requests]] /\ ran' \in [Scripts -> Requests]
      BY <3>2 DEF Recorded
    <3>4. job' \in Request /\ pc' \in {"settle", "rasterise"}
      BY DEF Request, ToDo, FromMemory
    <3>5. [req |-> job.req, of |-> 0] \in Image
      BY <3>2 DEF Image
    <3>6. \/ events' = Append(events, [req |-> job.req, of |-> 0])
          \/ events' = events
      BY DEF Emit, output
    <3>7. shown' = shown
      BY DEF Emit, output
    <3>8. events' \in Seq(Image) /\ shown' \in Image
      BY <3>5, <3>6, <3>7
    <3> QED
      BY <3>1, <3>3, <3>4, <3>8 DEF gui
  <2>9. CASE Rasterise
    <3>1. job.req \in Requests /\ 0 \in Requests /\ job.script \in Scripts
      BY DEF Requests, Request
    <3>2. \A f \in Formats : bytes[job.script][f] \in Requests
      BY <3>1
    <3> PICK of \in Requests : Emit([req |-> job.req, of |-> of])
      BY <2>9, <3>1, <3>2 DEF Rasterise, Formats
    <3>3. [req |-> job.req, of |-> of] \in Image
      BY <3>1 DEF Image
    <3> QED
      BY <2>9, <3>3 DEF Rasterise, Emit, gui
  <2>10. CASE Settle
    BY <2>10 DEF Settle, gui, output
  <2>11. CASE Wake
    BY <2>11 DEF Wake, gui, output
  <2>12. CASE UNCHANGED vars
    BY <2>12 DEF vars
  <2> QED
    BY <2>2, <2>3, <2>4, <2>5, <2>6, <2>7, <2>8, <2>9, <2>10, <2>11, <2>12
       DEF Next, Worker
<1> QED
  BY <1>1, <1>2, PTL DEF Spec
-----------------------------------------------------------------------------
(***************************************************************************)
(* No request is forgotten.  At every point of its loop the worker has      *)
(* answered the last request, or holds it, or will find restart set when it *)
(* next decides whether to sleep.                                           *)
(***************************************************************************)
Attended ==
  /\ slot.req = asked
  /\ pc = "off" => Answered = asked
  /\ pc \in {"interpret", "rasterise"} => restart \/ job.req = asked
  /\ pc = "settle" => restart \/ Answered = asked
  /\ pc = "wait" => Answered = asked

\* An emission answers the worker's job.
LEMMA EmitAnswers ==
  ASSUME NEW image \in Image, events \in Seq(Image), Emit(image)
  PROVE  Answered' = image.req
  BY DEF Emit, Answered

\* The delivery of an image changes nothing about what has been answered.
LEMMA DeliverKeepsAnswered ==
  ASSUME TypeOK, Deliver PROVE Answered' = Answered
<1>1. events \in Seq(Image) /\ events # << >> /\ shown' = Head(events) /\ events' = Tail(events)
  BY DEF TypeOK, Deliver
<1>2. CASE Len(events) = 1
  BY <1>1, <1>2 DEF Answered
<1>3. CASE Len(events) > 1
  <2>1. Len(Tail(events)) = Len(events) - 1 /\ Tail(events) # << >>
    BY <1>1, <1>3
  <2>2. Tail(events)[Len(events) - 1] = events[Len(events)]
    BY <1>1, <1>3
  <2> QED
    BY <1>1, <2>1, <2>2 DEF Answered
<1>4. Len(events) = 1 \/ Len(events) > 1
  <2> DEFINE n == Len(events)
  <2>1. n \in Nat /\ n # 0
    BY <1>1
  <2>2. n = 1 \/ n > 1
    <3> HIDE DEF n
    <3> QED
      BY <2>1
  <2> QED
    BY <2>2
<1> QED
  BY <1>2, <1>3, <1>4

\* Steps that touch neither the event queue nor the image on display.
LEMMA SameAnswered == ASSUME UNCHANGED output PROVE Answered' = Answered
  BY DEF output, Answered

LEMMA AttendedStep == TypeOK /\ Attended /\ [Next]_vars => Attended'
<1> SUFFICES ASSUME TypeOK, Attended, [Next]_vars PROVE Attended'
  OBVIOUS
<1> USE DEF Attended
<1>1. ASSUME NEW t, NEW s, Post(t, s), UNCHANGED <<abort, job, taken, bytes, ran, output>>
      PROVE  Attended'
  <2>1. slot'.req = asked'
    BY <1>1 DEF Post
  <2>2. pc' \notin {"off", "wait"}
    BY <1>1 DEF Post, IsRunning, TypeOK
  <2>3. pc' \in {"interpret", "rasterise", "settle"} => restart'
    BY <1>1 DEF Post, IsRunning, TypeOK
  <2> QED
    BY <2>1, <2>2, <2>3
<1>2. ASSUME NEW s \in Scripts, renderGLEToImage(s) PROVE Attended'
  BY <1>1, <1>2 DEF renderGLEToImage
<1>3. ASSUME NEW s \in Scripts, renderOutputFromMemoryToImage(s) PROVE Attended'
  BY <1>1, <1>3 DEF renderOutputFromMemoryToImage
<1>4. CASE renderEPSFromFileToImage
  BY <1>1, <1>4 DEF renderEPSFromFileToImage
<1>5. CASE Deliver
  BY <1>5, DeliverKeepsAnswered DEF Deliver, gui
<1>6. CASE Close
  BY <1>6, SameAnswered DEF Close
<1>7. CASE Take
  BY <1>7, SameAnswered DEF Take, gui
<1>8. CASE Interpret
  <2> PICK failed \in BOOLEAN :
        IF failed
          THEN Emit([req |-> job.req, of |-> 0]) /\ pc' = "settle" /\ UNCHANGED job
          ELSE /\ \E todo : job' = [job EXCEPT !.todo = todo]
               /\ pc' = "rasterise"
               /\ UNCHANGED output
    BY <1>8 DEF Interpret
  <2>1. UNCHANGED <<gui, restart>> /\ pc = "interpret"
    BY <1>8 DEF Interpret
  <2>2. job'.req = job.req
    BY DEF TypeOK, Request
  <2>3. CASE failed
    <3>1. [req |-> job.req, of |-> 0] \in Image
      BY MaxRequestsAssumption DEF TypeOK, Request, Requests, Image
    <3>2. Answered' = job.req
      BY <2>3, <3>1, EmitAnswers DEF TypeOK
    <3> QED
      BY <2>1, <2>3, <3>2 DEF gui
  <2>4. CASE ~failed
    BY <2>1, <2>2, <2>4 DEF gui
  <2> QED
    BY <2>3, <2>4
<1>9. CASE Rasterise
  <2>1. job.req \in Requests /\ 0 \in Requests /\ job.script \in Scripts
    BY MaxRequestsAssumption DEF TypeOK, Request, Requests
  <2>2. \A f \in Formats : bytes[job.script][f] \in Requests
    BY <2>1 DEF TypeOK
  <2> PICK of \in Requests : Emit([req |-> job.req, of |-> of])
    BY <1>9, <2>1, <2>2 DEF Rasterise, Formats
  <2>3. [req |-> job.req, of |-> of] \in Image
    BY <2>1 DEF Image
  <2>4. Answered' = job.req
    BY <2>3, EmitAnswers DEF TypeOK
  <2> QED
    BY <1>9, <2>4 DEF Rasterise, gui
<1>10. CASE Settle
  BY <1>10, SameAnswered DEF Settle, gui
<1>11. CASE Wake
  BY <1>11, SameAnswered DEF Wake, gui
<1>12. CASE UNCHANGED vars
  BY <1>12, SameAnswered DEF vars, output
<1> QED
  BY <1>2, <1>3, <1>4, <1>5, <1>6, <1>7, <1>8, <1>9, <1>10, <1>11, <1>12 DEF Next, Worker

LEMMA AttendedAlways == Spec => []Attended
<1>1. Init => Attended
  BY DEF Init, Attended, Answered
<1> QED
  BY <1>1, AttendedStep, TypeCorrect, PTL DEF Spec

\* A sleeping worker has answered the last request of the GUI: no wake-up is
\* lost, whatever the moment the request arrives at.
THEOREM NoRequestForgotten == Spec => []NothingForgotten
<1>1. Attended => NothingForgotten
  BY DEF Attended, NothingForgotten
<1> QED
  BY <1>1, AttendedAlways, PTL

\* When the worker sleeps and every signal is delivered, the image on display
\* answers the last request.
THEOREM LastRequestIsShown == Spec => []LastRequestShown
<1>1. Attended => LastRequestShown
  BY DEF Attended, LastRequestShown, Answered
<1> QED
  BY <1>1, AttendedAlways, PTL
-----------------------------------------------------------------------------
(***************************************************************************)
(* A request is rendered at most twice.  A second round with the same       *)
(* request needs restart, which the bottom of the loop resets; only a newer *)
(* request sets it again.                                                   *)
(***************************************************************************)
Rounds ==
  /\ slot.req = asked
  /\ job.req <= slot.req
  /\ pc \in {"off", "wait"} => ~restart
  /\ pc = "off" => taken = 0
  /\ pc = "take" /\ restart => job.req < slot.req
  /\ pc \in {"take", "woken"} /\ slot.req = job.req => taken <= 1 \/ abort
  /\ pc \in {"interpret", "rasterise", "settle"} /\ restart /\ slot.req = job.req
        => taken <= 1
  /\ taken <= 2

LEMMA RoundsStep == TypeOK /\ Rounds /\ [Next]_vars => Rounds'
<1> SUFFICES ASSUME TypeOK, Rounds, [Next]_vars PROVE Rounds'
  OBVIOUS
<1>0. /\ asked \in Nat /\ taken \in Nat /\ slot.req \in Nat /\ job.req \in Nat
      /\ restart \in BOOLEAN /\ abort \in BOOLEAN
  BY MaxRequestsAssumption DEF TypeOK, Request, Requests
<1> USE <1>0 DEF Rounds
<1>1. ASSUME NEW t, NEW s, Post(t, s), UNCHANGED <<abort, job, taken, bytes, ran, output>>
      PROVE  Rounds'
  <2>1. slot'.req = slot.req + 1 /\ asked' = slot'.req /\ job' = job /\ taken' = taken
    BY <1>1 DEF Post
  <2>2. pc' \notin {"off", "wait"}
    BY <1>1 DEF Post, IsRunning, TypeOK
  <2> QED
    BY <2>1, <2>2
<1>2. ASSUME NEW s \in Scripts, renderGLEToImage(s) PROVE Rounds'
  BY <1>1, <1>2 DEF renderGLEToImage
<1>3. ASSUME NEW s \in Scripts, renderOutputFromMemoryToImage(s) PROVE Rounds'
  BY <1>1, <1>3 DEF renderOutputFromMemoryToImage
<1>4. CASE renderEPSFromFileToImage
  BY <1>1, <1>4 DEF renderEPSFromFileToImage
<1>5. CASE Deliver
  BY <1>5 DEF Deliver, gui
<1>6. CASE Close
  BY <1>6 DEF Close
<1>7. CASE Take
  <2>1. CASE abort
    BY <1>7, <2>1 DEF Take, gui
  <2>2. CASE ~abort
    <3>1. job' = slot /\ slot' = slot /\ restart' = restart /\ asked' = asked
          /\ pc' \in {"interpret", "rasterise"}
      BY <1>7, <2>2 DEF Take, gui
    <3>2. CASE slot.req = job.req
      BY <1>7, <2>2, <3>1, <3>2 DEF Take
    <3>3. CASE slot.req # job.req
      BY <1>7, <2>2, <3>1, <3>3 DEF Take
    <3> QED
      BY <3>2, <3>3
  <2> QED
    BY <2>1, <2>2
<1>8. CASE Interpret
  <2>1. UNCHANGED <<gui, restart, taken>> /\ pc = "interpret" /\ pc' \in {"settle", "rasterise"}
    BY <1>8 DEF Interpret
  <2>2. job'.req = job.req
    BY <1>8 DEF Interpret, TypeOK, Request
  <2> QED
    BY <2>1, <2>2 DEF gui
<1>9. CASE Rasterise
  BY <1>9 DEF Rasterise, gui
<1>10. CASE Settle
  BY <1>10 DEF Settle, gui
<1>11. CASE Wake
  BY <1>11 DEF Wake, gui
<1>12. CASE UNCHANGED vars
  BY <1>12 DEF vars
<1> QED
  BY <1>2, <1>3, <1>4, <1>5, <1>6, <1>7, <1>8, <1>9, <1>10, <1>11, <1>12 DEF Next, Worker

\* No request is taken by the worker more than twice, however many arrive.
THEOREM RenderedAtMostTwice == Spec => []AtMostTwice
<1>1. Init => Rounds
  BY DEF Init, Rounds
<1>2. Rounds => AtMostTwice
  BY DEF Rounds, AtMostTwice
<1> QED
  BY <1>1, <1>2, RoundsStep, TypeCorrect, PTL DEF Spec
-----------------------------------------------------------------------------
(***************************************************************************)
(* No image made from recorded EPS shows an earlier run of the interpreter: *)
(* the PostScript buffer is emptied at the start of every run.              *)
(***************************************************************************)
Fresh == \A s \in Scripts : bytes[s]["EPS"] \in {0, ran[s]}

LEMMA FreshStep == TypeOK /\ Fresh /\ [Next]_vars => Fresh'
<1> SUFFICES ASSUME TypeOK, Fresh, [Next]_vars PROVE Fresh'
  OBVIOUS
<1> USE DEF Fresh
<1>1. ASSUME NEW s \in Scripts, renderGLEToImage(s) PROVE Fresh'
  BY <1>1 DEF renderGLEToImage
<1>2. ASSUME NEW s \in Scripts, renderOutputFromMemoryToImage(s) PROVE Fresh'
  BY <1>2 DEF renderOutputFromMemoryToImage
<1>3. CASE renderEPSFromFileToImage
  BY <1>3 DEF renderEPSFromFileToImage
<1>4. CASE Interpret
  <2> PICK f \in Formats, recorded \in BOOLEAN :
        /\ bytes' = [bytes EXCEPT ![job.script] = Recorded(@, f, recorded)]
        /\ ran' = [ran EXCEPT ![job.script] = job.req]
    BY <1>4 DEF Interpret, Formats
  <2>1. \A b : Recorded(b, f, recorded)["EPS"] \in {0, job.req}
    BY DEF Recorded, Formats
  <2> QED
    BY <2>1 DEF TypeOK
<1>5. CASE Deliver \/ Close \/ Take \/ Rasterise \/ Settle \/ Wake \/ UNCHANGED vars
  BY <1>5 DEF Deliver, Close, Take, Rasterise, Settle, Wake, vars, gui
<1> QED
  BY <1>1, <1>2, <1>3, <1>4, <1>5 DEF Next, Worker

\* EPS that an earlier run recorded is never shown.
THEOREM RecordedEPSIsOfLastRun == Spec => []EPSIsOfLastRun
<1>1. Init => Fresh
  <2> SUFFICES ASSUME Init, NEW s \in Scripts PROVE bytes[s]["EPS"] = 0
    BY DEF Fresh
  <2>1. bytes[s] = [f \in Formats |-> 0]
    BY DEF Init
  <2> QED
    BY <2>1 DEF Formats
<1>2. TypeOK /\ Fresh => EPSIsOfLastRun
  BY DEF Fresh, EPSIsOfLastRun, TypeOK, Request
<1> QED
  BY <1>1, <1>2, FreshStep, TypeCorrect, PTL DEF Spec
-----------------------------------------------------------------------------
(***************************************************************************)
(* The worker implements LatestRequest, as far as its steps go.  Its slot,  *)
(* its flag, and what it does while nobody waits for an image are stutters  *)
(* of the abstract worker, for which nothing counts but which request is    *)
(* taken, answered and shown.                                               *)
(***************************************************************************)

\* The worker has a request, with a number, whenever it is past its start.
Numbered ==
  /\ pc \notin {"off", "done"} => asked > 0
  /\ pc \in {"interpret", "rasterise"} => job.req > 0

LEMMA NumberedStep == TypeOK /\ Rounds /\ Numbered /\ [Next]_vars => Numbered'
<1> SUFFICES ASSUME TypeOK, Rounds, Numbered, [Next]_vars PROVE Numbered'
  OBVIOUS
<1>0. asked \in Nat /\ slot.req = asked /\ job.req \in Nat
  BY MaxRequestsAssumption DEF TypeOK, Request, Requests, Rounds
<1> USE <1>0 DEF Numbered
<1>1. ASSUME NEW t, NEW s, Post(t, s), UNCHANGED <<abort, job, taken, bytes, ran, output>>
      PROVE  Numbered'
  <2>1. asked' > 0 /\ job' = job
    BY <1>1 DEF Post
  <2>2. pc' \in {"interpret", "rasterise"} => pc' = pc
    BY <1>1 DEF Post
  <2> QED
    BY <2>1, <2>2
<1>2. CASE \E s \in Scripts : renderGLEToImage(s) \/ renderOutputFromMemoryToImage(s)
  BY <1>1, <1>2 DEF renderGLEToImage, renderOutputFromMemoryToImage
<1>3. CASE renderEPSFromFileToImage
  BY <1>1, <1>3 DEF renderEPSFromFileToImage
<1>4. CASE Interpret
  <2>1. UNCHANGED gui /\ pc = "interpret"
    BY <1>4 DEF Interpret
  <2>2. job'.req = job.req
    BY <1>4 DEF Interpret, TypeOK, Request
  <2> QED
    BY <2>1, <2>2 DEF gui
<1>5. CASE Deliver \/ Close
  BY <1>5 DEF Deliver, Close, gui
<1>6. CASE Take
  BY <1>6 DEF Take, gui
<1>7. CASE Rasterise \/ Settle \/ Wake \/ UNCHANGED vars
  BY <1>7 DEF Rasterise, Settle, Wake, gui, vars
<1> QED
  BY <1>2, <1>3, <1>4, <1>5, <1>6, <1>7 DEF Next, Worker

\* The numbers of the requests that a queue of images answers.
Numbers(images) == [k \in DOMAIN images |-> images[k].req]

LEMMA NumbersType ==
  ASSUME NEW images \in Seq(Image)
  PROVE  /\ Numbers(images) \in Seq(Requests)
         /\ Len(Numbers(images)) = Len(images)
         /\ \A k \in 1 .. Len(images) : Numbers(images)[k] = images[k].req
<1>1. DOMAIN images = 1 .. Len(images) /\ Len(images) \in Nat
  OBVIOUS
<1>2. \A k \in 1 .. Len(images) : images[k].req \in Requests
  <2>1. \A k \in 1 .. Len(images) : images[k] \in Image
    BY ElementOfSeq
  <2> QED
    BY <2>1 DEF Image
<1>3. Numbers(images) = [k \in 1 .. Len(images) |-> images[k].req]
  BY <1>1 DEF Numbers
<1> QED
  BY <1>1, <1>2, <1>3

\* An image emitted is an answer added, and an image delivered is the first one
\* taken away.
LEMMA NumbersOfAppend ==
  ASSUME NEW images \in Seq(Image), NEW image \in Image
  PROVE  Numbers(Append(images, image)) = Append(Numbers(images), image.req)
<1> DEFINE whole == Append(images, image)
           s     == Numbers(whole)
           t     == Append(Numbers(images), image.req)
           n     == Len(images)
<1>1. whole \in Seq(Image) /\ Len(whole) = n + 1 /\ n \in Nat
  OBVIOUS
<1>2. image.req \in Requests
  BY DEF Image
<1>3. \A k \in 1 .. n + 1 : whole[k] = IF k <= n THEN images[k] ELSE image
  OBVIOUS
<1>4. s \in Seq(Requests) /\ Len(s) = n + 1 /\ \A k \in 1 .. n + 1 : s[k] = whole[k].req
  <2> HIDE DEF whole, n
  <2> QED
    BY <1>1, NumbersType
<1>5. /\ Numbers(images) \in Seq(Requests)
      /\ Len(Numbers(images)) = n
      /\ \A k \in 1 .. n : Numbers(images)[k] = images[k].req
  BY NumbersType
<1>6. t \in Seq(Requests) /\ Len(t) = n + 1
  BY <1>2, <1>5
<1>7. \A k \in 1 .. n + 1 : t[k] = IF k <= n THEN Numbers(images)[k] ELSE image.req
  BY <1>1, <1>2, <1>5
<1>8. \A k \in 1 .. n + 1 : s[k] = t[k]
  <2> SUFFICES ASSUME NEW k \in 1 .. n + 1 PROVE s[k] = t[k]
    OBVIOUS
  <2> HIDE DEF whole, s, t, n
  <2>1. CASE k <= n
    BY <1>1, <1>3, <1>4, <1>5, <1>7, <2>1
  <2>2. CASE ~(k <= n)
    BY <1>3, <1>4, <1>7, <2>2
  <2> QED
    BY <2>1, <2>2
<1> HIDE DEF whole, s, t, n
<1>9. s = t
  BY <1>4, <1>6, <1>8, SeqEqual
<1> QED
  BY <1>9 DEF s, t, whole

LEMMA NumbersOfTail ==
  ASSUME NEW images \in Seq(Image), images # << >>
  PROVE  /\ Numbers(images) # << >>
         /\ Head(Numbers(images)) = Head(images).req
         /\ Tail(Numbers(images)) = Numbers(Tail(images))
<1> DEFINE rest == Tail(images)
           s    == Numbers(rest)
           t    == Tail(Numbers(images))
           n    == Len(images)
<1>1. n \in Nat \ {0} /\ rest \in Seq(Image) /\ Len(rest) = n - 1 /\ Head(images) = images[1]
  OBVIOUS
<1>2. \A k \in 1 .. n - 1 : rest[k] = images[k + 1]
  OBVIOUS
<1>3. s \in Seq(Requests) /\ Len(s) = n - 1 /\ \A k \in 1 .. n - 1 : s[k] = rest[k].req
  <2> HIDE DEF rest, n
  <2> QED
    BY <1>1, NumbersType
<1>4. /\ Numbers(images) \in Seq(Requests)
      /\ Len(Numbers(images)) = n
      /\ \A k \in 1 .. n : Numbers(images)[k] = images[k].req
  BY NumbersType
<1>5. Numbers(images) # << >> /\ Head(Numbers(images)) = Numbers(images)[1]
  <2> HIDE DEF n
  <2> QED
    BY <1>1, <1>4, EmptySeq
<1>6. t \in Seq(Requests) /\ Len(t) = n - 1 /\ \A k \in 1 .. n - 1 : t[k] = Numbers(images)[k + 1]
  <2> HIDE DEF n
  <2> QED
    BY <1>1, <1>4, <1>5, HeadTailProperties
<1>7. 1 \in 1 .. n /\ \A k \in 1 .. n - 1 : k + 1 \in 1 .. n
  BY <1>1
<1> HIDE DEF rest, s, t, n
<1>8. \A k \in 1 .. n - 1 : s[k] = t[k]
  BY <1>2, <1>3, <1>4, <1>6, <1>7
<1>9. s = t
  BY <1>3, <1>6, <1>8, SeqEqual
<1>10. Head(Numbers(images)) = Head(images).req
  BY <1>1, <1>4, <1>5, <1>7
<1> QED
  BY <1>5, <1>9, <1>10 DEF s, t, rest

\* Every step of the worker and of the window is a step of LatestRequest or
\* leaves its state alone.
LEMMA LatestStep ==
  ASSUME TypeOK, Attended, Rounds, Numbered, [Next]_vars
  PROVE  [Latest!Next]_(Latest!vars)
<1> DEFINE working == IF pc \in {"interpret", "rasterise"} THEN job.req ELSE 0
<1>0. /\ asked \in Nat /\ taken \in Nat /\ job.req \in Nat /\ slot.req = asked
      /\ events \in Seq(Image)
  BY MaxRequestsAssumption DEF TypeOK, Request, Requests, Rounds
<1>a. Latest!vars = <<asked, working, job.req, taken, Numbers(events), shown.req, abort>>
  BY DEF Latest!vars, Numbers
<1>1. ASSUME NEW t, NEW s, Post(t, s), UNCHANGED <<abort, job, taken, bytes, ran, output>>
      PROVE  Latest!Ask
  <2>1. ~abort /\ asked' = asked + 1 /\ abort' = abort /\ job' = job /\ taken' = taken
        /\ events' = events /\ shown' = shown
    BY <1>1 DEF Post, output
  <2>2. working' = working
    BY <1>1, <2>1 DEF Post, IsRunning
  <2> QED
    BY <2>1, <2>2 DEF Latest!Ask
<1>2. CASE \E s \in Scripts : renderGLEToImage(s) \/ renderOutputFromMemoryToImage(s)
  BY <1>1, <1>2 DEF renderGLEToImage, renderOutputFromMemoryToImage, Latest!Next
<1>3. CASE renderEPSFromFileToImage
  BY <1>1, <1>3 DEF renderEPSFromFileToImage, Latest!Next
<1>4. CASE Deliver
  <2>1. events # << >> /\ shown' = Head(events) /\ events' = Tail(events)
        /\ UNCHANGED <<asked, abort, pc, job, taken>>
    BY <1>4 DEF Deliver, gui
  <2>2. /\ Numbers(events) # << >>
        /\ Head(Numbers(events)) = Head(events).req
        /\ Tail(Numbers(events)) = Numbers(Tail(events))
    BY <1>0, <2>1, NumbersOfTail
  <2>3. Latest!Deliver
    BY <2>1, <2>2 DEF Latest!Deliver, Numbers
  <2> QED
    BY <2>3 DEF Latest!Next
<1>5. CASE Close
  <2>1. ~abort /\ abort' = TRUE /\ UNCHANGED <<asked, job, taken, events, shown>>
    BY <1>5 DEF Close, output
  <2>2. working' = working
    BY <1>5, <2>1 DEF Close
  <2>3. Latest!Close
    BY <2>1, <2>2 DEF Latest!Close
  <2> QED
    BY <2>3 DEF Latest!Next
<1>6. CASE Take
  <2>1. pc = "take" /\ UNCHANGED <<asked, abort, events, shown>> /\ asked > 0
    BY <1>6 DEF Take, gui, output, Numbered
  <2>2. CASE abort
    <3>1. job' = job /\ taken' = taken /\ pc' = "done"
      BY <1>6, <2>2 DEF Take
    <3> QED
      BY <2>1, <3>1 DEF Latest!vars
  <2>3. CASE ~abort
    <3>1. /\ job' = slot /\ pc' \in {"interpret", "rasterise"}
          /\ taken' = IF slot.req = job.req THEN taken + 1 ELSE 1
      BY <1>6, <2>3 DEF Take
    <3>2. job.req = asked => taken < 2
      BY <1>0, <2>1, <2>3 DEF Rounds
    <3>3. Latest!Take
      BY <1>0, <2>1, <2>3, <3>1, <3>2 DEF Latest!Take
    <3> QED
      BY <3>3 DEF Latest!Next
  <2> QED
    BY <2>2, <2>3
<1>7. ASSUME NEW image \in Image, image.req = job.req, Emit(image),
             pc \in {"interpret", "rasterise"}, pc' = "settle",
             UNCHANGED <<asked, job, taken, abort>>
      PROVE  Latest!Answer
  <2>1. Numbers(events') = Append(Numbers(events), job.req) /\ shown' = shown
    BY <1>0, <1>7, NumbersOfAppend DEF Emit
  <2>2. working > 0 /\ working = job.req /\ working' = 0
    BY <1>7 DEF Numbered
  <2> QED
    BY <1>7, <2>1, <2>2 DEF Latest!Answer, Numbers
<1>8. CASE Interpret
  <2> PICK failed \in BOOLEAN :
        IF failed
          THEN Emit([req |-> job.req, of |-> 0]) /\ pc' = "settle" /\ UNCHANGED job
          ELSE /\ \E todo : job' = [job EXCEPT !.todo = todo]
               /\ pc' = "rasterise"
               /\ UNCHANGED output
    BY <1>8 DEF Interpret
  <2>1. UNCHANGED <<asked, abort, taken>> /\ pc = "interpret"
    BY <1>8 DEF Interpret, gui
  <2>2. CASE failed
    <3>1. [req |-> job.req, of |-> 0] \in Image
      BY MaxRequestsAssumption DEF TypeOK, Request, Requests, Image
    <3> QED
      BY <1>7, <2>1, <2>2, <3>1 DEF Latest!Next
  <2>3. CASE ~failed
    <3>1. job'.req = job.req
      BY <2>3 DEF TypeOK, Request
    <3> QED
      BY <2>1, <2>3, <3>1 DEF Latest!vars, output
  <2> QED
    BY <2>2, <2>3
<1>9. CASE Rasterise
  <2>1. job.req \in Requests /\ 0 \in Requests /\ job.script \in Scripts
    BY MaxRequestsAssumption DEF TypeOK, Request, Requests
  <2>2. \A f \in Formats : bytes[job.script][f] \in Requests
    BY <2>1 DEF TypeOK
  <2> PICK of \in Requests : Emit([req |-> job.req, of |-> of])
    BY <1>9, <2>1, <2>2 DEF Rasterise, Formats
  <2>3. [req |-> job.req, of |-> of] \in Image
    BY <2>1 DEF Image
  <2> QED
    BY <1>7, <1>9, <2>3 DEF Rasterise, gui, Latest!Next
<1>10. CASE Settle \/ Wake
  BY <1>10 DEF Settle, Wake, gui, output, Latest!vars
<1>11. CASE UNCHANGED vars
  BY <1>11 DEF vars, Latest!vars
<1> QED
  BY <1>2, <1>3, <1>4, <1>5, <1>6, <1>8, <1>9, <1>10, <1>11 DEF Next, Worker

\* The steps of the worker are those of LatestRequest, which the main window is
\* built on: answers come in the order of the requests, none is given more than
\* twice, and a new round always takes the last request.
THEOREM ImplementsLatestRequest == Spec => Latest!Init /\ [][Latest!Next]_(Latest!vars)
<1>1. Init => Latest!Init
  <2> SUFFICES ASSUME Init PROVE Latest!Init
    OBVIOUS
  <2>1. job.req = 0 /\ [k \in DOMAIN events |-> events[k].req] = << >>
    BY DEF Init
  <2> QED
    BY <2>1 DEF Init, Latest!Init
<1>2. Init => Rounds /\ Numbered
  BY DEF Init, Rounds, Numbered
<1>3. TypeOK /\ Attended /\ Rounds /\ Numbered /\ [Next]_vars => [Latest!Next]_(Latest!vars)
  BY LatestStep
<1> QED
  BY <1>1, <1>2, <1>3, TypeCorrect, AttendedAlways, RoundsStep, NumberedStep, PTL DEF Spec
=============================================================================
