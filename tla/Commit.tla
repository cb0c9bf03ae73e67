------------------------------- MODULE Commit -------------------------------
(***************************************************************************)
(* How QGLE's edit mode writes a drawing back into its GLE script: the      *)
(* script is run once more, in commit mode, and each drawing command is     *)
(* compared with the object the drawing area made of it (run.cpp,           *)
(* handleNewDrawObject); the lines to change, to insert and to delete are   *)
(* collected and then applied to the source (gle-sourcefile.cpp), and the   *)
(* new objects are appended to it (gle-interface.cpp, commitChangesGLE).    *)
(*                                                                          *)
(* A line of a script has a command c, a point p and a colour k.  Lines     *)
(* ("aline") depend on the point the previous command left; circles stand   *)
(* for everything drawn around the current point (ellipses, arcs, texts,    *)
(* object blocks); "set" stands for the properties of an object, "other"    *)
(* for commands that neither draw nor move, "blank" for empty lines and     *)
(* comments.                                                                *)
(***************************************************************************)
EXTENDS Naturals, Sequences, FiniteSetsExt, SequencesExt

Origin == 0         \* the current point at the start of a script
Black == 1          \* the colour at the start of a script
Shapes == {"aline", "circle"}

Lines == [c : Shapes \cup {"amove", "set", "other", "blank"}, p : Nat, k : Nat]
Line(c, p, k) == [c |-> c, p |-> p, k |-> k]
AMove(p) == Line("amove", p, Black)
SetColor(k) == Line("set", Origin, k)
Blank == Line("blank", Origin, Black)

\* The elements of a sequence that are in S: SelectSeq, by steps one can reason about.
Only(s, S) ==
  LET f[i \in 0..Len(s)] ==
        IF i = 0 THEN <<>> ELSE IF s[i] \in S THEN Append(f[i-1], s[i]) ELSE f[i-1]
  IN  f[Len(s)]

\* The object a drawing command makes in a state s with a point and a colour.
ObjectOf(line, s) ==
  [c |-> line.c, p |-> s.at, q |-> IF line.c = "aline" THEN line.p ELSE s.at,
   k |-> s.color]

\* The line of code of an object (createGLECode).
CodeOf(obj) == Line(obj.c, IF obj.c = "aline" THEN obj.q ELSE Origin, Black)

-----------------------------------------------------------------------------
(* Running a script: GLERun::do_pcode on the commands above.                *)

\* A command that draws nothing.
PassLine(line, s) ==
  [s EXCEPT !.at    = IF line.c = "amove" THEN line.p ELSE @,
            !.color = IF line.c = "set" THEN line.k ELSE @]

RunLine(line, s) ==
  IF line.c \in Shapes
  THEN [s EXCEPT !.at = ObjectOf(line, s).q, !.drawn = Append(@, ObjectOf(line, s))]
  ELSE PassLine(line, s)

\* The state after i lines: the point, the colour and the objects drawn.
Run(code) ==
  LET run[i \in 0..Len(code)] ==
        IF i = 0 THEN [at |-> Origin, color |-> Black, drawn |-> <<>>]
        ELSE RunLine(code[i], run[i-1])
  IN  run

\* The objects a script draws, in the order it draws them.
Drawn(code) == Run(code)[Len(code)].drawn

-----------------------------------------------------------------------------
(* The run in commit mode.  Its state s has the current point and colour,   *)
(* the number of the next object to compare with, the updated lines, the    *)
(* insertions scheduled (a line and the number of the line it goes before)  *)
(* and the numbers of the lines scheduled for deletion.  What a line "is"   *)
(* is read from the pcode, that is from the code before the commit.  Stray  *)
(* records that an amove was written for a line that is deleted: the run    *)
(* goes on at another point than the updated script will.                   *)

\* The last line before i that is not a c, but never before line 1.
Previous(code, i, c) ==
  IF i = 1 THEN 0 ELSE Max({1} \cup {j \in 1..(i-1) : code[j].c # c})

Is(code, i, c) == i \in DOMAIN code /\ code[i].c = c

Schedule(s, i, line) == [s EXCEPT !.ins = Append(@, [before |-> i, line |-> line])]

\* Mutant: the state of the run is not updated.
SetPropertiesOnly(code, s, i, k) ==
  LET prev == Previous(code, i, "amove")
  IN  IF Is(code, prev, "set") THEN [s EXCEPT !.src[prev] = SetColor(k)]
                               ELSE Schedule(s, prev + 1, SetColor(k))

\* handleChangedProperties: change the set command in front, or add one.
SetProperties(code, s, i, k) ==
  LET prev == Previous(code, i, "amove")
      t    == [s EXCEPT !.color = k]
  IN  IF Is(code, prev, "set") THEN [t EXCEPT !.src[prev] = SetColor(k)]
                               ELSE Schedule(t, prev + 1, SetColor(k))

\* handleAddAmove: change the amove in front, or add one.
AddAmove(code, s, i, p) ==
  LET prev == Previous(code, i, "blank")
  IN  CASE s.at = p                -> s
        [] s.at # p /\ Is(code, prev, "amove") -> [s EXCEPT !.src[prev] = AMove(p)]
        [] OTHER                   -> Schedule(s, i, AMove(p))

\* Mutant: whatever stands in front of the object is deleted.
DeletedWithPrevious(code, i) ==
  LET follows == \E j \in (i+1)..(Len(code)-1) :
                   /\ Is(code, j, "amove")
                   /\ \A l \in (i+1)..(j-1) : code[l].c \in {"blank", "set"}
  IN  {i} \cup (IF follows /\ i > 1 THEN {i - 1} ELSE {})

\* tryDeleteAmove: the amove in front of a deleted object goes with it when
\* another amove follows anyway.  The last line of the file is never seen.
DeletedWith(code, i) ==
  LET follows == \E j \in (i+1)..(Len(code)-1) :
                   /\ Is(code, j, "amove")
                   /\ \A l \in (i+1)..(j-1) : code[l].c \in {"blank", "set"}
  IN  {i} \cup (IF follows /\ Is(code, i - 1, "amove") THEN {i - 1} ELSE {})

\* Mutant: the properties are not compared with the state.
CompareSetsAlways(code, s, i, obj) ==
  LET old   == ObjectOf(code[i], s)
      props == SetProperties(code, s, i, obj.k)
      same  == obj.p = old.p /\ obj.q = old.q
      moved == IF same THEN props
               ELSE [AddAmove(code, props, i, obj.p) EXCEPT !.src[i] = CodeOf(obj)]
  IN  IF obj.deleted
      THEN [moved EXCEPT !.del = @ \cup DeletedWith(code, i),
                         !.stray = @ \/ (obj.c = "aline" /\ ~same /\ obj.p # s.at),
                         !.at = IF obj.c = "circle" THEN obj.p ELSE @]
      ELSE [moved EXCEPT !.at = obj.q]

\* handleNewDrawObject in commit mode, for the drawing command at line i and
\* the object obj that was made of it.
Compare(code, s, i, obj) ==
  LET old   == ObjectOf(code[i], s)
      props == IF obj.k # s.color THEN SetProperties(code, s, i, obj.k) ELSE s
      same  == obj.p = old.p /\ obj.q = old.q
      moved == IF same THEN props
               ELSE [AddAmove(code, props, i, obj.p) EXCEPT !.src[i] = CodeOf(obj)]
  IN  IF obj.deleted
      THEN [moved EXCEPT !.del = @ \cup DeletedWith(code, i),
                         !.stray = @ \/ (obj.c = "aline" /\ ~same /\ obj.p # s.at),
                         !.at = IF obj.c = "circle" THEN obj.p ELSE @]
      ELSE [moved EXCEPT !.at = obj.q]

\* One line of the run.  A command whose object is not the next one of the
\* drawing is passed over, its effect on the current point included.
CommitLine(code, objs, s, i) ==
  IF code[i].c \notin Shapes THEN PassLine(code[i], s)
  ELSE LET t == [s EXCEPT !.next = @ + 1]
       IN  IF s.next \in DOMAIN objs /\ objs[s.next].c = code[i].c
           THEN Compare(code, t, i, objs[s.next])
           ELSE t

CommitRun(code, objs) ==
  LET run[i \in 0..Len(code)] ==
        IF i = 0 THEN [at |-> Origin, color |-> Black, next |-> 1, src |-> code,
                       ins |-> <<>>, del |-> {}, stray |-> FALSE]
        ELSE CommitLine(code, objs, run[i-1], i)
  IN  run[Len(code)]

-----------------------------------------------------------------------------
(* New objects, and the updates of the source.                              *)

\* The code of a new object is appended to the script.
AddObject(s, obj) ==
  IF obj.deleted THEN s
  ELSE LET moves == obj.p # s.at
           code  == (IF moves THEN <<Blank>> ELSE <<>>)
                    \o (IF obj.k # s.color THEN <<SetColor(obj.k)>> ELSE <<>>)
                    \o (IF moves THEN <<AMove(obj.p)>> ELSE <<>>)
                    \o <<CodeOf(obj)>>
       IN  [s EXCEPT !.src = @ \o code, !.at = obj.q, !.color = obj.k]

AddObjects(s, objs) ==
  LET added[i \in 0..Len(objs)] == IF i = 0 THEN s ELSE AddObject(added[i-1], objs[i])
  IN  added[Len(objs)]

\* GLESourceFile::performUpdates: one pass over the lines, which takes the
\* insertions in the order they were scheduled; one that is passed blocks all
\* that come after it.
UpdateLine(s, u, i) ==
  LET upto == Max({u.pos} \cup {n \in (u.pos + 1)..Len(s.ins) :
                                  \A m \in (u.pos + 1)..n : s.ins[m].before = i})
      inserted == [n \in 1..(upto - u.pos) |-> s.ins[u.pos + n].line]
  IN  [pos |-> upto,
       out |-> u.out \o inserted
               \o (IF i \in s.del THEN <<>> ELSE <<s.src[i]>>)]

PerformUpdates(s) ==
  LET updated[i \in 0..Len(s.src)] ==
        IF i = 0 THEN [pos |-> 0, out |-> <<>>] ELSE UpdateLine(s, updated[i-1], i)
  IN  updated[Len(s.src)].out

\* Mutant: the deleted objects stay.
RemoveDeletedNot(objs, deleted) == objs

\* GLEComposedObject::removeDeletedObjects: shifts the list in place, object i
\* by the number of deleted objects up to i.
RemoveDeleted(objs, deleted) ==
  LET gone(i) == Cardinality({j \in 1..i : objs[j] \in deleted})
  IN  [i \in 1..(Len(objs) - gone(Len(objs))) |-> objs[i + gone(i)]]

\* GLEInterface::commitChangesGLE, the source part: the script code becomes
\* after a commit of its objects and of the new ones.
Committed(code, objs, newObjs) ==
  PerformUpdates(AddObjects(CommitRun(code, objs), newObjs))
=============================================================================
