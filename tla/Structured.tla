------------------------------ MODULE Structured ------------------------------
(***************************************************************************)
(* What a GLE program means, with no jump in it: the block commands of the *)
(* source, matched by nesting depth alone, say where control goes.  The    *)
(* jumps that Pass patches and DoPcode follows are checked against this    *)
(* reading of the program.                                                 *)
(***************************************************************************)
EXTENDS Integers, Sequences, FiniteSets

CONSTANTS MaxDepth   \* bound: nested calls of the subroutine

VARIABLES
  phase,    \* "run" while the program runs
  code,     \* the opcodes of every line
  pos,      \* the place of the opcode to execute next, or Past
  evald,    \* the call in the expression of that opcode has returned
  vals,     \* the loop variables
  frames    \* calls under way: where each returns to, and evald there

absVars == <<phase, code, pos, evald, vals, frames>>

Real == UNION {{<<l, k>> : k \in DOMAIN code[l]} : l \in DOMAIN code}
At(p) == code[p[1]][p[2]]
Before(p, q) == p[1] < q[1] \/ (p[1] = q[1] /\ p[2] < q[2])
First(S) == CHOOSE p \in S : \A q \in S : p = q \/ Before(p, q)
Past == <<Len(code) + 1, 1>>

\* The first opcode at p or behind it.
Norm(p) == LET S == {q \in Real : ~Before(q, p)} IN IF S = {} THEN Past ELSE First(S)
After(p) == Norm(<<p[1], p[2] + 1>>)

-----------------------------------------------------------------------------
(* Nesting.  A one-line IF, or ELSE, whose code opens nothing is closed     *)
(* at the head of the next line, unless the ELSE of the IF follows there.   *)

Opens(p) == \/ At(p).op \in {"for", "while", "until", "sub", "begin"}
            \/ At(p).op = "if" /\ ~At(p).d
ClosesAt(p) == At(p).op \in {"endif", "next", "endsub", "end"}
Separates(p) == At(p).op = "else"

Starts(l, op) == code[l] # <<>> /\ code[l][1].op = op
OneLine(l) ==
  /\ Starts(l, "if") \/ (Starts(l, "else") /\ ~code[l][1].d)
  /\ Len(code[l]) > 1
  /\ \A k \in 2 .. Len(code[l]) : ~Opens(<<l, k>>)

Implied ==
  {<<l + 1, 0>> : l \in {i \in DOMAIN code :
                          /\ i < Len(code) /\ OneLine(i)
                          /\ ~(Starts(i, "if") /\ Starts(i + 1, "else"))}}

Closers == {p \in Real : ClosesAt(p)} \cup Implied
Depth(p) == Cardinality({q \in Real : Opens(q) /\ Before(q, p)})
            - Cardinality({q \in Closers : Before(q, p)})

\* The depth of the code that an opening opcode, or an ELSE, stands before.
Inner(p) == IF Opens(p) THEN Depth(p) + 1 ELSE Depth(p)

CloseOf(p) == First({q \in Closers : Before(p, q) /\ Depth(q) = Inner(p)})
OpenOf(p) ==
  CHOOSE q \in Real : Opens(q) /\ Before(q, p) /\ CloseOf(q) = p
ElseOrClose(p) ==
  First({q \in Closers \cup {r \in Real : Separates(r)} :
           Before(p, q) /\ Depth(q) = Inner(p)})

Behind(p) == After(CloseOf(p))
IfFalse(p) == After(ElseOrClose(p))
SubPlace == CHOOSE p \in Real : At(p).op = "sub"
SubOf(p) == First({q \in Closers : /\ q \in Real /\ At(q).op = "endsub"
                                   /\ Before(p, q)})

-----------------------------------------------------------------------------
(* One opcode after the other.                                             *)

Load ==
  /\ phase = "parse" /\ phase' = "run"
  /\ pos' = Norm(<<1, 1>>)
  /\ UNCHANGED <<code, evald, vals, frames>>

Compile ==
  /\ phase = "parse" /\ phase' \in {"parse", "failed"}
  /\ UNCHANGED <<pos, evald, vals, frames>>

Ready == phase = "run" /\ pos \in Real /\ (At(pos).f => evald)

Step(op) == Ready /\ At(pos).op = op /\ evald' = FALSE /\ UNCHANGED <<phase, code>>

Plain ==
  /\ \E op \in {"act", "begin", "end", "endif", "text"} : Step(op)
  /\ pos' = After(pos)
  /\ UNCHANGED <<vals, frames>>

Assign ==
  /\ Step("assign")
  /\ vals' = [vals EXCEPT ![At(pos).v] = 1]
  /\ pos' = After(pos)
  /\ UNCHANGED frames

If ==
  /\ Step("if")
  /\ pos' \in {After(pos), IfFalse(pos)}
  /\ UNCHANGED <<vals, frames>>

\* Code that runs into an ELSE has been the THEN part.
Else == Step("else") /\ pos' = Behind(pos) /\ UNCHANGED <<vals, frames>>

For ==
  /\ Step("for")
  /\ pos' = IF vals[At(pos).v] <= At(pos).n THEN After(pos) ELSE Behind(pos)
  /\ UNCHANGED <<vals, frames>>

Loop ==
  /\ Step("while") \/ Step("until")
  /\ pos' \in {After(pos), Behind(pos)}
  /\ UNCHANGED <<vals, frames>>

Next_ ==
  /\ Step("next")
  /\ pos' = OpenOf(pos)
  /\ vals' = IF At(pos').op = "for" THEN [vals EXCEPT ![At(pos').v] = @ + 1] ELSE vals
  /\ UNCHANGED frames

Skip == Step("sub") /\ pos' = Behind(pos) /\ UNCHANGED <<vals, frames>>

Return == Step("return") /\ pos' = SubOf(pos) /\ UNCHANGED <<vals, frames>>

\* A call, as a command or in the expression of the opcode.
Call ==
  /\ phase = "run" /\ pos \in Real /\ Len(frames) < MaxDepth
  /\ \/ Step("call") /\ frames' = Append(frames, [to |-> After(pos), evald |-> FALSE])
     \/ /\ At(pos).f /\ ~evald
        /\ frames' = Append(frames, [to |-> pos, evald |-> TRUE])
        /\ UNCHANGED <<phase, code, evald>>
  /\ pos' = After(SubPlace)
  /\ UNCHANGED vals

EndSub ==
  /\ phase = "run" /\ pos \in Real /\ At(pos).op = "endsub" /\ frames # <<>>
  /\ pos' = frames[Len(frames)].to
  /\ evald' = frames[Len(frames)].evald
  /\ frames' = SubSeq(frames, 1, Len(frames) - 1)
  /\ UNCHANGED <<phase, code, vals>>

Stop == phase = "run" /\ phase' = "done" /\ UNCHANGED <<code, pos, evald, vals, frames>>

\* Another program is read.
Again ==
  /\ phase # "parse" /\ phase' = "parse"
  /\ code' = <<>> /\ pos' = <<1, 1>> /\ evald' = FALSE
  /\ vals' = [v \in DOMAIN vals |-> 0] /\ frames' = <<>>

AbsNext == \/ Load \/ Compile \/ Plain \/ Assign \/ If \/ Else \/ For \/ Loop
           \/ Next_ \/ Skip \/ Return \/ Call \/ EndSub \/ Stop \/ Again

AbsSpec == phase = "parse" /\ [][AbsNext]_absVars
=============================================================================
