---------------------------- MODULE MCControlFlow ----------------------------
(* Sources for TLC: lines made of the commands of Pass.                    *)
EXTENDS ControlFlow

Cmd(k) == [k |-> k, v |-> 0, n |-> 0, f |-> FALSE]
ForCmd(v, n) == [k |-> "for", v |-> v, n |-> n, f |-> FALSE]
NextCmd(v) == [k |-> "nextv", v |-> v, n |-> 0, f |-> FALSE]

Act == <<Cmd("act")>>
One(ks) == {<<Cmd(k)>> : k \in ks}

\* IF and ELSE in their block and one-line forms, with a loop behind THEN, and
\* a text block, the lines of which are not commands.
Branches ==
  One({"if", "else", "elseif", "endif", "act", "text", "endtext"})
  \cup {<<Cmd("if"), Cmd("act")>>, <<Cmd("else"), Cmd("act")>>,
        <<Cmd("elseif"), Cmd("act")>>, <<Cmd("if"), ForCmd(1, 2)>>,
        <<NextCmd(1)>>, <<>>}

\* Loops in each other and in IF; a FOR that runs its body twice and one that
\* never does, and a FOR that is not the first command of its line.
Loops ==
  One({"act", "while", "until", "next", "if", "endif", "begin", "end"})
  \cup {<<ForCmd(1, 2)>>, <<NextCmd(1)>>, <<ForCmd(2, 0)>>, <<NextCmd(2)>>,
        <<Cmd("act"), ForCmd(1, 2)>>}

\* A subroutine with RETURN out of blocks, called from the program, from its
\* conditions, and by itself.
WhileCall == [Cmd("while") EXCEPT !.f = TRUE]
Subs ==
  One({"sub", "endsub", "return", "call", "next", "else"})
  \cup {<<Cmd("if"), Cmd("return")>>, <<Cmd("act"), Cmd("call")>>, <<WhileCall>>}

\* Commands that must not share a line, errors, and a text block that has no end.
Errors == One({"while", "next", "bad", "text"}) \cup {<<Cmd("act"), Cmd("next")>>, <<>>}

\* Five lines of the first three; three lines of the last, twice in a process.
All == {Branches, Loops, Subs, Errors}
Lines == [lines \in Sources |-> IF lines = Errors THEN 3 ELSE 5]
Passes == [lines \in Sources |-> IF lines = Errors THEN 2 ELSE 1]

\* These are among the sources that Structured_proofs is about.
ASSUME AllAreTame == Sources = All => Tame

\* A loop that calls a subroutine with a loop in it.
LoopInSub ==
  {One({"sub", "endsub", "next"}) \cup {<<ForCmd(1, 2)>>, <<NextCmd(1)>>, <<WhileCall>>}}
SixLines == [lines \in Sources |-> 6]
=============================================================================
