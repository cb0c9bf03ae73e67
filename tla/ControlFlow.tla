----------------------------- MODULE ControlFlow -----------------------------
(***************************************************************************)
(* What the parser and the interpreter together promise about the flow of  *)
(* control: the jumps lead where the nesting of the source says, and       *)
(* following them executes the program that Structured describes.          *)
(***************************************************************************)
EXTENDS DoPcode

\* The place control is at once the pending jump, if any, is taken.
Where ==
  IF cur <= nline /\ at[2] > Len(code[cur]) THEN <<srclin + 1, pend + 1>> ELSE at

S == INSTANCE Structured
       WITH pos <- <<1, 1>>, vals <- vals, frames <- frames

Pos == IF phase \in {"run", "done"} /\ nline > 0 THEN S!Norm(Where) ELSE <<1, 1>>

\* NEXT hands the increment of the loop variable on to FOR by way of jump_back.
AbsVals ==
  IF phase \in {"run", "done"} /\ jumpBack /\ Pos \in S!Real /\ S!At(Pos).op = "for"
  THEN [vals EXCEPT ![S!At(Pos).v] = @ + 1] ELSE vals

AbsFrames == [i \in DOMAIN frames |->
                [to |-> S!Norm(frames[i].to), evald |-> frames[i].evald]]

Abs == INSTANCE Structured WITH pos <- Pos, vals <- AbsVals, frames <- AbsFrames

-----------------------------------------------------------------------------
\* check_block_type lets nothing run that is not properly nested: every command
\* that ends a block ends one of its own kind, NEXT one of its own variable,
\* and every block is ended.
WellNested ==
  phase = "run" =>
    /\ \A q \in {p \in S!Real : S!ClosesAt(p)} :
         \E p \in S!Real :
           /\ S!Opens(p) /\ S!Before(p, q) /\ S!CloseOf(p) = q
           /\ CASE S!At(q).op = "endif" -> S!At(p).op = "if"
                [] S!At(q).op = "endsub" -> S!At(p).op = "sub"
                [] S!At(q).op = "end" -> S!At(p).op = "begin"
                [] S!At(q).op = "next" ->
                     /\ S!At(p).op \in {"for", "while", "until"}
                     /\ S!At(p).op = "for" => S!At(p).v = S!At(q).v
    /\ S!Depth(S!Past) = 0

\* The targets do_endif, add_else_block_update, do_endsub and the case of NEXT
\* have filled in are the ones nesting depth alone gives.
JumpsNest ==
  phase = "run" =>
    \A p \in DOMAIN jump :
      LET t == jump[p]
          o == S!At(p).op
      IN  CASE o = "if" -> S!Norm(<<t[1], t[2] + 1>>) = S!IfFalse(p)
            [] o = "else" -> S!Norm(<<t[1], t[2] + 1>>) = S!Behind(p)
            [] o \in {"for", "while", "until"} -> S!Norm(<<t[1] + 1, 1>>) = S!Behind(p)
            [] o = "next" -> S!Norm(<<t[1], t[2] + 1>>) = S!OpenOf(p)
            [] o = "return" -> S!Norm(<<t[1], 1>>) = S!SubOf(p)

\* Following the jumps executes the structured program: the branches, the
\* loops with their increments, the calls and returns of do_pcode.
Structured == Abs!AbsSpec

\* Programs that keep clear of what is wrong with jump_back, of a subroutine that is
\* defined twice, and of commands behind a FOR: where there are FORs, no head of a loop
\* calls the subroutine, and the program is the first of its process.
HasFor(lines) == \E ln \in lines : \E i \in DOMAIN ln : ln[i].k = "for"
Tame ==
  /\ ~Redefine
  /\ \A lines \in Sources :
       /\ HasFor(lines) => MaxPasses[lines] = 1
       /\ \A ln \in lines : \A i \in DOMAIN ln :
            /\ ln[i].k = "for" => i = Len(ln) /\ ln[i].v \in Vars
            /\ ln[i].k \in {"for", "while", "until"} /\ HasFor(lines) => ~ln[i].f

\* A FOR that starts (it has just been assigned its first value) is not taken
\* for one that its NEXT has come back to: jump_back is not set then.
FirstValueTested ==
  phase = "run" /\ OnOpcode /\ ~AtEndSub /\ op.op = "assign" => ~jumpBack
=============================================================================
