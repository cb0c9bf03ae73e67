------------------------------- MODULE DoPcode -------------------------------
(***************************************************************************)
(* The second half of a run of GLE: the loops over the compiled lines, in  *)
(* DrawIt for the program and in GLERun::sub_call for a subroutine, and    *)
(* GLERun::do_pcode (run.cpp), which executes the opcodes of one line.  A  *)
(* jump is a change of the loop's line number, and of the offset at which  *)
(* do_pcode starts on the next line; FOR learns from a static flag,        *)
(* jump_back, whether it was reached from its NEXT.                        *)
(***************************************************************************)
EXTENDS Pass

CONSTANTS
  Vars,       \* loop variables
  MaxDepth    \* bound: nested calls of the subroutine

VARIABLES
  at,         \* the line being executed and the opcode of it to execute next
  srclin,     \* *srclin: the next line is the one after it
  pend,       \* *pend: how many opcodes of the next line are skipped
  evald,      \* the call in the expression of the opcode has returned
  jumpBack,   \* the static jump_back
  vals,       \* the loop variables
  frames      \* the loops of the callers: what they go on with

runVars == <<at, srclin, pend, evald, jumpBack, vals, frames>>
allVars == <<vars, runVars>>

cur == at[1]
op == code[cur][at[2]]
OnOpcode == phase = "run" /\ cur <= nline /\ at[2] <= Len(code[cur])
AtEndSub == frames # <<>> /\ cur >= sub.end
Frame == frames[Len(frames)]

\* The opcode is executed: its expressions have their values.
Exec(ops) ==
  /\ OnOpcode /\ ~AtEndSub
  /\ op.op \in ops
  /\ op.f => evald
  /\ evald' = FALSE
  /\ UNCHANGED vars

Advance == at' = Next1(at)
Target == jump[at]

Ordinary ==
  /\ Exec({"act", "begin", "end", "endif", "text"})
  /\ Advance
  /\ UNCHANGED <<srclin, pend, jumpBack, vals, frames>>

Assign ==
  /\ Exec({"assign"})
  /\ vals' = [vals EXCEPT ![op.v] = 1]
  /\ Advance
  /\ UNCHANGED <<srclin, pend, jumpBack, frames>>

\* do_pcode returns at once, and the loop goes to the target.
Leave(t) == at' = <<t[1], t[2] + 1>> /\ srclin' = t[1]

IfTrue ==
  /\ Exec({"if"}) /\ Advance
  /\ UNCHANGED <<srclin, pend, jumpBack, vals, frames>>

IfFalse ==
  /\ Exec({"if"}) /\ Leave(Target)
  /\ UNCHANGED <<pend, jumpBack, vals, frames>>

ElseOp ==
  /\ Exec({"else"}) /\ Leave(Target)
  /\ UNCHANGED <<pend, jumpBack, vals, frames>>

\* Mutant: the last round is left out.
ForStopsEarly ==
  /\ Exec({"for"})
  /\ LET y == IF jumpBack THEN vals[op.v] + 1 ELSE vals[op.v]
     IN  /\ vals' = [vals EXCEPT ![op.v] = y]
         /\ srclin' = IF y >= op.n THEN Target[1] ELSE srclin
  /\ jumpBack' = FALSE
  /\ Advance
  /\ UNCHANGED <<pend, frames>>

\* The loop variable is incremented when NEXT has come back to the FOR; a loop
\* that is over jumps by way of srclin, behind the rest of the line.
ForOp ==
  /\ Exec({"for"})
  /\ LET y == IF jumpBack THEN vals[op.v] + 1 ELSE vals[op.v]
     IN  /\ vals' = [vals EXCEPT ![op.v] = y]
         /\ srclin' = IF y > op.n THEN Target[1] ELSE srclin
  /\ jumpBack' = FALSE
  /\ Advance
  /\ UNCHANGED <<pend, frames>>

\* Mutant: jump_back is left set.
WhileKeepsJumpBack ==
  /\ Exec({"while", "until"})
  /\ srclin' \in {srclin, Target[1]}
  /\ Advance
  /\ UNCHANGED <<pend, jumpBack, vals, frames>>

WhileOp ==
  /\ Exec({"while", "until"})
  /\ srclin' \in {srclin, Target[1]}
  /\ jumpBack' = FALSE
  /\ Advance
  /\ UNCHANGED <<pend, vals, frames>>

NextOp ==
  /\ Exec({"next"})
  /\ srclin' = Target[1] - 1 /\ pend' = Target[2]
  /\ jumpBack' = TRUE
  /\ Advance
  /\ UNCHANGED <<vals, frames>>

SubOp ==
  /\ Exec({"sub"})
  /\ srclin' = sub.end
  /\ Advance
  /\ UNCHANGED <<pend, jumpBack, vals, frames>>

ReturnOp ==
  /\ Exec({"return"})
  /\ srclin' = Target[1] - 1
  /\ Advance
  /\ UNCHANGED <<pend, jumpBack, vals, frames>>

Enter(ret, again) ==
  /\ Len(frames) < MaxDepth
  /\ frames' = Append(frames, [to |-> ret, srclin |-> srclin, pend |-> pend,
                               evald |-> again])
  /\ at' = <<sub.start + 1, 1>> /\ srclin' = sub.start + 1 /\ pend' = 0
  /\ UNCHANGED <<jumpBack, vals>>

\* sub_call, from a command or from the expression of an opcode.
CallOp == Exec({"call"}) /\ Enter(Next1(at), FALSE)

CallInExpression ==
  /\ OnOpcode /\ ~AtEndSub /\ op.f /\ ~evald
  /\ Enter(at, TRUE)
  /\ UNCHANGED <<vars, evald>>

\* The line is done: i++ in the loop, and the offset is used up.
EndOfLine ==
  /\ phase = "run" /\ cur <= nline /\ at[2] > Len(code[cur]) /\ ~AtEndSub
  /\ at' = <<srclin + 1, pend + 1>> /\ srclin' = srclin + 1 /\ pend' = 0
  /\ UNCHANGED <<vars, evald, jumpBack, vals, frames>>

\* i < sub->getEnd() fails: sub_call returns.
ReturnFromSub ==
  /\ phase = "run" /\ AtEndSub
  /\ at' = Frame.to /\ srclin' = Frame.srclin /\ pend' = Frame.pend
  /\ evald' = Frame.evald
  /\ frames' = SubSeq(frames, 1, Len(frames) - 1)
  /\ UNCHANGED <<vars, jumpBack, vals>>

Stop ==
  /\ phase' = "done"
  /\ UNCHANGED <<source, parseVars, mode, errors, passes, runVars>>

ProgramEnd == phase = "run" /\ frames = <<>> /\ cur > nline /\ Stop

\* The expression of an opcode throws a ParserError: DrawIt reports it and ends
\* the run.
RunError ==
  /\ OnOpcode /\ ~AtEndSub
  /\ op.op \notin {"else", "endif", "next", "sub", "endsub"}
  /\ Stop

RunInit ==
  /\ Init
  /\ at = <<1, 1>> /\ srclin = 1 /\ pend = 0 /\ evald = FALSE
  /\ jumpBack = FALSE /\ vals = [v \in Vars |-> 0] /\ frames = <<>>

Execute ==
  \/ Ordinary \/ Assign \/ IfTrue \/ IfFalse \/ ElseOp \/ ForOp \/ WhileOp
  \/ NextOp \/ SubOp \/ ReturnOp \/ CallOp \/ CallInExpression
  \/ EndOfLine \/ ReturnFromSub \/ ProgramEnd \/ RunError

RunAgain ==
  /\ phase \in {"failed", "done"}
  /\ Again
  /\ at' = <<1, 1>> /\ srclin' = 1 /\ pend' = 0 /\ evald' = FALSE
  /\ vals' = [v \in Vars |-> 0] /\ frames' = <<>>
  /\ UNCHANGED jumpBack

RunNext == (Parse /\ UNCHANGED runVars) \/ Execute \/ RunAgain

RunSpec == RunInit /\ [][RunNext]_allVars
=============================================================================
