-------------------------------- MODULE Pass --------------------------------
(***************************************************************************)
(* The first half of a run of GLE: DrawIt (drawit.cpp) hands the source    *)
(* line by line to GLEParser::passt (pass.cpp), which checks the nesting   *)
(* of the block commands on a stack and turns every block command into a   *)
(* jump whose target is filled in, "patched", when a later line ends the   *)
(* block.                                                                  *)
(*                                                                         *)
(* A command is a record of its keyword k, the variable v of FOR and NEXT, *)
(* the number n of times a FOR is to run its body, and whether the         *)
(* expression of the loop calls a subroutine (f).  An opcode is a record   *)
(* of the same shape; d tells the two opcodes of ELSE IF from ELSE and IF. *)
(* A place <<l, k>> is the k-th opcode of line l; a target <<l, k>> is     *)
(* line l after its first k opcodes, and line 0 is a jump not yet patched. *)
(***************************************************************************)
EXTENDS Integers, Sequences, FiniteSets

CONSTANTS
  Sources,     \* sets of lines, each line a sequence of commands; a source is
               \* made of the lines of one of these sets
  MaxLines,    \* bound: lines of a source made of each of these sets
  Redefine,    \* bound: whether a source may define its subroutine twice
  MaxPasses    \* bound: calls of DrawIt in one process up to such a source

Keywords == {"act", "call", "if", "else", "elseif", "endif", "for", "nextv",
             "next", "while", "until", "sub", "endsub", "return", "begin",
             "end", "text", "endtext", "bad"}
Commands == [k : Keywords, v : Nat, n : Nat, f : BOOLEAN]

ASSUME SourcesAssumption == \A lines \in Sources : lines \subseteq Seq(Commands)
ASSUME BoundsAssumption ==
  MaxLines \in [Sources -> Nat] /\ MaxPasses \in [Sources -> Nat \ {0}]
ASSUME RedefineAssumption == Redefine \in BOOLEAN

\* Keywords whose case in passt sets single_cmd.
SingleCmds == {"begin", "end", "text", "next", "nextv", "sub", "endsub",
               "endif", "until", "while"}

VARIABLES
  source,     \* the lines the source is made of
  phase,      \* "parse", "run" (compiled), "failed" (errors, aborted), "done"
  line,       \* commands of the current line not yet compiled
  nbcmd,      \* commands of the current line already compiled
  single,     \* one of them must have its line for itself
  blocks,     \* m_blocks: the stack of open blocks
  code,       \* the opcodes of every line: code[l][k]
  jump,       \* the targets in them: jump[<<l, k>>]
  sub,        \* the subroutine: first and last line, 0 when not known
  autoEndif,  \* m_auto_endif: a one-line IF may be closed by the next line
  mode,       \* the static cur_mode: 0, or 9 inside of "begin text"
  errors,     \* ngerror > 0
  passes      \* calls of DrawIt so far

Slotted == {"if", "else", "for", "while", "until"}
BlockTypes == Slotted \cup {"sub", "begin"}

parseVars == <<line, nbcmd, single, blocks, code, jump, sub, autoEndif>>
vars == <<source, phase, line, nbcmd, single, blocks, code, jump, sub, autoEndif,
          mode, errors, passes>>

Normal == 0
Text == 9
Unpatched == <<0, 0>>
NoSub == [start |-> 0, end |-> 0]

nline == Len(code)
Here == <<nline, Len(code[nline]) + 1>>
Next1(p) == <<p[1], p[2] + 1>>

Block(type, off1, slot, var, dangling) ==
  [type |-> type, first |-> nline, off1 |-> off1, slot |-> slot, var |-> var,
   dangling |-> dangling, deps |-> {}]

Top == blocks[Len(blocks)]
Pop == SubSeq(blocks, 1, Len(blocks) - 1)
TopIs(types) == blocks # <<>> /\ Top.type \in types
InSub == \E i \in 1 .. Len(blocks) : blocks[i].type = "sub"

Op(op, c, d) == [op |-> op, v |-> c.v, n |-> c.n, f |-> c.f, d |-> d]
Emit(ops) == code' = [code EXCEPT ![nline] = @ \o ops]

\* addInt(0): a place for a target; setInt on its line, or on both of its parts.
Slot(f, p) == [q \in DOMAIN f \cup {p} |-> IF q = p THEN Unpatched ELSE f[q]]
Patch(f, ps, l) == [q \in DOMAIN f |-> IF q \in ps THEN <<l, f[q][2]>> ELSE f[q]]
PatchTo(f, p, t) == [q \in DOMAIN f |-> IF q = p THEN t ELSE f[q]]

-----------------------------------------------------------------------------
(* do_endif pops the block on top and every dangling ELSE right below it.  *)

Kept(n) ==
  /\ n < Len(blocks)
  /\ \A i \in n + 1 .. Len(blocks) - 1 : blocks[i].dangling
  /\ n > 0 => ~blocks[n].dangling

\* Mutant: the ELSEs that dangle below the block are popped and not patched.
EndIfForgetsDangling(l) ==
  \E n \in 0 .. Len(blocks) :
     /\ Kept(n)
     /\ blocks' = SubSeq(blocks, 1, n)
     /\ jump' = Patch(jump, {Top.slot}, l)

EndIf(l) ==
  \E n \in 0 .. Len(blocks) :
     /\ Kept(n)
     /\ blocks' = SubSeq(blocks, 1, n)
     /\ jump' = Patch(jump, {blocks[i].slot : i \in n + 1 .. Len(blocks)}, l)

\* The next line closes a one-line IF, or ELSE, unless it starts with the ELSE
\* that goes with it.
Closes(ln) ==
  /\ autoEndif
  /\ TopIs({"if", "else"})
  /\ ~(Top.type = "if" /\ ln # <<>> /\ Head(ln).k \in {"else", "elseif"})

TextLine(ln) ==
  /\ mode # Normal
  /\ mode' = IF ln # <<>> /\ Head(ln).k = "endtext" THEN Normal ELSE mode
  /\ line' = <<>>
  /\ UNCHANGED <<blocks, jump, autoEndif>>

CommandLine(ln) ==
  /\ mode = Normal
  /\ line' = ln
  /\ autoEndif' = (autoEndif /\ blocks = <<>>)
  /\ \/ Closes(ln) /\ EndIf(nline + 1)
     \/ ~Closes(ln) /\ UNCHANGED <<blocks, jump>>
  /\ UNCHANGED mode

StartLine(ln) ==
  /\ phase = "parse" /\ line = <<>> /\ nline < MaxLines[source]
  /\ (\E i \in DOMAIN ln : ln[i].k = "sub") => Redefine \/ sub = NoSub
  /\ code' = Append(code, <<>>)
  /\ nbcmd' = 0 /\ single' = FALSE
  /\ TextLine(ln) \/ CommandLine(ln)
  /\ UNCHANGED <<source, phase, sub, errors, passes>>

-----------------------------------------------------------------------------
(* The commands of a line, one after the other.                            *)

\* The end of passt's loop: a command that needs a line for itself and shares
\* it is an error, found after it has been compiled.
Accept(c) ==
  /\ nbcmd' = nbcmd + 1
  /\ single' = (single \/ c.k \in SingleCmds)
  /\ IF nbcmd' > 1 /\ single'
     THEN errors' = TRUE /\ line' = <<>>
     ELSE line' = Tail(line) /\ UNCHANGED errors
  /\ UNCHANGED <<source, phase, passes>>

Push(b) == blocks' = Append(blocks, b)

\* Mutant: no check_loop_variable.
RefusedButVariable(c) ==
  \/ c.k \in {"bad", "endtext"}
  \/ c.k \in {"if", "else", "elseif"} /\ nbcmd > 0
  \/ c.k \in {"else", "elseif"} /\ ~TopIs({"if"})
  \/ c.k = "endif" /\ ~TopIs({"if", "else"})
  \/ c.k = "nextv" /\ ~TopIs({"for"})
  \/ c.k = "next" /\ ~TopIs({"while", "until"})
  \/ c.k = "end" /\ ~TopIs({"begin"})
  \/ c.k = "endsub" /\ ~TopIs({"sub"})
  \/ c.k = "sub" /\ InSub
  \/ c.k = "return" /\ (~InSub \/ Len(line) > 1)
  \/ (c.k = "call" \/ c.f) /\ sub = NoSub /\ ~InSub

\* What check_block_type, check_loop_variable, find_block and the tests at the
\* head of a case refuse before anything is compiled.
Refused(c) ==
  \/ c.k \in {"bad", "endtext"}
  \/ c.k \in {"if", "else", "elseif"} /\ nbcmd > 0
  \/ c.k \in {"else", "elseif"} /\ ~TopIs({"if"})
  \/ c.k = "endif" /\ ~TopIs({"if", "else"})
  \/ c.k = "nextv" /\ ~(TopIs({"for"}) /\ Top.var = c.v)
  \/ c.k = "next" /\ ~TopIs({"while", "until"})
  \/ c.k = "end" /\ ~TopIs({"begin"})
  \/ c.k = "endsub" /\ ~TopIs({"sub"})
  \/ c.k = "sub" /\ InSub
  \/ c.k = "return" /\ (~InSub \/ Len(line) > 1)
  \/ (c.k = "call" \/ c.f) /\ sub = NoSub /\ ~InSub

Refuse(c) ==
  /\ Refused(c)
  /\ errors' = TRUE /\ line' = <<>>
  /\ UNCHANGED <<source, phase, nbcmd, single, blocks, code, jump, sub, autoEndif,
                 mode, passes>>

Plain(c) ==
  /\ c.k \in {"act", "call", "text"}
  /\ Emit(<<Op(c.k, c, FALSE)>>)
  /\ mode' = IF c.k = "text" THEN Text ELSE mode
  /\ UNCHANGED <<blocks, jump, sub, autoEndif>>

Begin(c) ==
  /\ c.k \in {"begin", "sub"}
  /\ Emit(<<Op(c.k, c, FALSE)>>)
  /\ Push(Block(c.k, 0, Here, 0, FALSE))
  /\ UNCHANGED <<jump, sub, autoEndif, mode>>

If(c) ==
  /\ c.k = "if"
  /\ Emit(<<Op("if", c, FALSE)>>)
  /\ Push(Block("if", 0, Here, 0, FALSE))
  /\ jump' = Slot(jump, Here)
  /\ autoEndif' = (autoEndif \/ Len(line) > 1)
  /\ UNCHANGED <<sub, mode>>

\* ELSE: a false IF goes to the code behind it, on the same line or on the next.
Else(c) ==
  /\ c.k = "else"
  /\ Emit(<<Op("else", c, FALSE)>>)
  /\ blocks' = Append(Pop, Block("else", 0, Here, 0, FALSE))
  /\ LET start == IF Len(line) > 1 THEN Here ELSE <<nline + 1, 0>>
     IN  jump' = Slot(PatchTo(jump, Top.slot, start), Here)
  /\ autoEndif' = (autoEndif \/ Len(line) > 1)
  /\ UNCHANGED <<sub, mode>>

\* ELSE IF: the ELSE dangles below the new IF until that one is ended.
ElseIf(c) ==
  /\ c.k = "elseif"
  /\ Emit(<<Op("else", c, TRUE), Op("if", c, TRUE)>>)
  /\ blocks' = Pop \o <<Block("else", 0, Here, 0, TRUE),
                        Block("if", 0, Next1(Here), 0, FALSE)>>
  /\ jump' = Slot(Slot(PatchTo(jump, Top.slot, Here), Here), Next1(Here))
  /\ UNCHANGED <<sub, autoEndif, mode>>

EndIfCmd(c) ==
  /\ c.k = "endif"
  /\ Emit(<<Op("endif", c, FALSE)>>)
  /\ EndIf(nline + 1)
  /\ UNCHANGED <<sub, autoEndif, mode>>

\* FOR is an assignment and the test its NEXT comes back to.
For(c) ==
  /\ c.k = "for"
  /\ Emit(<<Op("assign", c, FALSE), Op("for", c, FALSE)>>)
  /\ Push(Block("for", Len(code[nline]) + 1, Next1(Here), c.v, FALSE))
  /\ jump' = Slot(jump, Next1(Here))
  /\ UNCHANGED <<sub, autoEndif, mode>>

Loop(c) ==
  /\ c.k \in {"while", "until"}
  /\ Emit(<<Op(c.k, c, FALSE)>>)
  /\ Push(Block(c.k, 0, Here, 0, FALSE))
  /\ jump' = Slot(jump, Here)
  /\ UNCHANGED <<sub, autoEndif, mode>>

\* Mutant: the offset counts the end-offset word away.
NextOffByOne(c) ==
  /\ c.k \in {"next", "nextv"}
  /\ Emit(<<Op("next", c, FALSE)>>)
  /\ jump' = PatchTo(Slot(Patch(jump, {Top.slot}, nline), Here),
                     Here, <<Top.first, Top.off1 - 1>>)
  /\ blocks' = Pop
  /\ UNCHANGED <<sub, autoEndif, mode>>

Next_(c) ==
  /\ c.k \in {"next", "nextv"}
  /\ Emit(<<Op("next", c, FALSE)>>)
  /\ jump' = PatchTo(Slot(Patch(jump, {Top.slot}, nline), Here),
                     Here, <<Top.first, Top.off1>>)
  /\ blocks' = Pop
  /\ UNCHANGED <<sub, autoEndif, mode>>

\* RETURN hangs on the nearest SUB of the stack, which need not be its top.
Return(c) ==
  /\ c.k = "return"
  /\ Emit(<<Op("return", c, FALSE)>>)
  /\ jump' = Slot(jump, Here)
  /\ blocks' = [i \in DOMAIN blocks |->
                  IF blocks[i].type = "sub"
                  THEN [blocks[i] EXCEPT !.deps = @ \cup {Here}] ELSE blocks[i]]
  /\ UNCHANGED <<sub, autoEndif, mode>>

End(c) ==
  /\ c.k \in {"end", "endsub"}
  /\ Emit(<<Op(c.k, c, FALSE)>>)
  /\ jump' = Patch(jump, Top.deps, nline)
  /\ sub' = IF c.k = "endsub" THEN [start |-> Top.first, end |-> nline] ELSE sub
  /\ blocks' = Pop
  /\ UNCHANGED <<autoEndif, mode>>

Compile(c) ==
  /\ ~Refused(c)
  /\ \/ Plain(c) \/ Begin(c) \/ If(c) \/ Else(c) \/ ElseIf(c) \/ EndIfCmd(c)
     \/ For(c) \/ Loop(c) \/ Next_(c) \/ Return(c) \/ End(c)
  /\ Accept(c)

Command ==
  /\ line # <<>>
  /\ Refuse(Head(line)) \/ Compile(Head(line))

-----------------------------------------------------------------------------
(* The end of the source: checkmode, then the decision to run or to abort. *)

\* Mutant: no look at the stack of blocks.
FinishWithOpenBlocks ==
  /\ phase = "parse" /\ line = <<>>
  /\ errors' = (errors \/ mode # Normal)
  /\ phase' = IF errors' THEN "failed" ELSE "run"
  /\ UNCHANGED <<source, line, nbcmd, single, blocks, code, jump, sub, autoEndif,
                 mode, passes>>

\* checkmode throws on a text block before it gets to the line that would set
\* the mode back.
Finish ==
  /\ phase = "parse" /\ line = <<>>
  /\ errors' = (errors \/ mode # Normal \/ blocks # <<>>)
  /\ phase' = IF errors' THEN "failed" ELSE "run"
  /\ UNCHANGED <<source, line, nbcmd, single, blocks, code, jump, sub, autoEndif,
                 mode, passes>>

Init ==
  /\ source \in Sources
  /\ phase = "parse" /\ line = <<>> /\ nbcmd = 0 /\ single = FALSE
  /\ blocks = <<>> /\ code = <<>> /\ jump = [p \in {} |-> Unpatched]
  /\ sub = NoSub /\ autoEndif = FALSE /\ errors = FALSE
  /\ mode = Normal /\ passes = 1

\* DrawIt is called again, with a new parser: for the next file of the command
\* line, for the next pass over TeX objects, for the next render of QGLE.
Again ==
  /\ phase \in {"run", "failed", "done"}
  /\ source' \in {lines \in Sources : passes < MaxPasses[lines]}
  /\ phase' = "parse" /\ line' = <<>> /\ nbcmd' = 0 /\ single' = FALSE
  /\ blocks' = <<>> /\ code' = <<>> /\ jump' = [p \in {} |-> Unpatched]
  /\ sub' = NoSub /\ autoEndif' = FALSE /\ errors' = FALSE
  /\ passes' = passes + 1
  /\ UNCHANGED mode

Parse == (\E ln \in source : StartLine(ln)) \/ Command \/ Finish

Next == Parse \/ Again

Spec == Init /\ [][Next]_vars

-----------------------------------------------------------------------------
Opcodes == {"act", "call", "text", "begin", "end", "sub", "endsub", "if", "else",
            "endif", "assign", "for", "while", "until", "next", "return"}
OpcodeRecords == [op : Opcodes, v : Nat, n : Nat, f : BOOLEAN, d : BOOLEAN]
PlaceType == Nat \X Nat
BlockRecords ==
  [type : BlockTypes, first : Nat, off1 : Nat, slot : PlaceType, var : Nat,
   dangling : BOOLEAN, deps : SUBSET PlaceType]

\* The variables hold what GLEParser, GLESourceBlock and the pcode hold.
TypeOK ==
  /\ source \in Sources
  /\ phase \in {"parse", "run", "failed", "done"}
  /\ line \in Seq(Commands) /\ (line # <<>> => code # <<>>)
  /\ nbcmd \in Nat /\ single \in BOOLEAN
  /\ blocks \in Seq(BlockRecords)
  /\ code \in Seq(Seq(OpcodeRecords))
  /\ jump \in [DOMAIN jump -> PlaceType]
  /\ sub \in [start : Nat, end : Nat]
  /\ autoEndif \in BOOLEAN /\ mode \in {Normal, Text} /\ errors \in BOOLEAN
  /\ passes \in 1 .. MaxPasses[source]

\* A program that is run has no jump left unpatched: setInt has been called for
\* every addInt(0) of a block command, whatever blocks, one-line IFs and ELSE
\* IFs surround it.
AllPatched == phase = "run" => \A p \in DOMAIN jump : jump[p][1] # 0
=============================================================================
