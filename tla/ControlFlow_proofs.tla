-------------------------- MODULE ControlFlow_proofs --------------------------
(***************************************************************************)
(* For every set of sources and every length of them: the types of Pass;   *)
(* that a program which is run has all its jumps patched; that its blocks  *)
(* are nested, and that its jumps lead where the nesting says.             *)
(* For those that are Tame, in the second half: following the jumps        *)
(* executes the program as its blocks are nested, that is, ControlFlow     *)
(* implements Structured.                                                  *)
(***************************************************************************)
EXTENDS ControlFlow, TLAPS, FiniteSetTheorems

(***************************************************************************)
(* The three ways a jump is written keep the type of the targets, and what *)
(* they do to the set of jumps not yet patched.                            *)
(***************************************************************************)
Targets(f) == f \in [DOMAIN f -> PlaceType]
Zero(f) == {q \in DOMAIN f : f[q][1] = 0}

\* addInt(0) adds one unpatched jump.
LEMMA SlotFacts ==
  ASSUME NEW f, NEW p, Targets(f)
  PROVE  Targets(Slot(f, p)) /\ Zero(Slot(f, p)) \subseteq Zero(f) \cup {p}
BY DEF Targets, Zero, Slot, Unpatched, PlaceType

\* setInt of the line of some jumps leaves only the others unpatched.
LEMMA PatchFacts ==
  ASSUME NEW f, NEW ps, NEW l \in Nat \ {0}, Targets(f)
  PROVE  Targets(Patch(f, ps, l)) /\ Zero(Patch(f, ps, l)) \subseteq Zero(f) \ ps
<1>1. DOMAIN Patch(f, ps, l) = DOMAIN f
  BY DEF Patch
<1>2. \A q \in DOMAIN f : f[q][2] \in Nat /\ f[q] \in PlaceType
  BY DEF Targets, PlaceType
<1>3. \A q \in DOMAIN f : Patch(f, ps, l)[q] = IF q \in ps THEN <<l, f[q][2]>> ELSE f[q]
  BY DEF Patch
<1>4. ASSUME NEW q \in DOMAIN f
      PROVE  Patch(f, ps, l)[q] \in PlaceType /\ (q \in ps => Patch(f, ps, l)[q][1] = l)
  <2>1. CASE q \in ps
    <3>1. Patch(f, ps, l)[q] = <<l, f[q][2]>>
      BY <1>3, <2>1
    <3>2. <<l, f[q][2]>> \in PlaceType
      BY <1>2 DEF PlaceType
    <3> QED
      BY <3>1, <3>2
  <2>2. CASE q \notin ps
    BY <1>2, <1>3, <2>2
  <2> QED
    BY <2>1, <2>2
<1>5. Targets(Patch(f, ps, l))
  BY <1>1, <1>4 DEF Targets, Patch
<1>6. ASSUME NEW q \in Zero(Patch(f, ps, l)) PROVE q \in Zero(f) \ ps
  <2>1. q \in DOMAIN f /\ Patch(f, ps, l)[q][1] = 0
    BY <1>1 DEF Zero
  <2>2. CASE q \in ps
    BY <1>4, <2>1, <2>2
  <2>3. CASE q \notin ps
    BY <1>3, <2>1, <2>3 DEF Zero
  <2> QED
    BY <2>2, <2>3
<1> QED
  BY <1>5, <1>6

\* setInt of both words of one jump.
LEMMA PatchToFacts ==
  ASSUME NEW f, NEW p, NEW t \in PlaceType, t[1] # 0, Targets(f)
  PROVE  Targets(PatchTo(f, p, t)) /\ Zero(PatchTo(f, p, t)) \subseteq Zero(f) \ {p}
BY DEF Targets, Zero, PatchTo

(***************************************************************************)
(* The jumps a block on the stack is answerable for, and those of a stack. *)
(***************************************************************************)
OwnOf(b) == (IF b.type \in Slotted THEN {b.slot} ELSE {}) \cup b.deps
Own(bs) == UNION {OwnOf(bs[i]) : i \in 1 .. Len(bs)}

\* Pushing a block adds its jumps.
LEMMA OwnAppend ==
  ASSUME NEW T, NEW bs \in Seq(T), NEW b \in T
  PROVE  Own(Append(bs, b)) = Own(bs) \cup OwnOf(b)
<1>1. /\ Len(Append(bs, b)) = Len(bs) + 1 /\ Append(bs, b)[Len(bs) + 1] = b
      /\ \A i \in 1 .. Len(bs) : Append(bs, b)[i] = bs[i] /\ Len(bs) \in Nat
  OBVIOUS
<1>2. \A p : p \in Own(Append(bs, b)) <=> \E i \in 1 .. Len(bs) + 1 : p \in OwnOf(Append(bs, b)[i])
  BY <1>1 DEF Own
<1>3. \A p : p \in Own(bs) <=> \E i \in 1 .. Len(bs) : p \in OwnOf(bs[i])
  BY DEF Own
<1> HIDE DEF OwnOf
<1>4. Len(bs) \in Nat
  OBVIOUS
<1> QED
  BY <1>1, <1>2, <1>3, <1>4

\* Popping down to n blocks gives up the jumps of those above, and no others.
LEMMA OwnSubSeq ==
  ASSUME NEW T, NEW bs \in Seq(T), NEW n \in 0 .. Len(bs), NEW p \in Own(bs),
         \A i \in n + 1 .. Len(bs) : p \notin OwnOf(bs[i])
  PROVE  p \in Own(SubSeq(bs, 1, n))
<1>1. /\ Len(SubSeq(bs, 1, n)) = n
      /\ \A i \in 1 .. n : SubSeq(bs, 1, n)[i] = bs[i]
  OBVIOUS
<1>2. PICK i \in 1 .. Len(bs) : p \in OwnOf(bs[i])
  BY DEF Own
<1>3. i \in 1 .. n
  BY <1>2
<1> QED
  BY <1>1, <1>2, <1>3 DEF Own

-----------------------------------------------------------------------------
(* Types.                                                                  *)

\* A place in the line being compiled, and the blocks made of such places.
LEMMA HereType == ASSUME TypeOK, code # <<>> PROVE
  /\ nline \in Nat \ {0} /\ Here \in PlaceType /\ Next1(Here) \in PlaceType
  /\ Here[1] # 0 /\ Next1(Here)[1] # 0
<1>1. nline \in Nat \ {0} /\ code[nline] \in Seq(OpcodeRecords)
  BY DEF TypeOK, nline
<1> QED
  BY <1>1 DEF Here, Next1, PlaceType

LEMMA BlockType ==
  ASSUME TypeOK, code # <<>>, NEW type \in BlockTypes, NEW off1 \in Nat,
         NEW slot \in PlaceType, NEW var \in Nat, NEW d \in BOOLEAN
  PROVE  Block(type, off1, slot, var, d) \in BlockRecords
BY HereType DEF Block, BlockRecords

\* The block on top, and the stack without it.
LEMMA TopType ==
  ASSUME TypeOK, blocks # <<>>
  PROVE  /\ Top \in BlockRecords /\ Pop \in Seq(BlockRecords)
         /\ Len(blocks) \in Nat \ {0}
<1>1. blocks \in Seq(BlockRecords)
  BY DEF TypeOK
<1>2. Len(blocks) \in Nat \ {0} /\ blocks[Len(blocks)] \in BlockRecords
  BY <1>1
<1>3. SubSeq(blocks, 1, Len(blocks) - 1) \in Seq(BlockRecords)
  BY <1>1, <1>2
<1> QED
  BY <1>2, <1>3 DEF Top, Pop

\* One more block, or two, on a stack.
LEMMA PushType ==
  ASSUME NEW bs \in Seq(BlockRecords), NEW b \in BlockRecords, NEW d \in BlockRecords
  PROVE  Append(bs, b) \in Seq(BlockRecords) /\ bs \o <<b, d>> \in Seq(BlockRecords)
OBVIOUS

LEMMA PairType ==
  ASSUME NEW o \in OpcodeRecords, NEW p \in OpcodeRecords
  PROVE  <<o, p>> \in Seq(OpcodeRecords)
OBVIOUS

\* Opcodes of a command go to the end of the current line.
LEMMA EmitType ==
  ASSUME TypeOK, code # <<>>, NEW ops \in Seq(OpcodeRecords), Emit(ops)
  PROVE  code' \in Seq(Seq(OpcodeRecords)) /\ code' # <<>>
<1>1. code[nline] \o ops \in Seq(OpcodeRecords)
  BY HereType DEF TypeOK, nline
<1>2. nline \in 1 .. Len(code)
  BY HereType DEF nline
<1> DEFINE new == code[nline] \o ops
<1>3. code' = [code EXCEPT ![nline] = new]
  BY DEF Emit
<1> HIDE DEF new
<1>4. new \in Seq(OpcodeRecords)
  BY <1>1 DEF new
<1>5. code' \in Seq(Seq(OpcodeRecords)) /\ Len(code') = Len(code)
  BY <1>2, <1>3, <1>4 DEF TypeOK
<1> QED
  BY <1>2, <1>5

LEMMA OpType ==
  ASSUME NEW c \in Commands, NEW o \in Opcodes, NEW d \in BOOLEAN
  PROVE  Op(o, c, d) \in OpcodeRecords /\ <<Op(o, c, d)>> \in Seq(OpcodeRecords)
<1>1. Op(o, c, d) \in OpcodeRecords
  BY DEF Op, OpcodeRecords, Commands
<1> QED
  BY <1>1

\* What do_endif does to stack and jumps.
LEMMA EndIfType ==
  ASSUME TypeOK, NEW l \in Nat \ {0}, EndIf(l)
  PROVE  blocks' \in Seq(BlockRecords) /\ Targets(jump')
<1>1. PICK n \in 0 .. Len(blocks) :
        /\ Kept(n)
        /\ blocks' = SubSeq(blocks, 1, n)
        /\ jump' = Patch(jump, {blocks[i].slot : i \in n + 1 .. Len(blocks)}, l)
  BY DEF EndIf
<1>2. blocks' \in Seq(BlockRecords)
  BY <1>1 DEF TypeOK
<1>3. Targets(jump)
  BY DEF TypeOK, Targets
<1> QED
  BY <1>1, <1>2, <1>3, PatchFacts

\* What the commands have in common: the state a command leaves is typed when its
\* blocks, opcodes, jumps and subroutine are.
LEMMA CompileType ==
  ASSUME TypeOK, line # <<>>, Compile(Head(line))
  PROVE  TypeOK'
<1> DEFINE c == Head(line)
<1>1. c \in Commands /\ Tail(line) \in Seq(Commands) /\ code # <<>>
  BY DEF TypeOK
<1> HIDE DEF c
<1>2. Accept(c) /\ ~Refused(c)
  BY DEF Compile, c
<1>3. /\ line' \in Seq(Commands) /\ nbcmd' \in Nat /\ single' \in BOOLEAN
      /\ errors' \in BOOLEAN /\ source' = source /\ phase' = phase /\ passes' = passes
  <2>1. nbcmd \in Nat /\ single \in BOOLEAN /\ errors \in BOOLEAN
    BY DEF TypeOK
  <2>2. <<>> \in Seq(Commands)
    OBVIOUS
  <2>3. line' \in Seq(Commands) /\ errors' \in BOOLEAN
    BY <1>1, <1>2, <2>1, <2>2 DEF Accept
  <2>4. nbcmd' \in Nat
    BY <1>2, <2>1 DEF Accept
  <2>5. single' \in BOOLEAN
    BY <1>2, <2>1 DEF Accept
  <2> QED
    BY <1>2, <2>3, <2>4, <2>5 DEF Accept
<1>4. Targets(jump)
  BY DEF TypeOK, Targets
<1>5. /\ Here \in PlaceType /\ Next1(Here) \in PlaceType /\ nline \in Nat \ {0}
      /\ Here[1] # 0
  BY <1>1, HereType
<1>50. /\ blocks \in Seq(BlockRecords) /\ code \in Seq(Seq(OpcodeRecords))
       /\ sub \in [start : Nat, end : Nat] /\ autoEndif \in BOOLEAN
       /\ mode \in {Normal, Text}
  BY DEF TypeOK
<1> SUFFICES /\ blocks' \in Seq(BlockRecords)
             /\ code' \in Seq(Seq(OpcodeRecords)) /\ code' # <<>>
             /\ Targets(jump')
             /\ sub' \in [start : Nat, end : Nat]
             /\ autoEndif' \in BOOLEAN /\ mode' \in {Normal, Text}
  BY <1>3 DEF TypeOK, Targets
<1>6. CASE Plain(c)
  <2>1. <<Op(c.k, c, FALSE)>> \in Seq(OpcodeRecords)
    <3>1. c.k \in Opcodes
      BY <1>6 DEF Plain, Opcodes
    <3> QED
      BY <1>1, <3>1, OpType
  <2> QED
    BY <1>1, <1>4, <1>50, <1>6, <2>1, EmitType DEF Plain
<1>7. CASE Begin(c)
  <2>1. <<Op(c.k, c, FALSE)>> \in Seq(OpcodeRecords)
    <3>1. c.k \in Opcodes
      BY <1>7 DEF Begin, Opcodes
    <3> QED
      BY <1>1, <3>1, OpType
  <2>2. Block(c.k, 0, Here, 0, FALSE) \in BlockRecords
    BY <1>1, <1>5, <1>7, BlockType DEF Begin, BlockTypes
  <2> QED
    BY <1>1, <1>4, <1>50, <1>7, <2>1, <2>2, EmitType, PushType DEF Begin, Push
<1>8. CASE If(c)
  <2>1. <<Op("if", c, FALSE)>> \in Seq(OpcodeRecords)
    BY <1>1, OpType DEF Opcodes
  <2>2. Block("if", 0, Here, 0, FALSE) \in BlockRecords
    BY <1>1, <1>5, BlockType DEF BlockTypes, Slotted
  <2>3. Targets(jump')
    BY <1>4, <1>8, SlotFacts DEF If
  <2>4. blocks' \in Seq(BlockRecords) /\ sub' = sub /\ mode' = mode /\ autoEndif' \in BOOLEAN
    BY <1>8, <1>50, <2>2, PushType DEF If, Push
  <2> QED
    BY <1>1, <1>8, <1>50, <2>1, <2>3, <2>4, EmitType DEF If
<1>9. CASE Else(c)
  <2>0. blocks # <<>>
    BY <1>2, <1>9 DEF Refused, TopIs, Else
  <2>1. <<Op("else", c, FALSE)>> \in Seq(OpcodeRecords)
    BY <1>1, OpType DEF Opcodes
  <2>2. Block("else", 0, Here, 0, FALSE) \in BlockRecords
    BY <1>1, <1>5, BlockType DEF BlockTypes, Slotted
  <2> DEFINE start == IF Len(line) > 1 THEN Here ELSE <<nline + 1, 0>>
  <2>3. start \in PlaceType /\ start[1] # 0
    BY <1>5 DEF PlaceType
  <2>4. jump' = Slot(PatchTo(jump, Top.slot, start), Here)
    BY <1>9 DEF Else
  <2> HIDE DEF start
  <2>5. Targets(jump')
    BY <1>4, <2>3, <2>4, PatchToFacts, SlotFacts
  <2>6. blocks' \in Seq(BlockRecords) /\ sub' = sub /\ mode' = mode /\ autoEndif' \in BOOLEAN
    BY <1>9, <1>50, <2>0, <2>2, TopType, PushType DEF Else
  <2> QED
    BY <1>1, <1>9, <1>50, <2>1, <2>5, <2>6, EmitType DEF Else
<1>10. CASE ElseIf(c)
  <2>0. blocks # <<>>
    BY <1>2, <1>10 DEF Refused, TopIs, ElseIf
  <2>1. <<Op("else", c, TRUE), Op("if", c, TRUE)>> \in Seq(OpcodeRecords)
    <3>1. Op("else", c, TRUE) \in OpcodeRecords /\ Op("if", c, TRUE) \in OpcodeRecords
      BY <1>1, OpType DEF Opcodes
    <3> QED
      BY <3>1, PairType
  <2>2. /\ Block("else", 0, Here, 0, TRUE) \in BlockRecords
        /\ Block("if", 0, Next1(Here), 0, FALSE) \in BlockRecords
    BY <1>1, <1>5, BlockType DEF BlockTypes, Slotted
  <2>3. Targets(PatchTo(jump, Top.slot, Here))
    BY <1>4, <1>5, PatchToFacts
  <2>4. Targets(jump')
    BY <1>10, <2>3, SlotFacts DEF ElseIf
  <2>5. blocks' \in Seq(BlockRecords)
    BY <1>10, <2>0, <2>2, TopType, PushType DEF ElseIf
  <2> QED
    BY <1>1, <1>10, <1>50, <2>1, <2>4, <2>5, EmitType DEF ElseIf
<1>11. CASE EndIfCmd(c)
  <2>1. <<Op("endif", c, FALSE)>> \in Seq(OpcodeRecords)
    BY <1>1, OpType DEF Opcodes
  <2>2. blocks' \in Seq(BlockRecords) /\ Targets(jump')
    BY <1>5, <1>11, EndIfType DEF EndIfCmd
  <2> QED
    BY <1>1, <1>11, <1>50, <2>1, <2>2, EmitType DEF EndIfCmd
<1>12. CASE For(c)
  <2>1. <<Op("assign", c, FALSE), Op("for", c, FALSE)>> \in Seq(OpcodeRecords)
    <3>1. Op("assign", c, FALSE) \in OpcodeRecords /\ Op("for", c, FALSE) \in OpcodeRecords
      BY <1>1, OpType DEF Opcodes
    <3> QED
      BY <3>1, PairType
  <2>2. Len(code[nline]) + 1 \in Nat /\ c.v \in Nat
    BY <1>1, <1>5 DEF Here, PlaceType, Commands
  <2>3. Block("for", Len(code[nline]) + 1, Next1(Here), c.v, FALSE) \in BlockRecords
    BY <1>1, <1>5, <2>2, BlockType DEF BlockTypes, Slotted
  <2>4. Targets(jump')
    BY <1>4, <1>12, SlotFacts DEF For
  <2> QED
    BY <1>1, <1>12, <1>50, <2>1, <2>3, <2>4, EmitType, PushType DEF For, Push
<1>13. CASE Loop(c)
  <2>1. <<Op(c.k, c, FALSE)>> \in Seq(OpcodeRecords)
    <3>1. c.k \in Opcodes
      BY <1>13 DEF Loop, Opcodes
    <3> QED
      BY <1>1, <3>1, OpType
  <2>2. Block(c.k, 0, Here, 0, FALSE) \in BlockRecords
    BY <1>1, <1>5, <1>13, BlockType DEF Loop, BlockTypes, Slotted
  <2>3. Targets(jump')
    BY <1>4, <1>13, SlotFacts DEF Loop
  <2> QED
    BY <1>1, <1>13, <1>50, <2>1, <2>2, <2>3, EmitType, PushType DEF Loop, Push
<1>14. CASE Next_(c)
  <2>0. blocks # <<>>
    BY <1>2, <1>14 DEF Refused, TopIs, Next_
  <2>1. <<Op("next", c, FALSE)>> \in Seq(OpcodeRecords)
    BY <1>1, OpType DEF Opcodes
  <2>2. Top \in BlockRecords /\ Pop \in Seq(BlockRecords)
    BY <2>0, TopType
  <2> DEFINE patched == Patch(jump, {Top.slot}, nline)
             t == <<Top.first, Top.off1>>
  <2>3. Targets(Slot(patched, Here))
    BY <1>4, <1>5, PatchFacts, SlotFacts
  <2>4. t \in PlaceType
    BY <2>2 DEF BlockRecords, PlaceType
  <2>5. jump' = PatchTo(Slot(patched, Here), Here, t)
    BY <1>14 DEF Next_
  <2> HIDE DEF patched, t
  <2>6. Targets(jump')
    BY <2>3, <2>4, <2>5 DEF Targets, PatchTo
  <2> QED
    BY <1>1, <1>14, <1>50, <2>1, <2>2, <2>6, EmitType DEF Next_
<1>15. CASE Return(c)
  <2>1. <<Op("return", c, FALSE)>> \in Seq(OpcodeRecords)
    BY <1>1, OpType DEF Opcodes
  <2>2. Targets(jump')
    BY <1>4, <1>15, SlotFacts DEF Return
  <2>3. blocks' \in Seq(BlockRecords)
    <3>1. ASSUME NEW i \in DOMAIN blocks
          PROVE  [blocks[i] EXCEPT !.deps = @ \cup {Here}] \in BlockRecords
      <4>1. blocks[i] \in BlockRecords
        BY <1>50
      <4> QED
        BY <1>5, <4>1 DEF BlockRecords
    <3>2. DOMAIN blocks = 1 .. Len(blocks) /\ Len(blocks) \in Nat
      BY <1>50
    <3>3. \A i \in DOMAIN blocks : blocks'[i] \in BlockRecords
      BY <1>50, <1>15, <3>1 DEF Return
    <3>4. blocks' = [i \in 1 .. Len(blocks) |-> blocks'[i]]
      BY <1>15, <3>2 DEF Return
    <3> QED
      BY <3>2, <3>3, <3>4
  <2> QED
    BY <1>1, <1>15, <1>50, <2>1, <2>2, <2>3, EmitType DEF Return
<1>16. CASE End(c)
  <2>0. blocks # <<>>
    BY <1>2, <1>16 DEF Refused, TopIs, End
  <2>1. <<Op(c.k, c, FALSE)>> \in Seq(OpcodeRecords)
    <3>1. c.k \in Opcodes
      BY <1>16 DEF End, Opcodes
    <3> QED
      BY <1>1, <3>1, OpType
  <2>2. Top \in BlockRecords /\ Pop \in Seq(BlockRecords)
    BY <2>0, TopType
  <2>3. Targets(jump')
    BY <1>4, <1>5, <1>16, PatchFacts DEF End
  <2>4. sub' \in [start : Nat, end : Nat]
    BY <1>5, <1>16, <1>50, <2>2 DEF End, BlockRecords
  <2> QED
    BY <1>1, <1>16, <1>50, <2>1, <2>2, <2>3, <2>4, EmitType DEF End
<1> QED
  BY <1>6, <1>7, <1>8, <1>9, <1>10, <1>11, <1>12, <1>13, <1>14, <1>15, <1>16
     DEF Compile, c

\* A line of the source is closed off by what it starts, or kept as text.
LEMMA StartLineType ==
  ASSUME TypeOK, NEW ln \in source, StartLine(ln)
  PROVE  TypeOK'
<1>1. ln \in Seq(Commands)
  BY SourcesAssumption DEF TypeOK
<1>2. nline + 1 \in Nat \ {0} /\ code' \in Seq(Seq(OpcodeRecords)) /\ code' # <<>>
  <2>1. code \in Seq(Seq(OpcodeRecords)) /\ <<>> \in Seq(OpcodeRecords)
    BY DEF TypeOK
  <2>2. code' = Append(code, <<>>)
    BY DEF StartLine
  <2> QED
    BY <2>1, <2>2 DEF nline
<1>3. /\ source' = source /\ phase' = phase /\ sub' = sub /\ errors' = errors
      /\ passes' = passes /\ nbcmd' = 0 /\ single' = FALSE
  BY DEF StartLine
<1>4. /\ blocks \in Seq(BlockRecords) /\ Targets(jump) /\ autoEndif \in BOOLEAN
      /\ mode \in {Normal, Text}
  BY DEF TypeOK, Targets
<1>5. /\ blocks' \in Seq(BlockRecords) /\ Targets(jump') /\ autoEndif' \in BOOLEAN
      /\ mode' \in {Normal, Text} /\ line' \in Seq(Commands)
  <2>1. CASE TextLine(ln)
    <3>1. <<>> \in Seq(Commands)
      OBVIOUS
    <3> QED
      BY <1>4, <2>1, <3>1 DEF TextLine, Targets
  <2>2. CASE CommandLine(ln)
    <3>1. CASE EndIf(nline + 1)
      BY <1>1, <1>2, <1>4, <2>2, <3>1, EndIfType DEF CommandLine
    <3>2. CASE UNCHANGED <<blocks, jump>>
      BY <1>1, <1>4, <2>2, <3>2 DEF CommandLine, Targets
    <3> QED
      BY <2>2, <3>1, <3>2 DEF CommandLine
  <2> QED
    BY <2>1, <2>2 DEF StartLine
<1> QED
  BY <1>2, <1>3, <1>5 DEF TypeOK, Targets

LEMMA TypeStep == ASSUME TypeOK, [Next]_vars PROVE TypeOK'
<1>1. CASE \E ln \in source : StartLine(ln)
  BY <1>1, StartLineType
<1>2. CASE Command
  <2>1. CASE Refuse(Head(line))
    <3>1. <<>> \in Seq(Commands)
      OBVIOUS
    <3> QED
      BY <2>1, <3>1 DEF TypeOK, Refuse
  <2>2. CASE line # <<>> /\ Compile(Head(line))
    BY <2>2, CompileType
  <2> QED
    BY <1>2, <2>1, <2>2 DEF Command
<1>3. CASE Finish
  BY <1>3 DEF TypeOK, Finish
<1>4. CASE Again
  <2>1. /\ <<>> \in Seq(Commands) /\ <<>> \in Seq(BlockRecords)
        /\ <<>> \in Seq(Seq(OpcodeRecords))
    OBVIOUS
  <2>2. passes' \in 1 .. MaxPasses[source']
    BY <1>4, BoundsAssumption DEF TypeOK, Again
  <2>3. jump' \in [DOMAIN jump' -> PlaceType]
    BY <1>4 DEF Again
  <2>4. sub' \in [start : Nat, end : Nat]
    BY <1>4 DEF Again, NoSub
  <2> QED
    BY <1>4, <2>1, <2>2, <2>3, <2>4 DEF TypeOK, Again
<1>5. CASE UNCHANGED vars
  BY <1>5 DEF TypeOK, vars
<1> QED
  BY <1>1, <1>2, <1>3, <1>4, <1>5 DEF Next, Parse

LEMMA InitType == Init => TypeOK
<1> SUFFICES ASSUME Init PROVE TypeOK
  OBVIOUS
<1>1. /\ <<>> \in Seq(Commands) /\ <<>> \in Seq(BlockRecords)
      /\ <<>> \in Seq(Seq(OpcodeRecords))
  OBVIOUS
<1>2. jump \in [DOMAIN jump -> PlaceType] /\ sub \in [start : Nat, end : Nat]
  BY DEF Init, NoSub
<1>3. passes \in 1 .. MaxPasses[source]
  BY BoundsAssumption DEF Init
<1> QED
  BY <1>1, <1>2, <1>3 DEF Init, TypeOK

\* Whatever the source, GLEParser compiles to well-formed opcodes, blocks and
\* targets: the stack is never popped when it is empty.
THEOREM TypeCorrect == Spec => []TypeOK
<1>1. Init => TypeOK
  BY InitType
<1>2. TypeOK /\ [Next]_vars => TypeOK'
  BY TypeStep
<1> QED
  BY <1>1, <1>2, PTL DEF Spec

-----------------------------------------------------------------------------
(* The invariant behind AllPatched: a jump that is not patched belongs to  *)
(* an open block, so that none is left when the stack is empty.  That only *)
(* ELSE dangles and only SUB has dependent jumps is what lets a block go   *)
(* without patching more than it does.                                     *)

Shaped(b) ==
  /\ b.first # 0
  /\ b.dangling => b.type = "else"
  /\ b.type # "sub" => b.deps = {}

Owned ==
  /\ phase = "run" => blocks = <<>>
  /\ line # <<>> => phase = "parse"
  /\ \A i \in 1 .. Len(blocks) : Shaped(blocks[i])
  /\ Zero(jump) \subseteq Own(blocks)

\* A new block has the shape, and answers for its slot only.
LEMMA BlockShape ==
  ASSUME TypeOK, code # <<>>, NEW type \in BlockTypes, NEW off1 \in Nat,
         NEW slot \in PlaceType, NEW var \in Nat, NEW d \in BOOLEAN, d => type = "else"
  PROVE  /\ Block(type, off1, slot, var, d) \in BlockRecords
         /\ Shaped(Block(type, off1, slot, var, d))
         /\ type \in Slotted => OwnOf(Block(type, off1, slot, var, d)) = {slot}
<1>1. Block(type, off1, slot, var, d) \in BlockRecords
  BY BlockType
<1>2. nline # 0
  BY HereType
<1> QED
  BY <1>1, <1>2 DEF Shaped, OwnOf, Block

LEMMA SlotBlock ==
  ASSUME TypeOK, code # <<>>, NEW type \in Slotted, NEW off1 \in Nat,
         NEW slot \in PlaceType, NEW var \in Nat
  PROVE  /\ Block(type, off1, slot, var, FALSE) \in BlockRecords
         /\ Shaped(Block(type, off1, slot, var, FALSE))
         /\ OwnOf(Block(type, off1, slot, var, FALSE)) = {slot}
<1>1. type \in BlockTypes
  BY DEF BlockTypes
<1>2. Block(type, off1, slot, var, FALSE) \in BlockRecords
  BY <1>1, BlockType
<1>3. nline # 0
  BY HereType
<1> QED
  BY <1>2, <1>3 DEF Shaped, OwnOf, Block

\* Pushing keeps the shape of the stack.
LEMMA ShapeAppend ==
  ASSUME NEW bs \in Seq(BlockRecords), NEW b \in BlockRecords, Shaped(b),
         \A i \in 1 .. Len(bs) : Shaped(bs[i])
  PROVE  \A i \in 1 .. Len(Append(bs, b)) : Shaped(Append(bs, b)[i])
<1>1. /\ Len(Append(bs, b)) = Len(bs) + 1 /\ Append(bs, b)[Len(bs) + 1] = b
      /\ \A i \in 1 .. Len(bs) : Append(bs, b)[i] = bs[i]
  OBVIOUS
<1>2. Len(bs) \in Nat
  OBVIOUS
<1> HIDE DEF Shaped
<1> QED
  BY <1>1, <1>2

\* Popping the block on top gives up its own jumps, and no others.
LEMMA PopOwn ==
  ASSUME TypeOK, Owned, blocks # <<>>
  PROVE  /\ \A i \in 1 .. Len(Pop) : Shaped(Pop[i])
         /\ Zero(jump) \ OwnOf(Top) \subseteq Own(Pop)
         /\ Shaped(Top)
<1>1. blocks \in Seq(BlockRecords) /\ Len(blocks) \in Nat \ {0}
  BY TopType DEF TypeOK
<1> DEFINE n == Len(blocks) - 1
<1>2. n \in 0 .. Len(blocks) /\ Pop = SubSeq(blocks, 1, n) /\ n + 1 = Len(blocks)
  BY <1>1 DEF Pop
<1> HIDE DEF n
<1>3. Len(Pop) = n /\ \A i \in 1 .. n : Pop[i] = blocks[i]
  BY <1>1, <1>2
<1>4. \A i \in 1 .. Len(blocks) : Shaped(blocks[i])
  BY DEF Owned
<1>5. ASSUME NEW p \in Zero(jump) \ OwnOf(Top) PROVE p \in Own(Pop)
  <2>1. p \in Own(blocks)
    BY <1>5 DEF Owned
  <2>2. \A i \in n + 1 .. Len(blocks) : p \notin OwnOf(blocks[i])
    <3>1. \A i \in n + 1 .. Len(blocks) : i = Len(blocks)
      BY <1>1, <1>2
    <3> QED
      BY <1>5, <3>1 DEF Top
  <2> QED
    BY <1>1, <1>2, <2>1, <2>2, OwnSubSeq
<1>6. Shaped(Top)
  BY <1>1, <1>4 DEF Top
<1>7. \A i \in 1 .. Len(Pop) : i \in 1 .. Len(blocks)
  BY <1>1, <1>2, <1>3
<1> QED
  BY <1>3, <1>4, <1>5, <1>6, <1>7

\* do_endif patches the jumps of all it pops.
LEMMA EndIfOwned ==
  ASSUME TypeOK, Owned, NEW l \in Nat \ {0}, EndIf(l), TopIs({"if", "else"})
  PROVE  /\ \A i \in 1 .. Len(blocks') : Shaped(blocks'[i])
         /\ Zero(jump') \subseteq Own(blocks')
<1>1. PICK n \in 0 .. Len(blocks) :
        /\ Kept(n)
        /\ blocks' = SubSeq(blocks, 1, n)
        /\ jump' = Patch(jump, {blocks[i].slot : i \in n + 1 .. Len(blocks)}, l)
  BY DEF EndIf
<1> DEFINE gone == {blocks[i].slot : i \in n + 1 .. Len(blocks)}
<1>2. blocks \in Seq(BlockRecords) /\ Targets(jump) /\ Len(blocks) \in Nat
  BY DEF TypeOK, Targets
<1>3. Len(blocks') = n /\ \A i \in 1 .. n : blocks'[i] = blocks[i]
  BY <1>1, <1>2
<1>4. \A i \in 1 .. Len(blocks) : Shaped(blocks[i])
  BY DEF Owned
<1>5. \A i \in n + 1 .. Len(blocks) : OwnOf(blocks[i]) = {blocks[i].slot}
  <2> SUFFICES ASSUME NEW i \in n + 1 .. Len(blocks)
               PROVE  OwnOf(blocks[i]) = {blocks[i].slot}
    OBVIOUS
  <2>1. i \in 1 .. Len(blocks)
    BY <1>2
  <2>2. blocks[i].type \in {"if", "else"}
    <3>1. CASE i = Len(blocks)
      BY <3>1 DEF TopIs, Top
    <3>2. CASE i # Len(blocks)
      <4>1. i \in n + 1 .. Len(blocks) - 1
        BY <1>2, <3>2
      <4>2. blocks[i].dangling
        BY <1>1, <4>1 DEF Kept
      <4> QED
        BY <1>4, <2>1, <4>2 DEF Shaped
    <3> QED
      BY <3>1, <3>2
  <2>3. blocks[i].deps = {}
    BY <1>4, <2>1, <2>2 DEF Shaped
  <2> QED
    BY <2>2, <2>3 DEF OwnOf, Slotted
<1>6. Zero(jump') \subseteq Zero(jump) \ gone
  BY <1>1, <1>2, PatchFacts
<1>7. ASSUME NEW p \in Zero(jump') PROVE p \in Own(blocks')
  <2>1. p \in Own(blocks) /\ p \notin gone
    BY <1>6, <1>7 DEF Owned
  <2>2. \A i \in n + 1 .. Len(blocks) : p \notin OwnOf(blocks[i])
    BY <1>5, <2>1
  <2> QED
    BY <1>1, <1>2, <2>1, <2>2, OwnSubSeq
<1>8. \A i \in 1 .. Len(blocks') : i \in 1 .. Len(blocks)
  BY <1>2, <1>3
<1> QED
  BY <1>3, <1>4, <1>7, <1>8

\* A block is pushed on a stack whose jumps are all owned but for its slot.
LEMMA PushOwned ==
  ASSUME NEW bs \in Seq(BlockRecords), NEW b \in BlockRecords, NEW Z,
         \A i \in 1 .. Len(bs) : Shaped(bs[i]), Shaped(b),
         Z \subseteq Own(bs) \cup OwnOf(b)
  PROVE  /\ \A i \in 1 .. Len(Append(bs, b)) : Shaped(Append(bs, b)[i])
         /\ Z \subseteq Own(Append(bs, b))
<1>1. Own(Append(bs, b)) = Own(bs) \cup OwnOf(b)
  BY OwnAppend
<1> QED
  BY <1>1, ShapeAppend

\* A command pushes and pops blocks together with the jumps they own.
LEMMA CompileOwned ==
  ASSUME TypeOK, Owned, line # <<>>, Compile(Head(line))
  PROVE  Owned'
<1> DEFINE c == Head(line)
<1>1. c \in Commands /\ code # <<>>
  BY DEF TypeOK
<1> HIDE DEF c
<1>2. Accept(c) /\ ~Refused(c)
  BY DEF Compile, c
<1>3. phase' = "parse"
  BY <1>2 DEF Accept, Owned
<1>4. Targets(jump) /\ blocks \in Seq(BlockRecords)
  BY DEF TypeOK, Targets
<1>5. /\ Here \in PlaceType /\ Next1(Here) \in PlaceType /\ nline \in Nat \ {0}
      /\ Here[1] # 0
  BY <1>1, HereType
<1>6. (\A i \in 1 .. Len(blocks) : Shaped(blocks[i])) /\ Zero(jump) \subseteq Own(blocks)
  BY DEF Owned
<1> SUFFICES (\A i \in 1 .. Len(blocks') : Shaped(blocks'[i])) /\ Zero(jump') \subseteq Own(blocks')
  BY <1>3 DEF Owned
<1>7. CASE Plain(c)
  BY <1>6, <1>7 DEF Plain
<1>8. CASE Begin(c)
  <2> DEFINE b == Block(c.k, 0, Here, 0, FALSE)
  <2>1. b \in BlockRecords /\ Shaped(b)
    BY <1>1, <1>5, <1>8, BlockShape DEF Begin, BlockTypes
  <2>2. blocks' = Append(blocks, b) /\ jump' = jump
    BY <1>8 DEF Begin, Push
  <2> HIDE DEF b
  <2> QED
    BY <1>4, <1>6, <2>1, <2>2, PushOwned
<1>9. CASE If(c)
  <2> DEFINE b == Block("if", 0, Here, 0, FALSE)
  <2>1. b \in BlockRecords /\ Shaped(b) /\ OwnOf(b) = {Here}
    <3>1. "if" \in Slotted
      BY DEF Slotted
    <3> QED
      BY <1>1, <1>5, <3>1, SlotBlock
  <2>2. blocks' = Append(blocks, b) /\ jump' = Slot(jump, Here)
    BY <1>9 DEF If, Push
  <2> HIDE DEF b
  <2>3. Zero(jump') \subseteq Own(blocks) \cup OwnOf(b)
    BY <1>4, <1>6, <2>1, <2>2, SlotFacts
  <2> QED
    BY <1>4, <1>6, <2>1, <2>2, <2>3, PushOwned
<1>10. CASE Else(c)
  <2>1. blocks # <<>> /\ Top.type = "if"
    BY <1>2, <1>10 DEF Refused, TopIs, Else
  <2> DEFINE b == Block("else", 0, Here, 0, FALSE)
             start == IF Len(line) > 1 THEN Here ELSE <<nline + 1, 0>>
  <2>2. b \in BlockRecords /\ Shaped(b) /\ OwnOf(b) = {Here}
    <3>1. "else" \in Slotted
      BY DEF Slotted
    <3> QED
      BY <1>1, <1>5, <3>1, SlotBlock
  <2>3. start \in PlaceType /\ start[1] # 0
    BY <1>5 DEF PlaceType
  <2>4. blocks' = Append(Pop, b) /\ jump' = Slot(PatchTo(jump, Top.slot, start), Here)
    BY <1>10 DEF Else
  <2> HIDE DEF b, start
  <2>5. /\ Pop \in Seq(BlockRecords) /\ \A i \in 1 .. Len(Pop) : Shaped(Pop[i])
        /\ Zero(jump) \ OwnOf(Top) \subseteq Own(Pop)
    BY <2>1, TopType, PopOwn
  <2>6. OwnOf(Top) = {Top.slot}
    BY <2>1, PopOwn DEF OwnOf, Slotted, Shaped
  <2>7. Zero(PatchTo(jump, Top.slot, start)) \subseteq Own(Pop) /\ Targets(PatchTo(jump, Top.slot, start))
    BY <1>4, <2>3, <2>5, <2>6, PatchToFacts
  <2>8. Zero(jump') \subseteq Own(Pop) \cup OwnOf(b)
    BY <2>2, <2>4, <2>7, SlotFacts
  <2> QED
    BY <2>2, <2>4, <2>5, <2>8, PushOwned
<1>11. CASE ElseIf(c)
  <2>1. blocks # <<>> /\ Top.type = "if"
    BY <1>2, <1>11 DEF Refused, TopIs, ElseIf
  <2> DEFINE b == Block("else", 0, Here, 0, TRUE)
             d == Block("if", 0, Next1(Here), 0, FALSE)
             patched == PatchTo(jump, Top.slot, Here)
  <2>2. /\ b \in BlockRecords /\ Shaped(b) /\ OwnOf(b) = {Here}
        /\ d \in BlockRecords /\ Shaped(d) /\ OwnOf(d) = {Next1(Here)}
    <3>1. "if" \in Slotted /\ "else" \in BlockTypes /\ "else" \in Slotted
      BY DEF Slotted, BlockTypes
    <3>2. b \in BlockRecords /\ Shaped(b) /\ OwnOf(b) = {Here}
      <4>1. b \in BlockRecords
        BY <1>1, <1>5, <3>1, BlockType
      <4> QED
        BY <1>5, <3>1, <4>1 DEF Shaped, OwnOf, Block
    <3>3. d \in BlockRecords /\ Shaped(d) /\ OwnOf(d) = {Next1(Here)}
      BY <1>1, <1>5, <3>1, SlotBlock
    <3> QED
      BY <3>2, <3>3
  <2>3. /\ blocks' = Pop \o <<b, d>>
        /\ jump' = Slot(Slot(patched, Here), Next1(Here))
    BY <1>11 DEF ElseIf
  <2>4. /\ Pop \in Seq(BlockRecords) /\ \A i \in 1 .. Len(Pop) : Shaped(Pop[i])
        /\ Zero(jump) \ OwnOf(Top) \subseteq Own(Pop)
    BY <2>1, TopType, PopOwn
  <2>5. OwnOf(Top) = {Top.slot}
    BY <2>1, PopOwn DEF OwnOf, Slotted, Shaped
  <2>6. Zero(patched) \subseteq Own(Pop) /\ Targets(patched)
    BY <1>4, <1>5, <2>4, <2>5, PatchToFacts
  <2> HIDE DEF b, d, patched
  <2>7. /\ Zero(Slot(patched, Here)) \subseteq Own(Pop) \cup OwnOf(b)
        /\ Targets(Slot(patched, Here))
    BY <2>2, <2>6, SlotFacts
  <2> DEFINE mid == Append(Pop, b)
  <2>8. /\ mid \in Seq(BlockRecords) /\ \A i \in 1 .. Len(mid) : Shaped(mid[i])
        /\ Zero(Slot(patched, Here)) \subseteq Own(mid)
    BY <2>2, <2>4, <2>7, PushOwned, PushType
  <2>9. blocks' = Append(mid, d)
    BY <2>2, <2>3, <2>4
  <2> HIDE DEF mid
  <2>10. Zero(jump') \subseteq Own(mid) \cup OwnOf(d)
    BY <2>2, <2>3, <2>7, <2>8, SlotFacts
  <2> QED
    BY <2>2, <2>8, <2>9, <2>10, PushOwned
<1>12. CASE EndIfCmd(c)
  <2>1. TopIs({"if", "else"})
    BY <1>2, <1>12 DEF Refused, EndIfCmd
  <2>2. EndIf(nline + 1) /\ nline + 1 \in Nat \ {0}
    BY <1>5, <1>12 DEF EndIfCmd
  <2> QED
    BY <2>1, <2>2, EndIfOwned
<1>13. CASE For(c)
  <2> DEFINE off == Len(code[nline]) + 1
             place == Next1(Here)
             b == Block("for", off, place, c.v, FALSE)
  <2>1. off \in Nat /\ c.v \in Nat /\ place \in PlaceType
    BY <1>1, <1>5 DEF Here, PlaceType, Commands
  <2>2. blocks' = Append(blocks, b) /\ jump' = Slot(jump, place)
    BY <1>13 DEF For, Push
  <2> HIDE DEF off, place
  <2>3. b \in BlockRecords /\ Shaped(b) /\ OwnOf(b) = {place}
    <3>1. "for" \in Slotted
      BY DEF Slotted
    <3> QED
      BY <1>1, <2>1, <3>1, SlotBlock
  <2> HIDE DEF b
  <2>4. Zero(jump') \subseteq Own(blocks) \cup OwnOf(b)
    BY <1>4, <1>6, <2>2, <2>3, SlotFacts
  <2> QED
    BY <1>4, <1>6, <2>2, <2>3, <2>4, PushOwned
<1>14. CASE Loop(c)
  <2> DEFINE b == Block(c.k, 0, Here, 0, FALSE)
  <2>1. b \in BlockRecords /\ Shaped(b) /\ OwnOf(b) = {Here}
    <3>1. c.k \in Slotted
      BY <1>14 DEF Loop, Slotted
    <3> QED
      BY <1>1, <1>5, <3>1, SlotBlock
  <2>2. blocks' = Append(blocks, b) /\ jump' = Slot(jump, Here)
    BY <1>14 DEF Loop, Push
  <2> HIDE DEF b
  <2>3. Zero(jump') \subseteq Own(blocks) \cup OwnOf(b)
    BY <1>4, <1>6, <2>1, <2>2, SlotFacts
  <2> QED
    BY <1>4, <1>6, <2>1, <2>2, <2>3, PushOwned
<1>15. CASE Next_(c)
  <2>1. blocks # <<>> /\ Top.type \in {"for", "while", "until"}
    BY <1>2, <1>15 DEF Refused, TopIs, Next_
  <2> DEFINE patched == Patch(jump, {Top.slot}, nline)
             t == <<Top.first, Top.off1>>
  <2>2. /\ \A i \in 1 .. Len(Pop) : Shaped(Pop[i])
        /\ Zero(jump) \ OwnOf(Top) \subseteq Own(Pop)
    BY <2>1, PopOwn
  <2>3. OwnOf(Top) = {Top.slot}
    BY <2>1, PopOwn DEF OwnOf, Slotted, Shaped
  <2>4. Zero(patched) \subseteq Own(Pop) /\ Targets(patched)
    BY <1>4, <1>5, <2>2, <2>3, PatchFacts
  <2>5. jump' = PatchTo(Slot(patched, Here), Here, t) /\ blocks' = Pop
    BY <1>15 DEF Next_
  <2> HIDE DEF patched
  <2>6. Targets(Slot(patched, Here)) /\ Zero(Slot(patched, Here)) \subseteq Own(Pop) \cup {Here}
    BY <2>4, SlotFacts
  <2>7. t \in PlaceType /\ t[1] # 0
    <3>1. Top \in BlockRecords /\ Top.first # 0
      BY <2>1, TopType, PopOwn DEF Shaped
    <3> QED
      BY <3>1 DEF BlockRecords, PlaceType
  <2> HIDE DEF t
  <2> QED
    BY <2>2, <2>5, <2>6, <2>7, PatchToFacts
<1>16. CASE Return(c)
  <2>1. PICK k \in 1 .. Len(blocks) : blocks[k].type = "sub"
    BY <1>2, <1>16 DEF Refused, InSub, Return
  <2>2. Zero(jump') \subseteq Zero(jump) \cup {Here}
    BY <1>4, <1>16, SlotFacts DEF Return
  <2>3. /\ Len(blocks') = Len(blocks)
        /\ \A i \in 1 .. Len(blocks) :
             blocks'[i] = IF blocks[i].type = "sub"
                          THEN [blocks[i] EXCEPT !.deps = @ \cup {Here}] ELSE blocks[i]
    <3> DEFINE new(i) == IF blocks[i].type = "sub"
                         THEN [blocks[i] EXCEPT !.deps = @ \cup {Here}] ELSE blocks[i]
    <3>1. blocks' = [i \in DOMAIN blocks |-> new(i)]
      BY <1>16 DEF Return
    <3> HIDE DEF new
    <3>2. Len(blocks') = Len(blocks) /\ \A i \in 1 .. Len(blocks) : blocks'[i] = new(i)
      BY <1>4, <3>1
    <3> QED
      BY <3>2 DEF new
  <2>4. ASSUME NEW i \in 1 .. Len(blocks)
        PROVE  /\ Shaped(blocks'[i]) /\ OwnOf(blocks[i]) \subseteq OwnOf(blocks'[i])
               /\ blocks[i].type = "sub" => Here \in OwnOf(blocks'[i])
    <3>1. blocks[i] \in BlockRecords
      BY <1>4
    <3>2. Shaped(blocks[i])
      BY <1>6
    <3>3. CASE blocks[i].type = "sub"
      <4>1. /\ blocks'[i].type = "sub" /\ blocks'[i].dangling = blocks[i].dangling
            /\ blocks'[i].first = blocks[i].first
            /\ blocks'[i].deps = blocks[i].deps \cup {Here}
        BY <2>3, <3>1, <3>3 DEF BlockRecords
      <4> QED
        BY <3>2, <3>3, <4>1 DEF Shaped, OwnOf, Slotted
    <3>4. CASE blocks[i].type # "sub"
      BY <2>3, <3>2, <3>4
    <3> QED
      BY <3>3, <3>4
  <2>5. Own(blocks) \subseteq Own(blocks') /\ Here \in Own(blocks')
    BY <2>1, <2>3, <2>4 DEF Own
  <2> QED
    BY <1>6, <2>2, <2>3, <2>4, <2>5
<1>17. CASE End(c)
  <2>1. blocks # <<>> /\ Top.type \in {"begin", "sub"}
    BY <1>2, <1>17 DEF Refused, TopIs, End
  <2>2. /\ \A i \in 1 .. Len(Pop) : Shaped(Pop[i])
        /\ Zero(jump) \ OwnOf(Top) \subseteq Own(Pop)
    BY <2>1, PopOwn
  <2>3. OwnOf(Top) = Top.deps
    BY <2>1 DEF OwnOf, Slotted
  <2>4. jump' = Patch(jump, Top.deps, nline) /\ blocks' = Pop
    BY <1>17 DEF End
  <2>5. Zero(jump') \subseteq Zero(jump) \ Top.deps
    BY <1>4, <1>5, <2>4, PatchFacts
  <2> QED
    BY <2>2, <2>3, <2>4, <2>5
<1> QED
  BY <1>7, <1>8, <1>9, <1>10, <1>11, <1>12, <1>13, <1>14, <1>15, <1>16, <1>17
     DEF Compile, c

\* A line that starts closes what the line before it left open.
LEMMA StartLineOwned ==
  ASSUME TypeOK, Owned, NEW ln \in source, StartLine(ln)
  PROVE  Owned'
<1>1. phase' = "parse"
  BY DEF StartLine
<1>2. (\A i \in 1 .. Len(blocks) : Shaped(blocks[i])) /\ Zero(jump) \subseteq Own(blocks)
  BY DEF Owned
<1> SUFFICES (\A i \in 1 .. Len(blocks') : Shaped(blocks'[i])) /\ Zero(jump') \subseteq Own(blocks')
  BY <1>1 DEF Owned
<1>3. CASE UNCHANGED <<blocks, jump>>
  BY <1>2, <1>3
<1>4. CASE Closes(ln) /\ EndIf(nline + 1)
  <2>1. nline + 1 \in Nat \ {0}
    BY DEF TypeOK, nline
  <2> QED
    BY <1>4, <2>1, EndIfOwned DEF Closes
<1> QED
  BY <1>3, <1>4 DEF StartLine, TextLine, CommandLine

LEMMA OwnedStep == ASSUME TypeOK, Owned, [Next]_vars PROVE Owned'
<1>1. CASE \E ln \in source : StartLine(ln)
  BY <1>1, StartLineOwned
<1>2. CASE Command
  <2>1. CASE Refuse(Head(line))
    BY <1>2, <2>1 DEF Refuse, Owned, Command
  <2>2. CASE line # <<>> /\ Compile(Head(line))
    BY <2>2, CompileOwned
  <2> QED
    BY <1>2, <2>1, <2>2 DEF Command
<1>3. CASE Finish
  <2>1. phase' = "run" => blocks = <<>>
    BY <1>3 DEF Finish
  <2> QED
    BY <1>3, <2>1 DEF Finish, Owned
<1>4. CASE Again
  <2>1. blocks' = <<>> /\ jump' = [p \in {} |-> Unpatched] /\ line' = <<>>
    BY <1>4 DEF Again
  <2>2. Zero(jump') = {} /\ Len(blocks') = 0
    BY <2>1 DEF Zero
  <2> QED
    BY <2>1, <2>2 DEF Owned
<1>5. CASE UNCHANGED vars
  BY <1>5 DEF Owned, vars
<1> QED
  BY <1>1, <1>2, <1>3, <1>4, <1>5 DEF Next, Parse

LEMMA InitOwned == Init => Owned
<1> SUFFICES ASSUME Init PROVE Owned
  OBVIOUS
<1>1. blocks = <<>> /\ jump = [p \in {} |-> Unpatched] /\ line = <<>>
  BY DEF Init
<1>2. Zero(jump) = {} /\ Len(blocks) = 0
  BY <1>1 DEF Zero
<1> QED
  BY <1>1, <1>2 DEF Owned

\* When a program is run no jump is left without its target, however its blocks
\* were nested and its one-line IFs closed.
THEOREM JumpsPatched == Spec => []AllPatched
<1>1. Init => TypeOK /\ Owned
  BY InitType, InitOwned
<1>2. TypeOK /\ Owned /\ [Next]_vars => (TypeOK /\ Owned)'
  BY TypeStep, OwnedStep
<1>3. TypeOK /\ Owned => AllPatched
  <2> SUFFICES ASSUME TypeOK, Owned, phase = "run", NEW p \in DOMAIN jump, jump[p][1] = 0
               PROVE  FALSE
    BY DEF AllPatched
  <2>1. p \in Own(<<>>)
    BY DEF Owned, Zero
  <2> QED
    BY <2>1 DEF Own
<1> QED
  BY <1>1, <1>2, <1>3, PTL DEF Spec

(***************************************************************************)
(* The nesting of a program that is being compiled.  cd is the code, ln    *)
(* what is left of the line, sg whether the line is to have one command    *)
(* only, bs the stack of blocks, jp the jumps.  What closes a block is     *)
(* given by c, and the opcode that opens the block of an IF or ELSE by g.  *)
(***************************************************************************)
Lt(p, q) == p[1] < q[1] \/ (p[1] = q[1] /\ p[2] < q[2])

PlacesOf(cd) == UNION {{<<l, k>> : k \in DOMAIN cd[l]} : l \in DOMAIN cd}
OpAt(cd, p) == cd[p[1]][p[2]]
IsOpener(o) == \/ o.op \in {"for", "while", "until", "sub", "begin"}
               \/ o.op = "if" /\ ~o.d
IsCloser(o) == o.op \in {"endif", "next", "endsub", "end"}
LoopOps == {"for", "while", "until"}

Openers(cd) == {p \in PlacesOf(cd) : IsOpener(OpAt(cd, p))}
RealClosers(cd) == {p \in PlacesOf(cd) : IsCloser(OpAt(cd, p))}
Elses(cd) == {p \in PlacesOf(cd) : OpAt(cd, p).op = "else"}
Ifs(cd) == {p \in PlacesOf(cd) : OpAt(cd, p).op = "if"}
Marks(cd) == Openers(cd) \cup Elses(cd) \cup Ifs(cd)

StartsIn(cd, l, o) == cd[l] # <<>> /\ cd[l][1].op = o
OneLineIn(cd, l) ==
  /\ StartsIn(cd, l, "if") \/ (StartsIn(cd, l, "else") /\ ~cd[l][1].d)
  /\ Len(cd[l]) > 1
  /\ \A k \in 2 .. Len(cd[l]) : ~IsOpener(cd[l][k])
ImpliedIn(cd) ==
  {<<l + 1, 0>> : l \in {i \in DOMAIN cd :
                          /\ i < Len(cd) /\ OneLineIn(cd, i)
                          /\ ~(StartsIn(cd, i, "if") /\ StartsIn(cd, i + 1, "else"))}}

\* A line that is to start with the ELSE of the line before closes nothing.
ElseNext(ln) == ln # <<>> /\ Head(ln).k \in {"else", "elseif"}
Held(cd, ln) ==
  IF cd # <<>> /\ cd[Len(cd)] = <<>> /\ ElseNext(ln) /\ Len(cd) > 1
     /\ StartsIn(cd, Len(cd) - 1, "if")
  THEN {<<Len(cd), 0>>} ELSE {}
ClosersOf(cd, ln) == RealClosers(cd) \cup (ImpliedIn(cd) \ Held(cd, ln))

Nested(O, K, M, c, g) ==
  /\ DOMAIN c \subseteq O /\ DOMAIN g = M /\ O \subseteq M
  /\ \A o \in DOMAIN c : c[o] \in K /\ Lt(o, c[o])
  /\ \A k \in K : \E o \in DOMAIN c : c[o] = k
  /\ \A o, p \in DOMAIN c : c[o] = c[p] => o = p
  /\ \A o \in DOMAIN c, p \in O : Lt(o, p) /\ Lt(p, c[o]) => p \in DOMAIN c /\ Lt(c[p], c[o])
  /\ \A o \in O : g[o] = o
  /\ \A x \in M : /\ g[x] \in O /\ (x = g[x] \/ Lt(g[x], x))
                  /\ g[x] \in DOMAIN c => Lt(x, c[g[x]])
                  /\ \A p \in O : Lt(g[x], p) /\ Lt(p, x) => p \in DOMAIN c /\ Lt(c[p], x)

\* What opens at o is closed at k by a command of its own kind, or is a one-line IF.
Pair(cd, o, k) ==
  \/ k \notin PlacesOf(cd) /\ OpAt(cd, o).op = "if"
  \/ /\ k \in PlacesOf(cd)
     /\ \/ OpAt(cd, k).op = "endif" /\ OpAt(cd, o).op = "if"
        \/ OpAt(cd, k).op = "endsub" /\ OpAt(cd, o).op = "sub"
        \/ OpAt(cd, k).op = "end" /\ OpAt(cd, o).op = "begin"
        \/ /\ OpAt(cd, k).op = "next" /\ OpAt(cd, o).op \in LoopOps
           /\ OpAt(cd, o).op = "for" => OpAt(cd, o).v = OpAt(cd, k).v
Typed(cd, c) ==
  /\ \A o \in DOMAIN c : Pair(cd, o, c[o])
  /\ \A o, p \in Openers(cd) :
       OpAt(cd, o).op = "sub" /\ OpAt(cd, p).op = "sub" /\ Lt(o, p) => o \in DOMAIN c /\ Lt(c[o], p)

BlockFits(cd, jp, c, g, b) ==
  /\ b.slot \in DOMAIN g /\ OpAt(cd, b.slot).op = b.type
  /\ IF b.type \in {"if", "else"} THEN OpAt(cd, g[b.slot]).op = "if" ELSE g[b.slot] = b.slot
  /\ b.type = "if" => \A e \in Elses(cd) : g[e] = g[b.slot] => ~Lt(b.slot, e)
  /\ b.type = "for" => b.var = OpAt(cd, b.slot).v
  /\ b.type \in LoopOps => b.slot = <<b.first, b.off1 + 1>>
  /\ b.type \in Slotted => b.slot \in DOMAIN jp /\ jp[b.slot] = Unpatched
  /\ \A p \in b.deps : /\ p \in DOMAIN jp /\ jp[p] = Unpatched
                        /\ OpAt(cd, p).op = "return" /\ Lt(b.slot, p)
  /\ b.type # "sub" => b.deps = {}
  /\ b.dangling => b.type = "else"

\* The blocks of the stack are those of the openers in U, the innermost on top.
Ranked(bs, U, g) ==
  /\ \A i \in 1 .. Len(bs) : g[bs[i].slot] \in U
  /\ \A o \in U : \E i \in 1 .. Len(bs) : g[bs[i].slot] = o
  /\ \A i, j \in 1 .. Len(bs) : \A k \in i .. j - 1 :
       ~bs[k].dangling => Lt(g[bs[i].slot], g[bs[j].slot])
  /\ \A i, j \in 1 .. Len(bs) :
       i < j /\ (\A k \in i .. j - 1 : bs[k].dangling) => g[bs[i].slot] = g[bs[j].slot]
  /\ \A i \in 1 .. Len(bs) : bs[i].dangling => i < Len(bs) /\ bs[i + 1].type \in {"if", "else"}

Stacked(cd, bs, jp, c, g) ==
  /\ \A i \in 1 .. Len(bs) : BlockFits(cd, jp, c, g, bs[i])
  /\ Ranked(bs, Openers(cd) \ DOMAIN c, g)

\* The last opcode of a line that is not one of those in W, which may grow.
LastOn(cd, W, x) == x \in PlacesOf(cd) /\ Len(cd[x[1]]) = x[2] /\ x[1] \notin W
Lands(cd, W, t, x) == t = x \/ (t = <<x[1] + 1, 0>> /\ LastOn(cd, W, x))

IfDone(cd, W, jp, c, g, p) ==
  \/ \E e \in Elses(cd) :
       /\ g[e] = g[p] /\ Lt(p, e) /\ Lands(cd, W, jp[p], e)
       /\ \A f \in Elses(cd) : g[f] = g[p] /\ Lt(p, f) => ~Lt(f, e)
  \/ /\ g[p] \in DOMAIN c /\ Lands(cd, W, jp[p], c[g[p]])
     /\ \A e \in Elses(cd) : g[e] = g[p] => ~Lt(p, e)
ElseDone(cd, W, jp, c, g, p) == g[p] \in DOMAIN c /\ Lands(cd, W, jp[p], c[g[p]])
LoopDone(cd, W, jp, c, p) == p \in DOMAIN c /\ jp[p] = <<c[p][1], 0>> /\ LastOn(cd, W, c[p])
NextDone(jp, c, p) == \E o \in DOMAIN c : c[o] = p /\ o = <<jp[p][1], jp[p][2] + 1>>
ReturnDone(cd, jp, c, p) ==
  \E o \in DOMAIN c : /\ OpAt(cd, o).op = "sub" /\ Lt(o, p) /\ Lt(p, c[o])
                      /\ c[o] = <<jp[p][1], 1>> /\ jp[p][2] = 0
OfIf(cd, g, p) == OpAt(cd, g[p]).op = "if"
Done(cd, W, jp, c, g, p) ==
  \/ OpAt(cd, p).op = "if" /\ OfIf(cd, g, p) /\ IfDone(cd, W, jp, c, g, p)
  \/ OpAt(cd, p).op = "else" /\ OfIf(cd, g, p) /\ ElseDone(cd, W, jp, c, g, p)
  \/ OpAt(cd, p).op \in LoopOps /\ LoopDone(cd, W, jp, c, p)
  \/ OpAt(cd, p).op = "next" /\ NextDone(jp, c, p)
  \/ OpAt(cd, p).op = "return" /\ ReturnDone(cd, jp, c, p)
Awaits(b, p) == (b.type \in Slotted /\ b.slot = p) \/ p \in b.deps
Targeted(cd, W, bs, jp, c, g) ==
  \A p \in DOMAIN jp : /\ p \in PlacesOf(cd)
                       /\ \/ \E i \in 1 .. Len(bs) : Awaits(bs[i], p)
                          \/ Done(cd, W, jp, c, g, p)

Fits(cd, ln, W, bs, jp, c, g) ==
  /\ Nested(Openers(cd), ClosersOf(cd, ln), Marks(cd), c, g)
  /\ Typed(cd, c)
  /\ Stacked(cd, bs, jp, c, g)
  /\ Targeted(cd, W, bs, jp, c, g)

\* The line being compiled: whether it is a one-line IF or ELSE so far, and then what
\* it has left on top of the stack.
LastLine(cd) == cd[Len(cd)]
BranchLine(cd) == /\ cd # <<>>
                /\ \/ StartsIn(cd, Len(cd), "if")
                   \/ StartsIn(cd, Len(cd), "else") /\ ~LastLine(cd)[1].d
OpensBehind(cd) == \E k \in 2 .. Len(LastLine(cd)) : IsOpener(LastLine(cd)[k])
OnTop(bs, types) == bs # <<>> /\ bs[Len(bs)].type \in types
LineIs(cd, ln, nb, sg, ae, md, bs) ==
  /\ sg => nb # 0
  /\ cd = <<>> => nb = 0 /\ ln = <<>>
  /\ cd # <<>> => (nb = 0 <=> LastLine(cd) = <<>>)
  /\ ae => BranchLine(cd)
  /\ BranchLine(cd) => (ae <=> Len(LastLine(cd)) + Len(ln) > 1)
  /\ BranchLine(cd) /\ OpensBehind(cd) => OnTop(bs, {"for"})
  /\ BranchLine(cd) /\ ~OpensBehind(cd) =>
       OnTop(bs, {"if", "else"}) /\ bs[Len(bs)].slot = <<Len(cd), 1>>
  /\ md # Normal => ~BranchLine(cd) /\ (ln = <<>> \/ nb # 0)
LineFits == LineIs(code, line, nbcmd, single, autoEndif, mode, blocks)

\* The line that may still grow.
Growing == IF line = <<>> \/ single THEN {} ELSE {nline}
Nesting ==
  /\ phase \in {"parse", "run"} /\ ~errors =>
       \E c, g : Fits(code, line, Growing, blocks, jump, c, g)
  /\ phase = "parse" /\ ~errors => LineFits
  /\ phase = "run" => blocks = <<>> /\ line = <<>> /\ ~errors

-----------------------------------------------------------------------------
(* Places in the order of the source.                                      *)

LEMMA LtOrder ==
  /\ \A p, q, r \in PlaceType : Lt(p, q) /\ Lt(q, r) => Lt(p, r)
  /\ \A p, q \in PlaceType : p = q \/ Lt(p, q) \/ Lt(q, p)
  /\ \A p, q \in PlaceType : Lt(p, q) => ~Lt(q, p) /\ p # q
<1>1. ASSUME NEW p \in PlaceType, NEW q \in PlaceType, NEW r \in PlaceType,
             Lt(p, q), Lt(q, r)
      PROVE  Lt(p, r)
  BY <1>1 DEF Lt, PlaceType
<1>2. ASSUME NEW p \in PlaceType, NEW q \in PlaceType
      PROVE  p = q \/ Lt(p, q) \/ Lt(q, p)
  BY DEF Lt, PlaceType
<1>3. ASSUME NEW p \in PlaceType, NEW q \in PlaceType, Lt(p, q)
      PROVE  ~Lt(q, p) /\ p # q
  BY <1>3 DEF Lt, PlaceType
<1> QED
  BY <1>1, <1>2, <1>3

(***************************************************************************)
(* One more opener, closer or mark behind all the others.                  *)
(***************************************************************************)
With(f, x, v) == [y \in DOMAIN f \cup {x} |-> IF y = x THEN v ELSE f[y]]

LEMMA WithFacts ==
  ASSUME NEW f, NEW x, NEW v
  PROVE  /\ DOMAIN With(f, x, v) = DOMAIN f \cup {x}
         /\ With(f, x, v)[x] = v
         /\ \A y \in DOMAIN f : y # x => With(f, x, v)[y] = f[y]
BY DEF With

LEMMA NestedOpen ==
  ASSUME NEW O, NEW K, NEW M, NEW c, NEW g, NEW p \in PlaceType, NEW g2,
         M \subseteq PlaceType, K \subseteq PlaceType, Nested(O, K, M, c, g),
         \A x \in M \cup K : Lt(x, p), g2 = With(g, p, p)
  PROVE  Nested(O \cup {p}, K, M \cup {p}, c, g2)
<1>1. /\ DOMAIN g2 = M \cup {p} /\ g2[p] = p
      /\ \A y \in M : g2[y] = g[y] /\ y # p
  <2>1. DOMAIN g = M
    BY DEF Nested
  <2>2. p \notin M
    BY LtOrder
  <2> QED
    BY <2>1, <2>2 DEF With
<1>2. DOMAIN c \subseteq O /\ O \subseteq M
  BY DEF Nested
<1>3. /\ \A o \in DOMAIN c : c[o] \in K /\ Lt(o, c[o])
      /\ \A k \in K : \E o \in DOMAIN c : c[o] = k
      /\ \A o, q \in DOMAIN c : c[o] = c[q] => o = q
      /\ \A o \in O : g[o] = o
  BY DEF Nested
<1>4. ASSUME NEW o \in DOMAIN c, NEW q \in O \cup {p}, Lt(o, q), Lt(q, c[o])
      PROVE  q \in DOMAIN c /\ Lt(c[q], c[o])
  <2>1. CASE q = p
    <3>1. c[o] \in K /\ Lt(c[o], p)
      BY <1>3
    <3> QED
      BY <1>4, <2>1, <3>1, LtOrder
  <2>2. CASE q \in O
    BY <1>4, <2>2 DEF Nested
  <2> QED
    BY <2>1, <2>2
<1>5. ASSUME NEW x \in M \cup {p}
      PROVE  /\ g2[x] \in O \cup {p} /\ (x = g2[x] \/ Lt(g2[x], x))
             /\ g2[x] \in DOMAIN c => Lt(x, c[g2[x]])
             /\ \A q \in O \cup {p} : Lt(g2[x], q) /\ Lt(q, x) => q \in DOMAIN c /\ Lt(c[q], x)
  <2>1. CASE x = p
    <3>1. \A q \in O \cup {p} : q \in PlaceType /\ (q = p \/ Lt(q, p))
      BY <1>2
    <3>2. p \notin DOMAIN c
      BY <1>2, LtOrder
    <3> QED
      BY <1>1, <2>1, <3>1, <3>2, LtOrder
  <2>2. CASE x \in M
    <3>1. /\ g[x] \in O /\ (x = g[x] \/ Lt(g[x], x))
          /\ g[x] \in DOMAIN c => Lt(x, c[g[x]])
          /\ \A q \in O : Lt(g[x], q) /\ Lt(q, x) => q \in DOMAIN c /\ Lt(c[q], x)
      BY <2>2 DEF Nested
    <3>2. ~Lt(p, x)
      BY <2>2, LtOrder
    <3> QED
      BY <1>1, <2>2, <3>1, <3>2
  <2> QED
    BY <2>1, <2>2
<1>6. \A o \in O \cup {p} : g2[o] = o
  BY <1>1, <1>2, <1>3
<1> QED
  BY <1>1, <1>2, <1>3, <1>4, <1>5, <1>6 DEF Nested

LEMMA NestedClose ==
  ASSUME NEW O, NEW K, NEW M, NEW c, NEW g, NEW k \in PlaceType, NEW c2, NEW o \in O,
         M \subseteq PlaceType, K \subseteq PlaceType, Nested(O, K, M, c, g),
         \A x \in M \cup K : Lt(x, k), c2 = With(c, o, k),
         o \notin DOMAIN c, \A q \in O : q \in DOMAIN c \/ q = o \/ Lt(q, o)
  PROVE  Nested(O, K \cup {k}, M, c2, g)
<1>1. /\ DOMAIN c2 = DOMAIN c \cup {o} /\ c2[o] = k
      /\ \A y \in DOMAIN c : c2[y] = c[y] /\ y # o
  BY DEF With
<1>2. DOMAIN c \subseteq O /\ O \subseteq M /\ DOMAIN g = M
  BY DEF Nested
<1>3. /\ \A p \in DOMAIN c : c[p] \in K /\ Lt(p, c[p])
      /\ \A q \in K : \E p \in DOMAIN c : c[p] = q
      /\ \A p, q \in DOMAIN c : c[p] = c[q] => p = q
      /\ \A p \in O : g[p] = p
  BY DEF Nested
<1>4. k \notin K /\ Lt(o, k)
  BY <1>2, LtOrder
<1>5. \A p \in DOMAIN c2 : c2[p] \in K \cup {k} /\ Lt(p, c2[p])
  BY <1>1, <1>3, <1>4
<1>6. \A q \in K \cup {k} : \E p \in DOMAIN c2 : c2[p] = q
  BY <1>1, <1>3
<1>7. \A p, q \in DOMAIN c2 : c2[p] = c2[q] => p = q
  BY <1>1, <1>3, <1>4
<1>8. ASSUME NEW q \in DOMAIN c2, NEW p \in O, Lt(q, p), Lt(p, c2[q])
      PROVE  p \in DOMAIN c2 /\ Lt(c2[p], c2[q])
  <2>1. q \in PlaceType /\ p \in PlaceType /\ o \in PlaceType
    BY <1>1, <1>2
  <2>2. CASE q = o
    <3>1. p \in DOMAIN c
      BY <1>8, <2>1, <2>2, LtOrder
    <3> QED
      BY <1>1, <1>3, <2>2, <3>1
  <2>3. CASE q # o
    <3>1. q \in DOMAIN c /\ c2[q] = c[q]
      BY <1>1, <2>3
    <3>2. p \in DOMAIN c /\ Lt(c[p], c[q])
      BY <1>8, <3>1 DEF Nested
    <3> QED
      BY <1>1, <3>1, <3>2
  <2> QED
    BY <2>2, <2>3
<1>9. ASSUME NEW x \in M
      PROVE  /\ g[x] \in O /\ (x = g[x] \/ Lt(g[x], x))
             /\ g[x] \in DOMAIN c2 => Lt(x, c2[g[x]])
             /\ \A p \in O : Lt(g[x], p) /\ Lt(p, x) => p \in DOMAIN c2 /\ Lt(c2[p], x)
  <2>1. /\ g[x] \in O /\ (x = g[x] \/ Lt(g[x], x))
        /\ g[x] \in DOMAIN c => Lt(x, c[g[x]])
        /\ \A p \in O : Lt(g[x], p) /\ Lt(p, x) => p \in DOMAIN c /\ Lt(c[p], x)
    BY DEF Nested
  <2>2. Lt(x, k)
    OBVIOUS
  <2> QED
    BY <1>1, <2>1, <2>2
<1>10. DOMAIN c2 \subseteq O
  BY <1>1, <1>2
<1> QED
  BY <1>2, <1>3, <1>5, <1>6, <1>7, <1>8, <1>9, <1>10 DEF Nested

LEMMA NestedMark ==
  ASSUME NEW O, NEW K, NEW M, NEW c, NEW g, NEW x \in PlaceType, NEW g2, NEW o \in O,
         M \subseteq PlaceType, K \subseteq PlaceType, Nested(O, K, M, c, g),
         \A y \in M \cup K : Lt(y, x), g2 = With(g, x, o),
         o \notin DOMAIN c, \A q \in O : q \in DOMAIN c \/ q = o \/ Lt(q, o)
  PROVE  Nested(O, K, M \cup {x}, c, g2)
<1>1. /\ DOMAIN g2 = M \cup {x} /\ g2[x] = o
      /\ \A y \in M : g2[y] = g[y] /\ y # x
  <2>1. DOMAIN g = M
    BY DEF Nested
  <2>2. x \notin M
    BY LtOrder
  <2> QED
    BY <2>1, <2>2 DEF With
<1>2. DOMAIN c \subseteq O /\ O \subseteq M
  BY DEF Nested
<1>3. /\ \A p \in DOMAIN c : c[p] \in K /\ Lt(p, c[p])
      /\ \A k \in K : \E p \in DOMAIN c : c[p] = k
      /\ \A p, q \in DOMAIN c : c[p] = c[q] => p = q
      /\ \A p \in O : g[p] = p
      /\ \A q \in DOMAIN c, p \in O : Lt(q, p) /\ Lt(p, c[q]) => p \in DOMAIN c /\ Lt(c[p], c[q])
  BY DEF Nested
<1>4. ASSUME NEW y \in M \cup {x}
      PROVE  /\ g2[y] \in O /\ (y = g2[y] \/ Lt(g2[y], y))
             /\ g2[y] \in DOMAIN c => Lt(y, c[g2[y]])
             /\ \A q \in O : Lt(g2[y], q) /\ Lt(q, y) => q \in DOMAIN c /\ Lt(c[q], y)
  <2>1. CASE y = x
    <3>1. ASSUME NEW q \in O, Lt(o, q), Lt(q, x) PROVE q \in DOMAIN c /\ Lt(c[q], x)
      <4>1. q \in DOMAIN c
        BY <1>2, <3>1, LtOrder
      <4> QED
        BY <1>3, <4>1
    <3>2. Lt(o, x)
      BY <1>2
    <3> QED
      BY <1>1, <2>1, <3>1, <3>2
  <2>2. CASE y \in M
    <3>1. /\ g[y] \in O /\ (y = g[y] \/ Lt(g[y], y))
          /\ g[y] \in DOMAIN c => Lt(y, c[g[y]])
          /\ \A q \in O : Lt(g[y], q) /\ Lt(q, y) => q \in DOMAIN c /\ Lt(c[q], y)
      BY <2>2 DEF Nested
    <3> QED
      BY <1>1, <2>2, <3>1
  <2> QED
    BY <2>1, <2>2
<1>5. O \subseteq M \cup {x} /\ \A p \in O : g2[p] = p
  BY <1>1, <1>2, <1>3
<1> QED
  BY <1>1, <1>2, <1>3, <1>4, <1>5 DEF Nested

-----------------------------------------------------------------------------
(* The code grows at its end: by an opcode, or by a line.                  *)

Codes == Seq(Seq(OpcodeRecords))
Put(cd, a) == [cd EXCEPT ![Len(cd)] = Append(cd[Len(cd)], a)]
NextPlace(cd) == <<Len(cd), Len(cd[Len(cd)]) + 1>>

LEMMA PlaceFacts ==
  ASSUME NEW cd \in Codes
  PROVE  /\ \A p : p \in PlacesOf(cd) <=>
                /\ p = <<p[1], p[2]>> /\ p[1] \in 1 .. Len(cd) /\ p[2] \in 1 .. Len(cd[p[1]])
         /\ \A l \in 1 .. Len(cd) : Len(cd[l]) \in Nat /\ cd[l] \in Seq(OpcodeRecords)
         /\ PlacesOf(cd) \subseteq PlaceType
         /\ Len(cd) \in Nat
<1>1. Len(cd) \in Nat /\ DOMAIN cd = 1 .. Len(cd)
  BY DEF Codes
<1>2. \A l \in 1 .. Len(cd) : /\ cd[l] \in Seq(OpcodeRecords) /\ Len(cd[l]) \in Nat
                              /\ DOMAIN cd[l] = 1 .. Len(cd[l])
  BY DEF Codes
<1>3. ASSUME NEW p, p \in PlacesOf(cd)
      PROVE  p = <<p[1], p[2]>> /\ p[1] \in 1 .. Len(cd) /\ p[2] \in 1 .. Len(cd[p[1]])
  <2>1. PICK l \in 1 .. Len(cd) : p \in {<<l, k>> : k \in DOMAIN cd[l]}
    BY <1>1, <1>3 DEF PlacesOf
  <2>2. PICK k \in 1 .. Len(cd[l]) : p = <<l, k>>
    BY <1>2, <2>1
  <2> QED
    BY <2>2
<1>4. ASSUME NEW p, p = <<p[1], p[2]>>, p[1] \in 1 .. Len(cd), p[2] \in 1 .. Len(cd[p[1]])
      PROVE  p \in PlacesOf(cd)
  <2>1. p[1] \in DOMAIN cd /\ p[2] \in DOMAIN cd[p[1]]
    BY <1>1, <1>2, <1>4
  <2>2. p \in {<<p[1], k>> : k \in DOMAIN cd[p[1]]}
    BY <1>4, <2>1
  <2> QED
    BY <2>1, <2>2 DEF PlacesOf
<1>5. PlacesOf(cd) \subseteq PlaceType
  <2> SUFFICES ASSUME NEW p \in PlacesOf(cd) PROVE p \in PlaceType
    OBVIOUS
  <2>1. p = <<p[1], p[2]>> /\ p[1] \in 1 .. Len(cd) /\ p[2] \in 1 .. Len(cd[p[1]])
    BY <1>3
  <2>2. p[1] \in Nat /\ p[2] \in Nat
    BY <1>1, <1>2, <2>1
  <2> QED
    BY <2>1, <2>2 DEF PlaceType
<1> QED
  BY <1>1, <1>2, <1>3, <1>4, <1>5

LEMMA PutFacts ==
  ASSUME NEW cd \in Codes, cd # <<>>, NEW a \in OpcodeRecords, NEW cd2, cd2 = Put(cd, a),
         NEW h, h = NextPlace(cd)
  PROVE  /\ cd2 \in Codes /\ Len(cd2) = Len(cd) /\ cd2 # <<>>
         /\ \A l \in 1 .. Len(cd) - 1 : cd2[l] = cd[l]
         /\ cd2[Len(cd)] = Append(cd[Len(cd)], a)
         /\ Len(cd2[Len(cd)]) = Len(cd[Len(cd)]) + 1
         /\ h \in PlaceType /\ h \notin PlacesOf(cd) /\ OpAt(cd2, h) = a
         /\ \A p \in PlacesOf(cd) : OpAt(cd2, p) = OpAt(cd, p) /\ Lt(p, h)
         /\ PlacesOf(cd2) = PlacesOf(cd) \cup {h}
         /\ NextPlace(cd2) = Next1(h)
<1> DEFINE n == Len(cd)
<1>1. n \in Nat \ {0} /\ cd[n] \in Seq(OpcodeRecords) /\ Len(cd[n]) \in Nat
  BY DEF Codes
<1>2. /\ cd2 \in Codes /\ Len(cd2) = n /\ cd2 # <<>>
      /\ \A l \in 1 .. n - 1 : cd2[l] = cd[l]
      /\ cd2[n] = Append(cd[n], a)
  <2>1. Append(cd[n], a) \in Seq(OpcodeRecords)
    BY <1>1
  <2> QED
    BY <1>1, <2>1 DEF Codes, Put
<1>3. Len(cd2[n]) = Len(cd[n]) + 1
  BY <1>1, <1>2
<1>4. h = <<n, Len(cd[n]) + 1>> /\ h[1] = n /\ h[2] = Len(cd[n]) + 1 /\ h \in PlaceType
  BY <1>1 DEF NextPlace, PlaceType
<1> HIDE DEF n
<1>5. h \notin PlacesOf(cd)
  BY <1>1, <1>4, PlaceFacts
<1>6. OpAt(cd2, h) = a
  BY <1>1, <1>2, <1>4 DEF OpAt
<1>7. ASSUME NEW p \in PlacesOf(cd)
      PROVE  OpAt(cd2, p) = OpAt(cd, p) /\ Lt(p, h)
  <2>1. p[1] \in 1 .. n /\ p[2] \in 1 .. Len(cd[p[1]]) /\ Len(cd[p[1]]) \in Nat
    BY PlaceFacts DEF n
  <2>2. CASE p[1] = n
    <3>1. cd2[n][p[2]] = cd[n][p[2]]
      BY <1>1, <1>2, <2>1, <2>2
    <3> QED
      BY <1>1, <1>4, <2>1, <2>2, <3>1 DEF OpAt, Lt
  <2>3. CASE p[1] # n
    <3>1. p[1] \in 1 .. n - 1
      BY <1>1, <2>1, <2>3
    <3> QED
      BY <1>1, <1>2, <1>4, <2>1, <3>1 DEF OpAt, Lt
  <2> QED
    BY <2>2, <2>3
<1>8. ASSUME NEW p PROVE p \in PlacesOf(cd2) <=> p \in PlacesOf(cd) \cup {h}
  <2>1. p \in PlacesOf(cd2) <=>
          p = <<p[1], p[2]>> /\ p[1] \in 1 .. n /\ p[2] \in 1 .. Len(cd2[p[1]])
    BY <1>2, PlaceFacts
  <2>2. p \in PlacesOf(cd) <=>
          p = <<p[1], p[2]>> /\ p[1] \in 1 .. n /\ p[2] \in 1 .. Len(cd[p[1]])
    BY PlaceFacts DEF n
  <2>3. CASE p[1] = n
    <3>1. p[2] \in 1 .. Len(cd2[n]) <=> p[2] \in 1 .. Len(cd[n]) \/ p[2] = Len(cd[n]) + 1
      BY <1>1, <1>3
    <3> QED
      BY <1>1, <1>4, <2>1, <2>2, <2>3, <3>1
  <2>4. CASE p[1] # n
    <3>1. p[1] \in 1 .. n => cd2[p[1]] = cd[p[1]]
      BY <1>1, <1>2, <2>4
    <3> QED
      BY <1>4, <2>1, <2>2, <2>4, <3>1
  <2> QED
    BY <2>3, <2>4
<1>9. NextPlace(cd2) = Next1(h)
  BY <1>2, <1>3, <1>4 DEF NextPlace, Next1
<1> QED
  BY <1>2, <1>3, <1>4, <1>5, <1>6, <1>7, <1>8, <1>9 DEF n

LEMMA PutSets ==
  ASSUME NEW cd \in Codes, cd # <<>>, NEW a \in OpcodeRecords, NEW cd2, cd2 = Put(cd, a),
         NEW h, h = NextPlace(cd)
  PROVE  /\ IsOpener(a) => Openers(cd2) = Openers(cd) \cup {h}
         /\ ~IsOpener(a) => Openers(cd2) = Openers(cd)
         /\ IsCloser(a) => RealClosers(cd2) = RealClosers(cd) \cup {h}
         /\ ~IsCloser(a) => RealClosers(cd2) = RealClosers(cd)
         /\ a.op = "else" => Elses(cd2) = Elses(cd) \cup {h}
         /\ a.op # "else" => Elses(cd2) = Elses(cd)
         /\ a.op = "if" => Ifs(cd2) = Ifs(cd) \cup {h}
         /\ a.op # "if" => Ifs(cd2) = Ifs(cd)
<1>1. /\ PlacesOf(cd2) = PlacesOf(cd) \cup {h} /\ h \notin PlacesOf(cd) /\ OpAt(cd2, h) = a
      /\ \A p \in PlacesOf(cd) : OpAt(cd2, p) = OpAt(cd, p)
  BY PutFacts
<1>2. (IsOpener(a) => Openers(cd2) = Openers(cd) \cup {h}) /\ (~IsOpener(a) => Openers(cd2) = Openers(cd))
  BY ONLY <1>1 DEF Openers
<1>3. (IsCloser(a) => RealClosers(cd2) = RealClosers(cd) \cup {h}) /\ (~IsCloser(a) => RealClosers(cd2) = RealClosers(cd))
  BY ONLY <1>1 DEF RealClosers
<1>4. (a.op = "else" => Elses(cd2) = Elses(cd) \cup {h}) /\ (a.op # "else" => Elses(cd2) = Elses(cd))
  BY ONLY <1>1 DEF Elses
<1>5. (a.op = "if" => Ifs(cd2) = Ifs(cd) \cup {h}) /\ (a.op # "if" => Ifs(cd2) = Ifs(cd))
  BY ONLY <1>1 DEF Ifs
<1> QED
  BY <1>2, <1>3, <1>4, <1>5

\* What closes a one-line IF is decided by the next line and by its first opcode.
LEMMA ImpliedFacts ==
  ASSUME NEW cd \in Codes, NEW x
  PROVE  x \in ImpliedIn(cd) <=>
           \E i \in 1 .. Len(cd) - 1 :
              /\ x = <<i + 1, 0>> /\ OneLineIn(cd, i)
              /\ ~(StartsIn(cd, i, "if") /\ StartsIn(cd, i + 1, "else"))
<1>1. Len(cd) \in Nat /\ DOMAIN cd = 1 .. Len(cd)
  BY DEF Codes
<1>2. \A i : i \in DOMAIN cd /\ i < Len(cd) <=> i \in 1 .. Len(cd) - 1
  BY <1>1
<1> QED
  BY <1>2 DEF ImpliedIn

LEMMA SameLine ==
  ASSUME NEW cd, NEW cd2, NEW i, cd2[i] = cd[i]
  PROVE  /\ OneLineIn(cd2, i) <=> OneLineIn(cd, i)
         /\ \A o : StartsIn(cd2, i, o) <=> StartsIn(cd, i, o)
BY DEF OneLineIn, StartsIn

\* The opcode put at the head of a line is the one the line starts with.
Decides(cd, a, ln) == cd[Len(cd)] = <<>> => (a.op = "else" <=> ElseNext(ln))

LEMMA PutImplied ==
  ASSUME NEW cd \in Codes, cd # <<>>, NEW a \in OpcodeRecords, NEW cd2, cd2 = Put(cd, a),
         NEW ln, NEW ln2, Decides(cd, a, ln)
  PROVE  ImpliedIn(cd2) \ Held(cd2, ln2) = ImpliedIn(cd) \ Held(cd, ln)
<1> DEFINE n == Len(cd)
<1>1. /\ cd2 \in Codes /\ Len(cd2) = n /\ n \in Nat \ {0}
      /\ \A l \in 1 .. n - 1 : cd2[l] = cd[l]
      /\ cd2[n] = Append(cd[n], a) /\ cd[n] \in Seq(OpcodeRecords)
  <2>1. PICK h : h = NextPlace(cd)
    OBVIOUS
  <2>2. /\ cd2 \in Codes /\ Len(cd2) = n
        /\ \A l \in 1 .. n - 1 : cd2[l] = cd[l]
        /\ cd2[n] = Append(cd[n], a)
    BY <2>1, PutFacts
  <2>3. n \in Nat \ {0} /\ cd[n] \in Seq(OpcodeRecords)
    BY DEF Codes
  <2> QED
    BY <2>2, <2>3
<1>2. cd2[n] # <<>> /\ (cd[n] = <<>> => cd2[n][1] = a) /\ (cd[n] # <<>> => cd2[n][1] = cd[n][1])
  <2>1. Len(cd[n]) \in Nat /\ (cd[n] # <<>> => 1 \in 1 .. Len(cd[n]))
    BY <1>1
  <2>2. cd[n] = <<>> => cd2[n] = <<a>>
    BY <1>1
  <2>3. cd[n] # <<>> => cd2[n][1] = cd[n][1]
    BY <1>1, <2>1
  <2>4. cd2[n] # <<>>
    BY <1>1
  <2> QED
    BY <2>2, <2>3, <2>4
<1>3. StartsIn(cd2, n, "else") <=>
        (IF cd[n] = <<>> THEN a.op = "else" ELSE StartsIn(cd, n, "else"))
  BY <1>2 DEF StartsIn
<1>4. Held(cd2, ln2) = {}
  BY <1>1, <1>2 DEF Held
<1> HIDE DEF n
<1>5. ASSUME NEW i \in 1 .. n - 1
      PROVE  /\ OneLineIn(cd2, i) <=> OneLineIn(cd, i)
             /\ StartsIn(cd2, i, "if") <=> StartsIn(cd, i, "if")
             /\ i + 1 # n => (StartsIn(cd2, i + 1, "else") <=> StartsIn(cd, i + 1, "else"))
  <2>1. cd2[i] = cd[i] /\ (i + 1 # n => cd2[i + 1] = cd[i + 1])
    BY <1>1
  <2> QED
    BY <2>1, SameLine
<1>6. ASSUME NEW x
      PROVE  x \in ImpliedIn(cd2) <=> x \in ImpliedIn(cd) /\ x \notin Held(cd, ln)
  <2>1. x \in ImpliedIn(cd) <=>
          \E i \in 1 .. n - 1 : /\ x = <<i + 1, 0>> /\ OneLineIn(cd, i)
                                /\ ~(StartsIn(cd, i, "if") /\ StartsIn(cd, i + 1, "else"))
    BY ImpliedFacts DEF n
  <2>2. x \in ImpliedIn(cd2) <=>
          \E i \in 1 .. n - 1 : /\ x = <<i + 1, 0>> /\ OneLineIn(cd2, i)
                                /\ ~(StartsIn(cd2, i, "if") /\ StartsIn(cd2, i + 1, "else"))
    BY <1>1, ImpliedFacts
  <2>3. CASE cd[n] # <<>>
    <3>1. Held(cd, ln) = {}
      BY <2>3 DEF Held, n
    <3>2. StartsIn(cd2, n, "else") <=> StartsIn(cd, n, "else")
      BY <1>3, <2>3
    <3>3. \A i \in 1 .. n - 1 : StartsIn(cd2, i + 1, "else") <=> StartsIn(cd, i + 1, "else")
      BY <1>5, <3>2
    <3> QED
      BY <1>5, <2>1, <2>2, <3>1, <3>3
  <2>4. CASE cd[n] = <<>>
    <3>1. ~StartsIn(cd, n, "else")
      BY <2>4 DEF StartsIn
    <3>9. a.op = "else" <=> ElseNext(ln)
      BY <2>4 DEF Decides, n
    <3>2. Held(cd, ln) = IF a.op = "else" /\ n > 1 /\ StartsIn(cd, n - 1, "if") THEN {<<n, 0>>} ELSE {}
      BY <2>4, <3>9 DEF Held, n
    <3>3. StartsIn(cd2, n, "else") <=> a.op = "else"
      BY <1>3, <2>4
    <3>4. x \in Held(cd, ln) <=> a.op = "else" /\ n > 1 /\ StartsIn(cd, n - 1, "if") /\ x = <<n, 0>>
      BY <3>2
    <3>5. ASSUME NEW i \in 1 .. n - 1, x = <<i + 1, 0>>
          PROVE  /\ i + 1 = n => (x \in Held(cd, ln) <=> a.op = "else" /\ StartsIn(cd, i, "if"))
                 /\ i + 1 # n => x \notin Held(cd, ln)
      BY <1>1, <3>4, <3>5
    <3>6. ASSUME x \in ImpliedIn(cd), x \notin Held(cd, ln) PROVE x \in ImpliedIn(cd2)
      BY <1>5, <2>1, <2>2, <3>3, <3>5, <3>6
    <3>7. ASSUME x \in ImpliedIn(cd2) PROVE x \in ImpliedIn(cd) /\ x \notin Held(cd, ln)
      <4>1. PICK i \in 1 .. n - 1 : /\ x = <<i + 1, 0>> /\ OneLineIn(cd2, i)
                                    /\ ~(StartsIn(cd2, i, "if") /\ StartsIn(cd2, i + 1, "else"))
        BY <2>2, <3>7
      <4>2. ~(StartsIn(cd, i, "if") /\ StartsIn(cd, i + 1, "else"))
        BY <1>5, <3>1, <4>1
      <4>3. x \notin Held(cd, ln)
        BY <1>5, <3>3, <3>5, <4>1
      <4> QED
        BY <1>5, <2>1, <4>1, <4>2, <4>3
    <3> QED
      BY <3>6, <3>7
  <2> QED
    BY <2>3, <2>4
<1> QED
  BY <1>4, <1>6

LEMMA PutClosers ==
  ASSUME NEW cd \in Codes, cd # <<>>, NEW a \in OpcodeRecords, NEW cd2, cd2 = Put(cd, a),
         NEW h, h = NextPlace(cd), NEW ln, NEW ln2,
         Decides(cd, a, ln)
  PROVE  /\ IsCloser(a) => ClosersOf(cd2, ln2) = ClosersOf(cd, ln) \cup {h}
         /\ ~IsCloser(a) => ClosersOf(cd2, ln2) = ClosersOf(cd, ln)
<1>1. ImpliedIn(cd2) \ Held(cd2, ln2) = ImpliedIn(cd) \ Held(cd, ln)
  BY PutImplied
<1>2. /\ IsCloser(a) => RealClosers(cd2) = RealClosers(cd) \cup {h}
      /\ ~IsCloser(a) => RealClosers(cd2) = RealClosers(cd)
  BY PutSets
<1> QED
  BY <1>1, <1>2 DEF ClosersOf

LEMMA ClosersPlaces ==
  ASSUME NEW cd \in Codes, NEW ln
  PROVE  /\ ClosersOf(cd, ln) \subseteq PlaceType
         /\ \A x \in ClosersOf(cd, ln) :
              /\ x \in PlacesOf(cd) \/ (x \notin PlacesOf(cd) /\ x[2] = 0)
              /\ x[1] \in 1 .. Len(cd) /\ Lt(x, <<Len(cd) + 1, 0>>)
              /\ cd # <<>> => Lt(x, NextPlace(cd))
<1>1. Len(cd) \in Nat
  BY PlaceFacts
<1> SUFFICES ASSUME NEW x \in ClosersOf(cd, ln)
             PROVE  /\ x \in PlaceType
                    /\ x \in PlacesOf(cd) \/ (x \notin PlacesOf(cd) /\ x[2] = 0)
                    /\ x[1] \in 1 .. Len(cd) /\ Lt(x, <<Len(cd) + 1, 0>>)
                    /\ cd # <<>> => Lt(x, NextPlace(cd))
  OBVIOUS
<1>2. CASE x \in PlacesOf(cd)
  <2>1. x \in PlaceType /\ x[1] \in 1 .. Len(cd) /\ x[2] \in 1 .. Len(cd[x[1]]) /\ Len(cd[x[1]]) \in Nat
    BY <1>2, PlaceFacts
  <2> QED
    BY <1>1, <1>2, <2>1 DEF Lt, NextPlace
<1>3. CASE x \notin PlacesOf(cd)
  <2>1. x \in ImpliedIn(cd)
    BY <1>3 DEF ClosersOf, RealClosers
  <2>2. PICK i \in 1 .. Len(cd) - 1 : x = <<i + 1, 0>>
    BY <2>1, ImpliedFacts
  <2>3. x[1] = i + 1 /\ x[2] = 0 /\ x \in PlaceType
    BY <1>1, <2>2 DEF PlaceType
  <2>4. cd # <<>> => Len(cd[Len(cd)]) \in Nat
    BY PlaceFacts, <1>1, <2>2
  <2> QED
    BY <1>1, <1>3, <2>2, <2>3, <2>4 DEF Lt, NextPlace
<1> QED
  BY <1>2, <1>3

LEMMA LineFacts ==
  ASSUME NEW cd \in Codes, NEW cd2, cd2 = Append(cd, <<>>)
  PROVE  /\ cd2 \in Codes /\ cd2 # <<>> /\ Len(cd2) = Len(cd) + 1 /\ cd2[Len(cd) + 1] = <<>>
         /\ \A l \in 1 .. Len(cd) : cd2[l] = cd[l]
         /\ PlacesOf(cd2) = PlacesOf(cd)
         /\ \A p \in PlacesOf(cd) : OpAt(cd2, p) = OpAt(cd, p)
         /\ Openers(cd2) = Openers(cd) /\ RealClosers(cd2) = RealClosers(cd)
         /\ Elses(cd2) = Elses(cd) /\ Ifs(cd2) = Ifs(cd)
<1>1. /\ cd2 \in Codes /\ cd2 # <<>> /\ Len(cd2) = Len(cd) + 1 /\ cd2[Len(cd) + 1] = <<>>
      /\ \A l \in 1 .. Len(cd) : cd2[l] = cd[l]
      /\ Len(cd) \in Nat
  BY DEF Codes
<1>2. ASSUME NEW p PROVE p \in PlacesOf(cd2) <=> p \in PlacesOf(cd)
  <2>1. p \in PlacesOf(cd2) <=>
          p = <<p[1], p[2]>> /\ p[1] \in 1 .. Len(cd) + 1 /\ p[2] \in 1 .. Len(cd2[p[1]])
    BY <1>1, PlaceFacts
  <2>2. p \in PlacesOf(cd) <=>
          p = <<p[1], p[2]>> /\ p[1] \in 1 .. Len(cd) /\ p[2] \in 1 .. Len(cd[p[1]])
    BY PlaceFacts
  <2>3. CASE p[1] = Len(cd) + 1
    <3>1. Len(cd2[p[1]]) = 0
      BY <1>1, <2>3
    <3>2. p[1] \notin 1 .. Len(cd) /\ p[2] \notin 1 .. 0
      BY <1>1, <2>3
    <3> QED
      BY <2>1, <2>2, <3>1, <3>2
  <2>4. CASE p[1] # Len(cd) + 1
    <3>1. p[1] \in 1 .. Len(cd) + 1 <=> p[1] \in 1 .. Len(cd)
      BY <1>1, <2>4
    <3> QED
      BY <1>1, <2>1, <2>2, <3>1
  <2> QED
    BY <2>3, <2>4
<1>3. \A p \in PlacesOf(cd) : p[1] \in 1 .. Len(cd)
  BY PlaceFacts
<1>4. \A p \in PlacesOf(cd) : OpAt(cd2, p) = OpAt(cd, p)
  BY <1>1, <1>3 DEF OpAt
<1>5. PlacesOf(cd2) = PlacesOf(cd)
  BY <1>2
<1>6. Openers(cd2) = Openers(cd) /\ RealClosers(cd2) = RealClosers(cd)
  BY ONLY <1>4, <1>5 DEF Openers, RealClosers
<1>7. Elses(cd2) = Elses(cd) /\ Ifs(cd2) = Ifs(cd)
  BY ONLY <1>4, <1>5 DEF Elses, Ifs
<1> QED
  BY <1>1, <1>4, <1>5, <1>6, <1>7

ClosesLine(cd, ln) ==
  /\ Len(cd) > 0 /\ OneLineIn(cd, Len(cd))
  /\ ~(StartsIn(cd, Len(cd), "if") /\ ElseNext(ln))

LEMMA LineClosers ==
  ASSUME NEW cd \in Codes, NEW cd2, cd2 = Append(cd, <<>>), NEW ln
  PROVE  /\ ClosesLine(cd, ln) => ClosersOf(cd2, ln) = ClosersOf(cd, <<>>) \cup {<<Len(cd) + 1, 0>>}
         /\ ~ClosesLine(cd, ln) => ClosersOf(cd2, ln) = ClosersOf(cd, <<>>)
<1> DEFINE n == Len(cd)
<1>1. /\ cd2 \in Codes /\ cd2 # <<>> /\ Len(cd2) = n + 1 /\ cd2[n + 1] = <<>>
      /\ \A l \in 1 .. n : cd2[l] = cd[l]
      /\ RealClosers(cd2) = RealClosers(cd) /\ n \in Nat
  <2>1. Len(cd) \in Nat
    BY PlaceFacts
  <2> QED
    BY <2>1, LineFacts
<1>2. Held(cd, <<>>) = {}
  BY DEF Held, ElseNext
<1>3. Held(cd2, ln) = IF ElseNext(ln) /\ n > 0 /\ StartsIn(cd, n, "if") THEN {<<n + 1, 0>>} ELSE {}
  <2>1. n > 0 => (StartsIn(cd2, n, "if") <=> StartsIn(cd, n, "if"))
    <3>1. n > 0 => cd2[n] = cd[n]
      BY <1>1
    <3> QED
      BY <3>1, SameLine
  <2>2. n + 1 - 1 = n /\ (n + 1 > 1 <=> n > 0)
    BY <1>1
  <2> QED
    BY <1>1, <2>1, <2>2 DEF Held
<1> HIDE DEF n
<1>4. ASSUME NEW x
      PROVE  x \in ImpliedIn(cd2) <=>
               x \in ImpliedIn(cd) \/ (n > 0 /\ OneLineIn(cd, n) /\ x = <<n + 1, 0>>)
  <2>1. ASSUME NEW i \in 1 .. n
        PROVE  /\ OneLineIn(cd2, i) <=> OneLineIn(cd, i)
               /\ StartsIn(cd2, i, "if") <=> StartsIn(cd, i, "if")
               /\ i # n => (StartsIn(cd2, i + 1, "else") <=> StartsIn(cd, i + 1, "else"))
               /\ i = n => ~StartsIn(cd2, i + 1, "else")
    <3>1. cd2[i] = cd[i] /\ (i # n => cd2[i + 1] = cd[i + 1])
      BY <1>1
    <3>2. i = n => cd2[i + 1] = <<>>
      BY <1>1
    <3> QED
      BY <3>1, <3>2, SameLine DEF StartsIn
  <2>2. x \in ImpliedIn(cd) <=>
          \E i \in 1 .. n - 1 : /\ x = <<i + 1, 0>> /\ OneLineIn(cd, i)
                                /\ ~(StartsIn(cd, i, "if") /\ StartsIn(cd, i + 1, "else"))
    BY ImpliedFacts DEF n
  <2>3. x \in ImpliedIn(cd2) <=>
          \E i \in 1 .. n : /\ x = <<i + 1, 0>> /\ OneLineIn(cd2, i)
                            /\ ~(StartsIn(cd2, i, "if") /\ StartsIn(cd2, i + 1, "else"))
    <3>1. n + 1 - 1 = n
      BY <1>1
    <3> QED
      <4>1. Len(cd2) - 1 = n
        BY <1>1, <3>1
      <4> QED
        BY <1>1, <4>1, ImpliedFacts
  <2>4. ASSUME x \in ImpliedIn(cd2)
        PROVE  x \in ImpliedIn(cd) \/ (n > 0 /\ OneLineIn(cd, n) /\ x = <<n + 1, 0>>)
    <3>1. PICK i \in 1 .. n : /\ x = <<i + 1, 0>> /\ OneLineIn(cd2, i)
                              /\ ~(StartsIn(cd2, i, "if") /\ StartsIn(cd2, i + 1, "else"))
      BY <2>3, <2>4
    <3>2. CASE i = n
      BY <1>1, <2>1, <3>1, <3>2
    <3>3. CASE i # n
      <4>1. i \in 1 .. n - 1
        BY <1>1, <3>3
      <4> QED
        BY <2>1, <2>2, <3>1, <3>3, <4>1
    <3> QED
      BY <3>2, <3>3
  <2>5. ASSUME x \in ImpliedIn(cd) PROVE x \in ImpliedIn(cd2)
    <3>1. PICK i \in 1 .. n - 1 : /\ x = <<i + 1, 0>> /\ OneLineIn(cd, i)
                                  /\ ~(StartsIn(cd, i, "if") /\ StartsIn(cd, i + 1, "else"))
      BY <2>2, <2>5
    <3>2. i \in 1 .. n /\ i # n
      BY <1>1
    <3> QED
      BY <2>1, <2>3, <3>1, <3>2
  <2>6. ASSUME n > 0, OneLineIn(cd, n), x = <<n + 1, 0>> PROVE x \in ImpliedIn(cd2)
    <3>1. n \in 1 .. n
      BY <1>1, <2>6
    <3> QED
      BY <2>1, <2>3, <2>6, <3>1
  <2> QED
    BY <2>4, <2>5, <2>6
<1>5. <<n + 1, 0>> \notin ImpliedIn(cd)
  <2>1. ASSUME NEW i \in 1 .. n - 1 PROVE <<n + 1, 0>> # <<i + 1, 0>>
    BY <1>1
  <2> QED
    BY <2>1, ImpliedFacts DEF n
<1>6. CASE ClosesLine(cd, ln)
  <2>1. n > 0 /\ OneLineIn(cd, n) /\ Held(cd2, ln) = {}
    BY <1>3, <1>6 DEF ClosesLine, n
  <2>2. ImpliedIn(cd2) = ImpliedIn(cd) \cup {<<n + 1, 0>>}
    BY <1>4, <2>1
  <2> QED
    BY <1>1, <1>2, <1>6, <2>1, <2>2 DEF ClosersOf, n
<1>7. CASE ~ClosesLine(cd, ln)
  <2>1. ImpliedIn(cd2) \ Held(cd2, ln) = ImpliedIn(cd)
    <3>1. CASE n > 0 /\ OneLineIn(cd, n)
      <4>1. Held(cd2, ln) = {<<n + 1, 0>>}
        BY <1>3, <1>7, <3>1 DEF ClosesLine, n
      <4>2. ImpliedIn(cd2) = ImpliedIn(cd) \cup {<<n + 1, 0>>}
        BY <1>4, <3>1
      <4> QED
        BY <1>5, <4>1, <4>2
    <3>2. CASE ~(n > 0 /\ OneLineIn(cd, n))
      <4>1. ImpliedIn(cd2) = ImpliedIn(cd)
        BY <1>4, <3>2
      <4> QED
        BY <1>3, <1>5, <4>1
    <3> QED
      BY <3>1, <3>2
  <2> QED
    BY <1>1, <1>2, <1>7, <2>1 DEF ClosersOf
<1> QED
  BY <1>6, <1>7

-----------------------------------------------------------------------------
(* What is settled stays settled when the program grows.                   *)

Grown(cd, W, cd2, W2) ==
  /\ cd \in Codes /\ cd2 \in Codes /\ PlacesOf(cd) \subseteq PlacesOf(cd2)
  /\ \A p \in PlacesOf(cd) : OpAt(cd2, p) = OpAt(cd, p)
  /\ \A p \in PlacesOf(cd2) \ PlacesOf(cd), q \in PlacesOf(cd) : Lt(q, p)
  /\ \A x : LastOn(cd, W, x) => LastOn(cd2, W2, x)
Extends(f, f2) == DOMAIN f \subseteq DOMAIN f2 /\ \A x \in DOMAIN f : f2[x] = f[x]
\* A new ELSE belongs to a block that was still open.
Extended(cd, c, g, cd2, c2, g2) ==
  /\ Extends(c, c2) /\ Extends(g, g2)
  /\ \A e \in Elses(cd2) \ Elses(cd) : g2[e] \notin DOMAIN c

LEMMA WithExtends ==
  ASSUME NEW f, NEW x, NEW v, NEW f2, f2 = With(f, x, v), x \notin DOMAIN f
  PROVE  Extends(f, f2)
BY DEF Extends, With

LEMMA GrownSets ==
  ASSUME NEW cd, NEW W, NEW cd2, NEW W2, Grown(cd, W, cd2, W2)
  PROVE  /\ Openers(cd) \subseteq Openers(cd2) /\ Elses(cd) \subseteq Elses(cd2)
         /\ Ifs(cd) \subseteq Ifs(cd2) /\ RealClosers(cd) \subseteq RealClosers(cd2)
         /\ \A e \in Elses(cd2) \ Elses(cd) : e \in PlacesOf(cd2) \ PlacesOf(cd)
         /\ \A e \in Openers(cd2) \ Openers(cd) : e \in PlacesOf(cd2) \ PlacesOf(cd)
BY DEF Grown, Openers, Elses, Ifs, RealClosers

LEMMA LandsKept ==
  ASSUME NEW cd, NEW W, NEW cd2, NEW W2, Grown(cd, W, cd2, W2), NEW t, NEW x, Lands(cd, W, t, x)
  PROVE  Lands(cd2, W2, t, x)
BY DEF Grown, Lands

LEMMA DoneKept ==
  ASSUME NEW cd, NEW W, NEW cd2, NEW W2, Grown(cd, W, cd2, W2),
         NEW jp, NEW c, NEW g, NEW jp2, NEW c2, NEW g2, Extended(cd, c, g, cd2, c2, g2),
         DOMAIN g = Marks(cd), \A x \in DOMAIN g : g[x] \in Openers(cd), DOMAIN c \subseteq Openers(cd),
         NEW p \in PlacesOf(cd), jp2[p] = jp[p], Done(cd, W, jp, c, g, p)
  PROVE  Done(cd2, W2, jp2, c2, g2, p)
<1>1. /\ \A o \in DOMAIN c : o \in DOMAIN c2 /\ c2[o] = c[o]
      /\ \A x \in DOMAIN g : x \in DOMAIN g2 /\ g2[x] = g[x]
      /\ \A e \in Elses(cd2) \ Elses(cd) : g2[e] \notin DOMAIN c
  BY DEF Extended, Extends
<1>2. /\ cd \in Codes /\ \A q \in PlacesOf(cd) : OpAt(cd2, q) = OpAt(cd, q)
      /\ \A x \in PlacesOf(cd2) \ PlacesOf(cd), q \in PlacesOf(cd) : Lt(q, x)
      /\ \A x : LastOn(cd, W, x) => LastOn(cd2, W2, x)
      /\ PlacesOf(cd) \subseteq PlaceType /\ PlacesOf(cd2) \subseteq PlaceType
  BY PlaceFacts DEF Grown
<1>3. OpAt(cd2, p) = OpAt(cd, p)
  BY <1>2
<1>4. Elses(cd) \subseteq Elses(cd2) /\ Elses(cd) \subseteq PlacesOf(cd)
  BY GrownSets DEF Elses
<1>5. \A e \in Elses(cd2) \ Elses(cd) : e \in PlacesOf(cd2) \ PlacesOf(cd)
  BY GrownSets
<1>6. \A e \in Elses(cd) : e \in DOMAIN g
  BY DEF Marks
<1>7. CASE OpAt(cd, p).op = "if" /\ OfIf(cd, g, p) /\ IfDone(cd, W, jp, c, g, p)
  <2>1. p \in DOMAIN g /\ g2[p] = g[p]
    BY <1>1, <1>7 DEF Marks, Ifs
  <2>4. OfIf(cd2, g2, p)
    BY <1>2, <1>7, <2>1 DEF OfIf, Openers
  <2>2. CASE \E e \in Elses(cd) :
               /\ g[e] = g[p] /\ Lt(p, e) /\ Lands(cd, W, jp[p], e)
               /\ \A f \in Elses(cd) : g[f] = g[p] /\ Lt(p, f) => ~Lt(f, e)
    <3>1. PICK e \in Elses(cd) :
               /\ g[e] = g[p] /\ Lt(p, e) /\ Lands(cd, W, jp[p], e)
               /\ \A f \in Elses(cd) : g[f] = g[p] /\ Lt(p, f) => ~Lt(f, e)
      BY <2>2
    <3>2. e \in Elses(cd2) /\ g2[e] = g2[p] /\ Lands(cd2, W2, jp2[p], e)
      BY <1>1, <1>4, <1>6, <2>1, <3>1, LandsKept
    <3>3. ASSUME NEW f \in Elses(cd2), g2[f] = g2[p], Lt(p, f) PROVE ~Lt(f, e)
      <4>1. CASE f \in Elses(cd)
        BY <1>1, <1>6, <2>1, <3>1, <3>3, <4>1
      <4>2. CASE f \notin Elses(cd)
        <5>1. Lt(e, f) /\ e \in PlaceType /\ f \in PlaceType
          BY <1>2, <1>4, <1>5, <4>2
        <5> QED
          BY <5>1, LtOrder
      <4> QED
        BY <4>1, <4>2
    <3>4. IfDone(cd2, W2, jp2, c2, g2, p)
      BY <3>1, <3>2, <3>3 DEF IfDone
    <3> QED
      BY <1>3, <1>7, <2>4, <3>4 DEF Done
  <2>3. CASE /\ g[p] \in DOMAIN c /\ Lands(cd, W, jp[p], c[g[p]])
             /\ \A e \in Elses(cd) : g[e] = g[p] => ~Lt(p, e)
    <3>1. g2[p] \in DOMAIN c2 /\ c2[g2[p]] = c[g[p]] /\ Lands(cd2, W2, jp2[p], c2[g2[p]])
      BY <1>1, <2>1, <2>3, LandsKept
    <3>2. ASSUME NEW e \in Elses(cd2), g2[e] = g2[p] PROVE ~Lt(p, e)
      BY <1>1, <1>6, <2>1, <2>3, <3>2
    <3>3. IfDone(cd2, W2, jp2, c2, g2, p)
      BY <3>1, <3>2 DEF IfDone
    <3> QED
      BY <1>3, <1>7, <2>4, <3>3 DEF Done
  <2> QED
    BY <1>7, <2>2, <2>3 DEF IfDone
<1>8. CASE OpAt(cd, p).op = "else" /\ OfIf(cd, g, p) /\ ElseDone(cd, W, jp, c, g, p)
  <2>1. p \in DOMAIN g /\ g2[p] = g[p]
    BY <1>1, <1>8 DEF Marks, Elses
  <2>4. OfIf(cd2, g2, p)
    BY <1>2, <1>8, <2>1 DEF OfIf, Openers
  <2>2. g2[p] \in DOMAIN c2 /\ c2[g2[p]] = c[g[p]] /\ Lands(cd, W, jp[p], c[g[p]])
    BY <1>1, <1>8, <2>1 DEF ElseDone
  <2>3. ElseDone(cd2, W2, jp2, c2, g2, p)
    BY <2>2, LandsKept DEF ElseDone
  <2> QED
    BY <1>3, <1>8, <2>3, <2>4 DEF Done
<1>9. CASE OpAt(cd, p).op \in LoopOps /\ LoopDone(cd, W, jp, c, p)
  <2>1. LoopDone(cd2, W2, jp2, c2, p)
    BY <1>1, <1>2, <1>9 DEF LoopDone
  <2> QED
    BY <1>3, <1>9, <2>1 DEF Done
<1>10. CASE OpAt(cd, p).op = "next" /\ NextDone(jp, c, p)
  <2>1. NextDone(jp2, c2, p)
    BY <1>1, <1>10 DEF NextDone
  <2> QED
    BY <1>3, <1>10, <2>1 DEF Done
<1>11. CASE OpAt(cd, p).op = "return" /\ ReturnDone(cd, jp, c, p)
  <2>1. PICK o \in DOMAIN c : /\ OpAt(cd, o).op = "sub" /\ Lt(o, p) /\ Lt(p, c[o])
                              /\ c[o] = <<jp[p][1], 1>> /\ jp[p][2] = 0
    BY <1>11 DEF ReturnDone
  <2>2. OpAt(cd2, o).op = "sub" /\ o \in DOMAIN c2 /\ c2[o] = c[o]
    BY <1>1, <1>2, <2>1 DEF Openers
  <2>3. ReturnDone(cd2, jp2, c2, p)
    BY <2>1, <2>2 DEF ReturnDone
  <2> QED
    BY <1>3, <1>11, <2>3 DEF Done
<1> QED
  BY <1>7, <1>8, <1>9, <1>10, <1>11 DEF Done

Keeps(cd, W, jp, c, g, cd2, W2, jp2, c2, g2) ==
  /\ Grown(cd, W, cd2, W2) /\ Extended(cd, c, g, cd2, c2, g2)
  /\ DOMAIN g = Marks(cd) /\ \A x \in DOMAIN g : g[x] \in Openers(cd)
  /\ DOMAIN jp \subseteq DOMAIN jp2 /\ DOMAIN jp \subseteq PlacesOf(cd)
Untouched(cd, jp, g, cd2, jp2, g2, b) ==
  /\ b.type \in Slotted => jp2[b.slot] = jp[b.slot]
  /\ \A p \in b.deps : jp2[p] = jp[p]
  /\ b.type = "if" => \A e \in Elses(cd2) \ Elses(cd) : g2[e] # g[b.slot]

LEMMA BlockKept ==
  ASSUME NEW cd, NEW W, NEW cd2, NEW W2, NEW jp, NEW c, NEW g, NEW jp2, NEW c2, NEW g2,
         Keeps(cd, W, jp, c, g, cd2, W2, jp2, c2, g2),
         NEW b, BlockFits(cd, jp, c, g, b), Untouched(cd, jp, g, cd2, jp2, g2, b)
  PROVE  BlockFits(cd2, jp2, c2, g2, b) /\ g2[b.slot] = g[b.slot]
<1> USE DEF Keeps, Untouched
<1>1. /\ \A x \in DOMAIN g : x \in DOMAIN g2 /\ g2[x] = g[x]
  BY DEF Extended, Extends
<1>2. \A q \in PlacesOf(cd) : OpAt(cd2, q) = OpAt(cd, q)
  BY DEF Grown
<1>3. /\ b.slot \in DOMAIN g /\ OpAt(cd, b.slot).op = b.type
      /\ IF b.type \in {"if", "else"} THEN OpAt(cd, g[b.slot]).op = "if" ELSE g[b.slot] = b.slot
      /\ b.type = "if" => \A e \in Elses(cd) : g[e] = g[b.slot] => ~Lt(b.slot, e)
      /\ b.type = "for" => b.var = OpAt(cd, b.slot).v
      /\ b.type \in LoopOps => b.slot = <<b.first, b.off1 + 1>>
      /\ b.type \in Slotted => b.slot \in DOMAIN jp /\ jp[b.slot] = Unpatched
      /\ \A p \in b.deps : /\ p \in DOMAIN jp /\ jp[p] = Unpatched
                            /\ OpAt(cd, p).op = "return" /\ Lt(b.slot, p)
      /\ b.type # "sub" => b.deps = {}
      /\ b.dangling => b.type = "else"
  BY DEF BlockFits
<1>4. Marks(cd) \subseteq PlacesOf(cd) /\ Openers(cd) \subseteq PlacesOf(cd) /\ Elses(cd) \subseteq DOMAIN g
  BY DEF Marks, Openers, Elses, Ifs
<1>5. /\ b.slot \in DOMAIN g2 /\ g2[b.slot] = g[b.slot] /\ OpAt(cd2, b.slot).op = b.type
      /\ OpAt(cd2, b.slot) = OpAt(cd, b.slot)
      /\ OpAt(cd2, g2[b.slot]) = OpAt(cd, g[b.slot])
  BY <1>1, <1>2, <1>3, <1>4
<1>6. b.type = "if" => \A e \in Elses(cd2) : g2[e] = g2[b.slot] => ~Lt(b.slot, e)
  BY <1>1, <1>3, <1>4, <1>5
<1>7. \A p \in b.deps : /\ p \in DOMAIN jp2 /\ jp2[p] = Unpatched
                        /\ OpAt(cd2, p).op = "return" /\ Lt(b.slot, p)
  BY <1>2, <1>3
<1>8. b.type \in Slotted => b.slot \in DOMAIN jp2 /\ jp2[b.slot] = Unpatched
  BY <1>3
<1>9. IF b.type \in {"if", "else"} THEN OpAt(cd2, g2[b.slot]).op = "if" ELSE g2[b.slot] = b.slot
  BY <1>3, <1>5
<1>10. (b.type = "for" => b.var = OpAt(cd2, b.slot).v) /\ (b.type \in LoopOps => b.slot = <<b.first, b.off1 + 1>>)
  BY <1>3, <1>5
<1> QED
  BY <1>3, <1>5, <1>6, <1>7, <1>8, <1>9, <1>10 DEF BlockFits

(***************************************************************************)
(* Blocks come and go at the top of the stack.                             *)
(***************************************************************************)
BlockSeqs == Seq(BlockRecords)

\* do_endif pops what dangles; every other command pops one block.
CutsTo(bs, n) ==
  /\ n \in 0 .. Len(bs) - 1
  /\ \A i \in n + 1 .. Len(bs) - 1 : bs[i].dangling
  /\ n > 0 => ~bs[n].dangling

LEMMA TopOpener ==
  ASSUME NEW bs \in BlockSeqs, bs # <<>>, NEW U, NEW g, Ranked(bs, U, g),
         NEW o, o = g[bs[Len(bs)].slot]
  PROVE  o \in U /\ (\A u \in U : u = o \/ Lt(u, o)) /\ ~bs[Len(bs)].dangling
<1>1. Len(bs) \in Nat \ {0} /\ Len(bs) \in 1 .. Len(bs)
  BY DEF BlockSeqs
<1>2. o \in U /\ ~(Len(bs) < Len(bs)) /\ ~bs[Len(bs)].dangling
  BY <1>1 DEF Ranked
<1>3. ASSUME NEW u \in U PROVE u = o \/ Lt(u, o)
  <2>1. PICK i \in 1 .. Len(bs) : g[bs[i].slot] = u
    BY DEF Ranked
  <2>2. CASE i = Len(bs)
    BY <2>1, <2>2
  <2>3. CASE i < Len(bs)
    <3>1. CASE \A k \in i .. Len(bs) - 1 : bs[k].dangling
      BY <1>1, <2>1, <2>3, <3>1 DEF Ranked
    <3>2. CASE \E k \in i .. Len(bs) - 1 : ~bs[k].dangling
      BY <1>1, <2>1, <3>2 DEF Ranked
    <3> QED
      BY <3>1, <3>2
  <2> QED
    BY <1>1, <2>2, <2>3
<1> QED
  BY <1>2, <1>3

Cuts(bs, U, g, o, n, rest) ==
  /\ bs \in BlockSeqs /\ bs # <<>> /\ U \subseteq PlaceType /\ Ranked(bs, U, g)
  /\ o = g[bs[Len(bs)].slot] /\ CutsTo(bs, n) /\ rest = SubSeq(bs, 1, n)

CutLeaves(bs, U, g, o, n, rest) ==
  /\ Ranked(rest, U \ {o}, g) /\ rest \in BlockSeqs /\ Len(rest) = n
  /\ \A i \in 1 .. n : rest[i] = bs[i] /\ g[bs[i].slot] # o
  /\ \A i \in n + 1 .. Len(bs) : g[bs[i].slot] = o

LEMMA RankedCut ==
  ASSUME NEW bs, NEW U, NEW g, NEW o, NEW n, NEW rest, Cuts(bs, U, g, o, n, rest)
  PROVE  CutLeaves(bs, U, g, o, n, rest)
<1> SUFFICES /\ Ranked(rest, U \ {o}, g) /\ rest \in BlockSeqs /\ Len(rest) = n
             /\ \A i \in 1 .. n : rest[i] = bs[i] /\ g[bs[i].slot] # o
             /\ \A i \in n + 1 .. Len(bs) : g[bs[i].slot] = o
  BY DEF CutLeaves
<1> USE DEF Cuts
<1> DEFINE m == Len(bs)
<1>1. m \in Nat \ {0} /\ m \in 1 .. m /\ n \in 0 .. m - 1 /\ n \in Nat
  BY DEF BlockSeqs, CutsTo
<1>2. rest \in BlockSeqs /\ Len(rest) = n /\ \A i \in 1 .. n : rest[i] = bs[i]
  BY <1>1 DEF BlockSeqs
<1>3. \A i \in n + 1 .. m : g[bs[i].slot] = o
  <2> SUFFICES ASSUME NEW i \in n + 1 .. m, i # m PROVE g[bs[i].slot] = o
    OBVIOUS
  <2>1. i < m /\ i \in 1 .. m
    BY <1>1
  <2>2. \A k \in i .. m - 1 : bs[k].dangling
    BY <1>1 DEF CutsTo
  <2> QED
    BY <1>1, <2>1, <2>2 DEF Ranked
<1> HIDE DEF m
<1>4. ASSUME NEW i \in 1 .. n PROVE g[bs[i].slot] # o
  <2>1. n \in i .. m - 1 /\ i \in 1 .. m /\ ~bs[n].dangling
    BY <1>1 DEF CutsTo, m
  <2>2. Lt(g[bs[i].slot], o)
    BY <1>1, <2>1 DEF Ranked, m
  <2>3. g[bs[i].slot] \in PlaceType /\ o \in PlaceType
    BY <1>1, <2>1 DEF Ranked, m
  <2> QED
    BY <2>2, <2>3, LtOrder
<1>5. \A i \in 1 .. n : i \in 1 .. m
  BY <1>1
<1>6. \A i \in 1 .. Len(rest) : g[rest[i].slot] \in U \ {o}
  BY <1>2, <1>4, <1>5 DEF Ranked, m
<1>7. ASSUME NEW u \in U \ {o} PROVE \E i \in 1 .. Len(rest) : g[rest[i].slot] = u
  <2>1. PICK i \in 1 .. m : g[bs[i].slot] = u
    BY DEF Ranked, m
  <2>2. i \in 1 .. n
    BY <1>1, <1>3, <2>1
  <2> QED
    BY <1>2, <2>1, <2>2
<1>8. \A i, j \in 1 .. Len(rest) : \A k \in i .. j - 1 :
        ~rest[k].dangling => Lt(g[rest[i].slot], g[rest[j].slot])
  <2> SUFFICES ASSUME NEW i \in 1 .. n, NEW j \in 1 .. n, NEW k \in i .. j - 1, ~rest[k].dangling
               PROVE  Lt(g[rest[i].slot], g[rest[j].slot])
    BY <1>2
  <2>1. k \in 1 .. n
    BY <1>1
  <2> QED
    BY <1>2, <1>5, <2>1 DEF Ranked, m
<1>9. ASSUME NEW i \in 1 .. Len(rest), NEW j \in 1 .. Len(rest), i < j,
             \A k \in i .. j - 1 : rest[k].dangling
      PROVE  g[rest[i].slot] = g[rest[j].slot]
  <2>1. i \in 1 .. n /\ j \in 1 .. n /\ i \in 1 .. m /\ j \in 1 .. m
    BY <1>2, <1>5
  <2>2. \A k \in i .. j - 1 : k \in 1 .. n
    BY <1>1, <2>1
  <2>3. \A k \in i .. j - 1 : bs[k].dangling
    BY <1>2, <1>9, <2>2
  <2>4. g[bs[i].slot] = g[bs[j].slot]
    BY <1>9, <2>1, <2>3 DEF Ranked, m
  <2> QED
    BY <1>2, <2>1, <2>4
<1>10. ASSUME NEW i \in 1 .. Len(rest), rest[i].dangling
       PROVE  i < Len(rest) /\ rest[i + 1].type \in {"if", "else"}
  <2>1. i \in 1 .. n /\ bs[i].dangling /\ i \in 1 .. m
    BY <1>2, <1>5, <1>10
  <2>2. i # n
    BY <1>1, <2>1 DEF CutsTo
  <2>3. i + 1 \in 1 .. n
    BY <1>1, <2>1, <2>2
  <2>4. bs[i + 1].type \in {"if", "else"}
    BY <2>1 DEF Ranked, m
  <2> QED
    BY <1>1, <1>2, <2>1, <2>2, <2>3, <2>4
<1>12. \A i, j \in 1 .. Len(rest) :
         i < j /\ (\A k \in i .. j - 1 : rest[k].dangling) => g[rest[i].slot] = g[rest[j].slot]
  BY <1>9
<1>11. Ranked(rest, U \ {o}, g)
  BY <1>6, <1>7, <1>8, <1>10, <1>12 DEF Ranked
<1> QED
  BY <1>2, <1>3, <1>4, <1>11 DEF m

\* A block that is not of IF or ELSE has no ELSE dangling below it.
LEMMA CutOne ==
  ASSUME NEW bs \in BlockSeqs, bs # <<>>, NEW U, NEW g, Ranked(bs, U, g),
         bs[Len(bs)].type \notin {"if", "else"}
  PROVE  CutsTo(bs, Len(bs) - 1)
<1>1. Len(bs) \in Nat \ {0}
  BY DEF BlockSeqs
<1>2. Len(bs) - 1 > 0 => ~bs[Len(bs) - 1].dangling
  <2> SUFFICES ASSUME Len(bs) - 1 > 0, bs[Len(bs) - 1].dangling PROVE FALSE
    OBVIOUS
  <2>1. Len(bs) - 1 \in 1 .. Len(bs) /\ Len(bs) - 1 + 1 = Len(bs)
    BY <1>1
  <2>2. bs[Len(bs) - 1 + 1].type \in {"if", "else"}
    BY <2>1 DEF Ranked
  <2> QED
    BY <2>1, <2>2
<1> QED
  BY <1>1, <1>2 DEF CutsTo

LEMMA RankedPush ==
  ASSUME NEW bs \in BlockSeqs, NEW U, U \subseteq PlaceType, NEW g, Ranked(bs, U, g),
         NEW b \in BlockRecords, NEW g2, NEW p \in PlaceType, g2[b.slot] = p, ~b.dangling,
         \A u \in U : Lt(u, p), \A i \in 1 .. Len(bs) : g2[bs[i].slot] = g[bs[i].slot],
         NEW more, more = Append(bs, b)
  PROVE  Ranked(more, U \cup {p}, g2) /\ more \in BlockSeqs
<1> DEFINE m == Len(bs)
<1>1. m \in Nat /\ more \in BlockSeqs /\ Len(more) = m + 1 /\ more[m + 1] = b
  BY DEF BlockSeqs
<1>2. \A i \in 1 .. m : more[i] = bs[i] /\ g2[more[i].slot] = g[bs[i].slot]
  BY DEF BlockSeqs
<1>3. m > 0 => ~bs[m].dangling
  <2>1. m > 0 => m \in 1 .. m /\ ~(m < m)
    BY <1>1
  <2> QED
    BY <2>1 DEF Ranked
<1> HIDE DEF m
<1>4. \A i \in 1 .. m + 1 : i \in 1 .. m \/ i = m + 1
  BY <1>1
<1>5. \A i \in 1 .. m : g[bs[i].slot] \in U
  BY DEF Ranked, m
<1>6. \A i \in 1 .. Len(more) : g2[more[i].slot] \in U \cup {p}
  BY <1>1, <1>2, <1>4, <1>5
<1>7. ASSUME NEW u \in U \cup {p} PROVE \E i \in 1 .. Len(more) : g2[more[i].slot] = u
  <2>1. CASE u = p
    BY <1>1, <2>1
  <2>2. CASE u \in U
    <3>1. PICK i \in 1 .. m : g[bs[i].slot] = u
      BY <2>2 DEF Ranked, m
    <3> QED
      BY <1>1, <1>2, <3>1
  <2> QED
    BY <2>1, <2>2
<1>8. ASSUME NEW i \in 1 .. Len(more), NEW j \in 1 .. Len(more), NEW k \in i .. j - 1, ~more[k].dangling
      PROVE  Lt(g2[more[i].slot], g2[more[j].slot])
  <2>1. i \in 1 .. m /\ k \in 1 .. m
    BY <1>1
  <2>2. CASE j = m + 1
    BY <1>1, <1>2, <1>5, <2>1, <2>2
  <2>3. CASE j \in 1 .. m
    BY <1>2, <1>8, <2>1, <2>3 DEF Ranked, m
  <2> QED
    BY <1>1, <1>4, <2>2, <2>3
<1>9. ASSUME NEW i \in 1 .. Len(more), NEW j \in 1 .. Len(more), i < j,
             \A k \in i .. j - 1 : more[k].dangling
      PROVE  g2[more[i].slot] = g2[more[j].slot]
  <2>1. i \in 1 .. m
    BY <1>1, <1>9
  <2>2. j # m + 1
    <3> SUFFICES ASSUME j = m + 1 PROVE FALSE
      OBVIOUS
    <3>1. m \in i .. j - 1 /\ m > 0 /\ m \in 1 .. m
      BY <1>1, <2>1
    <3> QED
      BY <1>2, <1>3, <1>9, <3>1
  <2>3. j \in 1 .. m
    BY <1>1, <1>4, <2>2
  <2>4. \A k \in i .. j - 1 : k \in 1 .. m
    BY <1>1, <2>3
  <2>5. \A k \in i .. j - 1 : bs[k].dangling
    BY <1>2, <1>9, <2>4
  <2> QED
    BY <1>2, <1>9, <2>1, <2>3, <2>5 DEF Ranked, m
<1>10. ASSUME NEW i \in 1 .. Len(more), more[i].dangling
       PROVE  i < Len(more) /\ more[i + 1].type \in {"if", "else"}
  <2>1. i \in 1 .. m
    BY <1>1, <1>4, <1>10
  <2>2. bs[i].dangling
    BY <1>2, <1>10, <2>1
  <2>3. i < m /\ bs[i + 1].type \in {"if", "else"}
    BY <2>1, <2>2 DEF Ranked, m
  <2>4. i + 1 \in 1 .. m
    BY <1>1, <2>1, <2>3
  <2> QED
    BY <1>1, <1>2, <2>3, <2>4
<1>11. \A i, j \in 1 .. Len(more) : \A k \in i .. j - 1 :
         ~more[k].dangling => Lt(g2[more[i].slot], g2[more[j].slot])
  BY <1>8
<1>12. \A i, j \in 1 .. Len(more) :
         i < j /\ (\A k \in i .. j - 1 : more[k].dangling) => g2[more[i].slot] = g2[more[j].slot]
  BY <1>9
<1> QED
  BY <1>1, <1>6, <1>7, <1>10, <1>11, <1>12 DEF Ranked

\* ELSE and ELSE IF put blocks of the same opener in the place of the IF on top.
Swaps(bs, U, g, o, g2, new) ==
  /\ bs \in BlockSeqs /\ bs # <<>> /\ Ranked(bs, U, g) /\ o = g[bs[Len(bs)].slot]
  /\ new \in BlockSeqs /\ Len(new) \in {Len(bs), Len(bs) + 1}
  /\ \A i \in 1 .. Len(bs) - 1 : new[i] = bs[i] /\ g2[bs[i].slot] = g[bs[i].slot]
  /\ \A j \in Len(bs) .. Len(new) : /\ g2[new[j].slot] = o /\ new[j].type \in {"if", "else"}
                                    /\ new[j].dangling => j < Len(new)
                                    /\ j < Len(new) => new[j].dangling

LEMMA RankedSwap ==
  ASSUME NEW bs, NEW U, NEW g, NEW o, NEW g2, NEW new, Swaps(bs, U, g, o, g2, new)
  PROVE  Ranked(new, U, g2)
<1> USE DEF Swaps
<1> DEFINE m == Len(bs)
           r == Len(new)
<1>1. m \in Nat \ {0} /\ r \in Nat /\ m \in 1 .. m /\ (r = m \/ r = m + 1)
  BY DEF BlockSeqs
<1>2. \A i \in 1 .. m - 1 : new[i] = bs[i] /\ g2[new[i].slot] = g[bs[i].slot]
  OBVIOUS
<1>3. \A j \in m .. r : /\ g2[new[j].slot] = o /\ new[j].type \in {"if", "else"}
                        /\ new[j].dangling => j < r
                        /\ j < r => new[j].dangling
  OBVIOUS
<1> HIDE DEF m, r
<1>4. \A i \in 1 .. r : (i \in 1 .. m - 1 /\ i \in 1 .. m) \/ i \in m .. r
  BY <1>1
<1>5. o \in U /\ \A i \in 1 .. m : g[bs[i].slot] \in U
  BY <1>1 DEF Ranked, m
<1>6. \A i \in 1 .. r : g2[new[i].slot] \in U
  BY <1>2, <1>3, <1>4, <1>5
<1>7. ASSUME NEW u \in U PROVE \E i \in 1 .. r : g2[new[i].slot] = u
  <2>1. PICK i \in 1 .. m : g[bs[i].slot] = u
    BY DEF Ranked, m
  <2>2. CASE i = m
    <3>1. m \in 1 .. r /\ m \in m .. r
      BY <1>1
    <3> QED
      BY <1>3, <2>1, <2>2, <3>1 DEF m
  <2>3. CASE i # m
    <3>1. i \in 1 .. m - 1 /\ i \in 1 .. r
      BY <1>1, <2>3
    <3> QED
      BY <1>2, <2>1, <3>1
  <2> QED
    BY <2>2, <2>3
<1>8. ASSUME NEW i \in 1 .. r, NEW j \in 1 .. r, NEW k \in i .. j - 1, ~new[k].dangling
      PROVE  Lt(g2[new[i].slot], g2[new[j].slot])
  <2>1. k \in 1 .. m - 1
    <3>1. k \in 1 .. r /\ k < r
      BY <1>1
    <3>2. k \notin m .. r
      BY <1>3, <1>8, <3>1
    <3> QED
      BY <1>4, <3>1, <3>2
  <2>2. i \in 1 .. m - 1 /\ i \in 1 .. m /\ ~bs[k].dangling
    BY <1>1, <1>2, <1>8, <2>1
  <2>3. CASE j \in m .. r
    <3>1. k \in i .. m - 1
      BY <1>1, <2>1
    <3>2. Lt(g[bs[i].slot], g[bs[m].slot])
      BY <1>1, <2>2, <3>1 DEF Ranked, m
    <3> QED
      BY <1>2, <1>3, <2>2, <2>3, <3>2 DEF m
  <2>4. CASE j \in 1 .. m - 1 /\ j \in 1 .. m
    <3>1. Lt(g[bs[i].slot], g[bs[j].slot])
      BY <2>2, <2>4 DEF Ranked, m
    <3> QED
      BY <1>2, <2>2, <2>4, <3>1
  <2> QED
    BY <1>4, <2>3, <2>4
<1>9. ASSUME NEW i \in 1 .. r, NEW j \in 1 .. r, i < j, \A k \in i .. j - 1 : new[k].dangling
      PROVE  g2[new[i].slot] = g2[new[j].slot]
  <2>1. CASE i \in m .. r
    <3>1. j \in m .. r
      BY <1>1, <1>9, <2>1
    <3> QED
      BY <1>3, <2>1, <3>1
  <2>2. CASE i \in 1 .. m - 1 /\ i \in 1 .. m /\ j \in m .. r
    <3>1. \A k \in i .. m - 1 : k \in i .. j - 1 /\ k \in 1 .. m - 1
      BY <1>1, <2>2
    <3>2. \A k \in i .. m - 1 : bs[k].dangling
      BY <1>2, <1>9, <3>1
    <3>3. i < m
      BY <1>1, <2>2
    <3>4. g[bs[i].slot] = g[bs[m].slot]
      BY <1>1, <2>2, <3>2, <3>3 DEF Ranked, m
    <3> QED
      BY <1>2, <1>3, <2>2, <3>4 DEF m
  <2>3. CASE i \in 1 .. m - 1 /\ i \in 1 .. m /\ j \in 1 .. m - 1 /\ j \in 1 .. m
    <3>1. \A k \in i .. j - 1 : k \in 1 .. m - 1
      BY <1>1, <2>3
    <3>2. \A k \in i .. j - 1 : bs[k].dangling
      BY <1>2, <1>9, <3>1
    <3>3. g[bs[i].slot] = g[bs[j].slot]
      BY <1>9, <2>3, <3>2 DEF Ranked, m
    <3> QED
      BY <1>2, <2>3, <3>3
  <2> QED
    BY <1>4, <2>1, <2>2, <2>3
<1>10. ASSUME NEW i \in 1 .. r, new[i].dangling
       PROVE  i < r /\ new[i + 1].type \in {"if", "else"}
  <2>1. CASE i \in m .. r
    <3>1. i < r
      BY <1>3, <1>10, <2>1
    <3>2. i + 1 \in m .. r
      BY <1>1, <2>1, <3>1
    <3> QED
      BY <1>3, <3>1, <3>2
  <2>2. CASE i \in 1 .. m - 1 /\ i \in 1 .. m
    <3>1. bs[i].dangling
      BY <1>2, <1>10, <2>2
    <3>2. bs[i + 1].type \in {"if", "else"}
      BY <2>2, <3>1 DEF Ranked, m
    <3>3. i < r /\ (i + 1 = m \/ i + 1 \in 1 .. m - 1)
      BY <1>1, <2>2
    <3>4. m \in m .. r
      BY <1>1
    <3> QED
      BY <1>2, <1>3, <3>2, <3>3, <3>4
  <2> QED
    BY <1>4, <2>1, <2>2
<1>11. \A i, j \in 1 .. r : \A k \in i .. j - 1 :
         ~new[k].dangling => Lt(g2[new[i].slot], g2[new[j].slot])
  BY <1>8
<1>12. \A i, j \in 1 .. r :
         i < j /\ (\A k \in i .. j - 1 : new[k].dangling) => g2[new[i].slot] = g2[new[j].slot]
  BY <1>9
<1> QED
  BY <1>6, <1>7, <1>10, <1>11, <1>12 DEF Ranked, r

-----------------------------------------------------------------------------
(* What the parts of the invariant need to hold again after a step.        *)

Based(cd, ln, jp, c, g) ==
  /\ cd \in Codes /\ DOMAIN g = Marks(cd) /\ DOMAIN c \subseteq Openers(cd)
  /\ \A x \in DOMAIN g : g[x] \in Openers(cd)
  /\ \A o \in DOMAIN c : c[o] \in ClosersOf(cd, ln)
  /\ DOMAIN jp \subseteq PlacesOf(cd)
  /\ Openers(cd) \subseteq Marks(cd) /\ Marks(cd) \subseteq PlacesOf(cd)
  /\ PlacesOf(cd) \subseteq PlaceType /\ ClosersOf(cd, ln) \subseteq PlaceType

LEMMA FitsBased ==
  ASSUME NEW cd \in Codes, NEW ln, NEW W, NEW bs, NEW jp, NEW c, NEW g,
         Fits(cd, ln, W, bs, jp, c, g)
  PROVE  Based(cd, ln, jp, c, g)
<1>1. /\ DOMAIN c \subseteq Openers(cd) /\ DOMAIN g = Marks(cd)
      /\ \A o \in DOMAIN c : c[o] \in ClosersOf(cd, ln)
      /\ \A x \in Marks(cd) : g[x] \in Openers(cd)
  BY DEF Fits, Nested
<1>2. DOMAIN jp \subseteq PlacesOf(cd)
  BY DEF Fits, Targeted
<1>3. Openers(cd) \subseteq Marks(cd) /\ Marks(cd) \subseteq PlacesOf(cd)
  BY DEF Marks, Openers, Elses, Ifs
<1>4. PlacesOf(cd) \subseteq PlaceType /\ ClosersOf(cd, ln) \subseteq PlaceType
  BY PlaceFacts, ClosersPlaces
<1> QED
  BY <1>1, <1>2, <1>3, <1>4 DEF Based

LEMMA TargetedKept ==
  ASSUME NEW cd, NEW ln, NEW W, NEW cd2, NEW W2, Grown(cd, W, cd2, W2),
         NEW jp, NEW c, NEW g, NEW jp2, NEW c2, NEW g2, Extended(cd, c, g, cd2, c2, g2),
         NEW bs, NEW bs2, Based(cd, ln, jp, c, g),
         \A p \in DOMAIN jp2 :
           \/ p \in PlacesOf(cd2) /\ \E i \in 1 .. Len(bs2) : Awaits(bs2[i], p)
           \/ p \in PlacesOf(cd2) /\ Done(cd2, W2, jp2, c2, g2, p)
           \/ p \in DOMAIN jp /\ jp2[p] = jp[p] /\ Done(cd, W, jp, c, g, p)
  PROVE  Targeted(cd2, W2, bs2, jp2, c2, g2)
<1>1. /\ DOMAIN g = Marks(cd) /\ \A x \in DOMAIN g : g[x] \in Openers(cd)
      /\ DOMAIN c \subseteq Openers(cd) /\ DOMAIN jp \subseteq PlacesOf(cd)
  BY DEF Based
<1>2. PlacesOf(cd) \subseteq PlacesOf(cd2)
  BY DEF Grown
<1>3. ASSUME NEW p \in DOMAIN jp, jp2[p] = jp[p], Done(cd, W, jp, c, g, p)
      PROVE  Done(cd2, W2, jp2, c2, g2, p)
  <2>1. p \in PlacesOf(cd)
    BY <1>1
  <2> QED
    BY <1>1, <1>3, <2>1, DoneKept
<1> QED
  BY <1>1, <1>2, <1>3 DEF Targeted

LEMMA TypedKept ==
  ASSUME NEW cd, NEW ln, NEW W, NEW cd2, NEW W2, Grown(cd, W, cd2, W2),
         NEW c, NEW c2, Extends(c, c2), Typed(cd, c),
         DOMAIN c \subseteq Openers(cd), Openers(cd) \subseteq PlacesOf(cd),
         \A o \in DOMAIN c : c[o] \in PlacesOf(cd) \/ c[o] \notin PlacesOf(cd2),
         \A o \in DOMAIN c2 \ DOMAIN c : Pair(cd2, o, c2[o]),
         \A p \in Openers(cd2) \ Openers(cd), o \in Openers(cd2) :
           OpAt(cd2, o).op = "sub" /\ OpAt(cd2, p).op = "sub" =>
             ~Lt(p, o) /\ (Lt(o, p) => o \in DOMAIN c2 /\ Lt(c2[o], p))
  PROVE  Typed(cd2, c2)
<1>1. /\ \A q \in PlacesOf(cd) : OpAt(cd2, q) = OpAt(cd, q)
      /\ PlacesOf(cd) \subseteq PlacesOf(cd2)
      /\ \A o \in DOMAIN c : o \in DOMAIN c2 /\ c2[o] = c[o]
  BY DEF Grown, Extends
<1>2. ASSUME NEW o \in DOMAIN c2 PROVE Pair(cd2, o, c2[o])
  <2>1. CASE o \in DOMAIN c
    <3>1. Pair(cd, o, c[o]) /\ OpAt(cd2, o) = OpAt(cd, o) /\ c2[o] = c[o]
      BY <1>1, <2>1 DEF Typed
    <3>2. CASE c[o] \in PlacesOf(cd)
      BY <1>1, <3>1, <3>2 DEF Pair
    <3>3. CASE c[o] \notin PlacesOf(cd2)
      BY <1>1, <3>1, <3>3 DEF Pair
    <3> QED
      BY <2>1, <3>2, <3>3
  <2> QED
    BY <2>1
<1>3. ASSUME NEW o \in Openers(cd2), NEW p \in Openers(cd2),
             OpAt(cd2, o).op = "sub", OpAt(cd2, p).op = "sub", Lt(o, p)
      PROVE  o \in DOMAIN c2 /\ Lt(c2[o], p)
  <2>1. CASE p \notin Openers(cd)
    BY <1>3, <2>1
  <2>2. CASE o \notin Openers(cd)
    BY <1>3, <2>2
  <2>3. CASE o \in Openers(cd) /\ p \in Openers(cd)
    <3>1. o \in DOMAIN c /\ Lt(c[o], p)
      BY <1>1, <1>3, <2>3 DEF Typed
    <3> QED
      BY <1>1, <3>1
  <2> QED
    BY <2>1, <2>2, <2>3
<1> QED
  BY <1>2, <1>3 DEF Typed

-----------------------------------------------------------------------------
(* One opcode is compiled: what it does to the nesting.                    *)

Puts(cd, ln, W, a, cd2, ln2, W2, h) ==
  /\ cd \in Codes /\ cd # <<>> /\ a \in OpcodeRecords /\ cd2 = Put(cd, a) /\ h = NextPlace(cd)
  /\ Decides(cd, a, ln) /\ W = {Len(cd)} /\ W2 \subseteq {Len(cd)}

LEMMA PutsFacts ==
  ASSUME NEW cd, NEW ln, NEW W, NEW a, NEW cd2, NEW ln2, NEW W2, NEW h,
         Puts(cd, ln, W, a, cd2, ln2, W2, h)
  PROVE  /\ Grown(cd, W, cd2, W2) /\ cd \in Codes /\ cd2 \in Codes /\ h \in PlaceType
         /\ h \notin PlacesOf(cd) /\ h \in PlacesOf(cd2) /\ OpAt(cd2, h) = a
         /\ PlacesOf(cd2) = PlacesOf(cd) \cup {h}
         /\ \A p \in PlacesOf(cd) : OpAt(cd2, p) = OpAt(cd, p) /\ Lt(p, h)
         /\ \A x \in ClosersOf(cd, ln) : Lt(x, h) /\ (x \in PlacesOf(cd) \/ x \notin PlacesOf(cd2))
         /\ h[1] = Len(cd) /\ Len(cd2[h[1]]) = h[2]
<1>1. /\ cd \in Codes /\ cd # <<>> /\ a \in OpcodeRecords /\ cd2 = Put(cd, a) /\ h = NextPlace(cd)
      /\ W = {Len(cd)} /\ W2 \subseteq {Len(cd)}
  BY DEF Puts
<1>2. /\ cd2 \in Codes /\ Len(cd2) = Len(cd)
      /\ \A l \in 1 .. Len(cd) - 1 : cd2[l] = cd[l]
      /\ Len(cd2[Len(cd)]) = Len(cd[Len(cd)]) + 1
      /\ h \in PlaceType /\ h \notin PlacesOf(cd) /\ OpAt(cd2, h) = a
      /\ \A p \in PlacesOf(cd) : OpAt(cd2, p) = OpAt(cd, p) /\ Lt(p, h)
      /\ PlacesOf(cd2) = PlacesOf(cd) \cup {h}
  BY <1>1, PutFacts
<1>3. \A x : LastOn(cd, W, x) => LastOn(cd2, W2, x)
  <2> SUFFICES ASSUME NEW x, LastOn(cd, W, x) PROVE LastOn(cd2, W2, x)
    OBVIOUS
  <2>1. x \in PlacesOf(cd) /\ Len(cd[x[1]]) = x[2] /\ x[1] # Len(cd)
    BY <1>1 DEF LastOn
  <2>2. x[1] \in 1 .. Len(cd) /\ Len(cd) \in Nat
    BY <2>1, <1>1, PlaceFacts
  <2>3. x[1] \in 1 .. Len(cd) - 1
    BY <2>1, <2>2
  <2> QED
    BY <1>1, <1>2, <2>1, <2>3 DEF LastOn
<1>4. Grown(cd, W, cd2, W2)
  BY <1>1, <1>2, <1>3 DEF Grown
<1>5. ASSUME NEW x \in ClosersOf(cd, ln)
      PROVE  Lt(x, h) /\ (x \in PlacesOf(cd) \/ x \notin PlacesOf(cd2))
  <2>1. /\ x \in PlacesOf(cd) \/ (x \notin PlacesOf(cd) /\ x[2] = 0)
        /\ Lt(x, h)
    BY <1>1, ClosersPlaces
  <2>2. h[2] # 0
    <3>1. h[2] = Len(cd[Len(cd)]) + 1 /\ Len(cd[Len(cd)]) \in Nat
      BY <1>1 DEF NextPlace, Codes
    <3> QED
      BY <3>1
  <2> QED
    BY <1>2, <2>1, <2>2
<1>6. h[1] = Len(cd) /\ h[2] = Len(cd[Len(cd)]) + 1
  BY <1>1 DEF NextPlace
<1> QED
  BY <1>1, <1>2, <1>4, <1>5, <1>6

LEMMA PutsSets ==
  ASSUME NEW cd, NEW ln, NEW W, NEW a, NEW cd2, NEW ln2, NEW W2, NEW h,
         Puts(cd, ln, W, a, cd2, ln2, W2, h)
  PROVE  /\ IsOpener(a) => Openers(cd2) = Openers(cd) \cup {h}
         /\ ~IsOpener(a) => Openers(cd2) = Openers(cd)
         /\ IsCloser(a) => ClosersOf(cd2, ln2) = ClosersOf(cd, ln) \cup {h}
         /\ ~IsCloser(a) => ClosersOf(cd2, ln2) = ClosersOf(cd, ln)
         /\ a.op = "else" => Elses(cd2) = Elses(cd) \cup {h}
         /\ a.op # "else" => Elses(cd2) = Elses(cd)
         /\ IsOpener(a) \/ a.op \in {"if", "else"} => Marks(cd2) = Marks(cd) \cup {h}
         /\ ~(IsOpener(a) \/ a.op \in {"if", "else"}) => Marks(cd2) = Marks(cd)
<1>1. /\ cd \in Codes /\ cd # <<>> /\ a \in OpcodeRecords /\ cd2 = Put(cd, a) /\ h = NextPlace(cd)
      /\ Decides(cd, a, ln)
  BY DEF Puts
<1>2. /\ IsOpener(a) => Openers(cd2) = Openers(cd) \cup {h}
      /\ ~IsOpener(a) => Openers(cd2) = Openers(cd)
      /\ a.op = "else" => Elses(cd2) = Elses(cd) \cup {h}
      /\ a.op # "else" => Elses(cd2) = Elses(cd)
      /\ a.op = "if" => Ifs(cd2) = Ifs(cd) \cup {h}
      /\ a.op # "if" => Ifs(cd2) = Ifs(cd)
  BY <1>1, PutSets
<1>3. /\ IsCloser(a) => ClosersOf(cd2, ln2) = ClosersOf(cd, ln) \cup {h}
      /\ ~IsCloser(a) => ClosersOf(cd2, ln2) = ClosersOf(cd, ln)
  BY <1>1, PutClosers
<1>4. IsOpener(a) \/ a.op \in {"if", "else"} => Marks(cd2) = Marks(cd) \cup {h}
  BY ONLY <1>2 DEF Marks
<1>5. ~(IsOpener(a) \/ a.op \in {"if", "else"}) => Marks(cd2) = Marks(cd)
  BY ONLY <1>2 DEF Marks
<1> QED
  BY <1>2, <1>3, <1>4, <1>5

\* A command that neither opens nor closes anything.
LEMMA FitsPlain ==
  ASSUME NEW cd, NEW ln, NEW W, NEW a, NEW cd2, NEW ln2, NEW W2, NEW h,
         Puts(cd, ln, W, a, cd2, ln2, W2, h),
         NEW bs, NEW jp, NEW c, NEW g, Fits(cd, ln, W, bs, jp, c, g),
         a.op \in {"act", "call", "text", "assign", "return"}
  PROVE  Fits(cd2, ln2, W2, bs, jp, c, g)
<1>1. ~IsOpener(a) /\ ~IsCloser(a) /\ a.op # "else" /\ a.op # "if"
  BY DEF IsOpener, IsCloser
<1>2. /\ Openers(cd2) = Openers(cd) /\ ClosersOf(cd2, ln2) = ClosersOf(cd, ln)
      /\ Elses(cd2) = Elses(cd) /\ Marks(cd2) = Marks(cd)
  BY <1>1, PutsSets
<1>3. Grown(cd, W, cd2, W2) /\ cd \in Codes
  BY PutsFacts
<1>4. Based(cd, ln, jp, c, g)
  BY <1>3, FitsBased
<1>5. Extended(cd, c, g, cd2, c, g) /\ Extends(c, c)
  BY <1>2 DEF Extended, Extends
<1>6. Nested(Openers(cd2), ClosersOf(cd2, ln2), Marks(cd2), c, g)
  BY <1>2 DEF Fits
<1>7. Typed(cd2, c)
  <2>1. \A o \in DOMAIN c : c[o] \in PlacesOf(cd) \/ c[o] \notin PlacesOf(cd2)
    BY <1>4, PutsFacts DEF Based
  <2>2. DOMAIN c \subseteq Openers(cd) /\ Openers(cd) \subseteq PlacesOf(cd)
    BY <1>4 DEF Based
  <2>3. Typed(cd, c)
    BY DEF Fits
  <2> QED
    BY <1>2, <1>3, <1>5, <2>1, <2>2, <2>3, TypedKept
<1>8. Stacked(cd2, bs, jp, c, g)
  <2>1. ASSUME NEW i \in 1 .. Len(bs) PROVE BlockFits(cd2, jp, c, g, bs[i])
    <3>1. BlockFits(cd, jp, c, g, bs[i])
      BY DEF Fits, Stacked
    <3>2. Keeps(cd, W, jp, c, g, cd2, W2, jp, c, g)
      BY <1>3, <1>4, <1>5 DEF Keeps, Based
    <3>3. Untouched(cd, jp, g, cd2, jp, g, bs[i])
      BY <1>2 DEF Untouched
    <3> QED
      BY <3>1, <3>2, <3>3, BlockKept
  <2> QED
    BY <1>2, <2>1 DEF Fits, Stacked
<1>9. Targeted(cd2, W2, bs, jp, c, g)
  <2>1. \A p \in DOMAIN jp :
           \/ p \in PlacesOf(cd2) /\ \E i \in 1 .. Len(bs) : Awaits(bs[i], p)
           \/ p \in PlacesOf(cd2) /\ Done(cd2, W2, jp, c, g, p)
           \/ p \in DOMAIN jp /\ jp[p] = jp[p] /\ Done(cd, W, jp, c, g, p)
    BY <1>3 DEF Fits, Targeted, Grown
  <2> QED
    BY <1>3, <1>4, <1>5, <2>1, TargetedKept
<1> QED
  BY <1>6, <1>7, <1>8, <1>9 DEF Fits

\* The block of an opener that is not closed is on the stack.
LEMMA OpenBlock ==
  ASSUME NEW cd, NEW bs, NEW jp, NEW c, NEW g, Stacked(cd, bs, jp, c, g),
         NEW o \in Openers(cd), o \notin DOMAIN c, OpAt(cd, o).op # "if"
  PROVE  \E i \in 1 .. Len(bs) : bs[i].slot = o /\ bs[i].type = OpAt(cd, o).op
<1>1. PICK i \in 1 .. Len(bs) : g[bs[i].slot] = o
  BY DEF Stacked, Ranked
<1>2. BlockFits(cd, jp, c, g, bs[i])
  BY DEF Stacked
<1>3. bs[i].slot = o /\ bs[i].type = OpAt(cd, o).op
  BY <1>1, <1>2 DEF BlockFits
<1> QED
  BY <1>3

\* A command that opens a block with its last opcode.
Opening(cd, ln, W, a, h, b, bs, jp, c, g, cd2, ln2, W2, bs2, jp2) ==
  /\ Puts(cd, ln, W, a, cd2, ln2, W2, h) /\ bs \in BlockSeqs
  /\ Fits(cd, ln, W, bs, jp, c, g) /\ IsOpener(a)
  /\ b \in BlockRecords /\ b.slot = h /\ b.type = a.op /\ ~b.dangling /\ b.deps = {}
  /\ b.type = "for" => b.var = a.v
  /\ b.type \in LoopOps => h = <<b.first, b.off1 + 1>>
  /\ a.op = "sub" => \A i \in 1 .. Len(bs) : bs[i].type # "sub"
  /\ b.type \in Slotted => jp2 = Slot(jp, h)
  /\ b.type \notin Slotted => jp2 = jp
  /\ bs2 = Append(bs, b)

LEMMA FitsOpen ==
  ASSUME NEW cd, NEW ln, NEW W, NEW a, NEW h, NEW b, NEW bs, NEW jp, NEW c, NEW g, NEW cd2,
         NEW ln2, NEW W2, NEW more, NEW jp2,
         Opening(cd, ln, W, a, h, b, bs, jp, c, g, cd2, ln2, W2, more, jp2)
  PROVE  \E g2 : Fits(cd2, ln2, W2, more, jp2, c, g2)
<1> USE DEF Opening
<1>1. ~IsCloser(a) /\ a.op # "else" /\ a.op \in {"if", "for", "while", "until", "sub", "begin"}
  BY DEF IsOpener, IsCloser
<1>2. /\ Openers(cd2) = Openers(cd) \cup {h} /\ ClosersOf(cd2, ln2) = ClosersOf(cd, ln)
      /\ Elses(cd2) = Elses(cd) /\ Marks(cd2) = Marks(cd) \cup {h}
  BY <1>1, PutsSets
<1>3. /\ Grown(cd, W, cd2, W2) /\ cd \in Codes /\ h \in PlaceType /\ h \notin PlacesOf(cd)
      /\ h \in PlacesOf(cd2) /\ OpAt(cd2, h) = a /\ PlacesOf(cd2) = PlacesOf(cd) \cup {h}
      /\ \A p \in PlacesOf(cd) : OpAt(cd2, p) = OpAt(cd, p) /\ Lt(p, h)
      /\ \A x \in ClosersOf(cd, ln) : Lt(x, h) /\ (x \in PlacesOf(cd) \/ x \notin PlacesOf(cd2))
  BY PutsFacts
<1>4. Based(cd, ln, jp, c, g)
  BY <1>3, FitsBased
<1>5. /\ DOMAIN g = Marks(cd) /\ DOMAIN c \subseteq Openers(cd) /\ (\A x \in DOMAIN g : g[x] \in Openers(cd))
      /\ (\A o \in DOMAIN c : c[o] \in ClosersOf(cd, ln)) /\ DOMAIN jp \subseteq PlacesOf(cd)
      /\ Openers(cd) \subseteq Marks(cd) /\ Marks(cd) \subseteq PlacesOf(cd)
      /\ PlacesOf(cd) \subseteq PlaceType /\ ClosersOf(cd, ln) \subseteq PlaceType
  BY <1>4 DEF Based
<1>6. /\ Nested(Openers(cd), ClosersOf(cd, ln), Marks(cd), c, g) /\ Typed(cd, c)
      /\ Stacked(cd, bs, jp, c, g) /\ Targeted(cd, W, bs, jp, c, g)
  BY DEF Fits
<1> DEFINE g2 == With(g, h, h)
<1>7. DOMAIN g2 = Marks(cd2) /\ g2[h] = h /\ Extends(g, g2) /\ \A x \in DOMAIN g : g2[x] = g[x]
  <2>1. h \notin DOMAIN g
    BY <1>3, <1>5
  <2>2. DOMAIN g2 = DOMAIN g \cup {h} /\ g2[h] = h /\ \A x \in DOMAIN g : g2[x] = g[x]
    BY <2>1 DEF With
  <2>3. Extends(g, g2)
    BY <2>2 DEF Extends
  <2> QED
    BY <1>2, <1>5, <2>2, <2>3
<1>8. Nested(Openers(cd2), ClosersOf(cd2, ln2), Marks(cd2), c, g2)
  <2>1. \A x \in Marks(cd) \cup ClosersOf(cd, ln) : Lt(x, h)
    BY <1>3, <1>5
  <2>2. Marks(cd) \subseteq PlaceType
    BY <1>5
  <2> QED
    BY <1>2, <1>3, <1>5, <1>6, <2>1, <2>2, NestedOpen
<1> HIDE DEF g2
<1>9. Extended(cd, c, g, cd2, c, g2) /\ Extends(c, c)
  BY <1>2, <1>7 DEF Extended, Extends
<1>10. Typed(cd2, c)
  <2>1. ASSUME NEW p \in Openers(cd2) \ Openers(cd), NEW o \in Openers(cd2),
               OpAt(cd2, o).op = "sub", OpAt(cd2, p).op = "sub"
        PROVE  ~Lt(p, o) /\ (Lt(o, p) => o \in DOMAIN c /\ Lt(c[o], p))
    <3>1. p = h /\ a.op = "sub"
      BY <1>2, <1>3, <2>1
    <3>2. CASE o = h
      BY <1>3, <3>1, <3>2, LtOrder
    <3>3. CASE o \in Openers(cd)
      <4>1. Lt(o, h) /\ o \in PlaceType /\ OpAt(cd, o).op = "sub"
        BY <1>3, <1>5, <2>1, <3>3
      <4>2. o \in DOMAIN c
        <5> SUFFICES ASSUME o \notin DOMAIN c PROVE FALSE
          OBVIOUS
        <5>1. PICK i \in 1 .. Len(bs) : bs[i].type = OpAt(cd, o).op
          BY <1>6, <3>3, <4>1, OpenBlock
        <5> QED
          BY <3>1, <4>1, <5>1
      <4> QED
        BY <1>3, <1>5, <3>1, <4>1, <4>2, LtOrder
    <3> QED
      BY <1>2, <3>2, <3>3
  <2>2. \A o \in DOMAIN c : c[o] \in PlacesOf(cd) \/ c[o] \notin PlacesOf(cd2)
    BY <1>3, <1>5
  <2>3. DOMAIN c \subseteq Openers(cd) /\ Openers(cd) \subseteq PlacesOf(cd)
    BY <1>5
  <2> QED
    BY <1>3, <1>6, <1>9, <2>1, <2>2, <2>3, TypedKept
<1>11. /\ \A p \in DOMAIN jp : p \in DOMAIN jp2 /\ jp2[p] = jp[p]
       /\ b.type \in Slotted => h \in DOMAIN jp2 /\ jp2[h] = Unpatched
       /\ \A p \in DOMAIN jp2 : p \in DOMAIN jp \/ (p = h /\ b.type \in Slotted)
  <2>1. h \notin DOMAIN jp
    BY <1>3, <1>5
  <2>2. CASE b.type \in Slotted
    BY <2>1, <2>2 DEF Slot
  <2>3. CASE b.type \notin Slotted
    BY <2>3
  <2> QED
    BY <2>2, <2>3
<1>12. \A i \in 1 .. Len(bs) : BlockFits(cd2, jp2, c, g2, bs[i]) /\ g2[bs[i].slot] = g[bs[i].slot]
  <2> SUFFICES ASSUME NEW i \in 1 .. Len(bs)
               PROVE  BlockFits(cd2, jp2, c, g2, bs[i]) /\ g2[bs[i].slot] = g[bs[i].slot]
    OBVIOUS
  <2> DEFINE d == bs[i]
  <2>1. BlockFits(cd, jp, c, g, d)
    BY <1>6 DEF Stacked
  <2> HIDE DEF d
  <2>2. (d.type \in Slotted => jp2[d.slot] = jp[d.slot]) /\ \A p \in d.deps : jp2[p] = jp[p]
    BY <1>11, <2>1 DEF BlockFits
  <2>3. DOMAIN jp \subseteq DOMAIN jp2
    BY <1>11
  <2>5. Untouched(cd, jp, g, cd2, jp2, g2, d)
    BY <1>2, <2>2 DEF Untouched
  <2>6. Keeps(cd, W, jp, c, g, cd2, W2, jp2, c, g2)
    BY <1>3, <1>5, <1>9, <2>3 DEF Keeps
  <2>4. BlockFits(cd2, jp2, c, g2, d) /\ g2[d.slot] = g[d.slot]
    BY <2>1, <2>5, <2>6, BlockKept
  <2> QED
    BY <2>4 DEF d
<1>13. BlockFits(cd2, jp2, c, g2, b)
  <2>1. \A e \in Elses(cd2) : ~Lt(h, e)
    <3>1. \A e \in Elses(cd) : e \in PlacesOf(cd)
      BY DEF Elses
    <3> QED
      BY <1>2, <1>3, <1>5, <3>1, LtOrder
  <2>2. h \in DOMAIN g2
    BY <1>2, <1>7
  <2>3. b.type # "else"
    BY <1>1
  <2> QED
    BY <1>3, <1>7, <1>11, <2>1, <2>2, <2>3 DEF BlockFits
<1>14. Ranked(more, Openers(cd2) \ DOMAIN c, g2)
  <2>1. Ranked(bs, Openers(cd) \ DOMAIN c, g)
    BY <1>6 DEF Stacked
  <2>2. \A u \in Openers(cd) \ DOMAIN c : Lt(u, h) /\ u \in PlaceType
    BY <1>3, <1>5
  <2>3. Openers(cd) \ DOMAIN c \subseteq PlaceType
    BY <2>2
  <2> DEFINE U == Openers(cd) \ DOMAIN c
  <2>6. /\ U \subseteq PlaceType /\ Ranked(bs, U, g) /\ \A u \in U : Lt(u, h)
        /\ g2[b.slot] = h /\ \A i \in 1 .. Len(bs) : g2[bs[i].slot] = g[bs[i].slot]
    BY <1>7, <1>12, <2>1, <2>2, <2>3
  <2> HIDE DEF U
  <2>7. Ranked(more, U \cup {h}, g2)
    BY <1>3, <2>6, RankedPush
  <2>4. Ranked(more, (Openers(cd) \ DOMAIN c) \cup {h}, g2)
    BY <2>7 DEF U
  <2>5. (Openers(cd) \ DOMAIN c) \cup {h} = Openers(cd2) \ DOMAIN c
    BY <1>2, <1>3, <1>5
  <2> QED
    BY <2>4, <2>5
<1>15. /\ Len(bs) \in Nat /\ Len(more) = Len(bs) + 1 /\ more[Len(bs) + 1] = b
       /\ \A i \in 1 .. Len(bs) : more[i] = bs[i]
  BY DEF BlockSeqs
<1>16. \A i \in 1 .. Len(more) : BlockFits(cd2, jp2, c, g2, more[i])
  BY <1>12, <1>13, <1>15
<1>17. Targeted(cd2, W2, more, jp2, c, g2)
  <2> SUFFICES ASSUME NEW p \in DOMAIN jp2
               PROVE  \/ p \in PlacesOf(cd2) /\ \E i \in 1 .. Len(more) : Awaits(more[i], p)
                      \/ p \in PlacesOf(cd2) /\ Done(cd2, W2, jp2, c, g2, p)
                      \/ p \in DOMAIN jp /\ jp2[p] = jp[p] /\ Done(cd, W, jp, c, g, p)
    BY <1>3, <1>4, <1>9, TargetedKept
  <2>1. CASE p \in DOMAIN jp
    <3>1. p \in PlacesOf(cd2)
      BY <1>3, <1>5, <2>1
    <3>2. CASE Done(cd, W, jp, c, g, p)
      BY <1>11, <2>1, <3>2
    <3>3. CASE \E i \in 1 .. Len(bs) : Awaits(bs[i], p)
      <4>1. \A i \in 1 .. Len(bs) : i \in 1 .. Len(more)
        BY <1>15
      <4> QED
        BY <1>15, <3>1, <3>3, <4>1
    <3> QED
      BY <1>6, <2>1, <3>2, <3>3 DEF Targeted
  <2>2. CASE p = h /\ b.type \in Slotted
    <3>1. Awaits(b, p)
      BY <2>2 DEF Awaits
    <3>2. Len(bs) + 1 \in 1 .. Len(more)
      BY <1>15
    <3> QED
      BY <1>3, <1>15, <2>2, <3>1, <3>2
  <2> QED
    BY <1>11, <2>1, <2>2
<1>18. Fits(cd2, ln2, W2, more, jp2, c, g2)
  BY <1>8, <1>10, <1>14, <1>16, <1>17 DEF Fits, Stacked
<1> QED
  BY <1>18

\* A command, or a line, that closes the block on top.  The closer is k, o what it
\* closes.
Closing(cd, ln, W, cd2, ln2, W2, k) ==
  /\ Grown(cd, W, cd2, W2) /\ k \in PlaceType
  /\ Openers(cd2) = Openers(cd) /\ Elses(cd2) = Elses(cd) /\ Marks(cd2) = Marks(cd)
  /\ ClosersOf(cd2, ln2) = ClosersOf(cd, ln) \cup {k}
  /\ \A x \in PlacesOf(cd) \cup ClosersOf(cd, ln) : Lt(x, k)
  /\ \A x \in ClosersOf(cd, ln) : x \in PlacesOf(cd) \/ x \notin PlacesOf(cd2)

\* No two subroutines are open, so that no jump is awaited by two blocks that
\* belong to different openers.
LEMMA AwaitedOnce ==
  ASSUME NEW cd \in Codes, NEW bs, NEW jp, NEW c, NEW g, Stacked(cd, bs, jp, c, g), Typed(cd, c),
         NEW i \in 1 .. Len(bs), NEW j \in 1 .. Len(bs), g[bs[i].slot] # g[bs[j].slot],
         NEW p, Awaits(bs[i], p)
  PROVE  ~Awaits(bs[j], p)
<1> SUFFICES ASSUME Awaits(bs[j], p) PROVE FALSE
  OBVIOUS
<1>1. BlockFits(cd, jp, c, g, bs[i]) /\ BlockFits(cd, jp, c, g, bs[j])
  BY DEF Stacked
<1>2. CASE bs[i].type \in Slotted /\ bs[i].slot = p
  <2>1. OpAt(cd, p).op # "return"
    BY <1>1, <1>2 DEF BlockFits, Slotted
  <2> QED
    BY <1>1, <1>2, <2>1 DEF BlockFits, Awaits
<1>3. CASE p \in bs[i].deps
  <2>1. bs[i].type = "sub" /\ OpAt(cd, p).op = "return"
    BY <1>1, <1>3 DEF BlockFits
  <2>2. ~(bs[j].type \in Slotted /\ bs[j].slot = p)
    BY <1>1, <2>1 DEF BlockFits, Slotted
  <2>3. bs[j].type = "sub"
    BY <1>1, <2>2 DEF BlockFits, Awaits
  <2>4. /\ g[bs[i].slot] = bs[i].slot /\ g[bs[j].slot] = bs[j].slot
        /\ OpAt(cd, bs[i].slot).op = "sub" /\ OpAt(cd, bs[j].slot).op = "sub"
    BY <1>1, <2>1, <2>3 DEF BlockFits
  <2>5. bs[i].slot \in Openers(cd) \ DOMAIN c /\ bs[j].slot \in Openers(cd) \ DOMAIN c
    BY <2>4 DEF Stacked, Ranked
  <2>6. bs[i].slot \in PlaceType /\ bs[j].slot \in PlaceType
    BY <2>5, PlaceFacts DEF Openers
  <2>7. Lt(bs[i].slot, bs[j].slot) \/ Lt(bs[j].slot, bs[i].slot)
    BY <2>4, <2>6, LtOrder
  <2> QED
    BY <2>4, <2>5, <2>7 DEF Typed
<1> QED
  BY <1>2, <1>3 DEF Awaits

Ends(cd, ln, W, cd2, ln2, W2, k, bs, n, jp, c, g, o, c2, jp2) ==
  /\ cd \in Codes /\ Closing(cd, ln, W, cd2, ln2, W2, k) /\ bs \in BlockSeqs /\ bs # <<>>
  /\ Fits(cd, ln, W, bs, jp, c, g) /\ CutsTo(bs, n) /\ o = g[bs[Len(bs)].slot]
  /\ Pair(cd2, o, k) /\ c2 = With(c, o, k) /\ DOMAIN jp \subseteq DOMAIN jp2
  /\ \A p \in DOMAIN jp : (\A i \in n + 1 .. Len(bs) : ~Awaits(bs[i], p)) => jp2[p] = jp[p]
  /\ \A p \in DOMAIN jp, i \in n + 1 .. Len(bs) :
       Awaits(bs[i], p) => Done(cd2, W2, jp2, c2, g, p)
  /\ \A p \in DOMAIN jp2 \ DOMAIN jp : p \in PlacesOf(cd2) /\ Done(cd2, W2, jp2, c2, g, p)

LEMMA FitsClose ==
  ASSUME NEW cd, NEW ln, NEW W, NEW cd2, NEW ln2, NEW W2, NEW k, NEW bs, NEW n, NEW jp, NEW c,
         NEW g, NEW o, NEW c2, NEW jp2, NEW rest, rest = SubSeq(bs, 1, n),
         Ends(cd, ln, W, cd2, ln2, W2, k, bs, n, jp, c, g, o, c2, jp2)
  PROVE  Fits(cd2, ln2, W2, rest, jp2, c2, g)
<1> USE DEF Ends
<1>1. /\ Grown(cd, W, cd2, W2) /\ k \in PlaceType
      /\ Openers(cd2) = Openers(cd) /\ Elses(cd2) = Elses(cd) /\ Marks(cd2) = Marks(cd)
      /\ ClosersOf(cd2, ln2) = ClosersOf(cd, ln) \cup {k}
      /\ \A x \in PlacesOf(cd) \cup ClosersOf(cd, ln) : Lt(x, k)
      /\ \A x \in ClosersOf(cd, ln) : x \in PlacesOf(cd) \/ x \notin PlacesOf(cd2)
  BY DEF Closing
<1>2. Based(cd, ln, jp, c, g)
  BY FitsBased
<1>3. /\ DOMAIN g = Marks(cd) /\ DOMAIN c \subseteq Openers(cd) /\ (\A x \in DOMAIN g : g[x] \in Openers(cd))
      /\ (\A q \in DOMAIN c : c[q] \in ClosersOf(cd, ln)) /\ DOMAIN jp \subseteq PlacesOf(cd)
      /\ Openers(cd) \subseteq Marks(cd) /\ Marks(cd) \subseteq PlacesOf(cd)
      /\ PlacesOf(cd) \subseteq PlaceType /\ ClosersOf(cd, ln) \subseteq PlaceType
  BY <1>2 DEF Based
<1>4. /\ Nested(Openers(cd), ClosersOf(cd, ln), Marks(cd), c, g) /\ Typed(cd, c)
      /\ Stacked(cd, bs, jp, c, g) /\ Targeted(cd, W, bs, jp, c, g)
  BY DEF Fits
<1> DEFINE U == Openers(cd) \ DOMAIN c
<1>5. Ranked(bs, U, g) /\ U \subseteq PlaceType
  BY <1>3, <1>4 DEF Stacked
<1>6. o \in U /\ \A u \in U : u = o \/ Lt(u, o)
  BY <1>5, TopOpener
<1>7. o \in Openers(cd) /\ o \notin DOMAIN c /\ \A q \in Openers(cd) : q \in DOMAIN c \/ q = o \/ Lt(q, o)
  BY <1>6
<1>8. Nested(Openers(cd2), ClosersOf(cd2, ln2), Marks(cd2), c2, g)
  <2>1. \A x \in Marks(cd) \cup ClosersOf(cd, ln) : Lt(x, k)
    BY <1>1, <1>3
  <2>2. Marks(cd) \subseteq PlaceType
    BY <1>3
  <2> QED
    BY <1>1, <1>3, <1>4, <1>7, <2>1, <2>2, NestedClose
<1>9. Extends(c, c2) /\ DOMAIN c2 = DOMAIN c \cup {o} /\ c2[o] = k
  BY <1>7 DEF Extends, With
<1>10. Extended(cd, c, g, cd2, c2, g)
  BY <1>1, <1>9 DEF Extended, Extends
<1>11. Typed(cd2, c2)
  <2>1. \A q \in DOMAIN c : c[q] \in PlacesOf(cd) \/ c[q] \notin PlacesOf(cd2)
    BY <1>1, <1>3
  <2>2. \A q \in DOMAIN c2 \ DOMAIN c : Pair(cd2, q, c2[q])
    BY <1>9
  <2>3. Openers(cd2) \ Openers(cd) = {} /\ Openers(cd) \subseteq PlacesOf(cd)
    BY <1>1, <1>3
  <2> QED
    BY <1>1, <1>3, <1>4, <1>9, <2>1, <2>2, <2>3, TypedKept
<1> HIDE DEF U
<1>12. /\ Ranked(rest, U \ {o}, g) /\ rest \in BlockSeqs /\ Len(rest) = n
       /\ \A i \in 1 .. n : rest[i] = bs[i] /\ g[bs[i].slot] # o
       /\ \A i \in n + 1 .. Len(bs) : g[bs[i].slot] = o
  <2>1. Cuts(bs, U, g, o, n, rest)
    BY <1>5 DEF Cuts
  <2>2. CutLeaves(bs, U, g, o, n, rest)
    BY <2>1, RankedCut
  <2> QED
    BY <2>2 DEF CutLeaves
<1>13. Len(bs) \in Nat /\ n \in Nat /\ n < Len(bs)
  BY DEF BlockSeqs, CutsTo
<1>14. ASSUME NEW i \in 1 .. n, NEW p, Awaits(bs[i], p), p \in DOMAIN jp
       PROVE  jp2[p] = jp[p]
  <2> SUFFICES ASSUME NEW j \in n + 1 .. Len(bs) PROVE ~Awaits(bs[j], p)
    BY <1>14
  <2>1. i \in 1 .. Len(bs) /\ j \in 1 .. Len(bs)
    BY <1>13
  <2>2. g[bs[i].slot] # g[bs[j].slot]
    BY <1>12
  <2> QED
    BY <1>4, <1>14, <2>1, <2>2, AwaitedOnce, ZenonT(60)
<1>15. ASSUME NEW i \in 1 .. Len(rest) PROVE BlockFits(cd2, jp2, c2, g, rest[i])
  <2>1. i \in 1 .. n /\ i \in 1 .. Len(bs) /\ rest[i] = bs[i]
    BY <1>12, <1>13
  <2>2. BlockFits(cd, jp, c, g, bs[i])
    BY <1>4, <2>1 DEF Stacked
  <2>3. Untouched(cd, jp, g, cd2, jp2, g, bs[i])
    <3>1. bs[i].type \in Slotted => Awaits(bs[i], bs[i].slot) /\ bs[i].slot \in DOMAIN jp
      BY <2>2 DEF BlockFits, Awaits
    <3>2. \A p \in bs[i].deps : Awaits(bs[i], p) /\ p \in DOMAIN jp
      BY <2>2 DEF BlockFits, Awaits
    <3> QED
      BY <1>1, <1>14, <2>1, <3>1, <3>2 DEF Untouched
  <2>4. Keeps(cd, W, jp, c, g, cd2, W2, jp2, c2, g)
    BY <1>1, <1>3, <1>10 DEF Keeps
  <2> QED
    BY <2>1, <2>2, <2>3, <2>4, BlockKept
<1>16. Ranked(rest, Openers(cd2) \ DOMAIN c2, g)
  <2>1. U \ {o} = Openers(cd2) \ DOMAIN c2
    BY <1>1, <1>9 DEF U
  <2> QED
    BY <1>12, <2>1
<1>17. Targeted(cd2, W2, rest, jp2, c2, g)
  <2> SUFFICES ASSUME NEW p \in DOMAIN jp2
               PROVE  \/ p \in PlacesOf(cd2) /\ \E i \in 1 .. Len(rest) : Awaits(rest[i], p)
                      \/ p \in PlacesOf(cd2) /\ Done(cd2, W2, jp2, c2, g, p)
                      \/ p \in DOMAIN jp /\ jp2[p] = jp[p] /\ Done(cd, W, jp, c, g, p)
    BY <1>1, <1>2, <1>10, TargetedKept
  <2>1. CASE p \notin DOMAIN jp
    BY <2>1
  <2>2. CASE p \in DOMAIN jp
    <3>1. p \in PlacesOf(cd2)
      BY <1>1, <1>3, <2>2 DEF Grown
    <3>2. CASE \E i \in n + 1 .. Len(bs) : Awaits(bs[i], p)
      BY <2>2, <3>1, <3>2
    <3>3. CASE ~\E i \in n + 1 .. Len(bs) : Awaits(bs[i], p)
      <4>1. CASE Done(cd, W, jp, c, g, p)
        BY <2>2, <3>3, <4>1
      <4>2. CASE \E i \in 1 .. Len(bs) : Awaits(bs[i], p)
        <5>1. PICK i \in 1 .. Len(bs) : Awaits(bs[i], p)
          BY <4>2
        <5>2. i \in 1 .. n
          BY <1>13, <3>3, <5>1
        <5> QED
          BY <1>12, <3>1, <5>1, <5>2
      <4> QED
        BY <1>4, <2>2, <4>1, <4>2 DEF Targeted
    <3> QED
      BY <3>2, <3>3
  <2> QED
    BY <2>1, <2>2
<1> QED
  BY <1>8, <1>11, <1>15, <1>16, <1>17 DEF Fits, Stacked

\* ENDIF, or a line that closes a one-line IF: the block on top and the ELSEs that
\* dangle below it end.
EndsIf(cd, ln, W, cd2, ln2, W2, k, bs, n, jp, l, jp2) ==
  /\ cd \in Codes /\ Closing(cd, ln, W, cd2, ln2, W2, k) /\ Lands(cd2, W2, <<l, 0>>, k)
  /\ bs \in BlockSeqs /\ bs # <<>> /\ bs[Len(bs)].type \in {"if", "else"} /\ CutsTo(bs, n)
  /\ jp2 = Patch(jp, {bs[i].slot : i \in n + 1 .. Len(bs)}, l)
  /\ k \in PlacesOf(cd2) => OpAt(cd2, k).op = "endif"

IfEnds(cd, ln, W, cd2, ln2, W2, k, bs, n, jp, l, jp2, c, g, rest) ==
  /\ EndsIf(cd, ln, W, cd2, ln2, W2, k, bs, n, jp, l, jp2)
  /\ Fits(cd, ln, W, bs, jp, c, g) /\ rest = SubSeq(bs, 1, n)

LEMMA FitsEndIf ==
  ASSUME NEW cd, NEW ln, NEW W, NEW cd2, NEW ln2, NEW W2, NEW k, NEW bs, NEW n, NEW jp, NEW l,
         NEW jp2, NEW c, NEW g, NEW rest,
         IfEnds(cd, ln, W, cd2, ln2, W2, k, bs, n, jp, l, jp2, c, g, rest)
  PROVE  \E c2 : Fits(cd2, ln2, W2, rest, jp2, c2, g)
<1> USE DEF IfEnds
<1>1. /\ cd \in Codes /\ Closing(cd, ln, W, cd2, ln2, W2, k) /\ Lands(cd2, W2, <<l, 0>>, k)
      /\ bs \in BlockSeqs /\ bs # <<>> /\ bs[Len(bs)].type \in {"if", "else"} /\ CutsTo(bs, n)
      /\ jp2 = Patch(jp, {bs[i].slot : i \in n + 1 .. Len(bs)}, l)
      /\ k \in PlacesOf(cd2) => OpAt(cd2, k).op = "endif"
  BY DEF EndsIf
<1>2. PICK o : o = g[bs[Len(bs)].slot]
  OBVIOUS
<1>3. PICK c2 : c2 = With(c, o, k)
  OBVIOUS
<1>4. /\ Len(bs) \in Nat \ {0} /\ n \in Nat /\ n < Len(bs)
      /\ \A i \in n + 1 .. Len(bs) : i \in 1 .. Len(bs) /\ (i = Len(bs) \/ bs[i].dangling)
  BY <1>1 DEF BlockSeqs, CutsTo
<1>5. \A i \in 1 .. Len(bs) : BlockFits(cd, jp, c, g, bs[i])
  BY DEF Fits, Stacked
<1>6. /\ Grown(cd, W, cd2, W2) /\ Openers(cd2) = Openers(cd) /\ Elses(cd2) = Elses(cd)
  BY <1>1 DEF Closing
<1>7. /\ DOMAIN jp \subseteq PlacesOf(cd) /\ Openers(cd) \subseteq PlacesOf(cd)
      /\ \A x \in DOMAIN g : g[x] \in Openers(cd)
      /\ DOMAIN c \subseteq Openers(cd)
  BY <1>1, FitsBased DEF Based, Openers
<1>8. \A i \in n + 1 .. Len(bs) : /\ bs[i].type \in {"if", "else"} /\ bs[i].deps = {}
                                   /\ bs[i].slot \in DOMAIN jp /\ jp[bs[i].slot] = Unpatched
  BY <1>1, <1>4, <1>5 DEF BlockFits, Slotted
<1>9. PICK U : U = Openers(cd) \ DOMAIN c
  OBVIOUS
<1>10. Ranked(bs, U, g) /\ U \subseteq PlaceType
  BY <1>1, <1>7, <1>9, PlaceFacts DEF Fits, Stacked
<1>11. CutLeaves(bs, U, g, o, n, rest)
  <2>1. Cuts(bs, U, g, o, n, rest)
    BY <1>1, <1>2, <1>10 DEF Cuts
  <2> QED
    BY <2>1, RankedCut
<1>12. \A i \in n + 1 .. Len(bs) : g[bs[i].slot] = o
  BY <1>11 DEF CutLeaves
<1>13. DOMAIN jp2 = DOMAIN jp
  BY <1>1 DEF Patch
<1>14. ASSUME NEW p \in DOMAIN jp, \A i \in n + 1 .. Len(bs) : ~Awaits(bs[i], p)
       PROVE  jp2[p] = jp[p]
  <2>1. p \notin {bs[i].slot : i \in n + 1 .. Len(bs)}
    BY <1>8, <1>14 DEF Awaits, Slotted
  <2> QED
    BY <1>1, <2>1 DEF Patch
<1>15. ASSUME NEW p \in DOMAIN jp, NEW i \in n + 1 .. Len(bs), Awaits(bs[i], p)
       PROVE  Done(cd2, W2, jp2, c2, g, p)
  <2>1. p = bs[i].slot
    BY <1>8, <1>15 DEF Awaits
  <2>2. jp2[p] = <<l, 0>>
    <3>1. p \in {bs[j].slot : j \in n + 1 .. Len(bs)}
      BY <2>1
    <3>2. jp2[p] = <<l, jp[p][2]>>
      BY <1>1, <3>1 DEF Patch
    <3>3. jp[p] = <<0, 0>>
      BY <1>8, <2>1 DEF Unpatched
    <3> QED
      BY <3>2, <3>3
  <2>3. g[p] = o /\ o \in DOMAIN c2 /\ c2[o] = k
    BY <1>3, <1>12, <2>1 DEF With
  <2>4. i \in 1 .. Len(bs) /\ BlockFits(cd, jp, c, g, bs[i])
    BY <1>4, <1>5
  <2>5. OpAt(cd2, p) = OpAt(cd, p)
    BY <1>6, <1>7 DEF Grown
  <2>8. OfIf(cd2, g, p)
    <3>1. OpAt(cd, o).op = "if" /\ o \in PlacesOf(cd)
      BY <1>7, <1>8, <2>1, <2>3, <2>4 DEF BlockFits
    <3> QED
      BY <1>6, <2>3, <3>1 DEF Grown, OfIf
  <2>6. CASE bs[i].type = "if"
    <3>1. OpAt(cd2, p).op = "if" /\ \A e \in Elses(cd2) : g[e] = g[p] => ~Lt(p, e)
      BY <1>6, <2>1, <2>4, <2>5, <2>6 DEF BlockFits
    <3> QED
      BY <1>1, <2>2, <2>3, <2>8, <3>1 DEF Done, IfDone
  <2>7. CASE bs[i].type = "else"
    <3>1. OpAt(cd2, p).op = "else"
      BY <2>1, <2>4, <2>5, <2>7 DEF BlockFits
    <3> QED
      BY <1>1, <2>2, <2>3, <2>8, <3>1 DEF Done, ElseDone
  <2> QED
    BY <1>8, <2>6, <2>7
<1>16. Pair(cd2, o, k)
  <2>1. bs[Len(bs)].slot \in DOMAIN g /\ OpAt(cd, o).op = "if"
    BY <1>1, <1>2, <1>4, <1>5 DEF BlockFits
  <2>2. o \in PlacesOf(cd)
    BY <1>2, <1>7, <2>1
  <2>3. OpAt(cd2, o).op = "if"
    BY <1>6, <2>1, <2>2 DEF Grown
  <2> QED
    BY <1>1, <2>3 DEF Pair
<1>17. /\ DOMAIN jp \subseteq DOMAIN jp2 /\ DOMAIN jp2 \ DOMAIN jp = {}
       /\ \A p \in DOMAIN jp : (\A i \in n + 1 .. Len(bs) : ~Awaits(bs[i], p)) => jp2[p] = jp[p]
       /\ \A p \in DOMAIN jp, i \in n + 1 .. Len(bs) :
            Awaits(bs[i], p) => Done(cd2, W2, jp2, c2, g, p)
  BY <1>13, <1>14, <1>15
<1>18. Ends(cd, ln, W, cd2, ln2, W2, k, bs, n, jp, c, g, o, c2, jp2)
  BY <1>1, <1>2, <1>3, <1>16, <1>17 DEF Ends
<1>19. Fits(cd2, ln2, W2, rest, jp2, c2, g)
  BY <1>18, FitsClose
<1> QED
  BY <1>19

LEMMA PutsClosing ==
  ASSUME NEW cd, NEW ln, NEW W, NEW a, NEW cd2, NEW ln2, NEW W2, NEW h,
         Puts(cd, ln, W, a, cd2, ln2, W2, h), IsCloser(a)
  PROVE  Closing(cd, ln, W, cd2, ln2, W2, h)
<1>1. ~IsOpener(a) /\ a.op \notin {"if", "else"}
  BY DEF IsOpener, IsCloser
<1>2. /\ Openers(cd2) = Openers(cd) /\ Elses(cd2) = Elses(cd) /\ Marks(cd2) = Marks(cd)
      /\ ClosersOf(cd2, ln2) = ClosersOf(cd, ln) \cup {h}
  BY <1>1, PutsSets
<1>3. /\ Grown(cd, W, cd2, W2) /\ h \in PlaceType
      /\ \A p \in PlacesOf(cd) : Lt(p, h)
      /\ \A x \in ClosersOf(cd, ln) : Lt(x, h) /\ (x \in PlacesOf(cd) \/ x \notin PlacesOf(cd2))
  BY PutsFacts
<1> QED
  BY <1>2, <1>3 DEF Closing

\* The block on top is one of a loop, of a SUB or of a BEGIN.
EndsOne(cd, ln, W, a, cd2, ln2, W2, h, bs, jp, c, g, b) ==
  /\ Puts(cd, ln, W, a, cd2, ln2, W2, h) /\ IsCloser(a) /\ W2 = {}
  /\ bs \in BlockSeqs /\ bs # <<>> /\ b = bs[Len(bs)] /\ b.type \notin {"if", "else"}
  /\ Fits(cd, ln, W, bs, jp, c, g)

LEMMA EndsOneFacts ==
  ASSUME NEW cd, NEW ln, NEW W, NEW a, NEW cd2, NEW ln2, NEW W2, NEW h, NEW bs, NEW jp, NEW c,
         NEW g, NEW b, EndsOne(cd, ln, W, a, cd2, ln2, W2, h, bs, jp, c, g, b),
         NEW n, n = Len(bs) - 1
  PROVE  /\ CutsTo(bs, n) /\ \A i \in n + 1 .. Len(bs) : i = Len(bs)
         /\ Len(bs) \in n + 1 .. Len(bs)
         /\ BlockFits(cd, jp, c, g, b) /\ g[b.slot] = b.slot /\ b.slot \in Openers(cd)
         /\ OpAt(cd2, b.slot) = OpAt(cd, b.slot) /\ OpAt(cd, b.slot).op = b.type
         /\ Lt(b.slot, h) /\ b.slot \in PlacesOf(cd) /\ h \notin DOMAIN jp
         /\ LastOn(cd2, W2, h) /\ DOMAIN jp \subseteq PlacesOf(cd)
         /\ \A p \in PlacesOf(cd) : OpAt(cd2, p) = OpAt(cd, p) /\ Lt(p, h)
<1> USE DEF EndsOne
<1>1. Len(bs) \in Nat \ {0}
  BY DEF BlockSeqs
<1>2. Ranked(bs, Openers(cd) \ DOMAIN c, g) /\ \A i \in 1 .. Len(bs) : BlockFits(cd, jp, c, g, bs[i])
  BY DEF Fits, Stacked
<1>3. PICK U : U = Openers(cd) \ DOMAIN c
  OBVIOUS
<1>4. CutsTo(bs, n)
  <2>1. Ranked(bs, U, g)
    BY <1>2, <1>3
  <2> QED
    BY <2>1, CutOne
<1>5. BlockFits(cd, jp, c, g, b) /\ g[b.slot] \in Openers(cd)
  BY <1>1, <1>2 DEF Ranked
<1>6. g[b.slot] = b.slot /\ OpAt(cd, b.slot).op = b.type
  BY <1>5 DEF BlockFits
<1>7. /\ \A p \in PlacesOf(cd) : OpAt(cd2, p) = OpAt(cd, p) /\ Lt(p, h)
      /\ h \notin PlacesOf(cd) /\ h \in PlacesOf(cd2) /\ Len(cd2[h[1]]) = h[2]
      /\ cd \in Codes
  BY PutsFacts
<1>8. b.slot \in PlacesOf(cd)
  BY <1>5, <1>6 DEF Openers
<1>9. DOMAIN jp \subseteq PlacesOf(cd)
  BY <1>7, FitsBased DEF Based
<1>10. LastOn(cd2, W2, h)
  BY <1>7 DEF LastOn
<1>11. (\A i \in n + 1 .. Len(bs) : i = Len(bs)) /\ Len(bs) \in n + 1 .. Len(bs)
  BY <1>1
<1> QED
  BY <1>4, <1>5, <1>6, <1>7, <1>8, <1>9, <1>10, <1>11

LEMMA PairParts ==
  ASSUME NEW x, NEW f, NEW t, x = <<f, t>>
  PROVE  x[1] = f /\ x[2] = t
OBVIOUS

\* NEXT closes the loop on top, which goes to the end of its line when it is over.
LEMMA FitsNext ==
  ASSUME NEW cd, NEW ln, NEW W, NEW a, NEW cd2, NEW ln2, NEW W2, NEW h, NEW bs, NEW jp, NEW c,
         NEW g, NEW b, EndsOne(cd, ln, W, a, cd2, ln2, W2, h, bs, jp, c, g, b),
         a.op = "next", b.type \in LoopOps, b.type = "for" => b.var = a.v,
         NEW jp2, NEW mid, NEW l, l = Len(cd), mid = Slot(Patch(jp, {b.slot}, l), h),
         NEW t, t = <<b.first, b.off1>>, jp2 = PatchTo(mid, h, t),
         NEW rest, rest = SubSeq(bs, 1, Len(bs) - 1)
  PROVE  \E c2 : Fits(cd2, ln2, W2, rest, jp2, c2, g)
<1>1. PICK n : n = Len(bs) - 1
  OBVIOUS
<1>2. PICK o : o = b.slot
  OBVIOUS
<1>3. PICK c2 : c2 = With(c, o, h)
  OBVIOUS
<1>4. /\ CutsTo(bs, n) /\ (\A i \in n + 1 .. Len(bs) : i = Len(bs))
      /\ Len(bs) \in n + 1 .. Len(bs)
      /\ BlockFits(cd, jp, c, g, b) /\ g[b.slot] = b.slot /\ b.slot \in Openers(cd)
      /\ OpAt(cd2, b.slot) = OpAt(cd, b.slot) /\ OpAt(cd, b.slot).op = b.type
      /\ Lt(b.slot, h) /\ b.slot \in PlacesOf(cd) /\ h \notin DOMAIN jp
      /\ LastOn(cd2, W2, h)
  BY <1>1, EndsOneFacts
<1>5. /\ Puts(cd, ln, W, a, cd2, ln2, W2, h) /\ IsCloser(a) /\ W2 = {}
      /\ bs \in BlockSeqs /\ bs # <<>> /\ b = bs[Len(bs)] /\ b.type \notin {"if", "else"}
      /\ Fits(cd, ln, W, bs, jp, c, g)
  BY DEF EndsOne
<1>6. /\ b.deps = {} /\ b.slot \in DOMAIN jp /\ jp[b.slot] = <<0, 0>>
      /\ b.type = "for" => b.var = OpAt(cd, b.slot).v
      /\ b.slot = <<b.first, b.off1 + 1>>
  BY <1>4 DEF BlockFits, LoopOps, Slotted, Unpatched
<1>7. /\ OpAt(cd2, h) = a /\ h \in PlacesOf(cd2) /\ h[1] = Len(cd) /\ cd \in Codes
  BY <1>5, PutsFacts
<1>8. /\ DOMAIN jp2 = DOMAIN jp \cup {h} /\ jp2[h] = t
      /\ \A p \in DOMAIN jp : p # b.slot => jp2[p] = jp[p]
      /\ jp2[b.slot] = <<Len(cd), 0>>
  <2>1. /\ DOMAIN mid = DOMAIN jp \cup {h}
        /\ \A p \in DOMAIN jp : p # b.slot => mid[p] = jp[p]
        /\ mid[b.slot] = <<Len(cd), 0>>
    <3>1. PICK old : old = Patch(jp, {b.slot}, l)
      OBVIOUS
    <3>2. /\ DOMAIN old = DOMAIN jp /\ \A p \in DOMAIN jp : p # b.slot => old[p] = jp[p]
          /\ old[b.slot] = <<Len(cd), jp[b.slot][2]>>
      BY <1>6, <3>1 DEF Patch
    <3>3. /\ DOMAIN mid = DOMAIN old \cup {h} /\ \A p \in DOMAIN old : p # h => mid[p] = old[p]
      BY <3>1 DEF Slot
    <3>4. jp[b.slot][2] = 0
      BY <1>6
    <3> QED
      BY <1>4, <1>6, <3>2, <3>3, <3>4
  <2> QED
    BY <1>4, <1>6, <2>1 DEF PatchTo
<1>9. DOMAIN c2 = DOMAIN c \cup {o} /\ c2[o] = h
  BY <1>3 DEF With
<1>10. Done(cd2, W2, jp2, c2, g, b.slot)
  <2>1. LoopDone(cd2, W2, jp2, c2, b.slot)
    BY <1>2, <1>4, <1>7, <1>8, <1>9 DEF LoopDone
  <2>2. OpAt(cd2, b.slot).op \in LoopOps
    BY <1>4
  <2> QED
    BY <2>1, <2>2 DEF Done
<1>11. Done(cd2, W2, jp2, c2, g, h)
  <2>1. jp2[h][1] = b.first /\ jp2[h][2] = b.off1
    <3>1. t[1] = b.first /\ t[2] = b.off1
      BY PairParts
    <3> QED
      BY <1>8, <3>1
  <2>2. o \in DOMAIN c2 /\ c2[o] = h /\ o = <<jp2[h][1], jp2[h][2] + 1>>
    BY <1>2, <1>6, <1>9, <2>1
  <2>3. NextDone(jp2, c2, h)
    BY <2>2 DEF NextDone
  <2> QED
    BY <1>7, <2>3 DEF Done
<1>12. Pair(cd2, o, h)
  <2>1. OpAt(cd2, o).op = "for" => OpAt(cd2, o).v = a.v
    BY <1>2, <1>4, <1>6
  <2> QED
    BY <1>2, <1>4, <1>7, <2>1 DEF Pair
<1>13. Closing(cd, ln, W, cd2, ln2, W2, h)
  BY <1>5, PutsClosing
<1>14. /\ DOMAIN jp \subseteq DOMAIN jp2
       /\ \A p \in DOMAIN jp : (\A i \in n + 1 .. Len(bs) : ~Awaits(bs[i], p)) => jp2[p] = jp[p]
       /\ \A p \in DOMAIN jp, i \in n + 1 .. Len(bs) :
            Awaits(bs[i], p) => Done(cd2, W2, jp2, c2, g, p)
       /\ \A p \in DOMAIN jp2 \ DOMAIN jp : p \in PlacesOf(cd2) /\ Done(cd2, W2, jp2, c2, g, p)
  <2>1. Awaits(b, b.slot)
    BY DEF Awaits, LoopOps, Slotted
  <2>2. \A p : Awaits(b, p) => p = b.slot
    BY <1>6 DEF Awaits
  <2> QED
    BY <1>4, <1>5, <1>7, <1>8, <1>10, <1>11, <2>1, <2>2
<1>15. Ends(cd, ln, W, cd2, ln2, W2, h, bs, n, jp, c, g, o, c2, jp2)
  BY <1>2, <1>3, <1>4, <1>5, <1>7, <1>12, <1>13, <1>14 DEF Ends
<1>16. Fits(cd2, ln2, W2, rest, jp2, c2, g)
  BY <1>1, <1>15, FitsClose
<1> QED
  BY <1>16

\* END and ENDSUB; the RETURNs of a subroutine go to its ENDSUB.
LEMMA FitsEnd ==
  ASSUME NEW cd, NEW ln, NEW W, NEW a, NEW cd2, NEW ln2, NEW W2, NEW h, NEW bs, NEW jp, NEW c,
         NEW g, NEW b, EndsOne(cd, ln, W, a, cd2, ln2, W2, h, bs, jp, c, g, b),
         \/ a.op = "end" /\ b.type = "begin"
         \/ a.op = "endsub" /\ b.type = "sub" /\ h[2] = 1,
         NEW jp2, NEW l, l = Len(cd), jp2 = Patch(jp, b.deps, l),
         NEW rest, rest = SubSeq(bs, 1, Len(bs) - 1)
  PROVE  \E c2 : Fits(cd2, ln2, W2, rest, jp2, c2, g)
<1>1. PICK n : n = Len(bs) - 1
  OBVIOUS
<1>2. PICK o : o = b.slot
  OBVIOUS
<1>3. PICK c2 : c2 = With(c, o, h)
  OBVIOUS
<1>4. /\ CutsTo(bs, n) /\ (\A i \in n + 1 .. Len(bs) : i = Len(bs))
      /\ Len(bs) \in n + 1 .. Len(bs)
      /\ BlockFits(cd, jp, c, g, b) /\ g[b.slot] = b.slot /\ b.slot \in Openers(cd)
      /\ OpAt(cd2, b.slot) = OpAt(cd, b.slot) /\ OpAt(cd, b.slot).op = b.type
      /\ Lt(b.slot, h) /\ b.slot \in PlacesOf(cd)
      /\ DOMAIN jp \subseteq PlacesOf(cd)
      /\ \A p \in PlacesOf(cd) : OpAt(cd2, p) = OpAt(cd, p) /\ Lt(p, h)
  BY <1>1, EndsOneFacts
<1>5. /\ Puts(cd, ln, W, a, cd2, ln2, W2, h) /\ IsCloser(a) /\ W2 = {}
      /\ bs \in BlockSeqs /\ bs # <<>> /\ b = bs[Len(bs)] /\ b.type \notin {"if", "else"}
      /\ Fits(cd, ln, W, bs, jp, c, g)
  BY DEF EndsOne
<1>6. /\ \A p \in b.deps : /\ p \in DOMAIN jp /\ jp[p] = <<0, 0>>
                           /\ OpAt(cd, p).op = "return" /\ Lt(b.slot, p)
      /\ b.type # "sub" => b.deps = {}
  BY <1>4 DEF BlockFits, Unpatched
<1>7. /\ OpAt(cd2, h) = a /\ h \in PlacesOf(cd2) /\ h[1] = Len(cd) /\ cd \in Codes /\ h = <<h[1], h[2]>>
  BY <1>5, PutsFacts DEF PlaceType
<1>8. /\ DOMAIN jp2 = DOMAIN jp
      /\ \A p \in DOMAIN jp : p \notin b.deps => jp2[p] = jp[p]
      /\ \A p \in b.deps : jp2[p] = <<Len(cd), 0>>
  BY <1>6 DEF Patch
<1>9. DOMAIN c2 = DOMAIN c \cup {o} /\ c2[o] = h
  BY <1>3 DEF With
<1>10. ASSUME NEW p \in b.deps PROVE Done(cd2, W2, jp2, c2, g, p)
  <2>1. b.type = "sub" /\ h = <<Len(cd), 1>>
    BY <1>6, <1>7, <1>10
  <2>2. OpAt(cd2, p).op = "return" /\ Lt(p, h)
    BY <1>4, <1>6, <1>10
  <2>4. jp2[p][1] = Len(cd) /\ jp2[p][2] = 0
    BY <1>8, <1>10
  <2>5. OpAt(cd2, o).op = "sub" /\ Lt(o, p)
    BY <1>2, <1>4, <1>6, <1>10, <2>1
  <2>3. ReturnDone(cd2, jp2, c2, p)
    BY <1>9, <2>1, <2>2, <2>4, <2>5 DEF ReturnDone
  <2> QED
    BY <2>2, <2>3 DEF Done
<1>12. Pair(cd2, o, h)
  BY <1>2, <1>4, <1>7 DEF Pair
<1>13. Closing(cd, ln, W, cd2, ln2, W2, h)
  BY <1>5, PutsClosing
<1>14. /\ DOMAIN jp \subseteq DOMAIN jp2
       /\ \A p \in DOMAIN jp : (\A i \in n + 1 .. Len(bs) : ~Awaits(bs[i], p)) => jp2[p] = jp[p]
       /\ \A p \in DOMAIN jp, i \in n + 1 .. Len(bs) :
            Awaits(bs[i], p) => Done(cd2, W2, jp2, c2, g, p)
       /\ \A p \in DOMAIN jp2 \ DOMAIN jp : p \in PlacesOf(cd2) /\ Done(cd2, W2, jp2, c2, g, p)
  <2>1. \A p : Awaits(b, p) <=> p \in b.deps
    BY DEF Awaits, Slotted
  <2> QED
    BY <1>4, <1>5, <1>8, <1>10, <2>1
<1>15. Ends(cd, ln, W, cd2, ln2, W2, h, bs, n, jp, c, g, o, c2, jp2)
  BY <1>2, <1>3, <1>4, <1>5, <1>7, <1>12, <1>13, <1>14 DEF Ends
<1>16. Fits(cd2, ln2, W2, rest, jp2, c2, g)
  BY <1>1, <1>15, FitsClose
<1> QED
  BY <1>16

LEMMA RankedSame ==
  ASSUME NEW bs, NEW bs2, NEW U, NEW g, Ranked(bs, U, g), Len(bs2) = Len(bs), Len(bs) \in Nat,
         \A i \in 1 .. Len(bs) : /\ bs2[i].slot = bs[i].slot /\ bs2[i].type = bs[i].type
                                 /\ bs2[i].dangling = bs[i].dangling
  PROVE  Ranked(bs2, U, g)
<1>1. \A i \in 1 .. Len(bs2) : g[bs2[i].slot] \in U
  BY DEF Ranked
<1>2. \A o \in U : \E i \in 1 .. Len(bs2) : g[bs2[i].slot] = o
  BY DEF Ranked
<1>3. \A i, j \in 1 .. Len(bs2) : \A k \in i .. j - 1 :
        ~bs2[k].dangling => Lt(g[bs2[i].slot], g[bs2[j].slot])
  <2> SUFFICES ASSUME NEW i \in 1 .. Len(bs), NEW j \in 1 .. Len(bs), NEW k \in i .. j - 1,
                      ~bs2[k].dangling
               PROVE  Lt(g[bs2[i].slot], g[bs2[j].slot])
    OBVIOUS
  <2>1. k \in 1 .. Len(bs)
    OBVIOUS
  <2>2. ~bs[k].dangling
    BY <2>1
  <2>3. Lt(g[bs[i].slot], g[bs[j].slot])
    BY <2>2 DEF Ranked
  <2> QED
    BY <2>3
<1>4. ASSUME NEW i \in 1 .. Len(bs), NEW j \in 1 .. Len(bs), i < j,
             \A k \in i .. j - 1 : bs2[k].dangling
      PROVE  g[bs2[i].slot] = g[bs2[j].slot]
  <2>1. \A k \in i .. j - 1 : k \in 1 .. Len(bs)
    OBVIOUS
  <2>2. \A k \in i .. j - 1 : bs[k].dangling
    BY <1>4, <2>1
  <2>3. g[bs[i].slot] = g[bs[j].slot]
    BY <1>4, <2>2 DEF Ranked
  <2> QED
    BY <2>3
<1>5. ASSUME NEW i \in 1 .. Len(bs), bs2[i].dangling
      PROVE  i < Len(bs2) /\ bs2[i + 1].type \in {"if", "else"}
  <2>1. bs[i].dangling
    BY <1>5
  <2>2. i < Len(bs) /\ bs[i + 1].type \in {"if", "else"}
    BY <2>1 DEF Ranked
  <2>3. i + 1 \in 1 .. Len(bs)
    BY <2>2
  <2> QED
    BY <2>2, <2>3
<1>6. \A i, j \in 1 .. Len(bs2) :
        i < j /\ (\A k \in i .. j - 1 : bs2[k].dangling) => g[bs2[i].slot] = g[bs2[j].slot]
  BY <1>4
<1> QED
  BY <1>1, <1>2, <1>3, <1>5, <1>6 DEF Ranked

\* RETURN hangs on every SUB of the stack.
Hang(bs, h) ==
  [i \in DOMAIN bs |->
     IF bs[i].type = "sub" THEN [bs[i] EXCEPT !.deps = @ \cup {h}] ELSE bs[i]]

LEMMA HangFacts ==
  ASSUME NEW bs \in BlockSeqs, NEW h \in PlaceType, NEW bs2, bs2 = Hang(bs, h)
  PROVE  /\ bs2 \in BlockSeqs /\ Len(bs2) = Len(bs) /\ Len(bs) \in Nat
         /\ \A i \in 1 .. Len(bs) :
              /\ bs2[i].slot = bs[i].slot /\ bs2[i].type = bs[i].type
              /\ bs2[i].dangling = bs[i].dangling /\ bs2[i].var = bs[i].var
              /\ bs2[i].first = bs[i].first /\ bs2[i].off1 = bs[i].off1
              /\ bs[i].type = "sub" => bs2[i].deps = bs[i].deps \cup {h}
              /\ bs[i].type # "sub" => bs2[i].deps = bs[i].deps
<1>1. Len(bs) \in Nat /\ DOMAIN bs = 1 .. Len(bs) /\ \A i \in 1 .. Len(bs) : bs[i] \in BlockRecords
  BY DEF BlockSeqs
<1>2. ASSUME NEW i \in 1 .. Len(bs)
      PROVE  /\ bs2[i] \in BlockRecords
             /\ bs2[i].slot = bs[i].slot /\ bs2[i].type = bs[i].type
             /\ bs2[i].dangling = bs[i].dangling /\ bs2[i].var = bs[i].var
             /\ bs2[i].first = bs[i].first /\ bs2[i].off1 = bs[i].off1
             /\ bs[i].type = "sub" => bs2[i].deps = bs[i].deps \cup {h}
             /\ bs[i].type # "sub" => bs2[i].deps = bs[i].deps
  <2>1. bs[i] \in BlockRecords
    BY <1>1
  <2>2. CASE bs[i].type = "sub"
    <3>1. bs2[i] = [bs[i] EXCEPT !.deps = @ \cup {h}]
      BY <1>1, <2>2 DEF Hang
    <3> QED
      BY <2>1, <2>2, <3>1 DEF BlockRecords
  <2>3. CASE bs[i].type # "sub"
    <3>1. bs2[i] = bs[i]
      BY <1>1, <2>3 DEF Hang
    <3> QED
      BY <2>1, <2>3, <3>1
  <2> QED
    BY <2>2, <2>3
<1>3. bs2 \in [1 .. Len(bs) -> BlockRecords]
  BY <1>1, <1>2 DEF Hang
<1> QED
  BY <1>1, <1>2, <1>3 DEF BlockSeqs

LEMMA FitsReturn ==
  ASSUME NEW cd, NEW ln, NEW W, NEW a, NEW cd2, NEW ln2, NEW W2, NEW h,
         Puts(cd, ln, W, a, cd2, ln2, W2, h), a.op = "return",
         NEW bs \in BlockSeqs, NEW jp, NEW c, NEW g, Fits(cd, ln, W, bs, jp, c, g),
         \E i \in 1 .. Len(bs) : bs[i].type = "sub",
         NEW bs2, bs2 = Hang(bs, h), NEW jp2, jp2 = Slot(jp, h)
  PROVE  Fits(cd2, ln2, W2, bs2, jp2, c, g)
<1>1. Fits(cd2, ln2, W2, bs, jp, c, g)
  BY FitsPlain
<1>2. /\ cd \in Codes /\ cd2 \in Codes /\ h \notin PlacesOf(cd) /\ h \in PlacesOf(cd2)
      /\ OpAt(cd2, h) = a /\ h \in PlaceType /\ \A p \in PlacesOf(cd) : Lt(p, h)
  BY PutsFacts
<1>3. DOMAIN jp \subseteq PlacesOf(cd) /\ DOMAIN g \subseteq PlacesOf(cd)
  BY <1>2, FitsBased DEF Based
<1>4. /\ DOMAIN jp2 = DOMAIN jp \cup {h} /\ jp2[h] = Unpatched
      /\ \A p \in DOMAIN jp : jp2[p] = jp[p]
  BY <1>2, <1>3 DEF Slot
<1>5. Grown(cd2, W2, cd2, W2)
  BY <1>2 DEF Grown
<1>6. Extended(cd2, c, g, cd2, c, g)
  BY DEF Extended, Extends
<1>7. /\ DOMAIN g = Marks(cd2) /\ (\A x \in DOMAIN g : g[x] \in Openers(cd2))
      /\ DOMAIN jp \subseteq PlacesOf(cd2) /\ Based(cd2, ln2, jp, c, g)
  BY <1>1, <1>2, FitsBased DEF Based
<1>8. Keeps(cd2, W2, jp, c, g, cd2, W2, jp2, c, g)
  BY <1>4, <1>5, <1>6, <1>7 DEF Keeps
<1>9. /\ bs2 \in BlockSeqs /\ Len(bs2) = Len(bs) /\ Len(bs) \in Nat
      /\ \A i \in 1 .. Len(bs) :
           /\ bs2[i].slot = bs[i].slot /\ bs2[i].type = bs[i].type
           /\ bs2[i].dangling = bs[i].dangling /\ bs2[i].var = bs[i].var
           /\ bs2[i].first = bs[i].first /\ bs2[i].off1 = bs[i].off1
           /\ bs[i].type = "sub" => bs2[i].deps = bs[i].deps \cup {h}
           /\ bs[i].type # "sub" => bs2[i].deps = bs[i].deps
  BY <1>2, HangFacts
<1>10. ASSUME NEW i \in 1 .. Len(bs2) PROVE BlockFits(cd2, jp2, c, g, bs2[i])
  <2>1. i \in 1 .. Len(bs) /\ BlockFits(cd2, jp, c, g, bs[i])
    BY <1>1, <1>9 DEF Fits, Stacked
  <2>2. Untouched(cd2, jp, g, cd2, jp2, g, bs[i])
    BY <1>4, <2>1 DEF Untouched, BlockFits
  <2>3. BlockFits(cd2, jp2, c, g, bs[i])
    BY <1>8, <2>1, <2>2, BlockKept
  <2>4. bs[i].slot \in PlacesOf(cd)
    BY <1>3, <2>1 DEF BlockFits
  <2>5. \A p \in bs2[i].deps : /\ p \in DOMAIN jp2 /\ jp2[p] = Unpatched
                               /\ OpAt(cd2, p).op = "return" /\ Lt(bs2[i].slot, p)
    <3>1. \A p \in bs[i].deps : /\ p \in DOMAIN jp2 /\ jp2[p] = Unpatched
                                /\ OpAt(cd2, p).op = "return" /\ Lt(bs[i].slot, p)
      BY <2>3 DEF BlockFits
    <3>2. /\ h \in DOMAIN jp2 /\ jp2[h] = Unpatched
          /\ OpAt(cd2, h).op = "return" /\ Lt(bs[i].slot, h)
      BY <1>2, <1>4, <2>4
    <3>3. bs2[i].deps \subseteq bs[i].deps \cup {h} /\ bs2[i].slot = bs[i].slot
      BY <1>9, <2>1
    <3> QED
      BY <3>1, <3>2, <3>3
  <2>6. bs2[i].type # "sub" => bs2[i].deps = {}
    BY <1>9, <2>1, <2>3 DEF BlockFits
  <2>7. /\ bs2[i].slot = bs[i].slot /\ bs2[i].type = bs[i].type
        /\ bs2[i].dangling = bs[i].dangling /\ bs2[i].var = bs[i].var
        /\ bs2[i].first = bs[i].first /\ bs2[i].off1 = bs[i].off1
    BY <1>9, <2>1
  <2> QED
    BY <2>3, <2>5, <2>6, <2>7 DEF BlockFits
<1>11. Ranked(bs2, Openers(cd2) \ DOMAIN c, g)
  <2>1. PICK U : U = Openers(cd2) \ DOMAIN c
    OBVIOUS
  <2>2. Ranked(bs, U, g)
    BY <1>1, <2>1 DEF Fits, Stacked
  <2>3. Ranked(bs2, U, g)
    BY <1>9, <2>2, RankedSame
  <2> QED
    BY <2>1, <2>3
<1>12. Targeted(cd2, W2, bs2, jp2, c, g)
  <2> SUFFICES ASSUME NEW p \in DOMAIN jp2
               PROVE  \/ p \in PlacesOf(cd2) /\ \E i \in 1 .. Len(bs2) : Awaits(bs2[i], p)
                      \/ p \in PlacesOf(cd2) /\ Done(cd2, W2, jp2, c, g, p)
                      \/ p \in DOMAIN jp /\ jp2[p] = jp[p] /\ Done(cd2, W2, jp, c, g, p)
    BY <1>5, <1>6, <1>7, TargetedKept
  <2>1. CASE p = h
    <3>1. PICK i \in 1 .. Len(bs) : bs[i].type = "sub"
      OBVIOUS
    <3>2. Awaits(bs2[i], h)
      BY <1>9, <3>1 DEF Awaits
    <3> QED
      BY <1>2, <1>9, <2>1, <3>2
  <2>2. CASE p \in DOMAIN jp
    <3>1. CASE \E i \in 1 .. Len(bs) : Awaits(bs[i], p)
      <4>1. PICK i \in 1 .. Len(bs) : Awaits(bs[i], p)
        BY <3>1
      <4>2. bs[i].deps \subseteq bs2[i].deps
        BY <1>9
      <4>3. Awaits(bs2[i], p)
        BY <1>9, <4>1, <4>2 DEF Awaits
      <4> QED
        BY <1>7, <1>9, <2>2, <4>3
    <3>2. CASE Done(cd2, W2, jp, c, g, p)
      BY <1>4, <2>2, <3>2
    <3> QED
      BY <1>1, <2>2, <3>1, <3>2 DEF Fits, Targeted
  <2> QED
    BY <1>4, <2>1, <2>2
<1> QED
  BY <1>1, <1>10, <1>11, <1>12 DEF Fits, Stacked

\* ELSE, and the two opcodes of ELSE IF: marks of the block that is open on top.
Mark(cd, ln, W, a, cd2, ln2, W2, h, bs, jp, c, g, b, o, g2) ==
  /\ Puts(cd, ln, W, a, cd2, ln2, W2, h) /\ (a.op = "else" \/ (a.op = "if" /\ a.d))
  /\ bs \in BlockSeqs /\ bs # <<>> /\ Fits(cd, ln, W, bs, jp, c, g)
  /\ b = bs[Len(bs)] /\ o = g[b.slot] /\ g2 = With(g, h, o)

Marked(cd, cd2, ln2, h, bs, jp, c, g, b, o, g2) ==
  /\ Nested(Openers(cd2), ClosersOf(cd2, ln2), Marks(cd2), c, g2) /\ Typed(cd2, c)
  /\ Extended(cd, c, g, cd2, c, g2) /\ Openers(cd2) = Openers(cd)
  /\ Len(bs) \in Nat \ {0} /\ ~b.dangling /\ BlockFits(cd, jp, c, g, b)
  /\ h \notin DOMAIN g /\ DOMAIN g2 = DOMAIN g \cup {h} /\ g2[h] = o
  /\ (\A x \in DOMAIN g : g2[x] = g[x]) /\ h \notin DOMAIN jp
  /\ o \in Openers(cd) \ DOMAIN c /\ Lt(b.slot, h)
  /\ \A i \in 1 .. Len(bs) : BlockFits(cd, jp, c, g, bs[i])
  /\ \A i \in 1 .. Len(bs) - 1 : bs[i].type = "if" => g[bs[i].slot] # o

LEMMA MarkFacts ==
  ASSUME NEW cd, NEW ln, NEW W, NEW a, NEW cd2, NEW ln2, NEW W2, NEW h, NEW bs, NEW jp, NEW c,
         NEW g, NEW b, NEW o, NEW g2,
         Mark(cd, ln, W, a, cd2, ln2, W2, h, bs, jp, c, g, b, o, g2)
  PROVE  Marked(cd, cd2, ln2, h, bs, jp, c, g, b, o, g2)
<1>0. /\ Puts(cd, ln, W, a, cd2, ln2, W2, h) /\ (a.op = "else" \/ (a.op = "if" /\ a.d))
      /\ bs \in BlockSeqs /\ bs # <<>> /\ Fits(cd, ln, W, bs, jp, c, g)
      /\ b = bs[Len(bs)] /\ o = g[b.slot] /\ g2 = With(g, h, o)
  BY DEF Mark
<1>1. Len(bs) \in Nat \ {0}
  BY <1>0 DEF BlockSeqs
<1>2. /\ Grown(cd, W, cd2, W2) /\ cd \in Codes /\ cd2 \in Codes /\ h \in PlaceType
      /\ h \notin PlacesOf(cd) /\ h \in PlacesOf(cd2) /\ OpAt(cd2, h) = a
      /\ PlacesOf(cd2) = PlacesOf(cd) \cup {h}
      /\ \A p \in PlacesOf(cd) : OpAt(cd2, p) = OpAt(cd, p) /\ Lt(p, h)
      /\ \A x \in ClosersOf(cd, ln) : Lt(x, h) /\ (x \in PlacesOf(cd) \/ x \notin PlacesOf(cd2))
  BY <1>0, PutsFacts
<1>3. /\ DOMAIN g = Marks(cd) /\ DOMAIN c \subseteq Openers(cd) /\ (\A x \in DOMAIN g : g[x] \in Openers(cd))
      /\ (\A q \in DOMAIN c : c[q] \in ClosersOf(cd, ln)) /\ DOMAIN jp \subseteq PlacesOf(cd)
      /\ Openers(cd) \subseteq Marks(cd) /\ Marks(cd) \subseteq PlacesOf(cd)
      /\ PlacesOf(cd) \subseteq PlaceType /\ ClosersOf(cd, ln) \subseteq PlaceType
  BY <1>0, <1>2, FitsBased DEF Based
<1>4. ~IsOpener(a) /\ ~IsCloser(a) /\ a.op \in {"if", "else"}
  BY <1>0 DEF IsOpener, IsCloser
<1>5. /\ Openers(cd2) = Openers(cd) /\ ClosersOf(cd2, ln2) = ClosersOf(cd, ln)
      /\ Marks(cd2) = Marks(cd) \cup {h}
      /\ Elses(cd2) \subseteq Elses(cd) \cup {h}
  <2>1. Elses(cd2) \subseteq Elses(cd) \cup {h}
    <3>1. Elses(cd2) = Elses(cd) \cup {h} \/ Elses(cd2) = Elses(cd)
      BY <1>0, PutsSets
    <3> QED
      BY <3>1
  <2> QED
    BY <1>0, <1>4, <2>1, PutsSets
<1>6. /\ Nested(Openers(cd), ClosersOf(cd, ln), Marks(cd), c, g) /\ Typed(cd, c)
      /\ Stacked(cd, bs, jp, c, g)
  BY <1>0 DEF Fits
<1>7. \A i \in 1 .. Len(bs) : BlockFits(cd, jp, c, g, bs[i])
  BY <1>6 DEF Stacked
<1>8. PICK U : U = Openers(cd) \ DOMAIN c
  OBVIOUS
<1>9. Ranked(bs, U, g) /\ U \subseteq PlaceType
  BY <1>3, <1>6, <1>8 DEF Stacked
<1>10. o \in U /\ (\A u \in U : u = o \/ Lt(u, o)) /\ ~b.dangling
  BY <1>0, <1>9, TopOpener
<1>11. /\ h \notin DOMAIN g /\ DOMAIN g2 = DOMAIN g \cup {h} /\ g2[h] = o
       /\ \A x \in DOMAIN g : g2[x] = g[x]
  BY <1>0, <1>2, <1>3 DEF With
<1>12. Nested(Openers(cd), ClosersOf(cd, ln), Marks(cd) \cup {h}, c, g2)
  <2>1. \A x \in Marks(cd) \cup ClosersOf(cd, ln) : Lt(x, h)
    BY <1>2, <1>3
  <2>2. Marks(cd) \subseteq PlaceType
    BY <1>3
  <2>3. o \in Openers(cd) /\ o \notin DOMAIN c /\ \A q \in Openers(cd) : q \in DOMAIN c \/ q = o \/ Lt(q, o)
    BY <1>8, <1>10
  <2> QED
    BY <1>2, <1>3, <1>6, <2>1, <2>2, <2>3, <1>0, NestedMark
<1>13. Extended(cd, c, g, cd2, c, g2)
  BY <1>5, <1>8, <1>10, <1>11 DEF Extended, Extends
<1>14. Typed(cd2, c)
  <2>1. \A q \in DOMAIN c : c[q] \in PlacesOf(cd) \/ c[q] \notin PlacesOf(cd2)
    BY <1>2, <1>3
  <2>2. Openers(cd2) \ Openers(cd) = {} /\ Openers(cd) \subseteq PlacesOf(cd) /\ DOMAIN c \ DOMAIN c = {}
    BY <1>3, <1>5
  <2>3. Extends(c, c)
    BY DEF Extends
  <2> QED
    BY <1>2, <1>3, <1>6, <2>1, <2>2, <2>3, TypedKept
<1>15. Len(bs) \in 1 .. Len(bs) /\ BlockFits(cd, jp, c, g, b)
  BY <1>0, <1>1, <1>7
<1>16. Lt(b.slot, h)
  BY <1>2, <1>3, <1>15 DEF BlockFits
<1>17. ASSUME NEW i \in 1 .. Len(bs) - 1, bs[i].type = "if" PROVE g[bs[i].slot] # o
  <2>1. i \in 1 .. Len(bs) /\ i \in i .. Len(bs) - 1 /\ Len(bs) \in 1 .. Len(bs)
    BY <1>1
  <2>2. ~bs[i].dangling
    BY <1>7, <1>17, <2>1 DEF BlockFits
  <2>3. Lt(g[bs[i].slot], o)
    BY <1>0, <1>9, <2>1, <2>2 DEF Ranked
  <2>4. o \in PlaceType
    BY <1>9, <1>10
  <2> QED
    BY <2>3, <2>4, LtOrder
<1> QED
  BY <1>1, <1>2, <1>3, <1>5, <1>7, <1>8, <1>10, <1>11, <1>12, <1>13, <1>14, <1>15, <1>16, <1>17 DEF Marked

\* The two sequences have the same first n elements.
Alike(bs, new, n) == \A i \in 1 .. n : new[i] = bs[i]
LowKept(bs, new) == Alike(bs, new, Len(bs) - 1)

LEMMA LowFacts ==
  ASSUME NEW bs \in BlockSeqs, bs # <<>>, NEW low, low = SubSeq(bs, 1, Len(bs) - 1)
  PROVE  /\ Len(bs) \in Nat \ {0} /\ low \in BlockSeqs /\ Len(low) = Len(bs) - 1
         /\ LowKept(bs, low)
<1>1. Len(bs) \in Nat \ {0}
  BY DEF BlockSeqs
<1>2. PICK n : n = Len(bs) - 1
  OBVIOUS
<1>3. n \in Nat /\ n \in 0 .. Len(bs) - 1 /\ low = SubSeq(bs, 1, n)
  BY <1>1, <1>2
<1>4. low \in BlockSeqs /\ Len(low) = n /\ \A i \in 1 .. n : low[i] = bs[i]
  BY <1>1, <1>3 DEF BlockSeqs
<1> QED
  BY <1>1, <1>2, <1>4 DEF LowKept, Alike

LEMMA AppendFacts ==
  ASSUME NEW low \in BlockSeqs, NEW e \in BlockRecords, NEW new, new = Append(low, e)
  PROVE  /\ new \in BlockSeqs /\ Len(new) = Len(low) + 1 /\ new[Len(low) + 1] = e
         /\ Len(low) \in Nat /\ Alike(low, new, Len(low))
BY DEF BlockSeqs, Alike

LEMMA SwapTop ==
  ASSUME NEW bs \in BlockSeqs, bs # <<>>, NEW e \in BlockRecords,
         NEW new, new = Append(SubSeq(bs, 1, Len(bs) - 1), e)
  PROVE  new \in BlockSeqs /\ Len(new) = Len(bs) /\ new[Len(bs)] = e /\ LowKept(bs, new)
<1>1. PICK low : low = SubSeq(bs, 1, Len(bs) - 1)
  OBVIOUS
<1>2. /\ Len(bs) \in Nat \ {0} /\ low \in BlockSeqs /\ Len(low) = Len(bs) - 1
      /\ LowKept(bs, low)
  BY <1>1, LowFacts
<1>3. new = Append(low, e)
  BY <1>1
<1>4. /\ new \in BlockSeqs /\ Len(new) = Len(low) + 1 /\ new[Len(low) + 1] = e
      /\ Alike(low, new, Len(low))
  BY <1>2, <1>3, AppendFacts
<1> QED
  BY <1>2, <1>4 DEF LowKept, Alike

TwoOnTop(bs, e, f) == SubSeq(bs, 1, Len(bs) - 1) \o <<e, f>>

LEMMA SwapTwo ==
  ASSUME NEW bs \in BlockSeqs, bs # <<>>, NEW e \in BlockRecords, NEW f \in BlockRecords,
         NEW new, new = TwoOnTop(bs, e, f)
  PROVE  /\ new \in BlockSeqs /\ Len(new) = Len(bs) + 1
         /\ new[Len(bs)] = e /\ new[Len(bs) + 1] = f /\ LowKept(bs, new)
<1>1. PICK low : low = SubSeq(bs, 1, Len(bs) - 1)
  OBVIOUS
<1>2. /\ Len(bs) \in Nat \ {0} /\ low \in BlockSeqs /\ Len(low) = Len(bs) - 1
      /\ LowKept(bs, low)
  BY <1>1, LowFacts
<1>3. PICK one : one = Append(low, e)
  OBVIOUS
<1>4. /\ one \in BlockSeqs /\ Len(one) = Len(low) + 1 /\ one[Len(low) + 1] = e
      /\ Alike(low, one, Len(low))
  BY <1>2, <1>3, AppendFacts
<1>5. new = Append(one, f)
  <2>1. new = low \o <<e, f>>
    BY <1>1 DEF TwoOnTop
  <2>2. low \o <<e, f>> = Append(Append(low, e), f)
    <3>1. low \in Seq(BlockRecords)
      BY <1>2 DEF BlockSeqs
    <3> QED
      BY <3>1
  <2> QED
    BY <1>3, <2>1, <2>2
<1>6. /\ new \in BlockSeqs /\ Len(new) = Len(one) + 1 /\ new[Len(one) + 1] = f
      /\ Alike(one, new, Len(one))
  BY <1>4, <1>5, AppendFacts
<1> QED
  <2>1. \A i \in 1 .. Len(bs) - 1 : new[i] = bs[i]
    <3>1. \A i \in 1 .. Len(bs) - 1 : i \in 1 .. Len(low) /\ i \in 1 .. Len(one)
      BY <1>2, <1>4
    <3> QED
      BY <1>2, <1>4, <1>6, <3>1 DEF LowKept, Alike
  <2>2. Len(new) = Len(bs) + 1 /\ new[Len(bs)] = e /\ new[Len(bs) + 1] = f
    <3>1. Len(one) = Len(bs) /\ Len(bs) \in 1 .. Len(one)
      BY <1>2, <1>4
    <3>2. new[Len(bs)] = one[Len(bs)]
      BY <1>6, <3>1 DEF Alike
    <3>3. one[Len(bs)] = e
      BY <1>2, <1>4
    <3> QED
      BY <1>6, <3>1, <3>2, <3>3
  <2> QED
    BY <1>6, <2>1, <2>2 DEF LowKept, Alike

LEMMA FitsElse ==
  ASSUME NEW cd, NEW ln, NEW W, NEW a, NEW cd2, NEW ln2, NEW W2, NEW h, NEW bs, NEW jp, NEW c,
         NEW g, NEW b, NEW o, NEW g2,
         Mark(cd, ln, W, a, cd2, ln2, W2, h, bs, jp, c, g, b, o, g2),
         a.op = "else", b.type = "if",
         NEW e \in BlockRecords, e.slot = h, e.type = "else", ~e.dangling, e.deps = {},
         NEW new, new = Append(SubSeq(bs, 1, Len(bs) - 1), e),
         NEW t, Lands(cd2, W2, t, h), NEW mid, mid = PatchTo(jp, b.slot, t),
         NEW jp2, jp2 = Slot(mid, h)
  PROVE  Fits(cd2, ln2, W2, new, jp2, c, g2)
<1>0. /\ Puts(cd, ln, W, a, cd2, ln2, W2, h)
      /\ bs \in BlockSeqs /\ bs # <<>> /\ Fits(cd, ln, W, bs, jp, c, g)
      /\ b = bs[Len(bs)] /\ o = g[b.slot] /\ g2 = With(g, h, o)
  BY DEF Mark
<1>1. /\ Nested(Openers(cd2), ClosersOf(cd2, ln2), Marks(cd2), c, g2) /\ Typed(cd2, c)
      /\ Extended(cd, c, g, cd2, c, g2) /\ Openers(cd2) = Openers(cd)
      /\ Len(bs) \in Nat \ {0} /\ ~b.dangling /\ BlockFits(cd, jp, c, g, b)
      /\ h \notin DOMAIN g /\ DOMAIN g2 = DOMAIN g \cup {h} /\ g2[h] = o
      /\ (\A x \in DOMAIN g : g2[x] = g[x]) /\ h \notin DOMAIN jp
      /\ o \in Openers(cd) \ DOMAIN c /\ Lt(b.slot, h)
      /\ \A i \in 1 .. Len(bs) : BlockFits(cd, jp, c, g, bs[i])
      /\ \A i \in 1 .. Len(bs) - 1 : bs[i].type = "if" => g[bs[i].slot] # o
  <2>1. Marked(cd, cd2, ln2, h, bs, jp, c, g, b, o, g2)
    BY MarkFacts
  <2> QED
    BY <2>1 DEF Marked
<1>2. /\ Grown(cd, W, cd2, W2) /\ cd \in Codes /\ cd2 \in Codes /\ h \in PlaceType
      /\ h \notin PlacesOf(cd) /\ h \in PlacesOf(cd2) /\ OpAt(cd2, h) = a
      /\ PlacesOf(cd2) = PlacesOf(cd) \cup {h}
      /\ \A p \in PlacesOf(cd) : OpAt(cd2, p) = OpAt(cd, p) /\ Lt(p, h)
  BY <1>0, PutsFacts
<1>3. /\ DOMAIN g = Marks(cd) /\ (\A x \in DOMAIN g : g[x] \in Openers(cd))
      /\ DOMAIN jp \subseteq PlacesOf(cd) /\ Based(cd, ln, jp, c, g)
      /\ Marks(cd) \subseteq PlacesOf(cd) /\ Openers(cd) \subseteq PlacesOf(cd)
  BY <1>0, <1>2, FitsBased DEF Based
<1>4. Elses(cd2) = Elses(cd) \cup {h}
  BY <1>0, PutsSets
<1>5. b.slot \in DOMAIN jp /\ b.deps = {} /\ b.slot \in DOMAIN g /\ OpAt(cd, b.slot).op = "if"
  BY <1>1 DEF BlockFits, Slotted
<1>6. /\ DOMAIN jp2 = DOMAIN jp \cup {h} /\ jp2[h] = Unpatched /\ jp2[b.slot] = t
      /\ \A p \in DOMAIN jp : p # b.slot => jp2[p] = jp[p]
  <2>1. /\ DOMAIN mid = DOMAIN jp /\ mid[b.slot] = t
        /\ \A p \in DOMAIN jp : p # b.slot => mid[p] = jp[p]
    BY <1>5 DEF PatchTo
  <2> QED
    BY <1>1, <1>5, <2>1 DEF Slot
<1>7. Keeps(cd, W, jp, c, g, cd2, W2, jp2, c, g2)
  BY <1>1, <1>2, <1>3, <1>6 DEF Keeps
<1>8. /\ new \in BlockSeqs /\ Len(new) = Len(bs) /\ new[Len(bs)] = e
      /\ \A i \in 1 .. Len(bs) - 1 : new[i] = bs[i]
  <2>1. new \in BlockSeqs /\ Len(new) = Len(bs) /\ new[Len(bs)] = e /\ LowKept(bs, new)
    BY <1>0, SwapTop
  <2> QED
    BY <2>1 DEF LowKept, Alike
<1>9. ASSUME NEW i \in 1 .. Len(bs) - 1
      PROVE  BlockFits(cd2, jp2, c, g2, new[i]) /\ g2[bs[i].slot] = g[bs[i].slot]
  <2>1. BlockFits(cd, jp, c, g, bs[i]) /\ new[i] = bs[i]
    BY <1>1, <1>8
  <2>2. bs[i].type \in Slotted => bs[i].slot # b.slot /\ bs[i].slot \in DOMAIN jp
    BY <1>0, <1>1, <1>5, <2>1 DEF BlockFits
  <2>3. \A p \in bs[i].deps : p # b.slot /\ p \in DOMAIN jp
    BY <1>5, <2>1 DEF BlockFits
  <2>4. bs[i].type = "if" => \A x \in Elses(cd2) \ Elses(cd) : g2[x] # g[bs[i].slot]
    BY <1>1, <1>4
  <2>5. Untouched(cd, jp, g, cd2, jp2, g2, bs[i])
    BY <1>6, <2>2, <2>3, <2>4 DEF Untouched
  <2> QED
    BY <1>7, <2>1, <2>5, BlockKept
<1>10. BlockFits(cd2, jp2, c, g2, e)
  <2>1. OpAt(cd2, o).op = "if"
    BY <1>0, <1>1, <1>2, <1>3 DEF BlockFits
  <2> QED
    BY <1>1, <1>2, <1>6, <2>1 DEF BlockFits, LoopOps
<1>11. \A i \in 1 .. Len(new) : BlockFits(cd2, jp2, c, g2, new[i])
  BY <1>1, <1>8, <1>9, <1>10
<1>12. Ranked(new, Openers(cd2) \ DOMAIN c, g2)
  <2>1. PICK U : U = Openers(cd) \ DOMAIN c
    OBVIOUS
  <2>2. Ranked(bs, U, g)
    BY <1>0, <2>1 DEF Fits, Stacked
  <2>3. \A i \in 1 .. Len(bs) - 1 : new[i] = bs[i] /\ g2[bs[i].slot] = g[bs[i].slot]
    BY <1>8, <1>9
  <2>4. \A j \in Len(bs) .. Len(new) : /\ g2[new[j].slot] = o /\ new[j].type \in {"if", "else"}
                                       /\ new[j].dangling => j < Len(new)
                                       /\ j < Len(new) => new[j].dangling
    BY <1>1, <1>8
  <2>5. o = g[bs[Len(bs)].slot] /\ Len(new) \in {Len(bs), Len(bs) + 1}
    BY <1>0, <1>8
  <2>7. Swaps(bs, U, g, o, g2, new)
    BY <1>0, <1>8, <2>2, <2>3, <2>4, <2>5 DEF Swaps
  <2>6. Ranked(new, U, g2)
    BY <2>7, RankedSwap
  <2> QED
    BY <1>1, <2>1, <2>6
<1>13. Targeted(cd2, W2, new, jp2, c, g2)
  <2> SUFFICES ASSUME NEW p \in DOMAIN jp2
               PROVE  \/ p \in PlacesOf(cd2) /\ \E i \in 1 .. Len(new) : Awaits(new[i], p)
                      \/ p \in PlacesOf(cd2) /\ Done(cd2, W2, jp2, c, g2, p)
                      \/ p \in DOMAIN jp /\ jp2[p] = jp[p] /\ Done(cd, W, jp, c, g, p)
    <3>1. /\ Grown(cd, W, cd2, W2) /\ Extended(cd, c, g, cd2, c, g2)
          /\ Based(cd, ln, jp, c, g)
      BY <1>1, <1>2, <1>3
    <3> QED
      BY <3>1, TargetedKept
  <2>1. CASE p = h
    <3>1. Awaits(e, h)
      BY DEF Awaits, Slotted
    <3>2. Len(bs) \in 1 .. Len(new)
      BY <1>1, <1>8
    <3> QED
      BY <1>2, <1>8, <2>1, <3>1, <3>2
  <2>2. CASE p = b.slot
    <3>1. g2[h] = g2[p] /\ Lt(p, h) /\ jp2[p] = t /\ OpAt(cd2, p).op = "if"
      BY <1>0, <1>1, <1>2, <1>3, <1>5, <1>6, <2>2
    <3>2. ASSUME NEW f \in Elses(cd2), g2[f] = g2[p], Lt(p, f) PROVE ~Lt(f, h)
      <4>1. CASE f = h
        BY <1>2, <4>1, LtOrder
      <4>2. CASE f \in Elses(cd)
        <5>1. f \in DOMAIN g
          BY <1>3, <4>2 DEF Marks
        <5>2. g[f] = g[b.slot]
          BY <1>1, <1>5, <2>2, <3>2, <5>1
        <5>3. ~Lt(b.slot, f)
          BY <1>1, <4>2, <5>2 DEF BlockFits
        <5> QED
          BY <2>2, <3>2, <5>3
      <4> QED
        BY <1>4, <4>1, <4>2
    <3>3. IfDone(cd2, W2, jp2, c, g2, p)
      BY <1>4, <3>1, <3>2 DEF IfDone
    <3>4. OfIf(cd2, g2, p)
      BY <1>0, <1>1, <1>2, <1>3, <1>5, <2>2 DEF BlockFits, OfIf
    <3> QED
      BY <1>2, <1>3, <1>5, <2>2, <3>1, <3>3, <3>4 DEF Done
  <2>3. CASE p \in DOMAIN jp /\ p # b.slot
    <3>1. CASE Done(cd, W, jp, c, g, p)
      BY <1>6, <2>3, <3>1
    <3>2. CASE \E i \in 1 .. Len(bs) : Awaits(bs[i], p)
      <4>1. PICK i \in 1 .. Len(bs) : Awaits(bs[i], p)
        BY <3>2
      <4>2. i # Len(bs)
        BY <1>0, <1>5, <2>3, <4>1 DEF Awaits
      <4>3. i \in 1 .. Len(bs) - 1 /\ i \in 1 .. Len(new)
        BY <1>1, <1>8, <4>2
      <4> QED
        BY <1>2, <1>3, <1>8, <2>3, <4>1, <4>3
    <3> QED
      BY <1>0, <2>3, <3>1, <3>2 DEF Fits, Targeted
  <2> QED
    BY <1>6, <2>1, <2>2, <2>3
<1> QED
  BY <1>1, <1>11, <1>12, <1>13 DEF Fits, Stacked

\* The IF of ELSE IF: the ELSE put before it dangles from now on.
LEMMA FitsDangle ==
  ASSUME NEW cd, NEW ln, NEW W, NEW a, NEW cd2, NEW ln2, NEW W2, NEW h, NEW bs, NEW jp, NEW c,
         NEW g, NEW b, NEW o, NEW g2,
         Mark(cd, ln, W, a, cd2, ln2, W2, h, bs, jp, c, g, b, o, g2),
         a.op = "if", b.type = "else",
         NEW e \in BlockRecords, e.slot = b.slot, e.type = "else", e.dangling, e.deps = {},
         NEW f \in BlockRecords, f.slot = h, f.type = "if", ~f.dangling, f.deps = {},
         NEW new, new = TwoOnTop(bs, e, f), NEW jp2, jp2 = Slot(jp, h)
  PROVE  Fits(cd2, ln2, W2, new, jp2, c, g2)
<1>0. /\ Puts(cd, ln, W, a, cd2, ln2, W2, h)
      /\ bs \in BlockSeqs /\ bs # <<>> /\ Fits(cd, ln, W, bs, jp, c, g)
      /\ b = bs[Len(bs)] /\ o = g[b.slot] /\ g2 = With(g, h, o)
  BY DEF Mark
<1>1. /\ Nested(Openers(cd2), ClosersOf(cd2, ln2), Marks(cd2), c, g2) /\ Typed(cd2, c)
      /\ Extended(cd, c, g, cd2, c, g2) /\ Openers(cd2) = Openers(cd)
      /\ Len(bs) \in Nat \ {0} /\ ~b.dangling /\ BlockFits(cd, jp, c, g, b)
      /\ h \notin DOMAIN g /\ DOMAIN g2 = DOMAIN g \cup {h} /\ g2[h] = o
      /\ (\A x \in DOMAIN g : g2[x] = g[x]) /\ h \notin DOMAIN jp
      /\ o \in Openers(cd) \ DOMAIN c /\ Lt(b.slot, h)
      /\ \A i \in 1 .. Len(bs) : BlockFits(cd, jp, c, g, bs[i])
  <2>1. Marked(cd, cd2, ln2, h, bs, jp, c, g, b, o, g2)
    BY MarkFacts
  <2> QED
    BY <2>1 DEF Marked
<1>2. /\ Grown(cd, W, cd2, W2) /\ cd \in Codes /\ cd2 \in Codes /\ h \in PlaceType
      /\ h \notin PlacesOf(cd) /\ h \in PlacesOf(cd2) /\ OpAt(cd2, h) = a
      /\ PlacesOf(cd2) = PlacesOf(cd) \cup {h}
      /\ \A p \in PlacesOf(cd) : OpAt(cd2, p) = OpAt(cd, p) /\ Lt(p, h)
  BY <1>0, PutsFacts
<1>3. /\ DOMAIN g = Marks(cd) /\ (\A x \in DOMAIN g : g[x] \in Openers(cd))
      /\ DOMAIN jp \subseteq PlacesOf(cd) /\ Based(cd, ln, jp, c, g)
      /\ Marks(cd) \subseteq PlacesOf(cd) /\ Openers(cd) \subseteq PlacesOf(cd)
  BY <1>0, <1>2, FitsBased DEF Based
<1>4. Elses(cd2) = Elses(cd)
  BY <1>0, PutsSets
<1>5. b.slot \in DOMAIN jp /\ b.deps = {} /\ b.slot \in DOMAIN g
  BY <1>1 DEF BlockFits, Slotted
<1>6. /\ DOMAIN jp2 = DOMAIN jp \cup {h} /\ jp2[h] = Unpatched
      /\ \A p \in DOMAIN jp : jp2[p] = jp[p]
  BY <1>1 DEF Slot
<1>7. Keeps(cd, W, jp, c, g, cd2, W2, jp2, c, g2)
  BY <1>1, <1>2, <1>3, <1>6 DEF Keeps
<1>8. /\ new \in BlockSeqs /\ Len(new) = Len(bs) + 1 /\ new[Len(bs)] = e /\ new[Len(bs) + 1] = f
      /\ \A i \in 1 .. Len(bs) - 1 : new[i] = bs[i]
  <2>1. /\ new \in BlockSeqs /\ Len(new) = Len(bs) + 1
        /\ new[Len(bs)] = e /\ new[Len(bs) + 1] = f /\ LowKept(bs, new)
    BY <1>0, SwapTwo
  <2> QED
    BY <2>1 DEF LowKept, Alike
<1>9. ASSUME NEW i \in 1 .. Len(bs)
      PROVE  BlockFits(cd2, jp2, c, g2, bs[i]) /\ g2[bs[i].slot] = g[bs[i].slot]
  <2>1. BlockFits(cd, jp, c, g, bs[i])
    BY <1>1
  <2>2. bs[i].type \in Slotted => bs[i].slot \in DOMAIN jp
    BY <2>1 DEF BlockFits
  <2>3. \A p \in bs[i].deps : p \in DOMAIN jp
    BY <2>1 DEF BlockFits
  <2>5. Untouched(cd, jp, g, cd2, jp2, g2, bs[i])
    BY <1>4, <1>6, <2>2, <2>3 DEF Untouched
  <2> QED
    BY <1>7, <2>1, <2>5, BlockKept
<1>10. BlockFits(cd2, jp2, c, g2, f)
  <2>1. OpAt(cd2, o).op = "if"
    BY <1>0, <1>1, <1>2, <1>3 DEF BlockFits
  <2>2. \A x \in Elses(cd2) : ~Lt(h, x)
    <3>1. \A x \in Elses(cd) : x \in PlacesOf(cd) /\ x \in PlaceType
      BY <1>2, PlaceFacts DEF Elses
    <3> QED
      BY <1>2, <1>4, <3>1, LtOrder
  <2> QED
    BY <1>1, <1>2, <1>6, <2>1, <2>2 DEF BlockFits, LoopOps
<1>14. BlockFits(cd2, jp2, c, g2, e)
  <2>1. BlockFits(cd2, jp2, c, g2, b)
    BY <1>0, <1>1, <1>9
  <2> QED
    BY <2>1 DEF BlockFits, LoopOps, Slotted
<1>11. \A i \in 1 .. Len(new) : BlockFits(cd2, jp2, c, g2, new[i])
  BY <1>1, <1>8, <1>9, <1>10, <1>14
<1>12. Ranked(new, Openers(cd2) \ DOMAIN c, g2)
  <2>1. PICK U : U = Openers(cd) \ DOMAIN c
    OBVIOUS
  <2>2. Ranked(bs, U, g)
    BY <1>0, <2>1 DEF Fits, Stacked
  <2>8. \A i \in 1 .. Len(bs) - 1 : i \in 1 .. Len(bs)
    BY <1>1
  <2>3. \A i \in 1 .. Len(bs) - 1 : new[i] = bs[i] /\ g2[bs[i].slot] = g[bs[i].slot]
    BY <1>8, <1>9, <2>8
  <2>4. \A j \in Len(bs) .. Len(new) : /\ g2[new[j].slot] = o /\ new[j].type \in {"if", "else"}
                                       /\ new[j].dangling => j < Len(new)
                                       /\ j < Len(new) => new[j].dangling
    BY <1>0, <1>1, <1>5, <1>8
  <2>5. o = g[bs[Len(bs)].slot] /\ Len(new) \in {Len(bs), Len(bs) + 1}
    BY <1>0, <1>8
  <2>7. Swaps(bs, U, g, o, g2, new)
    BY <1>0, <1>8, <2>2, <2>3, <2>4, <2>5 DEF Swaps
  <2>6. Ranked(new, U, g2)
    BY <2>7, RankedSwap
  <2> QED
    BY <1>1, <2>1, <2>6
<1>13. Targeted(cd2, W2, new, jp2, c, g2)
  <2> SUFFICES ASSUME NEW p \in DOMAIN jp2
               PROVE  \/ p \in PlacesOf(cd2) /\ \E i \in 1 .. Len(new) : Awaits(new[i], p)
                      \/ p \in PlacesOf(cd2) /\ Done(cd2, W2, jp2, c, g2, p)
                      \/ p \in DOMAIN jp /\ jp2[p] = jp[p] /\ Done(cd, W, jp, c, g, p)
    <3>1. /\ Grown(cd, W, cd2, W2) /\ Extended(cd, c, g, cd2, c, g2)
          /\ Based(cd, ln, jp, c, g)
      BY <1>1, <1>2, <1>3
    <3> QED
      BY <3>1, TargetedKept
  <2>1. CASE p = h
    <3>1. Awaits(f, h)
      BY DEF Awaits, Slotted
    <3>2. Len(bs) + 1 \in 1 .. Len(new)
      BY <1>1, <1>8
    <3> QED
      BY <1>2, <1>8, <2>1, <3>1, <3>2
  <2>3. CASE p \in DOMAIN jp
    <3>1. CASE Done(cd, W, jp, c, g, p)
      BY <1>6, <2>3, <3>1
    <3>2. CASE \E i \in 1 .. Len(bs) : Awaits(bs[i], p)
      <4>1. PICK i \in 1 .. Len(bs) : Awaits(bs[i], p)
        BY <3>2
      <4>2. i \in 1 .. Len(new) /\ Awaits(new[i], p)
        <5>1. CASE i = Len(bs)
          BY <1>0, <1>1, <1>5, <1>8, <4>1, <5>1 DEF Awaits, Slotted
        <5>2. CASE i # Len(bs)
          BY <1>1, <1>8, <4>1, <5>2
        <5> QED
          BY <5>1, <5>2
      <4> QED
        BY <1>2, <1>3, <2>3, <4>2
    <3> QED
      BY <1>0, <2>3, <3>1, <3>2 DEF Fits, Targeted
  <2> QED
    BY <1>6, <2>1, <2>3
<1> QED
  BY <1>1, <1>11, <1>12, <1>13 DEF Fits, Stacked

-----------------------------------------------------------------------------
(* A line starts.                                                          *)

LEMMA LineGrown ==
  ASSUME NEW cd \in Codes, NEW cd2, cd2 = Append(cd, <<>>), NEW W2, W2 \subseteq {Len(cd) + 1}
  PROVE  Grown(cd, {}, cd2, W2) /\ Elses(cd2) = Elses(cd) /\ Marks(cd2) = Marks(cd)
<1>1. /\ cd2 \in Codes /\ PlacesOf(cd2) = PlacesOf(cd)
      /\ \A p \in PlacesOf(cd) : OpAt(cd2, p) = OpAt(cd, p)
      /\ Elses(cd2) = Elses(cd) /\ Openers(cd2) = Openers(cd) /\ Ifs(cd2) = Ifs(cd)
      /\ \A l \in 1 .. Len(cd) : cd2[l] = cd[l]
  BY LineFacts
<1>2. ASSUME NEW x, LastOn(cd, {}, x) PROVE LastOn(cd2, W2, x)
  <2>1. x \in PlacesOf(cd) /\ Len(cd[x[1]]) = x[2]
    BY <1>2 DEF LastOn
  <2>2. x[1] \in 1 .. Len(cd) /\ Len(cd) \in Nat
    BY <2>1, PlaceFacts
  <2> QED
    BY <1>1, <2>1, <2>2 DEF LastOn
<1> QED
  BY <1>1, <1>2 DEF Grown, Marks

LEMMA FitsLine ==
  ASSUME NEW cd \in Codes, NEW cd2, cd2 = Append(cd, <<>>), NEW W2, W2 \subseteq {Len(cd) + 1},
         NEW bs, NEW jp, NEW c, NEW g, Fits(cd, <<>>, {}, bs, jp, c, g),
         NEW ln, ~ClosesLine(cd, ln)
  PROVE  Fits(cd2, ln, W2, bs, jp, c, g)
<1>1. /\ Grown(cd, {}, cd2, W2) /\ Elses(cd2) = Elses(cd) /\ Marks(cd2) = Marks(cd)
      /\ Openers(cd2) = Openers(cd) /\ PlacesOf(cd2) = PlacesOf(cd)
  BY LineGrown, LineFacts
<1>2. ClosersOf(cd2, ln) = ClosersOf(cd, <<>>)
  BY LineClosers
<1>3. Based(cd, <<>>, jp, c, g)
  BY FitsBased
<1>4. /\ DOMAIN g = Marks(cd) /\ DOMAIN c \subseteq Openers(cd) /\ (\A x \in DOMAIN g : g[x] \in Openers(cd))
      /\ DOMAIN jp \subseteq PlacesOf(cd)
      /\ Openers(cd) \subseteq Marks(cd) /\ Marks(cd) \subseteq PlacesOf(cd)
  BY <1>3 DEF Based
<1>5. Extends(c, c) /\ Extended(cd, c, g, cd2, c, g)
  BY <1>1 DEF Extended, Extends
<1>6. /\ Nested(Openers(cd), ClosersOf(cd, <<>>), Marks(cd), c, g) /\ Typed(cd, c)
      /\ Stacked(cd, bs, jp, c, g) /\ Targeted(cd, {}, bs, jp, c, g)
  BY DEF Fits
<1>7. Typed(cd2, c)
  <2>1. \A q \in DOMAIN c : c[q] \in PlacesOf(cd) \/ c[q] \notin PlacesOf(cd2)
    BY <1>1
  <2>2. Openers(cd2) \ Openers(cd) = {} /\ Openers(cd) \subseteq PlacesOf(cd) /\ DOMAIN c \ DOMAIN c = {}
    BY <1>1, <1>4
  <2>3. Grown(cd, {}, cd2, W2)
    BY <1>1
  <2> QED
    BY <1>4, <1>5, <1>6, <2>1, <2>2, <2>3, TypedKept
<1>8. Keeps(cd, {}, jp, c, g, cd2, W2, jp, c, g)
  BY <1>1, <1>4, <1>5 DEF Keeps
<1>9. ASSUME NEW i \in 1 .. Len(bs) PROVE BlockFits(cd2, jp, c, g, bs[i])
  <2>1. BlockFits(cd, jp, c, g, bs[i])
    BY <1>6 DEF Stacked
  <2>2. Untouched(cd, jp, g, cd2, jp, g, bs[i])
    BY <1>1 DEF Untouched
  <2> QED
    BY <1>8, <2>1, <2>2, BlockKept
<1>10. Stacked(cd2, bs, jp, c, g)
  BY <1>1, <1>6, <1>9 DEF Stacked
<1>11. Targeted(cd2, W2, bs, jp, c, g)
  <2> SUFFICES ASSUME NEW p \in DOMAIN jp
               PROVE  \/ p \in PlacesOf(cd2) /\ \E i \in 1 .. Len(bs) : Awaits(bs[i], p)
                      \/ p \in PlacesOf(cd2) /\ Done(cd2, W2, jp, c, g, p)
                      \/ p \in DOMAIN jp /\ jp[p] = jp[p] /\ Done(cd, {}, jp, c, g, p)
    <3>1. Grown(cd, {}, cd2, W2)
      BY <1>1
    <3> QED
      BY <1>3, <1>5, <3>1, TargetedKept
  <2> QED
    BY <1>1, <1>4, <1>6 DEF Targeted
<1> QED
  BY <1>1, <1>2, <1>6, <1>7, <1>10, <1>11 DEF Fits

LEMMA LineEndsIf ==
  ASSUME NEW cd \in Codes, NEW cd2, cd2 = Append(cd, <<>>), NEW W2, W2 \subseteq {Len(cd) + 1},
         NEW ln, ClosesLine(cd, ln), NEW bs \in BlockSeqs, bs # <<>>,
         bs[Len(bs)].type \in {"if", "else"}, NEW n, CutsTo(bs, n),
         NEW jp, NEW l, l = Len(cd) + 1, NEW jp2,
         jp2 = Patch(jp, {bs[i].slot : i \in n + 1 .. Len(bs)}, l), NEW k, k = <<l, 0>>
  PROVE  EndsIf(cd, <<>>, {}, cd2, ln, W2, k, bs, n, jp, l, jp2)
<1>1. /\ Grown(cd, {}, cd2, W2) /\ Elses(cd2) = Elses(cd) /\ Marks(cd2) = Marks(cd)
  BY LineGrown
<1>2. Openers(cd2) = Openers(cd) /\ PlacesOf(cd2) = PlacesOf(cd) /\ Len(cd) \in Nat
  BY LineFacts, PlaceFacts
<1>3. ClosersOf(cd2, ln) = ClosersOf(cd, <<>>) \cup {k}
  BY LineClosers
<1>4. k \in PlaceType
  BY <1>2 DEF PlaceType
<1>5. \A x \in PlacesOf(cd) \cup ClosersOf(cd, <<>>) : Lt(x, k)
  <2>1. \A x \in ClosersOf(cd, <<>>) : Lt(x, k)
    BY ClosersPlaces
  <2>2. ASSUME NEW x \in PlacesOf(cd) PROVE Lt(x, k)
    <3>1. x[1] \in 1 .. Len(cd)
      BY PlaceFacts
    <3>2. k[1] = Len(cd) + 1
      OBVIOUS
    <3> QED
      BY <1>2, <3>1, <3>2 DEF Lt
  <2> QED
    BY <2>1, <2>2
<1>6. k \notin PlacesOf(cd2)
  BY <1>2, <1>4, <1>5, LtOrder
<1>7. Closing(cd, <<>>, {}, cd2, ln, W2, k)
  BY <1>1, <1>2, <1>3, <1>4, <1>5 DEF Closing
<1>8. Lands(cd2, W2, <<l, 0>>, k)
  BY DEF Lands
<1> QED
  BY <1>6, <1>7, <1>8 DEF EndsIf

-----------------------------------------------------------------------------
(* The commands of passt.                                                  *)

LEMMA EmitTwo ==
  ASSUME NEW cd \in Codes, cd # <<>>, NEW a \in OpcodeRecords, NEW b \in OpcodeRecords
  PROVE  /\ [cd EXCEPT ![Len(cd)] = @ \o <<a>>] = Put(cd, a)
         /\ [cd EXCEPT ![Len(cd)] = @ \o <<a, b>>] = Put(Put(cd, a), b)
<1>1. Len(cd) \in Nat \ {0} /\ Len(cd) \in DOMAIN cd
  BY DEF Codes
<1>2. PICK l : l = cd[Len(cd)]
  OBVIOUS
<1>3. l \in Seq(OpcodeRecords)
  BY <1>1, <1>2 DEF Codes
<1>4. l \o <<a>> = Append(l, a)
  BY <1>3
<1>5. l \o <<a, b>> = Append(Append(l, a), b)
  BY <1>3
<1>6. [cd EXCEPT ![Len(cd)] = @ \o <<a>>] = Put(cd, a)
  BY <1>2, <1>4 DEF Put
<1>7. [cd EXCEPT ![Len(cd)] = @ \o <<a, b>>] = Put(Put(cd, a), b)
  <2>1. PICK cd1 : cd1 = Put(cd, a)
    OBVIOUS
  <2>2. /\ DOMAIN cd1 = DOMAIN cd /\ Len(cd1) = Len(cd) /\ cd1[Len(cd)] = Append(l, a)
        /\ \A i \in DOMAIN cd : i # Len(cd) => cd1[i] = cd[i]
    BY <1>1, <1>2, <2>1 DEF Put, Codes
  <2>3. PICK cd2 : cd2 = Put(cd1, b)
    OBVIOUS
  <2>4. /\ DOMAIN cd2 = DOMAIN cd /\ cd2[Len(cd)] = Append(Append(l, a), b)
        /\ \A i \in DOMAIN cd : i # Len(cd) => cd2[i] = cd[i]
    BY <1>1, <2>2, <2>3 DEF Put
  <2>5. cd2 = [i \in DOMAIN cd |-> IF i = Len(cd) THEN Append(Append(l, a), b) ELSE cd[i]]
    BY <1>1, <2>2, <2>3, <2>4 DEF Put
  <2>6. [cd EXCEPT ![Len(cd)] = @ \o <<a, b>>]
          = [i \in DOMAIN cd |-> IF i = Len(cd) THEN Append(Append(l, a), b) ELSE cd[i]]
    BY <1>2, <1>5
  <2> QED
    BY <2>1, <2>3, <2>5, <2>6
<1> QED
  BY <1>6, <1>7

\* A command that is compiled without an error: what its line was like before it.
Compiling(c) ==
  /\ TypeOK /\ Owned /\ line # <<>> /\ c = Head(line) /\ ~Refused(c) /\ Accept(c) /\ ~errors'
  /\ phase = "parse" /\ ~errors /\ code \in Codes /\ code # <<>> /\ blocks \in BlockSeqs
  /\ Growing = {nline} /\ LineFits /\ ~single /\ c \in Commands
  /\ line' = Tail(line) /\ single' = (c.k \in SingleCmds)
  /\ c.k \in SingleCmds => nbcmd = 0

LEMMA CompilingFacts ==
  ASSUME TypeOK, Owned, Nesting, line # <<>>, NEW c, c = Head(line), Compile(c), ~errors'
  PROVE  Compiling(c) /\ \E d, g : Fits(code, line, {nline}, blocks, jump, d, g)
<1>1. phase = "parse" /\ code \in Codes /\ code # <<>> /\ blocks \in BlockSeqs /\ c \in Commands
  BY DEF TypeOK, Owned, Codes, BlockSeqs
<1>2. Accept(c) /\ ~Refused(c)
  BY DEF Compile
<1>3. nbcmd \in Nat /\ single \in BOOLEAN /\ errors \in BOOLEAN
  BY DEF TypeOK
<1>4. ~(nbcmd' > 1 /\ single') /\ errors' = errors /\ line' = Tail(line)
  BY <1>2, <1>3 DEF Accept
<1>5. ~errors /\ LineFits
  BY <1>1, <1>3, <1>4 DEF Nesting
<1>6. nbcmd' = nbcmd + 1 /\ single' = (single \/ c.k \in SingleCmds)
  BY <1>2 DEF Accept
<1>7. ~single
  BY <1>3, <1>4, <1>5, <1>6 DEF LineFits, LineIs
<1>8. c.k \in SingleCmds => nbcmd = 0
  <2>1. c.k \in SingleCmds => single'
    BY <1>6
  <2>2. nbcmd + 1 > 1 => nbcmd' > 1
    BY <1>6
  <2> QED
    BY <1>3, <1>4, <2>1, <2>2
<1>9. Growing = {nline} /\ single' = (c.k \in SingleCmds)
  BY <1>6, <1>7 DEF Growing
<1>10. \E d, g : Fits(code, line, Growing, blocks, jump, d, g)
  BY <1>1, <1>5 DEF Nesting
<1> QED
  BY <1>1, <1>2, <1>4, <1>5, <1>7, <1>8, <1>9, <1>10 DEF Compiling

LEMMA GrowingNext ==
  ASSUME NEW c, Compiling(c), Len(code') = Len(code)
  PROVE  /\ Growing' \subseteq {Len(code)}
         /\ c.k \in SingleCmds \/ Len(line) = 1 => Growing' = {}
<1>1. Growing' = IF line' = <<>> \/ single' THEN {} ELSE {Len(code')}
  BY DEF Growing, nline
<1>2. line \in Seq(Commands) /\ line # <<>> /\ line' = Tail(line) /\ single' = (c.k \in SingleCmds)
  BY DEF Compiling, TypeOK
<1>3. Len(line) = 1 => line' = <<>>
  BY <1>2
<1> QED
  BY <1>1, <1>2, <1>3

LEMMA EmitPuts ==
  ASSUME NEW c, Compiling(c), NEW a \in OpcodeRecords, Emit(<<a>>), Decides(code, a, line)
  PROVE  /\ Puts(code, line, {nline}, a, code', line', Growing', Here)
         /\ c.k \in SingleCmds \/ Len(line) = 1 => Growing' = {}
<1>1. code \in Codes /\ code # <<>>
  BY DEF Compiling
<1>2. code' = Put(code, a)
  BY <1>1, EmitTwo DEF Emit, nline
<1>3. Len(code') = Len(code)
  BY <1>1, <1>2, PutFacts
<1>4. Growing' \subseteq {Len(code)}
  BY <1>3, GrowingNext
<1>5. Here = NextPlace(code)
  BY DEF Here, NextPlace, nline
<1>6. c.k \in SingleCmds \/ Len(line) = 1 => Growing' = {}
  BY <1>3, GrowingNext
<1> QED
  BY <1>1, <1>2, <1>4, <1>5, <1>6 DEF Puts, nline

\* The two opcodes of FOR and of ELSE IF.
LEMMA EmitPutsTwo ==
  ASSUME NEW c, Compiling(c), NEW a \in OpcodeRecords, NEW b \in OpcodeRecords,
         Emit(<<a, b>>), Decides(code, a, line), NEW cd, cd = Put(code, a)
  PROVE  /\ Puts(code, line, {nline}, a, cd, line, {nline}, Here)
         /\ Puts(cd, line, {nline}, b, code', line', Growing', Next1(Here))
<1>1. code \in Codes /\ code # <<>>
  BY DEF Compiling
<1>2. code' = Put(cd, b)
  BY <1>1, EmitTwo DEF Emit, nline
<1>3. Here = NextPlace(code)
  BY DEF Here, NextPlace, nline
<1>4. /\ cd \in Codes /\ Len(cd) = Len(code) /\ cd # <<>> /\ NextPlace(cd) = Next1(Here)
      /\ Len(cd[Len(code)]) = Len(code[Len(code)]) + 1
  BY <1>1, <1>3, PutFacts
<1>5. Len(code') = Len(code)
  BY <1>2, <1>4, PutFacts
<1>6. Growing' \subseteq {Len(code)}
  BY <1>5, GrowingNext
<1>7. cd[Len(cd)] # <<>>
  <2>1. Len(code[Len(code)]) \in Nat
    BY <1>1, PlaceFacts
  <2> QED
    BY <1>4, <2>1
<1>8. Puts(code, line, {nline}, a, cd, line, {nline}, Here)
  BY <1>1, <1>3 DEF Puts, nline
<1>9. Puts(cd, line, {nline}, b, code', line', Growing', Next1(Here))
  BY <1>2, <1>4, <1>6, <1>7 DEF Puts, nline, Decides
<1> QED
  BY <1>8, <1>9

\* What a command is like that is compiled while the blocks fit the code.
Fitting(c, d, g) ==
  Compiling(c) /\ Fits(code, line, {nline}, blocks, jump, d, g)
Fitted == \E d, g : Fits(code', line', Growing', blocks', jump', d, g)

LEMMA FittingFacts ==
  ASSUME NEW c, NEW d, NEW g, Fitting(c, d, g)
  PROVE  /\ TypeOK /\ code # <<>> /\ code \in Codes /\ blocks \in BlockSeqs /\ c \in Commands
         /\ Compiling(c) /\ ~Refused(c) /\ Fits(code, line, {nline}, blocks, jump, d, g)
         /\ Here \in PlaceType /\ Here = <<nline, Len(code[nline]) + 1>> /\ nline \in Nat \ {0}
         /\ nline = Len(code) /\ Len(code[nline]) \in Nat
         /\ ElseNext(line) => c.k \in {"else", "elseif"}
         /\ c.k \in {"else", "elseif"} => ElseNext(line)
         /\ c.k \in SingleCmds \/ nbcmd = 0 => Here = <<nline, 1>>
<1>1. TypeOK /\ code # <<>> /\ code \in Codes /\ blocks \in BlockSeqs /\ c \in Commands
      /\ Compiling(c) /\ ~Refused(c) /\ Fits(code, line, {nline}, blocks, jump, d, g)
      /\ c = Head(line) /\ line # <<>> /\ LineFits /\ (c.k \in SingleCmds => nbcmd = 0)
  BY DEF Fitting, Compiling
<1>2. Here \in PlaceType /\ nline \in Nat \ {0} /\ Here = <<nline, Len(code[nline]) + 1>>
  BY <1>1, HereType DEF Here
<1>3. nline \in 1 .. Len(code)
  BY <1>2 DEF nline
<1>4. Len(code[nline]) \in Nat
  BY <1>1, <1>3, PlaceFacts
<1>5. c.k \in SingleCmds \/ nbcmd = 0 => Here = <<nline, 1>>
  <2>1. c.k \in SingleCmds \/ nbcmd = 0 => code[nline] = <<>>
    BY <1>1 DEF LineFits, LineIs, LastLine, nline
  <2>2. code[nline] = <<>> => Len(code[nline]) = 0
    OBVIOUS
  <2> QED
    BY <1>2, <2>1, <2>2
<1> QED
  BY <1>1, <1>2, <1>4, <1>5 DEF ElseNext, nline

LEMMA PlainFits ==
  ASSUME NEW c, NEW d, NEW g, Fitting(c, d, g), Plain(c)
  PROVE  Fitted
<1>1. /\ c \in Commands /\ Compiling(c) /\ Fits(code, line, {nline}, blocks, jump, d, g)
      /\ ElseNext(line) => c.k \in {"else", "elseif"}
  BY FittingFacts
<1>2. PICK a : a = Op(c.k, c, FALSE)
  OBVIOUS
<1>3. Emit(<<a>>) /\ blocks' = blocks /\ jump' = jump /\ c.k \in {"act", "call", "text"}
  BY <1>2 DEF Plain
<1>4. a \in OpcodeRecords /\ a.op = c.k
  <2>1. c.k \in Opcodes
    BY <1>3 DEF Opcodes
  <2>2. Op(c.k, c, FALSE) \in OpcodeRecords
    BY <1>1, <2>1, OpType
  <2>3. a.op = c.k
    BY <1>2 DEF Op
  <2> QED
    BY <1>2, <2>2, <2>3
<1>5. Decides(code, a, line)
  BY <1>1, <1>3, <1>4 DEF Decides
<1>6. Puts(code, line, {nline}, a, code', line', Growing', Here)
  BY <1>1, <1>3, <1>4, <1>5, EmitPuts
<1>7. Fits(code', line', Growing', blocks, jump, d, g)
  BY <1>1, <1>3, <1>4, <1>6, FitsPlain
<1> QED
  BY <1>3, <1>7 DEF Fitted

LEMMA BeginFits ==
  ASSUME NEW c, NEW d, NEW g, Fitting(c, d, g), Begin(c) \/ If(c) \/ Loop(c)
  PROVE  Fitted
<1>1. /\ TypeOK /\ code # <<>> /\ blocks \in BlockSeqs /\ Here \in PlaceType /\ ~Refused(c)
      /\ c \in Commands /\ Compiling(c) /\ Fits(code, line, {nline}, blocks, jump, d, g)
      /\ ElseNext(line) => c.k \in {"else", "elseif"}
      /\ c.k \in SingleCmds => Here = <<nline, 1>>
  BY FittingFacts
<1>2. PICK a : a = Op(c.k, c, FALSE)
  OBVIOUS
<1>3. PICK b : b = Block(c.k, 0, Here, 0, FALSE)
  OBVIOUS
<1>4. /\ Emit(<<a>>) /\ c.k \in {"begin", "sub", "if", "while", "until"}
      /\ blocks' = Append(blocks, b)
      /\ c.k \in {"begin", "sub"} => jump' = jump
      /\ c.k \in {"if", "while", "until"} => jump' = Slot(jump, Here)
  BY <1>2, <1>3 DEF Begin, If, Loop, Push
<1>5. a \in OpcodeRecords /\ a.op = c.k /\ ~a.d
  <2>1. c.k \in Opcodes
    BY <1>4 DEF Opcodes
  <2>2. Op(c.k, c, FALSE) \in OpcodeRecords
    BY <1>1, <2>1, OpType
  <2>3. a.op = c.k /\ ~a.d
    BY <1>2 DEF Op
  <2> QED
    BY <1>2, <2>2, <2>3
<1>6. /\ b \in BlockRecords /\ b.type = c.k /\ b.slot = Here /\ b.deps = {} /\ b.first = nline
      /\ b.off1 = 0 /\ ~b.dangling
  <2>1. c.k \in BlockTypes
    BY <1>4 DEF BlockTypes, Slotted
  <2>2. Block(c.k, 0, Here, 0, FALSE) \in BlockRecords
    BY <1>1, <2>1, BlockType
  <2>3. /\ b.type = c.k /\ b.slot = Here /\ b.deps = {} /\ b.first = nline
        /\ b.off1 = 0 /\ ~b.dangling
    BY <1>3 DEF Block
  <2> QED
    BY <1>3, <2>2, <2>3
<1>7. Decides(code, a, line)
  BY <1>1, <1>4, <1>5 DEF Decides
<1>8. Puts(code, line, {nline}, a, code', line', Growing', Here)
  BY <1>1, <1>4, <1>5, <1>7, EmitPuts
<1>9. a.op = "sub" => \A i \in 1 .. Len(blocks) : blocks[i].type # "sub"
  BY <1>1, <1>5 DEF Refused, InSub
<1>10. b.type \in LoopOps => Here = <<b.first, b.off1 + 1>>
  BY <1>1, <1>4, <1>6 DEF LoopOps, SingleCmds
<1>11. Opening(code, line, {nline}, a, Here, b, blocks, jump, d, g, code', line', Growing',
               blocks', jump')
  BY <1>1, <1>4, <1>5, <1>6, <1>8, <1>9, <1>10 DEF Opening, IsOpener, Slotted
<1>12. \E g2 : Fits(code', line', Growing', blocks', jump', d, g2)
  BY <1>11, FitsOpen
<1> QED
  BY <1>12 DEF Fitted

LEMMA ForFits ==
  ASSUME NEW c, NEW d, NEW g, Fitting(c, d, g), For(c)
  PROVE  Fitted
<1>1. /\ TypeOK /\ code # <<>> /\ blocks \in BlockSeqs /\ Here \in PlaceType
      /\ c \in Commands /\ Compiling(c) /\ Fits(code, line, {nline}, blocks, jump, d, g)
      /\ ElseNext(line) => c.k \in {"else", "elseif"}
      /\ Here = <<nline, Len(code[nline]) + 1>> /\ Len(code[nline]) \in Nat
  BY FittingFacts
<1>2. PICK a : a = Op("assign", c, FALSE)
  OBVIOUS
<1>3. PICK f : f = Op("for", c, FALSE)
  OBVIOUS
<1>4. PICK n : n = Len(code[nline]) + 1
  OBVIOUS
<1>5. PICK b : b = Block("for", n, Next1(Here), c.v, FALSE)
  OBVIOUS
<1>6. Emit(<<a, f>>) /\ blocks' = Append(blocks, b) /\ jump' = Slot(jump, Next1(Here)) /\ c.k = "for"
  BY <1>2, <1>3, <1>4, <1>5 DEF For, Push
<1>7. a \in OpcodeRecords /\ a.op = "assign" /\ f \in OpcodeRecords /\ f.op = "for" /\ f.v = c.v
  <2>1. Op("assign", c, FALSE) \in OpcodeRecords /\ Op("for", c, FALSE) \in OpcodeRecords
    BY <1>1, OpType DEF Opcodes
  <2>2. a.op = "assign" /\ f.op = "for" /\ f.v = c.v
    BY <1>2, <1>3 DEF Op
  <2> QED
    BY <1>2, <1>3, <2>1, <2>2
<1>8. Next1(Here) \in PlaceType /\ Next1(Here) = <<nline, n + 1>> /\ n \in Nat /\ c.v \in Nat
  <2>1. Next1(Here) \in PlaceType
    BY <1>1, HereType
  <2>2. Here[1] = nline /\ Here[2] = n
    BY <1>1, <1>4
  <2> QED
    BY <1>1, <1>4, <2>1, <2>2 DEF Next1, Commands
<1>9. /\ b \in BlockRecords /\ b.type = "for" /\ b.slot = Next1(Here) /\ b.deps = {}
      /\ b.first = nline /\ b.off1 = n /\ b.var = c.v /\ ~b.dangling
  <2>1. Block("for", n, Next1(Here), c.v, FALSE) \in BlockRecords
    BY <1>1, <1>8, BlockType DEF BlockTypes, Slotted
  <2>2. /\ b.type = "for" /\ b.slot = Next1(Here) /\ b.deps = {}
        /\ b.first = nline /\ b.off1 = n /\ b.var = c.v /\ ~b.dangling
    BY <1>5 DEF Block
  <2> QED
    BY <1>5, <2>1, <2>2
<1>10. Decides(code, a, line)
  BY <1>1, <1>6, <1>7 DEF Decides
<1>11. PICK cd : cd = Put(code, a)
  OBVIOUS
<1>12. /\ Puts(code, line, {nline}, a, cd, line, {nline}, Here)
       /\ Puts(cd, line, {nline}, f, code', line', Growing', Next1(Here))
  BY <1>1, <1>6, <1>7, <1>10, <1>11, EmitPutsTwo
<1>13. Fits(cd, line, {nline}, blocks, jump, d, g)
  BY <1>1, <1>7, <1>12, FitsPlain
<1>14. Opening(cd, line, {nline}, f, Next1(Here), b, blocks, jump, d, g, code', line', Growing',
               blocks', jump')
  BY <1>1, <1>6, <1>7, <1>8, <1>9, <1>12, <1>13 DEF Opening, IsOpener, Slotted
<1>15. \E g2 : Fits(code', line', Growing', blocks', jump', d, g2)
  BY <1>14, FitsOpen
<1> QED
  BY <1>15 DEF Fitted

\* The opcode of a command that is compiled to one only.
OneOp(c, o, a) == a \in OpcodeRecords /\ a.op = o /\ ~a.d /\ a.v = c.v /\ a = Op(o, c, FALSE)

LEMMA OneOpFacts ==
  ASSUME NEW c \in Commands, NEW o \in Opcodes
  PROVE  \E a : OneOp(c, o, a)
<1>1. PICK a : a = Op(o, c, FALSE)
  OBVIOUS
<1>2. Op(o, c, FALSE) \in OpcodeRecords
  BY OpType
<1>3. a.op = o /\ ~a.d /\ a.v = c.v
  BY <1>1 DEF Op
<1> QED
  BY <1>1, <1>2, <1>3 DEF OneOp

LEMMA ReturnFits ==
  ASSUME NEW c, NEW d, NEW g, Fitting(c, d, g), Return(c)
  PROVE  Fitted
<1>1. /\ c \in Commands /\ Compiling(c) /\ Fits(code, line, {nline}, blocks, jump, d, g)
      /\ blocks \in BlockSeqs /\ ~Refused(c) /\ (ElseNext(line) => c.k \in {"else", "elseif"})
  BY FittingFacts
<1>2. PICK a : OneOp(c, "return", a)
  BY <1>1, OneOpFacts DEF Opcodes
<1>3. /\ a \in OpcodeRecords /\ a.op = "return" /\ Emit(<<a>>) /\ c.k = "return"
      /\ jump' = Slot(jump, Here) /\ blocks' = Hang(blocks, Here)
  BY <1>2 DEF OneOp, Return, Hang
<1>4. Decides(code, a, line)
  BY <1>1, <1>3 DEF Decides
<1>5. Puts(code, line, {nline}, a, code', line', Growing', Here)
  BY <1>1, <1>3, <1>4, EmitPuts
<1>6. \E i \in 1 .. Len(blocks) : blocks[i].type = "sub"
  BY <1>1, <1>3 DEF Refused, InSub
<1>7. Fits(code', line', Growing', blocks', jump', d, g)
  BY <1>1, <1>3, <1>5, <1>6, FitsReturn
<1> QED
  BY <1>7 DEF Fitted

\* The commands that close the block on top alone.
LEMMA EndsOnePut ==
  ASSUME NEW c, NEW d, NEW g, Fitting(c, d, g), NEW a \in OpcodeRecords, Emit(<<a>>),
         IsCloser(a), a.op # "else", c.k \in SingleCmds, blocks # <<>>,
         Top.type \notin {"if", "else"}
  PROVE  EndsOne(code, line, {nline}, a, code', line', Growing', Here, blocks, jump, d, g, Top)
<1>1. /\ Compiling(c) /\ Fits(code, line, {nline}, blocks, jump, d, g) /\ blocks \in BlockSeqs
      /\ ElseNext(line) => c.k \in {"else", "elseif"}
  BY FittingFacts
<1>2. ~ElseNext(line)
  BY <1>1 DEF SingleCmds
<1>3. Decides(code, a, line)
  BY <1>2 DEF Decides
<1>4. Puts(code, line, {nline}, a, code', line', Growing', Here) /\ Growing' = {}
  BY <1>1, <1>3, EmitPuts
<1> QED
  BY <1>1, <1>4 DEF EndsOne, Top

LEMMA NextFits ==
  ASSUME NEW c, NEW d, NEW g, Fitting(c, d, g), Next_(c)
  PROVE  Fitted
<1>1. c \in Commands /\ ~Refused(c) /\ nline = Len(code)
  BY FittingFacts
<1>2. PICK a : OneOp(c, "next", a)
  BY <1>1, OneOpFacts DEF Opcodes
<1>3. PICK t : t = <<Top.first, Top.off1>>
  OBVIOUS
<1>4. PICK mid : mid = Slot(Patch(jump, {Top.slot}, nline), Here)
  OBVIOUS
<1>5. /\ a \in OpcodeRecords /\ a.op = "next" /\ a.v = c.v /\ Emit(<<a>>)
      /\ c.k \in {"next", "nextv"} /\ jump' = PatchTo(mid, Here, t) /\ blocks' = Pop
  BY <1>2, <1>3, <1>4 DEF OneOp, Next_
<1>6. blocks # <<>> /\ Top.type \in LoopOps /\ (Top.type = "for" => Top.var = a.v)
  BY <1>1, <1>5 DEF Refused, TopIs, LoopOps
<1>7. EndsOne(code, line, {nline}, a, code', line', Growing', Here, blocks, jump, d, g, Top)
  BY <1>5, <1>6, EndsOnePut DEF IsCloser, SingleCmds, LoopOps
<1>8. \E c2 : Fits(code', line', Growing', blocks', jump', c2, g)
  BY <1>1, <1>3, <1>4, <1>5, <1>6, <1>7, FitsNext DEF Pop
<1> QED
  BY <1>8 DEF Fitted

LEMMA EndFits ==
  ASSUME NEW c, NEW d, NEW g, Fitting(c, d, g), End(c)
  PROVE  Fitted
<1>1. /\ c \in Commands /\ ~Refused(c) /\ nline = Len(code)
      /\ c.k \in SingleCmds => Here = <<nline, 1>>
  BY FittingFacts
<1>2. c.k \in {"end", "endsub"}
  BY DEF End
<1>3. PICK a : OneOp(c, c.k, a)
  BY <1>1, <1>2, OneOpFacts DEF Opcodes
<1>4. /\ a \in OpcodeRecords /\ a.op = c.k /\ Emit(<<a>>)
      /\ jump' = Patch(jump, Top.deps, nline) /\ blocks' = Pop
  BY <1>3 DEF OneOp, End
<1>5. /\ blocks # <<>> /\ Top.type \notin {"if", "else"}
      /\ a.op = "end" => Top.type = "begin"
      /\ a.op = "endsub" => Top.type = "sub"
  BY <1>1, <1>2, <1>4 DEF Refused, TopIs
<1>6. EndsOne(code, line, {nline}, a, code', line', Growing', Here, blocks, jump, d, g, Top)
  BY <1>2, <1>4, <1>5, EndsOnePut DEF IsCloser, SingleCmds
<1>7. Here[2] = 1
  BY <1>1, <1>2 DEF SingleCmds
<1>8. \/ a.op = "end" /\ Top.type = "begin"
      \/ a.op = "endsub" /\ Top.type = "sub" /\ Here[2] = 1
  BY <1>2, <1>4, <1>5, <1>7
<1>9. \E c2 : Fits(code', line', Growing', blocks', jump', c2, g)
  BY <1>1, <1>4, <1>6, <1>8, FitsEnd DEF Pop
<1> QED
  BY <1>9 DEF Fitted

LEMMA EndIfFits ==
  ASSUME NEW c, NEW d, NEW g, Fitting(c, d, g), EndIfCmd(c)
  PROVE  Fitted
<1>1. /\ c \in Commands /\ ~Refused(c) /\ nline = Len(code) /\ Compiling(c)
      /\ Fits(code, line, {nline}, blocks, jump, d, g) /\ code \in Codes /\ blocks \in BlockSeqs
      /\ ElseNext(line) => c.k \in {"else", "elseif"}
  BY FittingFacts
<1>2. PICK a : OneOp(c, "endif", a)
  BY <1>1, OneOpFacts DEF Opcodes
<1>3. a \in OpcodeRecords /\ a.op = "endif" /\ Emit(<<a>>) /\ c.k = "endif" /\ EndIf(nline + 1)
  BY <1>2 DEF OneOp, EndIfCmd
<1>4. Decides(code, a, line)
  BY <1>1, <1>3 DEF Decides
<1>5. Puts(code, line, {nline}, a, code', line', Growing', Here) /\ Growing' = {}
  BY <1>1, <1>3, <1>4, EmitPuts DEF SingleCmds
<1>6. /\ Here \in PlacesOf(code') /\ OpAt(code', Here) = a /\ Here[1] = nline
      /\ Len(code'[Here[1]]) = Here[2]
  BY <1>1, <1>5, PutsFacts
<1>7. Closing(code, line, {nline}, code', line', Growing', Here)
  BY <1>3, <1>5, PutsClosing DEF IsCloser
<1>8. Lands(code', Growing', <<nline + 1, 0>>, Here)
  BY <1>5, <1>6 DEF Lands, LastOn
<1>9. PICK n \in 0 .. Len(blocks) :
        /\ Kept(n) /\ blocks' = SubSeq(blocks, 1, n)
        /\ jump' = Patch(jump, {blocks[i].slot : i \in n + 1 .. Len(blocks)}, nline + 1)
  BY <1>3 DEF EndIf
<1>10. CutsTo(blocks, n)
  <2>1. Len(blocks) \in Nat
    BY <1>1 DEF BlockSeqs
  <2> QED
    BY <1>9, <2>1 DEF CutsTo, Kept
<1>11. blocks # <<>> /\ blocks[Len(blocks)].type \in {"if", "else"}
  BY <1>1, <1>3 DEF Refused, TopIs, Top
<1>12. PICK l : l = nline + 1
  OBVIOUS
<1>13. EndsIf(code, line, {nline}, code', line', Growing', Here, blocks, n, jump, l, jump')
  BY <1>1, <1>3, <1>6, <1>7, <1>8, <1>9, <1>10, <1>11, <1>12 DEF EndsIf
<1>14. blocks' = SubSeq(blocks, 1, n) /\ Fits(code, line, {nline}, blocks, jump, d, g)
  BY <1>1, <1>9
<1>15. blocks' = SubSeq(blocks, 1, n)
  BY <1>9
<1>16. Fits(code, line, {nline}, blocks, jump, d, g)
  BY <1>1
<1>17. IfEnds(code, line, {nline}, code', line', Growing', Here, blocks, n, jump, l, jump', d, g,
              blocks')
  BY <1>13, <1>15, <1>16 DEF IfEnds
<1>18. \E c2 : Fits(code', line', Growing', blocks', jump', c2, g)
  BY <1>17, FitsEndIf
<1> QED
  BY <1>18 DEF Fitted

NewBlock(type, slot) == Block(type, 0, slot, 0, FALSE)
Dangler(type, slot) == Block(type, 0, slot, 0, TRUE)

LEMMA BlockIs ==
  ASSUME TypeOK, code # <<>>, NEW type \in BlockTypes, NEW slot \in PlaceType,
         NEW b, b = NewBlock(type, slot)
  PROVE  b \in BlockRecords /\ b.type = type /\ b.slot = slot /\ ~b.dangling /\ b.deps = {}
<1>1. Block(type, 0, slot, 0, FALSE) \in BlockRecords
  BY BlockType
<1>2. b.type = type /\ b.slot = slot /\ ~b.dangling /\ b.deps = {}
  BY DEF NewBlock, Block
<1> QED
  BY <1>1, <1>2 DEF NewBlock

LEMMA BlockDangles ==
  ASSUME TypeOK, code # <<>>, NEW type \in BlockTypes, NEW slot \in PlaceType,
         NEW b, b = Dangler(type, slot)
  PROVE  b \in BlockRecords /\ b.type = type /\ b.slot = slot /\ b.dangling /\ b.deps = {}
<1>1. Block(type, 0, slot, 0, TRUE) \in BlockRecords
  BY BlockType
<1>2. b.type = type /\ b.slot = slot /\ b.dangling /\ b.deps = {}
  BY DEF Dangler, Block
<1> QED
  BY <1>1, <1>2 DEF Dangler

LEMMA IfElseBlocks == "if" \in BlockTypes /\ "else" \in BlockTypes
BY DEF BlockTypes, Slotted

LEMMA ElseFits ==
  ASSUME NEW c, NEW d, NEW g, Fitting(c, d, g), Else(c)
  PROVE  Fitted
<1>1. /\ TypeOK /\ code # <<>> /\ blocks \in BlockSeqs /\ Here \in PlaceType /\ ~Refused(c)
      /\ c \in Commands /\ Compiling(c) /\ Fits(code, line, {nline}, blocks, jump, d, g)
      /\ c.k \in {"else", "elseif"} => ElseNext(line)
  BY FittingFacts
<1>2. PICK a : OneOp(c, "else", a)
  BY <1>1, OneOpFacts DEF Opcodes
<1>3. PICK e : e = NewBlock("else", Here)
  OBVIOUS
<1>4. PICK t : t = IF Len(line) > 1 THEN Here ELSE <<nline + 1, 0>>
  OBVIOUS
<1>5. PICK mid : mid = PatchTo(jump, Top.slot, t)
  OBVIOUS
<1>6. /\ a \in OpcodeRecords /\ a.op = "else" /\ Emit(<<a>>) /\ c.k = "else"
      /\ blocks' = Append(Pop, e) /\ jump' = Slot(mid, Here)
  BY <1>2, <1>3, <1>4, <1>5 DEF OneOp, Else, NewBlock
<1>7. e \in BlockRecords /\ e.slot = Here /\ e.type = "else" /\ ~e.dangling /\ e.deps = {}
  BY <1>1, <1>3, IfElseBlocks, BlockIs
<1>8. blocks # <<>> /\ Top.type = "if"
  BY <1>1, <1>6 DEF Refused, TopIs
<1>9. Decides(code, a, line)
  BY <1>1, <1>6 DEF Decides
<1>10. /\ Puts(code, line, {nline}, a, code', line', Growing', Here)
       /\ Len(line) = 1 => Growing' = {}
  BY <1>1, <1>6, <1>9, EmitPuts
<1>11. /\ Here \in PlacesOf(code') /\ Here[1] = Len(code) /\ Len(code'[Here[1]]) = Here[2]
  BY <1>10, PutsFacts
<1>12. Lands(code', Growing', t, Here)
  <2>1. CASE Len(line) > 1
    BY <1>4, <2>1 DEF Lands
  <2>2. CASE ~(Len(line) > 1)
    <3>1. Len(line) = 1
      <4>1. line \in Seq(Commands) /\ line # <<>>
        BY <1>1 DEF Compiling, TypeOK
      <4>2. Len(line) \in Nat /\ Len(line) # 0
        BY <4>1
      <4>3. \A n \in Nat : n # 0 /\ ~(n > 1) => n = 1
        OBVIOUS
      <4> QED
        BY <2>2, <4>2, <4>3
    <3>2. Growing' = {} /\ t = <<Here[1] + 1, 0>>
      BY <1>4, <1>10, <1>11, <2>2, <3>1 DEF nline
    <3> QED
      BY <1>11, <3>2 DEF Lands, LastOn
  <2> QED
    BY <2>1, <2>2
<1>13. PICK o, g2 : o = g[Top.slot] /\ g2 = With(g, Here, o)
  OBVIOUS
<1>14. Mark(code, line, {nline}, a, code', line', Growing', Here, blocks, jump, d, g, Top, o, g2)
  BY <1>1, <1>6, <1>8, <1>10, <1>13 DEF Mark, Top
<1>15. blocks' = Append(SubSeq(blocks, 1, Len(blocks) - 1), e) /\ jump' = Slot(mid, Here)
       /\ a.op = "else" /\ Top.type = "if"
  BY <1>6, <1>8 DEF Pop
<1>16. Fits(code', line', Growing', blocks', jump', d, g2)
  BY <1>5, <1>7, <1>12, <1>14, <1>15, FitsElse
<1> QED
  BY <1>16 DEF Fitted

\* ELSE IF is an ELSE, which dangles below its IF from then on.
LEMMA ElseIfFits ==
  ASSUME NEW c, NEW d, NEW g, Fitting(c, d, g), ElseIf(c)
  PROVE  Fitted
<1>1. /\ TypeOK /\ code # <<>> /\ blocks \in BlockSeqs /\ Here \in PlaceType /\ ~Refused(c)
      /\ c \in Commands /\ Compiling(c) /\ Fits(code, line, {nline}, blocks, jump, d, g)
      /\ c.k \in {"else", "elseif"} => ElseNext(line)
  BY FittingFacts
<1>2. PICK a : a = Op("else", c, TRUE)
  OBVIOUS
<1>3. PICK i : i = Op("if", c, TRUE)
  OBVIOUS
<1>4. PICK e0 : e0 = NewBlock("else", Here)
  OBVIOUS
<1>5. PICK e : e = Dangler("else", Here)
  OBVIOUS
<1>6. PICK f : f = NewBlock("if", Next1(Here))
  OBVIOUS
<1>7. PICK mid : mid = PatchTo(jump, Top.slot, Here)
  OBVIOUS
<1>8. PICK jp1 : jp1 = Slot(mid, Here)
  OBVIOUS
<1>9. /\ Emit(<<a, i>>) /\ c.k = "elseif" /\ blocks' = Pop \o <<e, f>>
      /\ jump' = Slot(jp1, Next1(Here))
  BY <1>2, <1>3, <1>5, <1>6, <1>7, <1>8 DEF ElseIf, NewBlock, Dangler
<1>10. a \in OpcodeRecords /\ a.op = "else" /\ i \in OpcodeRecords /\ i.op = "if" /\ i.d
  <2>1. Op("else", c, TRUE) \in OpcodeRecords /\ Op("if", c, TRUE) \in OpcodeRecords
    BY <1>1, OpType DEF Opcodes
  <2>2. a.op = "else" /\ i.op = "if" /\ i.d
    BY <1>2, <1>3 DEF Op
  <2> QED
    BY <1>2, <1>3, <2>1, <2>2
<1>11. Next1(Here) \in PlaceType
  BY <1>1, HereType
<1>12. e0 \in BlockRecords /\ e0.slot = Here /\ e0.type = "else" /\ ~e0.dangling /\ e0.deps = {}
  BY <1>1, <1>4, IfElseBlocks, BlockIs
<1>13. e \in BlockRecords /\ e.slot = Here /\ e.type = "else" /\ e.dangling /\ e.deps = {}
  BY <1>1, <1>5, IfElseBlocks, BlockDangles
<1>14. f \in BlockRecords /\ f.slot = Next1(Here) /\ f.type = "if" /\ ~f.dangling /\ f.deps = {}
  BY <1>1, <1>6, <1>11, IfElseBlocks, BlockIs
<1>15. blocks # <<>> /\ Top.type = "if"
  BY <1>1, <1>9 DEF Refused, TopIs
<1>16. Decides(code, a, line)
  BY <1>1, <1>9, <1>10 DEF Decides
<1>17. PICK cd : cd = Put(code, a)
  OBVIOUS
<1>18. /\ Puts(code, line, {nline}, a, cd, line, {nline}, Here)
       /\ Puts(cd, line, {nline}, i, code', line', Growing', Next1(Here))
  BY <1>1, <1>9, <1>10, <1>16, <1>17, EmitPutsTwo
<1>19. PICK o, g1 : o = g[Top.slot] /\ g1 = With(g, Here, o)
  OBVIOUS
<1>20. Mark(code, line, {nline}, a, cd, line, {nline}, Here, blocks, jump, d, g, Top, o, g1)
  BY <1>1, <1>10, <1>15, <1>18, <1>19 DEF Mark, Top
<1>21. PICK bs1 : bs1 = Append(SubSeq(blocks, 1, Len(blocks) - 1), e0)
  OBVIOUS
<1>22. Lands(cd, {nline}, Here, Here)
  BY DEF Lands
<1>23. Fits(cd, line, {nline}, bs1, jp1, d, g1)
  BY <1>7, <1>8, <1>10, <1>12, <1>15, <1>20, <1>21, <1>22, FitsElse
<1>24. bs1 \in BlockSeqs /\ bs1[Len(bs1)] = e0 /\ bs1 # <<>>
       /\ SubSeq(bs1, 1, Len(bs1) - 1) = Pop
  <2>1. PICK low : low = SubSeq(blocks, 1, Len(blocks) - 1)
    OBVIOUS
  <2>2. low \in BlockSeqs /\ Len(low) \in Nat
    BY <1>1, <1>15, <2>1, LowFacts DEF BlockSeqs
  <2>3. bs1 \in BlockSeqs /\ Len(bs1) = Len(low) + 1 /\ bs1[Len(low) + 1] = e0
    BY <1>12, <1>21, <2>1, <2>2, AppendFacts
  <2>4. bs1 = Append(low, e0)
    BY <1>21, <2>1
  <2>5. SubSeq(bs1, 1, Len(low)) = low
    BY <1>12, <2>2, <2>4 DEF BlockSeqs
  <2>6. Len(bs1) - 1 = Len(low) /\ bs1 # <<>>
    BY <2>2, <2>3
  <2> QED
    BY <2>1, <2>3, <2>5, <2>6 DEF Pop
<1>25. PICK o2, g2 : o2 = g1[e0.slot] /\ g2 = With(g1, Next1(Here), o2)
  OBVIOUS
<1>26. Mark(cd, line, {nline}, i, code', line', Growing', Next1(Here), bs1, jp1, d, g1, e0, o2, g2)
  BY <1>10, <1>18, <1>23, <1>24, <1>25 DEF Mark
<1>27. blocks' = TwoOnTop(bs1, e, f)
  BY <1>9, <1>24 DEF TwoOnTop
<1>28. i.op = "if" /\ e0.type = "else" /\ e.slot = e0.slot /\ jump' = Slot(jp1, Next1(Here))
  BY <1>9, <1>10, <1>12, <1>13
<1>29. Fits(code', line', Growing', blocks', jump', d, g2)
  BY <1>13, <1>14, <1>26, <1>27, <1>28, FitsDangle
<1> QED
  BY <1>29 DEF Fitted

-----------------------------------------------------------------------------
(* The line being compiled.                                                *)

Adds(cd, ops, cd2) ==
  /\ cd \in Codes /\ cd # <<>> /\ ops \in Seq(OpcodeRecords) /\ ops # <<>>
  /\ cd2 = [cd EXCEPT ![Len(cd)] = @ \o ops]

Added(cd, l, ops, cd2, l2) ==
  /\ cd # <<>> /\ cd2 # <<>> /\ Len(cd2) = Len(cd) /\ Len(l) \in Nat /\ Len(ops) \in Nat \ {0}
  /\ Len(l2) = Len(l) + Len(ops) /\ l2 # <<>> /\ (l # <<>> => Len(l) # 0)
  /\ l = <<>> => Len(l) = 0
  /\ \A i \in 1 .. Len(l) : l2[i] = l[i]
  /\ \A i \in 1 .. Len(ops) : l2[Len(l) + i] = ops[i]
  /\ l # <<>> => l2[1] = l[1]
  /\ l = <<>> => l2[1] = ops[1]

LEMMA AddsFacts ==
  ASSUME NEW cd, NEW ops, NEW cd2, Adds(cd, ops, cd2), NEW l, l = LastLine(cd),
         NEW l2, l2 = LastLine(cd2)
  PROVE  Added(cd, l, ops, cd2, l2)
<1>1. Len(cd) \in Nat \ {0} /\ Len(cd) \in DOMAIN cd
  BY DEF Adds, Codes
<1>2. l \in Seq(OpcodeRecords)
  BY <1>1 DEF Adds, Codes, LastLine
<1>3. DOMAIN cd2 = DOMAIN cd /\ Len(cd2) = Len(cd) /\ cd2[Len(cd)] = l \o ops
  BY <1>1 DEF Adds, Codes, LastLine
<1>4. cd2 # <<>>
  BY <1>1, <1>3
<1>5. l2 = l \o ops /\ ops \in Seq(OpcodeRecords) /\ ops # <<>> /\ cd # <<>>
  BY <1>3 DEF LastLine, Adds
<1>6. Len(l) \in Nat /\ Len(ops) \in Nat /\ Len(ops) # 0 /\ (l # <<>> => Len(l) # 0)
      /\ (l = <<>> => Len(l) = 0)
  BY <1>2, <1>5
<1>7. /\ Len(l2) = Len(l) + Len(ops) /\ l2 # <<>>
      /\ \A i \in 1 .. Len(l) : l2[i] = l[i]
      /\ \A i \in 1 .. Len(ops) : l2[Len(l) + i] = ops[i]
  BY <1>2, <1>5
<1>8. l # <<>> => l2[1] = l[1]
  BY <1>6, <1>7
<1>9. l = <<>> => l2[1] = ops[1]
  <2>1. ASSUME l = <<>> PROVE l2[1] = ops[1]
    <3>1. Len(l) = 0 /\ 1 \in 1 .. Len(ops) /\ Len(l) + 1 = 1
      BY <1>6, <2>1
    <3> QED
      BY <1>7, <3>1
  <2> QED
    BY <2>1
<1> QED
  BY <1>1, <1>3, <1>4, <1>5, <1>6, <1>7, <1>8, <1>9 DEF Added

LEMMA TailLen ==
  ASSUME NEW ln \in Seq(Commands), ln # <<>>
  PROVE  Len(ln) \in Nat \ {0} /\ Len(Tail(ln)) = Len(ln) - 1
OBVIOUS

\* The first command of a line, unless it is IF or ELSE.
LEMMA FirstPlain ==
  ASSUME NEW cd, NEW ops, NEW cd2, Adds(cd, ops, cd2), NEW ln \in Seq(Commands), ln # <<>>,
         NEW nb \in Nat, NEW sg, NEW ae, NEW md, NEW bs, LineIs(cd, ln, nb, sg, ae, md, bs),
         LastLine(cd) = <<>>, ops[1].op # "if", ops[1].op = "else" => ops[1].d,
         NEW ln2, NEW sg2, NEW md2, NEW bs2
  PROVE  LineIs(cd2, ln2, nb + 1, sg2, ae, md2, bs2)
<1>1. PICK l, l2 : l = LastLine(cd) /\ l2 = LastLine(cd2)
  OBVIOUS
<1>2. cd2 # <<>> /\ l2 # <<>> /\ l2[1] = ops[1]
  <2>1. Added(cd, l, ops, cd2, l2)
    BY <1>1, AddsFacts
  <2> QED
    BY <1>1, <2>1 DEF Added
<1>3. ~BranchLine(cd2)
  BY <1>1, <1>2 DEF BranchLine, StartsIn, LastLine
<1>4. ~BranchLine(cd)
  BY DEF BranchLine, StartsIn, LastLine
<1>5. ae => FALSE
  BY <1>4 DEF LineIs
<1>6. nb + 1 # 0
  OBVIOUS
<1> QED
  BY <1>1, <1>2, <1>3, <1>5, <1>6 DEF LineIs

\* IF and ELSE come first in their line, and leave their block on top.
BranchFirst(cd, a, ops, cd2, ln, nb, sg, ae, md, bs, ln2, ae2, bs2) ==
  /\ ops = <<a>> /\ Adds(cd, ops, cd2) /\ ln \in Seq(Commands) /\ ln # <<>> /\ nb \in Nat
  /\ LineIs(cd, ln, nb, sg, ae, md, bs) /\ LastLine(cd) = <<>> /\ nb = 0
  /\ a.op \in {"if", "else"} /\ ~a.d /\ ae2 = (ae \/ Len(ln) > 1) /\ ln2 = Tail(ln)
  /\ OnTop(bs2, {"if", "else"}) /\ bs2[Len(bs2)].slot = <<Len(cd), 1>>

LEMMA FirstBranch ==
  ASSUME NEW cd, NEW a, NEW ops, NEW cd2, NEW ln, NEW nb, NEW sg, NEW ae, NEW md, NEW bs,
         NEW ln2, NEW ae2, NEW bs2, NEW sg2,
         BranchFirst(cd, a, ops, cd2, ln, nb, sg, ae, md, bs, ln2, ae2, bs2)
  PROVE  LineIs(cd2, ln2, nb + 1, sg2, ae2, md, bs2)
<1> USE DEF BranchFirst
<1>1. PICK l, l2 : l = LastLine(cd) /\ l2 = LastLine(cd2)
  OBVIOUS
<1>2. cd2 # <<>> /\ l2 # <<>> /\ l2[1] = ops[1] /\ Len(l2) = 1 /\ Len(cd2) = Len(cd)
  <2>1. Len(ops) = 1
    OBVIOUS
  <2>2. Added(cd, l, ops, cd2, l2)
    BY <1>1, AddsFacts
  <2>3. /\ cd2 # <<>> /\ l2 # <<>> /\ l2[1] = ops[1] /\ Len(l2) = Len(l) + Len(ops) /\ Len(l) = 0
        /\ Len(cd2) = Len(cd)
    BY <1>1, <2>2 DEF Added
  <2> QED
    BY <2>1, <2>3
<1>3. l2[1] = a
  BY <1>2
<1>4. BranchLine(cd2)
  BY <1>1, <1>2, <1>3 DEF BranchLine, StartsIn, LastLine
<1>5. ~OpensBehind(cd2)
  <2> SUFFICES ASSUME NEW k \in 2 .. Len(l2) PROVE FALSE
    BY <1>1 DEF OpensBehind
  <2> QED
    BY <1>2
<1>6. ~BranchLine(cd)
  BY DEF BranchLine, StartsIn, LastLine
<1>7. (ae => FALSE) /\ md = Normal
  BY <1>6 DEF LineIs
<1>8. Len(l2) + Len(ln2) > 1 <=> Len(ln) > 1
  <2>1. Len(ln) \in Nat \ {0} /\ Len(ln2) = Len(ln) - 1
    BY TailLen
  <2> QED
    BY <1>2, <2>1
<1>9. ae2 <=> Len(l2) + Len(ln2) > 1
  BY <1>7, <1>8
<1>10. nb + 1 # 0
  OBVIOUS
<1> QED
  BY <1>1, <1>2, <1>4, <1>5, <1>7, <1>9, <1>10 DEF LineIs

\* Any other command: a FOR leaves its block on top, the rest leave the top alone.
LEMMA LaterInLine ==
  ASSUME NEW cd, NEW ops, NEW cd2, Adds(cd, ops, cd2), NEW ln \in Seq(Commands), ln # <<>>,
         NEW nb \in Nat, NEW sg, NEW ae, NEW md, NEW bs, LineIs(cd, ln, nb, sg, ae, md, bs),
         LastLine(cd) # <<>>, NEW bs2,
         \/ OnTop(bs2, {"for"}) /\ \E i \in 1 .. Len(ops) : IsOpener(ops[i])
         \/ /\ \A i \in 1 .. Len(ops) : ~IsOpener(ops[i])
            /\ Len(bs2) = Len(bs) /\ (bs # <<>> => bs2 # <<>>)
            /\ bs # <<>> => /\ bs2[Len(bs)].type = bs[Len(bs)].type
                            /\ bs2[Len(bs)].slot = bs[Len(bs)].slot,
         NEW ln2, ln2 = Tail(ln), NEW sg2
  PROVE  LineIs(cd2, ln2, nb + 1, sg2, ae, md, bs2)
<1>1. PICK l, l2 : l = LastLine(cd) /\ l2 = LastLine(cd2)
  OBVIOUS
<1>2. /\ cd # <<>> /\ cd2 # <<>> /\ Len(cd2) = Len(cd) /\ Len(l) \in Nat \ {0}
      /\ Len(ops) \in Nat \ {0} /\ Len(l2) = Len(l) + Len(ops) /\ l2 # <<>>
      /\ \A i \in 1 .. Len(l) : l2[i] = l[i]
      /\ \A i \in 1 .. Len(ops) : l2[Len(l) + i] = ops[i]
      /\ l2[1] = l[1]
  <2>1. l # <<>>
    BY <1>1
  <2>2. Added(cd, l, ops, cd2, l2)
    BY <1>1, AddsFacts
  <2> QED
    BY <2>1, <2>2 DEF Added
<1>3. BranchLine(cd2) <=> BranchLine(cd)
  BY <1>1, <1>2 DEF BranchLine, StartsIn, LastLine
<1>4. Len(ln) \in Nat \ {0} /\ Len(ln2) = Len(ln) - 1
  BY TailLen
<1>5. Len(l) + Len(ln) > 1 /\ Len(l2) + Len(ln2) > 1
  BY <1>2, <1>4
<1>6. OpensBehind(cd2) <=> OpensBehind(cd) \/ \E i \in 1 .. Len(ops) : IsOpener(ops[i])
  <2>1. ASSUME OpensBehind(cd2)
        PROVE  OpensBehind(cd) \/ \E i \in 1 .. Len(ops) : IsOpener(ops[i])
    <3>1. PICK k \in 2 .. Len(l2) : IsOpener(l2[k])
      BY <1>1, <2>1 DEF OpensBehind
    <3>2. CASE k <= Len(l)
      <4>1. k \in 2 .. Len(l) /\ k \in 1 .. Len(l)
        BY <1>2, <3>2
      <4>2. IsOpener(l[k])
        BY <1>2, <3>1, <4>1
      <4> QED
        BY <1>1, <4>1, <4>2 DEF OpensBehind
    <3>3. CASE k > Len(l)
      <4>1. PICK i : i = k - Len(l)
        OBVIOUS
      <4>2. i \in 1 .. Len(ops) /\ k = Len(l) + i
        BY <1>2, <3>3, <4>1
      <4> QED
        BY <1>2, <3>1, <4>2
    <3> QED
      BY <1>2, <3>2, <3>3
  <2>2. ASSUME OpensBehind(cd) PROVE OpensBehind(cd2)
    <3>1. PICK k \in 2 .. Len(l) : IsOpener(l[k])
      BY <1>1, <2>2 DEF OpensBehind
    <3>2. k \in 2 .. Len(l2) /\ k \in 1 .. Len(l)
      BY <1>2
    <3>3. IsOpener(l2[k])
      BY <1>2, <3>1, <3>2
    <3> QED
      BY <1>1, <3>2, <3>3 DEF OpensBehind
  <2>3. ASSUME NEW i \in 1 .. Len(ops), IsOpener(ops[i]) PROVE OpensBehind(cd2)
    <3>1. Len(l) + i \in 2 .. Len(l2)
      BY <1>2
    <3>2. IsOpener(l2[Len(l) + i])
      BY <1>2, <2>3
    <3> QED
      BY <1>1, <3>1, <3>2 DEF OpensBehind
  <2> QED
    BY <2>1, <2>2, <2>3
<1>7. /\ ae => BranchLine(cd)
      /\ BranchLine(cd) => (ae <=> Len(l) + Len(ln) > 1)
      /\ BranchLine(cd) /\ OpensBehind(cd) => OnTop(bs, {"for"})
      /\ BranchLine(cd) /\ ~OpensBehind(cd) =>
           OnTop(bs, {"if", "else"}) /\ bs[Len(bs)].slot = <<Len(cd), 1>>
      /\ md # Normal => ~BranchLine(cd)
  BY <1>1 DEF LineIs
<1>8. BranchLine(cd2) /\ OpensBehind(cd2) => OnTop(bs2, {"for"})
  BY <1>3, <1>6, <1>7 DEF OnTop
<1>9. BranchLine(cd2) /\ ~OpensBehind(cd2) =>
        OnTop(bs2, {"if", "else"}) /\ bs2[Len(bs2)].slot = <<Len(cd2), 1>>
  BY <1>2, <1>3, <1>6, <1>7 DEF OnTop
<1>10. nb + 1 # 0
  OBVIOUS
<1>11. BranchLine(cd2) => (ae <=> Len(l2) + Len(ln2) > 1)
  BY <1>3, <1>5, <1>7
<1> QED
  BY <1>1, <1>2, <1>3, <1>7, <1>8, <1>9, <1>10, <1>11 DEF LineIs

TopKept(bs, bs2) ==
  /\ Len(bs2) = Len(bs) /\ (bs # <<>> => bs2 # <<>>)
  /\ bs # <<>> => /\ bs2[Len(bs)].type = bs[Len(bs)].type
                  /\ bs2[Len(bs)].slot = bs[Len(bs)].slot

LEMMA HangTop ==
  ASSUME NEW bs \in BlockSeqs, NEW h \in PlaceType, NEW bs2, bs2 = Hang(bs, h)
  PROVE  TopKept(bs, bs2)
<1>1. /\ bs2 \in BlockSeqs /\ Len(bs2) = Len(bs) /\ Len(bs) \in Nat
      /\ \A i \in 1 .. Len(bs) : bs2[i].slot = bs[i].slot /\ bs2[i].type = bs[i].type
  BY HangFacts
<1>2. bs # <<>> => Len(bs) \in 1 .. Len(bs)
  BY <1>1 DEF BlockSeqs
<1>3. bs # <<>> => bs2 # <<>>
  BY <1>1, <1>2
<1> QED
  BY <1>1, <1>2, <1>3 DEF TopKept

\* What the command leaves of its line.
LEMMA CommandLineNext ==
  ASSUME NEW c, Compiling(c), Compile(c)
  PROVE  LineFits'
<1>1. /\ LineIs(code, line, nbcmd, single, autoEndif, mode, blocks) /\ line \in Seq(Commands)
      /\ line # <<>> /\ nbcmd \in Nat /\ line' = Tail(line) /\ nbcmd' = nbcmd + 1
      /\ code \in Codes /\ code # <<>> /\ blocks \in BlockSeqs /\ c \in Commands /\ ~Refused(c)
      /\ c.k \in SingleCmds => nbcmd = 0
      /\ TypeOK
  BY DEF Compiling, TypeOK, LineFits, Accept
<1>2. nbcmd = 0 <=> LastLine(code) = <<>>
  BY <1>1 DEF LineIs
<1>3. nline = Len(code) /\ Here = <<nline, Len(code[nline]) + 1>> /\ Here \in PlaceType
  BY <1>1, HereType DEF nline, Here
<1>4. nbcmd # 0 => c.k \notin {"if", "else", "elseif"}
  BY <1>1 DEF Refused
<1> SUFFICES LineIs(code', line', nbcmd + 1, single', autoEndif', mode', blocks')
  BY <1>1 DEF LineFits
<1>5. CASE If(c) \/ Else(c)
  <2>0. c.k \in {"if", "else"}
    BY <1>5 DEF If, Else
  <2>1. nbcmd = 0 /\ LastLine(code) = <<>>
    BY <1>2, <1>4, <2>0
  <2>2. PICK a : OneOp(c, c.k, a)
    BY <1>1, <2>0, OneOpFacts DEF Opcodes
  <2>3. PICK b : b = NewBlock(c.k, Here)
    OBVIOUS
  <2>4. PICK bs : bs = IF c.k = "if" THEN blocks ELSE Pop
    OBVIOUS
  <2>5. /\ a \in OpcodeRecords /\ a.op \in {"if", "else"} /\ ~a.d /\ Emit(<<a>>)
        /\ blocks' = Append(bs, b) /\ mode' = mode /\ autoEndif' = (autoEndif \/ Len(line) > 1)
    BY <1>5, <2>0, <2>2, <2>3, <2>4 DEF OneOp, If, Else, Push, NewBlock
  <2>6. b \in BlockRecords /\ b.type = c.k /\ b.slot = Here
    <3>1. c.k \in BlockTypes
      BY <2>0, IfElseBlocks
    <3> QED
      BY <1>1, <1>3, <2>3, <3>1, BlockIs
  <2>7. bs \in BlockSeqs
    <3>1. c.k = "else" => blocks # <<>>
      BY <1>1 DEF Refused, TopIs
    <3>2. c.k = "else" => Pop \in BlockSeqs
      BY <1>1, <3>1, TopType DEF BlockSeqs
    <3> QED
      BY <1>1, <2>0, <2>4, <3>2
  <2>8. blocks' # <<>> /\ blocks'[Len(blocks')] = b
    <3>1. PICK bs2 : bs2 = blocks'
      OBVIOUS
    <3>2. bs2 \in BlockSeqs /\ Len(bs2) = Len(bs) + 1 /\ bs2[Len(bs) + 1] = b /\ Len(bs) \in Nat
      BY <2>5, <2>6, <2>7, <3>1, AppendFacts
    <3>3. bs2 # <<>> /\ bs2[Len(bs2)] = b
      BY <3>2 DEF BlockSeqs
    <3> QED
      BY <3>1, <3>3
  <2>9. OnTop(blocks', {"if", "else"}) /\ blocks'[Len(blocks')].slot = <<Len(code), 1>>
    <3>1. code[nline] = <<>>
      BY <1>3, <2>1 DEF LastLine
    <3>2. Here = <<Len(code), 1>>
      BY <1>3, <3>1
    <3> QED
      BY <2>0, <2>6, <2>8, <3>2 DEF OnTop
  <2>10. PICK ops : ops = <<a>>
    OBVIOUS
  <2>11. Adds(code, ops, code')
    BY <1>1, <2>5, <2>10 DEF Adds, Emit, nline
  <2>12. BranchFirst(code, a, ops, code', line, nbcmd, single, autoEndif, mode, blocks, line',
                     autoEndif', blocks')
    BY <1>1, <2>1, <2>5, <2>9, <2>10, <2>11 DEF BranchFirst
  <2>13. LineIs(code', line', nbcmd + 1, single', autoEndif', mode, blocks')
    BY <2>12, FirstBranch
  <2> QED
    BY <2>5, <2>13
<1>6. CASE nbcmd = 0 /\ ~If(c) /\ ~Else(c)
  <2>1. autoEndif' = autoEndif
        /\ \E ops \in Seq(OpcodeRecords) : /\ Emit(ops) /\ ops # <<>> /\ ops[1].op # "if"
                                           /\ ops[1].op = "else" => ops[1].d
    <3>1. CASE ElseIf(c) \/ For(c)
      <4>2. CASE ElseIf(c)
        <5>1. PICK a, b : a = Op("else", c, TRUE) /\ b = Op("if", c, TRUE)
          OBVIOUS
        <5>2. Emit(<<a, b>>) /\ autoEndif' = autoEndif
          BY <4>2, <5>1 DEF ElseIf
        <5>3. a \in OpcodeRecords /\ b \in OpcodeRecords /\ a.op = "else" /\ a.d
          <6>1. Op("else", c, TRUE) \in OpcodeRecords /\ Op("if", c, TRUE) \in OpcodeRecords
            BY <1>1, OpType DEF Opcodes
          <6>2. a.op = "else" /\ a.d
            BY <5>1 DEF Op
          <6> QED
            BY <5>1, <6>1, <6>2
        <5>4. <<a, b>> \in Seq(OpcodeRecords) /\ <<a, b>> # <<>> /\ <<a, b>>[1] = a
          BY <5>3
        <5> QED
          BY <5>2, <5>3, <5>4
      <4>3. CASE For(c)
        <5>1. PICK a, b : a = Op("assign", c, FALSE) /\ b = Op("for", c, FALSE)
          OBVIOUS
        <5>2. Emit(<<a, b>>) /\ autoEndif' = autoEndif
          BY <4>3, <5>1 DEF For
        <5>3. a \in OpcodeRecords /\ b \in OpcodeRecords /\ a.op = "assign"
          <6>1. Op("assign", c, FALSE) \in OpcodeRecords /\ Op("for", c, FALSE) \in OpcodeRecords
            BY <1>1, OpType DEF Opcodes
          <6>2. a.op = "assign"
            BY <5>1 DEF Op
          <6> QED
            BY <5>1, <6>1, <6>2
        <5>4. <<a, b>> \in Seq(OpcodeRecords) /\ <<a, b>> # <<>> /\ <<a, b>>[1] = a
          BY <5>3
        <5> QED
          BY <5>2, <5>3, <5>4
      <4> QED
        BY <3>1, <4>2, <4>3
    <3>2. CASE ~ElseIf(c) /\ ~For(c)
      <4>1. PICK o : /\ o \in Opcodes \ {"if", "else"} /\ Emit(<<Op(o, c, FALSE)>>)
                     /\ autoEndif' = autoEndif
        <5>1. Plain(c) \/ Begin(c) \/ EndIfCmd(c) \/ Loop(c) \/ Next_(c) \/ Return(c) \/ End(c)
          BY <1>6, <3>2 DEF Compile
        <5>2. CASE Plain(c)
          BY <5>2 DEF Plain, Opcodes
        <5>3. CASE Begin(c)
          BY <5>3 DEF Begin, Opcodes
        <5>4. CASE EndIfCmd(c)
          BY <5>4 DEF EndIfCmd, Opcodes
        <5>5. CASE Loop(c)
          BY <5>5 DEF Loop, Opcodes
        <5>6. CASE Next_(c)
          BY <5>6 DEF Next_, Opcodes
        <5>7. CASE Return(c)
          BY <5>7 DEF Return, Opcodes
        <5>8. CASE End(c)
          BY <5>8 DEF End, Opcodes
        <5> QED
          BY <5>1, <5>2, <5>3, <5>4, <5>5, <5>6, <5>7, <5>8
      <4>2. PICK a : OneOp(c, o, a)
        BY <1>1, <4>1, OneOpFacts
      <4>3. a \in OpcodeRecords /\ a.op = o /\ Emit(<<a>>) /\ o \notin {"if", "else"}
        BY <4>1, <4>2 DEF OneOp
      <4>4. <<a>> \in Seq(OpcodeRecords) /\ <<a>> # <<>> /\ <<a>>[1] = a
        BY <4>3
      <4> QED
        BY <4>1, <4>3, <4>4
    <3> QED
      BY <3>1, <3>2
  <2>2. PICK ops \in Seq(OpcodeRecords) : /\ Emit(ops) /\ ops # <<>> /\ ops[1].op # "if"
                                          /\ ops[1].op = "else" => ops[1].d
    BY <2>1
  <2>3. Adds(code, ops, code')
    BY <1>1, <2>2 DEF Adds, Emit, nline
  <2>4. LineIs(code', line', nbcmd + 1, single', autoEndif, mode', blocks')
    BY <1>1, <1>2, <1>6, <2>2, <2>3, FirstPlain
  <2> QED
    BY <2>1, <2>4
<1>7. CASE nbcmd # 0
  <2>1. c.k \notin SingleCmds /\ c.k \notin {"if", "else", "elseif"} /\ LastLine(code) # <<>>
    BY <1>1, <1>2, <1>4, <1>7
  <2>2. (Plain(c) /\ c.k # "text") \/ For(c) \/ Return(c)
    BY <2>1 DEF Compile, SingleCmds, Plain, Begin, If, Else, ElseIf, EndIfCmd, Loop, Next_, End
  <2>3. mode' = mode /\ autoEndif' = autoEndif
    BY <2>2 DEF Plain, For, Return
  <2>4. CASE For(c)
    <3>1. PICK a, f : a = Op("assign", c, FALSE) /\ f = Op("for", c, FALSE)
      OBVIOUS
    <3>2. PICK b : b = Block("for", Len(code[nline]) + 1, Next1(Here), c.v, FALSE)
      OBVIOUS
    <3>3. Emit(<<a, f>>) /\ blocks' = Append(blocks, b)
      BY <2>4, <3>1, <3>2 DEF For, Push
    <3>4. a \in OpcodeRecords /\ f \in OpcodeRecords /\ f.op = "for" /\ b.type = "for"
      <4>1. Op("assign", c, FALSE) \in OpcodeRecords /\ Op("for", c, FALSE) \in OpcodeRecords
        BY <1>1, OpType DEF Opcodes
      <4>2. f.op = "for" /\ b.type = "for"
        BY <3>1, <3>2 DEF Op, Block
      <4> QED
        BY <3>1, <4>1, <4>2
    <3>5. PICK ops : ops = <<a, f>>
      OBVIOUS
    <3>6. ops \in Seq(OpcodeRecords) /\ ops # <<>> /\ Len(ops) = 2 /\ ops[2] = f
      BY <3>4, <3>5
    <3>7. \E i \in 1 .. Len(ops) : IsOpener(ops[i])
      <4>1. 2 \in 1 .. Len(ops) /\ IsOpener(ops[2])
        BY <3>4, <3>6 DEF IsOpener
      <4> QED
        BY <4>1
    <3>8. OnTop(blocks', {"for"})
      <4>1. PICK bs2 : bs2 = blocks'
        OBVIOUS
      <4>2. bs2 # <<>> /\ bs2[Len(bs2)] = b
        BY <1>1, <3>3, <4>1 DEF BlockSeqs
      <4> QED
        BY <3>4, <4>1, <4>2 DEF OnTop
    <3>9. Adds(code, ops, code')
      BY <1>1, <3>3, <3>5, <3>6 DEF Adds, Emit, nline
    <3>10. LineIs(code', line', nbcmd + 1, single', autoEndif, mode, blocks')
      BY <1>1, <2>1, <3>7, <3>8, <3>9, LaterInLine
    <3> QED
      BY <2>3, <3>10
  <2>5. CASE Plain(c) \/ Return(c)
    <3>1. PICK a : OneOp(c, c.k, a)
      <4>1. c.k \in Opcodes
        BY <2>5 DEF Plain, Return, Opcodes
      <4> QED
        BY <1>1, <4>1, OneOpFacts
    <3>2. a \in OpcodeRecords /\ Emit(<<a>>) /\ ~IsOpener(a)
      <4>1. a \in OpcodeRecords /\ a.op = c.k /\ a = Op(c.k, c, FALSE)
        BY <3>1 DEF OneOp
      <4>2. c.k \in {"act", "call", "text", "return"} /\ Emit(<<Op(c.k, c, FALSE)>>)
        BY <2>5 DEF Plain, Return
      <4> QED
        BY <4>1, <4>2 DEF IsOpener
    <3>3. PICK ops : ops = <<a>>
      OBVIOUS
    <3>4. /\ ops \in Seq(OpcodeRecords) /\ ops # <<>>
          /\ \A i \in 1 .. Len(ops) : ~IsOpener(ops[i])
      BY <3>2, <3>3
    <3>5. /\ Len(blocks') = Len(blocks) /\ (blocks # <<>> => blocks' # <<>>)
          /\ blocks # <<>> => /\ blocks'[Len(blocks)].type = blocks[Len(blocks)].type
                              /\ blocks'[Len(blocks)].slot = blocks[Len(blocks)].slot
      <4>1. CASE Plain(c)
        BY <4>1 DEF Plain
      <4>2. CASE Return(c)
        <5>1. blocks' = Hang(blocks, Here)
          BY <4>2 DEF Return, Hang
        <5>2. TopKept(blocks, blocks')
          BY <1>1, <1>3, <5>1, HangTop
        <5> QED
          BY <5>2 DEF TopKept
      <4> QED
        BY <2>5, <4>1, <4>2
    <3>6. Adds(code, ops, code')
      BY <1>1, <3>2, <3>3, <3>4 DEF Adds, Emit, nline
    <3>7. LineIs(code', line', nbcmd + 1, single', autoEndif, mode, blocks')
      BY <1>1, <2>1, <3>4, <3>5, <3>6, LaterInLine
    <3> QED
      BY <2>3, <3>7
  <2> QED
    BY <2>2, <2>4, <2>5
<1> QED
  BY <1>5, <1>6, <1>7

-----------------------------------------------------------------------------
(* The invariant.                                                          *)

\* A line that starts, or the beginning of a source.
LEMMA LineBegins ==
  ASSUME NEW cd, cd = <<>> \/ LastLine(cd) = <<>>, NEW ln, cd = <<>> => ln = <<>>,
         NEW md, md # Normal => ln = <<>>, NEW sg, ~sg, NEW ae, ~ae, NEW bs
  PROVE  LineIs(cd, ln, 0, sg, ae, md, bs)
<1>1. ~BranchLine(cd)
  BY DEF BranchLine, StartsIn, LastLine
<1> QED
  BY <1>1 DEF LineIs

\* The line before is ended as a one-line IF exactly if nesting takes it for one.
LEMMA ClosesAsNested ==
  ASSUME TypeOK, LineFits, line = <<>>, code \in Codes, NEW d, NEW g,
         Fits(code, <<>>, {}, blocks, jump, d, g), NEW ln
  PROVE  Closes(ln) <=> ClosesLine(code, ln)
<1>1. /\ autoEndif => BranchLine(code)
      /\ BranchLine(code) => (autoEndif <=> Len(LastLine(code)) + Len(line) > 1)
      /\ BranchLine(code) /\ OpensBehind(code) => OnTop(blocks, {"for"})
      /\ BranchLine(code) /\ ~OpensBehind(code) =>
           OnTop(blocks, {"if", "else"}) /\ blocks[Len(blocks)].slot = <<Len(code), 1>>
  BY DEF LineFits, LineIs
<1>2. /\ \A i \in 1 .. Len(blocks) : BlockFits(code, jump, d, g, blocks[i])
      /\ blocks \in BlockSeqs
  BY DEF Fits, Stacked, TypeOK, BlockSeqs
<1>3. Len(code) \in Nat /\ (code # <<>> => Len(code) > 0) /\ (Len(code) > 0 => code # <<>>)
  BY DEF Codes
<1>4. Len(line) = 0
  OBVIOUS
<1>5. code # <<>> => Len(LastLine(code)) \in Nat
  <2>1. \A l \in 1 .. Len(code) : Len(code[l]) \in Nat
    BY PlaceFacts
  <2> QED
    BY <1>3, <2>1 DEF LastLine
<1>6. ClosesLine(code, ln) <=>
        /\ BranchLine(code) /\ Len(LastLine(code)) > 1 /\ ~OpensBehind(code)
        /\ ~(StartsIn(code, Len(code), "if") /\ ElseNext(ln))
  BY <1>3 DEF ClosesLine, OneLineIn, BranchLine, OpensBehind, LastLine
<1>7. Closes(ln) <=> /\ autoEndif /\ OnTop(blocks, {"if", "else"})
                     /\ ~(Top.type = "if" /\ ElseNext(ln))
  BY DEF Closes, TopIs, OnTop, Top, ElseNext
<1>8. ASSUME BranchLine(code), ~OpensBehind(code)
      PROVE  /\ OnTop(blocks, {"if", "else"})
             /\ Top.type = "if" <=> StartsIn(code, Len(code), "if")
  <2>1. OnTop(blocks, {"if", "else"}) /\ blocks[Len(blocks)].slot = <<Len(code), 1>>
    BY <1>1, <1>8
  <2>2. blocks # <<>> /\ Len(blocks) \in 1 .. Len(blocks)
    BY <1>2, <2>1 DEF OnTop, BlockSeqs
  <2>3. OpAt(code, Top.slot).op = Top.type /\ Top.slot = <<Len(code), 1>>
    BY <1>2, <2>1, <2>2 DEF BlockFits, Top
  <2>4. code[Len(code)][1].op = Top.type
    BY <2>3 DEF OpAt
  <2>5. code[Len(code)] # <<>>
    BY <1>8 DEF BranchLine, StartsIn
  <2> QED
    BY <2>1, <2>4, <2>5 DEF StartsIn
<1>9. ASSUME BranchLine(code) PROVE autoEndif <=> Len(LastLine(code)) > 1
  <2>1. code # <<>>
    BY <1>9 DEF BranchLine
  <2>2. Len(LastLine(code)) + Len(line) = Len(LastLine(code))
    BY <1>4, <1>5, <2>1
  <2> QED
    BY <1>1, <1>9, <2>2
<1>10. OnTop(blocks, {"for"}) => ~OnTop(blocks, {"if", "else"})
  BY DEF OnTop
<1> QED
  BY <1>1, <1>6, <1>7, <1>8, <1>9, <1>10

LEMMA StartLineNesting ==
  ASSUME TypeOK, Owned, Nesting, NEW ln \in Seq(Commands), StartLine(ln)
  PROVE  Nesting'
<1>1. /\ phase = "parse" /\ phase' = "parse" /\ line = <<>> /\ code' = Append(code, <<>>)
      /\ nbcmd' = 0 /\ single' = FALSE /\ errors' = errors /\ code \in Codes /\ blocks \in BlockSeqs
  BY DEF StartLine, TypeOK, Codes, BlockSeqs
<1> SUFFICES ASSUME ~errors
             PROVE  LineFits' /\ \E d, g : Fits(code', line', Growing', blocks', jump', d, g)
  BY <1>1 DEF Nesting
<1>2. LineFits
  BY <1>1 DEF Nesting
<1>3. PICK d, g : Fits(code, line, Growing, blocks, jump, d, g)
  BY <1>1 DEF Nesting
<1>4. Fits(code, <<>>, {}, blocks, jump, d, g)
  BY <1>1, <1>3 DEF Growing
<1>5. code' # <<>> /\ LastLine(code') = <<>> /\ nline' = Len(code) + 1 /\ Len(code) \in Nat
  <2>1. PICK cd2 : cd2 = code'
    OBVIOUS
  <2>2. cd2 = Append(code, <<>>) /\ code \in Seq(Seq(OpcodeRecords)) /\ <<>> \in Seq(OpcodeRecords)
    BY <1>1, <2>1 DEF Codes
  <2>3. Len(cd2) = Len(code) + 1 /\ cd2[Len(code) + 1] = <<>> /\ Len(code) \in Nat
    BY <2>2
  <2>4. cd2 # <<>>
    BY <2>3
  <2> QED
    BY <2>1, <2>3, <2>4 DEF LastLine, nline
<1>6. Growing' \subseteq {Len(code) + 1}
  BY <1>5 DEF Growing
<1>7. CASE TextLine(ln)
  <2>1. mode # Normal /\ line' = <<>> /\ blocks' = blocks /\ jump' = jump /\ autoEndif' = autoEndif
    BY <1>7 DEF TextLine
  <2>2. ~BranchLine(code) /\ ~autoEndif
    BY <1>2, <2>1 DEF LineFits, LineIs
  <2>3. LineFits'
    <3>1. LineIs(code', line', 0, single', autoEndif', mode', blocks')
      BY <1>1, <1>5, <2>1, <2>2, LineBegins
    <3> QED
      BY <1>1, <3>1 DEF LineFits
  <2>4. ~ClosesLine(code, line')
    BY <2>2 DEF ClosesLine, OneLineIn, BranchLine, LastLine
  <2>5. Fits(code', line', Growing', blocks, jump, d, g)
    BY <1>1, <1>4, <1>6, <2>4, FitsLine
  <2> QED
    BY <2>1, <2>3, <2>5
<1>8. CASE CommandLine(ln)
  <2>1. /\ mode = Normal /\ mode' = mode /\ line' = ln /\ (autoEndif' => autoEndif /\ blocks = <<>>)
        /\ (Closes(ln) /\ EndIf(Len(code) + 1)) \/ (~Closes(ln) /\ blocks' = blocks /\ jump' = jump)
    BY <1>8 DEF CommandLine, nline
  <2>2. autoEndif => blocks # <<>>
    BY <1>2 DEF LineFits, LineIs, OnTop
  <2>3. LineFits'
    <3>1. mode' # Normal => FALSE
      BY <2>1
    <3>2. LineIs(code', line', 0, single', autoEndif', mode', blocks')
      BY <1>1, <1>5, <2>1, <2>2, <3>1, LineBegins
    <3> QED
      BY <1>1, <3>2 DEF LineFits
  <2>4. Closes(ln) <=> ClosesLine(code, ln)
    BY <1>1, <1>2, <1>4, ClosesAsNested
  <2>5. CASE ~Closes(ln)
    <3>1. Fits(code', ln, Growing', blocks, jump, d, g)
      BY <1>1, <1>4, <1>6, <2>4, <2>5, FitsLine
    <3> QED
      BY <2>1, <2>3, <2>5, <3>1
  <2>6. CASE Closes(ln)
    <3>1. blocks # <<>> /\ blocks[Len(blocks)].type \in {"if", "else"} /\ ClosesLine(code, ln)
      BY <2>4, <2>6 DEF Closes, TopIs, Top
    <3>2. PICK l : l = Len(code) + 1
      OBVIOUS
    <3>3. PICK k : k = <<l, 0>>
      OBVIOUS
    <3>4. EndIf(l)
      BY <2>1, <2>6, <3>2
    <3>5. PICK n \in 0 .. Len(blocks) :
            /\ Kept(n) /\ blocks' = SubSeq(blocks, 1, n)
            /\ jump' = Patch(jump, {blocks[i].slot : i \in n + 1 .. Len(blocks)}, l)
      BY <3>4 DEF EndIf
    <3>6. CutsTo(blocks, n)
      <4>1. Len(blocks) \in Nat
        BY <1>1 DEF BlockSeqs
      <4> QED
        BY <3>5, <4>1 DEF CutsTo, Kept
    <3>7. EndsIf(code, <<>>, {}, code', ln, Growing', k, blocks, n, jump, l, jump')
      BY <1>1, <1>6, <3>1, <3>2, <3>3, <3>5, <3>6, LineEndsIf
    <3>8. IfEnds(code, <<>>, {}, code', ln, Growing', k, blocks, n, jump, l, jump', d, g, blocks')
      BY <1>4, <3>5, <3>7 DEF IfEnds
    <3>9. \E c2 : Fits(code', ln, Growing', blocks', jump', c2, g)
      BY <3>8, FitsEndIf
    <3> QED
      BY <2>1, <2>3, <3>9
  <2> QED
    BY <2>5, <2>6
<1> QED
  BY <1>7, <1>8 DEF StartLine

\* Before a source is read there is nothing to nest.
LEMMA FitsEmpty ==
  ASSUME NEW jp, DOMAIN jp = {}, NEW f, DOMAIN f = {}
  PROVE  Fits(<<>>, <<>>, {}, <<>>, jp, f, f)
<1>1. PlacesOf(<<>>) = {} /\ Len(<<>>) = 0
  BY DEF PlacesOf
<1>2. Openers(<<>>) = {} /\ RealClosers(<<>>) = {} /\ Elses(<<>>) = {} /\ Marks(<<>>) = {}
  BY <1>1 DEF Openers, RealClosers, Elses, Ifs, Marks
<1>3. ImpliedIn(<<>>) = {}
  BY DEF ImpliedIn
<1>4. ClosersOf(<<>>, <<>>) = {}
  BY <1>2, <1>3 DEF ClosersOf
<1>5. Nested({}, {}, {}, f, f)
  BY DEF Nested
<1>6. Typed(<<>>, f)
  BY <1>2 DEF Typed
<1>7. Stacked(<<>>, <<>>, jp, f, f)
  BY <1>1, <1>2 DEF Stacked, Ranked
<1>8. Targeted(<<>>, {}, <<>>, jp, f, f)
  BY DEF Targeted
<1> QED
  BY <1>2, <1>4, <1>5, <1>6, <1>7, <1>8 DEF Fits

LEMMA BeginNesting ==
  ASSUME phase = "parse", line = <<>>, nbcmd = 0, ~single, blocks = <<>>, code = <<>>,
         DOMAIN jump = {}, ~autoEndif
  PROVE  Nesting
<1>1. LineFits
  <2>1. LineIs(code, line, 0, single, autoEndif, mode, blocks)
    BY LineBegins
  <2> QED
    BY <2>1 DEF LineFits
<1>2. PICK f : f = [x \in {} |-> 0]
  OBVIOUS
<1>3. Fits(code, line, Growing, blocks, jump, f, f)
  BY <1>2, FitsEmpty DEF Growing
<1> QED
  BY <1>1, <1>3 DEF Nesting

LEMMA CommandNesting ==
  ASSUME TypeOK, Owned, Nesting, Command
  PROVE  Nesting'
<1>1. line # <<>> /\ phase = "parse"
  BY DEF Command, Owned
<1>2. CASE Refuse(Head(line))
  BY <1>1, <1>2 DEF Refuse, Nesting
<1>3. CASE Compile(Head(line))
  <2>1. PICK c : c = Head(line)
    OBVIOUS
  <2>2. phase' = phase
    BY <1>3 DEF Compile, Accept
  <2>3. CASE errors'
    BY <1>1, <2>2, <2>3 DEF Nesting
  <2>4. CASE ~errors'
    <3>1. Compile(c) /\ Compiling(c) /\ \E d, g : Fits(code, line, {nline}, blocks, jump, d, g)
      BY <1>1, <1>3, <2>1, <2>4, CompilingFacts
    <3>2. PICK d, g : Fits(code, line, {nline}, blocks, jump, d, g)
      BY <3>1
    <3>3. Fitting(c, d, g)
      BY <3>1, <3>2 DEF Fitting
    <3>4. Fitted
      BY <3>1, <3>3, PlainFits, BeginFits, ElseFits, ElseIfFits, EndIfFits, ForFits, NextFits,
         ReturnFits, EndFits DEF Compile
    <3>5. LineFits'
      BY <3>1, CommandLineNext
    <3> QED
      BY <1>1, <2>2, <3>4, <3>5 DEF Nesting, Fitted
  <2> QED
    BY <2>3, <2>4
<1> QED
  BY <1>2, <1>3 DEF Command

LEMMA FinishNesting ==
  ASSUME TypeOK, Nesting, Finish
  PROVE  Nesting'
<1>1. /\ phase = "parse" /\ line = <<>> /\ line' = line /\ code' = code /\ blocks' = blocks
      /\ jump' = jump /\ single' = single /\ (~errors' => ~errors /\ blocks = <<>>)
      /\ phase' \in {"failed", "run"} /\ (phase' = "run" => ~errors')
  BY DEF Finish
<1>2. Growing' = Growing
  BY <1>1 DEF Growing, nline
<1> QED
  BY <1>1, <1>2 DEF Nesting

\* Everything else of a run leaves the compiled program alone.
LEMMA NestingSame ==
  ASSUME Nesting, UNCHANGED <<line, nbcmd, single, blocks, code, jump, autoEndif, mode, errors>>,
         phase' = phase \/ phase' \notin {"parse", "run"}
  PROVE  Nesting'
<1>1. Growing' = Growing /\ (LineFits' <=> LineFits)
  BY DEF Growing, nline, LineFits
<1> QED
  BY <1>1 DEF Nesting

LEMMA NestingStep ==
  ASSUME TypeOK, Owned, Nesting, [Next]_vars
  PROVE  Nesting'
<1>1. CASE \E ln \in source : StartLine(ln)
  <2>1. PICK ln \in source : StartLine(ln)
    BY <1>1
  <2>2. ln \in Seq(Commands)
    BY SourcesAssumption DEF TypeOK
  <2> QED
    BY <2>1, <2>2, StartLineNesting
<1>2. CASE Command
  BY <1>2, CommandNesting
<1>3. CASE Finish
  BY <1>3, FinishNesting
<1>4. CASE Again
  <2>1. /\ phase' = "parse" /\ line' = <<>> /\ nbcmd' = 0 /\ ~single' /\ blocks' = <<>>
        /\ code' = <<>> /\ DOMAIN jump' = {} /\ ~autoEndif'
    BY <1>4 DEF Again
  <2>2. LineFits'
    <3>1. LineIs(code', line', 0, single', autoEndif', mode', blocks')
      BY <2>1, LineBegins
    <3> QED
      BY <2>1, <3>1 DEF LineFits
  <2>3. PICK f : f = [x \in {} |-> 0]
    OBVIOUS
  <2>4. Fits(code', line', Growing', blocks', jump', f, f)
    BY <2>1, <2>3, FitsEmpty DEF Growing
  <2> QED
    BY <2>1, <2>2, <2>4 DEF Nesting
<1>5. CASE UNCHANGED vars
  BY <1>5, NestingSame DEF vars
<1> QED
  BY <1>1, <1>2, <1>3, <1>4, <1>5 DEF Next, Parse

-----------------------------------------------------------------------------
(* A program whose blocks are all closed: counting what opens and what     *)
(* closes finds the same pairs.                                            *)

\* What opens before p and does not close before it.
OpenAt(O, c, p) == {o \in O : Lt(o, p) /\ ~Lt(c[o], p)}
DepthIn(O, K, p) == Cardinality({q \in O : Lt(q, p)}) - Cardinality({q \in K : Lt(q, p)})
InnerIn(O, K, p) == IF p \in O THEN DepthIn(O, K, p) + 1 ELSE DepthIn(O, K, p)

AllClosed(O, K, M, c, g) ==
  /\ Nested(O, K, M, c, g) /\ DOMAIN c = O /\ IsFiniteSet(O)
  /\ M \subseteq PlaceType /\ K \subseteq PlaceType /\ M \cap K = {}

LEMMA AllClosedFacts ==
  ASSUME NEW O, NEW K, NEW M, NEW c, NEW g, AllClosed(O, K, M, c, g)
  PROVE  /\ O \subseteq PlaceType /\ K \subseteq PlaceType /\ O \subseteq M /\ M \subseteq PlaceType
         /\ \A o \in O : /\ c[o] \in K /\ Lt(o, c[o]) /\ g[o] = o
         /\ \A k \in K : \E o \in O : c[o] = k
         /\ \A o, p \in O : c[o] = c[p] => o = p
         /\ \A o, p \in O : Lt(o, p) /\ Lt(p, c[o]) => Lt(c[p], c[o])
         /\ \A o \in O, x \in M : c[o] # x
         /\ \A x \in M : /\ g[x] \in O /\ (x = g[x] \/ Lt(g[x], x)) /\ Lt(x, c[g[x]])
                         /\ \A p \in O : Lt(g[x], p) /\ Lt(p, x) => Lt(c[p], x)
<1>1. /\ O \subseteq M /\ DOMAIN c = O /\ M \subseteq PlaceType /\ K \subseteq PlaceType
      /\ M \cap K = {}
  BY DEF AllClosed, Nested
<1>2. /\ \A o \in O : /\ c[o] \in K /\ Lt(o, c[o]) /\ g[o] = o
      /\ \A k \in K : \E o \in O : c[o] = k
      /\ \A o, p \in O : c[o] = c[p] => o = p
      /\ \A o, p \in O : Lt(o, p) /\ Lt(p, c[o]) => Lt(c[p], c[o])
  BY <1>1 DEF AllClosed, Nested
<1>3. \A x \in M : /\ g[x] \in O /\ (x = g[x] \/ Lt(g[x], x)) /\ Lt(x, c[g[x]])
                   /\ \A p \in O : Lt(g[x], p) /\ Lt(p, x) => Lt(c[p], x)
  BY <1>1 DEF AllClosed, Nested
<1> QED
  BY <1>1, <1>2, <1>3

LEMMA DepthIs ==
  ASSUME NEW O, NEW K, NEW M, NEW c, NEW g, AllClosed(O, K, M, c, g), NEW p \in PlaceType
  PROVE  /\ IsFiniteSet(OpenAt(O, c, p))
         /\ DepthIn(O, K, p) = Cardinality(OpenAt(O, c, p))
<1>1. PICK A, B, C, D : /\ A = {q \in O : Lt(q, p)} /\ B = {q \in K : Lt(q, p)}
                        /\ C = {o \in O : Lt(c[o], p)} /\ D = OpenAt(O, c, p)
  OBVIOUS
<1>2. /\ O \subseteq PlaceType /\ K \subseteq PlaceType
      /\ \A o \in O : c[o] \in K /\ Lt(o, c[o])
      /\ \A k \in K : \E o \in O : c[o] = k
      /\ \A o, q \in O : c[o] = c[q] => o = q
  BY AllClosedFacts
<1>3. C \subseteq A /\ D \subseteq O /\ A \subseteq O /\ C \subseteq O
  BY <1>1, <1>2, LtOrder DEF OpenAt
<1>4. IsFiniteSet(A) /\ IsFiniteSet(C) /\ IsFiniteSet(D)
  <2>1. IsFiniteSet(O)
    BY DEF AllClosed
  <2> QED
    BY <1>3, <2>1, FS_Subset
<1>5. D = A \ C
  BY <1>1 DEF OpenAt
<1>6. Cardinality(D) = Cardinality(A) - Cardinality(C)
  <2>1. A \cap C = C
    BY <1>3
  <2>2. Cardinality(A \ C) = Cardinality(A) - Cardinality(A \cap C)
    BY <1>4, FS_Difference
  <2> QED
    BY <1>5, <2>1, <2>2
<1>7. Cardinality(B) = Cardinality(C)
  <2>1. PICK f : f = [o \in C |-> c[o]]
    OBVIOUS
  <2>2. f \in [C -> B]
    BY <1>1, <1>2, <1>3, <2>1
  <2>3. \A x, y \in C : f[x] = f[y] => x = y
    BY <1>2, <1>3, <2>1
  <2>4. \A k \in B : \E x \in C : f[x] = k
    BY <1>1, <1>2, <2>1
  <2>5. f \in Bijection(C, B)
    BY <2>2, <2>3, <2>4 DEF Bijection, Injection, Surjection, IsInjective
  <2>6. ExistsBijection(C, B)
    BY <2>5 DEF ExistsBijection
  <2> QED
    BY <1>4, <2>6, FS_Bijection
<1> QED
  BY <1>1, <1>4, <1>6, <1>7 DEF DepthIn

\* Inside of a block one more is open than before it.
LEMMA OpenInside ==
  ASSUME NEW O, NEW K, NEW M, NEW c, NEW g, AllClosed(O, K, M, c, g), NEW p \in PlaceType,
         NEW o \in O, Lt(o, p), ~Lt(c[o], p), \A q \in O : Lt(o, q) /\ Lt(q, p) => Lt(c[q], p)
  PROVE  DepthIn(O, K, p) = Cardinality(OpenAt(O, c, o)) + 1
<1>1. /\ O \subseteq PlaceType /\ K \subseteq PlaceType /\ O \subseteq M
      /\ \A q \in O : c[q] \in K /\ Lt(q, c[q])
      /\ \A q, r \in O : Lt(q, r) /\ Lt(r, c[q]) => Lt(c[r], c[q])
      /\ \A q \in O, x \in M : c[q] # x
  BY AllClosedFacts
<1>2. o \in PlaceType /\ c[o] \in PlaceType
  BY <1>1
<1>3. ASSUME NEW q \in OpenAt(O, c, p) PROVE q \in OpenAt(O, c, o) \cup {o}
  <2>1. q \in O /\ Lt(q, p) /\ ~Lt(c[q], p) /\ q \in PlaceType /\ c[q] \in PlaceType
    BY <1>1 DEF OpenAt
  <2>2. CASE Lt(o, q)
    BY <2>1, <2>2
  <2>3. CASE Lt(q, o)
    <3>1. ~Lt(c[q], o)
      BY <1>2, <2>1, LtOrder
    <3> QED
      BY <2>1, <2>3, <3>1 DEF OpenAt
  <2> QED
    BY <1>2, <2>1, <2>2, <2>3, LtOrder
<1>4. ASSUME NEW q \in OpenAt(O, c, o) PROVE q \in OpenAt(O, c, p)
  <2>1. q \in O /\ Lt(q, o) /\ ~Lt(c[q], o) /\ q \in PlaceType /\ c[q] \in PlaceType
    BY <1>1 DEF OpenAt
  <2>2. Lt(o, c[q])
    BY <1>1, <1>2, <2>1, LtOrder
  <2>3. Lt(c[o], c[q])
    BY <1>1, <2>1, <2>2
  <2>4. ~Lt(c[q], p)
    BY <1>2, <2>1, <2>3, LtOrder
  <2>5. Lt(q, p)
    BY <1>2, <2>1, LtOrder
  <2> QED
    BY <2>1, <2>4, <2>5 DEF OpenAt
<1>5. o \in OpenAt(O, c, p) /\ o \notin OpenAt(O, c, o)
  BY <1>2, LtOrder DEF OpenAt
<1>6. OpenAt(O, c, p) = OpenAt(O, c, o) \cup {o}
  BY <1>3, <1>4, <1>5
<1>7. IsFiniteSet(OpenAt(O, c, o)) /\ DepthIn(O, K, p) = Cardinality(OpenAt(O, c, p))
  BY <1>2, DepthIs
<1> QED
  BY <1>5, <1>6, <1>7, FS_AddElement

\* Below a block that is inside of another one more is open still.
LEMMA OpenDeeper ==
  ASSUME NEW O, NEW K, NEW M, NEW c, NEW g, AllClosed(O, K, M, c, g),
         NEW o \in O, NEW q \in O, Lt(o, q), Lt(q, c[o])
  PROVE  /\ Cardinality(OpenAt(O, c, q)) \in Nat /\ Cardinality(OpenAt(O, c, o)) \in Nat
         /\ Cardinality(OpenAt(O, c, q)) >= Cardinality(OpenAt(O, c, o)) + 1
<1>1. /\ O \subseteq PlaceType /\ K \subseteq PlaceType /\ O \subseteq M
      /\ \A r \in O : c[r] \in K /\ Lt(r, c[r])
      /\ \A p, r \in O : Lt(p, r) /\ Lt(r, c[p]) => Lt(c[r], c[p])
      /\ \A r \in O, x \in M : c[r] # x
  BY AllClosedFacts
<1>2. o \in PlaceType /\ q \in PlaceType /\ c[o] \in PlaceType
  BY <1>1
<1>3. PICK A, B : A = OpenAt(O, c, o) /\ B = OpenAt(O, c, q)
  OBVIOUS
<1>4. IsFiniteSet(A) /\ IsFiniteSet(B)
  BY <1>2, <1>3, DepthIs
<1>5. o \in B /\ o \notin A
  BY <1>2, <1>3, LtOrder DEF OpenAt
<1>6. ASSUME NEW r \in A PROVE r \in B
  <2>1. r \in O /\ Lt(r, o) /\ ~Lt(c[r], o) /\ r \in PlaceType /\ c[r] \in PlaceType
    BY <1>1, <1>3 DEF OpenAt
  <2>2. Lt(o, c[r])
    BY <1>1, <1>2, <2>1, LtOrder
  <2>3. Lt(c[o], c[r])
    BY <1>1, <2>1, <2>2
  <2>4. ~Lt(c[r], q) /\ Lt(r, q)
    BY <1>2, <2>1, <2>3, LtOrder
  <2> QED
    BY <1>3, <2>1, <2>4 DEF OpenAt
<1>7. Cardinality(A \cup {o}) = Cardinality(A) + 1
  BY <1>4, <1>5, FS_AddElement
<1>8. Cardinality(A \cup {o}) <= Cardinality(B)
  <2>1. A \cup {o} \in SUBSET B
    BY <1>5, <1>6
  <2> QED
    BY <1>4, <2>1, FS_Subset
<1>9. Cardinality(A) \in Nat /\ Cardinality(B) \in Nat
  BY <1>4, FS_CardinalityType
<1> QED
  BY <1>3, <1>7, <1>8, <1>9

LEMMA DepthClose ==
  ASSUME NEW O, NEW K, NEW M, NEW c, NEW g, AllClosed(O, K, M, c, g), NEW o \in O
  PROVE  DepthIn(O, K, c[o]) = Cardinality(OpenAt(O, c, o)) + 1
<1>1. /\ K \subseteq PlaceType /\ c[o] \in K /\ Lt(o, c[o])
      /\ \A r \in O : Lt(o, r) /\ Lt(r, c[o]) => Lt(c[r], c[o])
  BY AllClosedFacts
<1>2. c[o] \in PlaceType /\ ~Lt(c[o], c[o])
  BY <1>1, LtOrder
<1> QED
  BY <1>1, <1>2, OpenInside

LEMMA InnerMark ==
  ASSUME NEW O, NEW K, NEW M, NEW c, NEW g, AllClosed(O, K, M, c, g), NEW x \in M
  PROVE  /\ InnerIn(O, K, x) = Cardinality(OpenAt(O, c, g[x])) + 1
         /\ x \notin O => DepthIn(O, K, x) = Cardinality(OpenAt(O, c, g[x])) + 1
<1>1. /\ M \subseteq PlaceType /\ g[x] \in O /\ (x = g[x] \/ Lt(g[x], x)) /\ Lt(x, c[g[x]])
      /\ \A p \in O : Lt(g[x], p) /\ Lt(p, x) => Lt(c[p], x)
      /\ \A o \in O : g[o] = o /\ c[o] \in K
      /\ K \subseteq PlaceType
  BY AllClosedFacts
<1>2. x \in PlaceType /\ c[g[x]] \in PlaceType
  BY <1>1
<1>3. CASE x \in O
  <2>1. g[x] = x
    BY <1>1, <1>3
  <2>2. DepthIn(O, K, x) = Cardinality(OpenAt(O, c, x))
    BY <1>2, DepthIs
  <2> QED
    BY <1>3, <2>1, <2>2 DEF InnerIn
<1>4. CASE x \notin O
  <2>1. Lt(g[x], x) /\ ~Lt(c[g[x]], x)
    BY <1>1, <1>2, <1>4, LtOrder
  <2>2. DepthIn(O, K, x) = Cardinality(OpenAt(O, c, g[x])) + 1
    BY <1>1, <1>2, <2>1, OpenInside
  <2> QED
    BY <1>4, <2>2 DEF InnerIn
<1> QED
  BY <1>3, <1>4

FirstOf(T) == CHOOSE p \in T : \A q \in T : p = q \/ Lt(p, q)

LEMMA FirstIs ==
  ASSUME NEW T, T \subseteq PlaceType, NEW x \in T, \A q \in T : q = x \/ Lt(x, q)
  PROVE  FirstOf(T) = x
<1>1. PICK y : y = FirstOf(T)
  OBVIOUS
<1>2. y \in T /\ \A q \in T : y = q \/ Lt(y, q)
  BY <1>1 DEF FirstOf
<1>3. x \in PlaceType /\ y \in PlaceType
  BY <1>2
<1> QED
  BY <1>1, <1>2, <1>3, LtOrder

\* What ends a block inside of another one is too deep to end that.
LEMMA DeeperClose ==
  ASSUME NEW O, NEW K, NEW M, NEW c, NEW g, AllClosed(O, K, M, c, g), NEW o \in O,
         NEW q \in K, Lt(o, q), Lt(q, c[o])
  PROVE  DepthIn(O, K, q) # Cardinality(OpenAt(O, c, o)) + 1
<1>1. /\ O \subseteq PlaceType /\ K \subseteq PlaceType /\ c[o] \in K
      /\ \E r \in O : c[r] = q
      /\ \A r \in O : Lt(r, c[r]) /\ c[r] \in K
      /\ \A p, r \in O : Lt(p, r) /\ Lt(r, c[p]) => Lt(c[r], c[p])
  BY AllClosedFacts
<1>2. PICK r \in O : c[r] = q
  BY <1>1
<1>3. o \in PlaceType /\ q \in PlaceType /\ c[o] \in PlaceType /\ r \in PlaceType /\ Lt(r, q)
  BY <1>1, <1>2
<1>4. r # o
  BY <1>2, <1>3, LtOrder
<1>5. ~Lt(r, o)
  <2>1. Lt(r, o) => Lt(c[o], q)
    BY <1>1, <1>2
  <2> QED
    BY <1>3, <2>1, LtOrder
<1>6. Lt(o, r) /\ Lt(r, c[o])
  BY <1>3, <1>4, <1>5, LtOrder
<1>7. /\ Cardinality(OpenAt(O, c, r)) \in Nat /\ Cardinality(OpenAt(O, c, o)) \in Nat
      /\ Cardinality(OpenAt(O, c, r)) >= Cardinality(OpenAt(O, c, o)) + 1
  BY <1>6, OpenDeeper
<1>8. DepthIn(O, K, q) = Cardinality(OpenAt(O, c, r)) + 1
  BY <1>2, DepthClose
<1> QED
  BY <1>7, <1>8

LEMMA ElseDepth ==
  ASSUME NEW O, NEW K, NEW M, NEW c, NEW g, AllClosed(O, K, M, c, g), NEW o \in O,
         NEW e \in M, e \notin O, Lt(o, e), Lt(e, c[o]),
         DepthIn(O, K, e) = Cardinality(OpenAt(O, c, o)) + 1
  PROVE  g[e] = o
<1>1. /\ O \subseteq PlaceType /\ K \subseteq PlaceType /\ M \subseteq PlaceType /\ c[o] \in K
      /\ g[e] \in O /\ (e = g[e] \/ Lt(g[e], e))
      /\ \A p \in O : Lt(g[e], p) /\ Lt(p, e) => Lt(c[p], e)
  BY AllClosedFacts
<1>2. PICK r \in O : r = g[e]
  BY <1>1
<1>3. o \in PlaceType /\ e \in PlaceType /\ c[o] \in PlaceType /\ r \in PlaceType
  BY <1>1, <1>2
<1>4. ~Lt(r, o)
  <2>1. Lt(r, o) => Lt(c[o], e)
    BY <1>1, <1>2
  <2> QED
    BY <1>3, <2>1, LtOrder
<1>5. ASSUME Lt(o, r) PROVE FALSE
  <2>1. Lt(r, e)
    BY <1>1, <1>2
  <2>2. Lt(r, c[o])
    BY <1>3, <2>1, LtOrder
  <2>3. /\ Cardinality(OpenAt(O, c, r)) \in Nat /\ Cardinality(OpenAt(O, c, o)) \in Nat
        /\ Cardinality(OpenAt(O, c, r)) >= Cardinality(OpenAt(O, c, o)) + 1
    BY <1>5, <2>2, OpenDeeper
  <2>4. DepthIn(O, K, e) = Cardinality(OpenAt(O, c, r)) + 1
    BY <1>2, InnerMark
  <2> QED
    BY <2>3, <2>4
<1> QED
  BY <1>2, <1>3, <1>4, <1>5, LtOrder

\* The first end of a block behind a mark that is as deep as the code behind
\* the mark is the end of its block.
LEMMA CloseIs ==
  ASSUME NEW O, NEW K, NEW M, NEW c, NEW g, AllClosed(O, K, M, c, g), NEW x \in M
  PROVE  FirstOf({q \in K : Lt(x, q) /\ DepthIn(O, K, q) = InnerIn(O, K, x)}) = c[g[x]]
<1>1. /\ O \subseteq PlaceType /\ K \subseteq PlaceType /\ M \subseteq PlaceType
      /\ g[x] \in O /\ (x = g[x] \/ Lt(g[x], x)) /\ Lt(x, c[g[x]])
      /\ \A o \in O : c[o] \in K
  BY AllClosedFacts
<1>2. PICK o \in O : o = g[x]
  BY <1>1
<1>3. InnerIn(O, K, x) = Cardinality(OpenAt(O, c, o)) + 1
  BY <1>2, InnerMark
<1>4. DepthIn(O, K, c[o]) = Cardinality(OpenAt(O, c, o)) + 1
  BY DepthClose
<1>5. PICK T : T = {q \in K : Lt(x, q) /\ DepthIn(O, K, q) = InnerIn(O, K, x)}
  OBVIOUS
<1>6. c[o] \in T /\ T \subseteq PlaceType
  BY <1>1, <1>2, <1>3, <1>4, <1>5
<1>7. ASSUME NEW q \in T PROVE q = c[o] \/ Lt(c[o], q)
  <2>1. q \in K /\ Lt(x, q) /\ DepthIn(O, K, q) = Cardinality(OpenAt(O, c, o)) + 1
    BY <1>3, <1>5
  <2>2. o \in PlaceType /\ x \in PlaceType /\ q \in PlaceType /\ c[o] \in PlaceType
    BY <1>1, <2>1
  <2>3. Lt(o, q)
    BY <1>1, <1>2, <2>1, <2>2, LtOrder
  <2>4. ~Lt(q, c[o])
    BY <2>1, <2>3, DeeperClose
  <2> QED
    BY <2>2, <2>4, LtOrder
<1>8. FirstOf(T) = c[o]
  BY <1>6, <1>7, FirstIs
<1> QED
  BY <1>2, <1>5, <1>8

ElsesOrCloses(O, K, E, x) ==
  {q \in K \cup E : Lt(x, q) /\ DepthIn(O, K, q) = InnerIn(O, K, x)}

\* The first ELSE of the block behind a mark, if there is one.
LEMMA ElseIs ==
  ASSUME NEW O, NEW K, NEW M, NEW c, NEW g, AllClosed(O, K, M, c, g), NEW x \in M,
         NEW E, E \subseteq M, E \cap O = {}, NEW e \in E, g[e] = g[x], Lt(x, e),
         \A f \in E : g[f] = g[x] /\ Lt(x, f) => ~Lt(f, e)
  PROVE  FirstOf(ElsesOrCloses(O, K, E, x)) = e
<1>1. /\ O \subseteq PlaceType /\ K \subseteq PlaceType /\ M \subseteq PlaceType
      /\ g[x] \in O /\ (x = g[x] \/ Lt(g[x], x)) /\ Lt(e, c[g[e]])
      /\ \A o \in O : c[o] \in K
      /\ e \in M /\ e \notin O
  BY AllClosedFacts
<1>2. PICK o \in O : o = g[x]
  BY <1>1
<1>3. InnerIn(O, K, x) = Cardinality(OpenAt(O, c, o)) + 1
  BY <1>2, InnerMark
<1>4. DepthIn(O, K, e) = Cardinality(OpenAt(O, c, o)) + 1
  BY <1>1, <1>2, InnerMark
<1>5. PICK T : T = ElsesOrCloses(O, K, E, x)
  OBVIOUS
<1>6. e \in T /\ T \subseteq PlaceType
  BY <1>1, <1>2, <1>3, <1>4, <1>5 DEF ElsesOrCloses
<1>7. ASSUME NEW q \in T PROVE q = e \/ Lt(e, q)
  <2>1. q \in K \cup E /\ Lt(x, q) /\ DepthIn(O, K, q) = Cardinality(OpenAt(O, c, o)) + 1
    BY <1>3, <1>5 DEF ElsesOrCloses
  <2>2. o \in PlaceType /\ x \in PlaceType /\ q \in PlaceType /\ c[o] \in PlaceType
        /\ e \in PlaceType
    BY <1>1, <2>1
  <2>3. Lt(o, q)
    BY <1>1, <1>2, <2>1, <2>2, LtOrder
  <2>4. ASSUME Lt(q, e) PROVE FALSE
    <3>1. Lt(q, c[o])
      BY <1>1, <1>2, <2>2, <2>4, LtOrder
    <3>2. CASE q \in K
      BY <2>1, <2>3, <3>1, <3>2, DeeperClose
    <3>3. CASE q \in E
      <4>1. q \in M /\ q \notin O
        BY <3>3
      <4>2. g[q] = o
        BY <2>1, <2>3, <3>1, <4>1, ElseDepth
      <4> QED
        BY <1>2, <2>1, <2>4, <3>3, <4>2
    <3> QED
      BY <2>1, <3>2, <3>3
  <2> QED
    BY <2>2, <2>4, LtOrder
<1>8. FirstOf(T) = e
  BY <1>6, <1>7, FirstIs
<1> QED
  BY <1>5, <1>8

LEMMA NoElseIs ==
  ASSUME NEW O, NEW K, NEW M, NEW c, NEW g, AllClosed(O, K, M, c, g), NEW x \in M,
         NEW E, E \subseteq M, E \cap O = {},
         \A e \in E : g[e] = g[x] => ~Lt(x, e)
  PROVE  FirstOf(ElsesOrCloses(O, K, E, x)) = c[g[x]]
<1>1. /\ O \subseteq PlaceType /\ K \subseteq PlaceType /\ M \subseteq PlaceType
      /\ g[x] \in O /\ (x = g[x] \/ Lt(g[x], x)) /\ Lt(x, c[g[x]])
      /\ \A o \in O : c[o] \in K
  BY AllClosedFacts
<1>2. PICK o \in O : o = g[x]
  BY <1>1
<1>3. InnerIn(O, K, x) = Cardinality(OpenAt(O, c, o)) + 1
  BY <1>2, InnerMark
<1>4. DepthIn(O, K, c[o]) = Cardinality(OpenAt(O, c, o)) + 1
  BY DepthClose
<1>5. PICK T : T = ElsesOrCloses(O, K, E, x)
  OBVIOUS
<1>6. c[o] \in T /\ T \subseteq PlaceType
  BY <1>1, <1>2, <1>3, <1>4, <1>5 DEF ElsesOrCloses
<1>7. ASSUME NEW q \in T PROVE q = c[o] \/ Lt(c[o], q)
  <2>1. q \in K \cup E /\ Lt(x, q) /\ DepthIn(O, K, q) = Cardinality(OpenAt(O, c, o)) + 1
    BY <1>3, <1>5 DEF ElsesOrCloses
  <2>2. o \in PlaceType /\ x \in PlaceType /\ q \in PlaceType /\ c[o] \in PlaceType
    BY <1>1, <2>1
  <2>3. Lt(o, q)
    BY <1>1, <1>2, <2>1, <2>2, LtOrder
  <2>4. ASSUME Lt(q, c[o]) PROVE FALSE
    <3>2. CASE q \in K
      BY <2>1, <2>3, <2>4, <3>2, DeeperClose
    <3>3. CASE q \in E
      <4>1. q \in M /\ q \notin O
        BY <3>3
      <4>2. g[q] = o
        BY <2>1, <2>3, <2>4, <4>1, ElseDepth
      <4> QED
        BY <1>2, <2>1, <3>3, <4>2
    <3> QED
      BY <2>1, <3>2, <3>3
  <2> QED
    BY <2>2, <2>4, LtOrder
<1>8. FirstOf(T) = c[o]
  BY <1>6, <1>7, FirstIs
<1> QED
  BY <1>2, <1>5, <1>8

-----------------------------------------------------------------------------
(* The places of a program are finitely many, and control that is sent     *)
(* between two of them goes on at the next one.                            *)

LEMMA PlacesFinite ==
  ASSUME NEW cd \in Codes
  PROVE  IsFiniteSet(PlacesOf(cd))
<1>1. Len(cd) \in Nat /\ DOMAIN cd = 1 .. Len(cd)
  BY DEF Codes
<1>2. ASSUME NEW l \in DOMAIN cd PROVE IsFiniteSet({<<l, k>> : k \in DOMAIN cd[l]})
  <2>1. Len(cd[l]) \in Nat /\ DOMAIN cd[l] = 1 .. Len(cd[l])
    BY <1>1 DEF Codes
  <2>2. IsFiniteSet({l}) /\ IsFiniteSet(1 .. Len(cd[l]))
    <3>1. IsFiniteSet({l})
      BY FS_Singleton
    <3>2. IsFiniteSet(1 .. Len(cd[l]))
      BY <2>1, FS_Interval
    <3> QED
      BY <2>1, <3>1, <3>2
  <2>3. IsFiniteSet({l} \X (1 .. Len(cd[l])))
    BY <2>2, FS_Product
  <2>4. {<<l, k>> : k \in DOMAIN cd[l]} \in SUBSET ({l} \X (1 .. Len(cd[l])))
    BY <2>1
  <2> QED
    BY <2>3, <2>4, FS_Subset
<1>3. PICK R : R = {{<<l, k>> : k \in DOMAIN cd[l]} : l \in DOMAIN cd}
  OBVIOUS
<1>4. PICK f : f = [l \in DOMAIN cd |-> {<<l, k>> : k \in DOMAIN cd[l]}]
  OBVIOUS
<1>5. f \in Surjection(DOMAIN cd, R)
  <2>1. f \in [DOMAIN cd -> R]
    BY <1>3, <1>4
  <2>2. \A T \in R : \E l \in DOMAIN cd : f[l] = T
    BY <1>3, <1>4
  <2> QED
    BY <2>1, <2>2 DEF Surjection
<1>6. IsFiniteSet(R)
  <2>1. IsFiniteSet(DOMAIN cd)
    BY <1>1, FS_Interval
  <2> QED
    BY <1>5, <2>1, FS_Surjection
<1>7. \A T \in R : IsFiniteSet(T)
  BY <1>2, <1>3
<1>8. IsFiniteSet(UNION R)
  BY <1>6, <1>7, FS_UNION
<1> QED
  BY <1>3, <1>8 DEF PlacesOf

NormIn(cd, p) ==
  LET T == {q \in PlacesOf(cd) : ~Lt(q, p)} IN IF T = {} THEN <<Len(cd) + 1, 1>> ELSE FirstOf(T)

LEMMA NormPlace ==
  ASSUME NEW cd \in Codes, NEW x \in PlacesOf(cd)
  PROVE  NormIn(cd, x) = x
<1>1. PlacesOf(cd) \subseteq PlaceType
  BY PlaceFacts
<1>2. PICK T : T = {q \in PlacesOf(cd) : ~Lt(q, x)}
  OBVIOUS
<1>3. x \in T /\ T \subseteq PlaceType /\ x \in PlaceType
  BY <1>1, <1>2, LtOrder
<1>4. \A q \in T : q = x \/ Lt(x, q)
  BY <1>2, <1>3, LtOrder
<1>5. FirstOf(T) = x
  BY <1>3, <1>4, FirstIs
<1>6. T # {}
  BY <1>3
<1> QED
  BY <1>2, <1>5, <1>6 DEF NormIn

LEMMA NormLine ==
  ASSUME NEW cd \in Codes, NEW x \in PlacesOf(cd), Len(cd[x[1]]) = x[2]
  PROVE  NormIn(cd, <<x[1] + 1, 1>>) = NormIn(cd, <<x[1], x[2] + 1>>)
<1>1. x[1] \in 1 .. Len(cd) /\ Len(cd) \in Nat /\ x[2] \in 1 .. Len(cd[x[1]])
      /\ Len(cd[x[1]]) \in Nat
  BY PlaceFacts
<1>2. ASSUME NEW q \in PlacesOf(cd)
      PROVE  Lt(q, <<x[1] + 1, 1>>) <=> Lt(q, <<x[1], x[2] + 1>>)
  <2>1. /\ q[1] \in 1 .. Len(cd) /\ q[2] \in 1 .. Len(cd[q[1]]) /\ Len(cd[q[1]]) \in Nat
    BY PlaceFacts
  <2>2. PICK l, k, m, n : l = q[1] /\ k = q[2] /\ m = x[1] /\ n = x[2]
    OBVIOUS
  <2>3. l \in Nat /\ m \in Nat /\ k \in Nat /\ n \in Nat /\ k >= 1 /\ (l = m => k <= n)
    BY <1>1, <2>1, <2>2
  <2>4. Lt(q, <<x[1] + 1, 1>>) <=> l < m + 1 \/ (l = m + 1 /\ k < 1)
    BY <2>2 DEF Lt
  <2>5. Lt(q, <<x[1], x[2] + 1>>) <=> l < m \/ (l = m /\ k < n + 1)
    BY <2>2 DEF Lt
  <2> QED
    BY <2>3, <2>4, <2>5
<1>3. {q \in PlacesOf(cd) : ~Lt(q, <<x[1] + 1, 1>>)}
      = {q \in PlacesOf(cd) : ~Lt(q, <<x[1], x[2] + 1>>)}
  BY <1>2
<1> QED
  BY <1>3 DEF NormIn

\* Where a jump that lands on x leads.
LEMMA NormLands ==
  ASSUME NEW cd \in Codes, NEW W, NEW t, NEW x, Lands(cd, W, t, x)
  PROVE  NormIn(cd, <<t[1], t[2] + 1>>) = NormIn(cd, <<x[1], x[2] + 1>>)
<1>1. CASE t = x
  BY <1>1
<1>2. CASE t = <<x[1] + 1, 0>> /\ LastOn(cd, W, x)
  <2>1. t[1] = x[1] + 1 /\ t[2] + 1 = 1
    BY <1>2
  <2>2. x \in PlacesOf(cd) /\ Len(cd[x[1]]) = x[2]
    BY <1>2 DEF LastOn
  <2>3. NormIn(cd, <<x[1] + 1, 1>>) = NormIn(cd, <<x[1], x[2] + 1>>)
    BY <2>2, NormLine
  <2> QED
    BY <2>1, <2>3
<1> QED
  BY <1>1, <1>2 DEF Lands

\* RETURN and the end of its subroutine: there is no subroutine in another.
EndSubs(cd, K, p) == {q \in K : q \in PlacesOf(cd) /\ OpAt(cd, q).op = "endsub" /\ Lt(p, q)}

LEMMA SubIs ==
  ASSUME NEW cd, NEW O, O = Openers(cd), NEW K, NEW M, NEW c, NEW g, AllClosed(O, K, M, c, g),
         Typed(cd, c), NEW o \in O, OpAt(cd, o).op = "sub", NEW p \in PlaceType,
         Lt(o, p), Lt(p, c[o])
  PROVE  c[o] \in PlacesOf(cd) /\ FirstOf(EndSubs(cd, K, p)) = c[o]
<1>1. /\ O \subseteq PlaceType /\ K \subseteq PlaceType /\ DOMAIN c = O
      /\ \A r \in O : c[r] \in K /\ Lt(r, c[r])
      /\ \A q \in K : \E r \in O : c[r] = q
  BY AllClosedFacts DEF AllClosed
<1>2. \A r \in O : Pair(cd, r, c[r])
  BY <1>1 DEF Typed
<1>3. \A q, r \in O : OpAt(cd, q).op = "sub" /\ OpAt(cd, r).op = "sub" /\ Lt(q, r) => Lt(c[q], r)
  BY <1>1 DEF Typed
<1>4. c[o] \in PlacesOf(cd) /\ OpAt(cd, c[o]).op = "endsub"
  <2>1. Pair(cd, o, c[o])
    BY <1>2
  <2> QED
    BY <2>1 DEF Pair, LoopOps
<1>5. PICK T : T = EndSubs(cd, K, p)
  OBVIOUS
<1>6. c[o] \in T /\ T \subseteq PlaceType
  BY <1>1, <1>4, <1>5 DEF EndSubs
<1>7. ASSUME NEW q \in T PROVE q = c[o] \/ Lt(c[o], q)
  <2>1. q \in K /\ q \in PlacesOf(cd) /\ OpAt(cd, q).op = "endsub" /\ Lt(p, q)
    BY <1>5 DEF EndSubs
  <2>2. PICK r \in O : c[r] = q
    BY <1>1, <2>1
  <2>3. OpAt(cd, r).op = "sub"
    <3>1. Pair(cd, r, q)
      BY <1>2, <2>2
    <3> QED
      BY <2>1, <3>1 DEF Pair
  <2>4. o \in PlaceType /\ r \in PlaceType /\ q \in PlaceType /\ c[o] \in PlaceType /\ Lt(r, q)
    BY <1>1, <2>1, <2>2
  <2>5. CASE r = o
    BY <2>2, <2>5
  <2>6. CASE Lt(r, o)
    <3>1. Lt(q, o)
      BY <1>3, <2>2, <2>3, <2>6
    <3>2. Lt(q, p)
      BY <2>4, <3>1, LtOrder
    <3> QED
      BY <2>1, <2>4, <3>2, LtOrder
  <2>7. CASE Lt(o, r)
    <3>1. Lt(c[o], r)
      BY <1>3, <2>3, <2>7
    <3> QED
      BY <2>4, <3>1, LtOrder
  <2> QED
    BY <2>4, <2>5, <2>6, <2>7, LtOrder
<1>8. FirstOf(T) = c[o]
  BY <1>6, <1>7, FirstIs
<1> QED
  BY <1>4, <1>5, <1>8

-----------------------------------------------------------------------------
(* What Structured reads.                                                  *)

LEMMA ReadReal ==
  /\ S!Real = PlacesOf(code)
  /\ \A p : S!At(p) = OpAt(code, p)
  /\ \A p, q : S!Before(p, q) <=> Lt(p, q)
  /\ \A p : S!Opens(p) <=> IsOpener(OpAt(code, p))
  /\ \A p : S!ClosesAt(p) <=> IsCloser(OpAt(code, p))
  /\ \A p : S!Separates(p) <=> OpAt(code, p).op = "else"
  /\ S!Past = <<Len(code) + 1, 1>>
<1>1. S!Real = PlacesOf(code)
  BY DEF S!Real, PlacesOf
<1>2. \A p : S!At(p) = OpAt(code, p)
  BY DEF S!At, OpAt
<1>3. \A p, q : S!Before(p, q) <=> Lt(p, q)
  BY DEF S!Before, Lt
<1>4. \A p : S!Opens(p) <=> IsOpener(OpAt(code, p))
  BY <1>2 DEF S!Opens, IsOpener
<1>5. \A p : S!ClosesAt(p) <=> IsCloser(OpAt(code, p))
  BY <1>2 DEF S!ClosesAt, IsCloser
<1>6. \A p : S!Separates(p) <=> OpAt(code, p).op = "else"
  BY <1>2 DEF S!Separates
<1> QED
  BY <1>1, <1>2, <1>3, <1>4, <1>5, <1>6 DEF S!Past

LEMMA ReadFirst == ASSUME NEW T PROVE S!First(T) = FirstOf(T)
  BY DEF S!First, FirstOf, S!Before, Lt

LEMMA ReadNorm ==
  /\ \A p : S!Norm(p) = NormIn(code, p)
  /\ \A p : S!After(p) = NormIn(code, <<p[1], p[2] + 1>>)
<1>1. ASSUME NEW p PROVE S!Norm(p) = NormIn(code, p)
  <2>1. PICK T : T = {q \in PlacesOf(code) : ~Lt(q, p)}
    OBVIOUS
  <2>2. {q \in S!Real : ~S!Before(q, p)} = T
    BY <2>1, ReadReal
  <2>3. S!Norm(p) = IF T = {} THEN S!Past ELSE S!First(T)
    BY <2>2 DEF S!Norm
  <2>4. NormIn(code, p) = IF T = {} THEN <<Len(code) + 1, 1>> ELSE FirstOf(T)
    BY <2>1 DEF NormIn
  <2> QED
    BY <2>3, <2>4, ReadReal, ReadFirst
<1> QED
  BY <1>1 DEF S!After

LEMMA ReadClosers == S!Closers = ClosersOf(code, <<>>)
<1>1. S!Implied = ImpliedIn(code)
  BY DEF S!Implied, ImpliedIn, S!OneLine, OneLineIn, S!Starts, StartsIn, S!Opens, IsOpener, S!At
<1>2. Held(code, <<>>) = {}
  BY DEF Held, ElseNext
<1>3. {p \in S!Real : S!ClosesAt(p)} = RealClosers(code)
  BY ReadReal DEF RealClosers
<1> QED
  BY <1>1, <1>2, <1>3 DEF S!Closers, ClosersOf

LEMMA ReadCardinality == ASSUME NEW T PROVE S!Cardinality(T) = Cardinality(T)
  BY DEF S!Cardinality, Cardinality

LEMMA ReadDepth ==
  /\ \A p : S!Depth(p) = DepthIn(Openers(code), ClosersOf(code, <<>>), p)
  /\ \A p \in PlacesOf(code) : S!Inner(p) = InnerIn(Openers(code), ClosersOf(code, <<>>), p)
<1>1. ASSUME NEW p PROVE S!Depth(p) = DepthIn(Openers(code), ClosersOf(code, <<>>), p)
  <2>1. {q \in S!Real : S!Opens(q) /\ S!Before(q, p)} = {q \in Openers(code) : Lt(q, p)}
    BY ReadReal DEF Openers
  <2>2. {q \in S!Closers : S!Before(q, p)} = {q \in ClosersOf(code, <<>>) : Lt(q, p)}
    BY ReadReal, ReadClosers
  <2>3. PICK A, B : /\ A = {q \in Openers(code) : Lt(q, p)}
                    /\ B = {q \in ClosersOf(code, <<>>) : Lt(q, p)}
    OBVIOUS
  <2>4. S!Depth(p) = Cardinality(A) - Cardinality(B)
    BY <2>1, <2>2, <2>3, ReadCardinality DEF S!Depth
  <2> QED
    BY <2>3, <2>4 DEF DepthIn
<1>2. ASSUME NEW p \in PlacesOf(code)
      PROVE  S!Inner(p) = InnerIn(Openers(code), ClosersOf(code, <<>>), p)
  <2>1. S!Opens(p) <=> p \in Openers(code)
    BY ReadReal DEF Openers
  <2> QED
    BY <1>1, <2>1 DEF S!Inner, InnerIn
<1> QED
  BY <1>1, <1>2

-----------------------------------------------------------------------------
(* Once all blocks are ended, what the parser has put together is what the *)
(* depths give.                                                            *)

Closings(cd) == ClosersOf(cd, <<>>)
Closed(cd, c, g) == AllClosed(Openers(cd), Closings(cd), Marks(cd), c, g) /\ Typed(cd, c)
Jumps(cd, jp, c, g) == \A p \in DOMAIN jp : p \in PlacesOf(cd) /\ Done(cd, {}, jp, c, g, p)

LEMMA RunClosed ==
  ASSUME NEW cd \in Codes, NEW jp, NEW c, NEW g, Fits(cd, <<>>, {}, <<>>, jp, c, g)
  PROVE  Closed(cd, c, g) /\ Jumps(cd, jp, c, g)
<1>1. Nested(Openers(cd), Closings(cd), Marks(cd), c, g) /\ Typed(cd, c)
  BY DEF Fits, Closings
<1>2. 1 .. Len(<<>>) = {}
  OBVIOUS
<1>3. DOMAIN c = Openers(cd)
  <2>1. \A o \in Openers(cd) \ DOMAIN c : FALSE
    BY <1>2 DEF Fits, Stacked, Ranked
  <2> QED
    BY <1>1, <2>1 DEF Nested
<1>4. IsFiniteSet(Openers(cd))
  <2>1. Openers(cd) \in SUBSET PlacesOf(cd)
    BY DEF Openers
  <2> QED
    BY <2>1, PlacesFinite, FS_Subset
<1>5. /\ Marks(cd) \subseteq PlacesOf(cd) /\ PlacesOf(cd) \subseteq PlaceType
      /\ Closings(cd) \subseteq PlaceType
  BY PlaceFacts, ClosersPlaces DEF Marks, Openers, Elses, Ifs, Closings
<1>6. Marks(cd) \cap Closings(cd) = {}
  <2> SUFFICES ASSUME NEW x \in Marks(cd), x \in Closings(cd) PROVE FALSE
    OBVIOUS
  <2>1. x \in PlacesOf(cd)
    BY <1>5
  <2>2. IsOpener(OpAt(cd, x)) \/ OpAt(cd, x).op = "else" \/ OpAt(cd, x).op = "if"
    BY DEF Marks, Openers, Elses, Ifs
  <2>3. ~IsCloser(OpAt(cd, x))
    BY <2>2 DEF IsOpener, IsCloser
  <2>4. x \in ImpliedIn(cd)
    BY <2>3 DEF Closings, ClosersOf, RealClosers
  <2>5. x[2] = 0
    BY <2>4 DEF ImpliedIn
  <2> QED
    BY <2>1, <2>5, PlaceFacts
<1>7. Closed(cd, c, g)
  BY <1>1, <1>3, <1>4, <1>5, <1>6 DEF Closed, AllClosed
<1>8. Targeted(cd, {}, <<>>, jp, c, g)
  BY DEF Fits
<1>9. Jumps(cd, jp, c, g)
  BY <1>2, <1>8 DEF Targeted, Jumps
<1> QED
  BY <1>7, <1>9

LEMMA ReadClose ==
  ASSUME NEW c, NEW g, Closed(code, c, g), NEW x \in Marks(code)
  PROVE  S!CloseOf(x) = c[g[x]] /\ S!Behind(x) = NormIn(code, <<c[g[x]][1], c[g[x]][2] + 1>>)
<1>1. x \in PlacesOf(code)
  BY DEF Marks, Openers, Elses, Ifs
<1>2. PICK T : T = {q \in Closings(code) : /\ Lt(x, q)
                       /\ DepthIn(Openers(code), Closings(code), q)
                          = InnerIn(Openers(code), Closings(code), x)}
  OBVIOUS
<1>3. {q \in S!Closers : S!Before(x, q) /\ S!Depth(q) = S!Inner(x)} = T
  BY <1>1, <1>2, ReadReal, ReadClosers, ReadDepth DEF Closings
<1>4. FirstOf(T) = c[g[x]]
  BY <1>2, CloseIs DEF Closed
<1>5. S!CloseOf(x) = c[g[x]]
  BY <1>3, <1>4, ReadFirst DEF S!CloseOf
<1> QED
  BY <1>5, ReadNorm DEF S!Behind

LEMMA ReadElse ==
  ASSUME NEW p \in PlacesOf(code)
  PROVE  S!ElseOrClose(p) = FirstOf(ElsesOrCloses(Openers(code), Closings(code), Elses(code), p))
<1>1. {r \in S!Real : S!Separates(r)} = Elses(code)
  BY ReadReal DEF Elses
<1>2. PICK T : T = ElsesOrCloses(Openers(code), Closings(code), Elses(code), p)
  OBVIOUS
<1>3. {q \in S!Closers \cup {r \in S!Real : S!Separates(r)} :
          S!Before(p, q) /\ S!Depth(q) = S!Inner(p)} = T
  BY <1>1, <1>2, ReadReal, ReadClosers, ReadDepth DEF Closings, ElsesOrCloses
<1> QED
  BY <1>2, <1>3, ReadFirst DEF S!ElseOrClose

LEMMA ElsesMarks ==
  ASSUME NEW cd
  PROVE  Elses(cd) \subseteq Marks(cd) /\ Elses(cd) \cap Openers(cd) = {}
  BY DEF Elses, Marks, Openers, IsOpener

LEMMA IfLeads ==
  ASSUME TypeOK, NEW c, NEW g, Closed(code, c, g), NEW p \in PlacesOf(code),
         OpAt(code, p).op = "if", IfDone(code, {}, jump, c, g, p)
  PROVE  S!Norm(<<jump[p][1], jump[p][2] + 1>>) = S!IfFalse(p)
<1>1. p \in Marks(code) /\ code \in Codes
  BY DEF Marks, Ifs, TypeOK, Codes
<1>2. AllClosed(Openers(code), Closings(code), Marks(code), c, g)
  BY DEF Closed
<1>3. PICK x : x = FirstOf(ElsesOrCloses(Openers(code), Closings(code), Elses(code), p))
  OBVIOUS
<1>4. S!IfFalse(p) = NormIn(code, <<x[1], x[2] + 1>>)
  BY <1>3, ReadElse, ReadNorm DEF S!IfFalse
<1>5. Lands(code, {}, jump[p], x)
  <2>1. CASE \E e \in Elses(code) :
               /\ g[e] = g[p] /\ Lt(p, e) /\ Lands(code, {}, jump[p], e)
               /\ \A f \in Elses(code) : g[f] = g[p] /\ Lt(p, f) => ~Lt(f, e)
    <3>1. PICK e \in Elses(code) :
               /\ g[e] = g[p] /\ Lt(p, e) /\ Lands(code, {}, jump[p], e)
               /\ \A f \in Elses(code) : g[f] = g[p] /\ Lt(p, f) => ~Lt(f, e)
      BY <2>1
    <3>2. FirstOf(ElsesOrCloses(Openers(code), Closings(code), Elses(code), p)) = e
      BY <1>1, <1>2, <3>1, ElsesMarks, ElseIs
    <3> QED
      BY <1>3, <3>1, <3>2
  <2>2. CASE /\ g[p] \in DOMAIN c /\ Lands(code, {}, jump[p], c[g[p]])
             /\ \A e \in Elses(code) : g[e] = g[p] => ~Lt(p, e)
    <3>1. FirstOf(ElsesOrCloses(Openers(code), Closings(code), Elses(code), p)) = c[g[p]]
      BY <1>1, <1>2, <2>2, ElsesMarks, NoElseIs
    <3> QED
      BY <1>3, <2>2, <3>1
  <2> QED
    BY <2>1, <2>2 DEF IfDone
<1>6. NormIn(code, <<jump[p][1], jump[p][2] + 1>>) = NormIn(code, <<x[1], x[2] + 1>>)
  BY <1>1, <1>5, NormLands
<1> QED
  BY <1>4, <1>6, ReadNorm

LEMMA ElseLeads ==
  ASSUME TypeOK, NEW c, NEW g, Closed(code, c, g), NEW p \in PlacesOf(code),
         OpAt(code, p).op = "else", ElseDone(code, {}, jump, c, g, p)
  PROVE  S!Norm(<<jump[p][1], jump[p][2] + 1>>) = S!Behind(p)
<1>1. p \in Marks(code) /\ code \in Codes
  BY DEF Marks, Elses, TypeOK, Codes
<1>2. Lands(code, {}, jump[p], c[g[p]])
  BY DEF ElseDone
<1>3. PICK x : x = c[g[p]]
  OBVIOUS
<1>4. S!Behind(p) = NormIn(code, <<x[1], x[2] + 1>>)
  BY <1>1, <1>3, ReadClose
<1>5. NormIn(code, <<jump[p][1], jump[p][2] + 1>>) = NormIn(code, <<x[1], x[2] + 1>>)
  BY <1>1, <1>2, <1>3, NormLands
<1> QED
  BY <1>4, <1>5, ReadNorm

LEMMA LoopLeads ==
  ASSUME TypeOK, NEW c, NEW g, Closed(code, c, g), NEW p \in PlacesOf(code),
         OpAt(code, p).op \in LoopOps, LoopDone(code, {}, jump, c, p)
  PROVE  S!Norm(<<jump[p][1] + 1, 1>>) = S!Behind(p)
<1>1. p \in Openers(code) /\ p \in Marks(code) /\ code \in Codes
  BY DEF Marks, Openers, IsOpener, LoopOps, TypeOK, Codes
<1>2. g[p] = p
  BY <1>1, AllClosedFacts DEF Closed
<1>3. PICK x : x = c[p]
  OBVIOUS
<1>4. S!Behind(p) = NormIn(code, <<x[1], x[2] + 1>>)
  BY <1>1, <1>2, <1>3, ReadClose
<1>5. jump[p][1] = x[1] /\ x \in PlacesOf(code) /\ Len(code[x[1]]) = x[2]
  BY <1>3 DEF LoopDone, LastOn
<1>6. NormIn(code, <<x[1] + 1, 1>>) = NormIn(code, <<x[1], x[2] + 1>>)
  BY <1>1, <1>5, NormLine
<1> QED
  BY <1>4, <1>5, <1>6, ReadNorm

LEMMA NextLeads ==
  ASSUME TypeOK, NEW c, NEW g, Closed(code, c, g), NEW p \in PlacesOf(code), NextDone(jump, c, p)
  PROVE  S!Norm(<<jump[p][1], jump[p][2] + 1>>) = S!OpenOf(p)
<1>1. PICK o \in DOMAIN c : c[o] = p /\ o = <<jump[p][1], jump[p][2] + 1>>
  BY DEF NextDone
<1>2. /\ DOMAIN c = Openers(code) /\ Openers(code) \subseteq Marks(code)
      /\ Openers(code) \subseteq PlacesOf(code) /\ code \in Codes
  BY DEF Closed, AllClosed, Marks, Openers, TypeOK, Codes
<1>3. /\ \A q \in Openers(code) : Lt(q, c[q]) /\ g[q] = q
      /\ \A q, r \in Openers(code) : c[q] = c[r] => q = r
  BY AllClosedFacts DEF Closed
<1>4. ASSUME NEW q \in Openers(code) PROVE S!CloseOf(q) = c[q]
  <2>1. q \in Marks(code) /\ g[q] = q
    BY <1>2, <1>3
  <2>2. S!CloseOf(q) = c[g[q]]
    BY <2>1, ReadClose
  <2> QED
    BY <2>1, <2>2
<1>5. \A q : q \in S!Real /\ S!Opens(q) <=> q \in Openers(code)
  BY ReadReal DEF Openers
<1>6. \A q \in S!Real : S!Opens(q) /\ S!Before(q, p) /\ S!CloseOf(q) = p <=> q = o
  BY <1>1, <1>2, <1>3, <1>4, <1>5, ReadReal
<1>7. o \in S!Real
  BY <1>1, <1>2, ReadReal
<1>8. S!OpenOf(p) = o
  BY <1>6, <1>7 DEF S!OpenOf
<1>9. NormIn(code, o) = o
  BY <1>1, <1>2, NormPlace
<1> QED
  BY <1>1, <1>8, <1>9, ReadNorm

LEMMA ReturnLeads ==
  ASSUME TypeOK, NEW c, NEW g, Closed(code, c, g), NEW p \in PlacesOf(code),
         ReturnDone(code, jump, c, p)
  PROVE  S!Norm(<<jump[p][1], 1>>) = S!SubOf(p)
<1>1. PICK o \in DOMAIN c : /\ OpAt(code, o).op = "sub" /\ Lt(o, p) /\ Lt(p, c[o])
                            /\ c[o] = <<jump[p][1], 1>>
  BY DEF ReturnDone
<1>2. /\ o \in Openers(code) /\ p \in PlaceType /\ code \in Codes
      /\ AllClosed(Openers(code), Closings(code), Marks(code), c, g) /\ Typed(code, c)
  BY PlaceFacts DEF Closed, AllClosed, TypeOK, Codes
<1>3. c[o] \in PlacesOf(code) /\ FirstOf(EndSubs(code, Closings(code), p)) = c[o]
  BY <1>1, <1>2, SubIs
<1>4. PICK T : T = EndSubs(code, Closings(code), p)
  OBVIOUS
<1>5. {q \in S!Closers : q \in S!Real /\ S!At(q).op = "endsub" /\ S!Before(p, q)} = T
  BY <1>4, ReadReal, ReadClosers DEF Closings, EndSubs
<1>6. S!SubOf(p) = c[o]
  BY <1>3, <1>4, <1>5, ReadFirst DEF S!SubOf
<1>7. NormIn(code, c[o]) = c[o]
  BY <1>2, <1>3, NormPlace
<1> QED
  BY <1>1, <1>6, <1>7, ReadNorm

LEMMA JumpsRead ==
  ASSUME TypeOK, NEW c, NEW g, Closed(code, c, g), Jumps(code, jump, c, g)
  PROVE  JumpsNest
<1> SUFFICES ASSUME NEW p \in DOMAIN jump
             PROVE  LET t == jump[p]
                        o == S!At(p).op
                    IN  CASE o = "if" -> S!Norm(<<t[1], t[2] + 1>>) = S!IfFalse(p)
                          [] o = "else" -> S!Norm(<<t[1], t[2] + 1>>) = S!Behind(p)
                          [] o \in {"for", "while", "until"} -> S!Norm(<<t[1] + 1, 1>>) = S!Behind(p)
                          [] o = "next" -> S!Norm(<<t[1], t[2] + 1>>) = S!OpenOf(p)
                          [] o = "return" -> S!Norm(<<t[1], 1>>) = S!SubOf(p)
  BY DEF JumpsNest
<1>1. p \in PlacesOf(code) /\ Done(code, {}, jump, c, g, p)
  BY DEF Jumps
<1>2. PICK o : o = S!At(p).op
  OBVIOUS
<1>3. OpAt(code, p).op = o
  BY <1>2, ReadReal
<1>4. CASE o = "if" /\ IfDone(code, {}, jump, c, g, p)
  <2>1. S!Norm(<<jump[p][1], jump[p][2] + 1>>) = S!IfFalse(p)
    BY <1>1, <1>3, <1>4, IfLeads
  <2> QED
    BY <1>2, <1>4, <2>1
<1>5. CASE o = "else" /\ ElseDone(code, {}, jump, c, g, p)
  <2>1. S!Norm(<<jump[p][1], jump[p][2] + 1>>) = S!Behind(p)
    BY <1>1, <1>3, <1>5, ElseLeads
  <2> QED
    BY <1>2, <1>5, <2>1
<1>6. CASE o \in LoopOps /\ LoopDone(code, {}, jump, c, p)
  <2>1. S!Norm(<<jump[p][1] + 1, 1>>) = S!Behind(p)
    BY <1>1, <1>3, <1>6, LoopLeads
  <2> QED
    BY <1>2, <1>6, <2>1 DEF LoopOps
<1>7. CASE o = "next" /\ NextDone(jump, c, p)
  <2>1. S!Norm(<<jump[p][1], jump[p][2] + 1>>) = S!OpenOf(p)
    BY <1>1, <1>7, NextLeads
  <2> QED
    BY <1>2, <1>7, <2>1
<1>8. CASE o = "return" /\ ReturnDone(code, jump, c, p)
  <2>1. S!Norm(<<jump[p][1], 1>>) = S!SubOf(p)
    BY <1>1, <1>8, ReturnLeads
  <2> QED
    BY <1>2, <1>8, <2>1
<1> QED
  BY <1>1, <1>3, <1>4, <1>5, <1>6, <1>7, <1>8 DEF Done

LEMMA ClosesRead ==
  ASSUME TypeOK, NEW c, NEW g, Closed(code, c, g)
  PROVE  WellNested
<1>1. /\ DOMAIN c = Openers(code) /\ Openers(code) \subseteq Marks(code)
      /\ Openers(code) \subseteq PlacesOf(code) /\ code \in Codes
  BY DEF Closed, AllClosed, Marks, Openers, TypeOK, Codes
<1>2. /\ \A q \in Openers(code) : Lt(q, c[q]) /\ g[q] = q /\ c[q] \in Closings(code)
      /\ \A k \in Closings(code) : \E o \in Openers(code) : c[o] = k
      /\ Closings(code) \subseteq PlaceType /\ Openers(code) \subseteq PlaceType
  BY AllClosedFacts DEF Closed
<1>3. ASSUME NEW q \in S!Real, S!ClosesAt(q)
      PROVE  \E p \in S!Real :
               /\ S!Opens(p) /\ S!Before(p, q) /\ S!CloseOf(p) = q
               /\ CASE S!At(q).op = "endif" -> S!At(p).op = "if"
                    [] S!At(q).op = "endsub" -> S!At(p).op = "sub"
                    [] S!At(q).op = "end" -> S!At(p).op = "begin"
                    [] S!At(q).op = "next" ->
                         /\ S!At(p).op \in {"for", "while", "until"}
                         /\ S!At(p).op = "for" => S!At(p).v = S!At(q).v
  <2>1. q \in PlacesOf(code) /\ IsCloser(OpAt(code, q)) /\ q \in Closings(code)
    BY <1>3, ReadReal DEF Closings, ClosersOf, RealClosers
  <2>2. PICK p \in Openers(code) : c[p] = q
    BY <1>2, <2>1
  <2>3. p \in S!Real /\ S!Opens(p) /\ S!Before(p, q)
    BY <1>2, <2>2, ReadReal DEF Openers
  <2>4. S!CloseOf(p) = q
    <3>1. p \in Marks(code) /\ c[g[p]] = q
      BY <1>1, <1>2, <2>2
    <3>2. S!CloseOf(p) = c[g[p]]
      BY <3>1, ReadClose
    <3> QED
      BY <3>1, <3>2
  <2>5. Pair(code, p, q)
    BY <1>1, <2>2 DEF Closed, Typed
  <2>6. S!At(p) = OpAt(code, p) /\ S!At(q) = OpAt(code, q)
    BY ReadReal
  <2>7. (CASE S!At(q).op = "endif" -> S!At(p).op = "if"
          [] S!At(q).op = "endsub" -> S!At(p).op = "sub"
          [] S!At(q).op = "end" -> S!At(p).op = "begin"
          [] S!At(q).op = "next" ->
               /\ S!At(p).op \in {"for", "while", "until"}
               /\ S!At(p).op = "for" => S!At(p).v = S!At(q).v)
    BY <2>1, <2>5, <2>6 DEF Pair, IsCloser, LoopOps
  <2> QED
    BY <2>3, <2>4, <2>7
<1>4. S!Depth(S!Past) = 0
  <2>1. PICK x : x = <<Len(code) + 1, 1>>
    OBVIOUS
  <2>2. x \in PlaceType /\ x[1] = Len(code) + 1 /\ x[2] = 1 /\ Len(code) \in Nat
    BY <1>1, <2>1, PlaceFacts DEF PlaceType
  <2>3. \A k \in Closings(code) : Lt(k, x)
    <3>1. \A k \in Closings(code) : k[1] \in 1 .. Len(code)
      BY <1>1, ClosersPlaces DEF Closings
    <3> QED
      BY <2>2, <3>1 DEF Lt
  <2>4. OpenAt(Openers(code), c, x) = {}
    BY <1>2, <2>3 DEF OpenAt
  <2>5. DepthIn(Openers(code), Closings(code), x) = Cardinality(OpenAt(Openers(code), c, x))
    BY <2>2, DepthIs DEF Closed
  <2> QED
    BY <2>1, <2>4, <2>5, FS_EmptySet, ReadReal, ReadDepth DEF Closings
<1> QED
  BY <1>3, <1>4 DEF WellNested

LEMMA NestingRead ==
  ASSUME TypeOK, Nesting
  PROVE  WellNested /\ JumpsNest
<1>1. CASE phase = "run"
  <2>1. Growing = {} /\ line = <<>> /\ blocks = <<>> /\ ~errors /\ code \in Codes
    BY <1>1 DEF Nesting, Growing, TypeOK, Codes
  <2>2. \E c, g : Fits(code, <<>>, {}, <<>>, jump, c, g)
    BY <1>1, <2>1 DEF Nesting
  <2>3. PICK c, g : Fits(code, <<>>, {}, <<>>, jump, c, g)
    BY <2>2
  <2>4. Closed(code, c, g) /\ Jumps(code, jump, c, g)
    BY <2>1, <2>3, RunClosed
  <2> QED
    BY <2>4, ClosesRead, JumpsRead
<1>2. CASE phase # "run"
  BY <1>2 DEF WellNested, JumpsNest
<1> QED
  BY <1>1, <1>2

\* Running a program leaves what is compiled alone.
LEMMA ExecuteStep ==
  ASSUME TypeOK, Owned, Nesting, Execute
  PROVE  TypeOK' /\ Owned' /\ Nesting'
<1>1. CASE UNCHANGED vars
  <2>1. TypeOK' /\ Owned'
    BY <1>1, TypeStep, OwnedStep
  <2> QED
    BY <1>1, <2>1, NestingStep
<1>2. CASE phase = "run" /\ Stop
  <2>1. phase' = "done" /\ UNCHANGED <<source, parseVars, mode, errors, passes>>
    BY <1>2 DEF Stop
  <2>2. TypeOK'
    BY <2>1 DEF TypeOK, parseVars
  <2>3. Owned'
    BY <1>2, <2>1 DEF Owned, parseVars
  <2>4. Nesting'
    BY <2>1, NestingSame DEF parseVars
  <2> QED
    BY <2>2, <2>3, <2>4
<1>3. UNCHANGED vars \/ (phase = "run" /\ Stop)
  BY DEF Execute, Ordinary, Assign, IfTrue, IfFalse, ElseOp, ForOp, WhileOp, NextOp, SubOp,
     ReturnOp, CallOp, CallInExpression, EndOfLine, ReturnFromSub, ProgramEnd, RunError, Exec,
     OnOpcode
<1> QED
  BY <1>1, <1>2, <1>3

RunIInv == TypeOK /\ Owned /\ Nesting

LEMMA RunIInvStep == RunIInv /\ [RunNext]_allVars => RunIInv'
<1> SUFFICES ASSUME RunIInv, [RunNext]_allVars PROVE RunIInv'
  OBVIOUS
<1>1. CASE Execute
  BY <1>1, ExecuteStep DEF RunIInv
<1>2. CASE [Next]_vars
  BY <1>2, TypeStep, OwnedStep, NestingStep DEF RunIInv
<1>3. Execute \/ [Next]_vars
  BY DEF RunNext, RunAgain, Next, allVars
<1> QED
  BY <1>1, <1>2, <1>3

LEMMA RunIInvInit == RunInit => RunIInv
BY InitType, InitOwned, BeginNesting DEF RunInit, Init, RunIInv

\* For every set of sources, whatever their length and however deep their
\* blocks: a program check_block_type and check_block_unterminated let run is
\* properly nested. Every ENDIF, ENDSUB, END and NEXT ends a block of its own
\* kind, the one that nesting depth alone gives, and no block is left open.
THEOREM BlocksNest == RunSpec => []WellNested
<1>1. RunIInv => WellNested
  BY NestingRead DEF RunIInv
<1> QED
  BY <1>1, RunIInvInit, RunIInvStep, PTL DEF RunSpec

\* For every set of sources: the line numbers that do_endif,
\* add_else_block_update, do_endsub and the case of NEXT patch into the pcode of
\* IF, ELSE, FOR, WHILE, UNTIL, NEXT and RETURN lead a program that runs to the
\* very command that nesting depth alone gives: behind the ELSE or the block,
\* back to its opening command, to the start of the subroutine.
THEOREM JumpsLead == RunSpec => []JumpsNest
<1>1. RunIInv => JumpsNest
  BY NestingRead DEF RunIInv
<1> QED
  BY <1>1, RunIInvInit, RunIInvStep, PTL DEF RunSpec

-----------------------------------------------------------------------------
(* How the commands lie on the lines.                                      *)

Alone == {"while", "until", "next", "sub", "endsub"}
Jumping == {"if", "else", "for", "while", "until", "next", "return"}

\* An opcode at its place, and a command still to be compiled.
TameOp(src, a) ==
  /\ a.op \in {"for", "assign"} => HasFor(src) /\ a.v \in Vars
  /\ a.op \in LoopOps /\ HasFor(src) => ~a.f
Lying(cd, ln, sg, jp, src, p) ==
  /\ OpAt(cd, p).op \in Alone => p[2] = 1 /\ Len(cd[p[1]]) = 1 /\ (p[1] = Len(cd) => sg)
  /\ OpAt(cd, p).op \in {"for", "return"} => Len(cd[p[1]]) = p[2] /\ (p[1] = Len(cd) => ln = <<>>)
  /\ OpAt(cd, p).op \in Jumping => p \in DOMAIN jp
  /\ TameOp(src, OpAt(cd, p))
  /\ OpAt(cd, p).op = "call" \/ OpAt(cd, p).f => \E q \in PlacesOf(cd) : OpAt(cd, q).op = "sub"
Coming(src, ln, i) ==
  /\ ln[i].k = "for" => HasFor(src) /\ ln[i].v \in Vars /\ i = Len(ln)
  /\ ln[i].k \in LoopOps /\ HasFor(src) => ~ln[i].f

\* The subroutine that is known is the one there is.
SubLies(cd, ln, sg, sb) ==
  /\ sb = NoSub => \A p \in PlacesOf(cd) : OpAt(cd, p).op # "endsub"
  /\ sb # NoSub => /\ <<sb.start, 1>> \in PlacesOf(cd) /\ OpAt(cd, <<sb.start, 1>>).op = "sub"
                   /\ <<sb.end, 1>> \in PlacesOf(cd) /\ OpAt(cd, <<sb.end, 1>>).op = "endsub"
  /\ \A p, q \in PlacesOf(cd) : OpAt(cd, p).op = "sub" /\ OpAt(cd, q).op = "sub" => p = q
  /\ \A i \in 1 .. Len(ln) : ln[i].k = "sub" => sb = NoSub \/ sg
Rooted(bs) == \A i \in 1 .. Len(bs) : bs[i].slot[1] = bs[i].first

Laid(cd, ln, sg, jp, sb, src, bs) ==
  /\ \A p \in PlacesOf(cd) : Lying(cd, ln, sg, jp, src, p)
  /\ \A i \in 1 .. Len(ln) : Coming(src, ln, i)
  /\ SubLies(cd, ln, sg, sb)
  /\ Rooted(bs)
LaidOut ==
  phase \in {"parse", "run"} /\ ~errors => Laid(code, line, single, jump, sub, source, blocks)

\* The places of a program that has grown by some opcodes.
LEMMA AddsPlaces ==
  ASSUME NEW cd, NEW ops, NEW cd2, Adds(cd, ops, cd2)
  PROVE  /\ cd2 \in Codes /\ Len(cd2) = Len(cd) /\ Len(cd) \in Nat \ {0}
         /\ \A l \in 1 .. Len(cd) : l # Len(cd) => cd2[l] = cd[l]
         /\ Len(cd2[Len(cd)]) = Len(cd[Len(cd)]) + Len(ops)
         /\ Len(cd[Len(cd)]) \in Nat
         /\ PlacesOf(cd) \subseteq PlacesOf(cd2)
         /\ \A p \in PlacesOf(cd) : OpAt(cd2, p) = OpAt(cd, p)
         /\ \A p \in PlacesOf(cd2) \ PlacesOf(cd) :
              \E i \in 1 .. Len(ops) : /\ p = <<Len(cd), Len(cd[Len(cd)]) + i>>
                                       /\ OpAt(cd2, p) = ops[i]
         /\ \A i \in 1 .. Len(ops) : /\ <<Len(cd), Len(cd[Len(cd)]) + i>> \in PlacesOf(cd2)
                                     /\ OpAt(cd2, <<Len(cd), Len(cd[Len(cd)]) + i>>) = ops[i]
<1> DEFINE n == Len(cd)
<1> DEFINE l == cd[n]
<1> DEFINE l2 == cd2[n]
<1>1. /\ cd \in Codes /\ cd # <<>> /\ ops \in Seq(OpcodeRecords) /\ ops # <<>>
      /\ cd2 = [cd EXCEPT ![n] = @ \o ops]
  BY DEF Adds
<1>2. n \in Nat \ {0} /\ n \in DOMAIN cd /\ l \in Seq(OpcodeRecords) /\ DOMAIN cd = 1 .. n
  BY <1>1 DEF Codes
<1>3. l2 = l \o ops
  <2>1. cd2 = [cd EXCEPT ![n] = @ \o ops]
    BY <1>1
  <2>2. n \in DOMAIN cd
    BY <1>2
  <2> HIDE DEF n
  <2> QED
    BY <2>1, <2>2
<1>4. \A k \in 1 .. n : k # n => cd2[k] = cd[k]
  <2>1. cd2 = [cd EXCEPT ![n] = @ \o ops] /\ DOMAIN cd = 1 .. n
    BY <1>1, <1>2
  <2> HIDE DEF n
  <2> QED
    BY <2>1
<1>5. cd2 \in Codes /\ Len(cd2) = n
  <2>1. l \o ops \in Seq(OpcodeRecords)
    BY <1>1, <1>2
  <2> QED
    BY <1>1, <1>2, <2>1 DEF Codes
<1> HIDE DEF n, l, l2
<1>6. /\ Len(l) \in Nat /\ Len(ops) \in Nat /\ Len(l2) = Len(l) + Len(ops)
      /\ \A i \in 1 .. Len(l) : l2[i] = l[i]
      /\ \A i \in 1 .. Len(ops) : l2[Len(l) + i] = ops[i]
  BY <1>1, <1>2, <1>3
<1>7. \A p : p \in PlacesOf(cd) <=>
               p = <<p[1], p[2]>> /\ p[1] \in 1 .. n /\ p[2] \in 1 .. Len(cd[p[1]])
  BY <1>1, PlaceFacts DEF n
<1>8. \A p : p \in PlacesOf(cd2) <=>
               p = <<p[1], p[2]>> /\ p[1] \in 1 .. n /\ p[2] \in 1 .. Len(cd2[p[1]])
  BY <1>5, PlaceFacts DEF n
<1>9. ASSUME NEW p \in PlacesOf(cd) PROVE p \in PlacesOf(cd2) /\ OpAt(cd2, p) = OpAt(cd, p)
  <2>1. p = <<p[1], p[2]>> /\ p[1] \in 1 .. n /\ p[2] \in 1 .. Len(cd[p[1]])
    BY <1>7
  <2>2. CASE p[1] = n
    <3>1. p[2] \in 1 .. Len(l) /\ p[2] \in 1 .. Len(l2) /\ l2[p[2]] = l[p[2]]
      BY <1>6, <2>1, <2>2 DEF l
    <3>2. p \in PlacesOf(cd2)
      BY <1>8, <2>1, <2>2, <3>1 DEF l2
    <3> QED
      BY <2>2, <3>1, <3>2 DEF OpAt, l, l2
  <2>3. CASE p[1] # n
    <3>1. cd2[p[1]] = cd[p[1]]
      BY <1>4, <2>1, <2>3
    <3>2. p \in PlacesOf(cd2)
      BY <1>8, <2>1, <3>1
    <3> QED
      BY <3>1, <3>2 DEF OpAt
  <2> QED
    BY <2>2, <2>3
<1>10. ASSUME NEW p \in PlacesOf(cd2), p \notin PlacesOf(cd)
       PROVE  \E i \in 1 .. Len(ops) : p = <<n, Len(l) + i>> /\ OpAt(cd2, p) = ops[i]
  <2>1. p = <<p[1], p[2]>> /\ p[1] \in 1 .. n /\ p[2] \in 1 .. Len(cd2[p[1]])
    BY <1>8
  <2>2. p[1] = n
    BY <1>4, <1>7, <1>10, <2>1
  <2>3. p[2] \in 1 .. Len(l2) /\ p[2] \notin 1 .. Len(l)
    BY <1>7, <1>10, <2>1, <2>2 DEF l, l2
  <2>4. PICK i : i = p[2] - Len(l)
    OBVIOUS
  <2>5. i \in 1 .. Len(ops) /\ p[2] = Len(l) + i
    BY <1>6, <2>3, <2>4
  <2>6. OpAt(cd2, p) = l2[p[2]]
    BY <2>2 DEF OpAt, l2
  <2> QED
    BY <1>6, <2>1, <2>2, <2>5, <2>6
<1>11. ASSUME NEW i \in 1 .. Len(ops)
       PROVE  <<n, Len(l) + i>> \in PlacesOf(cd2) /\ OpAt(cd2, <<n, Len(l) + i>>) = ops[i]
  <2>1. PICK p : p = <<n, Len(l) + i>>
    OBVIOUS
  <2>2. p[1] = n /\ p[2] = Len(l) + i /\ p[2] \in 1 .. Len(l2) /\ n \in 1 .. n
    BY <1>2, <1>6, <2>1
  <2>3. p \in PlacesOf(cd2)
    BY <1>8, <2>1, <2>2 DEF l2
  <2>4. OpAt(cd2, p) = ops[i]
    BY <1>6, <2>2 DEF OpAt, l2
  <2> QED
    BY <2>1, <2>3, <2>4
<1> QED
  BY <1>2, <1>4, <1>5, <1>6, <1>9, <1>10, <1>11, ZenonT(30) DEF n, l, l2

\* The opcodes of a command.
Comes(c, ops, i) ==
  /\ ops[i].v = c.v /\ ops[i].f = c.f
  /\ ops[i].op \in Alone => c.k \in SingleCmds /\ Len(ops) = 1
  /\ ops[i].op \in {"for", "return"} => ops[i].op = c.k /\ i = Len(ops)
  /\ ops[i].op = "assign" => c.k = "for"
  /\ ops[i].op \in {"while", "until", "sub", "endsub", "call"} => ops[i].op = c.k
Comings(c, ops) ==
  /\ Adds(code, ops, code')
  /\ \A i \in 1 .. Len(ops) : Comes(c, ops, i)
  /\ DOMAIN jump \subseteq DOMAIN jump'
  /\ \A i \in 1 .. Len(ops) :
       ops[i].op \in Jumping => <<Len(code), Len(code[Len(code)]) + i>> \in DOMAIN jump'
  /\ c.k = "endsub" => ops[1].op = "endsub"

\* A list of one opcode.
LEMMA OneSeq == ASSUME NEW a \in OpcodeRecords
                PROVE  <<a>> \in Seq(OpcodeRecords) /\ <<a>> # <<>> /\ Len(<<a>>) = 1 /\ <<a>>[1] = a
OBVIOUS

\* A command that becomes one opcode brings what Comings says.
LEMMA OneComes ==
  ASSUME NEW c, Compiling(c), NEW o \in Opcodes, Emit(<<Op(o, c, FALSE)>>),
         o \in Alone => c.k \in SingleCmds,
         o \in {"for", "return", "while", "until", "sub", "endsub", "call"} => o = c.k,
         o # "assign", c.k = "endsub" => o = "endsub",
         DOMAIN jump \subseteq DOMAIN jump', o \in Jumping => Here \in DOMAIN jump'
  PROVE  \E ops : Comings(c, ops)
<1>1. code \in Codes /\ code # <<>> /\ c \in Commands
  BY DEF Compiling
<1>2. PICK a : OneOp(c, o, a)
  BY <1>1, OneOpFacts
<1>3. PICK ops : ops = <<a>>
  OBVIOUS
<1>4. a \in OpcodeRecords /\ a.op = o /\ a.v = c.v /\ a.f = c.f /\ a = Op(o, c, FALSE)
  BY <1>2 DEF OneOp, Op
<1>5. ops \in Seq(OpcodeRecords) /\ ops # <<>> /\ Len(ops) = 1 /\ ops[1] = a
  BY <1>3, <1>4, OneSeq
<1>6. Adds(code, ops, code')
  BY <1>1, <1>3, <1>4, <1>5 DEF Adds, Emit, nline
<1>7. \A i \in 1 .. Len(ops) : i = 1
  BY <1>5
<1>8. Here = <<Len(code), Len(code[Len(code)]) + 1>>
  BY DEF Here, nline
<1>9. Comes(c, ops, 1) /\ (c.k = "endsub" => ops[1].op = "endsub")
  BY <1>4, <1>5 DEF Comes
<1> QED
  BY <1>4, <1>5, <1>6, <1>7, <1>8, <1>9 DEF Comings

\* So does one that becomes two: FOR and ELSE IF.
LEMMA TwoCome ==
  ASSUME NEW c, Compiling(c), NEW o \in Opcodes, NEW q \in Opcodes, NEW d \in BOOLEAN,
         Emit(<<Op(o, c, d), Op(q, c, d)>>),
         \/ <<o, q>> = <<"assign", "for">> /\ c.k = "for"
         \/ <<o, q>> = <<"else", "if">> /\ c.k = "elseif",
         DOMAIN jump \subseteq DOMAIN jump', o \in Jumping => Here \in DOMAIN jump',
         Next1(Here) \in DOMAIN jump'
  PROVE  \E ops : Comings(c, ops)
<1>1. code \in Codes /\ code # <<>> /\ c \in Commands
  BY DEF Compiling
<1>2. PICK a, b : a = Op(o, c, d) /\ b = Op(q, c, d)
  OBVIOUS
<1>3. a \in OpcodeRecords /\ b \in OpcodeRecords
  BY <1>1, <1>2, OpType
<1>4. /\ a.op = o /\ a.v = c.v /\ a.f = c.f
      /\ b.op = q /\ b.v = c.v /\ b.f = c.f
  BY <1>2 DEF Op
<1>5. PICK ops : ops = <<a, b>>
  OBVIOUS
<1>6. ops \in Seq(OpcodeRecords) /\ ops # <<>> /\ Len(ops) = 2 /\ ops[1] = a /\ ops[2] = b
  BY <1>3, <1>5
<1>7. Adds(code, ops, code')
  BY <1>1, <1>2, <1>5, <1>6 DEF Adds, Emit, nline
<1>8. \A i \in 1 .. Len(ops) : i = 1 \/ i = 2
  BY <1>6
<1>9. Here = <<Len(code), Len(code[Len(code)]) + 1>> /\ Len(code[Len(code)]) \in Nat
  BY <1>1, PlaceFacts DEF Here, nline, Codes
<1>10. Next1(Here) = <<Len(code), Len(code[Len(code)]) + 2>>
  BY <1>9 DEF Next1
<1>11. \/ o = "assign" /\ q = "for" /\ c.k = "for"
       \/ o = "else" /\ q = "if" /\ c.k = "elseif"
  OBVIOUS
<1>12. Comes(c, ops, 1) /\ Comes(c, ops, 2)
  BY <1>4, <1>6, <1>11 DEF Comes, Alone
<1> QED
  BY <1>4, <1>6, <1>7, <1>8, <1>9, <1>10, <1>11, <1>12 DEF Comings

\* A jump that is opened stays a jump, and patching adds none.
LEMMA SlotDomain == ASSUME NEW f, NEW p PROVE DOMAIN Slot(f, p) = DOMAIN f \cup {p}
  BY DEF Slot
LEMMA PatchDomain == ASSUME NEW f, NEW ps, NEW l PROVE DOMAIN Patch(f, ps, l) = DOMAIN f
  BY DEF Patch
LEMMA PatchToDomain == ASSUME NEW f, NEW p, NEW t PROVE DOMAIN PatchTo(f, p, t) = DOMAIN f
  BY DEF PatchTo

\* Every command brings what Comings says.
LEMMA CompileComes ==
  ASSUME NEW c, Compiling(c), Compile(c)
  PROVE  \E ops : Comings(c, ops)
<1>1. CASE Plain(c)
  <2>1. c.k \in {"act", "call", "text"} /\ Emit(<<Op(c.k, c, FALSE)>>) /\ jump' = jump
    BY <1>1 DEF Plain
  <2> QED
    BY <2>1, OneComes DEF Alone, Jumping, Opcodes
<1>2. CASE Begin(c)
  <2>1. c.k \in {"begin", "sub"} /\ Emit(<<Op(c.k, c, FALSE)>>) /\ jump' = jump
    BY <1>2 DEF Begin
  <2> QED
    BY <2>1, OneComes DEF Alone, Jumping, Opcodes, SingleCmds
<1>3. CASE If(c)
  <2>1. c.k = "if" /\ Emit(<<Op("if", c, FALSE)>>) /\ DOMAIN jump' = DOMAIN jump \cup {Here}
    BY <1>3, SlotDomain DEF If
  <2> QED
    BY <2>1, OneComes DEF Alone, Jumping, Opcodes
<1>4. CASE Else(c)
  <2>2. PICK t : t = IF Len(line) > 1 THEN Here ELSE <<nline + 1, 0>>
    OBVIOUS
  <2>3. /\ c.k = "else" /\ Emit(<<Op("else", c, FALSE)>>)
        /\ jump' = Slot(PatchTo(jump, Top.slot, t), Here)
    BY <1>4, <2>2 DEF Else
  <2>1. c.k = "else" /\ Emit(<<Op("else", c, FALSE)>>) /\ DOMAIN jump' = DOMAIN jump \cup {Here}
    <3>1. DOMAIN PatchTo(jump, Top.slot, t) = DOMAIN jump
      BY PatchToDomain
    <3> QED
      BY <2>3, <3>1, SlotDomain
  <2> QED
    BY <2>1, OneComes DEF Alone, Jumping, Opcodes
<1>5. CASE ElseIf(c)
  <2>1. /\ Emit(<<Op("else", c, TRUE), Op("if", c, TRUE)>>)
        /\ DOMAIN jump' = DOMAIN jump \cup {Here} \cup {Next1(Here)}
    <3>1. PICK f : f = PatchTo(jump, Top.slot, Here)
      OBVIOUS
    <3>2. PICK f2 : f2 = Slot(f, Here)
      OBVIOUS
    <3>3. DOMAIN f = DOMAIN jump /\ DOMAIN f2 = DOMAIN f \cup {Here}
      BY <3>1, <3>2, SlotDomain, PatchToDomain
    <3>4. Emit(<<Op("else", c, TRUE), Op("if", c, TRUE)>>) /\ jump' = Slot(f2, Next1(Here))
      BY <1>5, <3>1, <3>2 DEF ElseIf
    <3> QED
      BY <3>3, <3>4, SlotDomain
  <2>2. "else" \in Opcodes /\ "if" \in Opcodes /\ TRUE \in BOOLEAN
    BY DEF Opcodes
  <2>3. PICK o, q, d : o = "else" /\ q = "if" /\ d = TRUE
    OBVIOUS
  <2>4. Emit(<<Op(o, c, d), Op(q, c, d)>>) /\ o \in Opcodes /\ q \in Opcodes /\ d \in BOOLEAN
    BY <2>1, <2>2, <2>3
  <2>5. <<o, q>> = <<"else", "if">> /\ c.k = "elseif"
    BY <1>5, <2>3 DEF ElseIf
  <2> QED
    BY <2>1, <2>4, <2>5, TwoCome
<1>6. CASE EndIfCmd(c)
  <2>1. c.k = "endif" /\ Emit(<<Op("endif", c, FALSE)>>) /\ DOMAIN jump' = DOMAIN jump
    BY <1>6, PatchDomain DEF EndIfCmd, EndIf
  <2> QED
    BY <2>1, OneComes DEF Alone, Jumping, Opcodes
<1>7. CASE For(c)
  <2>1. /\ Emit(<<Op("assign", c, FALSE), Op("for", c, FALSE)>>) /\ c.k = "for"
        /\ DOMAIN jump' = DOMAIN jump \cup {Next1(Here)}
    BY <1>7, SlotDomain DEF For
  <2>2. "assign" \in Opcodes /\ "for" \in Opcodes /\ FALSE \in BOOLEAN
    BY DEF Opcodes
  <2>3. PICK o, q, d : o = "assign" /\ q = "for" /\ d = FALSE
    OBVIOUS
  <2>4. Emit(<<Op(o, c, d), Op(q, c, d)>>) /\ o \in Opcodes /\ q \in Opcodes /\ d \in BOOLEAN
    BY <2>1, <2>2, <2>3
  <2>5. <<o, q>> = <<"assign", "for">> /\ c.k = "for" /\ o \notin Jumping
    BY <2>1, <2>3 DEF Jumping
  <2> QED
    BY <2>1, <2>4, <2>5, TwoCome
<1>8. CASE Loop(c)
  <2>1. c.k \in {"while", "until"} /\ Emit(<<Op(c.k, c, FALSE)>>)
        /\ DOMAIN jump' = DOMAIN jump \cup {Here}
    BY <1>8, SlotDomain DEF Loop
  <2> QED
    BY <2>1, OneComes DEF Alone, Jumping, Opcodes, SingleCmds
<1>9. CASE Next_(c)
  <2>1. c.k \in {"next", "nextv"} /\ Emit(<<Op("next", c, FALSE)>>)
        /\ DOMAIN jump' = DOMAIN jump \cup {Here}
    <3>1. PICK f : f = Patch(jump, {Top.slot}, nline)
      OBVIOUS
    <3>2. PICK f2 : f2 = Slot(f, Here)
      OBVIOUS
    <3>3. DOMAIN f = DOMAIN jump /\ DOMAIN f2 = DOMAIN f \cup {Here}
      BY <3>1, <3>2, SlotDomain, PatchDomain
    <3>4. /\ c.k \in {"next", "nextv"} /\ Emit(<<Op("next", c, FALSE)>>)
          /\ jump' = PatchTo(f2, Here, <<Top.first, Top.off1>>)
      BY <1>9, <3>1, <3>2 DEF Next_
    <3> QED
      BY <3>3, <3>4, PatchToDomain
  <2> QED
    BY <2>1, OneComes DEF Alone, Jumping, Opcodes, SingleCmds
<1>10. CASE Return(c)
  <2>1. c.k = "return" /\ Emit(<<Op("return", c, FALSE)>>) /\ DOMAIN jump' = DOMAIN jump \cup {Here}
    BY <1>10, SlotDomain DEF Return
  <2> QED
    BY <2>1, OneComes DEF Alone, Jumping, Opcodes
<1>11. CASE End(c)
  <2>1. c.k \in {"end", "endsub"} /\ Emit(<<Op(c.k, c, FALSE)>>) /\ DOMAIN jump' = DOMAIN jump
    BY <1>11, PatchDomain DEF End
  <2> QED
    BY <2>1, OneComes DEF Alone, Jumping, Opcodes, SingleCmds
<1> QED
  BY <1>1, <1>2, <1>3, <1>4, <1>5, <1>6, <1>7, <1>8, <1>9, <1>10, <1>11 DEF Compile

\* Blocks that are opened and closed keep their jump on the line they begin on.
LEMMA RootedAppend ==
  ASSUME NEW bs \in BlockSeqs, Rooted(bs), NEW b \in BlockRecords, b.slot[1] = b.first
  PROVE  Rooted(Append(bs, b)) /\ Append(bs, b) \in BlockSeqs
<1>1. PICK bs2 : bs2 = Append(bs, b)
  OBVIOUS
<1>2. bs2 \in BlockSeqs /\ Len(bs2) = Len(bs) + 1 /\ Len(bs) \in Nat /\ bs2[Len(bs) + 1] = b
      /\ \A i \in 1 .. Len(bs) : bs2[i] = bs[i]
  BY <1>1 DEF BlockSeqs
<1>3. \A i \in 1 .. Len(bs2) : i \in 1 .. Len(bs) \/ i = Len(bs) + 1
  BY <1>2
<1>4. Rooted(bs2)
  BY <1>2, <1>3 DEF Rooted
<1> QED
  BY <1>1, <1>2, <1>4

LEMMA RootedCut ==
  ASSUME NEW bs \in BlockSeqs, Rooted(bs), NEW n \in 0 .. Len(bs)
  PROVE  Rooted(SubSeq(bs, 1, n)) /\ SubSeq(bs, 1, n) \in BlockSeqs
<1>1. PICK bs2 : bs2 = SubSeq(bs, 1, n)
  OBVIOUS
<1>2. bs2 \in BlockSeqs /\ Len(bs2) = n /\ Len(bs) \in Nat /\ \A i \in 1 .. n : bs2[i] = bs[i]
  BY <1>1 DEF BlockSeqs
<1>3. Rooted(bs2)
  BY <1>2 DEF Rooted
<1> QED
  BY <1>1, <1>2, <1>3

LEMMA BlockRooted ==
  ASSUME TypeOK, code # <<>>, NEW type \in BlockTypes, NEW off1 \in Nat, NEW var \in Nat,
         NEW slot \in {Here, Next1(Here)}, NEW dangling \in BOOLEAN
  PROVE  /\ Block(type, off1, slot, var, dangling) \in BlockRecords
         /\ Block(type, off1, slot, var, dangling).slot[1] = Block(type, off1, slot, var, dangling).first
<1>1. slot \in PlaceType /\ slot[1] = nline
  BY HereType DEF Here, Next1, PlaceType
<1>2. Block(type, off1, slot, var, dangling) \in BlockRecords
  BY <1>1, BlockType
<1> QED
  BY <1>1, <1>2 DEF Block

\* Every command keeps the blocks so.
LEMMA CompileRooted ==
  ASSUME NEW c, Compiling(c), Compile(c), Rooted(blocks)
  PROVE  Rooted(blocks')
<1>1. TypeOK /\ code # <<>> /\ blocks \in BlockSeqs /\ c \in Commands /\ ~Refused(c)
  BY DEF Compiling
<1>2. c.v \in Nat /\ Here \in PlaceType /\ Len(code[nline]) \in Nat
  <2>1. nline \in DOMAIN code
    BY <1>1 DEF TypeOK, nline
  <2> QED
    BY <1>1, <2>1, HereType DEF Commands, TypeOK, nline
<1>3. ASSUME blocks # <<>> PROVE Rooted(Pop) /\ Pop \in BlockSeqs
  <2>1. Len(blocks) - 1 \in 0 .. Len(blocks)
    BY <1>1, <1>3 DEF BlockSeqs
  <2> QED
    BY <1>1, <2>1, RootedCut DEF Pop
<1>4. CASE blocks' = blocks
  BY <1>4
<1>5. CASE \E b : blocks' = Append(blocks, b) /\ b \in BlockRecords /\ b.slot[1] = b.first
  <2>1. PICK b : blocks' = Append(blocks, b) /\ b \in BlockRecords /\ b.slot[1] = b.first
    BY <1>5
  <2>2. Rooted(Append(blocks, b))
    BY <1>1, <2>1, RootedAppend
  <2> QED
    BY <2>1, <2>2
<1>6. CASE Begin(c) \/ If(c) \/ For(c) \/ Loop(c)
  <2>1. PICK b : \/ (Begin(c) \/ If(c) \/ Loop(c)) /\ b = Block(c.k, 0, Here, 0, FALSE)
                 \/ For(c) /\ b = Block("for", Len(code[nline]) + 1, Next1(Here), c.v, FALSE)
    BY <1>6
  <2>2. blocks' = Append(blocks, b)
    BY <2>1 DEF Begin, If, For, Loop, Push
  <2>3. Begin(c) \/ If(c) \/ Loop(c) => c.k \in BlockTypes
    BY DEF Begin, If, Loop, BlockTypes, Slotted
  <2>4. "for" \in BlockTypes
    BY DEF BlockTypes, Slotted
  <2>5. b \in BlockRecords /\ b.slot[1] = b.first
    <3>1. CASE (Begin(c) \/ If(c) \/ Loop(c)) /\ b = Block(c.k, 0, Here, 0, FALSE)
      BY <1>1, <2>3, <3>1, BlockRooted
    <3>2. CASE For(c) /\ b = Block("for", Len(code[nline]) + 1, Next1(Here), c.v, FALSE)
      <4>1. PICK k, t : k = Len(code[nline]) + 1 /\ t = Next1(Here)
        OBVIOUS
      <4>2. k \in Nat /\ t \in {Here, Next1(Here)} /\ FALSE \in BOOLEAN
        BY <1>2, <4>1
      <4>3. b = Block("for", k, t, c.v, FALSE)
        BY <3>2, <4>1
      <4> QED
        BY <1>1, <1>2, <2>4, <4>2, <4>3, BlockRooted
    <3> QED
      BY <2>1, <3>1, <3>2
  <2> QED
    BY <1>5, <2>2, <2>5
<1>7. CASE Else(c)
  <2>1. blocks # <<>> /\ c.k = "else"
    BY <1>1, <1>7 DEF Refused, TopIs, Else
  <2>2. PICK b : b = Block("else", 0, Here, 0, FALSE)
    OBVIOUS
  <2>3. b \in BlockRecords /\ b.slot[1] = b.first
    BY <1>1, <2>2, BlockRooted DEF BlockTypes, Slotted
  <2>4. Rooted(Append(Pop, b))
    BY <1>3, <2>1, <2>3, RootedAppend
  <2>5. blocks' = Append(Pop, b)
    BY <1>7, <2>2 DEF Else
  <2> QED
    BY <2>4, <2>5
<1>8. CASE ElseIf(c)
  <2>1. blocks # <<>> /\ c.k = "elseif"
    BY <1>1, <1>8 DEF Refused, TopIs, ElseIf
  <2>2. PICK b, e : b = Block("else", 0, Here, 0, TRUE) /\ e = Block("if", 0, Next1(Here), 0, FALSE)
    OBVIOUS
  <2>3. b \in BlockRecords /\ b.slot[1] = b.first
    BY <1>1, <2>2, BlockRooted DEF BlockTypes, Slotted
  <2>4. e \in BlockRecords /\ e.slot[1] = e.first
    BY <1>1, <2>2, BlockRooted DEF BlockTypes, Slotted
  <2>5. PICK p, q : p = Pop /\ q = Append(p, b)
    OBVIOUS
  <2>6. Rooted(q) /\ q \in BlockSeqs /\ p \in BlockSeqs
    BY <1>3, <2>1, <2>3, <2>5, RootedAppend
  <2>7. Rooted(Append(q, e))
    BY <2>4, <2>6, RootedAppend
  <2>8. p \o <<b, e>> = Append(q, e)
    BY <2>3, <2>4, <2>5, <2>6 DEF BlockSeqs
  <2>9. blocks' = p \o <<b, e>>
    BY <1>8, <2>2, <2>5 DEF ElseIf
  <2> QED
    BY <2>7, <2>8, <2>9
<1>9. CASE EndIfCmd(c)
  <2>1. PICK n \in 0 .. Len(blocks) : blocks' = SubSeq(blocks, 1, n)
    BY <1>9 DEF EndIfCmd, EndIf
  <2>2. Rooted(SubSeq(blocks, 1, n))
    BY <1>1, RootedCut
  <2> QED
    BY <2>1, <2>2
<1>10. CASE Next_(c) \/ End(c)
  <2>1. blocks' = Pop /\ c.k \in {"next", "nextv", "end", "endsub"}
    BY <1>10 DEF Next_, End
  <2>2. blocks # <<>>
    BY <1>1, <2>1 DEF Refused, TopIs
  <2> QED
    BY <1>3, <2>1, <2>2
<1>11. CASE Return(c)
  <2>1. blocks' = Hang(blocks, Here)
    BY <1>11 DEF Return, Hang
  <2>2. PICK bs : bs = Hang(blocks, Here)
    OBVIOUS
  <2>3. Len(bs) = Len(blocks) /\ \A i \in 1 .. Len(blocks) : bs[i].slot = blocks[i].slot
                                                             /\ bs[i].first = blocks[i].first
    <3>1. DOMAIN blocks = 1 .. Len(blocks) /\ Len(blocks) \in Nat
      BY <1>1 DEF BlockSeqs
    <3>2. \A i \in 1 .. Len(blocks) : blocks[i] \in BlockRecords
      BY <1>1 DEF BlockSeqs
    <3> QED
      BY <1>1, <2>2, <3>1, <3>2 DEF Hang, BlockRecords
  <2> QED
    BY <2>1, <2>2, <2>3 DEF Rooted
<1>12. CASE Plain(c)
  BY <1>4, <1>12 DEF Plain
<1> QED
  BY <1>6, <1>7, <1>8, <1>9, <1>10, <1>11, <1>12 DEF Compile

\* The commands left of a line.
LEMMA TailPlaces ==
  ASSUME NEW ln \in Seq(Commands), ln # <<>>, NEW ln2, ln2 = Tail(ln), NEW i \in 1 .. Len(ln2)
  PROVE  /\ i + 1 \in 1 .. Len(ln) /\ ln2[i] = ln[i + 1] /\ Len(ln2) = Len(ln) - 1
         /\ Len(ln) \in Nat
OBVIOUS

\* END SUB alone sets the subroutine that is known.
LEMMA SubStep ==
  ASSUME NEW c, Compile(c)
  PROVE  /\ c.k # "endsub" => sub' = sub
         /\ c.k = "endsub" => sub' = [start |-> Top.first, end |-> nline]
  BY DEF Compile, Plain, Begin, If, Else, ElseIf, EndIfCmd, For, Loop, Next_, Return, End

\* Everything that opens a subroutine is closed by its END SUB, or a block of the stack.
LEMMA SubClosed ==
  ASSUME NEW cd, NEW ln, NEW W, NEW bs, NEW jp, NEW c, NEW g, Fits(cd, ln, W, bs, jp, c, g),
         NEW p \in PlacesOf(cd), OpAt(cd, p).op = "sub"
  PROVE  \/ p \in DOMAIN c /\ c[p] \in PlacesOf(cd) /\ OpAt(cd, c[p]).op = "endsub"
         \/ \E i \in 1 .. Len(bs) : bs[i].type = "sub"
<1>1. p \in Openers(cd)
  BY DEF Openers, IsOpener
<1>2. CASE p \in DOMAIN c
  <2>1. Pair(cd, p, c[p])
    BY <1>2 DEF Fits, Typed
  <2> QED
    BY <1>2, <2>1 DEF Pair, LoopOps
<1>3. CASE p \notin DOMAIN c
  <2>1. Ranked(bs, Openers(cd) \ DOMAIN c, g) /\ \A i \in 1 .. Len(bs) : BlockFits(cd, jp, c, g, bs[i])
    BY DEF Fits, Stacked
  <2>2. PICK i \in 1 .. Len(bs) : g[bs[i].slot] = p
    BY <1>1, <1>3, <2>1 DEF Ranked
  <2>3. BlockFits(cd, jp, c, g, bs[i])
    BY <2>1
  <2>4. bs[i].type = "sub"
    BY <2>2, <2>3 DEF BlockFits
  <2> QED
    BY <2>4
<1> QED
  BY <1>2, <1>3

\* A call is compiled only when there is a subroutine to call.
LEMMA CallHasSub ==
  ASSUME NEW c, NEW d, NEW g, Fitting(c, d, g), SubLies(code, line, single, sub),
         c.k = "call" \/ c.f
  PROVE  \E q \in PlacesOf(code) : OpAt(code, q).op = "sub"
<1>1. ~Refused(c) /\ Fits(code, line, {nline}, blocks, jump, d, g)
  BY DEF Fitting, Compiling
<1>2. sub # NoSub \/ InSub
  BY <1>1 DEF Refused
<1>3. CASE sub # NoSub
  BY <1>3 DEF SubLies
<1>4. CASE InSub
  <2>1. PICK i \in 1 .. Len(blocks) : blocks[i].type = "sub"
    BY <1>4 DEF InSub
  <2>2. BlockFits(code, jump, d, g, blocks[i]) /\ DOMAIN g = Marks(code)
    BY <1>1 DEF Fits, Stacked, Nested
  <2>3. blocks[i].slot \in PlacesOf(code) /\ OpAt(code, blocks[i].slot).op = "sub"
    BY <2>1, <2>2 DEF BlockFits, Marks, Openers, Elses, Ifs
  <2> QED
    BY <2>3
<1> QED
  BY <1>2, <1>3, <1>4

\* An opcode that was there lies as before when a command is compiled, ...
LEMMA LaidOld ==
  ASSUME NEW c, Compiling(c), NEW ops, Comings(c, ops), NEW p \in PlacesOf(code),
         Lying(code, line, single, jump, source, p)
  PROVE  Lying(code', line', single', jump', source, p)
<1>1. /\ PlacesOf(code) \subseteq PlacesOf(code') /\ OpAt(code', p) = OpAt(code, p)
      /\ \A q \in PlacesOf(code) : OpAt(code', q) = OpAt(code, q)
      /\ p[1] # Len(code) => code'[p[1]] = code[p[1]]
      /\ Len(code') = Len(code)
  <2>1. p[1] \in 1 .. Len(code)
    BY PlaceFacts DEF Compiling
  <2>2. Adds(code, ops, code')
    BY DEF Comings
  <2> QED
    BY <2>1, <2>2, AddsPlaces
<1>2. line # <<>> /\ ~single /\ DOMAIN jump \subseteq DOMAIN jump'
  BY DEF Compiling, Comings
<1>3. OpAt(code, p).op = "call" \/ OpAt(code, p).f => \E q \in PlacesOf(code') : OpAt(code', q).op = "sub"
  BY <1>1 DEF Lying
<1> QED
  BY <1>1, <1>2, <1>3 DEF Lying

\* ... and the opcodes of the command lie as they should.
LEMMA LaidNew ==
  ASSUME NEW c, NEW d, NEW g, Fitting(c, d, g), NEW ops, Comings(c, ops),
         Coming(source, line, 1), SubLies(code, line, single, sub), NEW i \in 1 .. Len(ops),
         NEW p, p = <<Len(code), Len(code[Len(code)]) + i>>
  PROVE  Lying(code', line', single', jump', source, p)
<1>1. /\ Compiling(c) /\ Comes(c, ops, i) /\ c = line[1] /\ line \in Seq(Commands) /\ line # <<>>
      /\ ~Refused(c) /\ line' = Tail(line) /\ LineFits /\ code # <<>>
      /\ c.k \in SingleCmds => nbcmd = 0
      /\ single' = (c.k \in SingleCmds)
  BY DEF Fitting, Compiling, Comings, TypeOK
<1>2. /\ Adds(code, ops, code') /\ (ops[i].op \in Jumping => p \in DOMAIN jump')
  BY DEF Comings
<1>3. /\ OpAt(code', p) = ops[i] /\ Len(code') = Len(code)
      /\ Len(code'[Len(code)]) = Len(code[Len(code)]) + Len(ops) /\ Len(code[Len(code)]) \in Nat
      /\ PlacesOf(code) \subseteq PlacesOf(code')
      /\ \A q \in PlacesOf(code) : OpAt(code', q) = OpAt(code, q)
  BY <1>2, AddsPlaces
<1>4. p[1] = Len(code) /\ p[2] = Len(code[Len(code)]) + i
  OBVIOUS
<1>5. ASSUME ops[i].op \in Alone
      PROVE  p[2] = 1 /\ Len(code'[p[1]]) = 1 /\ single'
  <2>1. c.k \in SingleCmds /\ Len(ops) = 1 /\ i = 1 /\ nbcmd = 0
    BY <1>1, <1>5 DEF Comes
  <2>2. code[Len(code)] = <<>>
    BY <1>1, <2>1 DEF LineFits, LineIs, LastLine
  <2>3. Len(code[Len(code)]) = 0
    BY <2>2
  <2>4. single'
    BY <1>1, <2>1
  <2>5. p[2] = 1
    BY <1>4, <2>1, <2>3
  <2>6. Len(code'[p[1]]) = Len(code[Len(code)]) + Len(ops)
    BY <1>3, <1>4
  <2> QED
    BY <2>1, <2>3, <2>4, <2>5, <2>6
<1>6. ASSUME ops[i].op \in {"for", "return"}
      PROVE  Len(code'[p[1]]) = p[2] /\ line' = <<>>
  <2>1. ops[i].op = c.k /\ i = Len(ops)
    BY <1>1, <1>6 DEF Comes
  <2>2. Len(line) = 1
    <3>1. Len(line) \in Nat \ {0}
      BY <1>1
    <3>2. CASE c.k = "for"
      BY <1>1, <3>2 DEF Coming
    <3>3. CASE c.k = "return"
      <4>1. ~(Len(line) > 1)
        BY <1>1, <3>3 DEF Refused
      <4>2. PICK n : n = Len(line)
        OBVIOUS
      <4> QED
        BY <3>1, <4>1, <4>2
    <3> QED
      BY <1>6, <2>1, <3>2, <3>3
  <2>3. line' = <<>>
    BY <1>1, <2>2
  <2> QED
    BY <1>3, <1>4, <2>1, <2>3
<1>7. TameOp(source, ops[i])
  <2>1. ops[i].op \in {"for", "assign"} => c.k = "for"
    BY <1>1 DEF Comes
  <2>2. ops[i].op \in LoopOps => c.k \in LoopOps
    BY <1>1 DEF Comes, LoopOps
  <2>3. ops[i].v = c.v /\ ops[i].f = c.f
    BY <1>1 DEF Comes
  <2> QED
    BY <1>1, <2>1, <2>2, <2>3 DEF TameOp, Coming
<1>8. ops[i].op = "call" \/ ops[i].f => \E q \in PlacesOf(code') : OpAt(code', q).op = "sub"
  <2>1. ops[i].op = "call" \/ ops[i].f => c.k = "call" \/ c.f
    BY <1>1 DEF Comes
  <2>2. c.k = "call" \/ c.f => \E q \in PlacesOf(code) : OpAt(code, q).op = "sub"
    BY CallHasSub
  <2> QED
    BY <1>3, <2>1, <2>2
<1> QED
  BY <1>2, <1>3, <1>5, <1>6, <1>7, <1>8 DEF Lying

\* The subroutine that is known is the one there is, after every command.
LEMMA SubNext ==
  ASSUME NEW c, NEW d, NEW g, Fitting(c, d, g), Compile(c), NEW ops, Comings(c, ops),
         Laid(code, line, single, jump, sub, source, blocks)
  PROVE  SubLies(code', line', single', sub')
<1>1. /\ Compiling(c) /\ c = line[1] /\ line \in Seq(Commands) /\ line # <<>>
      /\ ~Refused(c) /\ line' = Tail(line) /\ LineFits /\ code # <<>> /\ ~single
      /\ c.k \in SingleCmds => nbcmd = 0
      /\ single' = (c.k \in SingleCmds)
      /\ Fits(code, line, {nline}, blocks, jump, d, g)
      /\ TypeOK /\ blocks \in BlockSeqs /\ code \in Codes
  BY DEF Fitting, Compiling, TypeOK
<1>2. SubLies(code, line, single, sub) /\ Rooted(blocks)
      /\ \A p \in PlacesOf(code) : Lying(code, line, single, jump, source, p)
  BY DEF Laid
<1>3. Adds(code, ops, code') /\ \A i \in 1 .. Len(ops) : Comes(c, ops, i)
      /\ (c.k = "endsub" => ops[1].op = "endsub")
  BY DEF Comings
<1>4. /\ Len(code') = Len(code) /\ Len(code) \in Nat \ {0} /\ Len(code[Len(code)]) \in Nat
      /\ PlacesOf(code) \subseteq PlacesOf(code')
      /\ \A q \in PlacesOf(code) : OpAt(code', q) = OpAt(code, q)
      /\ \A p \in PlacesOf(code') \ PlacesOf(code) :
           \E i \in 1 .. Len(ops) : /\ p = <<Len(code), Len(code[Len(code)]) + i>>
                                    /\ OpAt(code', p) = ops[i]
      /\ \A i \in 1 .. Len(ops) : /\ <<Len(code), Len(code[Len(code)]) + i>> \in PlacesOf(code')
                                  /\ OpAt(code', <<Len(code), Len(code[Len(code)]) + i>>) = ops[i]
  BY <1>3, AddsPlaces
<1>5. \A i \in 1 .. Len(ops) : ops[i].op \in {"sub", "endsub"} => ops[i].op = c.k /\ Len(ops) = 1
  BY <1>3 DEF Comes, Alone
<1>6. /\ c.k # "endsub" => sub' = sub
      /\ c.k = "endsub" => sub' = [start |-> Top.first, end |-> nline]
  BY SubStep
<1>7. ASSUME sub' = NoSub, NEW p \in PlacesOf(code') PROVE OpAt(code', p).op # "endsub"
  <2>1. c.k # "endsub"
    BY <1>4, <1>6, <1>7 DEF NoSub, nline
  <2>2. CASE p \in PlacesOf(code)
    BY <1>2, <1>4, <1>6, <1>7, <2>1, <2>2 DEF SubLies
  <2>3. CASE p \notin PlacesOf(code)
    BY <1>4, <1>5, <2>1, <2>3
  <2> QED
    BY <2>2, <2>3
<1>8. ASSUME sub' # NoSub
      PROVE  /\ <<sub'.start, 1>> \in PlacesOf(code') /\ OpAt(code', <<sub'.start, 1>>).op = "sub"
             /\ <<sub'.end, 1>> \in PlacesOf(code') /\ OpAt(code', <<sub'.end, 1>>).op = "endsub"
  <2>1. CASE c.k # "endsub"
    <3>1. sub' = sub /\ sub # NoSub
      BY <1>6, <1>8, <2>1
    <3>2. /\ <<sub.start, 1>> \in PlacesOf(code) /\ OpAt(code, <<sub.start, 1>>).op = "sub"
          /\ <<sub.end, 1>> \in PlacesOf(code) /\ OpAt(code, <<sub.end, 1>>).op = "endsub"
      BY <1>2, <3>1 DEF SubLies
    <3> QED
      BY <1>4, <3>1, <3>2
  <2>2. CASE c.k = "endsub"
    <3>1. sub'.start = Top.first /\ sub'.end = Len(code)
      BY <1>6, <2>2 DEF nline
    <3>2. blocks # <<>> /\ Top.type = "sub"
      BY <1>1, <2>2 DEF Refused, TopIs
    <3>3. PICK b : b = Top
      OBVIOUS
    <3>4. Len(blocks) \in 1 .. Len(blocks) /\ b = blocks[Len(blocks)]
      BY <1>1, <3>2, <3>3 DEF BlockSeqs, Top
    <3>5. BlockFits(code, jump, d, g, b) /\ DOMAIN g = Marks(code) /\ b.slot[1] = b.first
      BY <1>1, <1>2, <3>4 DEF Fits, Stacked, Nested, Rooted
    <3>6. b.slot \in PlacesOf(code) /\ OpAt(code, b.slot).op = "sub"
      BY <3>2, <3>3, <3>5 DEF BlockFits, Marks, Openers, Elses, Ifs
    <3>7. b.slot = <<b.first, 1>>
      <4>1. b.slot[2] = 1
        BY <1>2, <3>6 DEF Lying, Alone
      <4>2. b.slot = <<b.slot[1], b.slot[2]>>
        BY <1>1, <3>6, PlaceFacts
      <4> QED
        BY <3>5, <4>1, <4>2
    <3>8. <<sub'.start, 1>> \in PlacesOf(code') /\ OpAt(code', <<sub'.start, 1>>).op = "sub"
      BY <1>4, <3>1, <3>3, <3>6, <3>7
    <3>9. code[Len(code)] = <<>>
      <4>1. nbcmd = 0
        BY <1>1, <2>2 DEF SingleCmds
      <4> QED
        BY <1>1, <4>1 DEF LineFits, LineIs, LastLine
    <3>10. 1 \in 1 .. Len(ops)
      <4>1. ops \in Seq(OpcodeRecords) /\ ops # <<>>
        BY <1>3 DEF Adds
      <4> QED
        BY <4>1
    <3>11. <<Len(code), Len(code[Len(code)]) + 1>> = <<Len(code), 1>>
      BY <3>9
    <3>12. <<Len(code), 1>> \in PlacesOf(code') /\ OpAt(code', <<Len(code), 1>>).op = "endsub"
      BY <1>3, <1>4, <2>2, <3>10, <3>11
    <3> QED
      BY <3>1, <3>8, <3>12
  <2> QED
    BY <2>1, <2>2
<1>9. ASSUME NEW p \in PlacesOf(code'), OpAt(code', p).op = "sub", p \notin PlacesOf(code)
      PROVE  p = <<Len(code), Len(code[Len(code)]) + 1>> /\ \A q \in PlacesOf(code) : OpAt(code, q).op # "sub"
  <2>1. PICK i \in 1 .. Len(ops) : /\ p = <<Len(code), Len(code[Len(code)]) + i>>
                                   /\ OpAt(code', p) = ops[i]
    BY <1>4, <1>9
  <2>2. c.k = "sub" /\ i = 1
    BY <1>5, <1>9, <2>1
  <2>3. sub = NoSub
    <3>1. 1 \in 1 .. Len(line)
      BY <1>1
    <3> QED
      BY <1>1, <1>2, <2>2, <3>1 DEF SubLies
  <2>4. ~InSub
    BY <1>1, <2>2 DEF Refused
  <2>5. ASSUME NEW q \in PlacesOf(code), OpAt(code, q).op = "sub" PROVE FALSE
    <3>1. \/ q \in DOMAIN d /\ d[q] \in PlacesOf(code) /\ OpAt(code, d[q]).op = "endsub"
          \/ \E k \in 1 .. Len(blocks) : blocks[k].type = "sub"
      BY <1>1, <2>5, SubClosed
    <3> QED
      BY <1>2, <2>3, <2>4, <3>1 DEF SubLies, InSub
  <2> QED
    BY <2>1, <2>2, <2>5
<1>10. ASSUME NEW p \in PlacesOf(code'), NEW q \in PlacesOf(code'),
              OpAt(code', p).op = "sub", OpAt(code', q).op = "sub"
       PROVE  p = q
  <2>1. CASE p \in PlacesOf(code) /\ q \in PlacesOf(code)
    BY <1>2, <1>4, <1>10, <2>1 DEF SubLies
  <2> QED
    BY <1>4, <1>9, <1>10, <2>1
<1>11. ASSUME NEW i \in 1 .. Len(line'), line'[i].k = "sub" PROVE sub' = NoSub \/ single'
  <2>1. i + 1 \in 1 .. Len(line) /\ line'[i] = line[i + 1]
    BY <1>1, TailPlaces
  <2>2. sub = NoSub
    BY <1>1, <1>2, <1>11, <2>1 DEF SubLies
  <2>3. CASE c.k = "endsub"
    BY <1>1, <2>3 DEF SingleCmds
  <2> QED
    BY <1>6, <2>2, <2>3
<1> QED
  BY <1>7, <1>8, <1>10, <1>11 DEF SubLies

\* LaidOut is kept by a command, by a new line, and by every other step.
LEMMA LaidCommand ==
  ASSUME TypeOK, Owned, Nesting, LaidOut, Command
  PROVE  LaidOut'
<1>1. line # <<>> /\ phase = "parse"
  BY DEF Command, Owned
<1>2. CASE Refuse(Head(line))
  BY <1>2 DEF Refuse, LaidOut
<1>3. CASE Compile(Head(line))
  <2>1. CASE errors'
    BY <2>1 DEF LaidOut
  <2>2. CASE ~errors'
    <3>1. PICK c : c = Head(line)
      OBVIOUS
    <3>2. Compile(c) /\ Compiling(c) /\ \E d, g : Fits(code, line, {nline}, blocks, jump, d, g)
      BY <1>1, <1>3, <2>2, <3>1, CompilingFacts
    <3>3. PICK d, g : Fits(code, line, {nline}, blocks, jump, d, g)
      BY <3>2
    <3>4. Fitting(c, d, g)
      BY <3>2, <3>3 DEF Fitting
    <3>5. PICK ops : Comings(c, ops)
      BY <3>2, CompileComes
    <3>6. Laid(code, line, single, jump, sub, source, blocks)
      BY <1>1, <3>2 DEF LaidOut, Compiling
    <3>7. line \in Seq(Commands) /\ line # <<>> /\ line' = Tail(line) /\ source' = source
      BY <3>2 DEF Compiling, TypeOK, Accept
    <3>8. ASSUME NEW i \in 1 .. Len(line') PROVE Coming(source, line', i)
      <4>1. i + 1 \in 1 .. Len(line) /\ line'[i] = line[i + 1] /\ Len(line') = Len(line) - 1
            /\ Len(line) \in Nat
        BY <3>7, <3>8, TailPlaces
      <4>2. Coming(source, line, i + 1)
        BY <3>6, <4>1 DEF Laid
      <4>3. i + 1 = Len(line) => i = Len(line')
        BY <4>1
      <4> QED
        BY <4>1, <4>2, <4>3 DEF Coming
    <3>9. SubLies(code', line', single', sub')
      BY <3>2, <3>4, <3>5, <3>6, SubNext
    <3>10. Rooted(blocks')
      BY <3>2, <3>6, CompileRooted DEF Laid
    <3>11. ASSUME NEW p \in PlacesOf(code') PROVE Lying(code', line', single', jump', source, p)
      <4>1. CASE p \in PlacesOf(code)
        BY <3>2, <3>5, <3>6, <4>1, LaidOld DEF Laid
      <4>2. CASE p \notin PlacesOf(code)
        <5>1. Adds(code, ops, code')
          BY <3>5 DEF Comings
        <5>2. PICK i \in 1 .. Len(ops) : p = <<Len(code), Len(code[Len(code)]) + i>>
          BY <4>2, <5>1, AddsPlaces
        <5>3. Coming(source, line, 1) /\ SubLies(code, line, single, sub)
          <6>1. 1 \in 1 .. Len(line)
            BY <3>7
          <6> QED
            BY <3>6, <6>1 DEF Laid
        <5> QED
          BY <3>4, <3>5, <5>2, <5>3, LaidNew
      <4> QED
        BY <4>1, <4>2
    <3>12. Laid(code', line', single', jump', sub', source', blocks')
      BY <3>7, <3>8, <3>9, <3>10, <3>11 DEF Laid
    <3> QED
      BY <3>12 DEF LaidOut
  <2> QED
    BY <2>1, <2>2
<1> QED
  BY <1>2, <1>3 DEF Command

LEMMA LaidStart ==
  ASSUME Tame, TypeOK, Owned, Nesting, LaidOut, NEW ln \in source, StartLine(ln)
  PROVE  LaidOut'
<1> SUFFICES ASSUME ~errors PROVE Laid(code', line', single', jump', sub', source', blocks')
  BY DEF LaidOut, StartLine
<1>1. /\ phase = "parse" /\ line = <<>> /\ code' = Append(code, <<>>) /\ single' = FALSE
      /\ sub' = sub /\ source' = source /\ code \in Codes /\ blocks \in BlockSeqs
      /\ TextLine(ln) \/ CommandLine(ln)
      /\ (\E i \in DOMAIN ln : ln[i].k = "sub") => sub = NoSub
      /\ ln \in Seq(Commands)
  BY SourcesAssumption DEF StartLine, TypeOK, Codes, BlockSeqs, Tame
<1>2. /\ \A p \in PlacesOf(code) : Lying(code, line, single, jump, source, p)
      /\ SubLies(code, line, single, sub) /\ Rooted(blocks)
  BY <1>1 DEF LaidOut, Laid
<1>3. /\ Len(code') = Len(code) + 1 /\ Len(code) \in Nat
      /\ \A l \in 1 .. Len(code) : code'[l] = code[l]
      /\ PlacesOf(code') = PlacesOf(code)
      /\ \A p \in PlacesOf(code) : OpAt(code', p) = OpAt(code, p) /\ p[1] \in 1 .. Len(code)
  <2>1. PICK cd2 : cd2 = code'
    OBVIOUS
  <2>2. /\ Len(cd2) = Len(code) + 1
        /\ \A l \in 1 .. Len(code) : cd2[l] = code[l]
        /\ PlacesOf(cd2) = PlacesOf(code)
        /\ \A p \in PlacesOf(code) : OpAt(cd2, p) = OpAt(code, p)
    BY <1>1, <2>1, LineFacts
  <2>3. Len(code) \in Nat /\ \A p \in PlacesOf(code) : p[1] \in 1 .. Len(code)
    BY <1>1, PlaceFacts
  <2> QED
    BY <2>1, <2>2, <2>3
<1>4. /\ line' = <<>> \/ line' = ln
      /\ DOMAIN jump' = DOMAIN jump /\ Rooted(blocks')
  <2>1. CASE blocks' = blocks /\ jump' = jump
    BY <1>1, <1>2, <2>1 DEF TextLine, CommandLine
  <2>2. CASE EndIf(nline + 1) /\ CommandLine(ln)
    <3>1. PICK n \in 0 .. Len(blocks) :
            /\ Kept(n) /\ blocks' = SubSeq(blocks, 1, n)
            /\ jump' = Patch(jump, {blocks[i].slot : i \in n + 1 .. Len(blocks)}, nline + 1)
      BY <2>2 DEF EndIf
    <3>2. DOMAIN jump' = DOMAIN jump
      BY <3>1, PatchDomain
    <3>3. Rooted(blocks')
      BY <1>1, <1>2, <3>1, RootedCut
    <3> QED
      BY <2>2, <3>2, <3>3 DEF CommandLine
  <2> QED
    BY <1>1, <2>1, <2>2 DEF TextLine, CommandLine
<1>5. ASSUME NEW p \in PlacesOf(code') PROVE Lying(code', line', single', jump', source', p)
  <2>1. /\ p \in PlacesOf(code) /\ OpAt(code', p) = OpAt(code, p) /\ p[1] # Len(code')
        /\ code'[p[1]] = code[p[1]]
    BY <1>3
  <2>2. Lying(code, line, single, jump, source, p)
    BY <1>2, <2>1
  <2>3. OpAt(code, p).op = "call" \/ OpAt(code, p).f =>
          \E q \in PlacesOf(code') : OpAt(code', q).op = "sub"
    BY <1>3, <2>2 DEF Lying
  <2> QED
    BY <1>1, <1>4, <2>1, <2>2, <2>3 DEF Lying
<1>6. ASSUME NEW i \in 1 .. Len(line') PROVE Coming(source', line', i)
  <2>1. line' = ln /\ i \in DOMAIN ln
    <3>1. line' # <<>>
      BY <1>6
    <3> QED
      BY <1>1, <1>4, <3>1
  <2>2. source \in Sources
    BY DEF TypeOK
  <2>3. /\ ln[i].k = "for" => i = Len(ln) /\ ln[i].v \in Vars /\ HasFor(source)
        /\ ln[i].k \in LoopOps /\ HasFor(source) => ~ln[i].f
    BY <2>1, <2>2 DEF Tame, HasFor, LoopOps
  <2> QED
    BY <1>1, <2>1, <2>3 DEF Coming
<1>7. SubLies(code', line', single', sub')
  <2>1. ASSUME NEW i \in 1 .. Len(line'), line'[i].k = "sub" PROVE sub = NoSub
    <3>1. line' # <<>>
      BY <2>1
    <3>2. line' = ln /\ i \in DOMAIN ln
      BY <1>1, <1>4, <2>1, <3>1
    <3> QED
      BY <1>1, <2>1, <3>2
  <2>2. \A p \in PlacesOf(code') : p \in PlacesOf(code) /\ OpAt(code', p) = OpAt(code, p)
    BY <1>3
  <2> QED
    BY <1>1, <1>2, <1>3, <2>1, <2>2 DEF SubLies
<1> QED
  BY <1>4, <1>5, <1>6, <1>7 DEF Laid

\* A program without lines is laid out.
LEMMA LaidEmpty ==
  ASSUME NEW sg, NEW jp, NEW src
  PROVE  Laid(<<>>, <<>>, sg, jp, NoSub, src, <<>>)
<1>1. PlacesOf(<<>>) = {} /\ 1 .. Len(<<>>) = {}
  BY DEF PlacesOf
<1>2. SubLies(<<>>, <<>>, sg, NoSub)
  BY <1>1 DEF SubLies
<1>3. Rooted(<<>>)
  BY <1>1 DEF Rooted
<1> QED
  BY <1>1, <1>2, <1>3 DEF Laid

LEMMA LaidSame ==
  ASSUME LaidOut, UNCHANGED <<code, line, single, jump, sub, source, blocks>>,
         ~errors' => ~errors, phase' \in {"parse", "run"} => phase \in {"parse", "run"}
  PROVE  LaidOut'
BY DEF LaidOut

LEMMA LaidBegins ==
  ASSUME code = <<>>, line = <<>>, sub = NoSub, blocks = <<>>
  PROVE  LaidOut
<1>1. Laid(code, line, single, jump, sub, source, blocks)
  BY LaidEmpty
<1> QED
  BY <1>1 DEF LaidOut

\* LaidOut is inductive, with the invariants of ControlFlow_proofs.
LEMMA LaidNext ==
  ASSUME Tame, TypeOK, Owned, Nesting, LaidOut, [Next]_vars
  PROVE  LaidOut'
<1>1. CASE \E ln \in source : StartLine(ln)
  BY <1>1, LaidStart
<1>2. CASE Command
  BY <1>2, LaidCommand
<1>3. CASE Finish
  <2>1. /\ UNCHANGED <<code, line, single, jump, sub, source, blocks>> /\ phase = "parse"
        /\ (~errors' => ~errors)
    BY <1>3 DEF Finish
  <2> QED
    BY <2>1, LaidSame
<1>4. CASE Again
  <2>1. code' = <<>> /\ line' = <<>> /\ sub' = NoSub /\ blocks' = <<>>
    BY <1>4 DEF Again
  <2>2. Laid(code', line', single', jump', sub', source', blocks')
    BY <2>1, LaidEmpty
  <2> QED
    BY <2>2 DEF LaidOut
<1>5. CASE UNCHANGED vars
  <2>1. UNCHANGED <<code, line, single, jump, sub, source, blocks, errors, phase>>
    BY <1>5 DEF vars
  <2> QED
    BY <2>1, LaidSame
<1> QED
  BY <1>1, <1>2, <1>3, <1>4, <1>5 DEF Next, Parse

-----------------------------------------------------------------------------
(* Where control goes from an opcode of a program that is compiled, and    *)
(* that it does not leave a subroutine otherwise than by its END SUB.      *)

\* Where control is: at a, with srclin s and offset q for the line to come.
Spot == (Nat \ {0}) \X (Nat \ {0})

\* The place control is at once the pending jump is taken.
WhereIn(cd, a, s, q) ==
  IF a[1] <= Len(cd) /\ a[2] > Len(cd[a[1]]) THEN <<s + 1, q + 1>> ELSE a

\* In the subroutine, and not behind its END SUB.
Inside(sb, a) == /\ sb.start < a[1] /\ a[1] <= sb.end
                 /\ (a[1] = sb.end => a[2] = 1)
Within(sb, p) == Inside(sb, p) /\ p[1] < sb.end

\* A program that runs, with the matching of its blocks.
Prog(cd, jp, sg, sb, src, c, g) ==
  /\ cd \in Codes /\ Closed(cd, c, g) /\ Jumps(cd, jp, c, g)
  /\ Laid(cd, <<>>, sg, jp, sb, src, <<>>) /\ sb \in [start : Nat, end : Nat]
  /\ \A p \in DOMAIN jp : jp[p] \in PlaceType

\* Behind a line is the next one.
LEMMA NormBeyond ==
  ASSUME NEW cd \in Codes, NEW a \in Spot, a[1] <= Len(cd), a[2] > Len(cd[a[1]])
  PROVE  NormIn(cd, <<a[1] + 1, 1>>) = NormIn(cd, a)
<1>1. a[1] \in 1 .. Len(cd) /\ Len(cd) \in Nat /\ a[2] \in Nat \ {0} /\ a = <<a[1], a[2]>>
  BY PlaceFacts DEF Spot
<1>2. Len(cd[a[1]]) \in Nat
  BY <1>1, PlaceFacts
<1>3. ASSUME NEW q \in PlacesOf(cd)
      PROVE  Lt(q, <<a[1] + 1, 1>>) <=> Lt(q, a)
  <2>1. q[1] \in 1 .. Len(cd) /\ q[2] \in 1 .. Len(cd[q[1]]) /\ Len(cd[q[1]]) \in Nat
    BY PlaceFacts
  <2>2. PICK l, k, m, n : l = q[1] /\ k = q[2] /\ m = a[1] /\ n = a[2]
    OBVIOUS
  <2>3. l \in Nat /\ m \in Nat /\ k \in Nat /\ n \in Nat /\ k >= 1 /\ (l = m => k < n)
    BY <1>1, <1>2, <2>1, <2>2
  <2>4. Lt(q, <<a[1] + 1, 1>>) <=> l < m + 1 \/ (l = m + 1 /\ k < 1)
    BY <2>2 DEF Lt
  <2>5. Lt(q, a) <=> l < m \/ (l = m /\ k < n)
    BY <2>2 DEF Lt
  <2> QED
    BY <2>3, <2>4, <2>5
<1>4. {q \in PlacesOf(cd) : ~Lt(q, <<a[1] + 1, 1>>)} = {q \in PlacesOf(cd) : ~Lt(q, a)}
  BY <1>3
<1> QED
  BY <1>4 DEF NormIn

\* A line number and an offset that have not been changed.
LEMMA WhereNorm ==
  ASSUME NEW cd \in Codes, NEW a \in Spot, NEW s, NEW q, s = a[1], q = 0, NEW w, w = WhereIn(cd, a, s, q)
  PROVE  /\ w \in Spot /\ NormIn(cd, w) = NormIn(cd, a)
         /\ \A sb \in [start : Nat, end : Nat] :
              Inside(sb, a) /\ <<sb.end, 1>> \in PlacesOf(cd) => Inside(sb, w)
<1>1. a[1] \in Nat \ {0} /\ a[2] \in Nat \ {0} /\ a = <<a[1], a[2]>>
  BY DEF Spot
<1>2. CASE a[1] <= Len(cd) /\ a[2] > Len(cd[a[1]])
  <2>1. w = <<a[1] + 1, 1>>
    BY <1>2 DEF WhereIn
  <2>2. w \in Spot
    BY <1>1, <2>1 DEF Spot
  <2>3. NormIn(cd, w) = NormIn(cd, a)
    BY <1>2, <2>1, NormBeyond
  <2>4. ASSUME NEW sb \in [start : Nat, end : Nat], Inside(sb, a), <<sb.end, 1>> \in PlacesOf(cd)
        PROVE  Inside(sb, w)
    <3>1. PICK k : k = <<sb.end, 1>>
      OBVIOUS
    <3>2. k[1] = sb.end /\ k[2] = 1 /\ k \in PlacesOf(cd)
      BY <2>4, <3>1
    <3>3. sb.end \in 1 .. Len(cd) /\ 1 \in 1 .. Len(cd[sb.end]) /\ Len(cd[sb.end]) \in Nat
      BY <3>2, PlaceFacts
    <3>4. a[1] # sb.end
      BY <1>2, <2>4, <3>3 DEF Inside
    <3>5. sb.start \in Nat /\ sb.end \in Nat
      OBVIOUS
    <3>6. sb.start < a[1] + 1 /\ a[1] + 1 <= sb.end
      BY <1>1, <2>4, <3>4, <3>5 DEF Inside
    <3> QED
      BY <2>1, <3>6 DEF Inside
  <2> QED
    BY <2>2, <2>3, <2>4
<1>3. CASE ~(a[1] <= Len(cd) /\ a[2] > Len(cd[a[1]]))
  BY <1>3 DEF WhereIn
<1> QED
  BY <1>2, <1>3

\* Places of opcodes and where control is.
LEMMA PlaceSpot ==
  ASSUME NEW cd \in Codes, NEW p \in PlacesOf(cd)
  PROVE  /\ p \in Spot /\ p \in PlaceType /\ p = <<p[1], p[2]>> /\ p[1] \in Nat \ {0}
         /\ p[2] \in Nat \ {0} /\ p[1] <= Len(cd) /\ p[2] <= Len(cd[p[1]]) /\ Len(cd[p[1]]) \in Nat
         /\ \A s, q : WhereIn(cd, p, s, q) = p
         /\ Next1(p) \in Spot /\ Next1(p) = <<p[1], p[2] + 1>>
<1>1. /\ p = <<p[1], p[2]>> /\ p[1] \in 1 .. Len(cd) /\ p[2] \in 1 .. Len(cd[p[1]])
      /\ Len(cd[p[1]]) \in Nat /\ Len(cd) \in Nat /\ p \in PlaceType
  BY PlaceFacts
<1>2. p[1] \in Nat \ {0} /\ p[2] \in Nat \ {0} /\ p[1] <= Len(cd) /\ p[2] <= Len(cd[p[1]])
  BY <1>1
<1>3. p \in Spot /\ Next1(p) \in Spot
  BY <1>1, <1>2 DEF Spot, Next1
<1>4. ASSUME NEW s, NEW q PROVE WhereIn(cd, p, s, q) = p
  BY <1>1, <1>2 DEF WhereIn
<1> QED
  BY <1>1, <1>2, <1>3, <1>4 DEF Next1

\* The subroutine of a program, which is one pair of the matching.
SubPair(cd, sb, c) ==
  /\ <<sb.start, 1>> \in PlacesOf(cd) /\ <<sb.end, 1>> \in PlacesOf(cd)
  /\ OpAt(cd, <<sb.start, 1>>).op = "sub" /\ OpAt(cd, <<sb.end, 1>>).op = "endsub"
  /\ Len(cd[sb.start]) = 1 /\ Len(cd[sb.end]) = 1 /\ sb.start < sb.end
  /\ <<sb.start, 1>> \in Openers(cd) /\ c[<<sb.start, 1>>] = <<sb.end, 1>>
  /\ \A p \in PlacesOf(cd) : OpAt(cd, p).op = "sub" => p = <<sb.start, 1>>

\* A program with a SUB has the one pair that Run knows.
LEMMA HasSub ==
  ASSUME NEW cd, NEW jp, NEW sg, NEW sb, NEW src, NEW c, NEW g, Prog(cd, jp, sg, sb, src, c, g),
         sb # NoSub \/ \E p \in PlacesOf(cd) : OpAt(cd, p).op = "sub"
  PROVE  SubPair(cd, sb, c)
<1>1. /\ cd \in Codes /\ Closed(cd, c, g) /\ SubLies(cd, <<>>, sg, sb)
      /\ \A p \in PlacesOf(cd) : Lying(cd, <<>>, sg, jp, src, p)
      /\ sb \in [start : Nat, end : Nat]
  BY DEF Prog, Laid
<1>2. /\ DOMAIN c = Openers(cd) /\ \A o \in Openers(cd) : Pair(cd, o, c[o]) /\ Lt(o, c[o])
      /\ \A k \in Closings(cd) : \E o \in Openers(cd) : c[o] = k
  BY <1>1, AllClosedFacts DEF Closed, AllClosed, Typed
<1>3. sb # NoSub
  <2>1. SUFFICES ASSUME NEW p \in PlacesOf(cd), OpAt(cd, p).op = "sub" PROVE sb # NoSub
    OBVIOUS
  <2>2. p \in Openers(cd)
    BY <2>1 DEF Openers, IsOpener
  <2>3. Pair(cd, p, c[p])
    BY <1>2, <2>2
  <2>4. c[p] \in PlacesOf(cd) /\ OpAt(cd, c[p]).op = "endsub"
    BY <2>1, <2>3 DEF Pair, LoopOps
  <2> QED
    BY <1>1, <2>4 DEF SubLies
<1>4. PICK u, k : u = <<sb.start, 1>> /\ k = <<sb.end, 1>>
  OBVIOUS
<1>5. /\ u \in PlacesOf(cd) /\ OpAt(cd, u).op = "sub" /\ k \in PlacesOf(cd) /\ OpAt(cd, k).op = "endsub"
      /\ \A p \in PlacesOf(cd) : OpAt(cd, p).op = "sub" => p = u
  BY <1>1, <1>3, <1>4 DEF SubLies
<1>6. u \in Openers(cd)
  BY <1>5 DEF Openers, IsOpener
<1>7. k \in Closings(cd)
  BY <1>5 DEF Closings, ClosersOf, RealClosers, IsCloser
<1>8. PICK o \in Openers(cd) : c[o] = k
  BY <1>2, <1>7
<1>9. o = u
  <2>1. Pair(cd, o, k) /\ o \in PlacesOf(cd)
    BY <1>2, <1>8 DEF Openers
  <2>2. OpAt(cd, o).op = "sub"
    BY <1>5, <2>1 DEF Pair
  <2> QED
    BY <1>5, <2>1, <2>2
<1>10. Len(cd[sb.start]) = 1 /\ Len(cd[sb.end]) = 1
  <2>1. Len(cd[u[1]]) = 1 /\ Len(cd[k[1]]) = 1
    BY <1>1, <1>5 DEF Lying, Alone
  <2> QED
    BY <1>4, <2>1
<1>11. sb.start < sb.end
  <2>1. Lt(u, k) /\ sb.start \in Nat /\ sb.end \in Nat
    BY <1>1, <1>2, <1>6, <1>8, <1>9
  <2> QED
    BY <1>4, <2>1 DEF Lt
<1> QED
  BY <1>4, <1>5, <1>6, <1>8, <1>9, <1>10, <1>11 DEF SubPair

\* Between SUB and END SUB.
LEMMA WithinIs ==
  ASSUME NEW cd \in Codes, NEW sb \in [start : Nat, end : Nat], NEW c, SubPair(cd, sb, c),
         NEW u, u = <<sb.start, 1>>, NEW k, k = <<sb.end, 1>>, NEW x \in PlaceType,
         x \in PlacesOf(cd) \/ x[2] = 0
  PROVE  /\ Lt(u, x) /\ Lt(x, k) => sb.start < x[1] /\ x[1] <= sb.end /\ (x[1] = sb.end => x[2] = 0)
         /\ x \in PlacesOf(cd) => (Within(sb, x) <=> Lt(u, x) /\ Lt(x, k))
<1>1. /\ u[1] = sb.start /\ u[2] = 1 /\ k[1] = sb.end /\ k[2] = 1
      /\ sb.start \in Nat /\ sb.end \in Nat /\ x[1] \in Nat /\ x[2] \in Nat
      /\ Len(cd[sb.start]) = 1 /\ Len(cd[sb.end]) = 1
  BY DEF SubPair, PlaceType
<1>2. x \in PlacesOf(cd) => x[2] \in 1 .. Len(cd[x[1]])
  BY PlaceFacts
<1>3. x[1] = sb.start \/ x[1] = sb.end => x[2] <= 1
  <2>1. CASE x \in PlacesOf(cd) /\ (x[1] = sb.start \/ x[1] = sb.end)
    <3>1. Len(cd[x[1]]) = 1
      BY <1>1, <2>1
    <3>2. x[2] \in 1 .. 1
      BY <1>2, <2>1, <3>1
    <3> QED
      BY <3>2
  <2> QED
    BY <2>1
<1>4. Lt(u, x) /\ Lt(x, k) => sb.start < x[1] /\ x[1] <= sb.end /\ (x[1] = sb.end => x[2] = 0)
  BY <1>1, <1>3 DEF Lt
<1>5. x \in PlacesOf(cd) => x[2] >= 1
  BY <1>2, <1>1
<1>6. x \in PlacesOf(cd) => (Within(sb, x) <=> Lt(u, x) /\ Lt(x, k))
  BY <1>1, <1>3, <1>5 DEF Lt, Within, Inside
<1> QED
  BY <1>4, <1>6

\* What a jump that lands on such an opcode, or closer, leads to.
LEMMA LandsWithin ==
  ASSUME NEW cd \in Codes, NEW sb \in [start : Nat, end : Nat], NEW c, SubPair(cd, sb, c),
         NEW u, u = <<sb.start, 1>>, NEW k, k = <<sb.end, 1>>, NEW x \in PlaceType,
         x \in PlacesOf(cd) \/ x[2] = 0, Lt(u, x), Lt(x, k), NEW t, Lands(cd, {}, t, x)
  PROVE  Inside(sb, <<t[1], t[2] + 1>>)
<1>1. /\ sb.start < x[1] /\ x[1] <= sb.end /\ (x[1] = sb.end => x[2] = 0)
      /\ sb.start \in Nat /\ sb.end \in Nat /\ x[1] \in Nat /\ x[2] \in Nat
  BY WithinIs DEF PlaceType
<1>2. CASE t = x
  <2>1. x[1] = sb.end => x[2] + 1 = 1
    BY <1>1
  <2> QED
    BY <1>1, <1>2, <2>1 DEF Inside
<1>3. CASE t = <<x[1] + 1, 0>> /\ LastOn(cd, {}, x)
  <2>1. x \in PlacesOf(cd)
    BY <1>3 DEF LastOn
  <2>2. x[2] \in 1 .. Len(cd[x[1]]) /\ Len(cd[x[1]]) \in Nat
    BY <2>1, PlaceFacts
  <2>3. x[1] + 1 <= sb.end /\ sb.start < x[1] + 1
    BY <1>1, <2>2
  <2>4. t[1] = x[1] + 1 /\ t[2] + 1 = 1
    BY <1>3
  <2> QED
    BY <2>3, <2>4 DEF Inside
<1> QED
  BY <1>2, <1>3 DEF Lands

\* Blocks lie in the subroutine or apart from it.
LEMMA BlockWithin ==
  ASSUME NEW cd \in Codes, NEW sb \in [start : Nat, end : Nat], NEW c, NEW g, Closed(cd, c, g),
         SubPair(cd, sb, c), NEW u, u = <<sb.start, 1>>, NEW k, k = <<sb.end, 1>>
  PROVE  /\ \A o \in Openers(cd) : Lt(u, o) /\ Lt(o, k) => Lt(c[o], k)
         /\ \A o \in Openers(cd) : Lt(u, c[o]) /\ Lt(c[o], k) => Lt(u, o)
         /\ \A x \in Marks(cd) : OpAt(cd, g[x]).op = "if" /\ Lt(u, x) /\ Lt(x, k) =>
              Lt(c[g[x]], k) /\ Lt(x, c[g[x]])
<1>1. /\ Openers(cd) \subseteq PlaceType /\ Closings(cd) \subseteq PlaceType
      /\ Marks(cd) \subseteq PlaceType
      /\ \A o \in Openers(cd) : c[o] \in Closings(cd) /\ Lt(o, c[o])
      /\ \A o, p \in Openers(cd) : Lt(o, p) /\ Lt(p, c[o]) => Lt(c[p], c[o])
      /\ \A x \in Marks(cd) : /\ g[x] \in Openers(cd) /\ (x = g[x] \/ Lt(g[x], x)) /\ Lt(x, c[g[x]])
                              /\ \A p \in Openers(cd) : Lt(g[x], p) /\ Lt(p, x) => Lt(c[p], x)
  BY AllClosedFacts DEF Closed
<1>2. u \in Openers(cd) /\ c[u] = k /\ OpAt(cd, u).op = "sub" /\ u \in PlaceType /\ k \in PlaceType
  BY <1>1 DEF SubPair
<1>3. ASSUME NEW o \in Openers(cd), Lt(u, o), Lt(o, k) PROVE Lt(c[o], k)
  BY <1>1, <1>2, <1>3
<1>4. ASSUME NEW o \in Openers(cd), Lt(u, c[o]), Lt(c[o], k) PROVE Lt(u, o)
  <2>1. o # u
    BY <1>1, <1>2, <1>4, LtOrder
  <2>2. CASE Lt(o, u)
    <3>1. Lt(k, c[o])
      BY <1>1, <1>2, <1>4, <2>2
    <3> QED
      BY <1>1, <1>2, <1>4, <3>1, LtOrder
  <2> QED
    BY <1>1, <1>2, <2>1, <2>2, LtOrder
<1>5. ASSUME NEW x \in Marks(cd), OpAt(cd, g[x]).op = "if", Lt(u, x), Lt(x, k)
      PROVE  Lt(c[g[x]], k) /\ Lt(x, c[g[x]])
  <2>1. PICK o : o = g[x]
    OBVIOUS
  <2>2. /\ o \in Openers(cd) /\ (x = o \/ Lt(o, x)) /\ Lt(x, c[o]) /\ o # u
        /\ x \in PlaceType /\ o \in PlaceType
    BY <1>1, <1>2, <1>5, <2>1
  <2>3. ~Lt(o, u)
    <3>1. SUFFICES ASSUME Lt(o, u) PROVE FALSE
      OBVIOUS
    <3>2. Lt(k, x)
      BY <1>1, <1>2, <1>5, <2>1, <3>1
    <3> QED
      BY <1>2, <1>5, <2>2, <3>2, LtOrder
  <2>4. Lt(u, o)
    BY <1>2, <2>2, <2>3, LtOrder
  <2>5. Lt(o, k)
    BY <1>2, <1>5, <2>2, LtOrder
  <2> QED
    BY <1>3, <2>1, <2>2, <2>4, <2>5
<1> QED
  BY <1>3, <1>4, <1>5

-----------------------------------------------------------------------------
\* From p control goes to x: a, s and q are the line and opcode, the line number and the
\* offset after the step.
Moved(cd, sb, p, a, s, q, x) ==
  /\ a \in Spot /\ s \in Nat /\ q \in Nat
  /\ a \in PlacesOf(cd) => s = a[1] /\ q = 0
  /\ WhereIn(cd, a, s, q) \in Spot /\ NormIn(cd, WhereIn(cd, a, s, q)) = NormIn(cd, x)
  /\ Within(sb, p) => Inside(sb, a) /\ Inside(sb, WhereIn(cd, a, s, q))

\* A change of the line and opcode only.
LEMMA MovesTo ==
  ASSUME NEW cd \in Codes, NEW sb \in [start : Nat, end : Nat], NEW p, NEW a \in Spot,
         NEW s, NEW q, s = a[1], q = 0, 
         Within(sb, p) => Inside(sb, a) /\ <<sb.end, 1>> \in PlacesOf(cd)
  PROVE  Moved(cd, sb, p, a, s, q, a)
<1>1. s \in Nat /\ q \in Nat
  BY DEF Spot
<1>2. PICK w : w = WhereIn(cd, a, s, q)
  OBVIOUS
<1>3. /\ w \in Spot /\ NormIn(cd, w) = NormIn(cd, a)
      /\ Inside(sb, a) /\ <<sb.end, 1>> \in PlacesOf(cd) => Inside(sb, w)
  BY <1>2, WhereNorm
<1> QED
  BY <1>1, <1>2, <1>3 DEF Moved

\* A change of the line number and offset at the end of a line.
LEMMA MovesOff ==
  ASSUME NEW cd \in Codes, NEW sb \in [start : Nat, end : Nat], NEW p \in PlacesOf(cd),
         p[2] = Len(cd[p[1]]), NEW a, a = Next1(p), NEW s \in Nat, NEW q \in Nat, NEW x,
         x = <<s + 1, q + 1>>, Within(sb, p) => Inside(sb, x)
  PROVE  Moved(cd, sb, p, a, s, q, x) /\ WhereIn(cd, a, s, q) = x
<1>1. /\ a \in Spot /\ a = <<p[1], p[2] + 1>> /\ p[1] <= Len(cd) /\ p[2] \in Nat \ {0}
      /\ p[1] \in Nat \ {0}
  BY PlaceSpot
<1>2. a[1] = p[1] /\ a[2] = p[2] + 1
  BY <1>1
<1>3. a[1] <= Len(cd) /\ a[2] > Len(cd[a[1]])
  BY <1>1, <1>2
<1>4. WhereIn(cd, a, s, q) = x
  BY <1>3 DEF WhereIn
<1>5. a \notin PlacesOf(cd)
  BY <1>1, <1>2, <1>3, PlaceFacts
<1>6. x \in Spot
  BY DEF Spot
<1>7. Within(sb, p) => Inside(sb, a)
  <2>1. SUFFICES ASSUME Within(sb, p) PROVE Inside(sb, a)
    OBVIOUS
  <2>2. sb.start < p[1] /\ p[1] < sb.end /\ sb.end \in Nat
    BY <2>1 DEF Within, Inside
  <2> QED
    BY <1>1, <1>2, <2>2 DEF Inside
<1> QED
  BY <1>1, <1>4, <1>5, <1>6, <1>7 DEF Moved

\* What is known of an opcode at its place.
LEMMA ProgFacts ==
  ASSUME NEW cd, NEW jp, NEW sg, NEW sb, NEW src, NEW c, NEW g, Prog(cd, jp, sg, sb, src, c, g),
         NEW p \in PlacesOf(cd)
  PROVE  /\ cd \in Codes /\ Closed(cd, c, g) /\ sb \in [start : Nat, end : Nat]
         /\ Lying(cd, <<>>, sg, jp, src, p)
         /\ p \in DOMAIN jp => Done(cd, {}, jp, c, g, p) /\ jp[p] \in PlaceType
         /\ Within(sb, p) => SubPair(cd, sb, c)
<1>1. sb \in [start : Nat, end : Nat]
  BY DEF Prog
<1>2. Within(sb, p) => sb # NoSub
  BY <1>1, PlaceSpot DEF Within, Inside, NoSub, Prog
<1>3. Within(sb, p) => SubPair(cd, sb, c)
  BY <1>2, HasSub
<1> QED
  BY <1>1, <1>3 DEF Prog, Laid, Jumps

\* Control that goes on to the next opcode.
LEMMA MoveOn ==
  ASSUME NEW cd, NEW jp, NEW sg, NEW sb, NEW src, NEW c, NEW g, Prog(cd, jp, sg, sb, src, c, g),
         NEW p \in PlacesOf(cd), NEW s, NEW q, s = p[1], q = 0
  PROVE  Moved(cd, sb, p, Next1(p), s, q, Next1(p))
<1>1. cd \in Codes /\ sb \in [start : Nat, end : Nat] /\ (Within(sb, p) => SubPair(cd, sb, c))
  BY ProgFacts
<1>2. PICK a : a = Next1(p)
  OBVIOUS
<1>3. a \in Spot /\ a[1] = p[1]
  BY <1>1, <1>2, PlaceSpot
<1>4. Within(sb, p) => Inside(sb, a) /\ <<sb.end, 1>> \in PlacesOf(cd)
  <2>1. SUFFICES ASSUME Within(sb, p) PROVE Inside(sb, a) /\ <<sb.end, 1>> \in PlacesOf(cd)
    OBVIOUS
  <2>2. sb.start < p[1] /\ p[1] < sb.end /\ sb.end \in Nat
    BY <1>1, <2>1 DEF Within, Inside
  <2>3. Inside(sb, a)
    BY <1>1, <1>3, <2>2, PlaceSpot DEF Inside
  <2> QED
    BY <1>1, <2>1, <2>3 DEF SubPair
<1>5. Moved(cd, sb, p, a, s, q, a)
  BY <1>1, <1>3, <1>4, MovesTo
<1> QED
  BY <1>2, <1>5

\* Where the jump of an IF or ELSE lands.
LEMMA BranchLands ==
  ASSUME NEW cd, NEW jp, NEW sg, NEW sb, NEW src, NEW c, NEW g, Prog(cd, jp, sg, sb, src, c, g),
         NEW p \in PlacesOf(cd), OpAt(cd, p).op \in {"if", "else"}, NEW t, t = jp[p]
  PROVE  \E x \in PlaceType :
           /\ x \in PlacesOf(cd) \/ x[2] = 0
           /\ x[1] \in 1 .. Len(cd) /\ Lands(cd, {}, t, x)
           /\ Within(sb, p) => /\ Lt(<<sb.start, 1>>, x) /\ Lt(x, <<sb.end, 1>>)
                               /\ SubPair(cd, sb, c)
<1>1. /\ cd \in Codes /\ Closed(cd, c, g) /\ sb \in [start : Nat, end : Nat]
      /\ Lying(cd, <<>>, sg, jp, src, p)
      /\ p \in DOMAIN jp => Done(cd, {}, jp, c, g, p) /\ jp[p] \in PlaceType
      /\ Within(sb, p) => SubPair(cd, sb, c)
  BY ProgFacts
<1>2. Done(cd, {}, jp, c, g, p) /\ p \in PlaceType
  BY <1>1, PlaceSpot DEF Lying, Jumping
<1>3. /\ OfIf(cd, g, p)
      /\ IfDone(cd, {}, jp, c, g, p) \/ ElseDone(cd, {}, jp, c, g, p)
  BY <1>2 DEF Done, LoopOps
<1>4. p \in Marks(cd)
  BY DEF Marks, Ifs, Elses
<1>5. /\ Closings(cd) \subseteq PlaceType /\ Marks(cd) \subseteq PlaceType
      /\ \A o \in Openers(cd) : c[o] \in Closings(cd)
      /\ \A x \in Marks(cd) : g[x] \in Openers(cd) /\ Lt(x, c[g[x]])
  BY <1>1, AllClosedFacts DEF Closed
<1>6. PICK u, k : u = <<sb.start, 1>> /\ k = <<sb.end, 1>>
  OBVIOUS
<1>7. u \in PlaceType /\ k \in PlaceType
  BY <1>1, <1>6 DEF PlaceType
<1>8. Within(sb, p) => Lt(u, p) /\ Lt(p, k)
  <2>1. SUFFICES ASSUME Within(sb, p) PROVE Lt(u, p) /\ Lt(p, k)
    OBVIOUS
  <2>2. sb.start < p[1] /\ p[1] < sb.end
    BY <2>1 DEF Within, Inside
  <2> QED
    BY <1>6, <2>2 DEF Lt
<1>9. CASE \E e \in Elses(cd) : g[e] = g[p] /\ Lt(p, e) /\ Lands(cd, {}, jp[p], e)
  <2>1. PICK e \in Elses(cd) : g[e] = g[p] /\ Lt(p, e) /\ Lands(cd, {}, jp[p], e)
    BY <1>9
  <2>2. e \in PlacesOf(cd) /\ e \in Marks(cd) /\ e \in PlaceType
    BY <1>5 DEF Elses, Marks
  <2>3. e[1] \in 1 .. Len(cd)
    BY <1>1, <2>2, PlaceFacts
  <2>4. ASSUME Within(sb, p) PROVE Lt(u, e) /\ Lt(e, k)
    <3>1. Lt(u, p) /\ Lt(p, k) /\ SubPair(cd, sb, c)
      BY <1>1, <1>8, <2>4
    <3>2. Lt(c[g[p]], k)
      BY <1>1, <1>3, <1>4, <1>6, <3>1, BlockWithin DEF OfIf
    <3>3. Lt(e, c[g[p]]) /\ c[g[p]] \in PlaceType
      BY <1>4, <1>5, <2>1, <2>2
    <3> QED
      BY <1>2, <1>7, <2>1, <2>2, <3>1, <3>2, <3>3, LtOrder
  <2> QED
    BY <1>1, <1>6, <2>1, <2>2, <2>3, <2>4
<1>10. CASE Lands(cd, {}, jp[p], c[g[p]])
  <2>1. PICK x : x = c[g[p]]
    OBVIOUS
  <2>2. x \in Closings(cd) /\ x \in PlaceType /\ Lt(p, x)
    BY <1>4, <1>5, <2>1
  <2>3. (x \in PlacesOf(cd) \/ x[2] = 0) /\ x[1] \in 1 .. Len(cd)
    BY <1>1, <2>2, ClosersPlaces DEF Closings
  <2>4. ASSUME Within(sb, p) PROVE Lt(u, x) /\ Lt(x, k)
    <3>1. Lt(u, p) /\ Lt(p, k) /\ SubPair(cd, sb, c)
      BY <1>1, <1>8, <2>4
    <3>2. Lt(x, k)
      BY <1>1, <1>3, <1>4, <1>6, <2>1, <3>1, BlockWithin DEF OfIf
    <3> QED
      BY <1>2, <1>7, <2>2, <3>1, <3>2, LtOrder
  <2> QED
    BY <1>1, <1>6, <1>10, <2>1, <2>2, <2>3, <2>4
<1> QED
  BY <1>3, <1>9, <1>10 DEF IfDone, ElseDone

\* IF and ELSE: behind the opcode that the jump names.
LEMMA MoveBranch ==
  ASSUME NEW cd, NEW jp, NEW sg, NEW sb, NEW src, NEW c, NEW g, Prog(cd, jp, sg, sb, src, c, g),
         NEW p \in PlacesOf(cd), OpAt(cd, p).op \in {"if", "else"}, NEW t, t = jp[p],
         NEW a, a = <<t[1], t[2] + 1>>, NEW q, q = 0
  PROVE  Moved(cd, sb, p, a, t[1], q, a)
<1>1. PICK x \in PlaceType :
           /\ x \in PlacesOf(cd) \/ x[2] = 0
           /\ x[1] \in 1 .. Len(cd) /\ Lands(cd, {}, t, x)
           /\ Within(sb, p) => /\ Lt(<<sb.start, 1>>, x) /\ Lt(x, <<sb.end, 1>>)
                               /\ SubPair(cd, sb, c)
  BY BranchLands
<1>2. cd \in Codes /\ sb \in [start : Nat, end : Nat]
  BY ProgFacts
<1>3. a \in Spot
  <2>1. x[1] \in Nat \ {0} /\ x[2] \in Nat
    BY <1>1, <1>2, PlaceFacts DEF PlaceType
  <2>2. t[1] \in Nat \ {0} /\ t[2] \in Nat
    BY <1>1, <2>1 DEF Lands
  <2> QED
    BY <2>2 DEF Spot
<1>4. Within(sb, p) => Inside(sb, a) /\ <<sb.end, 1>> \in PlacesOf(cd)
  <2>1. SUFFICES ASSUME Within(sb, p) PROVE Inside(sb, a) /\ <<sb.end, 1>> \in PlacesOf(cd)
    OBVIOUS
  <2>2. Inside(sb, a)
    BY <1>1, <1>2, <2>1, LandsWithin
  <2> QED
    BY <1>1, <2>1, <2>2 DEF SubPair
<1>5. PICK s : s = t[1]
  OBVIOUS
<1>6. s = a[1]
  BY <1>5
<1>7. Moved(cd, sb, p, a, s, q, a)
  BY <1>2, <1>3, <1>4, <1>6, MovesTo
<1> QED
  BY <1>5, <1>7

\* A loop that ends: the line behind its NEXT.
LEMMA MoveLoop ==
  ASSUME NEW cd, NEW jp, NEW sg, NEW sb, NEW src, NEW c, NEW g, Prog(cd, jp, sg, sb, src, c, g),
         NEW p \in PlacesOf(cd), OpAt(cd, p).op \in LoopOps, NEW s, s = jp[p][1], NEW q, q = 0
  PROVE  Moved(cd, sb, p, Next1(p), s, q, <<s + 1, 1>>)
<1>1. /\ cd \in Codes /\ Closed(cd, c, g) /\ sb \in [start : Nat, end : Nat]
      /\ Lying(cd, <<>>, sg, jp, src, p)
      /\ p \in DOMAIN jp => Done(cd, {}, jp, c, g, p) /\ jp[p] \in PlaceType
      /\ Within(sb, p) => SubPair(cd, sb, c)
  BY ProgFacts
<1>2. Done(cd, {}, jp, c, g, p) /\ p \in PlaceType /\ p[2] = Len(cd[p[1]])
  BY <1>1, PlaceSpot DEF Lying, Jumping, LoopOps, Alone
<1>3. LoopDone(cd, {}, jp, c, p)
  BY <1>2 DEF Done, LoopOps
<1>4. PICK x : x = c[p]
  OBVIOUS
<1>5. s = x[1] /\ x \in PlacesOf(cd) /\ p \in Openers(cd)
  BY <1>3, <1>4 DEF LoopDone, LastOn, Openers, IsOpener, LoopOps
<1>6. s \in Nat /\ x \in PlaceType
  BY <1>1, <1>5, PlaceSpot
<1>7. Lt(p, x)
  BY <1>1, <1>4, <1>5, AllClosedFacts DEF Closed
<1>8. Within(sb, p) => Inside(sb, <<s + 1, 1>>)
  <2>1. SUFFICES ASSUME Within(sb, p) PROVE Inside(sb, <<s + 1, 1>>)
    OBVIOUS
  <2>2. PICK u, k : u = <<sb.start, 1>> /\ k = <<sb.end, 1>>
    OBVIOUS
  <2>3. u \in PlaceType /\ k \in PlaceType /\ Lt(u, p) /\ Lt(p, k) /\ SubPair(cd, sb, c)
    BY <1>1, <1>2, <2>1, <2>2, WithinIs DEF PlaceType
  <2>4. Lt(x, k)
    BY <1>1, <1>4, <1>5, <2>2, <2>3, BlockWithin
  <2>5. Lt(u, x)
    BY <1>2, <1>6, <1>7, <2>3, LtOrder
  <2>6. Within(sb, x)
    BY <1>1, <1>5, <1>6, <2>2, <2>3, <2>4, <2>5, WithinIs
  <2>7. sb.start < s /\ s < sb.end /\ sb.end \in Nat /\ sb.start \in Nat
    BY <1>1, <1>5, <2>6 DEF Within, Inside
  <2> QED
    BY <1>6, <2>7 DEF Inside
<1>9. PICK y : y = <<s + 1, q + 1>>
  OBVIOUS
<1>10. y = <<s + 1, 1>> /\ q \in Nat
  BY <1>9
<1>11. Moved(cd, sb, p, Next1(p), s, q, y)
  BY <1>1, <1>2, <1>6, <1>8, <1>9, <1>10, MovesOff
<1> QED
  BY <1>10, <1>11

\* NEXT: the head of its loop, by its line and offset.
LEMMA MoveNext ==
  ASSUME NEW cd, NEW jp, NEW sg, NEW sb, NEW src, NEW c, NEW g, Prog(cd, jp, sg, sb, src, c, g),
         NEW p \in PlacesOf(cd), OpAt(cd, p).op = "next", NEW s, s = jp[p][1] - 1,
         NEW q, q = jp[p][2], NEW x, x = <<jp[p][1], jp[p][2] + 1>>
  PROVE  /\ Moved(cd, sb, p, Next1(p), s, q, x) /\ WhereIn(cd, Next1(p), s, q) = x
         /\ x \in PlacesOf(cd) /\ OpAt(cd, x).op \in LoopOps
<1>1. /\ cd \in Codes /\ Closed(cd, c, g) /\ sb \in [start : Nat, end : Nat]
      /\ Lying(cd, <<>>, sg, jp, src, p)
      /\ p \in DOMAIN jp => Done(cd, {}, jp, c, g, p) /\ jp[p] \in PlaceType
      /\ Within(sb, p) => SubPair(cd, sb, c)
  BY ProgFacts
<1>2. Done(cd, {}, jp, c, g, p) /\ p \in PlaceType /\ p[2] = Len(cd[p[1]]) /\ jp[p] \in PlaceType
  BY <1>1, PlaceSpot DEF Lying, Jumping, Alone
<1>3. NextDone(jp, c, p)
  BY <1>2 DEF Done, LoopOps
<1>4. x \in DOMAIN c /\ c[x] = p
  BY <1>3 DEF NextDone
<1>5. x \in Openers(cd) /\ Pair(cd, x, p) /\ Lt(x, p) /\ x \in PlaceType
  <2>1. x \in Openers(cd) /\ Pair(cd, x, p)
    BY <1>1, <1>4 DEF Closed, AllClosed, Typed
  <2> QED
    BY <1>1, <1>4, <2>1, AllClosedFacts DEF Closed
<1>6. x \in PlacesOf(cd) /\ OpAt(cd, x).op \in LoopOps
  BY <1>5 DEF Pair, Openers
<1>7. s \in Nat /\ q \in Nat /\ x = <<s + 1, q + 1>>
  <2>1. x[1] \in Nat \ {0} /\ x[1] = jp[p][1]
    BY <1>1, <1>6, PlaceSpot
  <2> QED
    BY <1>2, <2>1 DEF PlaceType
<1>8. Within(sb, p) => Inside(sb, x)
  <2>1. SUFFICES ASSUME Within(sb, p) PROVE Inside(sb, x)
    OBVIOUS
  <2>2. PICK u, k : u = <<sb.start, 1>> /\ k = <<sb.end, 1>>
    OBVIOUS
  <2>3. u \in PlaceType /\ k \in PlaceType /\ Lt(u, p) /\ Lt(p, k) /\ SubPair(cd, sb, c)
    BY <1>1, <1>2, <2>1, <2>2, WithinIs DEF PlaceType
  <2>4. Lt(u, x)
    BY <1>1, <1>4, <1>5, <2>2, <2>3, BlockWithin
  <2>5. Lt(x, k)
    BY <1>2, <1>5, <2>3, LtOrder
  <2>6. Within(sb, x)
    BY <1>1, <1>5, <1>6, <2>2, <2>3, <2>4, <2>5, WithinIs
  <2> QED
    BY <2>6 DEF Within
<1>9. PICK a : a = Next1(p)
  OBVIOUS
<1>10. Moved(cd, sb, p, a, s, q, x) /\ WhereIn(cd, a, s, q) = x
  BY <1>1, <1>2, <1>7, <1>8, <1>9, MovesOff
<1> QED
  BY <1>6, <1>9, <1>10

\* SUB: behind its END SUB; a SUB is not inside of itself.
LEMMA MoveSub ==
  ASSUME NEW cd, NEW jp, NEW sg, NEW sb, NEW src, NEW c, NEW g, Prog(cd, jp, sg, sb, src, c, g),
         NEW p \in PlacesOf(cd), OpAt(cd, p).op = "sub", NEW s, s = sb.end, NEW q, q = 0
  PROVE  /\ Moved(cd, sb, p, Next1(p), s, q, <<s + 1, 1>>)
         /\ SubPair(cd, sb, c) /\ p = <<sb.start, 1>> /\ ~Within(sb, p)
<1>1. /\ cd \in Codes /\ Closed(cd, c, g) /\ sb \in [start : Nat, end : Nat]
      /\ Lying(cd, <<>>, sg, jp, src, p)
  BY ProgFacts
<1>2. SubPair(cd, sb, c)
  BY HasSub
<1>3. p = <<sb.start, 1>> /\ p[2] = Len(cd[p[1]]) /\ s \in Nat /\ q \in Nat
  BY <1>1, <1>2 DEF SubPair, Lying, Alone
<1>4. ~Within(sb, p)
  BY <1>1, <1>3 DEF Within, Inside
<1>5. PICK y : y = <<s + 1, q + 1>>
  OBVIOUS
<1>6. y = <<s + 1, 1>>
  BY <1>5
<1>7. Moved(cd, sb, p, Next1(p), s, q, y)
  BY <1>1, <1>3, <1>4, <1>5, MovesOff
<1> QED
  BY <1>2, <1>3, <1>4, <1>6, <1>7

\* RETURN: the END SUB of its subroutine, which it is in.
LEMMA MoveReturn ==
  ASSUME NEW cd, NEW jp, NEW sg, NEW sb, NEW src, NEW c, NEW g, Prog(cd, jp, sg, sb, src, c, g),
         NEW p \in PlacesOf(cd), OpAt(cd, p).op = "return", NEW s, s = jp[p][1] - 1,
         NEW q, q = 0
  PROVE  Moved(cd, sb, p, Next1(p), s, q, <<jp[p][1], 1>>)
<1>1. /\ cd \in Codes /\ Closed(cd, c, g) /\ sb \in [start : Nat, end : Nat]
      /\ Lying(cd, <<>>, sg, jp, src, p)
      /\ p \in DOMAIN jp => Done(cd, {}, jp, c, g, p) /\ jp[p] \in PlaceType
  BY ProgFacts
<1>2. Done(cd, {}, jp, c, g, p) /\ p \in PlaceType /\ p[2] = Len(cd[p[1]])
  BY <1>1, PlaceSpot DEF Lying, Jumping, Alone
<1>3. ReturnDone(cd, jp, c, p)
  BY <1>2 DEF Done, LoopOps
<1>4. PICK o \in DOMAIN c : OpAt(cd, o).op = "sub" /\ c[o] = <<jp[p][1], 1>>
  BY <1>3 DEF ReturnDone
<1>5. o \in Openers(cd) /\ o \in PlacesOf(cd)
  BY <1>1 DEF Closed, AllClosed, Openers
<1>6. SubPair(cd, sb, c)
  BY <1>4, <1>5, HasSub
<1>7. o = <<sb.start, 1>> /\ <<jp[p][1], 1>> = <<sb.end, 1>>
  BY <1>4, <1>5, <1>6 DEF SubPair
<1>8. sb.end \in Nat \ {0} /\ sb.start \in Nat /\ sb.start < sb.end /\ s = sb.end - 1
  <2>1. sb.start < sb.end /\ sb.start \in Nat /\ sb.end \in Nat
    BY <1>1, <1>6 DEF SubPair
  <2> QED
    BY <1>7, <2>1
<1>9. PICK y : y = <<s + 1, q + 1>>
  OBVIOUS
<1>10. y = <<sb.end, 1>> /\ s \in Nat /\ q \in Nat
  BY <1>8, <1>9
<1>11. Inside(sb, y)
  BY <1>8, <1>10 DEF Inside
<1>12. Moved(cd, sb, p, Next1(p), s, q, y)
  BY <1>1, <1>2, <1>9, <1>10, <1>11, MovesOff
<1> QED
  BY <1>7, <1>10, <1>12

\* A call starts behind the SUB.
LEMMA MoveCall ==
  ASSUME NEW cd, NEW jp, NEW sg, NEW sb, NEW src, NEW c, NEW g, Prog(cd, jp, sg, sb, src, c, g),
         NEW p \in PlacesOf(cd), OpAt(cd, p).op = "call" \/ OpAt(cd, p).f,
         NEW a, a = <<sb.start + 1, 1>>, NEW s, s = sb.start + 1, NEW q, q = 0
  PROVE  /\ Moved(cd, sb, p, a, s, q, <<sb.start, 2>>) /\ SubPair(cd, sb, c)
         /\ Inside(sb, a) /\ Inside(sb, WhereIn(cd, a, s, q))
<1>1. /\ cd \in Codes /\ Closed(cd, c, g) /\ sb \in [start : Nat, end : Nat]
      /\ Lying(cd, <<>>, sg, jp, src, p)
  BY ProgFacts
<1>2. \E y \in PlacesOf(cd) : OpAt(cd, y).op = "sub"
  BY <1>1 DEF Lying
<1>3. SubPair(cd, sb, c)
  BY <1>2, HasSub
<1>4. /\ sb.start \in Nat /\ sb.end \in Nat /\ sb.start < sb.end /\ <<sb.end, 1>> \in PlacesOf(cd)
      /\ <<sb.start, 1>> \in PlacesOf(cd) /\ Len(cd[sb.start]) = 1
  BY <1>1, <1>3 DEF SubPair
<1>5. a \in Spot /\ Inside(sb, a) /\ s = a[1]
  BY <1>4 DEF Spot, Inside
<1>6. Moved(cd, sb, p, a, s, q, a)
  BY <1>1, <1>4, <1>5, MovesTo
<1>7. PICK w : w = WhereIn(cd, a, s, q)
  OBVIOUS
<1>8. Inside(sb, w)
  BY <1>1, <1>4, <1>5, <1>7, WhereNorm
<1>9. NormIn(cd, a) = NormIn(cd, <<sb.start, 2>>)
  <2>1. PICK b : b = <<sb.start, 2>>
    OBVIOUS
  <2>2. sb.start \in Nat \ {0} /\ sb.start <= Len(cd)
    <3>1. PICK u : u = <<sb.start, 1>>
      OBVIOUS
    <3>2. u[1] \in Nat \ {0} /\ u[1] <= Len(cd) /\ u[1] = sb.start
      BY <1>1, <1>4, <3>1, PlaceSpot
    <3> QED
      BY <3>2
  <2>3. b \in Spot /\ b[1] <= Len(cd) /\ b[2] > Len(cd[b[1]]) /\ b[1] + 1 = sb.start + 1
    <3>1. b[1] = sb.start /\ b[2] = 2
      BY <2>1
    <3>2. b \in Spot
      BY <2>1, <2>2 DEF Spot
    <3>3. Len(cd[b[1]]) = 1
      BY <1>4, <3>1
    <3> QED
      BY <2>2, <3>1, <3>2, <3>3
  <2>4. NormIn(cd, <<b[1] + 1, 1>>) = NormIn(cd, b)
    BY <1>1, <2>3, NormBeyond
  <2> QED
    BY <2>1, <2>3, <2>4
<1>10. Moved(cd, sb, p, a, s, q, <<sb.start, 2>>)
  BY <1>6, <1>9 DEF Moved
<1> QED
  BY <1>3, <1>5, <1>7, <1>8, <1>10

-----------------------------------------------------------------------------
(* The structured program that a run stands for.                           *)

\* Abs and S read the same program.
LEMMA SameReal == Abs!Real = S!Real /\ (\A p : Abs!At(p) = S!At(p)) /\ Abs!Past = S!Past
BY DEF Abs!Real, S!Real, Abs!At, S!At, Abs!Past, S!Past

\* Structured read by the refinement is Structured read by JumpsNest: the same program.
LEMMA SameFirst == \A T : Abs!First(T) = S!First(T)
BY DEF Abs!First, S!First, Abs!Before, S!Before

LEMMA SameNorm ==
  /\ \A p : Abs!Norm(p) = S!Norm(p)
  /\ \A p : Abs!After(p) = S!After(p)
BY DEF Abs!Norm, S!Norm, Abs!First, S!First, Abs!Real, S!Real, Abs!Before, S!Before,
       Abs!After, S!After, Abs!Past, S!Past

LEMMA SameClosers == Abs!Closers = S!Closers
BY DEF Abs!Closers, S!Closers, Abs!Implied, S!Implied, Abs!Real, S!Real, Abs!ClosesAt, S!ClosesAt,
       Abs!OneLine, S!OneLine, Abs!Starts, S!Starts, Abs!Opens, S!Opens, Abs!At, S!At

LEMMA SameDepth == \A p : Abs!Depth(p) = S!Depth(p)
BY SameClosers DEF Abs!Depth, S!Depth, Abs!Real, S!Real, Abs!Opens, S!Opens, Abs!At, S!At,
       Abs!Before, S!Before, Abs!Cardinality, S!Cardinality

LEMMA SameClose ==
  /\ \A p : Abs!CloseOf(p) = S!CloseOf(p)
  /\ \A p : Abs!ElseOrClose(p) = S!ElseOrClose(p)
  /\ \A p : Abs!OpenOf(p) = S!OpenOf(p)
<1>1. \A p : Abs!Inner(p) = S!Inner(p)
  BY SameDepth DEF Abs!Inner, S!Inner, Abs!Opens, S!Opens, Abs!At, S!At
<1>2. \A p : Abs!CloseOf(p) = S!CloseOf(p)
  BY <1>1, SameClosers, SameDepth, SameFirst DEF Abs!CloseOf, S!CloseOf, Abs!Before, S!Before
<1>3. \A p : Abs!ElseOrClose(p) = S!ElseOrClose(p)
  BY <1>1, SameClosers, SameDepth, SameFirst, ZenonT(30) DEF Abs!ElseOrClose, S!ElseOrClose, Abs!Before, S!Before,
     Abs!Real, S!Real, Abs!Separates, S!Separates, Abs!At, S!At
<1>4. \A p : Abs!OpenOf(p) = S!OpenOf(p)
  BY <1>2, ZenonT(30) DEF Abs!OpenOf, S!OpenOf, Abs!Real, S!Real, Abs!Opens, S!Opens, Abs!At, S!At,
     Abs!Before, S!Before
<1> QED
  BY <1>2, <1>3, <1>4

LEMMA SameReading ==
  /\ \A p : Abs!Behind(p) = S!Behind(p)
  /\ \A p : Abs!IfFalse(p) = S!IfFalse(p)
  /\ Abs!SubPlace = S!SubPlace
  /\ \A p : Abs!SubOf(p) = S!SubOf(p)
<1>1. \A p : Abs!Behind(p) = S!Behind(p)
  BY SameClose, SameNorm DEF Abs!Behind, S!Behind
<1>2. \A p : Abs!IfFalse(p) = S!IfFalse(p)
  BY SameClose, SameNorm DEF Abs!IfFalse, S!IfFalse
<1>3. Abs!SubPlace = S!SubPlace
  BY DEF Abs!SubPlace, S!SubPlace, Abs!Real, S!Real, Abs!At, S!At
<1>4. \A p : Abs!SubOf(p) = S!SubOf(p)
  BY SameClosers, SameFirst DEF Abs!SubOf, S!SubOf, Abs!Real, S!Real, Abs!At, S!At, Abs!Before, S!Before
<1> QED
  BY <1>1, <1>2, <1>3, <1>4

\* The place, the values and the frames of Abs, as functions of the state.
PosIn(ph, cd, a, s, q) ==
  IF ph \in {"run", "done"} THEN NormIn(cd, WhereIn(cd, a, s, q)) ELSE <<1, 1>>
ValsIn(ph, cd, x, jb, vs) ==
  IF ph \in {"run", "done"} /\ jb /\ x \in PlacesOf(cd) /\ OpAt(cd, x).op = "for"
  THEN [vs EXCEPT ![OpAt(cd, x).v] = @ + 1] ELSE vs
FramesIn(cd, fs) ==
  [i \in DOMAIN fs |-> [to |-> NormIn(cd, fs[i].to), evald |-> fs[i].evald]]

\* What the mapping of the refinement says, as functions of the state, now ...
LEMMA ReadPos == code \in Codes => Pos = PosIn(phase, code, at, srclin, pend)
<1> SUFFICES ASSUME code \in Codes PROVE Pos = PosIn(phase, code, at, srclin, pend)
  OBVIOUS
<1>1. Where = WhereIn(code, at, srclin, pend)
  BY DEF Where, WhereIn, cur, nline
<1>2. nline \in Nat /\ nline = Len(code)
  BY PlaceFacts DEF nline
<1>3. CASE nline > 0
  BY <1>1, <1>3, ReadNorm DEF Pos, PosIn
<1>4. CASE nline = 0
  <2>1. PlacesOf(code) = {}
    <3>1. \A p \in PlacesOf(code) : p[1] \in 1 .. Len(code)
      BY PlaceFacts
    <3> QED
      BY <1>2, <1>4, <3>1
  <2>2. \A p : NormIn(code, p) = <<1, 1>>
    BY <1>2, <1>4, <2>1 DEF NormIn
  <2> QED
    BY <1>2, <1>4, <2>2 DEF Pos, PosIn
<1> QED
  BY <1>2, <1>3, <1>4

LEMMA ReadVals == AbsVals = ValsIn(phase, code, Pos, jumpBack, vals)
BY ReadReal DEF AbsVals, ValsIn

LEMMA ReadFrames == AbsFrames = FramesIn(code, frames)
BY ReadNorm DEF AbsFrames, FramesIn

\* ... and after a step.
LEMMA ReadNext ==
  /\ code' \in Codes => Pos' = PosIn(phase', code', at', srclin', pend')
  /\ AbsVals' = ValsIn(phase', code', Pos', jumpBack', vals')
  /\ AbsFrames' = FramesIn(code', frames')
<1>1. (code \in Codes => Pos = PosIn(phase, code, at, srclin, pend))'
  BY ReadPos, PTL
<1>2. (AbsVals = ValsIn(phase, code, Pos, jumpBack, vals))'
  BY ReadVals, PTL
<1>3. (AbsFrames = FramesIn(code, frames))'
  BY ReadFrames, PTL
<1> QED
  BY <1>1, <1>2, <1>3

-----------------------------------------------------------------------------
(* The invariant of a run: where control is, and what the callers go on    *)
(* with.                                                                   *)

\* What the frames of the calls hold. All return to a line that is read as it is, all
\* but the first into the subroutine.
FrameRecords == [to : Spot, srclin : Nat, pend : Nat, evald : BOOLEAN]
Resumes(cd, f) == f.to[1] <= Len(cd) /\ f.srclin = f.to[1] /\ f.pend = 0
Calling(cd, sb, fs) ==
  /\ \A i \in 1 .. Len(fs) : Resumes(cd, fs[i])
  /\ \A i \in 2 .. Len(fs) : Within(sb, fs[i].to)

\* A jump_back that is set is read by the loop NEXT has gone back to.
BackAt(cd, src, w, jb) ==
  HasFor(src) /\ jb => w \in PlacesOf(cd) /\ OpAt(cd, w).op \in LoopOps

\* Inside of a call control is inside of the subroutine.
PlacedAt(cd, sb, a, s, q, fs) ==
  /\ a \in Spot /\ s \in Nat /\ q \in Nat
  /\ a \in PlacesOf(cd) => s = a[1] /\ q = 0
  /\ WhereIn(cd, a, s, q) \in Spot
  /\ fs # <<>> => Inside(sb, a) /\ Inside(sb, WhereIn(cd, a, s, q)) /\ sb # NoSub

Going(cd, sb, src, a, s, q, jb, fs) ==
  /\ PlacedAt(cd, sb, a, s, q, fs)
  /\ Calling(cd, sb, fs)
  /\ BackAt(cd, src, WhereIn(cd, a, s, q), jb)

AtStart(a, s, q, e, fs) == a = <<1, 1>> /\ s = 1 /\ q = 0 /\ e = FALSE /\ fs = <<>>
RunTypes == /\ vals \in [Vars -> Nat] /\ jumpBack \in BOOLEAN /\ evald \in BOOLEAN
            /\ frames \in Seq(FrameRecords)

\* Where control is between two opcodes.
Running ==
  /\ RunTypes
  /\ phase \in {"parse", "failed"} => AtStart(at, srclin, pend, evald, frames)
  /\ phase = "parse" /\ HasFor(source) => ~jumpBack
  /\ phase = "run" => Going(code, sub, source, at, srclin, pend, jumpBack, frames)

\* What is known of a program that runs.
LEMMA RunProg ==
  ASSUME TypeOK, Nesting, LaidOut, phase = "run"
  PROVE  /\ \E c, g : Prog(code, jump, single, sub, source, c, g)
         /\ code \in Codes /\ sub \in [start : Nat, end : Nat]
<1>1. /\ code \in Codes /\ sub \in [start : Nat, end : Nat]
      /\ \A p \in DOMAIN jump : jump[p] \in PlaceType
  BY DEF TypeOK, Codes
<1>2. /\ line = <<>> /\ blocks = <<>> /\ ~errors
      /\ \E c, g : Fits(code, <<>>, {}, <<>>, jump, c, g)
  BY DEF Nesting, Growing
<1>3. PICK c, g : Fits(code, <<>>, {}, <<>>, jump, c, g)
  BY <1>2
<1>4. Closed(code, c, g) /\ Jumps(code, jump, c, g)
  BY <1>1, <1>3, RunClosed
<1>5. Laid(code, <<>>, single, jump, sub, source, <<>>)
  BY <1>2 DEF LaidOut
<1> QED
  BY <1>1, <1>4, <1>5 DEF Prog

\* An opcode is executed at p.
Execs(p) ==
  /\ phase = "run" /\ code \in Codes /\ sub \in [start : Nat, end : Nat]
  /\ at = p /\ p \in PlacesOf(code) /\ srclin = p[1] /\ pend = 0 /\ op = OpAt(code, p)
  /\ Pos = p /\ (frames # <<>> => Within(sub, p) /\ sub # NoSub)
  /\ HasFor(source) /\ jumpBack => OpAt(code, p).op \in LoopOps
  /\ RunTypes /\ Calling(code, sub, frames)

\* The opcode to be executed is at a place of the program, and Structured is at it.
LEMMA Executing ==
  ASSUME TypeOK, Nesting, LaidOut, Running, OnOpcode, ~AtEndSub
  PROVE  \E p : Execs(p)
<1>1. PICK p : p = at
  OBVIOUS
<1>2. /\ phase = "run" /\ code \in Codes /\ sub \in [start : Nat, end : Nat]
      /\ Len(code) \in Nat /\ Going(code, sub, source, at, srclin, pend, jumpBack, frames) /\ RunTypes
  <2>1. phase = "run"
    BY DEF OnOpcode
  <2>2. code \in Codes /\ sub \in [start : Nat, end : Nat]
    BY <2>1, RunProg
  <2> QED
    BY <2>1, <2>2, PlaceFacts DEF Running
<1>3. /\ p \in Spot /\ (p \in PlacesOf(code) => srclin = p[1] /\ pend = 0)
      /\ (frames # <<>> => Inside(sub, p) /\ sub # NoSub)
      /\ BackAt(code, source, WhereIn(code, p, srclin, pend), jumpBack)
      /\ Calling(code, sub, frames)
  BY <1>1, <1>2 DEF Going, PlacedAt
<1>4. p[1] <= Len(code) /\ p[2] <= Len(code[p[1]])
  BY <1>1 DEF OnOpcode, cur, nline
<1>5. p \in PlacesOf(code)
  <2>1. p = <<p[1], p[2]>> /\ p[1] \in Nat \ {0} /\ p[2] \in Nat \ {0}
    BY <1>3 DEF Spot
  <2>2. p[1] \in 1 .. Len(code)
    BY <1>2, <1>4, <2>1
  <2>3. Len(code[p[1]]) \in Nat
    BY <1>2, <2>2, PlaceFacts
  <2>4. p[2] \in 1 .. Len(code[p[1]])
    BY <1>4, <2>1, <2>3
  <2> QED
    BY <1>2, <2>1, <2>2, <2>4, PlaceFacts
<1>6. WhereIn(code, p, srclin, pend) = p
  BY <1>2, <1>5, PlaceSpot
<1>7. Pos = p
  <2>1. Pos = PosIn(phase, code, at, srclin, pend)
    BY <1>2, ReadPos
  <2>2. PosIn(phase, code, at, srclin, pend) = NormIn(code, p)
    BY <1>1, <1>2, <1>6 DEF PosIn
  <2> QED
    BY <1>2, <1>5, <2>1, <2>2, NormPlace
<1>8. frames # <<>> => Within(sub, p)
  <2>1. SUFFICES ASSUME frames # <<>> PROVE Within(sub, p)
    OBVIOUS
  <2>2. ~(p[1] >= sub.end)
    BY <1>1, <2>1 DEF AtEndSub, cur
  <2>3. p[1] \in Nat /\ sub.end \in Nat
    BY <1>2, <1>3 DEF Spot
  <2> QED
    BY <1>3, <2>1, <2>2, <2>3 DEF Within
<1>9. op = OpAt(code, p)
  BY <1>1 DEF op, cur, OpAt
<1> QED
  BY <1>1, <1>2, <1>3, <1>5, <1>6, <1>7, <1>8, <1>9 DEF Execs, BackAt

\* Control moves to x.
Moving(p, x) ==
  /\ Execs(p) /\ Moved(code, sub, p, at', srclin', pend', x)
  /\ UNCHANGED vars /\ frames' = frames
  /\ vals' \in [Vars -> Nat] /\ jumpBack' \in BOOLEAN /\ evald' = FALSE
  /\ HasFor(source) /\ jumpBack' =>
       WhereIn(code, at', srclin', pend') = x /\ x \in PlacesOf(code) /\ OpAt(code, x).op \in LoopOps

\* A move that stays in the subroutine it is in keeps Running.
LEMMA Moves ==
  ASSUME NEW p, NEW x, Moving(p, x)
  PROVE  Running' /\ Pos' = NormIn(code, x) /\ AbsFrames' = AbsFrames
<1>1. /\ phase = "run" /\ code \in Codes /\ Calling(code, sub, frames) /\ RunTypes
      /\ (frames # <<>> => Within(sub, p) /\ sub # NoSub)
      /\ phase' = "run" /\ code' = code /\ sub' = sub /\ source' = source
      /\ frames' = frames
  BY DEF Moving, Execs, vars, parseVars
<1>2. PICK a, s, q, w : a = at' /\ s = srclin' /\ q = pend' /\ w = WhereIn(code, a, s, q)
  OBVIOUS
<1>3. Moved(code, sub, p, a, s, q, x)
  BY <1>2 DEF Moving
<1>4. PlacedAt(code, sub, a, s, q, frames) /\ NormIn(code, w) = NormIn(code, x)
  BY <1>1, <1>2, <1>3 DEF PlacedAt, Moved
<1>5. BackAt(code, source, w, jumpBack')
  BY <1>2 DEF Moving, BackAt
<1>6. Going(code, sub, source, a, s, q, jumpBack', frames)
  BY <1>1, <1>2, <1>4, <1>5 DEF Going
<1>7. RunTypes'
  BY <1>1 DEF Moving, RunTypes
<1>8. Running'
  BY <1>1, <1>2, <1>6, <1>7 DEF Running
<1>9. Pos' = NormIn(code, x)
  <2>1. Pos' = PosIn(phase', code', a, s, q)
    BY <1>1, <1>2, ReadNext
  <2> QED
    BY <1>1, <1>2, <1>4, <2>1 DEF PosIn
<1>10. AbsFrames' = AbsFrames
  BY <1>1, ReadFrames, ReadNext
<1> QED
  BY <1>8, <1>9, <1>10

\* An opcode that is executed in the ordinary way: it is left for x.
Stepping(p, x) ==
  /\ TypeOK /\ Nesting /\ LaidOut
  /\ Execs(p) /\ Moved(code, sub, p, at', srclin', pend', x)
  /\ UNCHANGED vars /\ frames' = frames
  /\ vals' \in [Vars -> Nat] /\ jumpBack' \in BOOLEAN /\ evald' = FALSE
  /\ OpAt(code, p).f => evald
  /\ HasFor(source) => ~jumpBack'

\* What the abstract program sees of it.
Stepped(p, x) ==
  /\ Running' /\ Abs!Step(OpAt(code, p).op) /\ Pos = p /\ Pos' = NormIn(code, x)
  /\ AbsFrames' = AbsFrames /\ AbsVals' = vals'
  /\ OpAt(code, p).op # "for" => AbsVals = vals

\* What a step of Structured asks for besides where it goes.
LEMMA StepIs ==
  ASSUME NEW p, Execs(p), UNCHANGED vars, evald' = FALSE, OpAt(code, p).f => evald
  PROVE  Abs!Step(OpAt(code, p).op)
<1>1. /\ phase = "run" /\ p \in PlacesOf(code) /\ Pos = p /\ phase' = phase /\ code' = code
  BY DEF Execs, vars, parseVars
<1>2. Abs!Real = PlacesOf(code) /\ Abs!At(p) = OpAt(code, p)
  BY SameReal, ReadReal
<1> QED
  BY <1>1, <1>2 DEF Abs!Step, Abs!Ready

\* Without FOR there is no variable a jump_back could increment.
LEMMA ForHasFor ==
  ASSUME TypeOK, Nesting, LaidOut, phase = "run", NEW p \in PlacesOf(code)
  PROVE  TameOp(source, OpAt(code, p))
<1>1. PICK c, g : Prog(code, jump, single, sub, source, c, g)
  BY RunProg
<1>2. Lying(code, <<>>, single, jump, source, p)
  BY <1>1, ProgFacts
<1> QED
  BY <1>2 DEF Lying

\* The variables as Structured has them: the increment that jump_back hands over is counted.
LEMMA ValsNow ==
  ASSUME NEW p, Execs(p), OpAt(code, p).op # "for"
  PROVE  AbsVals = vals
BY ReadVals DEF ValsIn, Execs

LEMMA ValsThen ==
  ASSUME TypeOK, Nesting, LaidOut, phase = "run", UNCHANGED vars, HasFor(source) => ~jumpBack'
  PROVE  AbsVals' = vals'
<1>1. code' = code /\ phase' = phase
  BY DEF vars, parseVars
<1>2. PICK x : x = Pos'
  OBVIOUS
<1>3. AbsVals' = ValsIn(phase', code', x, jumpBack', vals')
  BY <1>2, ReadNext
<1>4. CASE HasFor(source)
  BY <1>3, <1>4 DEF ValsIn
<1>5. CASE ~HasFor(source)
  <2>1. x \in PlacesOf(code) => OpAt(code, x).op # "for"
    BY <1>5, ForHasFor DEF TameOp
  <2> QED
    BY <1>1, <1>3, <2>1 DEF ValsIn
<1> QED
  BY <1>4, <1>5

\* A move that changes no frame, in both specifications.
LEMMA Steps ==
  ASSUME NEW p, NEW x, Stepping(p, x)
  PROVE  Stepped(p, x)
<1>1. Moving(p, x)
  BY DEF Stepping, Moving
<1>2. Running' /\ Pos' = NormIn(code, x) /\ AbsFrames' = AbsFrames
  BY <1>1, Moves
<1>3. Execs(p) /\ Pos = p /\ phase = "run"
  BY DEF Stepping, Execs
<1>4. Abs!Step(OpAt(code, p).op)
  BY <1>3, StepIs DEF Stepping
<1>5. AbsVals' = vals'
  BY <1>3, ValsThen DEF Stepping
<1>6. OpAt(code, p).op # "for" => AbsVals = vals
  BY <1>3, ValsNow
<1> QED
  BY <1>2, <1>3, <1>4, <1>5, <1>6 DEF Stepped

\* Where the jumps of the abstract program lead.
LEMMA LeadsTo ==
  ASSUME TypeOK, Nesting, phase = "run", NEW p \in DOMAIN jump, NEW t, t = jump[p]
  PROVE  /\ OpAt(code, p).op = "if" => NormIn(code, <<t[1], t[2] + 1>>) = Abs!IfFalse(p)
         /\ OpAt(code, p).op = "else" => NormIn(code, <<t[1], t[2] + 1>>) = Abs!Behind(p)
         /\ OpAt(code, p).op \in LoopOps => NormIn(code, <<t[1] + 1, 1>>) = Abs!Behind(p)
         /\ OpAt(code, p).op = "next" => NormIn(code, <<t[1], t[2] + 1>>) = Abs!OpenOf(p)
         /\ OpAt(code, p).op = "return" => NormIn(code, <<t[1], 1>>) = Abs!SubOf(p)
<1>1. JumpsNest
  BY NestingRead
<1>2. PICK o : o = S!At(p).op
  OBVIOUS
<1>3. o = OpAt(code, p).op
  BY <1>2, ReadReal
<1>4. /\ o = "if" => S!Norm(<<t[1], t[2] + 1>>) = S!IfFalse(p)
      /\ o = "else" => S!Norm(<<t[1], t[2] + 1>>) = S!Behind(p)
      /\ o \in LoopOps => S!Norm(<<t[1] + 1, 1>>) = S!Behind(p)
      /\ o = "next" => S!Norm(<<t[1], t[2] + 1>>) = S!OpenOf(p)
      /\ o = "return" => S!Norm(<<t[1], 1>>) = S!SubOf(p)
  BY <1>1, <1>2 DEF JumpsNest, LoopOps
<1> QED
  BY <1>3, <1>4, ReadNorm, SameReading, SameClose

\* The next opcode is the next command.
LEMMA OnAfter ==
  ASSUME NEW p
  PROVE  NormIn(code, Next1(p)) = Abs!After(p)
BY ReadNorm, SameNorm DEF Next1

\* A step that keeps Running and is one of Structured or a stutter.
Simulated == Running' /\ [Abs!AbsNext]_(Abs!absVars)

Ran == TypeOK /\ Nesting /\ LaidOut /\ Running

\* An opcode is about to be executed at p.
Stands(p, o) ==
  /\ TypeOK /\ Nesting /\ LaidOut /\ Execs(p) /\ phase = "run" /\ p \in PlacesOf(code)
  /\ o = OpAt(code, p) /\ op = o /\ at = p /\ srclin = p[1] /\ pend = 0
  /\ TameOp(source, o) /\ (o.op \in Jumping => p \in DOMAIN jump)
  /\ HasFor(source) /\ jumpBack => o.op \in LoopOps
  /\ vals \in [Vars -> Nat] /\ jumpBack \in BOOLEAN
  /\ \E c, g : Prog(code, jump, single, sub, source, c, g)

\* All that an opcode finds when it is executed.
LEMMA Standing ==
  ASSUME Ran, OnOpcode, ~AtEndSub
  PROVE  \E p, o : Stands(p, o)
<1>1. TypeOK /\ Nesting /\ LaidOut /\ Running /\ phase = "run"
  BY DEF Ran, OnOpcode
<1>2. PICK p : Execs(p)
  BY <1>1, Executing
<1>3. PICK o : o = OpAt(code, p)
  OBVIOUS
<1>4. PICK c, g : Prog(code, jump, single, sub, source, c, g)
  BY <1>1, RunProg
<1>5. p \in PlacesOf(code)
  BY <1>2 DEF Execs
<1>6. Lying(code, <<>>, single, jump, source, p)
  BY <1>4, <1>5, ProgFacts
<1>7. TameOp(source, o) /\ (o.op \in Jumping => p \in DOMAIN jump)
  BY <1>3, <1>6 DEF Lying
<1>8. Stands(p, o)
  BY <1>1, <1>2, <1>3, <1>4, <1>7 DEF Stands, Execs, RunTypes
<1> QED
  BY <1>8

\* The cases of do_pcode that leave jump_back alone.
LEMMA Quietly ==
  ASSUME NEW p, NEW o, Stands(p, o), UNCHANGED vars, frames' = frames, jumpBack' = jumpBack,
         evald' = FALSE, o.f => evald, o.op \notin LoopOps, vals' \in [Vars -> Nat],
         NEW x, Moved(code, sub, p, at', srclin', pend', x)
  PROVE  Stepped(p, x) /\ AbsVals = vals
<1>1. Stepping(p, x)
  BY DEF Stepping, Stands
<1>2. o = OpAt(code, p) /\ o.op # "for"
  BY DEF Stands, LoopOps
<1>3. Stepped(p, x)
  BY <1>1, Steps
<1> QED
  BY <1>2, <1>3 DEF Stepped

\* One lemma for every opcode: it keeps Running and is a step of Structured.
LEMMA OrdinarySim == ASSUME Ran, Ordinary PROVE Simulated
<1>1. PICK p, o : Stands(p, o)
  BY Standing DEF Ordinary, Exec
<1>2. /\ o.op \in {"act", "begin", "end", "endif", "text"} /\ o = OpAt(code, p)
      /\ at' = Next1(p) /\ srclin' = p[1] /\ pend' = 0 /\ vals' = vals
      /\ UNCHANGED vars /\ frames' = frames /\ jumpBack' = jumpBack /\ evald' = FALSE
      /\ (o.f => evald) /\ vals' \in [Vars -> Nat]
  BY <1>1 DEF Ordinary, Exec, Advance, Stands
<1>3. PICK c, g : Prog(code, jump, single, sub, source, c, g)
  BY <1>1 DEF Stands
<1>4. Moved(code, sub, p, Next1(p), srclin', pend', Next1(p))
  BY <1>1, <1>2, <1>3, MoveOn DEF Stands
<1>5. Stepped(p, Next1(p)) /\ AbsVals = vals
  BY <1>1, <1>2, <1>4, Quietly DEF LoopOps
<1>6. Abs!Plain
  BY <1>2, <1>5, OnAfter DEF Stepped, Abs!Plain
<1> QED
  BY <1>5, <1>6 DEF Simulated, Stepped, Abs!AbsNext

LEMMA AssignSim == ASSUME Ran, Assign PROVE Simulated
<1>1. PICK p, o : Stands(p, o)
  BY Standing DEF Assign, Exec
<1>2. /\ o.op = "assign" /\ o = OpAt(code, p)
      /\ at' = Next1(p) /\ srclin' = p[1] /\ pend' = 0 /\ vals' = [vals EXCEPT ![o.v] = 1]
      /\ UNCHANGED vars /\ frames' = frames /\ jumpBack' = jumpBack /\ evald' = FALSE
      /\ (o.f => evald) /\ vals \in [Vars -> Nat]
  BY <1>1 DEF Assign, Exec, Advance, Stands
<1>3. PICK c, g : Prog(code, jump, single, sub, source, c, g)
  BY <1>1 DEF Stands
<1>4. Moved(code, sub, p, Next1(p), srclin', pend', Next1(p))
  BY <1>1, <1>2, <1>3, MoveOn DEF Stands
<1>5. vals' \in [Vars -> Nat]
  BY <1>2
<1>6. Stepped(p, Next1(p)) /\ AbsVals = vals
  BY <1>1, <1>2, <1>4, <1>5, Quietly DEF LoopOps
<1>7. Abs!At(Pos) = o
  BY <1>2, <1>6, SameReal, ReadReal DEF Stepped
<1>8. Abs!Assign
  BY <1>2, <1>6, <1>7, OnAfter DEF Stepped, Abs!Assign
<1> QED
  BY <1>6, <1>8 DEF Simulated, Stepped, Abs!AbsNext

LEMMA IfTrueSim == ASSUME Ran, IfTrue PROVE Simulated
<1>1. PICK p, o : Stands(p, o)
  BY Standing DEF IfTrue, Exec
<1>2. /\ o.op = "if" /\ o = OpAt(code, p)
      /\ at' = Next1(p) /\ srclin' = p[1] /\ pend' = 0 /\ vals' = vals
      /\ UNCHANGED vars /\ frames' = frames /\ jumpBack' = jumpBack /\ evald' = FALSE
      /\ (o.f => evald) /\ vals' \in [Vars -> Nat]
  BY <1>1 DEF IfTrue, Exec, Advance, Stands
<1>3. PICK c, g : Prog(code, jump, single, sub, source, c, g)
  BY <1>1 DEF Stands
<1>4. Moved(code, sub, p, Next1(p), srclin', pend', Next1(p))
  BY <1>1, <1>2, <1>3, MoveOn DEF Stands
<1>5. Stepped(p, Next1(p)) /\ AbsVals = vals
  BY <1>1, <1>2, <1>4, Quietly DEF LoopOps
<1>6. Abs!If
  BY <1>2, <1>5, OnAfter DEF Stepped, Abs!If
<1> QED
  BY <1>5, <1>6 DEF Simulated, Stepped, Abs!AbsNext

\* IF that is false and ELSE go where Structured goes.
LEMMA Branching ==
  ASSUME NEW p, NEW o, Stands(p, o), o.op \in {"if", "else"}, Leave(Target), pend' = pend,
         vals' = vals, UNCHANGED vars, frames' = frames, jumpBack' = jumpBack, evald' = FALSE,
         o.f => evald
  PROVE  \E x : /\ Stepped(p, x) /\ AbsVals = vals
                /\ o.op = "if" => NormIn(code, x) = Abs!IfFalse(p)
                /\ o.op = "else" => NormIn(code, x) = Abs!Behind(p)
<1>1. PICK t : t = jump[p]
  OBVIOUS
<1>2. /\ at' = <<t[1], t[2] + 1>> /\ srclin' = t[1] /\ pend' = 0 /\ vals' \in [Vars -> Nat]
      /\ o = OpAt(code, p) /\ p \in PlacesOf(code) /\ p \in DOMAIN jump
      /\ TypeOK /\ Nesting /\ phase = "run"
  BY <1>1 DEF Leave, Target, Stands, Jumping
<1>3. PICK c, g : Prog(code, jump, single, sub, source, c, g)
  BY DEF Stands
<1>4. PICK x, q : x = at' /\ q = pend'
  OBVIOUS
<1>5. Moved(code, sub, p, x, t[1], q, x)
  BY <1>1, <1>2, <1>3, <1>4, MoveBranch
<1>6. Moved(code, sub, p, at', srclin', pend', x)
  BY <1>2, <1>4, <1>5
<1>7. Stepped(p, x) /\ AbsVals = vals
  BY <1>2, <1>6, Quietly DEF LoopOps
<1>8. /\ o.op = "if" => NormIn(code, x) = Abs!IfFalse(p)
      /\ o.op = "else" => NormIn(code, x) = Abs!Behind(p)
  BY <1>1, <1>2, <1>4, LeadsTo
<1> QED
  BY <1>7, <1>8

LEMMA IfFalseSim == ASSUME Ran, IfFalse PROVE Simulated
<1>1. PICK p, o : Stands(p, o)
  BY Standing DEF IfFalse, Exec
<1>2. /\ o.op = "if" /\ o = OpAt(code, p) /\ Leave(Target) /\ pend' = pend /\ vals' = vals
      /\ UNCHANGED vars /\ frames' = frames /\ jumpBack' = jumpBack /\ evald' = FALSE
      /\ (o.f => evald)
  BY <1>1 DEF IfFalse, Exec, Stands
<1>3. PICK x : Stepped(p, x) /\ AbsVals = vals /\ NormIn(code, x) = Abs!IfFalse(p)
  BY <1>1, <1>2, Branching
<1>4. Abs!If
  BY <1>2, <1>3 DEF Stepped, Abs!If
<1> QED
  BY <1>3, <1>4 DEF Simulated, Stepped, Abs!AbsNext

LEMMA ElseSim == ASSUME Ran, ElseOp PROVE Simulated
<1>1. PICK p, o : Stands(p, o)
  BY Standing DEF ElseOp, Exec
<1>2. /\ o.op = "else" /\ o = OpAt(code, p) /\ Leave(Target) /\ pend' = pend /\ vals' = vals
      /\ UNCHANGED vars /\ frames' = frames /\ jumpBack' = jumpBack /\ evald' = FALSE
      /\ (o.f => evald)
  BY <1>1 DEF ElseOp, Exec, Stands
<1>3. PICK x : Stepped(p, x) /\ AbsVals = vals /\ NormIn(code, x) = Abs!Behind(p)
  BY <1>1, <1>2, Branching
<1>4. Abs!Else
  BY <1>2, <1>3 DEF Stepped, Abs!Else
<1> QED
  BY <1>3, <1>4 DEF Simulated, Stepped, Abs!AbsNext

\* A loop variable as FOR leaves it.
ForVals(o, y) == y = IF jumpBack THEN vals[o.v] + 1 ELSE vals[o.v]

\* The variable of a FOR: its first value, or one more after its NEXT.
LEMMA ForCounts ==
  ASSUME NEW p, NEW o, Stands(p, o), o.op = "for", NEW y, ForVals(o, y)
  PROVE  /\ y \in Nat /\ o.n \in Nat /\ [vals EXCEPT ![o.v] = y] \in [Vars -> Nat]
         /\ AbsVals = [vals EXCEPT ![o.v] = y] /\ AbsVals[o.v] = y
<1>1. /\ vals \in [Vars -> Nat] /\ jumpBack \in BOOLEAN /\ o.v \in Vars /\ phase = "run"
      /\ p \in PlacesOf(code) /\ o = OpAt(code, p) /\ Pos = p /\ code \in Codes
  BY DEF Stands, TameOp, Execs
<1>2. y \in Nat
  BY <1>1 DEF ForVals
<1>3. o.n \in Nat
  <2>1. p[1] \in 1 .. Len(code) /\ p[2] \in 1 .. Len(code[p[1]])
    BY <1>1, PlaceFacts
  <2>2. code[p[1]] \in Seq(OpcodeRecords)
    BY <1>1, <2>1, PlaceFacts
  <2>3. o \in OpcodeRecords
    BY <1>1, <2>1, <2>2 DEF OpAt
  <2> QED
    BY <2>3 DEF OpcodeRecords
<1>4. AbsVals = IF jumpBack THEN [vals EXCEPT ![o.v] = @ + 1] ELSE vals
  BY <1>1, ReadVals DEF ValsIn
<1>5. AbsVals = [vals EXCEPT ![o.v] = y]
  BY <1>1, <1>4 DEF ForVals
<1> QED
  BY <1>1, <1>2, <1>3, <1>5

LEMMA ForSim == ASSUME Ran, ForOp PROVE Simulated
<1>1. PICK p, o : Stands(p, o)
  BY Standing DEF ForOp, Exec
<1>2. PICK y : ForVals(o, y)
  BY DEF ForVals
<1>3. /\ o.op = "for" /\ o = OpAt(code, p) /\ p \in PlacesOf(code) /\ p \in DOMAIN jump
      /\ at' = Next1(p) /\ pend' = 0 /\ vals' = [vals EXCEPT ![o.v] = y]
      /\ srclin' = (IF y > o.n THEN jump[p][1] ELSE p[1])
      /\ UNCHANGED vars /\ frames' = frames /\ jumpBack' = FALSE /\ evald' = FALSE
      /\ (o.f => evald)
  <2>1. Exec({"for"}) /\ Advance
    BY DEF ForOp
  <2>2. op = o /\ at = p /\ srclin = p[1] /\ pend = 0
    BY <1>1 DEF Stands
  <2>3. Target = jump[p]
    BY <2>2 DEF Target
  <2>4. vals' = [vals EXCEPT ![o.v] = y] /\ srclin' = (IF y > o.n THEN jump[p][1] ELSE p[1])
    BY <1>2, <2>2, <2>3 DEF ForOp, ForVals
  <2>5. o.op = "for" /\ p \in DOMAIN jump /\ o = OpAt(code, p) /\ p \in PlacesOf(code)
    BY <1>1, <2>1, <2>2 DEF Exec, Stands, Jumping
  <2>6. at' = Next1(p) /\ UNCHANGED vars /\ evald' = FALSE /\ (o.f => evald)
    BY <2>1, <2>2 DEF Exec, Advance
  <2> QED
    BY <2>2, <2>4, <2>5, <2>6 DEF ForOp
<1>4. /\ y \in Nat /\ o.n \in Nat /\ vals' \in [Vars -> Nat]
      /\ AbsVals = vals' /\ AbsVals[o.v] = y
  BY <1>1, <1>2, <1>3, ForCounts
<1>5. PICK c, g : Prog(code, jump, single, sub, source, c, g)
  BY <1>1 DEF Stands
<1>6. ASSUME NEW x, Moved(code, sub, p, at', srclin', pend', x)
      PROVE  Stepped(p, x)
  <2>1. Stepping(p, x)
    BY <1>1, <1>3, <1>4, <1>6 DEF Stepping, Stands
  <2> QED
    BY <2>1, Steps
<1>7. Abs!At(p) = o
  BY <1>3, SameReal, ReadReal
<1>8. CASE y <= o.n
  <2>1. srclin' = p[1]
    BY <1>3, <1>4, <1>8
  <2>2. Moved(code, sub, p, Next1(p), srclin', pend', Next1(p))
    BY <1>3, <1>5, <2>1, MoveOn
  <2>3. Stepped(p, Next1(p))
    BY <1>3, <1>6, <2>2
  <2>4. Abs!For
    BY <1>3, <1>4, <1>7, <1>8, <2>3, OnAfter DEF Stepped, Abs!For
  <2> QED
    BY <2>3, <2>4 DEF Simulated, Stepped, Abs!AbsNext
<1>9. CASE ~(y <= o.n)
  <2>1. srclin' = jump[p][1]
    BY <1>3, <1>4, <1>9
  <2>2. PICK x : x = <<srclin' + 1, 1>>
    OBVIOUS
  <2>3. Moved(code, sub, p, Next1(p), srclin', pend', x)
    BY <1>3, <1>5, <2>1, <2>2, MoveLoop DEF LoopOps
  <2>4. Stepped(p, x)
    BY <1>3, <1>6, <2>3
  <2>5. NormIn(code, x) = Abs!Behind(p)
    BY <1>1, <1>3, <2>1, <2>2, LeadsTo DEF Stands, LoopOps
  <2>6. Abs!For
    BY <1>3, <1>4, <1>7, <1>9, <2>4, <2>5 DEF Stepped, Abs!For
  <2> QED
    BY <2>4, <2>6 DEF Simulated, Stepped, Abs!AbsNext
<1> QED
  BY <1>8, <1>9

LEMMA WhileSim == ASSUME Ran, WhileOp PROVE Simulated
<1>1. PICK p, o : Stands(p, o)
  BY Standing DEF WhileOp, Exec
<1>2. /\ o.op \in {"while", "until"} /\ o = OpAt(code, p) /\ p \in PlacesOf(code)
      /\ p \in DOMAIN jump
      /\ at' = Next1(p) /\ pend' = 0 /\ vals' = vals /\ vals' \in [Vars -> Nat]
      /\ srclin' \in {p[1], jump[p][1]}
      /\ UNCHANGED vars /\ frames' = frames /\ jumpBack' = FALSE /\ evald' = FALSE
      /\ (o.f => evald)
  BY <1>1 DEF WhileOp, Exec, Advance, Target, Stands, Jumping
<1>3. PICK c, g : Prog(code, jump, single, sub, source, c, g)
  BY <1>1 DEF Stands
<1>4. ASSUME NEW x, Moved(code, sub, p, at', srclin', pend', x)
      PROVE  Stepped(p, x) /\ AbsVals = vals
  <2>1. Stepping(p, x)
    BY <1>1, <1>2, <1>4 DEF Stepping, Stands
  <2>2. Stepped(p, x)
    BY <2>1, Steps
  <2> QED
    BY <1>2, <2>2 DEF Stepped
<1>5. CASE srclin' = p[1]
  <2>1. Moved(code, sub, p, Next1(p), srclin', pend', Next1(p))
    BY <1>2, <1>3, <1>5, MoveOn
  <2>2. Stepped(p, Next1(p)) /\ AbsVals = vals
    BY <1>2, <1>4, <2>1
  <2>3. Abs!Loop
    BY <1>2, <2>2, OnAfter DEF Stepped, Abs!Loop
  <2> QED
    BY <2>2, <2>3 DEF Simulated, Stepped, Abs!AbsNext
<1>6. CASE srclin' = jump[p][1]
  <2>1. PICK x : x = <<srclin' + 1, 1>>
    OBVIOUS
  <2>2. Moved(code, sub, p, Next1(p), srclin', pend', x)
    BY <1>2, <1>3, <1>6, <2>1, MoveLoop DEF LoopOps
  <2>3. Stepped(p, x) /\ AbsVals = vals
    BY <1>2, <1>4, <2>2
  <2>4. NormIn(code, x) = Abs!Behind(p)
    BY <1>1, <1>2, <1>6, <2>1, LeadsTo DEF Stands, LoopOps
  <2>5. Abs!Loop
    BY <1>2, <2>3, <2>4 DEF Stepped, Abs!Loop
  <2> QED
    BY <2>3, <2>5 DEF Simulated, Stepped, Abs!AbsNext
<1> QED
  BY <1>2, <1>5, <1>6

\* NEXT leaves it to the loop it goes back to to count.
LEMMA NextSim == ASSUME Ran, NextOp PROVE Simulated
<1>1. PICK p, o : Stands(p, o)
  BY Standing DEF NextOp, Exec
<1>2. /\ o.op = "next" /\ o = OpAt(code, p) /\ p \in PlacesOf(code) /\ p \in DOMAIN jump
      /\ at' = Next1(p) /\ srclin' = jump[p][1] - 1 /\ pend' = jump[p][2]
      /\ vals' = vals /\ vals' \in [Vars -> Nat]
      /\ UNCHANGED vars /\ frames' = frames /\ jumpBack' = TRUE /\ evald' = FALSE
      /\ (o.f => evald) /\ Execs(p) /\ phase = "run"
  BY <1>1 DEF NextOp, Exec, Advance, Target, Stands, Jumping
<1>3. PICK c, g : Prog(code, jump, single, sub, source, c, g)
  BY <1>1 DEF Stands
<1>4. PICK x, s, q : /\ x = <<jump[p][1], jump[p][2] + 1>> /\ s = jump[p][1] - 1
                     /\ q = jump[p][2]
  OBVIOUS
<1>5. /\ Moved(code, sub, p, Next1(p), s, q, x) /\ WhereIn(code, Next1(p), s, q) = x
      /\ x \in PlacesOf(code) /\ OpAt(code, x).op \in LoopOps
  BY <1>2, <1>3, <1>4, MoveNext
<1>6. Moving(p, x)
  BY <1>2, <1>4, <1>5 DEF Moving
<1>7. Running' /\ Pos' = NormIn(code, x) /\ AbsFrames' = AbsFrames
  BY <1>6, Moves
<1>8. Pos = p /\ Abs!Step("next") /\ AbsVals = vals
  <2>1. Abs!Step(OpAt(code, p).op)
    BY <1>2, StepIs
  <2> QED
    BY <1>2, <2>1, ValsNow DEF Execs
<1>9. Pos' = x
  <2>1. code \in Codes
    BY <1>2 DEF Execs
  <2> QED
    BY <1>5, <1>7, <2>1, NormPlace
<1>10. Pos' = Abs!OpenOf(p)
  BY <1>1, <1>2, <1>4, <1>7, LeadsTo DEF Stands
<1>11. AbsVals' = IF OpAt(code, x).op = "for" THEN [vals EXCEPT ![OpAt(code, x).v] = @ + 1]
                  ELSE vals
  <2>1. AbsVals' = ValsIn(phase', code', Pos', jumpBack', vals')
    BY ReadNext
  <2>2. phase' = "run" /\ code' = code
    BY <1>2 DEF vars, parseVars
  <2> QED
    BY <1>2, <1>5, <1>9, <2>1, <2>2 DEF ValsIn
<1>12. Abs!At(Pos') = OpAt(code, x)
  BY <1>9, SameReal, ReadReal
<1>13. Abs!Next_
  BY <1>7, <1>8, <1>10, <1>11, <1>12 DEF Abs!Next_
<1> QED
  BY <1>7, <1>13 DEF Simulated, Abs!AbsNext

LEMMA SubSim == ASSUME Ran, SubOp PROVE Simulated
<1>1. PICK p, o : Stands(p, o)
  BY Standing DEF SubOp, Exec
<1>2. /\ o.op = "sub" /\ o = OpAt(code, p) /\ p \in PlacesOf(code)
      /\ at' = Next1(p) /\ srclin' = sub.end /\ pend' = 0 /\ vals' = vals
      /\ UNCHANGED vars /\ frames' = frames /\ jumpBack' = jumpBack /\ evald' = FALSE
      /\ (o.f => evald) /\ vals' \in [Vars -> Nat] /\ code \in Codes
  BY <1>1 DEF SubOp, Exec, Advance, Stands, Execs
<1>3. PICK c, g : Prog(code, jump, single, sub, source, c, g)
  BY <1>1 DEF Stands
<1>4. PICK x : x = <<sub.end + 1, 1>>
  OBVIOUS
<1>5. /\ Moved(code, sub, p, Next1(p), srclin', pend', x)
      /\ SubPair(code, sub, c) /\ p = <<sub.start, 1>>
  BY <1>2, <1>3, <1>4, MoveSub
<1>6. Stepped(p, x) /\ AbsVals = vals
  BY <1>1, <1>2, <1>5, Quietly DEF LoopOps
<1>7. NormIn(code, x) = Abs!Behind(p)
  <2>1. PICK k : k = <<sub.end, 1>>
    OBVIOUS
  <2>2. k[1] = sub.end /\ k[2] = 1
    BY <2>1
  <2>3. /\ k \in PlacesOf(code) /\ Len(code[k[1]]) = k[2] /\ c[p] = k /\ p \in Openers(code)
    BY <1>5, <2>1, <2>2 DEF SubPair
  <2>4. p \in Marks(code) /\ g[p] = p
    BY <1>3, <2>3, AllClosedFacts DEF Prog, Closed
  <2>5. S!Behind(p) = NormIn(code, <<k[1], k[2] + 1>>)
    <3>1. Closed(code, c, g)
      BY <1>3 DEF Prog
    <3>2. S!Behind(p) = NormIn(code, <<c[g[p]][1], c[g[p]][2] + 1>>)
      BY <2>4, <3>1, ReadClose
    <3> QED
      BY <2>3, <2>4, <3>2
  <2>6. NormIn(code, <<k[1] + 1, 1>>) = NormIn(code, <<k[1], k[2] + 1>>)
    BY <1>2, <2>3, NormLine
  <2> QED
    BY <1>4, <2>2, <2>5, <2>6, SameReading
<1>8. Abs!Skip
  BY <1>2, <1>6, <1>7 DEF Stepped, Abs!Skip
<1> QED
  BY <1>6, <1>8 DEF Simulated, Stepped, Abs!AbsNext

LEMMA ReturnSim == ASSUME Ran, ReturnOp PROVE Simulated
<1>1. PICK p, o : Stands(p, o)
  BY Standing DEF ReturnOp, Exec
<1>2. /\ o.op = "return" /\ o = OpAt(code, p) /\ p \in PlacesOf(code) /\ p \in DOMAIN jump
      /\ at' = Next1(p) /\ srclin' = jump[p][1] - 1 /\ pend' = 0 /\ vals' = vals
      /\ UNCHANGED vars /\ frames' = frames /\ jumpBack' = jumpBack /\ evald' = FALSE
      /\ (o.f => evald) /\ vals' \in [Vars -> Nat]
  BY <1>1 DEF ReturnOp, Exec, Advance, Target, Stands, Jumping
<1>3. PICK c, g : Prog(code, jump, single, sub, source, c, g)
  BY <1>1 DEF Stands
<1>4. PICK x : x = <<jump[p][1], 1>>
  OBVIOUS
<1>5. Moved(code, sub, p, Next1(p), srclin', pend', x)
  BY <1>2, <1>3, <1>4, MoveReturn
<1>6. Stepped(p, x) /\ AbsVals = vals
  BY <1>1, <1>2, <1>5, Quietly DEF LoopOps
<1>7. NormIn(code, x) = Abs!SubOf(p)
  BY <1>1, <1>2, <1>4, LeadsTo DEF Stands
<1>8. Abs!Return
  BY <1>2, <1>6, <1>7 DEF Stepped, Abs!Return
<1> QED
  BY <1>6, <1>8 DEF Simulated, Stepped, Abs!AbsNext

-----------------------------------------------------------------------------
(* The frames of the calls under way.                                      *)

\* A frame as Structured has it.
AbsFrame(cd, f) == [to |-> NormIn(cd, f.to), evald |-> f.evald]

\* The frames of calls, as Structured has them, pushed and popped.
LEMMA FramesMapped ==
  ASSUME NEW cd, NEW fs \in Seq(FrameRecords)
  PROVE  /\ FramesIn(cd, fs) \in Seq({AbsFrame(cd, f) : f \in FrameRecords})
         /\ Len(FramesIn(cd, fs)) = Len(fs) /\ Len(fs) \in Nat
         /\ \A i \in 1 .. Len(fs) : FramesIn(cd, fs)[i] = AbsFrame(cd, fs[i])
         /\ FramesIn(cd, fs) = <<>> <=> fs = <<>>
<1>1. Len(fs) \in Nat /\ DOMAIN fs = 1 .. Len(fs) /\ \A i \in 1 .. Len(fs) : fs[i] \in FrameRecords
  OBVIOUS
<1>2. PICK R : R = {AbsFrame(cd, f) : f \in FrameRecords}
  OBVIOUS
<1>3. FramesIn(cd, fs) = [i \in 1 .. Len(fs) |-> AbsFrame(cd, fs[i])]
  BY <1>1 DEF FramesIn, AbsFrame
<1>4. \A i \in 1 .. Len(fs) : AbsFrame(cd, fs[i]) \in R
  BY <1>1, <1>2
<1>5. FramesIn(cd, fs) \in [1 .. Len(fs) -> R]
  BY <1>3, <1>4
<1>6. FramesIn(cd, fs) \in Seq(R) /\ Len(FramesIn(cd, fs)) = Len(fs)
  BY <1>1, <1>5
<1>7. FramesIn(cd, fs) = <<>> <=> fs = <<>>
  <2>1. PICK h : h = FramesIn(cd, fs)
    OBVIOUS
  <2>2. h \in Seq(R) /\ Len(h) = Len(fs)
    BY <1>6, <2>1
  <2> QED
    BY <2>1, <2>2
<1> QED
  BY <1>1, <1>2, <1>3, <1>6, <1>7

LEMMA FramesPushed ==
  ASSUME NEW cd, NEW fs \in Seq(FrameRecords), NEW f \in FrameRecords
  PROVE  FramesIn(cd, Append(fs, f)) = Append(FramesIn(cd, fs), AbsFrame(cd, f))
<1>1. PICK gs : gs = Append(fs, f)
  OBVIOUS
<1>2. /\ gs \in Seq(FrameRecords) /\ Len(gs) = Len(fs) + 1
      /\ \A i \in 1 .. Len(fs) : gs[i] = fs[i]
      /\ gs[Len(fs) + 1] = f
  BY <1>1
<1>3. PICK R, h, k : /\ R = {AbsFrame(cd, e) : e \in FrameRecords}
                     /\ h = FramesIn(cd, fs) /\ k = FramesIn(cd, gs)
  OBVIOUS
<1>4. /\ h \in Seq(R) /\ Len(h) = Len(fs) /\ Len(fs) \in Nat
      /\ \A i \in 1 .. Len(fs) : h[i] = AbsFrame(cd, fs[i])
  BY <1>3, FramesMapped
<1>5. /\ k \in Seq(R) /\ Len(k) = Len(gs)
      /\ \A i \in 1 .. Len(gs) : k[i] = AbsFrame(cd, gs[i])
  BY <1>2, <1>3, FramesMapped
<1>6. PICK e : e = AbsFrame(cd, f)
  OBVIOUS
<1>7. e \in R
  BY <1>3, <1>6
<1>8. \A i \in 1 .. Len(fs) : k[i] = h[i]
  BY <1>2, <1>4, <1>5
<1>9. k[Len(fs) + 1] = e
  BY <1>2, <1>4, <1>5, <1>6
<1>10. k = Append(h, e)
  BY <1>2, <1>4, <1>5, <1>7, <1>8, <1>9
<1> QED
  BY <1>1, <1>3, <1>6, <1>10

LEMMA FramesPopped ==
  ASSUME NEW cd, NEW fs \in Seq(FrameRecords), fs # <<>>,
         NEW gs, gs = SubSeq(fs, 1, Len(fs) - 1)
  PROVE  /\ gs \in Seq(FrameRecords) /\ Len(gs) = Len(fs) - 1
         /\ \A i \in 1 .. Len(gs) : gs[i] = fs[i]
         /\ FramesIn(cd, gs) = SubSeq(FramesIn(cd, fs), 1, Len(FramesIn(cd, fs)) - 1)
<1>1. PICK n : n = Len(fs) - 1
  OBVIOUS
<1>2. n \in Nat /\ Len(fs) = n + 1
  BY <1>1
<1>3. /\ gs \in Seq(FrameRecords) /\ Len(gs) = n
      /\ \A i \in 1 .. n : gs[i] = fs[i]
  BY <1>1, <1>2
<1>4. PICK R, h, k : /\ R = {AbsFrame(cd, e) : e \in FrameRecords}
                     /\ h = FramesIn(cd, fs) /\ k = FramesIn(cd, gs)
  OBVIOUS
<1>5. /\ h \in Seq(R) /\ Len(h) = n + 1
      /\ \A i \in 1 .. n + 1 : h[i] = AbsFrame(cd, fs[i])
  <2>1. /\ h \in Seq(R) /\ Len(h) = Len(fs)
        /\ \A i \in 1 .. Len(fs) : h[i] = AbsFrame(cd, fs[i])
    <3>1. /\ FramesIn(cd, fs) \in Seq({AbsFrame(cd, e) : e \in FrameRecords})
          /\ Len(FramesIn(cd, fs)) = Len(fs)
          /\ \A i \in 1 .. Len(fs) : FramesIn(cd, fs)[i] = AbsFrame(cd, fs[i])
      BY FramesMapped
    <3> QED
      BY <1>4, <3>1, Zenon
  <2> QED
    BY <1>2, <2>1
<1>6. /\ k \in Seq(R) /\ Len(k) = n
      /\ \A i \in 1 .. n : k[i] = AbsFrame(cd, gs[i])
  <2>1. /\ k \in Seq(R) /\ Len(k) = Len(gs)
        /\ \A i \in 1 .. Len(gs) : k[i] = AbsFrame(cd, gs[i])
    <3>1. gs \in Seq(FrameRecords)
      BY <1>3
    <3>2. /\ FramesIn(cd, gs) \in Seq({AbsFrame(cd, e) : e \in FrameRecords})
          /\ Len(FramesIn(cd, gs)) = Len(gs)
          /\ \A i \in 1 .. Len(gs) : FramesIn(cd, gs)[i] = AbsFrame(cd, gs[i])
      BY <3>1, FramesMapped, Zenon
    <3> QED
      BY <1>4, <3>2, Zenon
  <2> QED
    BY <1>3, <2>1
<1>7. \A i \in 1 .. n : k[i] = h[i]
  BY <1>2, <1>3, <1>5, <1>6
<1>8. PICK m : m = SubSeq(h, 1, n)
  OBVIOUS
<1>9. m \in Seq(R) /\ Len(m) = n /\ \A i \in 1 .. n : m[i] = h[i]
  BY <1>2, <1>5, <1>8
<1>10. k = m
  BY <1>2, <1>6, <1>7, <1>9
<1>11. Len(h) - 1 = n
  BY <1>2, <1>5
<1> QED
  BY <1>1, <1>3, <1>4, <1>8, <1>10, <1>11

\* The subroutine is entered where Structured enters it.
LEMMA SubPlaceIs ==
  ASSUME NEW c, SubPair(code, sub, c)
  PROVE  Abs!SubPlace = <<sub.start, 1>> /\ Abs!After(Abs!SubPlace) = NormIn(code, <<sub.start, 2>>)
<1>1. PICK u : u = <<sub.start, 1>>
  OBVIOUS
<1>2. /\ u \in PlacesOf(code) /\ OpAt(code, u).op = "sub"
      /\ \A p \in PlacesOf(code) : OpAt(code, p).op = "sub" => p = u
  BY <1>1 DEF SubPair
<1>3. S!SubPlace = CHOOSE p \in PlacesOf(code) : OpAt(code, p).op = "sub"
  BY ReadReal DEF S!SubPlace
<1>4. S!SubPlace = u
  BY <1>2, <1>3
<1>5. u[1] = sub.start /\ u[2] + 1 = 2
  BY <1>1
<1>6. S!After(u) = NormIn(code, <<sub.start, 2>>)
  BY <1>5, ReadNorm
<1> QED
  BY <1>1, <1>4, <1>6, SameReading, SameNorm

\* A frame that goes on at a, which is the opcode or behind it.
LEMMA Pushes ==
  ASSUME NEW p, NEW o, Stands(p, o), NEW a, a = p \/ a = Next1(p), NEW e \in BOOLEAN,
         NEW f, f = [to |-> a, srclin |-> srclin, pend |-> pend, evald |-> e]
  PROVE  /\ f \in FrameRecords /\ Calling(code, sub, Append(frames, f))
         /\ Append(frames, f) \in Seq(FrameRecords)
         /\ NormIn(code, a) = IF a = p THEN p ELSE Abs!After(p)
<1>1. /\ code \in Codes /\ p \in PlacesOf(code) /\ srclin = p[1] /\ pend = 0
      /\ frames \in Seq(FrameRecords) /\ Calling(code, sub, frames)
      /\ (frames # <<>> => Within(sub, p)) /\ sub \in [start : Nat, end : Nat]
  BY DEF Stands, Execs, RunTypes
<1>2. /\ a \in Spot /\ a[1] = p[1] /\ p[1] \in Nat /\ p[1] <= Len(code)
  BY <1>1, PlaceSpot
<1>3. f \in FrameRecords /\ Resumes(code, f) /\ f.to = a
  BY <1>1, <1>2 DEF FrameRecords, Resumes
<1>4. PICK gs : gs = Append(frames, f)
  OBVIOUS
<1>5. /\ gs \in Seq(FrameRecords) /\ Len(gs) = Len(frames) + 1 /\ Len(frames) \in Nat
      /\ \A i \in 1 .. Len(frames) : gs[i] = frames[i]
      /\ gs[Len(frames) + 1] = f
  BY <1>1, <1>3, <1>4
<1>6. ASSUME NEW i \in 1 .. Len(gs) PROVE Resumes(code, gs[i])
  <2>1. i \in 1 .. Len(frames) \/ i = Len(frames) + 1
    BY <1>5
  <2> QED
    BY <1>1, <1>3, <1>5, <2>1 DEF Calling
<1>7. ASSUME NEW i \in 2 .. Len(gs) PROVE Within(sub, gs[i].to)
  <2>1. CASE i \in 1 .. Len(frames)
    <3>1. i \in 2 .. Len(frames)
      BY <1>5, <2>1
    <3> QED
      BY <1>1, <1>5, <2>1, <3>1 DEF Calling
  <2>2. CASE i = Len(frames) + 1
    <3>1. frames # <<>>
      BY <1>5, <2>2
    <3>2. Within(sub, p) /\ sub.start < p[1] /\ p[1] < sub.end /\ sub.end \in Nat
      BY <1>1, <3>1 DEF Within, Inside
    <3>3. Within(sub, a)
      BY <1>2, <3>2 DEF Within, Inside
    <3> QED
      BY <1>3, <1>5, <2>2, <3>3
  <2> QED
    BY <1>5, <2>1, <2>2
<1>8. NormIn(code, a) = IF a = p THEN p ELSE Abs!After(p)
  BY <1>1, NormPlace, OnAfter
<1> QED
  BY <1>3, <1>4, <1>5, <1>6, <1>7, <1>8 DEF Calling

\* Without an increment on its way the variables are those of Structured.
LEMMA ValsQuiet ==
  ASSUME TypeOK, Nesting, LaidOut, phase = "run", HasFor(source) => ~jumpBack
  PROVE  AbsVals = vals
<1>1. PICK x : x = Pos
  OBVIOUS
<1>2. AbsVals = ValsIn(phase, code, x, jumpBack, vals)
  BY <1>1, ReadVals
<1>3. CASE HasFor(source)
  BY <1>2, <1>3 DEF ValsIn
<1>4. CASE ~HasFor(source)
  <2>1. x \in PlacesOf(code) => OpAt(code, x).op # "for"
    BY <1>4, ForHasFor DEF TameOp
  <2> QED
    BY <1>2, <2>1 DEF ValsIn
<1> QED
  BY <1>3, <1>4

\* A call, from the program or from an expression.
LEMMA Enters ==
  ASSUME NEW p, NEW o, Stands(p, o), o.op = "call" \/ o.f, NEW a, a = p \/ a = Next1(p),
         NEW e \in BOOLEAN, Enter(a, e), UNCHANGED vars, evald' \in BOOLEAN
  PROVE  /\ Running' /\ Pos = p /\ Pos' = Abs!After(Abs!SubPlace)
         /\ Len(AbsFrames) < MaxDepth /\ AbsVals' = AbsVals
         /\ AbsFrames' = Append(AbsFrames, [to |-> IF a = p THEN p ELSE Abs!After(p), evald |-> e])
<1>1. PICK f : f = [to |-> a, srclin |-> srclin, pend |-> pend, evald |-> e]
  OBVIOUS
<1>2. /\ TypeOK /\ Nesting /\ LaidOut /\ phase = "run" /\ Execs(p) /\ p \in PlacesOf(code)
      /\ o = OpAt(code, p) /\ Pos = p /\ code \in Codes /\ RunTypes /\ frames \in Seq(FrameRecords)
      /\ sub \in [start : Nat, end : Nat]
  BY DEF Stands, Execs, RunTypes
<1>3. /\ Len(frames) < MaxDepth /\ frames' = Append(frames, f)
      /\ at' = <<sub.start + 1, 1>> /\ srclin' = sub.start + 1 /\ pend' = 0
      /\ jumpBack' = jumpBack /\ vals' = vals
  BY <1>1 DEF Enter
<1>4. /\ phase' = "run" /\ code' = code /\ sub' = sub /\ source' = source
  BY <1>2 DEF vars, parseVars
<1>5. HasFor(source) => ~jumpBack
  BY DEF Stands, TameOp, LoopOps
<1>6. PICK c, g : Prog(code, jump, single, sub, source, c, g)
  BY DEF Stands
<1>7. PICK b, s, q : b = at' /\ s = srclin' /\ q = pend'
  OBVIOUS
<1>8. /\ Moved(code, sub, p, b, s, q, <<sub.start, 2>>) /\ SubPair(code, sub, c)
      /\ Inside(sub, b) /\ Inside(sub, WhereIn(code, b, s, q))
  BY <1>2, <1>3, <1>6, <1>7, MoveCall
<1>9. /\ f \in FrameRecords /\ Calling(code, sub, frames') /\ frames' \in Seq(FrameRecords)
      /\ NormIn(code, a) = IF a = p THEN p ELSE Abs!After(p)
  BY <1>1, <1>3, Pushes
<1>10. sub # NoSub
  BY <1>8 DEF Inside, NoSub, SubPair
<1>11. PlacedAt(code, sub, b, s, q, frames')
  BY <1>8, <1>10 DEF PlacedAt, Moved
<1>12. BackAt(code, source, WhereIn(code, b, s, q), jumpBack')
  BY <1>3, <1>5 DEF BackAt
<1>13. RunTypes'
  BY <1>2, <1>3, <1>9 DEF RunTypes
<1>14. Running'
  BY <1>4, <1>7, <1>9, <1>11, <1>12, <1>13 DEF Running, Going
<1>15. Pos' = Abs!After(Abs!SubPlace)
  <2>1. Pos' = PosIn(phase', code', b, s, q)
    BY <1>2, <1>4, <1>7, ReadNext
  <2>2. Pos' = NormIn(code, <<sub.start, 2>>)
    BY <1>4, <1>8, <2>1 DEF PosIn, Moved
  <2> QED
    BY <1>8, <2>2, SubPlaceIs
<1>16. AbsVals' = AbsVals
  <2>1. AbsVals = vals
    BY <1>2, <1>5, ValsQuiet
  <2>2. AbsVals' = vals'
    BY <1>2, <1>3, <1>5, ValsThen
  <2> QED
    BY <1>3, <2>1, <2>2
<1>17. Len(AbsFrames) = Len(frames)
  BY <1>2, ReadFrames, FramesMapped
<1>18. AbsFrames' = Append(AbsFrames, AbsFrame(code, f))
  <2>1. AbsFrames' = FramesIn(code, Append(frames, f))
    BY <1>3, <1>4, ReadNext
  <2>2. FramesIn(code, Append(frames, f)) = Append(FramesIn(code, frames), AbsFrame(code, f))
    BY <1>2, <1>9, FramesPushed
  <2> QED
    BY <2>1, <2>2, ReadFrames
<1>19. AbsFrame(code, f) = [to |-> IF a = p THEN p ELSE Abs!After(p), evald |-> e]
  BY <1>1, <1>9 DEF AbsFrame
<1> QED
  BY <1>2, <1>3, <1>14, <1>15, <1>16, <1>17, <1>18, <1>19

LEMMA CallSim == ASSUME Ran, CallOp PROVE Simulated
<1>1. PICK p, o : Stands(p, o)
  BY Standing DEF CallOp, Exec
<1>2. PICK a, e : a = Next1(p) /\ e = FALSE
  OBVIOUS
<1>3. /\ o.op = "call" /\ o = OpAt(code, p) /\ p \in PlacesOf(code) /\ Enter(a, e)
      /\ UNCHANGED vars /\ evald' = FALSE /\ (o.f => evald) /\ Execs(p)
  BY <1>1, <1>2 DEF CallOp, Exec, Stands
<1>4. a # p
  <2>1. p[2] \in Nat /\ code \in Codes
    BY <1>3, PlaceFacts DEF Execs, PlaceType
  <2>2. a[2] = p[2] + 1
    BY <1>2 DEF Next1
  <2> QED
    BY <2>1, <2>2
<1>5. /\ Running' /\ Pos = p /\ Pos' = Abs!After(Abs!SubPlace)
      /\ Len(AbsFrames) < MaxDepth /\ AbsVals' = AbsVals
      /\ AbsFrames' = Append(AbsFrames, [to |-> IF a = p THEN p ELSE Abs!After(p), evald |-> e])
  <2>1. e \in BOOLEAN /\ evald' \in BOOLEAN /\ UNCHANGED vars
    BY <1>2, <1>3
  <2>2. (a = p \/ a = Next1(p)) /\ (o.op = "call" \/ o.f) /\ Enter(a, e)
    BY <1>2, <1>3
  <2> QED
    BY <1>1, <2>1, <2>2, Enters
<1>6. AbsFrames' = Append(AbsFrames, [to |-> Abs!After(p), evald |-> FALSE])
  BY <1>2, <1>4, <1>5
<1>7. Abs!Step("call")
  BY <1>3, StepIs
<1>8. phase = "run" /\ Pos \in Abs!Real
  BY <1>7 DEF Abs!Step, Abs!Ready
<1>9. Abs!Call
  BY <1>5, <1>6, <1>7, <1>8 DEF Abs!Call
<1> QED
  BY <1>5, <1>9 DEF Simulated, Abs!AbsNext

LEMMA CallInSim == ASSUME Ran, CallInExpression PROVE Simulated
<1>1. PICK p, o : Stands(p, o)
  BY Standing DEF CallInExpression
<1>2. PICK a, e : a = p /\ e = TRUE
  OBVIOUS
<1>3. /\ o.f /\ ~evald /\ o = OpAt(code, p) /\ p \in PlacesOf(code) /\ Enter(a, e)
      /\ UNCHANGED vars /\ evald' = evald /\ evald \in BOOLEAN /\ phase = "run" /\ phase' = phase /\ code' = code
  BY <1>1, <1>2 DEF CallInExpression, Stands, Execs, RunTypes, vars, parseVars
<1>4. /\ Running' /\ Pos = p /\ Pos' = Abs!After(Abs!SubPlace)
      /\ Len(AbsFrames) < MaxDepth /\ AbsVals' = AbsVals
      /\ AbsFrames' = Append(AbsFrames, [to |-> IF a = p THEN p ELSE Abs!After(p), evald |-> e])
  BY <1>1, <1>2, <1>3, Enters
<1>5. AbsFrames' = Append(AbsFrames, [to |-> Pos, evald |-> TRUE])
  BY <1>2, <1>4
<1>6. Pos \in Abs!Real /\ Abs!At(Pos).f
  BY <1>3, <1>4, SameReal, ReadReal
<1>7. Abs!Call
  BY <1>3, <1>4, <1>5, <1>6 DEF Abs!Call
<1> QED
  BY <1>4, <1>7 DEF Simulated, Abs!AbsNext

\* The END SUB of a program that runs.
LEMMA SubEnds ==
  ASSUME TypeOK, Nesting, LaidOut, phase = "run", sub # NoSub
  PROVE  <<sub.end, 1>> \in PlacesOf(code) /\ OpAt(code, <<sub.end, 1>>).op = "endsub"
<1>1. ~errors
  BY DEF Nesting
<1> QED
  BY <1>1 DEF LaidOut, Laid, SubLies

\* The end of a line is no step of the structured program.
LEMMA EndOfLineSim == ASSUME Ran, EndOfLine PROVE Simulated
<1>1. /\ TypeOK /\ Nesting /\ LaidOut /\ Running /\ phase = "run" /\ RunTypes
      /\ Going(code, sub, source, at, srclin, pend, jumpBack, frames)
  BY DEF Ran, EndOfLine, Running
<1>2. code \in Codes /\ sub \in [start : Nat, end : Nat]
  BY <1>1, RunProg
<1>3. /\ phase' = phase /\ code' = code /\ sub' = sub /\ source' = source /\ UNCHANGED vars
      /\ evald' = evald /\ jumpBack' = jumpBack /\ vals' = vals /\ frames' = frames
  BY DEF EndOfLine, vars, parseVars
<1>4. PICK w, s, q : w = WhereIn(code, at, srclin, pend) /\ s = srclin' /\ q = pend'
  OBVIOUS
<1>5. /\ w \in Spot /\ srclin \in Nat /\ pend \in Nat
      /\ (frames # <<>> => Inside(sub, w) /\ sub # NoSub)
      /\ BackAt(code, source, w, jumpBack) /\ Calling(code, sub, frames)
  BY <1>1, <1>4 DEF Going, PlacedAt
<1>6. at' = w /\ s = w[1] /\ q = 0
  <2>1. w = <<srclin + 1, pend + 1>>
    BY <1>4 DEF EndOfLine, WhereIn, cur, nline
  <2> QED
    BY <1>4, <2>1 DEF EndOfLine
<1>7. PICK y : y = WhereIn(code, w, s, q)
  OBVIOUS
<1>8. /\ y \in Spot /\ NormIn(code, y) = NormIn(code, w)
      /\ Inside(sub, w) /\ <<sub.end, 1>> \in PlacesOf(code) => Inside(sub, y)
  BY <1>2, <1>5, <1>6, <1>7, WhereNorm
<1>9. frames # <<>> => Inside(sub, w) /\ Inside(sub, y) /\ sub # NoSub
  BY <1>1, <1>5, <1>8, SubEnds
<1>10. s \in Nat /\ q \in Nat
  BY <1>5, <1>6 DEF Spot
<1>11. PlacedAt(code, sub, w, s, q, frames)
  BY <1>5, <1>6, <1>7, <1>8, <1>9, <1>10 DEF PlacedAt
<1>12. BackAt(code, source, y, jumpBack)
  <2>1. w \in PlacesOf(code) => y = w
    BY <1>2, <1>7, PlaceSpot
  <2> QED
    BY <1>5, <2>1 DEF BackAt
<1>13. Running'
  BY <1>1, <1>3, <1>4, <1>5, <1>6, <1>7, <1>11, <1>12 DEF Running, Going, RunTypes
<1>14. Pos' = Pos
  <2>1. Pos = PosIn(phase, code, at, srclin, pend)
    BY <1>2, ReadPos
  <2>2. Pos' = PosIn(phase, code, w, s, q)
    BY <1>2, <1>3, <1>4, <1>6, ReadNext
  <2> QED
    BY <1>1, <1>4, <1>7, <1>8, <2>1, <2>2 DEF PosIn
<1>15. AbsVals' = AbsVals
  <2>1. AbsVals = ValsIn(phase, code, Pos, jumpBack, vals)
    BY ReadVals
  <2>2. AbsVals' = ValsIn(phase', code', Pos', jumpBack', vals')
    BY ReadNext
  <2> QED
    BY <1>3, <1>14, <2>1, <2>2
<1>16. AbsFrames' = AbsFrames
  BY <1>3, ReadFrames, ReadNext
<1>17. UNCHANGED (Abs!absVars)
  BY <1>3, <1>14, <1>15, <1>16 DEF Abs!absVars
<1> QED
  BY <1>13, <1>17 DEF Simulated

\* Control comes to the end of the subroutine at its END SUB.
LEMMA AtEndStands ==
  ASSUME Ran, phase = "run", AtEndSub
  PROVE  /\ at = <<sub.end, 1>> /\ at \in PlacesOf(code) /\ OpAt(code, at).op = "endsub"
         /\ Pos = at /\ code \in Codes
<1>1. /\ TypeOK /\ Nesting /\ LaidOut /\ frames # <<>>
      /\ Going(code, sub, source, at, srclin, pend, jumpBack, frames)
  BY DEF Ran, Running, AtEndSub
<1>2. code \in Codes /\ sub \in [start : Nat, end : Nat]
  BY <1>1, RunProg
<1>3. Inside(sub, at) /\ sub # NoSub /\ at \in Spot
  BY <1>1 DEF Going, PlacedAt
<1>4. <<sub.end, 1>> \in PlacesOf(code) /\ OpAt(code, <<sub.end, 1>>).op = "endsub"
  BY <1>1, <1>3, SubEnds
<1>5. at[1] = sub.end
  BY <1>2, <1>3 DEF AtEndSub, cur, Inside, Spot
<1>6. at = <<sub.end, 1>>
  BY <1>3, <1>5 DEF Inside, Spot
<1>7. at \in PlacesOf(code) /\ OpAt(code, at).op = "endsub"
  BY <1>4, <1>6
<1>8. WhereIn(code, at, srclin, pend) = at
  BY <1>2, <1>7, PlaceSpot
<1>9. Pos = at
  <2>1. Pos = PosIn(phase, code, at, srclin, pend)
    BY <1>2, ReadPos
  <2> QED
    BY <1>2, <1>7, <1>8, <2>1, NormPlace DEF PosIn
<1> QED
  BY <1>2, <1>6, <1>7, <1>9

LEMMA ReturnFromSubSim == ASSUME Ran, ReturnFromSub PROVE Simulated
<1>1. /\ TypeOK /\ Nesting /\ LaidOut /\ Running /\ phase = "run" /\ frames # <<>> /\ RunTypes
      /\ Going(code, sub, source, at, srclin, pend, jumpBack, frames) /\ AtEndSub
      /\ frames \in Seq(FrameRecords)
  BY DEF Ran, ReturnFromSub, Running, AtEndSub, RunTypes
<1>2. /\ at \in PlacesOf(code) /\ OpAt(code, at).op = "endsub" /\ Pos = at /\ code \in Codes
  BY <1>1, AtEndStands
<1>3. sub \in [start : Nat, end : Nat]
  BY <1>1, RunProg
<1>4. PICK n, f : n = Len(frames) /\ f = frames[n]
  OBVIOUS
<1>5. n \in Nat \ {0} /\ n \in 1 .. n /\ f \in FrameRecords
  BY <1>1, <1>4
<1>6. /\ phase' = phase /\ code' = code /\ sub' = sub /\ source' = source /\ UNCHANGED vars
      /\ at' = f.to /\ srclin' = f.srclin /\ pend' = f.pend /\ evald' = f.evald
      /\ frames' = SubSeq(frames, 1, Len(frames) - 1) /\ jumpBack' = jumpBack /\ vals' = vals
  BY <1>4 DEF ReturnFromSub, Frame, vars, parseVars
<1>7. /\ Calling(code, sub, frames)
      /\ BackAt(code, source, WhereIn(code, at, srclin, pend), jumpBack) /\ sub # NoSub
  BY <1>1 DEF Going, PlacedAt
<1>8. /\ f.to \in Spot /\ f.srclin = f.to[1] /\ f.pend = 0 /\ f.srclin \in Nat
      /\ f.pend \in Nat /\ f.evald \in BOOLEAN
      /\ (n \in 2 .. n => Within(sub, f.to))
  BY <1>4, <1>5, <1>7 DEF Calling, Resumes, FrameRecords
<1>9. /\ frames' \in Seq(FrameRecords) /\ Len(frames') = n - 1
      /\ \A i \in 1 .. Len(frames') : frames'[i] = frames[i]
      /\ FramesIn(code, frames') =
           SubSeq(FramesIn(code, frames), 1, Len(FramesIn(code, frames)) - 1)
  BY <1>1, <1>4, <1>6, FramesPopped
<1>10. Calling(code, sub, frames')
  <2>1. \A i \in 1 .. Len(frames') : i \in 1 .. Len(frames)
    BY <1>4, <1>5, <1>9
  <2>2. \A i \in 2 .. Len(frames') : i \in 2 .. Len(frames) /\ i \in 1 .. Len(frames')
    BY <1>4, <1>5, <1>9
  <2> QED
    BY <1>7, <1>9, <2>1, <2>2 DEF Calling
<1>11. frames' # <<>> => Within(sub, f.to)
  <2>1. SUFFICES ASSUME frames' # <<>> PROVE n \in 2 .. n
    BY <1>8
  <2>2. Len(frames') # 0
    BY <1>9, <2>1
  <2> QED
    BY <1>5, <1>9, <2>2
<1>12. PICK a, s, q, y : a = f.to /\ s = f.srclin /\ q = f.pend /\ y = WhereIn(code, a, s, q)
  OBVIOUS
<1>13. /\ y \in Spot /\ NormIn(code, y) = NormIn(code, a)
       /\ Inside(sub, a) /\ <<sub.end, 1>> \in PlacesOf(code) => Inside(sub, y)
  BY <1>2, <1>3, <1>8, <1>12, WhereNorm
<1>14. PlacedAt(code, sub, a, s, q, frames')
  <2>1. <<sub.end, 1>> \in PlacesOf(code)
    BY <1>1, <1>7, SubEnds
  <2>2. frames' # <<>> => Inside(sub, a) /\ Inside(sub, y)
    BY <1>11, <1>12, <1>13, <2>1 DEF Within
  <2> QED
    BY <1>7, <1>8, <1>12, <1>13, <2>2 DEF PlacedAt
<1>15. HasFor(source) => ~jumpBack
  <2>1. WhereIn(code, at, srclin, pend) = at
    BY <1>2, PlaceSpot
  <2> QED
    BY <1>2, <1>7, <2>1 DEF BackAt, LoopOps
<1>16. BackAt(code, source, y, jumpBack')
  BY <1>6, <1>15 DEF BackAt
<1>17. RunTypes'
  BY <1>1, <1>6, <1>8, <1>9 DEF RunTypes
<1>18. Running'
  BY <1>1, <1>6, <1>10, <1>12, <1>14, <1>16, <1>17 DEF Running, Going
<1>19. PICK h : h = AbsFrames
  OBVIOUS
<1>20. h = FramesIn(code, frames) /\ Len(h) = n /\ h[n] = AbsFrame(code, f) /\ h # <<>>
  BY <1>1, <1>4, <1>5, <1>19, ReadFrames, FramesMapped
<1>21. Pos' = h[Len(h)].to
  <2>1. Pos' = PosIn(phase, code, a, s, q)
    BY <1>2, <1>6, <1>12, ReadNext
  <2>2. Pos' = NormIn(code, a)
    BY <1>1, <1>12, <1>13, <2>1 DEF PosIn
  <2> QED
    BY <1>12, <1>20, <2>2 DEF AbsFrame
<1>22. evald' = h[Len(h)].evald
  BY <1>6, <1>20 DEF AbsFrame
<1>23. AbsFrames' = SubSeq(h, 1, Len(h) - 1)
  <2>1. AbsFrames' = FramesIn(code, frames')
    BY <1>6, ReadNext
  <2> QED
    BY <1>9, <1>20, <2>1
<1>24. AbsVals' = AbsVals
  <2>1. AbsVals = vals
    BY <1>1, <1>15, ValsQuiet
  <2>2. AbsVals' = vals'
    BY <1>1, <1>6, <1>15, ValsThen
  <2> QED
    BY <1>6, <2>1, <2>2
<1>25. Pos \in Abs!Real /\ Abs!At(Pos).op = "endsub"
  BY <1>2, SameReal, ReadReal
<1>26. Abs!EndSub
  BY <1>1, <1>6, <1>19, <1>20, <1>21, <1>22, <1>23, <1>24, <1>25 DEF Abs!EndSub
<1> QED
  BY <1>18, <1>26 DEF Simulated, Abs!AbsNext

\* The end of a run, with or without an error.
LEMMA StopSim == ASSUME Ran, phase = "run", Stop PROVE Simulated
<1>1. /\ phase' = "done" /\ code' = code /\ evald' = evald /\ jumpBack' = jumpBack
      /\ vals' = vals /\ frames' = frames /\ at' = at /\ srclin' = srclin /\ pend' = pend
  BY DEF Stop, parseVars, runVars
<1>2. TypeOK /\ RunTypes /\ code \in Codes
  BY RunProg DEF Ran, Running
<1>3. Running'
  BY <1>1, <1>2 DEF Running, RunTypes
<1>4. Pos' = Pos
  <2>1. Pos = PosIn(phase, code, at, srclin, pend)
    BY <1>2, ReadPos
  <2>2. Pos' = PosIn(phase', code', at', srclin', pend')
    BY <1>1, <1>2, ReadNext
  <2> QED
    BY <1>1, <2>1, <2>2 DEF PosIn
<1>5. AbsVals' = AbsVals
  <2>1. AbsVals = ValsIn(phase, code, Pos, jumpBack, vals)
    BY ReadVals
  <2>2. AbsVals' = ValsIn(phase', code', Pos', jumpBack', vals')
    BY ReadNext
  <2> QED
    BY <1>1, <1>4, <2>1, <2>2 DEF ValsIn
<1>6. AbsFrames' = AbsFrames
  BY <1>1, ReadFrames, ReadNext
<1>7. Abs!Stop
  BY <1>1, <1>4, <1>5, <1>6 DEF Abs!Stop
<1> QED
  BY <1>3, <1>7 DEF Simulated, Abs!AbsNext

\* Every step of execution is one of Structured, or the end of a line, which is a stutter.
LEMMA ExecuteSim == ASSUME Ran, Execute PROVE Simulated
<1>1. CASE ProgramEnd \/ RunError
  <2>1. phase = "run" /\ Stop
    BY <1>1 DEF ProgramEnd, RunError, OnOpcode
  <2> QED
    BY <2>1, StopSim
<1> QED
  BY <1>1, OrdinarySim, AssignSim, IfTrueSim, IfFalseSim, ElseSim, ForSim, WhileSim, NextSim,
     SubSim, ReturnSim, CallSim, CallInSim, EndOfLineSim, ReturnFromSubSim DEF Execute

\* Nothing runs yet.
LEMMA AtStartAbs ==
  ASSUME frames = <<>>
  PROVE  AbsFrames = <<>>
BY DEF AbsFrames

\* While a source is parsed Structured stands still.
LEMMA ParseVals ==
  ASSUME phase \in {"parse", "failed"}
  PROVE  AbsVals = vals /\ Pos = <<1, 1>>
BY DEF AbsVals, Pos

LEMMA ParseAbs ==
  ASSUME phase \in {"parse", "failed"}, AtStart(at, srclin, pend, evald, frames)
  PROVE  AbsVals = vals /\ Pos = <<1, 1>> /\ AbsFrames = <<>> /\ evald = FALSE
BY AtStartAbs, ParseVals DEF AtStart

LEMMA ParseAbsThen ==
  ASSUME phase' \in {"parse", "failed"}, AtStart(at', srclin', pend', evald', frames')
  PROVE  AbsVals' = vals' /\ Pos' = <<1, 1>> /\ AbsFrames' = <<>> /\ evald' = FALSE
<1>1. (phase \in {"parse", "failed"} /\ AtStart(at, srclin, pend, evald, frames)
         => AbsVals = vals /\ Pos = <<1, 1>> /\ AbsFrames = <<>> /\ evald = FALSE)'
  BY ParseAbs, PTL
<1> QED
  BY <1>1

\* A line, or a command of it, is compiled; or the program is refused.
LEMMA CompileSim ==
  ASSUME Running, phase = "parse", phase' \in {"parse", "failed"}, source' = source,
         UNCHANGED runVars
  PROVE  Simulated
<1>1. /\ AtStart(at, srclin, pend, evald, frames) /\ RunTypes
      /\ (HasFor(source) => ~jumpBack)
  BY DEF Running
<1>2. /\ at' = at /\ srclin' = srclin /\ pend' = pend /\ evald' = evald /\ frames' = frames
      /\ vals' = vals /\ jumpBack' = jumpBack
  BY DEF runVars
<1>3. AtStart(at', srclin', pend', evald', frames')
  BY <1>1, <1>2
<1>4. Running'
  BY <1>1, <1>2, <1>3 DEF Running, RunTypes
<1>5. AbsVals = vals /\ Pos = <<1, 1>> /\ AbsFrames = <<>>
  BY <1>1, ParseAbs
<1>6. AbsVals' = vals' /\ Pos' = <<1, 1>> /\ AbsFrames' = <<>>
  BY <1>3, ParseAbsThen
<1>7. Abs!Compile
  BY <1>2, <1>5, <1>6 DEF Abs!Compile
<1> QED
  BY <1>4, <1>7 DEF Simulated, Abs!AbsNext

\* The compiled program starts.
LEMMA LoadSim ==
  ASSUME TypeOK, LaidOut, Running, Finish, phase' = "run", UNCHANGED runVars
  PROVE  Simulated
<1>1. /\ phase = "parse" /\ code' = code /\ sub' = sub /\ source' = source /\ ~errors
      /\ code \in Codes
  BY DEF Finish, TypeOK, Codes
<1>2. /\ AtStart(at, srclin, pend, evald, frames) /\ RunTypes
      /\ (HasFor(source) => ~jumpBack)
  BY <1>1 DEF Running
<1>3. /\ at' = at /\ srclin' = srclin /\ pend' = pend /\ evald' = evald /\ frames' = frames
      /\ vals' = vals /\ jumpBack' = jumpBack
  BY DEF runVars
<1>4. PICK a, s, q, y : a = at' /\ s = srclin' /\ q = pend' /\ y = WhereIn(code, a, s, q)
  OBVIOUS
<1>5. a = <<1, 1>> /\ a \in Spot /\ s = a[1] /\ q = 0 /\ s \in Nat /\ q \in Nat /\ frames' = <<>>
  BY <1>2, <1>3, <1>4 DEF AtStart, Spot
<1>6. y \in Spot /\ NormIn(code, y) = NormIn(code, a)
  BY <1>1, <1>4, <1>5, WhereNorm
<1>7. PlacedAt(code, sub, a, s, q, frames')
  BY <1>4, <1>5, <1>6 DEF PlacedAt
<1>8. Calling(code, sub, frames')
  <2>1. 1 .. Len(<<>>) = {} /\ 2 .. Len(<<>>) = {}
    OBVIOUS
  <2> QED
    BY <1>5, <2>1 DEF Calling
<1>9. Running'
  BY <1>1, <1>2, <1>3, <1>4, <1>5, <1>7, <1>8 DEF Running, Going, RunTypes, BackAt
<1>10. AbsVals = vals /\ AbsFrames = <<>>
  BY <1>1, <1>2, ParseAbs
<1>11. AbsFrames' = <<>>
  <2>1. (frames = <<>> => AbsFrames = <<>>)'
    BY AtStartAbs, PTL
  <2> QED
    BY <1>5, <2>1
<1>12. Pos' = Abs!Norm(<<1, 1>>)
  <2>1. Pos' = PosIn(phase', code, a, s, q)
    BY <1>1, <1>4, ReadNext
  <2> QED
    BY <1>4, <1>5, <1>6, <2>1, ReadNorm, SameNorm DEF PosIn
<1>13. AbsVals' = vals'
  <2>1. PICK x : x = Pos'
    OBVIOUS
  <2>2. AbsVals' = ValsIn(phase', code, x, jumpBack', vals')
    BY <1>1, <2>1, ReadNext
  <2>3. CASE HasFor(source)
    BY <1>2, <1>3, <2>2, <2>3 DEF ValsIn
  <2>4. CASE ~HasFor(source)
    <3>1. x \in PlacesOf(code) => OpAt(code, x).op # "for"
      BY <1>1, <2>4 DEF LaidOut, Laid, Lying, TameOp
    <3> QED
      BY <2>2, <3>1 DEF ValsIn
  <2> QED
    BY <2>3, <2>4
<1>14. Abs!Load
  BY <1>1, <1>3, <1>10, <1>11, <1>12, <1>13 DEF Abs!Load
<1> QED
  BY <1>9, <1>14 DEF Simulated, Abs!AbsNext

\* Parsing is no step of Structured, but the one that starts the run.
LEMMA ParseSim ==
  ASSUME TypeOK, Owned, Nesting, LaidOut, Running, Parse, UNCHANGED runVars
  PROVE  Simulated
<1>1. CASE (\E ln \in source : StartLine(ln)) \/ Command
  <2>1. phase = "parse" /\ phase' = "parse" /\ source' = source
    BY <1>1 DEF StartLine, Command, Refuse, Compile, Accept, Owned
  <2> QED
    BY <2>1, CompileSim
<1>2. CASE Finish
  <2>1. phase = "parse" /\ phase' \in {"failed", "run"} /\ source' = source
    BY <1>2 DEF Finish
  <2> QED
    BY <1>2, <2>1, CompileSim, LoadSim
<1> QED
  BY <1>1, <1>2 DEF Parse

\* Another program is read: one with a FOR finds jump_back as it was initialized.
LEMMA AgainSim ==
  ASSUME Tame, TypeOK, Running, RunAgain
  PROVE  Simulated
<1>1. /\ phase \in {"failed", "done"} /\ phase' = "parse" /\ code' = <<>>
      /\ source' \in Sources /\ passes < MaxPasses[source']
      /\ at' = <<1, 1>> /\ srclin' = 1 /\ pend' = 0 /\ evald' = FALSE
      /\ vals' = [v \in Vars |-> 0] /\ frames' = <<>> /\ jumpBack' = jumpBack
      /\ RunTypes
  BY DEF RunAgain, Again, Running
<1>2. ~HasFor(source')
  <2>1. passes \in Nat /\ passes >= 1
    <3>1. passes \in 1 .. MaxPasses[source]
      BY DEF TypeOK
    <3> QED
      BY <3>1
  <2>2. MaxPasses[source'] # 1
    BY <1>1, <2>1
  <2> QED
    BY <1>1, <2>2 DEF Tame
<1>3. AtStart(at', srclin', pend', evald', frames')
  BY <1>1 DEF AtStart
<1>4. frames' \in Seq(FrameRecords) /\ vals' \in [Vars -> Nat] /\ evald' \in BOOLEAN
  <2>1. <<>> \in Seq(FrameRecords)
    OBVIOUS
  <2>2. [v \in Vars |-> 0] \in [Vars -> Nat]
    OBVIOUS
  <2>3. evald' \in BOOLEAN
    BY <1>1
  <2> QED
    BY <1>1, <2>1, <2>2, <2>3
<1>5. Running'
  BY <1>1, <1>2, <1>3, <1>4 DEF Running, RunTypes
<1>6. AbsVals' = vals' /\ Pos' = <<1, 1>> /\ AbsFrames' = <<>>
  BY <1>1, <1>3, ParseAbsThen
<1>7. DOMAIN AbsVals = Vars
  <2>1. AbsVals = ValsIn(phase, code, Pos, jumpBack, vals)
    BY ReadVals
  <2> QED
    BY <1>1, <2>1 DEF ValsIn, RunTypes
<1>8. Abs!Again
  BY <1>1, <1>6, <1>7 DEF Abs!Again
<1> QED
  BY <1>5, <1>8 DEF Simulated, Abs!AbsNext

\* The inductive invariant.
TameIInv == RunIInv /\ LaidOut /\ Running

\* The invariant of both theorems holds at first, ...
LEMMA TameIInvInit == RunInit => TameIInv /\ phase = "parse"
<1> SUFFICES ASSUME RunInit PROVE TameIInv /\ phase = "parse"
  OBVIOUS
<1>1. RunIInv
  BY RunIInvInit
<1>2. phase = "parse" /\ LaidOut
  BY LaidBegins DEF RunInit, Init
<1>3. /\ at = <<1, 1>> /\ srclin = 1 /\ pend = 0 /\ evald = FALSE /\ jumpBack = FALSE
      /\ vals = [v \in Vars |-> 0] /\ frames = <<>>
  BY DEF RunInit
<1>4. RunTypes /\ AtStart(at, srclin, pend, evald, frames)
  <2>1. <<>> \in Seq(FrameRecords)
    OBVIOUS
  <2>2. [v \in Vars |-> 0] \in [Vars -> Nat]
    OBVIOUS
  <2>3. evald \in BOOLEAN /\ jumpBack \in BOOLEAN
    BY <1>3
  <2>4. RunTypes
    BY <1>3, <2>1, <2>2, <2>3 DEF RunTypes
  <2> QED
    BY <1>3, <2>4 DEF AtStart
<1>5. Running
  BY <1>2, <1>3, <1>4 DEF Running
<1> QED
  BY <1>1, <1>2, <1>5 DEF TameIInv

\* LaidOut outlives the run.
LEMMA StaysLaid ==
  ASSUME Tame, TypeOK, Owned, Nesting, LaidOut, RunNext
  PROVE  LaidOut'
<1>1. CASE Parse \/ RunAgain
  <2>1. [Next]_vars
    BY <1>1 DEF Next, RunAgain
  <2> QED
    BY <2>1, LaidNext
<1>2. CASE Execute /\ UNCHANGED vars
  <2>1. [Next]_vars
    BY <1>2
  <2> QED
    BY <2>1, LaidNext
<1>3. CASE Execute /\ Stop
  <2>1. phase' = "done"
    BY <1>3 DEF Stop
  <2> QED
    BY <2>1 DEF LaidOut
<1>4. Execute => UNCHANGED vars \/ Stop
  BY DEF Execute, Ordinary, Assign, IfTrue, IfFalse, ElseOp, ForOp, WhileOp, NextOp, SubOp,
     ReturnOp, CallOp, CallInExpression, EndOfLine, ReturnFromSub, ProgramEnd, RunError, Exec
<1> QED
  BY <1>1, <1>2, <1>3, <1>4 DEF RunNext

\* ... is kept by every step, which is one of Structured or a stutter, ...
LEMMA TameIInvStep ==
  ASSUME Tame, TameIInv, [RunNext]_allVars
  PROVE  TameIInv' /\ [Abs!AbsNext]_(Abs!absVars)
<1>1. RunIInv /\ TypeOK /\ Owned /\ Nesting /\ LaidOut /\ Running
  BY DEF TameIInv, RunIInv
<1>2. RunIInv'
  BY <1>1, RunIInvStep
<1>3. CASE RunNext
  <2>1. LaidOut'
    BY <1>1, <1>3, StaysLaid
  <2>2. Simulated
    <3>1. CASE Execute
      BY <1>1, <3>1, ExecuteSim DEF Ran
    <3>2. CASE Parse /\ UNCHANGED runVars
      BY <1>1, <3>2, ParseSim
    <3>3. CASE RunAgain
      BY <1>1, <3>3, AgainSim
    <3> QED
      BY <1>3, <3>1, <3>2, <3>3 DEF RunNext
  <2> QED
    BY <1>2, <2>1, <2>2 DEF TameIInv, Simulated
<1>4. CASE UNCHANGED allVars
  <2>1. /\ UNCHANGED vars /\ phase' = phase /\ code' = code /\ sub' = sub /\ source' = source
        /\ UNCHANGED <<at, srclin, pend, evald, jumpBack, vals, frames>>
    BY <1>4 DEF allVars, runVars, vars, parseVars
  <2>2. LaidOut'
    <3>1. [Next]_vars
      BY <2>1
    <3> QED
      BY <1>1, <3>1, LaidNext
  <2>3. Running'
    BY <1>1, <2>1 DEF Running, RunTypes
  <2>4. AbsVals' = AbsVals /\ AbsFrames' = AbsFrames /\ Pos' = Pos
    <3>1. Pos' = Pos
      <4>1. code \in Codes
        BY <1>1 DEF TypeOK, Codes
      <4> QED
        BY <2>1, <4>1, ReadPos, ReadNext
    <3> QED
      BY <2>1, <3>1, ReadVals, ReadFrames, ReadNext
  <2>5. UNCHANGED (Abs!absVars)
    BY <2>1, <2>4 DEF Abs!absVars
  <2> QED
    BY <1>2, <2>2, <2>3, <2>5 DEF TameIInv
<1> QED
  BY <1>3, <1>4

\* ... and at an assignment that has been executed it says what FirstValueTested says.
LEMMA FirstValueRead ==
  ASSUME TameIInv
  PROVE  FirstValueTested
<1> SUFFICES ASSUME phase = "run", OnOpcode, ~AtEndSub, op.op = "assign" PROVE ~jumpBack
  BY DEF FirstValueTested
<1>1. Ran
  BY DEF TameIInv, RunIInv, Ran
<1>2. PICK p, o : Stands(p, o)
  BY <1>1, Standing
<1> QED
  BY <1>2 DEF Stands, TameOp, LoopOps

\* For every set of Tame sources: a FOR that has just assigned its first value finds
\* jump_back not set, so that the value is tested, not incremented first.
THEOREM FirstValueKept == ASSUME Tame PROVE RunSpec => []FirstValueTested
<1>1. TameIInv /\ [RunNext]_allVars => TameIInv'
  BY TameIInvStep
<1>2. RunInit => TameIInv
  BY TameIInvInit
<1>3. TameIInv => FirstValueTested
  BY FirstValueRead
<1> QED
  BY <1>1, <1>2, <1>3, PTL DEF RunSpec

\* For every set of Tame sources, every depth of calls and every number of lines: the
\* jumps that passt patches and do_pcode follows, by way of srclin, the offset and
\* jump_back, execute the structured program.
THEOREM RunsAsWritten == ASSUME Tame PROVE RunSpec => Structured
<1>1. TameIInv /\ [RunNext]_allVars => TameIInv' /\ [Abs!AbsNext]_(Abs!absVars)
  BY TameIInvStep
<1>2. RunInit => TameIInv /\ phase = "parse"
  BY TameIInvInit
<1> QED
  BY <1>1, <1>2, PTL DEF RunSpec, Structured, Abs!AbsSpec
=============================================================================
