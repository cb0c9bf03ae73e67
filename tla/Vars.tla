-------------------------------- MODULE Vars --------------------------------
(* The variables of a GLE script as they are stored (var.cpp): names become  *)
(* indices into one global array or into the frame of the current call; a    *)
(* "let" of a graph borrows indices of the map of the subroutine around it,  *)
(* or of a temporary map; frames are reused and never cleared; an error ends *)
(* the run and gives nothing back.                                           *)
EXTENDS Integers, Sequences, FiniteSets, SequencesExt

CONSTANTS
    Names, X, Data, Globals, Subs, Locals, NbParam, Val,    \* as in Scopes
    MaxDepth, MaxLets,
    NumLocal,   \* NUM_LOCAL of mem_limits.h: local indices end there
    Global0,    \* the variable with global index 0
    MaxWork     \* bound on the calls, assignments, lets read, points and runs

ASSUME NamesAssumption ==
    /\ X \in Names /\ Data \subseteq Names /\ Globals \subseteq Names
    /\ IsFiniteSet(Data) /\ NumLocal \in Nat
    /\ Global0 \in Globals /\ 0 \in Val
    /\ {"temp", "none"} \cap Subs = {}
    /\ \A s \in Subs : Locals[s] \in Seq(Names) /\ NbParam[s] <= Len(Locals[s])

\* A map has a name only once (m_Map is a hash map).
ASSUME LocalsAssumption ==
    \A s \in Subs : /\ NbParam[s] \in Nat
                    /\ \A j, k \in DOMAIN Locals[s] : Locals[s][j] = Locals[s][k] => j = k

VARIABLES
    globals,    \* m_Global, by name
    maps,       \* the GLEVarMap of every subroutine, and the temporary one
    localMap,   \* m_LocalMap: a subroutine, "temp" or "none" (NULL)
    frames,     \* local_var_stack from its level 1 on
    level,      \* local_var_stack_level
    ctl,        \* the calls and lets on the stack of the program
    graph,      \* the graph block and the lets it has still to do
    lets,       \* g_letCmds
    mode,       \* m_nameMode
    work        \* how many of them there have been

vars == <<globals, maps, localMap, frames, level, ctl, graph, lets, mode, work>>

-----------------------------------------------------------------------------
(* GLEVarMap and GLEVarSubMap. A submap is a sequence of [name, at].         *)

NewMap(names) == [own |-> names, size |-> Len(names), free |-> <<>>, subs |-> <<>>]

NoMap == NewMap(<<>>)

NamesIn(sub) == {sub[k].name : k \in DOMAIN sub}

IndicesOf(sub) == {sub[k].at : k \in DOMAIN sub}

IndexIn(sub, n) == sub[CHOOSE k \in DOMAIN sub : sub[k].name = n].at

\* var_get: the submaps, the last one first, then the names of the map.
VarGet(map, n) ==
    LET having == {k \in DOMAIN map.subs : n \in NamesIn(map.subs[k])}
        own == {k \in DOMAIN map.own : map.own[k] = n}
    IN IF having # {} THEN IndexIn(map.subs[Max(having)], n)
       ELSE IF own # {} THEN (CHOOSE k \in own : TRUE) - 1
       ELSE -1

\* addVarIdx: the index freed last is used first.
FreeIndex(map) == IF map.free # <<>> THEN Last(map.free) ELSE map.size

AddVarIdx(map) ==
    IF map.free # <<>> THEN [map EXCEPT !.free = Front(@)]
                       ELSE [map EXCEPT !.size = @ + 1]

\* var_find_add_submap for a name the last submap does not have.
AddToSubMap(map, n) ==
    [AddVarIdx(map) EXCEPT !.subs[Len(map.subs)] =
        Append(@, [name |-> n, at |-> FreeIndex(map)])]

\* addVars fails on an index that is in use: "variable not free".
CanAdd(map, sub) == \A i \in IndicesOf(sub) : i >= map.size \/ i \in ToSet(map.free)

\* The members of a set of indices, the least one first.
Sorted(S) == [k \in 1..Cardinality(S) |-> CHOOSE i \in S : Cardinality({j \in S : j < i}) = k - 1]

AddVars(map, sub) ==
    LET size == Max({map.size, Max(IndicesOf(sub)) + 1})
        free == (ToSet(map.free) \cup (map.size .. (size - 1))) \ IndicesOf(sub)
    IN [map EXCEPT !.size = size, !.free = Sorted(free),
                   !.subs = Append(@, sub)]

\* Mutant: the indices are not given back.
PopSubMapKeepsIndices(map) == [map EXCEPT !.subs = Front(@)]

\* popSubMap, removeFromParent
PopSubMap(map) ==
    LET sub == Last(map.subs)
    IN [map EXCEPT !.free = @ \o [k \in DOMAIN sub |-> sub[k].at],
                   !.subs = Front(@)]

-----------------------------------------------------------------------------
(* Frames and references                                                     *)

\* GLEArrayImpl::ensure
Ensure(frame, n) ==
    IF Len(frame) >= n THEN frame ELSE frame \o [k \in 1..(n - Len(frame)) |-> 0]

\* allocLocal: a frame of this level is used again as it was left.
AllocLocal(num) ==
    IF level = Len(frames) THEN Append(frames, [k \in 1..num |-> 0])
    ELSE [frames EXCEPT ![level + 1] = Ensure(@, num + 1)]

\* Index i of frame l; what lies outside of the frame is never used, see
\* CellsExist.
Cell(fs, l, i) == IF i + 1 \in DOMAIN fs[l] THEN fs[l][i + 1] ELSE 0

Put(fs, l, i, v) ==
    IF i + 1 \in DOMAIN fs[l] THEN [fs EXCEPT ![l][i + 1] = v] ELSE fs

\* An index with or without GLE_VAR_LOCAL_BIT.
Local(i) == [local |-> TRUE, at |-> i, name |-> X]
Global(n) == [local |-> FALSE, at |-> 0, name |-> n]

\* GLEVars::check for a local index
Fits(i) == localMap # "none" /\ i < maps[localMap].size /\ i < NumLocal

\* Mutant: reads the frame made last instead of the current one.
GetFromLastFrame(ref) ==
    IF ref.local /\ Fits(ref.at) THEN Cell(frames, Len(frames), ref.at)
    ELSE globals[IF ref.local THEN Global0 ELSE ref.name]

\* get: a local index that does not fit becomes global index 0.
Get(ref) ==
    IF ref.local /\ Fits(ref.at) THEN Cell(frames, level, ref.at)
    ELSE globals[IF ref.local THEN Global0 ELSE ref.name]

Top == ctl[Len(ctl)]

Kind == IF ctl = <<>> THEN "main" ELSE Top.kind

\* What the parser has made of a name in the body of a subroutine, or in the
\* main program: the locals are those declared there, all else is global.
Static(n) ==
    LET own == IF ctl = <<>> THEN <<>> ELSE Locals[Top.sub]
    IN IF n \in ToSet(own) THEN Local(VarGet(NewMap(own), n)) ELSE Global(n)

Known(n) == Static(n).local \/ n \in Globals

-----------------------------------------------------------------------------
(* addLocalSubMap makes a temporary map where there is none, and with it a   *)
(* frame; removeLocalSubMap gives both back.                                 *)

MapForLet == IF localMap = "none" THEN "temp" ELSE localMap

FramesForLet == IF localMap = "none" THEN AllocLocal(0) ELSE frames

LevelForLet == IF localMap = "none" THEN level + 1 ELSE level

\* Mutant: only a temporary map is taken away.
RemoveLocalSubMapIfTemp ==
    IF localMap = "temp"
    THEN /\ maps' = [maps EXCEPT !["temp"] = NoMap]
         /\ localMap' = "none"
         /\ level' = level - 1
    ELSE UNCHANGED <<maps, localMap, level>>

RemoveLocalSubMap ==
    IF localMap = "temp"
    THEN /\ maps' = [maps EXCEPT !["temp"] = NoMap]
         /\ localMap' = "none"
         /\ level' = level - 1
    ELSE /\ maps' = [maps EXCEPT ![localMap] = PopSubMap(@)]
         /\ UNCHANGED <<localMap, level>>

Pop == ctl' = Front(ctl)

AtStatement ==
    /\ Kind \in {"main", "call"}
    /\ ~(graph.state = "drawing" /\ graph.depth = Len(ctl))

FreshMaps == [m \in Subs \cup {"temp"} |->
                  IF m = "temp" THEN NoMap ELSE NewMap(Locals[m])]

\* Bounds the length of a behaviour.
Works == work < MaxWork /\ work' = work + 1

Closed == [state |-> "none", depth |-> 0, todo |-> <<>>]

Init ==
    /\ globals = [g \in Globals |-> 0]
    /\ maps = FreshMaps
    /\ localMap = "none"
    /\ frames = <<>> /\ level = 0
    /\ ctl = <<>> /\ lets = <<>>
    /\ graph = Closed
    /\ mode = "name"
    /\ work = 0

\* sub_call_stack, up to the first line of the subroutine
Call(s, v) ==
    /\ Works
    /\ Len(ctl) < MaxDepth
    /\ AtStatement \/ Kind \in {"parse", "let"}
    /\ localMap' = s
    /\ level' = level + 1
    /\ frames' = [AllocLocal(maps[s].size) EXCEPT ![level + 1] =
                     [i \in DOMAIN @ |-> IF i <= NbParam[s] THEN v ELSE @[i]]]
    /\ ctl' = Append(ctl, [kind |-> "call", sub |-> s, let |-> 0,
                           map |-> localMap])
    /\ UNCHANGED <<globals, maps, graph, lets, mode>>

\* Mutant: the map of the caller is forgotten.
ReturnForgetsMap ==
    /\ AtStatement /\ Kind = "call"
    /\ graph.state = "none" \/ graph.depth < Len(ctl)
    /\ localMap' = "none"
    /\ level' = level - 1
    /\ Pop
    /\ UNCHANGED <<globals, maps, frames, graph, lets, mode, work>>

\* sub_call_stack, after its last line
Return ==
    /\ AtStatement /\ Kind = "call"
    /\ graph.state = "none" \/ graph.depth < Len(ctl)
    /\ localMap' = Top.map
    /\ level' = level - 1
    /\ Pop
    /\ UNCHANGED <<globals, maps, frames, graph, lets, mode, work>>

Assign(n, v) ==
    /\ Works
    /\ AtStatement /\ Known(n)
    /\ LET ref == Static(n)
       IN IF ref.local /\ Fits(ref.at)
          THEN /\ frames' = Put(frames, level, ref.at, v)
               /\ UNCHANGED globals
          ELSE /\ globals' = [globals EXCEPT ![IF ref.local THEN Global0 ELSE n] = v]
               /\ UNCHANGED frames
    /\ UNCHANGED <<maps, localMap, level, ctl, graph, lets, mode>>

BeginGraph ==
    /\ AtStatement /\ graph.state = "none"
    /\ graph' = [state |-> "open", depth |-> Len(ctl), todo |-> <<>>]
    /\ UNCHANGED <<globals, maps, localMap, frames, level, ctl, lets, mode, work>>

\* parseLet, up to the options of the let, whose expressions may call
\* subroutines: X and an unknown name n get indices in a new submap.
ParseLet(n) ==
    /\ Works
    /\ AtStatement /\ graph.state = "open" /\ graph.depth = Len(ctl)
    /\ Len(ctl) < MaxDepth /\ Len(lets) < MaxLets
    /\ LET pushed == [maps[MapForLet] EXCEPT !.subs = Append(@, <<>>)]
           withX == AddToSubMap(pushed, X)
           found == VarGet(withX, n)
           isNew == found = -1 /\ n \notin Globals
           map == IF isNew THEN AddToSubMap(withX, n) ELSE withX
           ref == IF found = -1 /\ n \in Globals THEN Global(n)
                  ELSE Local(VarGet(map, n))
           new == {FreeIndex(pushed)} \cup (IF isNew THEN {FreeIndex(withX)} ELSE {})
           frame == FramesForLet[LevelForLet]
           length == Max({Len(frame)} \cup {i + 1 : i \in new})
           cells == [i \in 1..length |-> IF i - 1 \in new THEN 0 ELSE Ensure(frame, length)[i]]
       IN /\ maps' = [maps EXCEPT ![MapForLet] = map]
          /\ frames' = [FramesForLet EXCEPT ![LevelForLet] = cells]
          /\ lets' = Append(lets, [sub |-> Last(map.subs), x |-> FreeIndex(pushed),
                                   name |-> n, ref |-> ref,
                                   value |-> IF ref.local THEN cells[ref.at + 1]
                                             ELSE globals[n]])
    /\ localMap' = MapForLet
    /\ level' = LevelForLet
    /\ ctl' = Append(ctl, [kind |-> "parse", sub |-> "none", let |-> Len(lets) + 1,
                           map |-> localMap])
    /\ UNCHANGED <<globals, graph, mode>>

EndParse ==
    /\ Kind = "parse"
    /\ RemoveLocalSubMap
    /\ Pop
    /\ UNCHANGED <<globals, frames, graph, lets, mode, work>>

EndGraph(twice) ==
    /\ AtStatement /\ graph.state = "open" /\ graph.depth = Len(ctl)
    /\ LET all == [k \in DOMAIN lets |-> k]
       IN graph' = [graph EXCEPT !.state = "drawing",
                                 !.todo = IF twice THEN all \o all ELSE all]
    /\ UNCHANGED <<globals, maps, localMap, frames, level, ctl, lets, mode, work>>

Drawing == graph.state = "drawing" /\ graph.depth = Len(ctl)

NextLet == lets[Head(graph.todo)]

\* restoreVarBackup: the frames and globals with the value the name of the
\* expression had when the let was read.
RestoredFrames(let) ==
    IF let.ref.local THEN Put(FramesForLet, LevelForLet, let.ref.at, let.value)
    ELSE FramesForLet

\* Mutant: globals are not restored.
RestoredGlobalsNot(let) == globals

RestoredGlobals(let) ==
    IF let.ref.local THEN globals ELSE [globals EXCEPT ![let.ref.name] = let.value]

\* doLet, up to its first evaluation, which is at X = 0: the submap goes back
\* into the map.
DoLet ==
    /\ Drawing /\ graph.todo # <<>> /\ Len(ctl) < MaxDepth
    /\ CanAdd(maps[MapForLet], NextLet.sub)
    /\ maps' = [maps EXCEPT ![MapForLet] = AddVars(@, NextLet.sub)]
    /\ localMap' = MapForLet
    /\ level' = LevelForLet
    /\ frames' = Put(RestoredFrames(NextLet), LevelForLet, NextLet.x, 0)
    /\ globals' = RestoredGlobals(NextLet)
    /\ mode' = "detect"
    /\ ctl' = Append(ctl, [kind |-> "let", sub |-> "none", let |-> Head(graph.todo),
                           map |-> localMap])
    /\ graph' = [graph EXCEPT !.todo = Tail(@)]
    /\ UNCHANGED <<lets, work>>

InLet == Kind = "let"

\* Mutant: one cell short.
ExpandOneShort(fs, i) == [fs EXCEPT ![level] = Ensure(@, i)]

\* findAdd: a new index must lie within the frame.
Expand(fs, i) == [fs EXCEPT ![level] = Ensure(@, i + 1)]

\* d[i] in the first evaluation: findAdd, and the value 0
Detect(d) ==
    /\ InLet /\ mode = "detect"
    /\ LET map == maps[localMap]
           isNew == d \notin NamesIn(Last(map.subs))
           added == IF isNew THEN AddToSubMap(map, d) ELSE map
           at == IndexIn(Last(added.subs), d)
       IN /\ maps' = [maps EXCEPT ![localMap] = added]
          /\ frames' = Put(Expand(frames, at), level, at, 0)
          /\ lets' = [lets EXCEPT ![Top.let].sub = Last(added.subs)]
    /\ UNCHANGED <<globals, localMap, level, ctl, graph, mode, work>>

Retrieve ==
    /\ InLet /\ mode = "detect"
    /\ mode' = "retrieve"
    /\ UNCHANGED <<globals, maps, localMap, frames, level, ctl, graph, lets, work>>

\* selectXValue: X and the variables of the data sets (var_find_dn)
Select(v, w) ==
    /\ Works
    /\ InLet /\ mode = "retrieve"
    /\ LET let == lets[Top.let]
           data == {let.sub[k].at : k \in {j \in DOMAIN let.sub : let.sub[j].name \in Data}}
       IN frames' = [frames EXCEPT ![level] =
                        [i \in DOMAIN @ |-> IF i - 1 = let.x THEN v
                                            ELSE IF i - 1 \in data THEN w ELSE @[i]]]
    /\ UNCHANGED <<globals, maps, localMap, level, ctl, graph, lets, mode>>

EndLet ==
    /\ InLet /\ mode = "retrieve"
    /\ mode' = "name"
    /\ RemoveLocalSubMap
    /\ Pop
    /\ UNCHANGED <<globals, frames, graph, lets, work>>

\* The lets are deleted by the next begin_graph, and not used until then.
GraphDone ==
    /\ Drawing /\ graph.todo = <<>>
    /\ graph' = Closed
    /\ lets' = <<>>
    /\ UNCHANGED <<globals, maps, localMap, frames, level, ctl, mode, work>>

\* DrawIt, after a run that has come to its end or has failed anywhere:
\* var_clear and sub_clear; the frames and m_nameMode stay what they are.
Run ==
    /\ Works
    /\ globals' = [g \in Globals |-> 0]
    /\ maps' = FreshMaps
    /\ localMap' = "none"
    /\ ctl' = <<>> /\ lets' = <<>>
    /\ graph' = Closed
    /\ UNCHANGED <<frames, level, mode>>

Next ==
    \/ \E s \in Subs, v \in Val : Call(s, v)
    \/ \E n \in Names, v \in Val : Assign(n, v)
    \/ \E n \in Names : ParseLet(n)
    \/ Return \/ BeginGraph \/ EndParse \/ DoLet \/ Retrieve \/ EndLet \/ GraphDone
    \/ \E twice \in BOOLEAN : EndGraph(twice)
    \/ \E v, w \in Val : Select(v, w)
    \/ \E d \in Data : Detect(d)
    \/ Run

Spec == Init /\ [][Next]_vars

-----------------------------------------------------------------------------
(* Properties                                                                *)

Own(s) == ToSet(Locals[s])

\* The innermost call of the first k entries, 0 in the main program.
CallIn(k) == Max({0} \cup {i \in 1..k : ctl[i].kind = "call"})

\* m_LocalMap is the map of the innermost call, whatever calls and lets have
\* come and gone since it began (sub_call_stack, removeLocalSubMap).
MapOfCall ==
    LET call == CallIn(Len(ctl))
    IN localMap = IF call > 0 THEN ctl[call].sub ELSE IF ctl # <<>> THEN "temp" ELSE "none"

\* Where an index of a map is kept: in the list of free ones, or in a submap.
Places(map) ==
    ({0} \X DOMAIN map.free) \cup UNION {{k} \X DOMAIN map.subs[k] : k \in DOMAIN map.subs}

IndexAt(map, p) == IF p[1] = 0 THEN map.free[p[2]] ELSE map.subs[p[1]][p[2]].at

\* Every index of a map belongs to one local, to one variable of one submap,
\* or is free: no two variables share a cell (getFreeID, addVars, removeVar).
IndicesPartition ==
    \A m \in Subs \cup {"temp"} :
        LET map == maps[m]
        IN /\ {IndexAt(map, p) : p \in Places(map)} = Len(map.own) .. (map.size - 1)
           /\ \A p, q \in Places(map) : IndexAt(map, p) = IndexAt(map, q) => p = q

\* The indices a let was read with are free again when it is done: "variable
\* not free when adding submap" (GLEVarMap::addVars) is never raised.
IndicesComeBack ==
    Drawing => \A k \in DOMAIN graph.todo :
                  CanAdd(maps[MapForLet], lets[graph.todo[k]].sub)

\* No index in use is refused by GLEVars::check or lies outside of the frame.
CellsExist ==
    LET call == CallIn(Len(ctl))
        own == IF call = 0 THEN {} ELSE {k - 1 : k \in DOMAIN Locals[ctl[call].sub]}
        let == IF InLet THEN IndicesOf(lets[Top.let].sub) ELSE {}
    IN \A i \in own \cup let : Fits(i) /\ i < Len(frames[level])

-----------------------------------------------------------------------------
(* Refinement of Scopes: the environment of an entry of ctl is what its      *)
(* names stand for in its frame.                                             *)

HasFrame(k) == ctl[k].kind = "call" \/ CallIn(k) = 0

LevelOf(k) == level - Cardinality({j \in (k + 1)..Len(ctl) : HasFrame(j)})

EnvOf(k) ==
    IF ctl[k].kind = "call"
    THEN [n \in Own(ctl[k].sub) |->
             Cell(frames, LevelOf(k), VarGet(NewMap(Locals[ctl[k].sub]), n))]
    ELSE LET sub == lets[ctl[k].let].sub
         IN [n \in NamesIn(sub) |-> Cell(frames, LevelOf(k), IndexIn(sub, n))]

Entries == [k \in DOMAIN ctl |-> [kind |-> ctl[k].kind, sub |-> ctl[k].sub, let |-> ctl[k].let]]

Envs == [k \in DOMAIN ctl |-> EnvOf(k)]

LetsRead ==
    [k \in DOMAIN lets |->
        [name |-> lets[k].name, own |-> NamesIn(lets[k].sub), value |-> lets[k].value]]

Scoped == INSTANCE Scopes WITH ctl <- Entries, env <- Envs, lets <- LetsRead

\* What an index reads is the variable its name stands for: names the parser
\* has resolved, and in a let X, the name of the expression and every d[i].
ReadsAgree ==
    /\ AtStatement => \A n \in Names : Known(n) => Get(Static(n)) = Scoped!ValueOf(n)
    /\ InLet =>
          LET let == lets[Top.let]
          IN /\ Get(Local(let.x)) = Scoped!ValueOf(X)
             /\ Get(let.ref) = Scoped!ValueOf(let.name)
             /\ \A d \in Data \cap NamesIn(let.sub) :
                   Get(Local(VarGet(maps[localMap], d))) = Scoped!ValueOf(d)

\* Indices, shared maps and reused frames give every script the variables
\* that its text says, in nested calls, in the lets of graphs with calls in
\* them, and in runs that follow one that has failed.
LexicalScopes == Scoped!Spec
=============================================================================
