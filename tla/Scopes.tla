------------------------------- MODULE Scopes -------------------------------
(* What a script may expect of its names: a subroutine has its own local     *)
(* variables in every call, a "let" of a graph has its own X and its own     *)
(* data set variables and remembers the values its expression had when it    *)
(* was read, everything else is global. No indices, no frames, no maps:      *)
(* module Vars is shown to implement this with them.                         *)
EXTENDS Naturals, Sequences, FiniteSetsExt

CONSTANTS
    Names,      \* names of variables
    X,          \* the parameter of a let
    Data,       \* names of data set variables (d1, d2, ...)
    Globals,    \* the global variables of the script
    Subs,       \* its subroutines
    Locals,     \* Locals[s]: names of the locals of s, the parameters first
    NbParam,    \* NbParam[s]: how many of them are parameters
    Val,        \* values of variables
    MaxDepth,   \* bound on the calls and lets in progress
    MaxLets     \* bound on the lets of one graph

VARIABLES
    globals,    \* [Globals -> Val]
    ctl,        \* calls and lets in progress, the innermost one last
    env,        \* env[k]: the variables of ctl[k] by name
    graph,      \* [state, depth, todo]: the graph that is being made
    lets        \* lets of that graph: the name in the expression, its value

vars == <<globals, ctl, env, graph, lets>>

Closed == [state |-> "none", depth |-> 0, todo |-> <<>>]

Own(s) == {Locals[s][k] : k \in DOMAIN Locals[s]}

Parameters(s) == {Locals[s][k] : k \in 1..NbParam[s]}

Top == ctl[Len(ctl)]

Kind == IF ctl = <<>> THEN "main" ELSE Top.kind

\* The innermost call of the first k entries, 0 in the main program.
CallIn(k) == Max({0} \cup {i \in 1..k : ctl[i].kind = "call"})

\* A statement of the script can be executed: no let is in progress inside
\* the innermost call, and the graph is not being drawn there.
AtStatement ==
    /\ Kind \in {"main", "call"}
    /\ ~(graph.state = "drawing" /\ graph.depth = Len(ctl))

\* The entry whose variable n is meant: a let, else the call around it, else
\* 0 for a global.
Scope(n) ==
    LET top == Len(ctl)  call == CallIn(top)
    IN IF top > 0 /\ n \in DOMAIN env[top] THEN top
       ELSE IF call > 0 /\ n \in DOMAIN env[call] THEN call
       ELSE 0

Visible(n) == Scope(n) > 0 \/ n \in Globals

ValueOf(n) == IF Scope(n) > 0 THEN env[Scope(n)][n] ELSE globals[n]

Init ==
    /\ globals = [g \in Globals |-> 0]
    /\ ctl = <<>> /\ env = <<>> /\ lets = <<>>
    /\ graph = Closed

\* A call gives the parameters their values; the other locals have whatever
\* value until the subroutine declares them.
Call(s, v) ==
    /\ Len(ctl) < MaxDepth
    /\ AtStatement \/ Kind \in {"parse", "let"}
    /\ ctl' = Append(ctl, [kind |-> "call", sub |-> s, let |-> 0])
    /\ \E e \in [Own(s) -> Val] :
          /\ \A n \in Parameters(s) : e[n] = v
          /\ env' = Append(env, e)
    /\ UNCHANGED <<globals, graph, lets>>

Return ==
    /\ AtStatement /\ Kind = "call"
    /\ graph.state = "none" \/ graph.depth < Len(ctl)
    /\ ctl' = SubSeq(ctl, 1, Len(ctl) - 1)
    /\ env' = SubSeq(env, 1, Len(env) - 1)
    /\ UNCHANGED <<globals, graph, lets>>

Assign(n, v) ==
    /\ AtStatement /\ Visible(n)
    /\ IF Scope(n) > 0 THEN /\ env' = [env EXCEPT ![Scope(n)][n] = v]
                            /\ UNCHANGED globals
                       ELSE /\ globals' = [globals EXCEPT ![n] = v]
                            /\ UNCHANGED env
    /\ UNCHANGED <<ctl, graph, lets>>

BeginGraph ==
    /\ AtStatement /\ graph.state = "none"
    /\ graph' = [state |-> "open", depth |-> Len(ctl), todo |-> <<>>]
    /\ UNCHANGED <<globals, ctl, env, lets>>

\* A let is read: its expression names n. A name nobody knows is a variable
\* of the let, with the value 0; the value n has now is remembered.
ParseLet(n) ==
    /\ AtStatement /\ graph.state = "open" /\ graph.depth = Len(ctl)
    /\ Len(ctl) < MaxDepth /\ Len(lets) < MaxLets
    /\ LET own == {X} \cup (IF Visible(n) THEN {} ELSE {n})
       IN /\ ctl' = Append(ctl, [kind |-> "parse", sub |-> "none", let |-> Len(lets) + 1])
          /\ env' = Append(env, [m \in own |-> 0])
          /\ lets' = Append(lets, [name |-> n, own |-> own,
                                   value |-> IF n \in own THEN 0 ELSE ValueOf(n)])
    /\ UNCHANGED <<globals, graph>>

EndParse ==
    /\ Kind = "parse"
    /\ ctl' = SubSeq(ctl, 1, Len(ctl) - 1)
    /\ env' = SubSeq(env, 1, Len(env) - 1)
    /\ UNCHANGED <<globals, graph, lets>>

\* The lets are done in their order, once or, to find the ranges, twice.
EndGraph(twice) ==
    /\ AtStatement /\ graph.state = "open" /\ graph.depth = Len(ctl)
    /\ LET all == [k \in DOMAIN lets |-> k]
       IN graph' = [graph EXCEPT !.state = "drawing",
                                 !.todo = IF twice THEN all \o all ELSE all]
    /\ UNCHANGED <<globals, ctl, env, lets>>

Drawing == graph.state = "drawing" /\ graph.depth = Len(ctl)

\* The name of the expression gets back the value it had when the let was
\* read, whatever scope it belongs to; X is 0 to begin with. Variables the
\* let has found on its way have whatever value.
DoLet ==
    /\ Drawing /\ graph.todo # <<>> /\ Len(ctl) < MaxDepth
    /\ LET let == lets[Head(graph.todo)]  n == let.name  at == Scope(n)
       IN /\ ctl' = Append(ctl, [kind |-> "let", sub |-> "none", let |-> Head(graph.todo)])
          /\ \E e \in [let.own -> Val] :
                /\ e[X] = 0
                /\ n \in let.own \ {X} => e[n] = let.value
                /\ env' = [k \in 1..(Len(ctl) + 1) |->
                              IF k > Len(ctl) THEN e
                              ELSE IF k = at /\ n \notin let.own
                                   THEN [env[k] EXCEPT ![n] = let.value] ELSE env[k]]
          /\ globals' = IF n \in let.own \/ at > 0 THEN globals
                        ELSE [globals EXCEPT ![n] = let.value]
    /\ graph' = [graph EXCEPT !.todo = Tail(graph.todo)]
    /\ UNCHANGED <<lets>>

InLet == Kind = "let"

\* The next point: X, and the variables of data sets found so far.
Select(v, w) ==
    /\ InLet
    /\ env' = [env EXCEPT ![Len(env)] =
                  [n \in DOMAIN @ |-> IF n = X THEN v
                                      ELSE IF n \in Data THEN w ELSE @[n]]]
    /\ UNCHANGED <<globals, ctl, graph, lets>>

\* d[i]: a data set variable that belongs to the let from now on.
Detect(d) ==
    /\ InLet
    /\ env' = [env EXCEPT ![Len(env)] =
                  [n \in DOMAIN @ \cup {d} |-> IF n = d THEN 0 ELSE @[n]]]
    /\ lets' = [lets EXCEPT ![Top.let].own = @ \cup {d}]
    /\ UNCHANGED <<globals, ctl, graph>>

EndLet ==
    /\ InLet
    /\ ctl' = SubSeq(ctl, 1, Len(ctl) - 1)
    /\ env' = SubSeq(env, 1, Len(env) - 1)
    /\ UNCHANGED <<globals, graph, lets>>

GraphDone ==
    /\ Drawing /\ graph.todo = <<>>
    /\ graph' = Closed
    /\ lets' = <<>>
    /\ UNCHANGED <<globals, ctl, env>>

\* The script ends, or fails anywhere, and another one is run.
Run ==
    /\ globals' = [g \in Globals |-> 0]
    /\ ctl' = <<>> /\ env' = <<>> /\ lets' = <<>>
    /\ graph' = Closed

Next ==
    \/ \E s \in Subs, v \in Val : Call(s, v)
    \/ \E n \in Names, v \in Val : Assign(n, v)
    \/ \E n \in Names : ParseLet(n)
    \/ Return \/ BeginGraph \/ EndParse \/ DoLet \/ EndLet \/ GraphDone
    \/ \E twice \in BOOLEAN : EndGraph(twice)
    \/ \E v, w \in Val : Select(v, w)
    \/ \E d \in Data : Detect(d)
    \/ Run

Spec == Init /\ [][Next]_vars
=============================================================================
