----------------------------- MODULE Vars_proofs -----------------------------
(***************************************************************************)
(* The current map of names is that of the innermost call; each index of a  *)
(* map has one owner, and the indices of a let are free when it is drawn;   *)
(* every index in use has its cell; an index reads what the name in the     *)
(* text stands for, and Vars implements Scopes: for any subroutines, names, *)
(* bounds and nesting of calls and lets.                                    *)
(***************************************************************************)
EXTENDS Vars, SequenceTheorems, FiniteSetTheorems, WellFoundedInduction, TLAPS

IsSeq(c) == \E S : c \in Seq(S)

\* m is the last call among the first k entries of c; CallOf finds it.
Calls(c, k) == {i \in 1..k : c[i].kind = "call"}
LastCall(c, k, m) == m \in {0} \cup Calls(c, k) /\ \A i \in Calls(c, k) : i <= m
CallOf(c, k) == Max({0} \cup Calls(c, k))

\* The map that is current under the first k entries of c.
MapOf(c, k) ==
    IF CallOf(c, k) > 0 THEN c[CallOf(c, k)].sub ELSE IF k > 0 THEN "temp" ELSE "none"

\* The maximum that CallOf chooses.
LEMMA CallOfLast ==
  ASSUME NEW c, NEW k \in Nat, NEW m, LastCall(c, k, m)
  PROVE  CallOf(c, k) = m /\ m \in 0..k
<1> DEFINE S == {0} \cup Calls(c, k)
<1>1. S \subseteq 0..k
  BY DEF Calls
<1>2. m \in S /\ \A y \in S : m >= y
  BY <1>1 DEF LastCall
<1>3. CallOf(c, k) \in S /\ \A y \in S : CallOf(c, k) >= y
  <2> HIDE DEF S
  <2>1. Max(S) \in S /\ \A y \in S : Max(S) >= y
    BY <1>2 DEF Max
  <2> QED
    BY <2>1 DEF CallOf, S
<1> HIDE DEF S
<1>4. CallOf(c, k) \in 0..k /\ m \in 0..k
  BY <1>1, <1>2, <1>3
<1>5. CallOf(c, k) >= m /\ m >= CallOf(c, k)
  BY <1>2, <1>3
<1> QED
  BY <1>4, <1>5

\* The last call among the first k entries depends on these alone.
LEMMA CallOfPrefix ==
  ASSUME NEW c, NEW d, NEW k \in Nat, NEW m, LastCall(c, k, m), \A i \in 1..k : c[i] = d[i]
  PROVE  LastCall(d, k, m) /\ CallOf(d, k) = m /\ MapOf(d, k) = MapOf(c, k)
<1>1. Calls(c, k) = Calls(d, k)
  BY DEF Calls
<1>2. LastCall(d, k, m)
  BY <1>1 DEF LastCall
<1>3. CallOf(c, k) = m /\ CallOf(d, k) = m /\ m \in 0..k
  BY <1>2, CallOfLast
<1>4. m > 0 => c[m] = d[m]
  BY <1>3
<1> QED
  BY <1>2, <1>3, <1>4 DEF MapOf

\* One entry more.
LEMMA CallOfNext ==
  ASSUME NEW c, NEW k \in Nat, NEW m, LastCall(c, k, m)
  PROVE  LastCall(c, k + 1, IF c[k + 1].kind = "call" THEN k + 1 ELSE m)
<1>1. m \in 0..k
  BY CallOfLast
<1>2. Calls(c, k + 1) = IF c[k + 1].kind = "call" THEN Calls(c, k) \cup {k + 1} ELSE Calls(c, k)
  BY DEF Calls
<1>3. \A i \in Calls(c, k) : i <= k
  BY DEF Calls
<1> QED
  BY <1>1, <1>2, <1>3 DEF LastCall, Calls

\* An entry is pushed, and popped.
LEMMA AppendIs ==
  ASSUME NEW c, IsSeq(c), NEW e
  PROVE  /\ IsSeq(Append(c, e)) /\ Len(c) \in Nat /\ Len(Append(c, e)) = Len(c) + 1
         /\ \A i \in 1..Len(c) : Append(c, e)[i] = c[i]
         /\ Append(c, e)[Len(c) + 1] = e
<1> PICK S : c \in Seq(S)
  BY DEF IsSeq
<1>1. c \in Seq(S \cup {e})
  BY SeqMonotonic
<1> QED
  BY <1>1, AppendProperties, LenProperties DEF IsSeq

\* The entry at the top goes.
LEMMA FrontIs ==
  ASSUME NEW c, IsSeq(c), c # <<>>
  PROVE  /\ IsSeq(Front(c)) /\ Len(c) \in Nat \ {0} /\ Len(Front(c)) = Len(c) - 1
         /\ \A i \in 1..(Len(c) - 1) : Front(c)[i] = c[i]
<1> PICK S : c \in Seq(S)
  BY DEF IsSeq
<1>1. Len(c) \in Nat \ {0}
  BY EmptySeq
<1>2. /\ Front(c) \in Seq(S) /\ Len(Front(c)) = Len(c) - 1
      /\ \A i \in 1..(Len(c) - 1) : Front(c)[i] = c[i]
  <2> DEFINE n == Len(c) - 1
  <2>1. n \in Nat /\ \A i \in 1..n : c[i] \in S
    BY <1>1, ElementOfSeq
  <2> HIDE DEF n
  <2>2. /\ SubSeq(c, 1, n) \in Seq(S)
        /\ Len(SubSeq(c, 1, n)) = IF 1 <= n THEN n - 1 + 1 ELSE 0
        /\ \A i \in 1..(n - 1 + 1) : SubSeq(c, 1, n)[i] = c[1 + i - 1]
    BY <2>1, SubSeqProperties
  <2>3. \A i \in 1..n : i \in 1..(n - 1 + 1) /\ 1 + i - 1 = i
    BY <2>1
  <2> QED
    <3>1. Front(c) = SubSeq(c, 1, n)
      BY DEF Front, n
    <3>2. Len(Front(c)) = n /\ \A i \in 1..n : Front(c)[i] = c[i]
      BY <2>1, <2>2, <2>3, <3>1
    <3> QED
      BY <2>2, <3>1, <3>2 DEF n
<1> QED
  BY <1>1, <1>2 DEF IsSeq
-----------------------------------------------------------------------------
(***************************************************************************)
(* MapOfCall says something of the whole stack only. When an entry goes,    *)
(* the map that comes back is one kept in the entry, or what the let has    *)
(* left: the invariant says of every entry what was current below it, and   *)
(* that a let stands on a call or on the main program.                      *)
(***************************************************************************)
Stack(c) ==
  /\ IsSeq(c)
  /\ \A k \in 0..Len(c) : \E m : LastCall(c, k, m)
  /\ \A k \in 1..Len(c) :
       IF c[k].kind = "call" THEN c[k].sub \in Subs /\ c[k].map = MapOf(c, k - 1)
       ELSE c[k].kind \in {"parse", "let"} /\ (k = 1 \/ c[k - 1].kind = "call")

CurrentMap ==
  /\ Stack(ctl)
  /\ localMap = MapOf(ctl, Len(ctl))
  /\ graph.state # "none" =>
       graph.depth \in 0..Len(ctl) /\ (graph.depth = 0 \/ ctl[graph.depth].kind = "call")

\* A call is pushed with the map that was current.
LEMMA PushCall ==
  ASSUME NEW c, Stack(c), NEW e, e.kind = "call", e.sub \in Subs, e.map = MapOf(c, Len(c))
  PROVE  Stack(Append(c, e)) /\ MapOf(Append(c, e), Len(c) + 1) = e.sub
<1> DEFINE d == Append(c, e)
           n == Len(c)
<1>1. /\ IsSeq(d) /\ n \in Nat /\ Len(d) = n + 1 /\ \A i \in 1..n : d[i] = c[i]
      /\ d[n + 1] = e
  BY AppendIs DEF Stack
<1> HIDE DEF d, n
<1>2. ASSUME NEW k \in 0..n PROVE \E m : LastCall(d, k, m) /\ MapOf(d, k) = MapOf(c, k)
  <2> PICK m : LastCall(c, k, m)
    BY DEF Stack, n
  <2>1. k \in Nat /\ \A i \in 1..k : c[i] = d[i]
    BY <1>1
  <2> QED
    BY <2>1, CallOfPrefix
<1>3. LastCall(d, n + 1, n + 1)
  <2> PICK m : LastCall(d, n, m)
    BY <1>1, <1>2
  <2> QED
    BY <1>1, CallOfNext
<1>4. MapOf(d, n + 1) = e.sub
  <2>1. n + 1 \in Nat /\ n + 1 > 0
    BY <1>1
  <2>2. CallOf(d, n + 1) = n + 1
    BY <1>3, <2>1, CallOfLast
  <2> QED
    BY <1>1, <2>1, <2>2 DEF MapOf
<1>5. \A k \in 0..(n + 1) : \E m : LastCall(d, k, m)
  <2> SUFFICES ASSUME NEW k \in 0..(n + 1) PROVE \E m : LastCall(d, k, m)
    OBVIOUS
  <2>1. k \in 0..n \/ k = n + 1
    BY <1>1
  <2> QED
    BY <1>2, <1>3, <2>1
<1>6. \A k \in 1..(n + 1) :
        IF d[k].kind = "call" THEN d[k].sub \in Subs /\ d[k].map = MapOf(d, k - 1)
        ELSE d[k].kind \in {"parse", "let"} /\ (k = 1 \/ d[k - 1].kind = "call")
  <2> SUFFICES ASSUME NEW k \in 1..(n + 1)
               PROVE  IF d[k].kind = "call" THEN d[k].sub \in Subs /\ d[k].map = MapOf(d, k - 1)
                      ELSE d[k].kind \in {"parse", "let"} /\ (k = 1 \/ d[k - 1].kind = "call")
    OBVIOUS
  <2>1. k - 1 \in 0..n /\ MapOf(d, k - 1) = MapOf(c, k - 1)
    BY <1>1, <1>2
  <2>2. CASE k = n + 1
    BY <1>1, <2>1, <2>2 DEF n
  <2>3. CASE k # n + 1
    <3>1. k \in 1..n /\ (k = 1 \/ k - 1 \in 1..n)
      BY <1>1, <2>3
    <3>2. d[k] = c[k] /\ (k = 1 \/ d[k - 1] = c[k - 1])
      BY <1>1, <3>1
    <3> QED
      BY <2>1, <3>1, <3>2 DEF Stack, n
  <2> QED
    BY <2>2, <2>3
<1> QED
  BY <1>1, <1>4, <1>5, <1>6 DEF Stack, d, n

\* A let is pushed on a call or on nothing; it does not change the current map,
\* except that the main program gets the temporary one.
LEMMA PushLet ==
  ASSUME NEW c, Stack(c), NEW e, e.kind \in {"parse", "let"},
         c = <<>> \/ c[Len(c)].kind = "call"
  PROVE  /\ Stack(Append(c, e))
         /\ MapOf(Append(c, e), Len(c) + 1) =
              IF MapOf(c, Len(c)) = "none" THEN "temp" ELSE MapOf(c, Len(c))
<1> DEFINE d == Append(c, e)
           n == Len(c)
<1>1. /\ IsSeq(d) /\ n \in Nat /\ Len(d) = n + 1 /\ \A i \in 1..n : d[i] = c[i]
      /\ d[n + 1] = e /\ (n = 0 <=> c = <<>>)
  <2>1. n = 0 <=> c = <<>>
    BY EmptySeq DEF Stack, IsSeq
  <2> QED
    BY <2>1, AppendIs DEF Stack
<1> HIDE DEF d, n
<1>2. ASSUME NEW k \in 0..n
      PROVE  \E m : LastCall(d, k, m) /\ MapOf(d, k) = MapOf(c, k) /\ CallOf(d, k) = m
  <2> PICK m : LastCall(c, k, m)
    BY DEF Stack, n
  <2>1. k \in Nat /\ \A i \in 1..k : c[i] = d[i]
    BY <1>1
  <2> QED
    BY <2>1, CallOfPrefix
<1> PICK last : LastCall(d, n, last) /\ MapOf(d, n) = MapOf(c, n) /\ CallOf(d, n) = last
  BY <1>1, <1>2
<1>3. LastCall(d, n + 1, last) /\ last \in 0..n
  BY <1>1, CallOfNext, CallOfLast
<1>4. CallOf(d, n + 1) = last
  BY <1>1, <1>3, CallOfLast
<1>5. n = 0 \/ last = n
  <2>1. CASE n # 0
    <3>1. n \in Calls(d, n)
      BY <1>1, <2>1 DEF Calls, n
    <3> QED
      BY <1>1, <1>3, <3>1 DEF LastCall
  <2> QED
    BY <2>1
<1>6. MapOf(d, n + 1) = IF MapOf(c, n) = "none" THEN "temp" ELSE MapOf(c, n)
  <2>1. CASE n = 0
    BY <1>1, <1>3, <1>4, <2>1 DEF MapOf
  <2>2. CASE n # 0
    <3>1. n \in 1..n /\ d[n] = c[n] /\ c[n].kind = "call"
      BY <1>1, <2>2 DEF n
    <3>2. c[n].sub \in Subs /\ last = n /\ n > 0
      BY <1>1, <1>5, <2>2, <3>1 DEF Stack, n
    <3>3. MapOf(d, n + 1) = c[n].sub /\ MapOf(c, n) = c[n].sub
      BY <1>4, <3>1, <3>2 DEF MapOf
    <3> QED
      BY <3>2, <3>3, NamesAssumption
  <2> QED
    BY <2>1, <2>2
<1>7. \A k \in 0..(n + 1) : \E m : LastCall(d, k, m)
  <2> SUFFICES ASSUME NEW k \in 0..(n + 1) PROVE \E m : LastCall(d, k, m)
    OBVIOUS
  <2>1. k \in 0..n \/ k = n + 1
    BY <1>1
  <2> QED
    BY <1>2, <1>3, <2>1
<1>8. \A k \in 1..(n + 1) :
        IF d[k].kind = "call" THEN d[k].sub \in Subs /\ d[k].map = MapOf(d, k - 1)
        ELSE d[k].kind \in {"parse", "let"} /\ (k = 1 \/ d[k - 1].kind = "call")
  <2> SUFFICES ASSUME NEW k \in 1..(n + 1)
               PROVE  IF d[k].kind = "call" THEN d[k].sub \in Subs /\ d[k].map = MapOf(d, k - 1)
                      ELSE d[k].kind \in {"parse", "let"} /\ (k = 1 \/ d[k - 1].kind = "call")
    OBVIOUS
  <2>1. k - 1 \in 0..n /\ MapOf(d, k - 1) = MapOf(c, k - 1)
    BY <1>1, <1>2
  <2>2. CASE k = n + 1
    <3>1. k = 1 \/ (n \in 1..n /\ k - 1 = n)
      BY <1>1, <2>2
    <3>2. k = 1 \/ c[n].kind = "call"
      BY <1>1, <2>2, <3>1 DEF n
    <3> QED
      BY <1>1, <2>2, <3>1, <3>2
  <2>3. CASE k # n + 1
    <3>1. k \in 1..n /\ (k = 1 \/ k - 1 \in 1..n)
      BY <1>1, <2>3
    <3>2. d[k] = c[k] /\ (k = 1 \/ d[k - 1] = c[k - 1])
      BY <1>1, <3>1
    <3> QED
      BY <2>1, <3>1, <3>2 DEF Stack, n
  <2> QED
    BY <2>2, <2>3
<1> QED
  BY <1>1, <1>6, <1>7, <1>8 DEF Stack, d, n

\* An entry is popped: what was current below it comes back. A call has kept it;
\* under a let it is the current map still, unless that is the temporary one.
LEMMA PopEntry ==
  ASSUME NEW c, Stack(c), c # <<>>
  PROVE  /\ Stack(Front(c))
         /\ c[Len(c)].kind = "call" => c[Len(c)].map = MapOf(Front(c), Len(Front(c)))
         /\ c[Len(c)].kind # "call" =>
              MapOf(Front(c), Len(Front(c))) =
                IF MapOf(c, Len(c)) = "temp" THEN "none" ELSE MapOf(c, Len(c))
<1> DEFINE d == Front(c)
           n == Len(c)
<1>1. /\ IsSeq(d) /\ n \in Nat \ {0} /\ Len(d) = n - 1
      /\ \A i \in 1..(n - 1) : d[i] = c[i]
  BY FrontIs DEF Stack
<1> HIDE DEF d, n
<1>2. n - 1 \in Nat /\ n \in 1..n /\ n - 1 \in 0..(n - 1)
  BY <1>1
<1>3. ASSUME NEW k \in 0..(n - 1) PROVE \E m : LastCall(d, k, m) /\ MapOf(d, k) = MapOf(c, k)
  <2> PICK m : LastCall(c, k, m)
    BY <1>1 DEF Stack, n
  <2>1. k \in Nat /\ \A i \in 1..k : c[i] = d[i]
    BY <1>1
  <2> QED
    BY <2>1, CallOfPrefix
<1>4. \A k \in 1..(n - 1) :
        IF d[k].kind = "call" THEN d[k].sub \in Subs /\ d[k].map = MapOf(d, k - 1)
        ELSE d[k].kind \in {"parse", "let"} /\ (k = 1 \/ d[k - 1].kind = "call")
  <2> SUFFICES ASSUME NEW k \in 1..(n - 1)
               PROVE  IF d[k].kind = "call" THEN d[k].sub \in Subs /\ d[k].map = MapOf(d, k - 1)
                      ELSE d[k].kind \in {"parse", "let"} /\ (k = 1 \/ d[k - 1].kind = "call")
    OBVIOUS
  <2>1. k - 1 \in 0..(n - 1) /\ k \in 1..n /\ (k = 1 \/ k - 1 \in 1..(n - 1))
    BY <1>1
  <2>2. d[k] = c[k] /\ (k = 1 \/ d[k - 1] = c[k - 1])
    BY <1>1, <2>1
  <2>3. MapOf(d, k - 1) = MapOf(c, k - 1)
    BY <1>3, <2>1
  <2> QED
    BY <2>1, <2>2, <2>3 DEF Stack, n
<1>5. Stack(d)
  BY <1>1, <1>3, <1>4 DEF Stack
<1>6. c[n].kind = "call" => c[n].map = MapOf(d, n - 1)
  BY <1>2, <1>3 DEF Stack, n
<1>7. ASSUME c[n].kind # "call"
      PROVE  MapOf(d, n - 1) = IF MapOf(c, n) = "temp" THEN "none" ELSE MapOf(c, n)
  <2> PICK m : LastCall(c, n - 1, m)
    BY <1>1, <1>2 DEF Stack, n
  <2>1. n - 1 + 1 = n
    BY <1>1
  <2>2. LastCall(c, n, m)
    BY <1>2, <1>7, <2>1, CallOfNext
  <2>3. CallOf(c, n) = m /\ CallOf(c, n - 1) = m /\ m \in 0..(n - 1)
    BY <1>1, <1>2, <2>2, CallOfLast
  <2>4. MapOf(d, n - 1) = MapOf(c, n - 1)
    BY <1>2, <1>3
  <2>5. CASE n = 1
    BY <2>3, <2>4, <2>5 DEF MapOf
  <2>6. CASE n # 1
    <3>1. n - 1 \in 1..(n - 1) /\ n - 1 \in 1..n
      BY <1>1, <2>6
    <3>2. c[n - 1].kind = "call"
      BY <1>2, <1>7, <2>6 DEF Stack, n
    <3>3. c[n - 1].sub \in Subs
      BY <3>1, <3>2 DEF Stack, n
    <3>4. m = n - 1 /\ m > 0
      <4>1. n - 1 \in Calls(c, n - 1)
        BY <3>1, <3>2 DEF Calls
      <4> QED
        BY <1>1, <2>3, <2>6, <4>1 DEF LastCall
    <3>5. MapOf(c, n) = c[n - 1].sub /\ MapOf(c, n - 1) = c[n - 1].sub
      BY <2>3, <3>4 DEF MapOf
    <3> QED
      BY <2>4, <3>3, <3>5, NamesAssumption
  <2> QED
    BY <2>5, <2>6
<1> QED
  BY <1>1, <1>5, <1>6, <1>7 DEF d, n

\* One step of the program, a graph or a let.
LEMMA CurrentMapStep == CurrentMap /\ [Next]_vars => CurrentMap'
<1> SUFFICES ASSUME CurrentMap, [Next]_vars PROVE CurrentMap'
  OBVIOUS
<1>0. Len(ctl) \in Nat /\ (Len(ctl) = 0 <=> ctl = <<>>) /\ Stack(ctl)
  BY EmptySeq, LenProperties DEF CurrentMap, Stack, IsSeq
<1>a. AtStatement => ctl = <<>> \/ ctl[Len(ctl)].kind = "call"
  <2> SUFFICES ASSUME AtStatement, ctl # <<>> PROVE ctl[Len(ctl)].kind = "call"
    OBVIOUS
  <2>1. Len(ctl) \in 1..Len(ctl)
    BY <1>0
  <2>2. ctl[Len(ctl)].kind \in {"call", "parse", "let"}
    BY <1>0, <2>1 DEF Stack
  <2> QED
    BY <2>2 DEF AtStatement, Kind, Top
<1>1. ASSUME UNCHANGED <<ctl, localMap>>, graph'.state # "none" => graph' = graph
      PROVE  CurrentMap'
  BY <1>1 DEF CurrentMap
<1>2. ASSUME NEW s \in Subs, NEW v \in Val, Call(s, v) PROVE CurrentMap'
  <2> DEFINE e == [kind |-> "call", sub |-> s, let |-> 0, map |-> localMap]
  <2>1. ctl' = Append(ctl, e) /\ localMap' = s /\ graph' = graph
    BY <1>2 DEF Call
  <2>2. Stack(Append(ctl, e)) /\ MapOf(Append(ctl, e), Len(ctl) + 1) = s
    BY <1>0, PushCall DEF CurrentMap
  <2>3. Len(ctl') = Len(ctl) + 1 /\ \A i \in 1..Len(ctl) : ctl'[i] = ctl[i]
    BY <1>0, <2>1, AppendIs DEF Stack
  <2> HIDE DEF e
  <2> QED
    BY <1>0, <2>1, <2>2, <2>3 DEF CurrentMap
<1>3. ASSUME NEW e, e.kind \in {"parse", "let"}, ctl' = Append(ctl, e), localMap' = MapForLet,
             ctl = <<>> \/ ctl[Len(ctl)].kind = "call",
             graph'.state = graph.state, graph'.depth = graph.depth
      PROVE  CurrentMap'
  <2>1. /\ Stack(Append(ctl, e))
        /\ MapOf(Append(ctl, e), Len(ctl) + 1) = IF localMap = "none" THEN "temp" ELSE localMap
    BY <1>0, <1>3, PushLet DEF CurrentMap
  <2>2. Len(ctl') = Len(ctl) + 1 /\ \A i \in 1..Len(ctl) : ctl'[i] = ctl[i]
    BY <1>0, <1>3, AppendIs DEF Stack
  <2> QED
    BY <1>0, <1>3, <2>1, <2>2 DEF CurrentMap, MapForLet
<1>4. ASSUME NEW n \in Names, ParseLet(n) PROVE CurrentMap'
  <2>1. ctl = <<>> \/ ctl[Len(ctl)].kind = "call"
    BY <1>4, <1>a DEF ParseLet
  <2>2. localMap' = MapForLet /\ graph' = graph
    BY <1>4 DEF ParseLet
  <2>3. \E e : e.kind \in {"parse", "let"} /\ ctl' = Append(ctl, e)
    <3> DEFINE e == [kind |-> "parse", sub |-> "none", let |-> Len(lets) + 1, map |-> localMap]
    <3>1. ctl' = Append(ctl, e)
      BY <1>4 DEF ParseLet
    <3>2. e.kind = "parse"
      OBVIOUS
    <3> HIDE DEF e
    <3> QED
      BY <3>1, <3>2
  <2> QED
    BY <1>3, <2>1, <2>2, <2>3
<1>5. CASE DoLet
  <2>1. ctl = <<>> \/ ctl[Len(ctl)].kind = "call"
    BY <1>0, <1>5 DEF DoLet, Drawing, CurrentMap
  <2>2. localMap' = MapForLet /\ graph'.state = graph.state /\ graph'.depth = graph.depth
    BY <1>5 DEF DoLet
  <2>3. \E e : e.kind \in {"parse", "let"} /\ ctl' = Append(ctl, e)
    BY <1>5 DEF DoLet
  <2> QED
    BY <1>3, <2>1, <2>2, <2>3
<1>6. ASSUME ctl # <<>>, ctl' = Front(ctl), graph' = graph,
             graph.state = "none" \/ graph.depth # Len(ctl),
             localMap' = IF Top.kind = "call" THEN Top.map
                         ELSE IF localMap = "temp" THEN "none" ELSE localMap
      PROVE  CurrentMap'
  <2>1. /\ Stack(Front(ctl))
        /\ Top.kind = "call" => Top.map = MapOf(Front(ctl), Len(Front(ctl)))
        /\ Top.kind # "call" => MapOf(Front(ctl), Len(Front(ctl))) =
                                  IF localMap = "temp" THEN "none" ELSE localMap
    BY <1>0, <1>6, PopEntry DEF CurrentMap, Top
  <2>2. Len(ctl') = Len(ctl) - 1 /\ \A i \in 1..(Len(ctl) - 1) : ctl'[i] = ctl[i]
    BY <1>0, <1>6, FrontIs DEF Stack
  <2>3. graph.state # "none" => graph.depth \in 0..(Len(ctl) - 1)
                                /\ (graph.depth = 0 \/ ctl'[graph.depth].kind = "call")
    BY <1>0, <1>6, <2>2 DEF CurrentMap
  <2> QED
    BY <1>6, <2>1, <2>2, <2>3 DEF CurrentMap
<1>7. CASE Return
  <2>1. ctl # <<>> /\ Top.kind = "call" /\ ctl' = Front(ctl) /\ localMap' = Top.map /\ graph' = graph
    BY <1>7 DEF Return, Kind, Pop
  <2>2. graph.state = "none" \/ graph.depth # Len(ctl)
    BY <1>0, <1>7 DEF Return
  <2> QED
    BY <1>6, <2>1, <2>2
<1>8. ASSUME Kind \in {"parse", "let"}, RemoveLocalSubMap, Pop, graph' = graph PROVE CurrentMap'
  <2>1. ctl # <<>> /\ Top.kind # "call" /\ ctl' = Front(ctl)
        /\ localMap' = IF localMap = "temp" THEN "none" ELSE localMap
    BY <1>8 DEF Kind, RemoveLocalSubMap, Pop
  <2>2. graph.state = "none" \/ graph.depth # Len(ctl)
    BY <1>0, <2>1 DEF CurrentMap, Top
  <2>3. localMap' = IF Top.kind = "call" THEN Top.map
                    ELSE IF localMap = "temp" THEN "none" ELSE localMap
    BY <2>1
  <2> QED
    BY <1>6, <1>8, <2>1, <2>2, <2>3
<1>9. CASE EndParse
  BY <1>8, <1>9 DEF EndParse
<1>10. CASE EndLet
  BY <1>8, <1>10 DEF EndLet, InLet
<1>11. CASE BeginGraph
  <2>1. UNCHANGED <<ctl, localMap>> /\ graph'.depth = Len(ctl)
    BY <1>11 DEF BeginGraph
  <2>2. ctl = <<>> \/ ctl[Len(ctl)].kind = "call"
    BY <1>11, <1>a DEF BeginGraph
  <2> QED
    BY <1>0, <2>1, <2>2 DEF CurrentMap
<1>12. ASSUME NEW twice \in BOOLEAN, EndGraph(twice) PROVE CurrentMap'
  <2>1. UNCHANGED <<ctl, localMap>> /\ graph.state # "none" /\ graph'.depth = graph.depth
    BY <1>12 DEF EndGraph
  <2> QED
    BY <2>1 DEF CurrentMap
<1>13. CASE Run
  <2>1. ctl' = <<>> /\ localMap' = "none" /\ graph'.state = "none"
    BY <1>13 DEF Run, Closed
  <2>2. Stack(<<>>) /\ MapOf(<<>>, 0) = "none"
    <3>1. Len(<<>>) = 0 /\ IsSeq(<<>>)
      BY EmptySeq DEF IsSeq
    <3>2. LastCall(<<>>, 0, 0)
      BY DEF LastCall, Calls
    <3>3. CallOf(<<>>, 0) = 0
      BY <3>2, CallOfLast
    <3> QED
      BY <3>1, <3>2, <3>3 DEF Stack, MapOf
  <2> QED
    BY <2>1, <2>2 DEF CurrentMap
<1>14. CASE GraphDone
  BY <1>1, <1>14 DEF GraphDone, Closed
<1>15. CASE Retrieve \/ (\E n \in Names, v \in Val : Assign(n, v))
            \/ (\E v, w \in Val : Select(v, w)) \/ (\E d \in Data : Detect(d))
  BY <1>1, <1>15 DEF Retrieve, Assign, Select, Detect
<1>16. CASE UNCHANGED vars
  BY <1>1, <1>16 DEF vars
<1> QED
  BY <1>2, <1>4, <1>5, <1>7, <1>9, <1>10, <1>11, <1>12, <1>13, <1>14, <1>15, <1>16 DEF Next

\* At the start there is no entry.
LEMMA CurrentMapInit == Init => CurrentMap
<1> SUFFICES ASSUME Init PROVE CurrentMap
  OBVIOUS
<1>1. ctl = <<>> /\ localMap = "none" /\ graph.state = "none"
  BY DEF Init, Closed
<1>2. LastCall(<<>>, 0, 0)
  BY DEF LastCall, Calls
<1>3. CallOf(<<>>, 0) = 0
  BY <1>2, CallOfLast
<1> QED
  BY <1>1, <1>2, <1>3, EmptySeq DEF CurrentMap, Stack, MapOf, IsSeq

\* Whatever calls and lets have come and gone, in each other and from the
\* expressions of a let, names are looked up in the map of the innermost call.
THEOREM MapIsOfCall == Spec => []MapOfCall
<1>1. Init => CurrentMap
  BY CurrentMapInit
<1>2. CurrentMap => MapOfCall
  <2> SUFFICES ASSUME CurrentMap PROVE MapOfCall
    OBVIOUS
  <2>1. CallIn(Len(ctl)) = CallOf(ctl, Len(ctl))
    BY DEF CallIn, CallOf, Calls
  <2>2. Len(ctl) \in Nat /\ (Len(ctl) > 0 <=> ctl # <<>>)
    BY EmptySeq, LenProperties DEF CurrentMap, Stack, IsSeq
  <2> QED
    BY <2>1, <2>2 DEF CurrentMap, MapOf, MapOfCall
<1> QED
  BY <1>1, <1>2, CurrentMapStep, PTL DEF Spec

-----------------------------------------------------------------------------
(***************************************************************************)
(* Maxima, and the members of a finite set in order.                        *)
(***************************************************************************)
LEMMA Least == ASSUME NEW S, S \subseteq Nat, S # {} PROVE \E m \in S : \A n \in S : m <= n
<1> DEFINE R == OpToRel(<, Nat)
<1>1. IsWellFoundedOn(R, Nat)
  BY NatLessThanWellFounded
<1>2. \A x, y \in Nat : x < y => <<x, y>> \in R
  BY DEF OpToRel
<1> HIDE DEF R
<1>3. PICK m \in S : \A n \in S : <<n, m>> \notin R
  BY <1>1, WFMin
<1>4. \A n \in S : ~ (n < m)
  BY <1>2, <1>3, Zenon
<1>5. m \in Nat
  BY <1>3
<1> QED
  BY <1>3, <1>4, <1>5

\* Max of a set of naturals with a bound.
LEMMA MaxIs ==
  ASSUME NEW S, NEW b \in Nat, S \subseteq 0..b, S # {}
  PROVE  Max(S) \in S /\ Max(S) \in Nat /\ \A i \in S : i <= Max(S)
<1> DEFINE T == {b - i : i \in S}
<1>1. T \subseteq Nat /\ T # {}
  OBVIOUS
<1>2. PICK t \in T : \A n \in T : t <= n
  <2> HIDE DEF T
  <2> QED
    BY <1>1, Least
<1>3. PICK m \in S : t = b - m
  BY <1>2
<1>4. m \in 0..b
  BY <1>3
<1>5. \A i \in S : m >= i
  <2> SUFFICES ASSUME NEW i \in S PROVE m >= i
    OBVIOUS
  <2>1. i \in 0..b /\ b - i \in T
    OBVIOUS
  <2>2. b - m <= b - i
    BY <1>2, <1>3, <2>1
  <2> QED
    BY <1>4, <2>1, <2>2
<1>6. Max(S) \in S /\ \A i \in S : Max(S) >= i
  BY <1>3, <1>5 DEF Max
<1> QED
  BY <1>6

\* Sorted lists every member, and none twice.
LEMMA SortedIs ==
  ASSUME NEW S, NEW b \in Nat, S \subseteq 0..b
  PROVE  /\ IsSeq(Sorted(S))
         /\ \A i \in 1..Len(Sorted(S)) : Sorted(S)[i] \in S
         /\ \A i, j \in 1..Len(Sorted(S)) : Sorted(S)[i] = Sorted(S)[j] => i = j
         /\ \A n \in S : \E i \in 1..Len(Sorted(S)) : Sorted(S)[i] = n
<1> DEFINE n == Cardinality(S)
           Below(i) == {j \in S : j < i}
           rank == [i \in S |-> Cardinality(Below(i))]
<1>1. IsFiniteSet(S) /\ n \in Nat
  <2>1. IsFiniteSet(0..b)
    BY FS_Interval
  <2>2. IsFiniteSet(S)
    BY <2>1, FS_Subset
  <2> QED
    BY <2>2, FS_CardinalityType
<1>2. ASSUME NEW i \in S, NEW T, T \subseteq S, i \notin T, Below(i) \subseteq T
      PROVE  /\ rank[i] \in 0..(Cardinality(T)) /\ Cardinality(T) + 1 <= n
  <2>1. IsFiniteSet(T) /\ Cardinality(T) \in Nat
    BY <1>1, <1>2, FS_Subset, FS_CardinalityType
  <2>2. Cardinality(T \cup {i}) = Cardinality(T) + 1
    BY <1>2, <2>1, FS_AddElement
  <2>3. Cardinality(T \cup {i}) <= n
    <3>1. T \cup {i} \in SUBSET S
      BY <1>2
    <3> QED
      BY <1>1, <3>1, FS_Subset
  <2>4. rank[i] = Cardinality(Below(i))
    OBVIOUS
  <2>5. IsFiniteSet(Below(i)) /\ Cardinality(Below(i)) <= Cardinality(T)
    <3> HIDE DEF Below
    <3> QED
      BY <1>2, <2>1, FS_Subset
  <2>6. Cardinality(Below(i)) \in Nat
    <3> HIDE DEF Below
    <3> QED
      BY <2>5, FS_CardinalityType
  <2> QED
    BY <2>1, <2>2, <2>3, <2>4, <2>5, <2>6
<1>3. \A i \in S : rank[i] \in 0..(n - 1)
  <2> SUFFICES ASSUME NEW i \in S PROVE rank[i] \in 0..(n - 1)
    OBVIOUS
  <2> DEFINE T == Below(i)
  <2>1. T \subseteq S /\ i \notin T
    BY SMT
  <2>2. T = Below(i) /\ IsFiniteSet(T) /\ Cardinality(T) \in Nat
    BY <1>1, <2>1, FS_Subset, FS_CardinalityType
  <2> HIDE DEF T, Below, rank
  <2>3. rank[i] \in 0..Cardinality(T) /\ Cardinality(T) + 1 <= n
    BY <1>2, <2>1, <2>2
  <2> QED
    BY <1>1, <2>2, <2>3
<1>4. \A i, j \in S : i < j => rank[i] < rank[j]
  <2> SUFFICES ASSUME NEW i \in S, NEW j \in S, i < j PROVE rank[i] < rank[j]
    OBVIOUS
  <2>0. i \in Nat /\ j \in Nat
    OBVIOUS
  <2> DEFINE T == Below(i)
  <2>1. T \subseteq Below(j) /\ i \in Below(j) /\ i \notin T /\ T \subseteq S /\ Below(j) \subseteq S
    <3>1. \A k \in S : k \in Nat /\ (k < i => k < j)
      BY <2>0
    <3>2. T \subseteq Below(j) /\ T \subseteq S /\ Below(j) \subseteq S /\ i \in Below(j)
      BY <3>1
    <3>3. i \notin T
      BY <2>0
    <3> QED
      BY <3>2, <3>3
  <2>2. IsFiniteSet(T) /\ IsFiniteSet(Below(j)) /\ Cardinality(T) \in Nat /\ Cardinality(Below(j)) \in Nat
    <3> HIDE DEF T, Below
    <3>1. T \in SUBSET S /\ Below(j) \in SUBSET S
      BY <2>1
    <3>2. IsFiniteSet(T) /\ IsFiniteSet(Below(j))
      BY <1>1, <3>1, FS_Subset
    <3> QED
      BY <3>2, FS_CardinalityType
  <2>3. Cardinality(T \cup {i}) = Cardinality(T) + 1
    <3> HIDE DEF T, Below
    <3> QED
      BY <2>1, <2>2, FS_AddElement
  <2>4. Cardinality(T \cup {i}) <= Cardinality(Below(j))
    <3> HIDE DEF T, Below
    <3>1. T \cup {i} \in SUBSET Below(j)
      BY <2>1
    <3> QED
      BY <2>2, <3>1, FS_Subset
  <2>5. rank[i] = Cardinality(T) /\ rank[j] = Cardinality(Below(j))
    OBVIOUS
  <2> QED
    <3> HIDE DEF T, Below, rank
    <3> QED
      BY <2>2, <2>3, <2>4, <2>5
<1>5. rank \in Injection(S, 0..(n - 1))
  <2>1. rank \in [S -> 0..(n - 1)]
    BY <1>3
  <2>2. \A i, j \in S : rank[i] = rank[j] => i = j
    <3> SUFFICES ASSUME NEW i \in S, NEW j \in S, rank[i] = rank[j], i # j PROVE FALSE
      OBVIOUS
    <3>1. i \in Nat /\ j \in Nat /\ rank[i] \in 0..(n - 1) /\ rank[j] \in 0..(n - 1)
      BY <1>3
    <3>2. i < j \/ j < i
      BY <3>1
    <3> HIDE DEF rank
    <3> QED
      BY <1>4, <3>1, <3>2
  <2> HIDE DEF rank
  <2> QED
    BY <2>1, <2>2 DEF Injection, IsInjective
<1>6. \A k \in 0..(n - 1) : \E i \in S : rank[i] = k
  <2>1. IsFiniteSet(0..(n - 1)) /\ Cardinality(0..(n - 1)) = n
    BY <1>1, FS_Interval
  <2> HIDE DEF rank, n
  <2>2. rank \in Surjection(S, 0..(n - 1))
    BY <1>5, <2>1, FS_Injection DEF n
  <2> QED
    BY <2>2 DEF Surjection
<1> DEFINE q == Sorted(S)
<1>7. q = [k \in 1..n |-> CHOOSE i \in S : Cardinality({j \in S : j < i}) = k - 1]
  BY DEF Sorted
<1>8. \A k \in 1..n : q[k] \in S /\ rank[q[k]] = k - 1
  <2> SUFFICES ASSUME NEW k \in 1..n PROVE q[k] \in S /\ rank[q[k]] = k - 1
    OBVIOUS
  <2>1. k - 1 \in 0..(n - 1)
    BY <1>1
  <2>2. PICK i \in S : rank[i] = k - 1
    <3> HIDE DEF rank
    <3> QED
      BY <1>6, <2>1
  <2>3. Cardinality({j \in S : j < i}) = k - 1
    BY <2>2
  <2>4. q[k] = CHOOSE h \in S : Cardinality({j \in S : j < h}) = k - 1
    <3> HIDE DEF q, n
    <3> QED
      BY <1>7
  <2>5. q[k] \in S /\ Cardinality({j \in S : j < q[k]}) = k - 1
    <3> HIDE DEF q, n
    <3> QED
      BY <2>3, <2>4
  <2> HIDE DEF q
  <2> QED
    BY <2>5
<1> HIDE DEF q, rank
<1>9. q \in [1..n -> S]
  BY <1>7, <1>8
<1> HIDE DEF n
<1>10. q \in Seq(S) /\ Len(q) = n
  BY <1>1, <1>9
<1>11. \A i, j \in 1..n : q[i] = q[j] => i = j
  <2> SUFFICES ASSUME NEW i \in 1..n, NEW j \in 1..n, q[i] = q[j] PROVE i = j
    OBVIOUS
  <2>1. i - 1 = j - 1
    BY <1>8
  <2> QED
    BY <1>1, <2>1
<1>12. \A m \in S : \E i \in 1..n : q[i] = m
  <2> SUFFICES ASSUME NEW m \in S PROVE \E i \in 1..n : q[i] = m
    OBVIOUS
  <2> DEFINE k == rank[m] + 1
  <2>1. rank[m] \in 0..(n - 1)
    BY <1>3
  <2>2. k \in 1..n /\ k - 1 = rank[m]
    BY <1>1, <2>1
  <2> HIDE DEF k
  <2>3. q[k] \in S /\ rank[q[k]] = rank[m]
    BY <1>8, <2>2
  <2>4. q[k] = m
    BY <1>5, <2>3 DEF Injection, IsInjective
  <2> QED
    BY <2>2, <2>4
<1> QED
  BY <1>8, <1>10, <1>11, <1>12 DEF IsSeq, q

-----------------------------------------------------------------------------
(***************************************************************************)
(* The indices of a map from its locals on: each is free or belongs to one  *)
(* variable of the submap.                                                  *)
(***************************************************************************)
Once(s) == \A i, j \in 1..Len(s) : s[i] = s[j] => i = j
OnceAt(sub) == \A i, j \in 1..Len(sub) : sub[i].at = sub[j].at => i = j

Parted(o, size, free, sub) ==
  /\ o \in Nat /\ size \in Nat /\ o <= size
  /\ IsSeq(free) /\ IsSeq(sub) /\ Once(free) /\ OnceAt(sub)
  /\ \A i \in 1..Len(free) : free[i] \in o..(size - 1)
  /\ \A i \in 1..Len(sub) : sub[i].at \in o..(size - 1)
  /\ \A i \in 1..Len(free), j \in 1..Len(sub) : free[i] # sub[j].at
  /\ \A n \in o..(size - 1) : \/ \E i \in 1..Len(free) : free[i] = n
                              \/ \E i \in 1..Len(sub) : sub[i].at = n

\* The empty sequence
LEMMA EmptyIs == IsSeq(<<>>) /\ Len(<<>>) = 0
BY EmptySeq DEF IsSeq

\* Length and domain of a sequence of anything
LEMMA LenIs == ASSUME NEW s, IsSeq(s) PROVE Len(s) \in Nat /\ DOMAIN s = 1..Len(s) /\ (s = <<>> <=> Len(s) = 0)
BY EmptySeq, LenProperties DEF IsSeq

\* A new map has no index beyond its locals.
LEMMA PartedNew == ASSUME NEW o \in Nat PROVE Parted(o, o, <<>>, <<>>)
BY EmptyIs DEF Parted, Once, OnceAt

\* A variable takes the index freed last, or the next one.
LEMMA PartedAdd ==
  ASSUME NEW o, NEW size, NEW free, NEW sub, Parted(o, size, free, sub), NEW e,
         e.at = IF free # <<>> THEN free[Len(free)] ELSE size
  PROVE  Parted(o, IF free # <<>> THEN size ELSE size + 1,
                IF free # <<>> THEN Front(free) ELSE free, Append(sub, e))
<1> DEFINE t == Append(sub, e)
           f == IF free # <<>> THEN Front(free) ELSE free
           z == IF free # <<>> THEN size ELSE size + 1
<1>0. /\ o \in Nat /\ size \in Nat /\ o <= size /\ IsSeq(free) /\ IsSeq(sub) /\ Once(free) /\ OnceAt(sub)
      /\ Len(free) \in Nat /\ Len(sub) \in Nat /\ (free = <<>> <=> Len(free) = 0)
  BY LenIs DEF Parted
<1>1. IsSeq(t) /\ Len(t) = Len(sub) + 1 /\ (\A i \in 1..Len(sub) : t[i] = sub[i]) /\ t[Len(sub) + 1] = e
  BY <1>0, AppendIs
<1>2. IsSeq(f) /\ Len(f) = (IF free # <<>> THEN Len(free) - 1 ELSE 0) /\ (\A i \in 1..Len(f) : f[i] = free[i])
  BY <1>0, FrontIs
<1>3. z \in Nat /\ o <= z /\ z >= size
  BY <1>0
<1>4. e.at \in o..(z - 1) /\ (\A i \in 1..Len(f) : f[i] # e.at) /\ (\A i \in 1..Len(sub) : sub[i].at # e.at)
  <2>1. CASE free # <<>>
    <3>1. Len(free) \in 1..Len(free) /\ e.at = free[Len(free)] /\ z = size
      BY <1>0, <2>1
    <3>2. \A i \in 1..Len(f) : i \in 1..Len(free) /\ i # Len(free)
      BY <1>0, <1>2, <2>1
    <3>3. \A i \in 1..Len(f) : f[i] # e.at
      BY <1>0, <1>2, <3>1, <3>2 DEF Once
    <3> QED
      BY <3>1, <3>3 DEF Parted
  <2>2. CASE free = <<>>
    <3>1. e.at = size /\ z = size + 1 /\ Len(f) = 0
      BY <1>2, <2>2
    <3>2. \A i \in 1..Len(sub) : sub[i].at \in o..(size - 1)
      BY DEF Parted
    <3> QED
      BY <1>0, <3>1, <3>2
  <2> QED
    BY <2>1, <2>2
<1> HIDE DEF t, f, z
<1>5. Once(f)
  <2>1. \A i \in 1..Len(f) : i \in 1..Len(free)
    BY <1>0, <1>2
  <2> QED
    BY <1>0, <1>2, <2>1 DEF Once
<1>6. \A i \in 1..Len(t) : i \in 1..Len(sub) \/ i = Len(sub) + 1
  BY <1>0, <1>1
<1>7. OnceAt(t)
  BY <1>0, <1>1, <1>4, <1>6 DEF OnceAt
<1>8. \A i \in 1..Len(f) : i \in 1..Len(free) /\ f[i] = free[i]
  BY <1>0, <1>2
<1>9. \A n \in o..(size - 1) : n \in o..(z - 1)
  BY <1>0, <1>3
<1>10. \A i \in 1..Len(f) : f[i] \in o..(z - 1)
  BY <1>8, <1>9 DEF Parted
<1>11. \A i \in 1..Len(t) : t[i].at \in o..(z - 1)
  BY <1>1, <1>4, <1>6, <1>9 DEF Parted
<1>12. \A i \in 1..Len(f), j \in 1..Len(t) : f[i] # t[j].at
  <2> SUFFICES ASSUME NEW i \in 1..Len(f), NEW j \in 1..Len(t) PROVE f[i] # t[j].at
    OBVIOUS
  <2>1. i \in 1..Len(free) /\ f[i] = free[i]
    BY <1>8
  <2>2. CASE j \in 1..Len(sub)
    <3>1. t[j] = sub[j]
      BY <1>1, <2>2
    <3> QED
      BY <2>1, <2>2, <3>1 DEF Parted
  <2>3. CASE j = Len(sub) + 1
    <3>1. t[j].at = e.at
      BY <1>1, <2>3
    <3> QED
      BY <1>4, <3>1
  <2> QED
    BY <1>6, <2>2, <2>3
<1>13. \A n \in o..(z - 1) : \/ \E i \in 1..Len(f) : f[i] = n
                             \/ \E i \in 1..Len(t) : t[i].at = n
  <2> SUFFICES ASSUME NEW n \in o..(z - 1), n # e.at
               PROVE  (\E i \in 1..Len(f) : f[i] = n) \/ (\E i \in 1..Len(t) : t[i].at = n)
    <3>1. Len(sub) + 1 \in 1..Len(t) /\ t[Len(sub) + 1].at = e.at
      BY <1>0, <1>1
    <3> QED
      BY <3>1
  <2>1. n \in o..(size - 1)
    BY <1>0 DEF z
  <2>2. CASE \E i \in 1..Len(sub) : sub[i].at = n
    <3>1. \A i \in 1..Len(sub) : i \in 1..Len(t)
      BY <1>0, <1>1
    <3> QED
      BY <1>1, <2>2, <3>1
  <2>3. CASE \E i \in 1..Len(free) : free[i] = n
    <3>1. PICK i \in 1..Len(free) : free[i] = n
      BY <2>3
    <3>2. free # <<>> /\ i # Len(free)
      BY <1>0, <3>1
    <3>3. i \in 1..Len(f)
      BY <1>0, <1>2, <3>2
    <3> QED
      BY <1>8, <3>1, <3>3
  <2> QED
    BY <2>1, <2>2, <2>3 DEF Parted
<1>14. Parted(o, z, f, t)
  BY <1>0, <1>1, <1>2, <1>3, <1>5, <1>7, <1>10, <1>11, <1>12, <1>13 DEF Parted
<1> QED
  BY <1>14 DEF t, f, z

\* The indices of the submap are free again.
LEMMA PartedPop ==
  ASSUME NEW o, NEW size, NEW free, NEW sub, Parted(o, size, free, sub)
  PROVE  Parted(o, size, free \o [k \in DOMAIN sub |-> sub[k].at], <<>>)
<1> DEFINE g == [k \in DOMAIN sub |-> sub[k].at]
           f == free \o g
<1>0. /\ o \in Nat /\ size \in Nat /\ o <= size /\ IsSeq(free) /\ IsSeq(sub) /\ Once(free) /\ OnceAt(sub)
      /\ Len(free) \in Nat /\ Len(sub) \in Nat /\ DOMAIN sub = 1..Len(sub)
  BY LenIs DEF Parted
<1>1. g \in Seq(Nat) /\ Len(g) = Len(sub)
  <2>1. \A k \in 1..Len(sub) : sub[k].at \in Nat
    <3>1. \A k \in 1..Len(sub) : sub[k].at \in o..(size - 1)
      BY DEF Parted
    <3> QED
      BY <1>0, <3>1
  <2>2. g \in [1..Len(sub) -> Nat]
    BY <1>0, <2>1
  <2> QED
    BY <1>0, <2>2
<1>2. free \in Seq(Nat)
  <2>1. \A k \in 1..Len(free) : free[k] \in Nat
    <3>1. \A k \in 1..Len(free) : free[k] \in o..(size - 1)
      BY DEF Parted
    <3> QED
      BY <1>0, <3>1
  <2>2. PICK T : free \in Seq(T)
    BY <1>0 DEF IsSeq
  <2>3. free \in [1..Len(free) -> T]
    BY <2>2, LenProperties
  <2>4. free \in [1..Len(free) -> Nat]
    BY <2>1, <2>3
  <2> QED
    BY <1>0, <2>4
<1>g. \A k \in 1..Len(sub) : g[k] = sub[k].at
  BY <1>0
<1> HIDE DEF g
<1>3. /\ f \in Seq(Nat) /\ Len(f) = Len(free) + Len(sub)
      /\ \A i \in 1..(Len(free) + Len(sub)) : f[i] = IF i <= Len(free) THEN free[i] ELSE g[i - Len(free)]
  <2> HIDE DEF f
  <2>1. f \in Seq(Nat) /\ Len(f) = Len(free) + Len(g)
    BY <1>1, <1>2, ConcatProperties DEF f
  <2>2. \A i \in 1..(Len(free) + Len(g)) : f[i] = IF i <= Len(free) THEN free[i] ELSE g[i - Len(free)]
    BY <1>1, <1>2, ConcatProperties DEF f
  <2> QED
    BY <1>1, <2>1, <2>2
<1> HIDE DEF f
<1>4. \A i \in 1..Len(f) : \/ i \in 1..Len(free) /\ f[i] = free[i]
                           \/ i - Len(free) \in 1..Len(sub) /\ f[i] = sub[i - Len(free)].at /\ ~ i <= Len(free)
  <2> SUFFICES ASSUME NEW i \in 1..Len(f)
               PROVE  \/ i \in 1..Len(free) /\ f[i] = free[i]
                      \/ i - Len(free) \in 1..Len(sub) /\ f[i] = sub[i - Len(free)].at /\ ~ i <= Len(free)
    OBVIOUS
  <2>1. CASE i <= Len(free)
    BY <1>0, <1>3, <2>1
  <2>2. CASE ~ i <= Len(free)
    <3>1. i - Len(free) \in 1..Len(sub) /\ i \in 1..(Len(free) + Len(sub))
      BY <1>0, <1>3, <2>2
    <3>2. f[i] = g[i - Len(free)]
      BY <1>3, <2>2, <3>1
    <3> QED
      BY <1>g, <2>2, <3>1, <3>2
  <2> QED
    BY <2>1, <2>2
<1>5. Once(f)
  <2> SUFFICES ASSUME NEW i \in 1..Len(f), NEW j \in 1..Len(f), f[i] = f[j] PROVE i = j
    BY DEF Once
  <2>1. CASE i \in 1..Len(free) /\ f[i] = free[i] /\ j \in 1..Len(free) /\ f[j] = free[j]
    BY <1>0, <2>1 DEF Once
  <2>2. CASE /\ i - Len(free) \in 1..Len(sub) /\ f[i] = sub[i - Len(free)].at
             /\ j - Len(free) \in 1..Len(sub) /\ f[j] = sub[j - Len(free)].at
    <3>1. i - Len(free) = j - Len(free)
      BY <1>0, <2>2 DEF OnceAt
    <3> QED
      BY <1>0, <3>1
  <2>3. \A h \in 1..Len(free), k \in 1..Len(sub) : free[h] # sub[k].at
    BY DEF Parted
  <2> QED
    BY <1>4, <2>1, <2>2, <2>3
<1>6. \A i \in 1..Len(f) : f[i] \in o..(size - 1)
  BY <1>4 DEF Parted
<1>7. \A n \in o..(size - 1) : \E i \in 1..Len(f) : f[i] = n
  <2> SUFFICES ASSUME NEW n \in o..(size - 1) PROVE \E i \in 1..Len(f) : f[i] = n
    OBVIOUS
  <2>1. CASE \E i \in 1..Len(free) : free[i] = n
    <3>1. \A i \in 1..Len(free) : i \in 1..Len(f) /\ f[i] = free[i]
      BY <1>0, <1>3
    <3> QED
      BY <2>1, <3>1
  <2>2. CASE \E i \in 1..Len(sub) : sub[i].at = n
    <3>1. PICK i \in 1..Len(sub) : sub[i].at = n
      BY <2>2
    <3> DEFINE k == Len(free) + i
    <3>2. k \in 1..Len(f) /\ ~ k <= Len(free) /\ k - Len(free) = i
      BY <1>0, <1>3
    <3> HIDE DEF k
    <3>3. f[k] = sub[i].at
      BY <1>0, <1>4, <3>2
    <3> QED
      BY <3>1, <3>2, <3>3
  <2> QED
    BY <2>1, <2>2 DEF Parted
<1>8. IsSeq(f)
  BY <1>3 DEF IsSeq
<1>9. Parted(o, size, f, <<>>)
  BY <1>0, <1>5, <1>6, <1>7, <1>8, EmptyIs DEF Parted, OnceAt
<1> QED
  BY <1>9 DEF f, g

\* A submap that is not in its map.
Loose(o, sub) ==
  /\ IsSeq(sub) /\ Len(sub) > 0 /\ OnceAt(sub)
  /\ \E b \in Nat : \A i \in 1..Len(sub) : sub[i].at \in o..b

IsMap(map) == map = [own |-> map.own, size |-> map.size, free |-> map.free, subs |-> map.subs]

\* A map without submaps, and one with a single one
Bare(map, own) ==
  /\ IsMap(map) /\ map.own = own /\ map.subs = <<>>
  /\ Parted(Len(own), map.size, map.free, <<>>)
Holds(map, own, sub) ==
  /\ IsMap(map) /\ map.own = own /\ map.subs = <<sub>>
  /\ Parted(Len(own), map.size, map.free, sub)

\* The members of a sequence, by their places
LEMMA ToSetIs == ASSUME NEW s, IsSeq(s) PROVE \A n : n \in ToSet(s) <=> \E i \in 1..Len(s) : s[i] = n
BY LenIs DEF ToSet

\* The indices of a submap, by their places
LEMMA IndicesIs == ASSUME NEW s, IsSeq(s) PROVE \A n : n \in IndicesOf(s) <=> \E i \in 1..Len(s) : s[i].at = n
BY LenIs DEF IndicesOf

\* The map of a subroutine, made by the parser
LEMMA NewMapIs == ASSUME NEW own, IsSeq(own) PROVE Bare(NewMap(own), own)
<1>1. Len(own) \in Nat
  BY LenIs
<1>2. NewMap(own).size = Len(own) /\ NewMap(own).own = own /\ NewMap(own).free = <<>> /\ NewMap(own).subs = <<>> /\ IsMap(NewMap(own))
  BY DEF NewMap, IsMap
<1> QED
  BY <1>1, <1>2, PartedNew DEF Bare

\* pushSubMap
LEMMA PushIs ==
  ASSUME NEW map, NEW own, Bare(map, own)
  PROVE  LET t == [map EXCEPT !.subs = Append(@, <<>>)] IN Holds(t, own, <<>>) /\ t.size = map.size
<1> DEFINE t == [map EXCEPT !.subs = Append(@, <<>>)]
<1>1. t = [own |-> map.own, size |-> map.size, free |-> map.free, subs |-> Append(map.subs, <<>>)]
  BY DEF Bare, IsMap
<1>2. Append(<<>>, <<>>) = << <<>> >>
  OBVIOUS
<1> HIDE DEF t
<1>3. Holds(t, own, <<>>)
  BY <1>1, <1>2 DEF Bare, Holds, IsMap
<1> QED
  BY <1>1, <1>3 DEF t

\* var_find_add_submap: the new variable has an index no other one has.
LEMMA AddToSubMapIs ==
  ASSUME NEW map, NEW own, NEW sub, Holds(map, own, sub), NEW n
  PROVE  LET t == AddToSubMap(map, n)
             e == [name |-> n, at |-> FreeIndex(map)]
         IN /\ Holds(t, own, Append(sub, e)) /\ Last(t.subs) = Append(sub, e)
            /\ t.size >= map.size /\ FreeIndex(map) \in Len(own)..(t.size - 1)
            /\ t.size = IF map.free # <<>> THEN map.size ELSE map.size + 1
<1> DEFINE e == [name |-> n, at |-> FreeIndex(map)]
           t == AddToSubMap(map, n)
           full == map.free # <<>>
           free == IF full THEN Front(map.free) ELSE map.free
           size == IF full THEN map.size ELSE map.size + 1
<1>1. map = [own |-> map.own, size |-> map.size, free |-> map.free, subs |-> map.subs] /\ map.subs = <<sub>> /\ map.own = own
  BY DEF Holds, IsMap
<1>2. Len(map.subs) = 1 /\ map.subs[1] = sub
  BY <1>1
<1>3. AddVarIdx(map) = [own |-> map.own, size |-> size, free |-> free, subs |-> map.subs]
  <2>1. CASE full
    <3>1. AddVarIdx(map) = [map EXCEPT !.free = Front(@)]
      BY <2>1 DEF AddVarIdx
    <3> QED
      BY <1>1, <2>1, <3>1
  <2>2. CASE ~full
    <3>1. AddVarIdx(map) = [map EXCEPT !.size = @ + 1]
      BY <2>2 DEF AddVarIdx
    <3> QED
      BY <1>1, <2>2, <3>1
  <2> QED
    BY <2>1, <2>2
<1>4. AddVarIdx(map).subs = <<sub>>
  BY <1>1, <1>3
<1> DEFINE ai == AddVarIdx(map)
           after == Append(sub, e)
<1>5. t = [ai EXCEPT !.subs[1] = Append(@, e)]
  BY <1>2 DEF AddToSubMap
<1> HIDE DEF t, e, ai, size, free
<1>6. t = [own |-> map.own, size |-> size, free |-> free, subs |-> <<after>>]
  <2>1. ai = [own |-> map.own, size |-> size, free |-> free, subs |-> <<sub>>]
    BY <1>1, <1>3 DEF ai
  <2>2. <<sub>>[1] = sub
    OBVIOUS
  <2> HIDE DEF after
  <2>3. t = [ai EXCEPT !.subs[1] = after]
    BY <1>5, <2>1, <2>2 DEF after
  <2>4. t = [own |-> map.own, size |-> size, free |-> free, subs |-> [<<sub>> EXCEPT ![1] = after]]
    BY <2>1, <2>3
  <2>5. [<<sub>> EXCEPT ![1] = after] = <<after>>
    OBVIOUS
  <2> QED
    BY <2>4, <2>5
<1>7. e.at = IF full THEN map.free[Len(map.free)] ELSE map.size
  BY DEF e, FreeIndex, Last
<1>8. Parted(Len(own), size, free, Append(sub, e))
  <2>1. Parted(Len(own), map.size, map.free, sub)
    BY DEF Holds
  <2> QED
    BY <1>7, <2>1, PartedAdd DEF size, free
<1>9. IsMap(t) /\ t.own = own /\ t.subs = <<Append(sub, e)>> /\ t.size = size /\ t.free = free
  BY <1>1, <1>6 DEF IsMap
<1>10. Holds(t, own, Append(sub, e))
  BY <1>8, <1>9 DEF Holds
<1>11. Last(t.subs) = Append(sub, e)
  <2>1. Len(<<Append(sub, e)>>) = 1 /\ <<Append(sub, e)>>[1] = Append(sub, e)
    OBVIOUS
  <2> QED
    BY <1>9, <2>1 DEF Last
<1>12. size \in Nat /\ map.size \in Nat /\ size >= map.size
  BY <1>8 DEF Parted, Holds, size
<1>13. e.at \in Len(own)..(size - 1)
  <2>1. IsSeq(sub)
    BY DEF Holds, Parted
  <2>2. Len(Append(sub, e)) = Len(sub) + 1 /\ Append(sub, e)[Len(sub) + 1] = e /\ Len(sub) \in Nat
    BY <2>1, AppendIs
  <2>3. Len(sub) + 1 \in 1..Len(Append(sub, e))
    BY <2>2
  <2> QED
    BY <1>8, <2>2, <2>3 DEF Parted
<1>14. e.at = FreeIndex(map)
  BY DEF e
<1>15. t.size = IF map.free # <<>> THEN map.size ELSE map.size + 1
  BY <1>9 DEF size
<1> QED
  BY <1>9, <1>10, <1>11, <1>12, <1>13, <1>14, <1>15 DEF t, e

\* popSubMap: the indices of the let are free again.
LEMMA PopSubMapIs ==
  ASSUME NEW map, NEW own, NEW sub, Holds(map, own, sub)
  PROVE  Bare(PopSubMap(map), own)
<1> DEFINE t == PopSubMap(map)
           free == map.free \o [k \in DOMAIN sub |-> sub[k].at]
<1>1. map = [own |-> map.own, size |-> map.size, free |-> map.free, subs |-> map.subs] /\ map.subs = <<sub>> /\ map.own = own
  BY DEF Holds, IsMap
<1>2. Last(map.subs) = sub /\ Front(map.subs) = <<>>
  <2>1. Len(<<sub>>) = 1 /\ <<sub>>[1] = sub
    OBVIOUS
  <2>2. SubSeq(<<sub>>, 1, 0) = <<>>
    BY SubSeqEmpty
  <2> QED
    BY <1>1, <2>1, <2>2 DEF Last, Front
<1>3. t = [map EXCEPT !.free = free, !.subs = <<>>]
  BY <1>2 DEF PopSubMap
<1> HIDE DEF free
<1>4. t = [own |-> map.own, size |-> map.size, free |-> free, subs |-> <<>>]
  <2> HIDE DEF t
  <2> QED
    BY <1>1, <1>3
<1>5. Parted(Len(own), map.size, free, <<>>)
  BY PartedPop DEF Holds, free
<1> HIDE DEF t
<1>6. Bare(t, own)
  BY <1>1, <1>4, <1>5 DEF Bare, IsMap
<1> QED
  BY <1>6 DEF t

\* addVars: what the let was read with is in use again.
LEMMA AddVarsIs ==
  ASSUME NEW map, NEW own, NEW sub, Bare(map, own), Loose(Len(own), sub), CanAdd(map, sub)
  PROVE  Holds(AddVars(map, sub), own, sub) /\ AddVars(map, sub).size >= map.size
<1> DEFINE I == IndicesOf(sub)
           top == Max(I)
           size == Max({map.size, top + 1})
           rest == (ToSet(map.free) \cup (map.size .. (size - 1))) \ I
           t == AddVars(map, sub)
           o == Len(own)
<1>1. /\ map = [own |-> map.own, size |-> map.size, free |-> map.free, subs |-> map.subs]
      /\ map.subs = <<>> /\ map.own = own
      /\ Parted(o, map.size, map.free, <<>>)
  BY DEF Bare, IsMap
<1>2. /\ o \in Nat /\ map.size \in Nat /\ o <= map.size /\ IsSeq(map.free) /\ IsSeq(sub) /\ OnceAt(sub)
      /\ Len(sub) \in Nat /\ Len(sub) > 0
  BY <1>1, LenIs DEF Parted, Loose
<1>3. PICK b \in Nat : \A i \in 1..Len(sub) : sub[i].at \in o..b
  BY DEF Loose
<1>4. \A n : n \in I <=> \E i \in 1..Len(sub) : sub[i].at = n
  BY <1>2, IndicesIs
<1>f. \A n : n \in ToSet(map.free) <=> \E i \in 1..Len(map.free) : map.free[i] = n
  BY <1>2, ToSetIs
<1> HIDE DEF I
<1>5. \A n \in I : n \in o..b
  BY <1>3, <1>4
<1>6. top \in I /\ top \in Nat /\ \A n \in I : n <= top
  <2>1. I \subseteq 0..b
    BY <1>2, <1>5
  <2>2. I # {}
    <3>1. 1 \in 1..Len(sub)
      BY <1>2
    <3> QED
      BY <1>4, <3>1
  <2> QED
    BY <2>1, <2>2, MaxIs
<1> HIDE DEF top
<1>7. size \in Nat /\ size >= map.size /\ size >= top + 1 /\ (size = map.size \/ size = top + 1)
  <2> DEFINE S == {map.size, top + 1}
  <2>1. map.size + top + 1 \in Nat /\ S \subseteq 0..(map.size + top + 1) /\ S # {}
    BY <1>2, <1>6
  <2>2. Max(S) \in S /\ Max(S) \in Nat /\ \A i \in S : i <= Max(S)
    <3> HIDE DEF S
    <3> QED
      BY <2>1, MaxIs
  <2>3. map.size \in S /\ top + 1 \in S
    OBVIOUS
  <2> QED
    BY <1>2, <1>6, <2>2, <2>3
<1> HIDE DEF size
<1>8. \A n : n \in ToSet(map.free) <=> n \in o..(map.size - 1)
  <2>1. Len(<<>>) = 0
    OBVIOUS
  <2>2. \A n \in o..(map.size - 1) : \E i \in 1..Len(map.free) : map.free[i] = n
    BY <1>1, <2>1 DEF Parted
  <2>3. \A i \in 1..Len(map.free) : map.free[i] \in o..(map.size - 1)
    BY <1>1 DEF Parted
  <2> QED
    BY <1>f, <2>2, <2>3
<1>9. \A n : n \in rest <=> n \in o..(size - 1) /\ n \notin I
  BY <1>2, <1>7, <1>8
<1>10. rest \subseteq 0..size
  BY <1>2, <1>7, <1>9
<1> HIDE DEF rest
<1> DEFINE q == Sorted(rest)
<1>11. /\ IsSeq(q)
       /\ \A i \in 1..Len(q) : q[i] \in rest
       /\ Once(q)
       /\ \A n \in rest : \E i \in 1..Len(q) : q[i] = n
  BY <1>7, <1>10, SortedIs DEF Once
<1>12. t = [map EXCEPT !.size = size, !.free = q, !.subs = Append(@, sub)]
  BY DEF AddVars, size, top, I, rest
<1> HIDE DEF q, t
<1>13. t = [own |-> map.own, size |-> size, free |-> q, subs |-> <<sub>>]
  <2>1. Append(map.subs, sub) = <<sub>>
    BY <1>1
  <2> QED
    BY <1>1, <1>12, <2>1
<1>14. Parted(o, size, q, sub)
  <2>1. \A i \in 1..Len(q) : q[i] \in o..(size - 1)
    BY <1>9, <1>11
  <2>2. \A i \in 1..Len(sub) : sub[i].at \in o..(size - 1)
    <3> SUFFICES ASSUME NEW i \in 1..Len(sub) PROVE sub[i].at \in o..(size - 1)
      OBVIOUS
    <3>1. sub[i].at \in I
      BY <1>4
    <3>2. sub[i].at \in o..b /\ sub[i].at <= top
      BY <1>3, <1>6, <3>1
    <3> QED
      BY <1>2, <1>6, <1>7, <3>2
  <2>3. \A i \in 1..Len(q), j \in 1..Len(sub) : q[i] # sub[j].at
    BY <1>4, <1>9, <1>11
  <2>4. \A n \in o..(size - 1) : (\E i \in 1..Len(q) : q[i] = n) \/ (\E i \in 1..Len(sub) : sub[i].at = n)
    BY <1>4, <1>9, <1>11
  <2>5. o <= size
    BY <1>2, <1>7
  <2> QED
    BY <1>2, <1>7, <1>11, <2>1, <2>2, <2>3, <2>4, <2>5 DEF Parted
<1>15. t.size = size /\ t.own = map.own /\ t.free = q /\ t.subs = <<sub>> /\ IsMap(t)
  BY <1>13 DEF IsMap
<1>16. Holds(t, own, sub) /\ t.size >= map.size
  BY <1>1, <1>7, <1>14, <1>15 DEF Holds
<1> QED
  BY <1>16 DEF t

-----------------------------------------------------------------------------
(***************************************************************************)
(* One map is shared, that of the subroutine (or the main program) with the *)
(* graph: its only submap is that of the let that is being read or drawn,   *)
(* and the submaps of all its lets were made from it.                       *)
(***************************************************************************)
Home(c, gr) == IF gr.depth = 0 THEN "temp" ELSE c[gr.depth].sub

\* The let that is on the stack, if any: it stands where the graph is.
LetNow(c, gr) ==
  IF gr.state # "none" /\ gr.depth < Len(c) /\ c[gr.depth + 1].kind # "call"
  THEN c[gr.depth + 1].let ELSE 0

OwnOf(m) == IF m = "temp" THEN <<>> ELSE Locals[m]

Graph(c, gr, n) ==
  /\ gr = [state |-> gr.state, depth |-> gr.depth, todo |-> gr.todo]
  /\ gr.depth \in 0..Len(c) /\ (gr.depth > 0 => c[gr.depth].kind = "call")
  /\ gr.state = "none" => gr.depth = 0 /\ n = 0
  /\ IsSeq(gr.todo) /\ \A k \in 1..Len(gr.todo) : gr.todo[k] \in 1..n
  /\ \A k \in 1..Len(c) : c[k].kind # "call" =>
       /\ gr.state # "none" /\ k = gr.depth + 1 /\ c[k].let \in 1..n
       /\ c[k].kind = "let" => gr.state = "drawing"
       /\ c[k].kind = "parse" => gr.state = "open"

IsLet(let) == let = [sub |-> let.sub, x |-> let.x, name |-> let.name, ref |-> let.ref, value |-> let.value]

Lets(home, ls) ==
  /\ IsSeq(ls)
  /\ \A n \in 1..Len(ls) : IsLet(ls[n]) /\ Loose(Len(OwnOf(home)), ls[n].sub)

Maps(home, now, ms, ls) ==
  /\ ms = [m \in Subs \cup {"temp"} |-> ms[m]]
  /\ \A m \in Subs \cup {"temp"} :
       IF now > 0 /\ m = home THEN Holds(ms[m], OwnOf(m), ls[now].sub) ELSE Bare(ms[m], OwnOf(m))

\* The temporary map has no locals.
LEMMA OwnOfIs == ASSUME NEW m \in Subs \cup {"temp"} PROVE IsSeq(OwnOf(m)) /\ Len(OwnOf(m)) \in Nat
<1>1. IsSeq(OwnOf(m))
  BY EmptyIs, NamesAssumption DEF OwnOf, IsSeq
<1> QED
  BY <1>1, LenIs

\* Where the graph is, with or without a let on it.
LEMMA HomeIs ==
  ASSUME NEW c, Stack(c), NEW gr, NEW n, Graph(c, gr, n),
         Len(c) = gr.depth \/ (Len(c) = gr.depth + 1 /\ c[Len(c)].kind # "call")
  PROVE  /\ (IF MapOf(c, Len(c)) = "none" THEN "temp" ELSE MapOf(c, Len(c))) = Home(c, gr)
         /\ Home(c, gr) \in Subs \cup {"temp"} /\ (Home(c, gr) = "temp" <=> gr.depth = 0)
<1> DEFINE d == gr.depth
<1>1. Len(c) \in Nat /\ d \in 0..Len(c)
  BY LenIs DEF Stack, Graph
<1>2. LastCall(c, Len(c), d)
  <2>1. \A i \in Calls(c, Len(c)) : i <= d
    <3> SUFFICES ASSUME NEW i \in 1..Len(c), c[i].kind = "call" PROVE i <= d
      BY DEF Calls
    <3> QED
      BY <1>1
  <2>2. d > 0 => d \in Calls(c, Len(c))
    BY <1>1 DEF Graph, Calls
  <2> QED
    BY <1>1, <2>1, <2>2 DEF LastCall
<1>3. CallOf(c, Len(c)) = d
  BY <1>1, <1>2, CallOfLast
<1>4. CASE d = 0
  BY <1>1, <1>3, <1>4 DEF MapOf, Home
<1>5. CASE d # 0
  <2>1. d \in 1..Len(c) /\ d > 0
    BY <1>1, <1>5
  <2>2. c[d].sub \in Subs
    BY <2>1 DEF Stack, Graph
  <2> QED
    BY <1>3, <2>1, <2>2, NamesAssumption DEF MapOf, Home
<1> QED
  BY <1>4, <1>5

\* The graph stands in a subroutine or in the main program.
LEMMA HomeIn ==
  ASSUME NEW c, Stack(c), NEW gr, NEW n, Graph(c, gr, n) PROVE Home(c, gr) \in Subs \cup {"temp"}
<1>1. Len(c) \in Nat /\ gr.depth \in 0..Len(c)
  BY LenIs DEF Stack, Graph
<1>2. CASE gr.depth = 0
  BY <1>2 DEF Home
<1>3. CASE gr.depth # 0
  <2>1. gr.depth \in 1..Len(c) /\ gr.depth > 0
    BY <1>1, <1>3
  <2> QED
    BY <2>1 DEF Stack, Graph, Home
<1> QED
  BY <1>2, <1>3

\* The top of the stack, when it is a let.
LEMMA TopIs ==
  ASSUME NEW c, Stack(c), c # <<>>, NEW gr, NEW n \in Nat, Graph(c, gr, n), c[Len(c)].kind # "call"
  PROVE  /\ Len(c) = gr.depth + 1 /\ gr.state # "none" /\ gr.depth \in Nat
         /\ LetNow(c, gr) = c[Len(c)].let /\ c[Len(c)].let \in 1..n
<1>1. Len(c) \in Nat /\ Len(c) # 0
  BY LenIs DEF Stack
<1>2. Len(c) \in 1..Len(c)
  BY <1>1
<1>3. gr.state # "none" /\ Len(c) = gr.depth + 1 /\ c[Len(c)].let \in 1..n /\ gr.depth \in Nat
  BY <1>1, <1>2 DEF Graph
<1>4. gr.depth < Len(c) /\ gr.depth + 1 = Len(c)
  BY <1>3
<1> QED
  BY <1>3, <1>4 DEF LetNow

\* Calls come and go above the graph.
LEMMA GraphCall ==
  ASSUME NEW c, Stack(c), NEW gr, NEW n \in Nat, Graph(c, gr, n), NEW d, IsSeq(d),
         Len(d) = Len(c) + 1, \A i \in 1..Len(c) : d[i] = c[i], d[Len(c) + 1].kind = "call"
  PROVE  Graph(d, gr, n) /\ Home(d, gr) = Home(c, gr) /\ LetNow(d, gr) = LetNow(c, gr)
<1>1. Len(c) \in Nat /\ gr.depth \in 0..Len(c)
  BY LenIs DEF Stack, Graph
<1>2. gr.depth > 0 => gr.depth \in 1..Len(c) /\ d[gr.depth] = c[gr.depth]
  BY <1>1
<1>3. Home(d, gr) = Home(c, gr)
  BY <1>1, <1>2 DEF Home
<1>4. LetNow(d, gr) = LetNow(c, gr)
  <2>1. CASE gr.depth = Len(c)
    BY <1>1, <2>1 DEF LetNow
  <2>2. CASE gr.depth # Len(c)
    <3>1. gr.depth + 1 \in 1..Len(c) /\ gr.depth < Len(c) /\ gr.depth < Len(d)
      BY <1>1, <2>2
    <3> QED
      BY <3>1 DEF LetNow
  <2> QED
    BY <2>1, <2>2
<1>5. \A k \in 1..Len(d) : k \in 1..Len(c) \/ d[k].kind = "call"
  BY <1>1
<1>6. gr.depth \in 0..Len(d)
  BY <1>1
<1>7. \A k \in 1..Len(d) : d[k].kind # "call" =>
       /\ gr.state # "none" /\ k = gr.depth + 1 /\ d[k].let \in 1..n
       /\ d[k].kind = "let" => gr.state = "drawing"
       /\ d[k].kind = "parse" => gr.state = "open"
  BY <1>5 DEF Graph
<1>8. gr.depth > 0 => d[gr.depth].kind = "call"
  BY <1>2 DEF Graph
<1>9. Graph(d, gr, n)
  BY <1>6, <1>7, <1>8 DEF Graph
<1> QED
  BY <1>3, <1>4, <1>9

\* An entry above the graph goes.
LEMMA GraphReturn ==
  ASSUME NEW c, Stack(c), NEW gr, NEW n \in Nat, Graph(c, gr, n), NEW d, IsSeq(d),
         c # <<>>, Len(d) = Len(c) - 1, \A i \in 1..(Len(c) - 1) : d[i] = c[i],
         gr.depth # Len(c)
  PROVE  /\ Graph(d, gr, n) /\ Home(d, gr) = Home(c, gr)
         /\ LetNow(d, gr) = IF c[Len(c)].kind = "call" THEN LetNow(c, gr) ELSE 0
<1>1. Len(c) \in Nat /\ Len(c) # 0 /\ gr.depth \in 0..(Len(c) - 1)
  BY LenIs DEF Stack, Graph
<1>2. gr.depth > 0 => gr.depth \in 1..(Len(c) - 1) /\ d[gr.depth] = c[gr.depth]
  BY <1>1
<1>3. Home(d, gr) = Home(c, gr)
  BY <1>1, <1>2 DEF Home
<1>4. LetNow(d, gr) = IF c[Len(c)].kind = "call" THEN LetNow(c, gr) ELSE 0
  <2>1. CASE gr.depth = Len(c) - 1
    <3>1. gr.depth + 1 = Len(c) /\ ~ gr.depth < Len(d) /\ gr.depth < Len(c)
      BY <1>1, <2>1
    <3> QED
      BY <3>1 DEF LetNow
  <2>2. CASE gr.depth # Len(c) - 1
    <3>1. gr.depth + 1 \in 1..(Len(c) - 1) /\ gr.depth < Len(c) /\ gr.depth < Len(d)
      BY <1>1, <2>2
    <3>2. d[gr.depth + 1] = c[gr.depth + 1]
      BY <3>1
    <3>3. c[Len(c)].kind = "call"
      <4>1. Len(c) \in 1..Len(c) /\ Len(c) # gr.depth + 1
        BY <1>1, <2>2
      <4> QED
        BY <4>1 DEF Graph
    <3> QED
      BY <3>1, <3>2, <3>3 DEF LetNow
  <2> QED
    BY <2>1, <2>2
<1>5. \A k \in 1..Len(d) : k \in 1..Len(c) /\ d[k] = c[k]
  BY <1>1
<1>6. gr.depth \in 0..Len(d) /\ (gr.depth > 0 => d[gr.depth].kind = "call")
  BY <1>1, <1>2 DEF Graph
<1>7. Graph(d, gr, n)
  BY <1>5, <1>6 DEF Graph
<1> QED
  BY <1>3, <1>4, <1>7

\* A let is put on the graph.
LetOn(c, gr, n, d, hr, q) ==
  /\ Stack(c) /\ Graph(c, gr, n) /\ gr.depth = Len(c) /\ gr.state \in {"open", "drawing"}
  /\ IsSeq(d) /\ Len(d) = Len(c) + 1 /\ \A i \in 1..Len(c) : d[i] = c[i]
  /\ hr = [state |-> gr.state, depth |-> gr.depth, todo |-> hr.todo]
  /\ IsSeq(hr.todo) /\ \A k \in 1..Len(hr.todo) : hr.todo[k] \in 1..q
  /\ d[Len(d)].let \in 1..q /\ d[Len(d)].kind = IF gr.state = "open" THEN "parse" ELSE "let"

\* Then it is the let of the graph, and the graph is where it was.
LEMMA GraphLet ==
  ASSUME NEW c, NEW gr, NEW n \in Nat, NEW d, NEW hr, NEW q \in Nat, LetOn(c, gr, n, d, hr, q)
  PROVE  Graph(d, hr, q) /\ Home(d, hr) = Home(c, gr) /\ LetNow(d, hr) = d[Len(d)].let /\ LetNow(c, gr) = 0
<1>0. /\ Stack(c) /\ Graph(c, gr, n) /\ gr.depth = Len(c) /\ gr.state \in {"open", "drawing"} /\ gr.state # "none"
      /\ IsSeq(d) /\ Len(d) = Len(c) + 1 /\ \A i \in 1..Len(c) : d[i] = c[i]
      /\ hr = [state |-> gr.state, depth |-> gr.depth, todo |-> hr.todo]
      /\ IsSeq(hr.todo) /\ \A k \in 1..Len(hr.todo) : hr.todo[k] \in 1..q
      /\ d[Len(d)].let \in 1..q /\ d[Len(d)].kind = IF gr.state = "open" THEN "parse" ELSE "let"
  BY DEF LetOn
<1>1. Len(c) \in Nat /\ Len(d) = gr.depth + 1 /\ hr.depth = gr.depth /\ hr.state = gr.state
  BY <1>0, LenIs DEF Stack
<1>2. gr.depth > 0 => gr.depth \in 1..Len(c) /\ d[gr.depth] = c[gr.depth]
  BY <1>0, <1>1
<1>3. Home(d, hr) = Home(c, gr)
  BY <1>0, <1>1, <1>2 DEF Home
<1>4. LetNow(d, hr) = d[Len(d)].let /\ LetNow(c, gr) = 0
  <2>1. hr.depth < Len(d) /\ hr.depth + 1 = Len(d) /\ ~ gr.depth < Len(c)
    BY <1>0, <1>1
  <2>2. d[Len(d)].kind # "call"
    BY <1>0
  <2> QED
    BY <1>0, <1>1, <2>1, <2>2 DEF LetNow
<1>5. \A k \in 1..Len(c) : c[k].kind = "call"
  <2>1. \A k \in 1..Len(c) : k # gr.depth + 1
    BY <1>0, <1>1
  <2> QED
    BY <1>0, <2>1 DEF Graph
<1>6. \A k \in 1..Len(d) : (k \in 1..Len(c) /\ d[k].kind = "call") \/ k = Len(d)
  BY <1>0, <1>1, <1>5
<1>7. \A k \in 1..Len(d) : d[k].kind # "call" =>
       /\ hr.state # "none" /\ k = hr.depth + 1 /\ d[k].let \in 1..q
       /\ d[k].kind = "let" => hr.state = "drawing"
       /\ d[k].kind = "parse" => hr.state = "open"
  BY <1>0, <1>1, <1>6
<1>8. hr.depth \in 0..Len(d) /\ (hr.depth > 0 => d[hr.depth].kind = "call")
  BY <1>0, <1>1, <1>2 DEF Graph
<1>9. Graph(d, hr, q)
  BY <1>0, <1>1, <1>7, <1>8 DEF Graph
<1> QED
  BY <1>0, <1>3, <1>4, <1>9

Sharing ==
  /\ CurrentMap
  /\ Graph(ctl, graph, Len(lets))
  /\ Lets(Home(ctl, graph), lets)
  /\ Maps(Home(ctl, graph), LetNow(ctl, graph), maps, lets)

\* What the invariant says of the stack.
LEMMA SharingIs ==
  ASSUME Sharing
  PROVE  /\ Stack(ctl) /\ Len(ctl) \in Nat /\ (Len(ctl) = 0 <=> ctl = <<>>) /\ Len(lets) \in Nat
         /\ Home(ctl, graph) \in Subs \cup {"temp"} /\ localMap = MapOf(ctl, Len(ctl))
<1>1. Stack(ctl) /\ IsSeq(lets) /\ localMap = MapOf(ctl, Len(ctl)) /\ Graph(ctl, graph, Len(lets))
  BY DEF Sharing, CurrentMap, Lets
<1>2. IsSeq(ctl)
  BY <1>1 DEF Stack
<1> QED
  BY <1>1, <1>2, LenIs, HomeIn

\* One map is changed: that of the graph.
LEMMA MapsOne ==
  ASSUME NEW home \in Subs \cup {"temp"}, NEW a, NEW ms, NEW ls, Maps(home, a, ms, ls),
         NEW ns, NEW map, ns = [ms EXCEPT ![home] = map], NEW b, NEW ls2,
         IF b > 0 THEN Holds(map, OwnOf(home), ls2[b].sub) ELSE Bare(map, OwnOf(home))
  PROVE  Maps(home, b, ns, ls2)
<1>1. ns = [m \in Subs \cup {"temp"} |-> IF m = home THEN map ELSE ms[m]]
  BY DEF Maps
<1>2. ns = [m \in Subs \cup {"temp"} |-> ns[m]] /\ ns[home] = map /\ \A m \in Subs \cup {"temp"} : m # home => ns[m] = ms[m]
  BY <1>1
<1>3. \A m \in Subs \cup {"temp"} : m # home => Bare(ns[m], OwnOf(m))
  BY <1>2 DEF Maps
<1> QED
  BY <1>2, <1>3 DEF Maps

\* A submap in its map can be taken out and kept.
LEMMA LooseOf == ASSUME NEW map, NEW own, NEW sub, Holds(map, own, sub), Len(sub) > 0 PROVE Loose(Len(own), sub)
<1>1. Parted(Len(own), map.size, map.free, sub)
  BY DEF Holds
<1> DEFINE b == map.size
<1>2. b \in Nat /\ \A i \in 1..Len(sub) : sub[i].at \in Len(own)..b
  <2>1. \A i \in 1..Len(sub) : sub[i].at \in Len(own)..(b - 1)
    BY <1>1 DEF Parted
  <2>2. b \in Nat /\ Len(own) \in Nat
    BY <1>1 DEF Parted
  <2> QED
    BY <2>1, <2>2
<1> HIDE DEF b
<1> QED
  BY <1>1, <1>2 DEF Loose, Parted

\* The submap a let is read with: X, and the name of its expression if it is new.
Pushed(map) == [map EXCEPT !.subs = Append(@, <<>>)]
WithX(map) == AddToSubMap(Pushed(map), X)
Parsed(map, n, isNew) == IF isNew THEN AddToSubMap(WithX(map), n) ELSE WithX(map)
NewIndices(map, isNew) == {FreeIndex(Pushed(map))} \cup (IF isNew THEN {FreeIndex(WithX(map))} ELSE {})

\* The submap has X and the new name, at the indices that got new cells.
LEMMA ParsedIs ==
  ASSUME NEW map, NEW own, Bare(map, own), NEW n, NEW isNew
  PROVE  LET t == Parsed(map, n, isNew)
             sub == Last(t.subs)
         IN /\ Holds(t, own, sub) /\ Len(sub) > 0 /\ t.size >= map.size
            /\ \A i \in 1..Len(sub) : sub[i].at \in NewIndices(map, isNew)
            /\ \A i \in NewIndices(map, isNew) : i \in Len(own)..(t.size - 1)
<1> DEFINE p == Pushed(map)
           w == WithX(map)
           ex == [name |-> X, at |-> FreeIndex(p)]
           en == [name |-> n, at |-> FreeIndex(w)]
           one == Append(<<>>, ex)
           two == Append(one, en)
<1>1. Holds(p, own, <<>>) /\ p.size = map.size
  BY PushIs DEF Pushed
<1> HIDE DEF p
<1>2. Holds(w, own, one) /\ Last(w.subs) = one /\ w.size >= p.size /\ FreeIndex(p) \in Len(own)..(w.size - 1)
  BY <1>1, AddToSubMapIs DEF WithX, p
<1>3. Len(one) = 1 /\ one[1].at = FreeIndex(p) /\ IsSeq(one)
  <2>1. IsSeq(one) /\ Len(one) = 0 + 1 /\ one[0 + 1] = ex
    <3> HIDE DEF ex
    <3> QED
      BY EmptyIs, AppendIs
  <2> HIDE DEF one
  <2> QED
    BY <2>1
<1> HIDE DEF one, w
<1> DEFINE t2 == AddToSubMap(w, n)
<1>4. Holds(t2, own, two) /\ Last(t2.subs) = two /\ t2.size >= w.size /\ FreeIndex(w) \in Len(own)..(t2.size - 1)
  BY <1>2, AddToSubMapIs
<1>5. Len(two) = 2 /\ two[1].at = FreeIndex(p) /\ two[2].at = FreeIndex(w)
  <2>1. Len(two) = 1 + 1 /\ two[1 + 1] = en /\ \A i \in 1..1 : two[i] = one[i]
    <3> HIDE DEF en
    <3>1. Len(two) = Len(one) + 1 /\ two[Len(one) + 1] = en /\ \A i \in 1..Len(one) : two[i] = one[i]
      BY <1>3, AppendIs
    <3> QED
      BY <1>3, <3>1
  <2> HIDE DEF two
  <2> QED
    BY <1>3, <2>1
<1>6. w.size \in Nat /\ t2.size \in Nat /\ p.size \in Nat /\ Len(own) \in Nat
  BY <1>1, <1>2, <1>4 DEF Holds, Parted
<1> HIDE DEF two, t2
<1> DEFINE t == Parsed(map, n, isNew)
           new == NewIndices(map, isNew)
<1>7. CASE isNew
  <2>1. t = t2 /\ new = {FreeIndex(p), FreeIndex(w)}
    BY <1>7 DEF Parsed, NewIndices, p, w, t2
  <2> HIDE DEF t, new
  <2>2. \A i \in 1..2 : two[i].at \in new
    BY <1>5, <2>1
  <2>3. \A i \in new : i \in Len(own)..(t.size - 1)
    BY <1>2, <1>4, <1>6, <2>1
  <2> QED
    <3>1. t.size >= map.size
      BY <1>1, <1>2, <1>4, <1>6, <2>1
    <3>2. Last(t.subs) = two /\ Holds(t, own, two)
      BY <1>4, <2>1
    <3>3. Len(two) > 0 /\ \A i \in 1..Len(two) : two[i].at \in new
      BY <1>5, <2>2
    <3> HIDE DEF two
    <3>4. /\ Holds(t, own, Last(t.subs)) /\ Len(Last(t.subs)) > 0
          /\ \A i \in 1..Len(Last(t.subs)) : Last(t.subs)[i].at \in new
      BY <3>2, <3>3
    <3> QED
      BY <2>3, <3>1, <3>4 DEF t, new
<1>8. CASE ~isNew
  <2>1. t = w /\ new = {FreeIndex(p)}
    BY <1>8 DEF Parsed, NewIndices, p, w
  <2> HIDE DEF t, new
  <2>2. \A i \in 1..1 : one[i].at \in new
    BY <1>3, <2>1
  <2>3. \A i \in new : i \in Len(own)..(t.size - 1)
    BY <1>2, <1>6, <2>1
  <2> QED
    <3>1. t.size >= map.size
      BY <1>1, <1>2, <1>6, <2>1
    <3>2. Last(t.subs) = one /\ Holds(t, own, one)
      BY <1>2, <2>1
    <3>3. Len(one) > 0 /\ \A i \in 1..Len(one) : one[i].at \in new
      BY <1>3, <2>2
    <3>4. /\ Holds(t, own, Last(t.subs)) /\ Len(Last(t.subs)) > 0
          /\ \A i \in 1..Len(Last(t.subs)) : Last(t.subs)[i].at \in new
      BY <3>2, <3>3
    <3> QED
      BY <2>3, <3>1, <3>4 DEF t, new
<1> QED
  BY <1>7, <1>8

\* The maps at the start of a run
LEMMA FreshIs == Bare(NoMap, <<>>) /\ Maps("temp", 0, FreshMaps, <<>>)
<1>1. Bare(NoMap, <<>>)
  BY EmptyIs, NewMapIs DEF NoMap
<1>2. \A m \in Subs \cup {"temp"} : Bare(FreshMaps[m], OwnOf(m))
  <2> SUFFICES ASSUME NEW m \in Subs \cup {"temp"} PROVE Bare(FreshMaps[m], OwnOf(m))
    OBVIOUS
  <2>1. FreshMaps[m] = IF m = "temp" THEN NoMap ELSE NewMap(Locals[m])
    BY DEF FreshMaps
  <2>2. m # "temp" => Bare(NewMap(Locals[m]), Locals[m])
    BY OwnOfIs, NewMapIs DEF OwnOf
  <2> QED
    BY <1>1, <2>1, <2>2 DEF OwnOf
<1>3. FreshMaps = [m \in Subs \cup {"temp"} |-> FreshMaps[m]]
  BY DEF FreshMaps
<1> QED
  BY <1>1, <1>2, <1>3 DEF Maps

\* No graph is open.
LEMMA ClosedIs == ASSUME NEW c, c = <<>> \/ (\A k \in 1..Len(c) : c[k].kind = "call"), IsSeq(c)
                  PROVE  Graph(c, Closed, 0) /\ Home(c, Closed) = "temp" /\ LetNow(c, Closed) = 0
<1>1. Closed.state = "none" /\ Closed.depth = 0 /\ Closed.todo = <<>>
      /\ Closed = [state |-> Closed.state, depth |-> Closed.depth, todo |-> Closed.todo]
  BY DEF Closed
<1>2. Len(c) \in Nat /\ \A k \in 1..Len(c) : c[k].kind = "call"
  BY LenIs
<1>3. Len(<<>>) = 0 /\ IsSeq(<<>>)
  BY EmptyIs
<1> QED
  BY <1>1, <1>2, <1>3 DEF Graph, Home, LetNow
-----------------------------------------------------------------------------
(* The steps.                                                               *)

\* A call, and a return
LEMMA CallKeeps ==
  ASSUME Sharing, CurrentMap', UNCHANGED <<maps, graph, lets>>, NEW e, e.kind = "call", ctl' = Append(ctl, e)
  PROVE  Sharing' /\ LetNow(ctl, graph)' = LetNow(ctl, graph) /\ Home(ctl, graph)' = Home(ctl, graph)
<1> PICK d : d = ctl'
  OBVIOUS
<1>1. Stack(ctl) /\ Len(ctl) \in Nat /\ Len(lets) \in Nat
  BY SharingIs
<1>2. IsSeq(d) /\ Len(d) = Len(ctl) + 1 /\ (\A i \in 1..Len(ctl) : d[i] = ctl[i]) /\ d[Len(ctl) + 1] = e
  BY <1>1, AppendIs DEF Stack
<1>3. Graph(d, graph, Len(lets)) /\ Home(d, graph) = Home(ctl, graph) /\ LetNow(d, graph) = LetNow(ctl, graph)
  BY <1>1, <1>2, GraphCall DEF Sharing
<1> QED
  BY <1>3 DEF Sharing

\* sub_call_stack, after the last line
LEMMA ReturnKeeps ==
  ASSUME Sharing, CurrentMap', Return
  PROVE  Sharing' /\ LetNow(ctl, graph)' = LetNow(ctl, graph) /\ Home(ctl, graph)' = Home(ctl, graph)
<1> PICK d : d = ctl'
  OBVIOUS
<1>1. Stack(ctl) /\ Len(ctl) \in Nat /\ (Len(ctl) = 0 <=> ctl = <<>>) /\ Len(lets) \in Nat
  BY SharingIs
<1>2. ctl # <<>> /\ ctl' = Front(ctl) /\ UNCHANGED <<maps, graph, lets>> /\ ctl[Len(ctl)].kind = "call"
      /\ (graph.state = "none" \/ graph.depth < Len(ctl))
  BY DEF Return, Kind, Pop, Top
<1>3. IsSeq(d) /\ Len(d) = Len(ctl) - 1 /\ \A i \in 1..(Len(ctl) - 1) : d[i] = ctl[i]
  BY <1>1, <1>2, FrontIs DEF Stack
<1>4. graph.depth # Len(ctl)
  BY <1>1, <1>2 DEF Sharing, Graph
<1>5. Graph(d, graph, Len(lets)) /\ Home(d, graph) = Home(ctl, graph) /\ LetNow(d, graph) = LetNow(ctl, graph)
  BY <1>1, <1>2, <1>3, <1>4, GraphReturn DEF Sharing
<1> QED
  BY <1>2, <1>5 DEF Sharing

\* A let is put on the graph: ParseLet and DoLet
LEMMA LetKeeps ==
  ASSUME Sharing, CurrentMap', NEW e, ctl' = Append(ctl, e), graph.state \in {"open", "drawing"}, graph.depth = Len(ctl),
         e.kind = (IF graph.state = "open" THEN "parse" ELSE "let"),
         graph' = [state |-> graph.state, depth |-> graph.depth, todo |-> graph'.todo],
         IsSeq(graph'.todo), IsSeq(lets'), \A k \in 1..Len(graph'.todo) : graph'.todo[k] \in 1..Len(lets'),
         e.let \in 1..Len(lets'),
         Lets(Home(ctl, graph), lets'),
         NEW map, maps' = [maps EXCEPT ![Home(ctl, graph)] = map], Holds(map, OwnOf(Home(ctl, graph)), lets'[e.let].sub)
  PROVE  Sharing' /\ LetNow(ctl, graph)' = e.let /\ Home(ctl, graph)' = Home(ctl, graph) /\ LetNow(ctl, graph) = 0
<1>a. PICK d : d = ctl'
  OBVIOUS
<1>b. PICK hr : hr = graph'
  OBVIOUS
<1>c. PICK ls : ls = lets'
  OBVIOUS
<1>d. PICK ms : ms = maps'
  OBVIOUS
<1>1. Stack(ctl) /\ Len(ctl) \in Nat /\ Len(lets) \in Nat /\ Home(ctl, graph) \in Subs \cup {"temp"}
  BY SharingIs
<1>2. IsSeq(d) /\ Len(d) = Len(ctl) + 1 /\ (\A i \in 1..Len(ctl) : d[i] = ctl[i]) /\ d[Len(ctl) + 1] = e
  BY <1>1, <1>a, AppendIs DEF Stack
<1>3. Len(ls) \in Nat /\ IsSeq(ls)
  BY <1>c, LenIs
<1>4. Graph(d, hr, Len(ls)) /\ Home(d, hr) = Home(ctl, graph) /\ LetNow(d, hr) = e.let /\ LetNow(ctl, graph) = 0
  <2>1. Graph(ctl, graph, Len(lets))
    BY DEF Sharing
  <2>2. d[Len(d)] = e /\ hr = [state |-> graph.state, depth |-> graph.depth, todo |-> hr.todo] /\ IsSeq(hr.todo)
        /\ \A k \in 1..Len(hr.todo) : hr.todo[k] \in 1..Len(ls)
    BY <1>2, <1>b, <1>c
  <2>3. d[Len(d)].kind = (IF graph.state = "open" THEN "parse" ELSE "let") /\ d[Len(d)].let \in 1..Len(ls) /\ graph.state # "none"
    BY <2>2, <1>c
  <2>4. Stack(ctl) /\ Len(lets) \in Nat /\ graph.depth = Len(ctl) /\ graph.state \in {"open", "drawing"}
    BY <1>1
  <2>5. IsSeq(d) /\ Len(d) = Len(ctl) + 1 /\ \A i \in 1..Len(ctl) : d[i] = ctl[i]
    BY <1>2
  <2>6. Graph(d, hr, Len(ls)) /\ Home(d, hr) = Home(ctl, graph) /\ LetNow(d, hr) = d[Len(d)].let /\ LetNow(ctl, graph) = 0
    <3>1. LetOn(ctl, graph, Len(lets), d, hr, Len(ls))
      BY <2>1, <2>2, <2>3, <2>4, <2>5 DEF LetOn
    <3> QED
      BY <1>3, <2>4, <3>1, GraphLet
  <2> QED
    BY <2>2, <2>6
<1>5. Maps(Home(ctl, graph), e.let, ms, ls)
  <2>1. Maps(Home(ctl, graph), LetNow(ctl, graph), maps, lets)
    BY DEF Sharing
  <2>2. e.let > 0
    BY <1>3, <1>c
  <2>3. ms = [maps EXCEPT ![Home(ctl, graph)] = map] /\ Holds(map, OwnOf(Home(ctl, graph)), ls[e.let].sub)
    BY <1>c, <1>d
  <2> QED
    BY <1>1, <2>1, <2>2, <2>3, MapsOne
<1> QED
  BY <1>a, <1>b, <1>c, <1>d, <1>4, <1>5 DEF Sharing

\* and taken off it: EndParse and EndLet
LEMMA RemoveKeeps ==
  ASSUME Sharing, CurrentMap', Kind \in {"parse", "let"}, RemoveLocalSubMap, Pop, UNCHANGED <<graph, lets>>
  PROVE  Sharing' /\ Home(ctl, graph)' = Home(ctl, graph) /\ LetNow(ctl, graph)' = 0
<1> PICK d : d = ctl'
  OBVIOUS
<1> PICK ms : ms = maps'
  OBVIOUS
<1> DEFINE home == Home(ctl, graph)
<1>1. Stack(ctl) /\ Len(ctl) \in Nat /\ Len(lets) \in Nat /\ home \in Subs \cup {"temp"}
      /\ Graph(ctl, graph, Len(lets)) /\ localMap = MapOf(ctl, Len(ctl))
  BY SharingIs DEF Sharing
<1>2. ctl # <<>> /\ ctl' = Front(ctl) /\ ctl[Len(ctl)].kind # "call"
  BY DEF Kind, Pop, Top
<1>3. Len(ctl) = graph.depth + 1 /\ LetNow(ctl, graph) = ctl[Len(ctl)].let /\ ctl[Len(ctl)].let \in 1..Len(lets)
      /\ graph.depth \in Nat
  BY <1>1, <1>2, TopIs
<1>4. IsSeq(d) /\ Len(d) = Len(ctl) - 1 /\ \A i \in 1..(Len(ctl) - 1) : d[i] = ctl[i]
  BY <1>1, <1>2, FrontIs DEF Stack
<1>5. Graph(d, graph, Len(lets)) /\ Home(d, graph) = home /\ LetNow(d, graph) = 0
  <2>1. graph.depth # Len(ctl)
    BY <1>1, <1>3
  <2> QED
    BY <1>1, <1>2, <1>4, <2>1, GraphReturn
<1>6. localMap = home
  <2>1. (IF localMap = "none" THEN "temp" ELSE localMap) = home
    BY <1>1, <1>2, <1>3, HomeIs
  <2>2. localMap # "none"
    <3>1. Len(ctl) > 0
      BY <1>3
    <3>2. CallOf(ctl, Len(ctl)) > 0 => localMap \in Subs
      <4>1. PICK m : LastCall(ctl, Len(ctl), m)
        BY <1>1 DEF Stack
      <4>2. CallOf(ctl, Len(ctl)) = m /\ m \in 0..Len(ctl)
        BY <1>1, <4>1, CallOfLast
      <4>3. m > 0 => m \in 1..Len(ctl) /\ ctl[m].kind = "call"
        BY <1>1, <4>1, <4>2 DEF LastCall, Calls
      <4> QED
        BY <1>1, <4>2, <4>3 DEF MapOf, Stack
    <3> QED
      BY <1>1, <3>1, <3>2, NamesAssumption DEF MapOf
  <2> QED
    BY <2>1, <2>2
<1>7. PICK map : ms = [maps EXCEPT ![home] = map] /\ Bare(map, OwnOf(home))
  <2>1. CASE localMap = "temp"
    <3>1. ms = [maps EXCEPT ![home] = NoMap]
      BY <1>6, <2>1 DEF RemoveLocalSubMap
    <3> QED
      BY <1>6, <2>1, <3>1, FreshIs DEF OwnOf
  <2>2. CASE localMap # "temp"
    <3>1. ms = [maps EXCEPT ![home] = PopSubMap(maps[home])]
      BY <1>6, <2>2 DEF RemoveLocalSubMap
    <3>2. Holds(maps[home], OwnOf(home), lets[ctl[Len(ctl)].let].sub)
      <4>1. ctl[Len(ctl)].let > 0
        BY <1>1, <1>3
      <4> QED
        BY <1>1, <1>3, <4>1 DEF Sharing, Maps
    <3>3. Bare(PopSubMap(maps[home]), OwnOf(home))
      BY <3>2, PopSubMapIs
    <3> QED
      BY <3>1, <3>3
  <2> QED
    BY <2>1, <2>2
<1>8. Maps(home, 0, ms, lets)
  <2>1. Maps(home, LetNow(ctl, graph), maps, lets)
    BY DEF Sharing
  <2>2. ~ (0 > 0)
    OBVIOUS
  <2> HIDE DEF home
  <2> QED
    BY <1>1, <1>7, <2>1, <2>2, MapsOne
<1> QED
  BY <1>5, <1>8 DEF Sharing

\* The graph stands at the top: the map the let borrows from.
LEMMA AtHome ==
  ASSUME Sharing, graph.state # "none", graph.depth = Len(ctl)
  PROVE  /\ MapForLet = Home(ctl, graph) /\ LetNow(ctl, graph) = 0
         /\ Home(ctl, graph) \in Subs \cup {"temp"} /\ (localMap = "none" <=> graph.depth = 0)
         /\ Bare(maps[Home(ctl, graph)], OwnOf(Home(ctl, graph)))
<1>1. Stack(ctl) /\ Graph(ctl, graph, Len(lets)) /\ localMap = MapOf(ctl, Len(ctl)) /\ Len(ctl) \in Nat
  BY SharingIs DEF Sharing
<1>2. /\ (IF localMap = "none" THEN "temp" ELSE localMap) = Home(ctl, graph)
      /\ Home(ctl, graph) \in Subs \cup {"temp"} /\ (Home(ctl, graph) = "temp" <=> graph.depth = 0)
  BY <1>1, HomeIs
<1>3. LetNow(ctl, graph) = 0
  BY <1>1 DEF LetNow
<1>4. localMap = "none" <=> graph.depth = 0
  <2>1. localMap # "temp"
    <3> SUFFICES ASSUME localMap = "temp" PROVE FALSE
      OBVIOUS
    <3>1. Len(ctl) = 0
      BY <1>1, <1>2
    <3>2. LastCall(ctl, 0, 0)
      BY DEF LastCall, Calls
    <3>3. CallOf(ctl, 0) = 0
      BY <3>2, CallOfLast
    <3> QED
      BY <1>1, <3>1, <3>3 DEF MapOf
  <2> QED
    BY <1>2, <2>1, NamesAssumption
<1>5. Bare(maps[Home(ctl, graph)], OwnOf(Home(ctl, graph)))
  <2>1. Maps(Home(ctl, graph), 0, maps, lets)
    BY <1>3 DEF Sharing
  <2>2. ~ (0 > 0)
    OBVIOUS
  <2> QED
    BY <1>2, <2>1, <2>2 DEF Maps
<1> QED
  BY <1>2, <1>3, <1>4, <1>5 DEF MapForLet

\* A let is added to those of the graph.
LEMMA LetsAdd ==
  ASSUME NEW home, NEW ls, Lets(home, ls), NEW l, IsLet(l), Loose(Len(OwnOf(home)), l.sub)
  PROVE  /\ Lets(home, Append(ls, l)) /\ Len(ls) \in Nat /\ Len(Append(ls, l)) = Len(ls) + 1
         /\ Append(ls, l)[Len(ls) + 1] = l /\ \A i \in 1..Len(ls) : Append(ls, l)[i] = ls[i]
<1> DEFINE t == Append(ls, l)
<1>1. IsSeq(t) /\ Len(ls) \in Nat /\ Len(t) = Len(ls) + 1 /\ t[Len(ls) + 1] = l /\ \A i \in 1..Len(ls) : t[i] = ls[i]
  BY AppendIs DEF Lets
<1> HIDE DEF t
<1>2. \A i \in 1..Len(t) : i \in 1..Len(ls) \/ i = Len(ls) + 1
  BY <1>1
<1>3. Lets(home, t)
  BY <1>1, <1>2 DEF Lets
<1> QED
  BY <1>1, <1>3 DEF t

\* What ParseLet does to the maps and the lets.
IsNew(map, n) == VarGet(WithX(map), n) = -1 /\ n \notin Globals

\* ParseLet in these terms
LEMMA ParseLetDoes ==
  ASSUME NEW n \in Names, ParseLet(n)
  PROVE  \E isNew \in BOOLEAN :
           LET map == maps[MapForLet] IN
           /\ isNew = IsNew(map, n)
           /\ maps' = [maps EXCEPT ![MapForLet] = Parsed(map, n, isNew)]
           /\ \E l : IsLet(l) /\ l.sub = Last(Parsed(map, n, isNew).subs) /\ lets' = Append(lets, l)
<1> DEFINE map == maps[MapForLet]
           withX == WithX(map)
           isNew == VarGet(withX, n) = -1 /\ n \notin Globals
           l == lets'[Len(lets) + 1]
<1>1. maps' = [maps EXCEPT ![MapForLet] = Parsed(map, n, isNew)]
  BY DEF ParseLet, Parsed, WithX, Pushed
<1>2. \E h : /\ h = [sub |-> Last(Parsed(map, n, isNew).subs), x |-> h.x, name |-> h.name, ref |-> h.ref, value |-> h.value]
             /\ lets' = Append(lets, h)
  <2>1. \E x, ref, value : lets' = Append(lets, [sub |-> Last(Parsed(map, n, isNew).subs), x |-> x, name |-> n, ref |-> ref, value |-> value])
    <3>1. \A sub, x, ref, value : lets' = Append(lets, [sub |-> sub, x |-> x, name |-> n, ref |-> ref, value |-> value])
             /\ sub = Last(Parsed(map, n, isNew).subs)
          => \E xx, rr, vv : lets' = Append(lets, [sub |-> Last(Parsed(map, n, isNew).subs), x |-> xx, name |-> n, ref |-> rr, value |-> vv])
      BY Zenon
    <3> QED
      BY Zenon DEF ParseLet, Parsed, WithX, Pushed
  <2> DEFINE sub == Last(Parsed(map, n, isNew).subs)
  <2> HIDE DEF sub
  <2>2. PICK x, ref, value : lets' = Append(lets, [sub |-> sub, x |-> x, name |-> n, ref |-> ref, value |-> value])
    BY <2>1 DEF sub
  <2> DEFINE h == [sub |-> sub, x |-> x, name |-> n, ref |-> ref, value |-> value]
  <2>3. h = [sub |-> sub, x |-> h.x, name |-> h.name, ref |-> h.ref, value |-> h.value]
    OBVIOUS
  <2>4. lets' = Append(lets, h)
    BY <2>2
  <2> HIDE DEF h
  <2> QED
    BY <2>3, <2>4 DEF sub
<1>5. isNew = IsNew(map, n)
  BY DEF IsNew
<1> HIDE DEF map, withX, isNew
<1>3. isNew \in BOOLEAN
  BY DEF isNew
<1>4. \E h : IsLet(h) /\ h.sub = Last(Parsed(map, n, isNew).subs) /\ lets' = Append(lets, h)
  <2>1. PICK h : /\ h = [sub |-> Last(Parsed(map, n, isNew).subs), x |-> h.x, name |-> h.name, ref |-> h.ref, value |-> h.value]
                 /\ lets' = Append(lets, h)
    BY <1>2
  <2> DEFINE sub == Last(Parsed(map, n, isNew).subs)
  <2> HIDE DEF sub
  <2>2. h = [sub |-> sub, x |-> h.x, name |-> h.name, ref |-> h.ref, value |-> h.value]
    BY <2>1 DEF sub
  <2>3. h.sub = sub
    BY <2>2
  <2>4. IsLet(h)
    BY <2>2, <2>3 DEF IsLet
  <2> QED
    BY <2>1, <2>3, <2>4 DEF sub
<1> QED
  BY <1>1, <1>3, <1>4, <1>5 DEF map

\* parseLet: the submap of the let is in the map, and the copy of it in g_letCmds.
LEMMA ParseLetKeeps ==
  ASSUME Sharing, CurrentMap', NEW n \in Names, ParseLet(n)
  PROVE  /\ Sharing' /\ LetNow(ctl, graph)' = Len(lets) + 1 /\ Home(ctl, graph)' = Home(ctl, graph)
<1> DEFINE home == Home(ctl, graph)
           own == OwnOf(home)
<1>1. graph.state = "open" /\ graph.depth = Len(ctl) /\ graph' = graph
      /\ \E e : ctl' = Append(ctl, e) /\ e.kind = "parse" /\ e.let = Len(lets) + 1
  <2> DEFINE e == [kind |-> "parse", sub |-> "none", let |-> Len(lets) + 1, map |-> localMap]
  <2>1. graph.state = "open" /\ graph.depth = Len(ctl) /\ graph' = graph /\ ctl' = Append(ctl, e)
    BY DEF ParseLet
  <2>2. e.kind = "parse" /\ e.let = Len(lets) + 1
    OBVIOUS
  <2> HIDE DEF e
  <2> QED
    BY <2>1, <2>2
<1>2. MapForLet = home /\ LetNow(ctl, graph) = 0 /\ Bare(maps[home], own) /\ Graph(ctl, graph, Len(lets)) /\ Lets(home, lets)
  BY <1>1, AtHome DEF Sharing
<1>3. PICK isNew \in BOOLEAN :
        /\ maps' = [maps EXCEPT ![home] = Parsed(maps[home], n, isNew)]
        /\ \E l : IsLet(l) /\ l.sub = Last(Parsed(maps[home], n, isNew).subs) /\ lets' = Append(lets, l)
  BY <1>2, ParseLetDoes
<1>4. PICK l : IsLet(l) /\ l.sub = Last(Parsed(maps[home], n, isNew).subs) /\ lets' = Append(lets, l)
  BY <1>3
<1>5. PICK e : ctl' = Append(ctl, e) /\ e.kind = "parse" /\ e.let = Len(lets) + 1
  BY <1>1
<1> DEFINE map == Parsed(maps[home], n, isNew)
<1> HIDE DEF home, own
<1>6. Holds(map, own, l.sub) /\ Len(l.sub) > 0
  BY <1>2, <1>4, ParsedIs
<1> HIDE DEF map
<1>7. Loose(Len(own), l.sub)
  BY <1>6, LooseOf
<1>8. Lets(home, Append(lets, l)) /\ Len(lets) \in Nat /\ Len(Append(lets, l)) = Len(lets) + 1 /\ Append(lets, l)[Len(lets) + 1] = l
  BY <1>2, <1>4, <1>7, LetsAdd DEF own
<1>9. /\ IsSeq(lets') /\ e.let \in 1..Len(lets') /\ lets'[e.let] = l /\ Lets(home, lets') /\ Len(lets') = Len(lets) + 1
  BY <1>4, <1>5, <1>8 DEF Lets
<1>10. /\ graph' = [state |-> graph.state, depth |-> graph.depth, todo |-> graph'.todo]
       /\ IsSeq(graph'.todo) /\ \A k \in 1..Len(graph'.todo) : graph'.todo[k] \in 1..Len(lets')
  <2>1. \A k \in 1..Len(lets) : k \in 1..Len(lets')
    BY <1>8, <1>9
  <2> QED
    BY <1>1, <1>2, <2>1 DEF Graph
<1>11. maps' = [maps EXCEPT ![home] = map] /\ Holds(map, own, lets'[e.let].sub)
  BY <1>3, <1>6, <1>9 DEF map
<1>12. e.kind = IF graph.state = "open" THEN "parse" ELSE "let"
  BY <1>1, <1>5
<1> QED
  BY <1>1, <1>5, <1>9, <1>10, <1>11, <1>12, LetKeeps DEF home, own

\* The let that is drawn next, and the rest
LEMMA HeadTailIs ==
  ASSUME NEW s, IsSeq(s), s # <<>>
  PROVE  /\ IsSeq(Tail(s)) /\ Len(s) \in Nat /\ Len(s) > 0 /\ Head(s) = s[1]
         /\ Len(Tail(s)) = Len(s) - 1 /\ \A i \in 1..Len(Tail(s)) : Tail(s)[i] = s[i + 1]
<1>1. PICK S : s \in Seq(S)
  BY DEF IsSeq
<1>2. Len(s) \in Nat /\ Len(s) > 0
  BY LenIs
<1>3. Head(s) = s[1]
  BY <1>1, <1>2
<1> QED
  BY <1>1, <1>2, <1>3, HeadTailProperties DEF IsSeq

\* doLet: the submap goes back into the map.
LEMMA DoLetKeeps ==
  ASSUME Sharing, CurrentMap', DoLet
  PROVE  /\ Sharing' /\ LetNow(ctl, graph)' = Head(graph.todo) /\ Home(ctl, graph)' = Home(ctl, graph)
         /\ Head(graph.todo) \in 1..Len(lets)
<1> DEFINE home == Home(ctl, graph)
           own == OwnOf(home)
           k == Head(graph.todo)
<1>1. /\ graph.state = "drawing" /\ graph.depth = Len(ctl) /\ graph.todo # <<>> /\ lets' = lets
      /\ graph' = [graph EXCEPT !.todo = Tail(@)] /\ CanAdd(maps[MapForLet], lets[k].sub)
      /\ maps' = [maps EXCEPT ![MapForLet] = AddVars(@, lets[k].sub)]
      /\ \E e : ctl' = Append(ctl, e) /\ e.kind = "let" /\ e.let = k
  BY DEF DoLet, Drawing, NextLet
<1>2. MapForLet = home /\ LetNow(ctl, graph) = 0 /\ Bare(maps[home], own) /\ Graph(ctl, graph, Len(lets)) /\ Lets(home, lets)
  BY <1>1, AtHome DEF Sharing
<1>3. PICK e : ctl' = Append(ctl, e) /\ e.kind = "let" /\ e.let = k
  BY <1>1
<1>4. /\ IsSeq(Tail(graph.todo)) /\ Len(graph.todo) \in Nat /\ Len(graph.todo) > 0 /\ k = graph.todo[1]
      /\ Len(Tail(graph.todo)) = Len(graph.todo) - 1 /\ \A i \in 1..Len(Tail(graph.todo)) : Tail(graph.todo)[i] = graph.todo[i + 1]
  BY <1>1, <1>2, HeadTailIs DEF Graph
<1>5. k \in 1..Len(lets) /\ \A i \in 1..Len(Tail(graph.todo)) : Tail(graph.todo)[i] \in 1..Len(lets)
  <2>1. \A i \in 1..Len(graph.todo) : graph.todo[i] \in 1..Len(lets)
    BY <1>2 DEF Graph
  <2>2. 1 \in 1..Len(graph.todo) /\ \A i \in 1..Len(Tail(graph.todo)) : i + 1 \in 1..Len(graph.todo)
    BY <1>4
  <2> QED
    BY <1>4, <2>1, <2>2
<1> DEFINE map == AddVars(maps[home], lets[k].sub)
<1> HIDE DEF home, own, k
<1>6. Holds(map, own, lets[k].sub)
  <2>1. Loose(Len(own), lets[k].sub)
    BY <1>2, <1>5 DEF Lets, own
  <2> QED
    BY <1>1, <1>2, <2>1, AddVarsIs
<1>7. maps' = [maps EXCEPT ![home] = map]
  BY <1>1, <1>2
<1> HIDE DEF map
<1>8. /\ graph' = [state |-> graph.state, depth |-> graph.depth, todo |-> graph'.todo] /\ graph'.todo = Tail(graph.todo)
  BY <1>1, <1>2 DEF Graph
<1>9. IsSeq(lets') /\ e.let \in 1..Len(lets') /\ Lets(home, lets') /\ Holds(map, own, lets'[e.let].sub)
      /\ IsSeq(graph'.todo) /\ \A i \in 1..Len(graph'.todo) : graph'.todo[i] \in 1..Len(lets')
  BY <1>1, <1>2, <1>3, <1>4, <1>5, <1>6, <1>8 DEF Lets
<1>10. e.kind = (IF graph.state = "open" THEN "parse" ELSE "let") /\ graph.state \in {"open", "drawing"}
  BY <1>1, <1>3
<1>11. graph' = [state |-> graph.state, depth |-> graph.depth, todo |-> graph'.todo]
  BY <1>8
<1>12. Sharing' /\ LetNow(ctl, graph)' = e.let /\ Home(ctl, graph)' = Home(ctl, graph)
  <2>1. /\ graph.state \in {"open", "drawing"} /\ graph.depth = Len(ctl) /\ ctl' = Append(ctl, e)
        /\ e.kind = IF graph.state = "open" THEN "parse" ELSE "let"
    BY <1>1, <1>3, <1>10
  <2> QED
    BY <1>7, <1>9, <1>11, <2>1, LetKeeps DEF home, own
<1> QED
  BY <1>3, <1>5, <1>12 DEF k

\* In a let: its submap is the one in the map.
LEMMA InLetIs ==
  ASSUME Sharing, Kind \in {"parse", "let"}
  PROVE  /\ localMap = Home(ctl, graph) /\ localMap \in Subs \cup {"temp"} /\ Len(ctl) = graph.depth + 1
         /\ LetNow(ctl, graph) = Top.let /\ Top.let \in 1..Len(lets) /\ graph.depth \in Nat
         /\ Holds(maps[localMap], OwnOf(localMap), lets[Top.let].sub) /\ Last(maps[localMap].subs) = lets[Top.let].sub
<1>1. Stack(ctl) /\ Len(ctl) \in Nat /\ Len(lets) \in Nat /\ Home(ctl, graph) \in Subs \cup {"temp"}
      /\ Graph(ctl, graph, Len(lets)) /\ localMap = MapOf(ctl, Len(ctl))
  BY SharingIs DEF Sharing
<1>2. ctl # <<>> /\ ctl[Len(ctl)].kind # "call" /\ Top = ctl[Len(ctl)]
  BY DEF Kind, Top
<1>3. Len(ctl) = graph.depth + 1 /\ LetNow(ctl, graph) = ctl[Len(ctl)].let /\ ctl[Len(ctl)].let \in 1..Len(lets)
      /\ graph.depth \in Nat
  BY <1>1, <1>2, TopIs
<1>4. localMap = Home(ctl, graph)
  <2>1. (IF localMap = "none" THEN "temp" ELSE localMap) = Home(ctl, graph)
    BY <1>1, <1>2, <1>3, HomeIs
  <2>2. localMap # "none"
    <3>1. Len(ctl) > 0
      BY <1>3
    <3>2. CallOf(ctl, Len(ctl)) > 0 => localMap \in Subs
      <4>1. PICK m : LastCall(ctl, Len(ctl), m)
        BY <1>1 DEF Stack
      <4>2. CallOf(ctl, Len(ctl)) = m /\ m \in 0..Len(ctl)
        BY <1>1, <4>1, CallOfLast
      <4>3. m > 0 => m \in 1..Len(ctl) /\ ctl[m].kind = "call"
        BY <1>1, <4>1, <4>2 DEF LastCall, Calls
      <4> QED
        BY <1>1, <4>2, <4>3 DEF MapOf, Stack
    <3> QED
      BY <1>1, <3>1, <3>2, NamesAssumption DEF MapOf
  <2> QED
    BY <2>1, <2>2
<1>5. Holds(maps[localMap], OwnOf(localMap), lets[Top.let].sub)
  <2>1. Top.let > 0
    BY <1>1, <1>2, <1>3
  <2> QED
    BY <1>1, <1>2, <1>3, <1>4, <2>1 DEF Sharing, Maps
<1>6. Last(maps[localMap].subs) = lets[Top.let].sub
  <2> DEFINE sub == lets[Top.let].sub
  <2>1. maps[localMap].subs = <<sub>>
    BY <1>5 DEF Holds
  <2> HIDE DEF sub
  <2>2. Len(<<sub>>) = 1 /\ <<sub>>[1] = sub
    OBVIOUS
  <2> QED
    BY <2>1, <2>2 DEF Last, sub
<1> QED
  BY <1>1, <1>2, <1>3, <1>4, <1>5, <1>6

\* The variable of d[i], in its map and in the copy that the let keeps.
Detected(map, d) == IF d \notin NamesIn(Last(map.subs)) THEN AddToSubMap(map, d) ELSE map

\* An entry of the submap is an old one, or that of d.
LEMMA DetectedIs ==
  ASSUME NEW map, NEW own, NEW sub, Holds(map, own, sub), Len(sub) > 0, NEW d
  PROVE  LET t == Detected(map, d)
             after == Last(t.subs)
         IN /\ Holds(t, own, after) /\ Len(after) > 0 /\ Loose(Len(own), after) /\ IsSeq(after)
            /\ \E k \in 1..Len(after) : after[k].name = d
            /\ \A i \in 1..Len(after) : (i \in 1..Len(sub) /\ after[i] = sub[i]) \/ after[i].at = IndexIn(after, d)
<1> DEFINE t == Detected(map, d)
           after == Last(t.subs)
           e == [name |-> d, at |-> FreeIndex(map)]
           more == Append(sub, e)
<1>1. Last(map.subs) = sub /\ IsSeq(sub) /\ Len(sub) \in Nat
  <2>1. map.subs = <<sub>> /\ IsSeq(sub)
    BY DEF Holds, Parted
  <2>2. Len(<<sub>>) = 1 /\ <<sub>>[1] = sub
    OBVIOUS
  <2> QED
    BY <2>1, <2>2, LenIs DEF Last
<1>2. NamesIn(sub) = {sub[k].name : k \in 1..Len(sub)}
  BY <1>1, LenIs DEF NamesIn
<1>3. CASE d \notin NamesIn(sub)
  <2>1. t = AddToSubMap(map, d)
    BY <1>1, <1>3 DEF Detected
  <2>2. Holds(t, own, more) /\ after = more
    BY <2>1, AddToSubMapIs
  <2>3. Len(more) = Len(sub) + 1 /\ more[Len(sub) + 1] = e /\ (\A i \in 1..Len(sub) : more[i] = sub[i]) /\ IsSeq(more)
    <3> HIDE DEF e
    <3> QED
      BY <1>1, AppendIs
  <2>4. e.name = d
    OBVIOUS
  <2> HIDE DEF more, after, t, e
  <2>5. Len(more) > 0 /\ Len(sub) + 1 \in 1..Len(more) /\ \A i \in 1..Len(more) : i \in 1..Len(sub) \/ i = Len(sub) + 1
    BY <1>1, <2>3
  <2>6. Loose(Len(own), more)
    BY <2>2, <2>5, LooseOf
  <2>8. more[Len(sub) + 1].at = IndexIn(more, d)
    <3>1. DOMAIN more = 1..Len(more)
      BY <2>3, LenIs
    <3>2. \A k \in DOMAIN more : more[k].name = d <=> k = Len(sub) + 1
      BY <1>2, <1>3, <2>3, <2>4, <2>5, <3>1
    <3>3. (CHOOSE k \in DOMAIN more : more[k].name = d) = Len(sub) + 1
      BY <2>5, <3>1, <3>2
    <3> QED
      BY <3>3 DEF IndexIn
  <2>7. /\ Holds(t, own, after) /\ Len(after) > 0 /\ Loose(Len(own), after) /\ IsSeq(after)
        /\ \E k \in 1..Len(after) : after[k].name = d
        /\ \A i \in 1..Len(after) : (i \in 1..Len(sub) /\ after[i] = sub[i]) \/ after[i].at = IndexIn(after, d)
    BY <2>2, <2>3, <2>4, <2>5, <2>6, <2>8
  <2> QED
    BY <2>7 DEF t, after
<1>4. CASE d \in NamesIn(sub)
  <2>1. t = map /\ after = sub
    BY <1>1, <1>4 DEF Detected
  <2> HIDE DEF after, t
  <2>2. Loose(Len(own), sub)
    BY LooseOf
  <2>3. /\ Holds(t, own, after) /\ Len(after) > 0 /\ Loose(Len(own), after) /\ IsSeq(after)
        /\ \E k \in 1..Len(after) : after[k].name = d
        /\ \A i \in 1..Len(after) : (i \in 1..Len(sub) /\ after[i] = sub[i]) \/ after[i].at = IndexIn(after, d)
    BY <1>1, <1>2, <1>4, <2>1, <2>2
  <2> QED
    BY <2>3 DEF t, after
<1> QED
  BY <1>3, <1>4

\* findAdd: map and let keep the same submap.
LEMMA DetectKeeps ==
  ASSUME Sharing, CurrentMap', NEW d \in Data, Detect(d)
  PROVE  /\ Sharing' /\ LetNow(ctl, graph)' = LetNow(ctl, graph) /\ Home(ctl, graph)' = Home(ctl, graph)
         /\ Len(lets') = Len(lets) /\ \A n \in 1..Len(lets) : n # Top.let => lets'[n] = lets[n]
         /\ lets'[Top.let].sub = Last(Detected(maps[localMap], d).subs)
<1> DEFINE map == maps[localMap]
           own == OwnOf(localMap)
           k == Top.let
           sub == lets[k].sub
           t == Detected(map, d)
           after == Last(t.subs)
<1>0. UNCHANGED <<ctl, graph, localMap>> /\ Kind = "let"
  BY DEF Detect, InLet
<1>1. /\ maps' = [maps EXCEPT ![localMap] = t]
      /\ lets' = [lets EXCEPT ![k].sub = after]
  BY DEF Detect, Detected
<1>2. /\ localMap = Home(ctl, graph) /\ localMap \in Subs \cup {"temp"} /\ LetNow(ctl, graph) = k /\ k \in 1..Len(lets)
      /\ Holds(map, own, sub) /\ Lets(localMap, lets) /\ Graph(ctl, graph, Len(lets)) /\ Len(lets) \in Nat
  BY <1>0, InLetIs, SharingIs DEF Sharing
<1> HIDE DEF map, own, k
<1>3. Len(sub) > 0 /\ IsLet(lets[k]) /\ IsSeq(lets) /\ k \in Nat /\ k > 0
  BY <1>2 DEF Lets, Loose
<1>4. Holds(t, own, after) /\ Len(after) > 0 /\ Loose(Len(own), after)
  <2> HIDE DEF sub
  <2> QED
    BY <1>2, <1>3, DetectedIs DEF sub
<1> HIDE DEF t, after, sub
<1> DEFINE l == [sub |-> after, x |-> lets[k].x, name |-> lets[k].name, ref |-> lets[k].ref, value |-> lets[k].value]
<1>5. lets' = [lets EXCEPT ![k] = l]
  <2>1. [lets[k] EXCEPT !.sub = after] = l
    BY <1>3 DEF IsLet
  <2> HIDE DEF l
  <2> QED
    BY <1>1, <2>1
<1>6. l.sub = after /\ IsLet(l)
  BY DEF IsLet
<1> HIDE DEF l
<1>7. /\ IsSeq(lets') /\ Len(lets') = Len(lets) /\ lets'[k] = l
      /\ \A n \in 1..Len(lets) : n # k => lets'[n] = lets[n]
  <2>1. PICK S : lets \in Seq(S)
    BY <1>3 DEF IsSeq
  <2>2. lets \in Seq(S \cup {l})
    BY <2>1, SeqMonotonic
  <2>3. /\ [lets EXCEPT ![k] = l] \in Seq(S \cup {l}) /\ Len([lets EXCEPT ![k] = l]) = Len(lets)
        /\ \A j \in 1..Len(lets) : [lets EXCEPT ![k] = l][j] = IF j = k THEN l ELSE lets[j]
    BY <1>2, <2>2, ExceptSeq
  <2> QED
    BY <1>2, <1>5, <2>3 DEF IsSeq
<1>8. Lets(localMap, lets')
  BY <1>2, <1>4, <1>6, <1>7 DEF Lets, own
<1>9. Maps(localMap, k, maps', lets')
  <2>1. Maps(localMap, LetNow(ctl, graph), maps, lets)
    BY <1>2 DEF Sharing
  <2>2. PICK ms : ms = maps'
    OBVIOUS
  <2>3. PICK ls : ls = lets'
    OBVIOUS
  <2>4. ms = [maps EXCEPT ![localMap] = t] /\ Holds(t, OwnOf(localMap), ls[k].sub)
    BY <1>1, <1>4, <1>6, <1>7, <2>2, <2>3 DEF own
  <2>5. Maps(localMap, k, ms, ls)
    BY <1>2, <1>3, <2>1, <2>4, MapsOne
  <2> QED
    BY <2>2, <2>3, <2>5
<1>10. Sharing'
  BY <1>0, <1>2, <1>7, <1>8, <1>9 DEF Sharing
<1> QED
  BY <1>0, <1>6, <1>7, <1>10 DEF k, after, t, map

\* The graph itself
LEMMA GraphKeeps ==
  ASSUME Sharing, CurrentMap', BeginGraph \/ (\E twice \in BOOLEAN : EndGraph(twice)) \/ GraphDone \/ Run
  PROVE  /\ Sharing' /\ LetNow(ctl, graph)' = 0 /\ (lets' = <<>> \/ (lets' = lets /\ Home(ctl, graph)' = Home(ctl, graph)))
         /\ (~ Run => LetNow(ctl, graph) = 0)
<1> PICK c : c = ctl'
  OBVIOUS
<1> PICK hr : hr = graph'
  OBVIOUS
<1>1. Stack(ctl) /\ IsSeq(ctl) /\ Len(ctl) \in Nat /\ Len(lets) \in Nat /\ Graph(ctl, graph, Len(lets)) /\ IsSeq(lets)
      /\ Lets(Home(ctl, graph), lets) /\ Maps(Home(ctl, graph), LetNow(ctl, graph), maps, lets)
  BY SharingIs DEF Sharing, Lets, Stack
<1>2. Len(<<>>) = 0 /\ IsSeq(<<>>)
  BY EmptyIs
<1>3. \A home : Lets(home, <<>>)
  BY <1>2 DEF Lets
<1>4. \A home, ls, h2, l2 : Maps(home, 0, maps, ls) => Maps(h2, 0, maps, l2)
  <2>1. ~ (0 > 0)
    OBVIOUS
  <2> QED
    BY <2>1 DEF Maps
<1>5. CASE BeginGraph
  <2>1. /\ AtStatement /\ graph.state = "none" /\ UNCHANGED <<ctl, lets, maps>>
        /\ hr = [state |-> "open", depth |-> Len(ctl), todo |-> <<>>]
    BY <1>5 DEF BeginGraph
  <2>2. Len(lets) = 0 /\ lets = <<>> /\ \A k \in 1..Len(ctl) : ctl[k].kind = "call"
    BY <1>1, <2>1, LenIs DEF Graph
  <2>3. LetNow(ctl, graph) = 0
    BY <2>1 DEF LetNow
  <2>4. LetNow(ctl, hr) = 0 /\ Graph(ctl, hr, 0)
    <3>1. hr.state = "open" /\ hr.depth = Len(ctl) /\ hr.todo = <<>> /\ hr = [state |-> hr.state, depth |-> hr.depth, todo |-> hr.todo]
      BY <2>1
    <3>2. ~ hr.depth < Len(ctl) /\ hr.depth \in 0..Len(ctl) /\ (hr.depth > 0 => hr.depth \in 1..Len(ctl))
      BY <1>1, <3>1
    <3> QED
      BY <1>2, <2>2, <3>1, <3>2 DEF LetNow, Graph
  <2>5. Maps(Home(ctl, hr), 0, maps, lets) /\ Lets(Home(ctl, hr), lets)
    BY <1>1, <1>3, <1>4, <2>2, <2>3
  <2> QED
    BY <2>1, <2>2, <2>3, <2>4, <2>5 DEF Sharing
<1>6. ASSUME NEW twice \in BOOLEAN, EndGraph(twice) PROVE Sharing' /\ LetNow(ctl, graph)' = 0 /\ lets' = lets /\ Home(ctl, graph)' = Home(ctl, graph) /\ LetNow(ctl, graph) = 0
  <2> DEFINE all == [k \in DOMAIN lets |-> k]
             todo == IF twice THEN all \o all ELSE all
             n == Len(lets)
  <2>1. /\ UNCHANGED <<ctl, lets, maps>> /\ graph.state = "open" /\ graph.depth = Len(ctl)
        /\ hr = [graph EXCEPT !.state = "drawing", !.todo = todo]
    BY <1>6 DEF EndGraph
  <2>2. IsSeq(todo) /\ \A k \in 1..Len(todo) : todo[k] \in 1..n
    <3>1. DOMAIN lets = 1..n /\ n \in Nat
      BY <1>1, LenIs
    <3>2. all \in [1..n -> 1..n]
      BY <3>1
    <3>3. all \in Seq(1..n) /\ Len(all) = n
      BY <3>1, <3>2
    <3> HIDE DEF all
    <3>4. all \o all \in Seq(1..n)
      BY <3>3, ConcatProperties
    <3>5. todo \in Seq(1..n)
      BY <3>3, <3>4
    <3> HIDE DEF todo, n
    <3> QED
      BY <3>5, LenProperties, ElementOfSeq DEF IsSeq
  <2> HIDE DEF todo
  <2>3. hr.state = "drawing" /\ hr.depth = graph.depth /\ hr.todo = todo /\ hr = [state |-> hr.state, depth |-> hr.depth, todo |-> hr.todo]
    BY <1>1, <2>1 DEF Graph
  <2>4. \A k \in 1..Len(ctl) : ctl[k].kind = "call"
    <3>1. \A k \in 1..Len(ctl) : k # graph.depth + 1
      BY <1>1, <2>1
    <3> QED
      BY <1>1, <3>1 DEF Graph
  <2>5. Graph(ctl, hr, n)
    BY <1>1, <2>1, <2>2, <2>3, <2>4 DEF Graph
  <2>6. LetNow(ctl, graph) = 0 /\ LetNow(ctl, hr) = 0 /\ Home(ctl, hr) = Home(ctl, graph)
    BY <1>1, <2>1, <2>3 DEF LetNow, Home
  <2> QED
    BY <1>1, <2>1, <2>5, <2>6 DEF Sharing
<1>7. CASE GraphDone
  <2>1. graph.state = "drawing" /\ graph.depth = Len(ctl) /\ UNCHANGED <<ctl, maps>> /\ hr = Closed /\ lets' = <<>>
    BY <1>7 DEF GraphDone, Drawing
  <2>2. \A k \in 1..Len(ctl) : ctl[k].kind = "call"
    <3>1. \A k \in 1..Len(ctl) : k # graph.depth + 1
      BY <1>1, <2>1
    <3> QED
      BY <1>1, <3>1 DEF Graph
  <2>3. Graph(ctl, Closed, 0) /\ LetNow(ctl, Closed) = 0 /\ Home(ctl, Closed) = "temp"
    BY <1>1, <2>2, ClosedIs
  <2>4. LetNow(ctl, graph) = 0
    BY <1>1, <2>1 DEF LetNow
  <2>5. Maps("temp", 0, maps, <<>>)
    BY <1>1, <1>4, <2>4
  <2> QED
    BY <1>2, <1>3, <2>1, <2>3, <2>4, <2>5 DEF Sharing
<1>8. CASE Run
  <2>1. ctl' = <<>> /\ maps' = FreshMaps /\ hr = Closed /\ lets' = <<>>
    BY <1>8 DEF Run
  <2>2. Graph(<<>>, Closed, 0) /\ LetNow(<<>>, Closed) = 0 /\ Home(<<>>, Closed) = "temp"
    BY <1>2, ClosedIs
  <2> QED
    BY <1>2, <1>3, <1>8, <2>1, <2>2, FreshIs DEF Sharing
<1> QED
  BY <1>5, <1>6, <1>7, <1>8

\* The invariant holds in every step.
LEMMA SharingStep == ASSUME Sharing, [Next]_vars PROVE Sharing'
<1>0. CurrentMap'
  BY CurrentMapStep DEF Sharing
<1>1. ASSUME UNCHANGED <<ctl, graph, lets, maps>> PROVE Sharing'
  BY <1>0, <1>1 DEF Sharing
<1>2. ASSUME NEW s \in Subs, NEW v \in Val, Call(s, v) PROVE Sharing'
  <2> DEFINE e == [kind |-> "call", sub |-> s, let |-> 0, map |-> localMap]
  <2>1. ctl' = Append(ctl, e) /\ UNCHANGED <<maps, graph, lets>> /\ e.kind = "call"
    BY <1>2 DEF Call
  <2> HIDE DEF e
  <2> QED
    BY <1>0, <2>1, CallKeeps
<1>3. ASSUME NEW n \in Names, ParseLet(n) PROVE Sharing'
  BY <1>0, <1>3, ParseLetKeeps
<1>4. ASSUME NEW d \in Data, Detect(d) PROVE Sharing'
  BY <1>0, <1>4, DetectKeeps
<1>5. CASE Return
  BY <1>0, <1>5, ReturnKeeps
<1>6. CASE DoLet
  BY <1>0, <1>6, DoLetKeeps
<1>7. CASE EndParse
  BY <1>0, <1>7, RemoveKeeps DEF EndParse
<1>8. CASE EndLet
  BY <1>0, <1>8, RemoveKeeps DEF EndLet, InLet
<1>9. CASE BeginGraph \/ (\E twice \in BOOLEAN : EndGraph(twice)) \/ GraphDone \/ Run
  BY <1>0, <1>9, GraphKeeps
<1>10. CASE Retrieve \/ (\E n \in Names, v \in Val : Assign(n, v)) \/ (\E v, w \in Val : Select(v, w)) \/ UNCHANGED vars
  BY <1>1, <1>10 DEF Retrieve, Assign, Select, vars
<1> QED
  BY <1>2, <1>3, <1>4, <1>5, <1>6, <1>7, <1>8, <1>9, <1>10 DEF Next

\* The places of a partition
LEMMA PlacesPart ==
  ASSUME NEW map, NEW o, NEW sub, Parted(o, map.size, map.free, sub), o = Len(map.own),
         \A p \in Places(map) : \/ \E i \in 1..Len(map.free) : p = <<0, i>>
                                \/ \E i \in 1..Len(sub) : p = <<1, i>>,
         \A i \in 1..Len(map.free) : <<0, i>> \in Places(map),
         \A i \in 1..Len(sub) : <<1, i>> \in Places(map) /\ IndexAt(map, <<1, i>>) = sub[i].at
  PROVE  /\ {IndexAt(map, p) : p \in Places(map)} = Len(map.own) .. (map.size - 1)
         /\ \A p, q \in Places(map) : IndexAt(map, p) = IndexAt(map, q) => p = q
<1> DEFINE P == Places(map)
           at(p) == IndexAt(map, p)
<1>1. \A i \in 1..Len(map.free) : at(<<0, i>>) = map.free[i]
  BY DEF IndexAt
<1>2. /\ \A i \in 1..Len(map.free) : map.free[i] \in o..(map.size - 1)
      /\ \A i \in 1..Len(sub) : sub[i].at \in o..(map.size - 1)
      /\ \A i \in 1..Len(map.free), j \in 1..Len(sub) : map.free[i] # sub[j].at
      /\ \A n \in o..(map.size - 1) : \/ \E i \in 1..Len(map.free) : map.free[i] = n
                                      \/ \E i \in 1..Len(sub) : sub[i].at = n
      /\ \A i, j \in 1..Len(map.free) : map.free[i] = map.free[j] => i = j
      /\ \A i, j \in 1..Len(sub) : sub[i].at = sub[j].at => i = j
  BY DEF Parted, Once, OnceAt
<1>3. \A p \in P : \/ \E i \in 1..Len(map.free) : p = <<0, i>> /\ at(p) = map.free[i]
                   \/ \E i \in 1..Len(sub) : p = <<1, i>> /\ at(p) = sub[i].at
  BY <1>1
<1>4. \A p \in P : at(p) \in o..(map.size - 1)
  BY <1>2, <1>3
<1>5. \A n \in o..(map.size - 1) : \E p \in P : at(p) = n
  <2> SUFFICES ASSUME NEW n \in o..(map.size - 1) PROVE \E p \in P : at(p) = n
    OBVIOUS
  <2>1. CASE \E i \in 1..Len(map.free) : map.free[i] = n
    BY <1>1, <2>1
  <2>2. CASE \E i \in 1..Len(sub) : sub[i].at = n
    BY <2>2
  <2> QED
    BY <1>2, <2>1, <2>2
<1>6. \A p, q \in P : at(p) = at(q) => p = q
  BY <1>2, <1>3
<1> QED
  BY <1>4, <1>5, <1>6

\* A map without a let
LEMMA BarePlaces ==
  ASSUME NEW map, NEW own, Bare(map, own)
  PROVE  /\ {IndexAt(map, p) : p \in Places(map)} = Len(map.own) .. (map.size - 1)
         /\ \A p, q \in Places(map) : IndexAt(map, p) = IndexAt(map, q) => p = q
<1>1. map.subs = <<>> /\ map.own = own /\ Parted(Len(own), map.size, map.free, <<>>) /\ IsSeq(map.free)
  BY DEF Bare, Parted
<1>2. DOMAIN map.free = 1..Len(map.free) /\ Len(<<>>) = 0 /\ DOMAIN map.subs = {}
  BY <1>1, LenIs, EmptyIs
<1>3. Places(map) = {0} \X (1..Len(map.free))
  BY <1>2 DEF Places
<1>4. \A p \in Places(map) : \E i \in 1..Len(map.free) : p = <<0, i>>
  BY <1>3
<1>5. \A i \in 1..Len(map.free) : <<0, i>> \in Places(map)
  BY <1>3
<1>6. \A i \in 1..Len(<<>>) : FALSE
  BY <1>2
<1> QED
  BY <1>1, <1>4, <1>5, <1>6, PlacesPart

\* A map with one
LEMMA HeldPlaces ==
  ASSUME NEW map, NEW own, NEW sub, Holds(map, own, sub)
  PROVE  /\ {IndexAt(map, p) : p \in Places(map)} = Len(map.own) .. (map.size - 1)
         /\ \A p, q \in Places(map) : IndexAt(map, p) = IndexAt(map, q) => p = q
<1>1. map.subs = <<sub>> /\ map.own = own /\ Parted(Len(own), map.size, map.free, sub) /\ IsSeq(map.free) /\ IsSeq(sub)
  BY DEF Holds, Parted
<1>2. DOMAIN map.free = 1..Len(map.free) /\ DOMAIN sub = 1..Len(sub) /\ DOMAIN map.subs = {1} /\ map.subs[1] = sub
  <2>1. DOMAIN <<sub>> = {1} /\ <<sub>>[1] = sub
    OBVIOUS
  <2> QED
    BY <1>1, <2>1, LenIs
<1>3. Places(map) = ({0} \X (1..Len(map.free))) \cup ({1} \X (1..Len(sub)))
  <2>1. {{k} \X DOMAIN map.subs[k] : k \in DOMAIN map.subs} = {{1} \X (1..Len(sub))}
    BY <1>2
  <2> QED
    BY <1>2, <2>1 DEF Places
<1>4. \A p \in Places(map) : \/ \E i \in 1..Len(map.free) : p = <<0, i>>
                             \/ \E i \in 1..Len(sub) : p = <<1, i>>
  BY <1>3
<1>5. \A i \in 1..Len(map.free) : <<0, i>> \in Places(map)
  BY <1>3
<1>6. \A i \in 1..Len(sub) : <<1, i>> \in Places(map) /\ IndexAt(map, <<1, i>>) = sub[i].at
  BY <1>2, <1>3 DEF IndexAt
<1> QED
  BY <1>1, <1>4, <1>5, <1>6, PlacesPart

\* The invariant makes the indices a partition,
LEMMA SharingParts == ASSUME Sharing PROVE IndicesPartition
<1> SUFFICES ASSUME NEW m \in Subs \cup {"temp"}
             PROVE  LET map == maps[m]
                    IN /\ {IndexAt(map, p) : p \in Places(map)} = Len(map.own) .. (map.size - 1)
                       /\ \A p, q \in Places(map) : IndexAt(map, p) = IndexAt(map, q) => p = q
  BY DEF IndicesPartition
<1>1. Maps(Home(ctl, graph), LetNow(ctl, graph), maps, lets)
  BY DEF Sharing
<1>2. \/ Bare(maps[m], OwnOf(m))
      \/ Holds(maps[m], OwnOf(m), lets[LetNow(ctl, graph)].sub)
  BY <1>1 DEF Maps
<1> QED
  BY <1>2, BarePlaces, HeldPlaces

\* and frees those of a let that has to be drawn.
LEMMA SharingBack == ASSUME Sharing PROVE IndicesComeBack
<1> SUFFICES ASSUME Drawing, NEW k \in DOMAIN graph.todo
             PROVE  CanAdd(maps[MapForLet], lets[graph.todo[k]].sub)
  BY DEF IndicesComeBack
<1> DEFINE home == Home(ctl, graph)
           map == maps[home]
           o == Len(OwnOf(home))
           sub == lets[graph.todo[k]].sub
<1>1. MapForLet = home /\ Bare(map, OwnOf(home)) /\ Graph(ctl, graph, Len(lets)) /\ Lets(home, lets)
  BY AtHome DEF Drawing, Sharing
<1>2. graph.todo[k] \in 1..Len(lets)
  <2>1. DOMAIN graph.todo = 1..Len(graph.todo)
    BY <1>1, LenIs DEF Graph
  <2> QED
    BY <1>1, <2>1 DEF Graph
<1>3. Loose(o, sub)
  BY <1>1, <1>2 DEF Lets
<1>4. Parted(o, map.size, map.free, <<>>)
  BY <1>1 DEF Bare
<1> HIDE DEF map, o, sub
<1>5. IsSeq(sub) /\ IsSeq(map.free) /\ o \in Nat /\ map.size \in Nat
  BY <1>3, <1>4 DEF Loose, Parted
<1>6. \A n \in IndicesOf(sub) : n >= map.size \/ n \in ToSet(map.free)
  <2> SUFFICES ASSUME NEW n \in IndicesOf(sub), ~ n >= map.size PROVE n \in ToSet(map.free)
    OBVIOUS
  <2>1. PICK b \in Nat : \A i \in 1..Len(sub) : sub[i].at \in o..b
    BY <1>3 DEF Loose
  <2>2. n \in o..b
    BY <1>5, <2>1, IndicesIs
  <2>3. n \in o..(map.size - 1)
    BY <1>5, <2>2
  <2>4. \E i \in 1..Len(map.free) : map.free[i] = n
    <3>1. Len(<<>>) = 0
      BY EmptyIs
    <3> QED
      BY <1>4, <2>3, <3>1 DEF Parted
  <2> QED
    BY <1>5, <2>4, ToSetIs
<1> QED
  BY <1>1, <1>6 DEF CanAdd, map, sub

\* At the start no let borrows anything.
LEMMA SharingInit == ASSUME Init, CurrentMap PROVE Sharing
<1>1. ctl = <<>> /\ graph = Closed /\ lets = <<>> /\ maps = FreshMaps
  BY DEF Init
<1>2. Len(<<>>) = 0 /\ IsSeq(<<>>)
  BY EmptyIs
<1>3. Graph(<<>>, Closed, 0) /\ LetNow(<<>>, Closed) = 0 /\ Home(<<>>, Closed) = "temp"
  BY <1>2, ClosedIs
<1>4. Lets("temp", <<>>)
  BY <1>2 DEF Lets
<1> QED
  BY <1>1, <1>2, <1>3, <1>4, FreshIs DEF Sharing

-----------------------------------------------------------------------------
(***************************************************************************)
(* The frames are long enough.  A frame never becomes shorter, so it is     *)
(* enough to say which frame belongs to a call, and which one to the lets   *)
(* of the graph.                                                            *)
(***************************************************************************)
SeqSeq(fs) == IsSeq(fs) /\ \A j \in 1..Len(fs) : IsSeq(fs[j])

Grown(fs, gs) ==
  /\ SeqSeq(gs) /\ Len(fs) <= Len(gs)
  /\ \A j \in 1..Len(fs) : Len(fs[j]) <= Len(gs[j])

\* A function on 1..n is a sequence.
LEMMA ListIs == ASSUME NEW s, NEW n \in Nat, s = [i \in 1..n |-> s[i]] PROVE IsSeq(s) /\ Len(s) = n
<1> DEFINE S == {s[i] : i \in 1..n}
<1>1. \A i \in 1..n : s[i] \in S
  OBVIOUS
<1> HIDE DEF S
<1>2. s \in [1..n -> S]
  BY <1>1
<1>3. s \in Seq(S)
  BY <1>2
<1>4. Len(s) = n
  BY <1>2, <1>3
<1> QED
  BY <1>3, <1>4 DEF IsSeq

Replaced(s, k, v, t) == IsSeq(t) /\ Len(t) = Len(s) /\ \A j \in 1..Len(s) : t[j] = IF j = k THEN v ELSE s[j]

\* A sequence with one element replaced
LEMMA PutAt == ASSUME NEW s, IsSeq(s), NEW k \in 1..Len(s), NEW v PROVE Replaced(s, k, v, [s EXCEPT ![k] = v])
<1>1. PICK S : s \in Seq(S)
  BY DEF IsSeq
<1>2. s \in Seq(S \cup {v})
  BY <1>1, SeqMonotonic
<1> QED
  BY <1>2, ExceptSeq DEF IsSeq, Replaced

\* Growing is transitive
LEMMA GrownAll == ASSUME NEW a, NEW b, NEW c, SeqSeq(a), Grown(a, b), Grown(b, c) PROVE Grown(a, c)
<1>1. /\ Len(a) \in Nat /\ Len(b) \in Nat /\ Len(c) \in Nat /\ SeqSeq(c) /\ SeqSeq(b)
      /\ \A j \in 1..Len(a) : Len(a[j]) \in Nat
      /\ \A j \in 1..Len(b) : Len(b[j]) \in Nat
      /\ \A j \in 1..Len(c) : Len(c[j]) \in Nat
  BY LenIs DEF SeqSeq, Grown
<1>2. Len(a) <= Len(b) /\ Len(b) <= Len(c)
  BY DEF Grown
<1>3. \A j \in 1..Len(a) : j \in 1..Len(b) /\ j \in 1..Len(c)
  BY <1>1, <1>2
<1>4. \A j \in 1..Len(a) : Len(a[j]) <= Len(b[j]) /\ Len(b[j]) <= Len(c[j])
  BY <1>3 DEF Grown
<1>5. \A j \in 1..Len(a) : Len(a[j]) <= Len(c[j])
  BY <1>1, <1>3, <1>4
<1> QED
  BY <1>1, <1>2, <1>5 DEF Grown

\* and reflexive.
LEMMA GrownSelf == ASSUME NEW fs, SeqSeq(fs) PROVE Grown(fs, fs)
<1>1. Len(fs) \in Nat /\ \A j \in 1..Len(fs) : Len(fs[j]) \in Nat
  BY LenIs DEF SeqSeq
<1> QED
  BY <1>1 DEF Grown

\* One frame is replaced by one that is no shorter.
Reframed(fs, l, f, gs) == Grown(fs, gs) /\ gs[l] = f /\ Len(gs) = Len(fs)

\* Such a replacement lets the frames grow.
LEMMA FrameIs ==
  ASSUME NEW fs, SeqSeq(fs), NEW l \in 1..Len(fs), NEW f, IsSeq(f), Len(f) >= Len(fs[l]), NEW gs, gs = [fs EXCEPT ![l] = f]
  PROVE  Reframed(fs, l, f, gs)
<1>1. IsSeq(gs) /\ Len(gs) = Len(fs) /\ \A j \in 1..Len(fs) : gs[j] = IF j = l THEN f ELSE fs[j]
  <2>1. IsSeq(fs)
    BY DEF SeqSeq
  <2>2. Replaced(fs, l, f, gs)
    BY <2>1, PutAt
  <2> QED
    BY <2>2 DEF Replaced
<1>2. Len(fs) \in Nat /\ \A j \in 1..Len(fs) : Len(fs[j]) \in Nat
  BY LenIs DEF SeqSeq
<1>3. SeqSeq(gs)
  BY <1>1 DEF SeqSeq
<1>4. \A j \in 1..Len(fs) : Len(fs[j]) <= Len(gs[j])
  <2> SUFFICES ASSUME NEW j \in 1..Len(fs) PROVE Len(fs[j]) <= Len(gs[j])
    OBVIOUS
  <2>1. CASE j = l
    <3>1. Len(f) \in Nat
      BY LenIs
    <3> QED
      BY <1>1, <1>2, <2>1, <3>1
  <2>2. CASE j # l
    BY <1>1, <1>2, <2>2
  <2> QED
    BY <2>1, <2>2
<1>5. Grown(fs, gs) /\ gs[l] = f
  BY <1>1, <1>2, <1>3, <1>4 DEF Grown
<1> QED
  BY <1>1, <1>5 DEF Reframed

\* A value is put into a cell.
LEMMA PutIs ==
  ASSUME NEW fs, SeqSeq(fs), NEW l \in 1..Len(fs), NEW i, NEW v PROVE Grown(fs, Put(fs, l, i, v))
<1>1. CASE i + 1 \in DOMAIN fs[l]
  <2> DEFINE f == [fs[l] EXCEPT ![i + 1] = v]
  <2>1. IsSeq(fs[l]) /\ i + 1 \in 1..Len(fs[l])
    BY <1>1, LenIs DEF SeqSeq
  <2>2. IsSeq(f) /\ Len(f) = Len(fs[l]) /\ Len(fs[l]) \in Nat
    <3>1. Replaced(fs[l], i + 1, v, f)
      BY <2>1, PutAt
    <3> HIDE DEF f
    <3> QED
      BY <2>1, <3>1, LenIs DEF Replaced
  <2>3. Put(fs, l, i, v) = [fs EXCEPT ![l] = f]
    BY <1>1 DEF Put
  <2> HIDE DEF f
  <2>4. Len(f) >= Len(fs[l])
    BY <2>2
  <2> QED
    BY <2>2, <2>3, <2>4, FrameIs DEF Reframed
<1>2. CASE i + 1 \notin DOMAIN fs[l]
  <2>1. Put(fs, l, i, v) = fs
    BY <1>2 DEF Put
  <2> QED
    BY <2>1, GrownSelf
<1> QED
  BY <1>1, <1>2

\* GLEArrayImpl::ensure
LEMMA EnsureIs ==
  ASSUME NEW f, IsSeq(f), NEW n \in Nat
  PROVE  IsSeq(Ensure(f, n)) /\ Len(Ensure(f, n)) >= n /\ Len(Ensure(f, n)) >= Len(f) /\ Len(f) \in Nat /\ Len(Ensure(f, n)) \in Nat
<1>1. Len(f) \in Nat
  BY LenIs
<1>2. CASE Len(f) >= n
  BY <1>1, <1>2 DEF Ensure
<1>3. CASE ~ Len(f) >= n
  <2> DEFINE m == n - Len(f)
             z == [k \in 1..m |-> 0]
  <2>1. m \in Nat /\ Len(f) + m = n
    BY <1>1, <1>3
  <2>2. PICK S : f \in Seq(S)
    BY DEF IsSeq
  <2>3. f \in Seq(S \cup {0})
    BY <2>2, SeqMonotonic
  <2> HIDE DEF m
  <2>4. z \in [1..m -> S \cup {0}]
    OBVIOUS
  <2>5. z \in Seq(S \cup {0}) /\ Len(z) = m
    BY <2>1, <2>4
  <2> HIDE DEF z
  <2>6. f \o z \in Seq(S \cup {0}) /\ Len(f \o z) = Len(f) + Len(z)
    BY <2>3, <2>5, ConcatProperties
  <2>7. Ensure(f, n) = f \o z
    BY <1>3 DEF Ensure, z, m
  <2>8. IsSeq(f \o z)
    BY <2>6 DEF IsSeq
  <2> QED
    BY <1>1, <1>3, <2>1, <2>5, <2>6, <2>7, <2>8
<1> QED
  BY <1>2, <1>3

\* allocLocal: the next frame has the cells asked for, whether it is new or used again.
LEMMA AllocIs ==
  ASSUME SeqSeq(frames), level \in 0..Len(frames), NEW num \in Nat
  PROVE  /\ Grown(frames, AllocLocal(num)) /\ level + 1 \in 1..Len(AllocLocal(num))
         /\ Len(AllocLocal(num)[level + 1]) >= num
<1>0. IsSeq(frames) /\ Len(frames) \in Nat /\ level \in Nat /\ \A j \in 1..Len(frames) : Len(frames[j]) \in Nat
  BY LenIs DEF SeqSeq
<1>1. CASE level = Len(frames)
  <2> DEFINE z == [k \in 1..num |-> 0]
             gs == Append(frames, z)
  <2>1. IsSeq(z) /\ Len(z) = num
    <3>1. z = [k \in 1..num |-> z[k]]
      OBVIOUS
    <3> HIDE DEF z
    <3> QED
      BY <3>1, ListIs
  <2> HIDE DEF z
  <2>2. IsSeq(gs) /\ Len(gs) = Len(frames) + 1 /\ (\A j \in 1..Len(frames) : gs[j] = frames[j]) /\ gs[Len(frames) + 1] = z
    BY <1>0, AppendIs
  <2>3. AllocLocal(num) = gs
    BY <1>1 DEF AllocLocal, z
  <2> HIDE DEF gs
  <2>4. \A j \in 1..Len(gs) : j \in 1..Len(frames) \/ j = Len(frames) + 1
    BY <1>0, <2>2
  <2>5. SeqSeq(gs)
    BY <2>1, <2>2, <2>4 DEF SeqSeq
  <2>6. \A j \in 1..Len(frames) : Len(frames[j]) <= Len(gs[j])
    BY <1>0, <2>2
  <2>7. Grown(frames, gs)
    BY <1>0, <2>2, <2>5, <2>6 DEF Grown
  <2> QED
    BY <1>0, <1>1, <2>1, <2>2, <2>3, <2>7
<1>2. CASE level # Len(frames)
  <2> DEFINE f == Ensure(frames[level + 1], num + 1)
  <2>1. level + 1 \in 1..Len(frames) /\ num + 1 \in Nat
    BY <1>0, <1>2
  <2>2. IsSeq(f) /\ Len(f) >= num + 1 /\ Len(f) >= Len(frames[level + 1]) /\ Len(f) \in Nat
    BY <2>1, EnsureIs DEF SeqSeq
  <2>3. AllocLocal(num) = [frames EXCEPT ![level + 1] = f]
    BY <1>2 DEF AllocLocal
  <2> HIDE DEF f
  <2>4. Grown(frames, AllocLocal(num)) /\ AllocLocal(num)[level + 1] = f /\ Len(AllocLocal(num)) = Len(frames)
    <3>1. Len(f) >= Len(frames[level + 1])
      BY <2>2
    <3>2. Reframed(frames, level + 1, f, AllocLocal(num))
      BY <2>1, <2>2, <2>3, <3>1, FrameIs
    <3> QED
      BY <3>2 DEF Reframed
  <2>5. Len(f) >= num
    BY <2>2
  <2> QED
    BY <2>1, <2>4, <2>5
<1> QED
  BY <1>1, <1>2

\* The frame a let gets in the main program, or borrows in a call.
LEMMA ForLetIs ==
  ASSUME SeqSeq(frames), level \in 0..Len(frames), localMap # "none" => level > 0
  PROVE  Grown(frames, FramesForLet) /\ LevelForLet \in 1..Len(FramesForLet)
<1>1. Len(frames) \in Nat
  BY LenIs DEF SeqSeq
<1>2. CASE localMap = "none"
  BY <1>2, AllocIs DEF FramesForLet, LevelForLet
<1>3. CASE localMap # "none"
  BY <1>1, <1>3, GrownSelf DEF FramesForLet, LevelForLet
<1> QED
  BY <1>2, <1>3
-----------------------------------------------------------------------------
(* Which frame is whose.                                                    *)

\* A let on a call has no frame of its own.
Borrows(c, gr) == IF LetNow(c, gr) > 0 /\ gr.depth > 0 THEN 1 ELSE 0

FrameOf(c, gr, l, k) == (l - Len(c)) + k + (IF k <= gr.depth THEN Borrows(c, gr) ELSE 0)

LetFrame(c, gr, l) == IF gr.depth = 0 THEN (l - Len(c)) + 1 ELSE FrameOf(c, gr, l, gr.depth)

CallFrames(c, gr, l, fs) ==
  /\ SeqSeq(fs) /\ l \in 0..Len(fs) /\ (l - Len(c)) + Borrows(c, gr) >= 0
  /\ \A k \in 1..Len(c) : c[k].kind = "call" =>
       FrameOf(c, gr, l, k) \in 1..l /\ Len(Locals[c[k].sub]) <= Len(fs[FrameOf(c, gr, l, k)])

LetFrames(at, fs, ls) ==
  \A n \in 1..Len(ls) :
     at \in 1..Len(fs) /\ \A i \in 1..Len(ls[n].sub) : ls[n].sub[i].at < Len(fs[at])

Framed == CallFrames(ctl, graph, level, frames) /\ LetFrames(LetFrame(ctl, graph, level), frames, lets)

\* The calls keep their cells when frames grow,
LEMMA CallFramesGrow ==
  ASSUME NEW c, Stack(c), NEW gr, NEW l, NEW fs, CallFrames(c, gr, l, fs), NEW gs, Grown(fs, gs)
  PROVE  CallFrames(c, gr, l, gs)
<1>1. Len(fs) \in Nat /\ Len(gs) \in Nat /\ SeqSeq(gs) /\ Len(fs) <= Len(gs) /\ l \in 0..Len(fs)
      /\ (\A j \in 1..Len(fs) : Len(fs[j]) \in Nat) /\ (\A j \in 1..Len(gs) : Len(gs[j]) \in Nat)
  BY LenIs DEF Grown, CallFrames, SeqSeq
<1>2. ASSUME NEW k \in 1..Len(c), c[k].kind = "call"
      PROVE  FrameOf(c, gr, l, k) \in 1..l /\ Len(Locals[c[k].sub]) <= Len(gs[FrameOf(c, gr, l, k)])
  <2> DEFINE j == FrameOf(c, gr, l, k)
  <2>1. j \in 1..l /\ Len(Locals[c[k].sub]) <= Len(fs[j])
    BY <1>2 DEF CallFrames
  <2> HIDE DEF j
  <2>2. j \in 1..Len(fs) /\ j \in 1..Len(gs)
    BY <1>1, <2>1
  <2>3. Len(fs[j]) <= Len(gs[j]) /\ Len(fs[j]) \in Nat /\ Len(gs[j]) \in Nat
    BY <1>1, <2>2 DEF Grown
  <2>4. Len(Locals[c[k].sub]) \in Nat
    <3>1. c[k].sub \in Subs
      BY <1>2 DEF Stack
    <3> QED
      BY <3>1, NamesAssumption
  <2> QED
    BY <2>1, <2>3, <2>4 DEF j
<1>3. l \in 0..Len(gs)
  BY <1>1
<1> QED
  BY <1>1, <1>2, <1>3 DEF CallFrames

\* and so do the lets.
LEMMA LetFramesGrow ==
  ASSUME NEW at, NEW fs, SeqSeq(fs), NEW ls, NEW home, Lets(home, ls), home \in Subs \cup {"temp"},
         LetFrames(at, fs, ls), NEW gs, Grown(fs, gs)
  PROVE  LetFrames(at, gs, ls)
<1>1. Len(fs) \in Nat /\ Len(gs) \in Nat /\ SeqSeq(gs) /\ Len(fs) <= Len(gs)
      /\ (\A j \in 1..Len(fs) : Len(fs[j]) \in Nat) /\ (\A j \in 1..Len(gs) : Len(gs[j]) \in Nat)
  BY LenIs DEF Grown, SeqSeq
<1>2. SUFFICES ASSUME NEW n \in 1..Len(ls)
               PROVE  at \in 1..Len(gs) /\ \A i \in 1..Len(ls[n].sub) : ls[n].sub[i].at < Len(gs[at])
  BY DEF LetFrames
<1>3. at \in 1..Len(fs) /\ \A i \in 1..Len(ls[n].sub) : ls[n].sub[i].at < Len(fs[at])
  BY DEF LetFrames
<1>4. at \in 1..Len(gs) /\ Len(fs[at]) <= Len(gs[at]) /\ Len(fs[at]) \in Nat /\ Len(gs[at]) \in Nat
  BY <1>1, <1>3 DEF Grown
<1>5. \A i \in 1..Len(ls[n].sub) : ls[n].sub[i].at \in Nat
  <2>1. PICK b \in Nat : \A i \in 1..Len(ls[n].sub) : ls[n].sub[i].at \in Len(OwnOf(home))..b
    BY DEF Lets, Loose
  <2>2. Len(OwnOf(home)) \in Nat
    BY OwnOfIs
  <2> QED
    BY <2>1, <2>2
<1> QED
  BY <1>3, <1>4, <1>5

\* The let on the stack stands on the graph.
LEMMA LetNowIs ==
  ASSUME NEW c, NEW gr, NEW n \in Nat, Graph(c, gr, n), Len(c) \in Nat, LetNow(c, gr) > 0
  PROVE  gr.depth \in Nat /\ gr.depth < Len(c) /\ c[gr.depth + 1].kind # "call"
<1>1. gr.depth \in 0..Len(c)
  BY DEF Graph
<1>2. ~ (0 > 0)
  OBVIOUS
<1> QED
  BY <1>1, <1>2 DEF LetNow

\* A call takes the next frame; all others keep theirs.
LEMMA FramesCall ==
  ASSUME NEW c, Stack(c), NEW gr, NEW n \in Nat, Graph(c, gr, n), NEW d, IsSeq(d),
         Len(d) = Len(c) + 1, \A i \in 1..Len(c) : d[i] = c[i], d[Len(c) + 1].kind = "call",
         NEW l, NEW fs, CallFrames(c, gr, l, fs), NEW gs, Grown(fs, gs), l + 1 \in 1..Len(gs),
         Len(Locals[d[Len(c) + 1].sub]) <= Len(gs[l + 1])
  PROVE  CallFrames(d, gr, l + 1, gs) /\ LetFrame(d, gr, l + 1) = LetFrame(c, gr, l)
<1>1. Len(c) \in Nat /\ gr.depth \in 0..Len(c)
  BY LenIs DEF Stack, Graph
<1>2. LetNow(d, gr) = LetNow(c, gr)
  BY GraphCall
<1>3. Borrows(d, gr) = Borrows(c, gr) /\ Borrows(c, gr) \in 0..1
  BY <1>2 DEF Borrows
<1>4. CallFrames(c, gr, l, gs)
  BY CallFramesGrow
<1>5. l \in Nat /\ SeqSeq(gs) /\ Len(gs) \in Nat /\ (l - Len(c)) + Borrows(c, gr) >= 0
  BY <1>4, LenIs DEF CallFrames, SeqSeq
<1>6. \A k \in 1..Len(c) : FrameOf(d, gr, l + 1, k) = FrameOf(c, gr, l, k)
  <2>1. (l + 1) - Len(d) = l - Len(c)
    BY <1>1, <1>5
  <2> QED
    BY <1>3, <2>1 DEF FrameOf
<1>7. FrameOf(d, gr, l + 1, Len(c) + 1) = l + 1
  <2>1. (l + 1) - Len(d) + (Len(c) + 1) = l + 1 /\ ~ (Len(c) + 1 <= gr.depth)
    BY <1>1, <1>5
  <2>2. FrameOf(d, gr, l + 1, Len(c) + 1) = ((l + 1) - Len(d)) + (Len(c) + 1) + 0
    BY <2>1 DEF FrameOf
  <2> QED
    BY <1>1, <1>5, <2>1, <2>2
<1>8. ASSUME NEW k \in 1..Len(d), d[k].kind = "call"
      PROVE  FrameOf(d, gr, l + 1, k) \in 1..(l + 1) /\ Len(Locals[d[k].sub]) <= Len(gs[FrameOf(d, gr, l + 1, k)])
  <2>1. CASE k = Len(c) + 1
    BY <1>5, <1>7, <2>1
  <2>2. CASE k # Len(c) + 1
    <3>1. k \in 1..Len(c) /\ d[k] = c[k]
      BY <1>1, <2>2
    <3>2. FrameOf(c, gr, l, k) \in 1..l /\ Len(Locals[c[k].sub]) <= Len(gs[FrameOf(c, gr, l, k)])
      BY <1>4, <1>8, <3>1 DEF CallFrames
    <3>3. FrameOf(d, gr, l + 1, k) = FrameOf(c, gr, l, k)
      BY <1>6, <3>1
    <3>4. FrameOf(c, gr, l, k) \in 1..(l + 1)
      BY <1>5, <3>2
    <3> QED
      BY <3>1, <3>2, <3>3, <3>4
  <2> QED
    BY <2>1, <2>2
<1>9. l + 1 \in 0..Len(gs) /\ ((l + 1) - Len(d)) + Borrows(d, gr) >= 0
  BY <1>1, <1>3, <1>5
<1>10. CallFrames(d, gr, l + 1, gs)
  BY <1>5, <1>8, <1>9 DEF CallFrames
<1>11. LetFrame(d, gr, l + 1) = LetFrame(c, gr, l)
  <2>1. CASE gr.depth = 0
    BY <1>1, <1>5, <2>1 DEF LetFrame
  <2>2. CASE gr.depth # 0
    <3>1. gr.depth \in 1..Len(c)
      BY <1>1, <2>2
    <3> QED
      BY <1>6, <2>2, <3>1 DEF LetFrame
  <2> QED
    BY <2>1, <2>2
<1> QED
  BY <1>10, <1>11

\* A return gives back the frame of the call that is done.
LEMMA FramesReturn ==
  ASSUME NEW c, Stack(c), NEW gr, NEW n \in Nat, Graph(c, gr, n), NEW d, IsSeq(d),
         c # <<>>, c[Len(c)].kind = "call", gr.depth # Len(c),
         Len(d) = Len(c) - 1, \A i \in 1..(Len(c) - 1) : d[i] = c[i],
         NEW l, NEW fs, CallFrames(c, gr, l, fs)
  PROVE  CallFrames(d, gr, l - 1, fs) /\ LetFrame(d, gr, l - 1) = LetFrame(c, gr, l)
<1>1. Len(c) \in Nat /\ Len(c) > 0 /\ gr.depth \in 0..(Len(c) - 1) /\ Len(c) \in 1..Len(c)
  BY LenIs DEF Stack, Graph
<1>2. LetNow(d, gr) = LetNow(c, gr)
  BY GraphReturn
<1>3. Borrows(d, gr) = Borrows(c, gr) /\ Borrows(c, gr) \in 0..1
  BY <1>2 DEF Borrows
<1>4. Borrows(c, gr) = 1 => gr.depth < Len(c) - 1
  <2> SUFFICES ASSUME Borrows(c, gr) = 1 PROVE gr.depth < Len(c) - 1
    OBVIOUS
  <2>1. LetNow(c, gr) > 0
    BY DEF Borrows
  <2>2. c[gr.depth + 1].kind # "call" /\ gr.depth < Len(c) /\ gr.depth \in Nat
    BY <1>1, <2>1, LetNowIs
  <2>3. gr.depth + 1 # Len(c)
    BY <2>2
  <2> QED
    BY <1>1, <2>2, <2>3
<1>5. l \in 0..Len(fs) /\ SeqSeq(fs) /\ Len(fs) \in Nat /\ (l - Len(c)) + Borrows(c, gr) >= 0
  BY LenIs DEF CallFrames, SeqSeq
<1>6. l >= 1
  <2>1. FrameOf(c, gr, l, Len(c)) \in 1..l
    BY <1>1 DEF CallFrames
  <2> QED
    BY <1>5, <2>1
<1>7. \A k \in 1..(Len(c) - 1) : FrameOf(d, gr, l - 1, k) = FrameOf(c, gr, l, k)
  <2>1. (l - 1) - Len(d) = l - Len(c)
    BY <1>1, <1>5
  <2> QED
    BY <1>3, <2>1 DEF FrameOf
<1>8. \A k \in 1..(Len(c) - 1) : FrameOf(c, gr, l, k) <= l - 1
  <2> SUFFICES ASSUME NEW k \in 1..(Len(c) - 1) PROVE FrameOf(c, gr, l, k) <= l - 1
    OBVIOUS
  <2>1. CASE k <= gr.depth /\ Borrows(c, gr) = 1
    <3>1. FrameOf(c, gr, l, k) = (l - Len(c)) + k + 1
      BY <2>1 DEF FrameOf
    <3> QED
      BY <1>1, <1>4, <1>5, <2>1, <3>1
  <2>2. CASE ~ (k <= gr.depth /\ Borrows(c, gr) = 1)
    <3>1. FrameOf(c, gr, l, k) = (l - Len(c)) + k + 0
      BY <1>3, <2>2 DEF FrameOf
    <3> QED
      BY <1>1, <1>5, <3>1
  <2> QED
    BY <2>1, <2>2
<1>9. ASSUME NEW k \in 1..Len(d), d[k].kind = "call"
      PROVE  FrameOf(d, gr, l - 1, k) \in 1..(l - 1) /\ Len(Locals[d[k].sub]) <= Len(fs[FrameOf(d, gr, l - 1, k)])
  <2>1. k \in 1..(Len(c) - 1) /\ k \in 1..Len(c) /\ d[k] = c[k]
    BY <1>1
  <2>2. FrameOf(c, gr, l, k) \in 1..l /\ Len(Locals[c[k].sub]) <= Len(fs[FrameOf(c, gr, l, k)])
    BY <1>9, <2>1 DEF CallFrames
  <2>3. FrameOf(c, gr, l, k) \in 1..(l - 1)
    BY <1>5, <1>8, <2>1, <2>2
  <2> QED
    BY <1>7, <2>1, <2>2, <2>3
<1>10. l - 1 \in 0..Len(fs) /\ ((l - 1) - Len(d)) + Borrows(d, gr) >= 0
  BY <1>1, <1>3, <1>5, <1>6
<1>11. CallFrames(d, gr, l - 1, fs)
  BY <1>5, <1>9, <1>10 DEF CallFrames
<1>12. LetFrame(d, gr, l - 1) = LetFrame(c, gr, l)
  <2>1. CASE gr.depth = 0
    BY <1>1, <1>5, <2>1 DEF LetFrame
  <2>2. CASE gr.depth # 0
    <3>1. gr.depth \in 1..(Len(c) - 1)
      BY <1>1, <2>2
    <3> QED
      BY <1>7, <2>2, <3>1 DEF LetFrame
  <2> QED
    BY <2>1, <2>2
<1> QED
  BY <1>11, <1>12

\* A let comes and goes: small is the stack without it, big the one with it.
OnGraph(small, big, gr, hr) ==
  /\ IsSeq(small) /\ gr.depth = Len(small) /\ hr.depth = gr.depth
  /\ Len(big) = Len(small) + 1 /\ \A i \in 1..Len(small) : big[i] = small[i]
  /\ big[Len(big)].kind # "call" /\ LetNow(small, gr) = 0 /\ LetNow(big, hr) > 0

LetLevel(gr, l) == IF gr.depth = 0 THEN l + 1 ELSE l

\* A let in the main program has a frame; one in a call borrows that of the call.
LEMMA FrameOnGraph ==
  ASSUME NEW c, NEW d, NEW gr, NEW hr, OnGraph(c, d, gr, hr), NEW l \in Int
  PROVE  /\ \A k \in 1..Len(c) : FrameOf(d, hr, LetLevel(gr, l), k) = FrameOf(c, gr, l, k)
         /\ LetFrame(d, hr, LetLevel(gr, l)) = LetLevel(gr, l) /\ LetFrame(c, gr, l) = LetLevel(gr, l)
         /\ (LetLevel(gr, l) - Len(d)) + Borrows(d, hr) = (l - Len(c)) + Borrows(c, gr)
         /\ Borrows(c, gr) = 0 /\ Len(c) \in Nat
<1>1. /\ IsSeq(c) /\ gr.depth = Len(c) /\ hr.depth = gr.depth
      /\ Len(d) = Len(c) + 1 /\ \A i \in 1..Len(c) : d[i] = c[i]
      /\ d[Len(d)].kind # "call" /\ LetNow(c, gr) = 0 /\ LetNow(d, hr) > 0
  BY DEF OnGraph
<1>2. Len(c) \in Nat
  BY <1>1, LenIs
<1>3. Borrows(c, gr) = 0
  <2>1. ~ (0 > 0)
    OBVIOUS
  <2> QED
    BY <1>1, <2>1 DEF Borrows
<1>4. CASE gr.depth = 0
  <2>1. Borrows(d, hr) = 0 /\ LetLevel(gr, l) = l + 1
    BY <1>1, <1>4 DEF Borrows, LetLevel
  <2>2. LetFrame(d, hr, l + 1) = ((l + 1) - Len(d)) + 1 /\ LetFrame(c, gr, l) = (l - Len(c)) + 1
    BY <1>1, <1>4 DEF LetFrame
  <2>3. \A k \in 1..Len(c) : FALSE
    BY <1>1, <1>4
  <2> QED
    <3>1. Len(c) = 0 /\ Len(d) = 1
      BY <1>1, <1>4
    <3>2. LetFrame(d, hr, l + 1) = l + 1 /\ LetFrame(c, gr, l) = l + 1
      BY <2>2, <3>1
    <3>3. ((l + 1) - Len(d)) + 0 = (l - Len(c)) + 0
      BY <3>1
    <3> QED
      BY <1>2, <1>3, <2>1, <2>3, <3>2, <3>3
<1>5. CASE gr.depth # 0
  <2>1. Borrows(d, hr) = 1 /\ LetLevel(gr, l) = l
    BY <1>1, <1>2, <1>5 DEF Borrows, LetLevel
  <2>2. \A k \in 1..Len(c) : FrameOf(d, hr, l, k) = (l - Len(d)) + k + 1 /\ FrameOf(c, gr, l, k) = (l - Len(c)) + k + 0
    BY <1>1, <1>2, <1>3, <2>1 DEF FrameOf
  <2>3. \A k \in 1..Len(c) : FrameOf(d, hr, l, k) = FrameOf(c, gr, l, k)
    BY <1>1, <1>2, <2>2
  <2>4. gr.depth \in 1..Len(c)
    BY <1>1, <1>2, <1>5
  <2>5. LetFrame(d, hr, l) = FrameOf(d, hr, l, gr.depth) /\ LetFrame(c, gr, l) = FrameOf(c, gr, l, gr.depth)
    BY <1>1, <1>5 DEF LetFrame
  <2>6. FrameOf(c, gr, l, gr.depth) = l
    BY <1>1, <1>2, <2>2, <2>4
  <2>7. (l - Len(d)) + 1 = (l - Len(c)) + 0
    BY <1>1, <1>2
  <2> QED
    BY <1>2, <1>3, <2>1, <2>3, <2>4, <2>5, <2>6, <2>7
<1> QED
  BY <1>4, <1>5

\* The let comes: no call loses its frame.
LEMMA FramesPush ==
  ASSUME NEW c, Stack(c), NEW d, NEW gr, NEW hr, OnGraph(c, d, gr, hr), NEW l, NEW fs, CallFrames(c, gr, l, fs),
         NEW gs, Grown(fs, gs), LetLevel(gr, l) \in 1..Len(gs)
  PROVE  CallFrames(d, hr, LetLevel(gr, l), gs) /\ LetFrame(d, hr, LetLevel(gr, l)) = LetFrame(c, gr, l)
<1>0. CallFrames(c, gr, l, gs)
  BY CallFramesGrow
<1>1. l \in 0..Len(gs) /\ SeqSeq(gs) /\ Len(gs) \in Nat /\ l \in Int /\ (l - Len(c)) + Borrows(c, gr) >= 0
  BY <1>0, LenIs DEF CallFrames, SeqSeq
<1> DEFINE h == LetLevel(gr, l)
<1>2. /\ \A k \in 1..Len(c) : FrameOf(d, hr, h, k) = FrameOf(c, gr, l, k)
      /\ LetFrame(d, hr, h) = LetFrame(c, gr, l)
      /\ (h - Len(d)) + Borrows(d, hr) >= 0 /\ Len(c) \in Nat
  BY <1>1, FrameOnGraph
<1>3. h \in 0..Len(gs) /\ l <= h
  BY <1>1 DEF LetLevel
<1> HIDE DEF h
<1>4. ASSUME NEW k \in 1..Len(d), d[k].kind = "call"
      PROVE  FrameOf(d, hr, h, k) \in 1..h /\ Len(Locals[d[k].sub]) <= Len(gs[FrameOf(d, hr, h, k)])
  <2>1. k \in 1..Len(c) /\ d[k] = c[k]
    <3>1. k # Len(d) /\ Len(d) = Len(c) + 1
      BY <1>4 DEF OnGraph
    <3>2. k \in 1..Len(c)
      BY <1>2, <3>1
    <3> QED
      BY <3>2 DEF OnGraph
  <2>2. FrameOf(c, gr, l, k) \in 1..l /\ Len(Locals[c[k].sub]) <= Len(gs[FrameOf(c, gr, l, k)])
    BY <1>0, <1>4, <2>1 DEF CallFrames
  <2>3. FrameOf(c, gr, l, k) \in 1..h
    BY <1>1, <1>3, <2>2
  <2> QED
    BY <1>2, <2>1, <2>2, <2>3
<1>5. CallFrames(d, hr, h, gs)
  BY <1>1, <1>2, <1>3, <1>4 DEF CallFrames
<1> QED
  BY <1>2, <1>5 DEF h

\* l is the level below the let.
LEMMA FramesRemove ==
  ASSUME NEW c, Stack(c), NEW d, NEW gr, OnGraph(d, c, gr, gr), NEW l \in Int, NEW fs, CallFrames(c, gr, LetLevel(gr, l), fs)
  PROVE  CallFrames(d, gr, l, fs) /\ LetFrame(d, gr, l) = LetFrame(c, gr, LetLevel(gr, l)) /\ LetFrame(d, gr, l) = LetLevel(gr, l)
<1> DEFINE h == LetLevel(gr, l)
<1>1. /\ \A k \in 1..Len(d) : FrameOf(c, gr, h, k) = FrameOf(d, gr, l, k)
      /\ LetFrame(c, gr, h) = h /\ LetFrame(d, gr, l) = h
      /\ (h - Len(c)) + Borrows(c, gr) = (l - Len(d)) + Borrows(d, gr) /\ Borrows(d, gr) = 0 /\ Len(d) \in Nat
  BY FrameOnGraph
<1>2. h \in 0..Len(fs) /\ SeqSeq(fs) /\ Len(fs) \in Nat /\ (h - Len(c)) + Borrows(c, gr) >= 0
  BY LenIs DEF CallFrames, SeqSeq
<1>3. (l - Len(d)) + Borrows(d, gr) >= 0 /\ l >= 0 /\ l <= h /\ l \in 0..Len(fs)
  BY <1>1, <1>2 DEF LetLevel
<1> HIDE DEF h
<1>4. ASSUME NEW k \in 1..Len(d), d[k].kind = "call"
      PROVE  FrameOf(d, gr, l, k) \in 1..l /\ Len(Locals[d[k].sub]) <= Len(fs[FrameOf(d, gr, l, k)])
  <2>1. k \in 1..Len(c) /\ d[k] = c[k]
    <3>1. Len(c) = Len(d) + 1 /\ c[k] = d[k]
      BY DEF OnGraph
    <3> QED
      BY <1>1, <3>1
  <2>2. FrameOf(c, gr, h, k) \in 1..h /\ Len(Locals[c[k].sub]) <= Len(fs[FrameOf(c, gr, h, k)])
    BY <1>4, <2>1 DEF CallFrames, h
  <2>3. FrameOf(d, gr, l, k) <= l
    <3>1. FrameOf(d, gr, l, k) = (l - Len(d)) + k + 0
      BY <1>1 DEF FrameOf
    <3> QED
      BY <1>1, <3>1
  <2> QED
    BY <1>1, <1>3, <2>1, <2>2, <2>3
<1>5. CallFrames(d, gr, l, fs)
  BY <1>2, <1>3, <1>4 DEF CallFrames
<1> QED
  BY <1>1, <1>5 DEF h

-----------------------------------------------------------------------------
(* The steps.                                                               *)

\* The parts of the invariant
LEMMA FramedIs ==
  ASSUME Sharing, Framed
  PROVE  /\ SeqSeq(frames) /\ level \in 0..Len(frames) /\ Len(frames) \in Nat /\ level \in Int
         /\ Stack(ctl) /\ Len(ctl) \in Nat /\ Len(lets) \in Nat /\ Home(ctl, graph) \in Subs \cup {"temp"}
         /\ Graph(ctl, graph, Len(lets)) /\ Lets(Home(ctl, graph), lets)
         /\ CallFrames(ctl, graph, level, frames) /\ LetFrames(LetFrame(ctl, graph, level), frames, lets)
<1>1. SeqSeq(frames) /\ level \in 0..Len(frames) /\ CallFrames(ctl, graph, level, frames)
  BY DEF Framed, CallFrames
<1>2. Len(frames) \in Nat
  BY <1>1, LenIs DEF SeqSeq
<1> QED
  BY <1>1, <1>2, SharingIs DEF Sharing, Framed

\* The frame of the entry at the top is the current one.
LEMMA AtLevel ==
  ASSUME Sharing, Framed, ctl # <<>>
  PROVE  /\ level \in 1..Len(frames)
         /\ Kind # "call" => LetFrame(ctl, graph, level) = level /\ (graph.depth > 0 => FrameOf(ctl, graph, level, graph.depth) = level)
         /\ Kind = "call" => FrameOf(ctl, graph, level, Len(ctl)) = level
<1>1. /\ level \in 0..Len(frames) /\ Len(frames) \in Nat /\ level \in Int /\ Stack(ctl) /\ Len(ctl) \in Nat /\ Len(lets) \in Nat
      /\ Graph(ctl, graph, Len(lets)) /\ CallFrames(ctl, graph, level, frames) /\ LetFrames(LetFrame(ctl, graph, level), frames, lets)
  BY FramedIs
<1>2. Len(ctl) \in 1..Len(ctl) /\ Kind = ctl[Len(ctl)].kind
  <2>1. Len(ctl) # 0
    BY <1>1, LenIs DEF Stack
  <2> QED
    BY <1>1, <2>1 DEF Kind, Top
<1>3. CASE Kind = "call"
  <2>1. FrameOf(ctl, graph, level, Len(ctl)) \in 1..level
    BY <1>1, <1>2, <1>3 DEF CallFrames
  <2>2. Len(ctl) <= graph.depth => Borrows(ctl, graph) = 0
    <3> SUFFICES ASSUME Len(ctl) <= graph.depth PROVE Borrows(ctl, graph) = 0
      OBVIOUS
    <3>1. graph.depth \in 0..Len(ctl)
      BY <1>1 DEF Graph
    <3>2. ~ graph.depth < Len(ctl)
      BY <1>1, <3>1
    <3>3. LetNow(ctl, graph) = 0
      BY <3>2 DEF LetNow
    <3>4. ~ (0 > 0)
      OBVIOUS
    <3> QED
      BY <3>3, <3>4 DEF Borrows
  <2>3. FrameOf(ctl, graph, level, Len(ctl)) = (level - Len(ctl)) + Len(ctl) + 0
    BY <2>2 DEF FrameOf
  <2> QED
    BY <1>1, <1>3, <2>1, <2>3
<1>4. CASE Kind # "call"
  <2>1. Len(ctl) = graph.depth + 1 /\ graph.depth \in Nat /\ LetNow(ctl, graph) \in 1..Len(lets)
    BY <1>1, <1>2, <1>4, TopIs
  <2>2. LetNow(ctl, graph) > 0
    BY <1>1, <2>1
  <2>3. CASE graph.depth = 0
    <3>1. LetFrame(ctl, graph, level) = (level - Len(ctl)) + 1 /\ Len(ctl) = 1
      BY <2>1, <2>3 DEF LetFrame
    <3>2. LetFrame(ctl, graph, level) = level /\ ~ graph.depth > 0
      BY <1>1, <2>3, <3>1
    <3>3. level \in 1..Len(frames)
      BY <1>1, <2>1, <3>2 DEF LetFrames
    <3> QED
      BY <1>4, <3>2, <3>3
  <2>4. CASE graph.depth # 0
    <3>1. graph.depth > 0 /\ graph.depth \in 1..Len(ctl)
      BY <2>1, <2>4
    <3>2. Borrows(ctl, graph) = 1
      BY <2>2, <3>1 DEF Borrows
    <3>3. FrameOf(ctl, graph, level, graph.depth) = (level - Len(ctl)) + graph.depth + 1
      BY <2>1, <3>2 DEF FrameOf
    <3>4. FrameOf(ctl, graph, level, graph.depth) = level
      BY <1>1, <2>1, <3>3
    <3>5. LetFrame(ctl, graph, level) = level
      BY <2>4, <3>4 DEF LetFrame
    <3>6. level \in 1..level
      <4>1. ctl[graph.depth].kind = "call"
        BY <1>1, <3>1 DEF Graph
      <4> QED
        BY <1>1, <3>1, <3>4, <4>1 DEF CallFrames
    <3> QED
      BY <1>1, <1>4, <3>4, <3>5, <3>6
  <2> QED
    BY <2>3, <2>4
<1> QED
  BY <1>3, <1>4

\* Without an entry there is no map.
LEMMA NoMapAtAll == ASSUME Sharing, ctl = <<>> PROVE localMap = "none"
<1>1. localMap = MapOf(ctl, Len(ctl)) /\ Len(ctl) = 0
  BY SharingIs
<1>2. LastCall(ctl, 0, 0)
  BY DEF LastCall, Calls
<1>3. CallOf(ctl, 0) = 0
  BY <1>2, CallOfLast
<1> QED
  BY <1>1, <1>3 DEF MapOf

\* Nothing but the values in the frames changes.
LEMMA FramedValues == ASSUME Sharing, Framed, UNCHANGED <<ctl, graph, level, lets>>, Grown(frames, frames') PROVE Framed'
<1>a. PICK gs : gs = frames'
  OBVIOUS
<1>1. CallFrames(ctl, graph, level, gs)
  BY <1>a, FramedIs, CallFramesGrow
<1>2. LetFrames(LetFrame(ctl, graph, level), gs, lets)
  <2>1. Grown(frames, gs)
    BY <1>a
  <2> QED
    BY <2>1, FramedIs, LetFramesGrow
<1> QED
  BY <1>a, <1>1, <1>2 DEF Framed

\* An assignment to a local or a global
LEMMA FramedAssign == ASSUME Sharing, Framed, NEW n \in Names, NEW v \in Val, Assign(n, v) PROVE Framed'
<1> DEFINE ref == Static(n)
<1>1. UNCHANGED <<ctl, graph, level, lets>> /\ IF ref.local /\ Fits(ref.at) THEN frames' = Put(frames, level, ref.at, v) ELSE frames' = frames
  BY DEF Assign
<1> HIDE DEF ref
<1>2. SeqSeq(frames)
  BY FramedIs
<1>3. CASE ref.local /\ Fits(ref.at)
  <2>1. ctl # <<>>
    BY <1>3, NoMapAtAll DEF Fits
  <2>2. level \in 1..Len(frames)
    BY <2>1, AtLevel
  <2>3. Grown(frames, Put(frames, level, ref.at, v))
    BY <1>2, <2>2, PutIs
  <2> QED
    BY <1>1, <1>3, <2>3, FramedValues
<1>4. CASE ~ (ref.local /\ Fits(ref.at))
  BY <1>1, <1>2, <1>4, GrownSelf, FramedValues
<1> QED
  BY <1>3, <1>4

\* selectXValue
LEMMA FramedSelect == ASSUME Sharing, Framed, NEW v \in Val, NEW w \in Val, Select(v, w) PROVE Framed'
<1> DEFINE let == lets[Top.let]
           data == {let.sub[k].at : k \in {j \in DOMAIN let.sub : let.sub[j].name \in Data}}
           f == [i \in DOMAIN frames[level] |-> IF i - 1 = let.x THEN v ELSE IF i - 1 \in data THEN w ELSE frames[level][i]]
<1>1. UNCHANGED <<ctl, graph, level, lets>> /\ frames' = [frames EXCEPT ![level] = f] /\ Kind = "let"
  BY DEF Select, InLet
<1>2. SeqSeq(frames) /\ level \in 1..Len(frames)
  BY <1>1, FramedIs, AtLevel DEF Kind
<1>3. DOMAIN frames[level] = 1..Len(frames[level]) /\ Len(frames[level]) \in Nat
  BY <1>2, LenIs DEF SeqSeq
<1>4. IsSeq(f) /\ Len(f) = Len(frames[level])
  <2>1. f = [i \in 1..Len(frames[level]) |-> f[i]]
    BY <1>3
  <2> HIDE DEF f
  <2> QED
    BY <1>3, <2>1, ListIs
<1> HIDE DEF f
<1>a. PICK gs : gs = frames'
  OBVIOUS
<1>5. Grown(frames, gs)
  <2>1. gs = [frames EXCEPT ![level] = f] /\ Len(f) >= Len(frames[level])
    BY <1>1, <1>3, <1>4, <1>a
  <2>2. Reframed(frames, level, f, gs)
    BY <1>2, <1>4, <2>1, FrameIs
  <2> QED
    BY <2>2 DEF Reframed
<1> QED
  BY <1>1, <1>5, <1>a, FramedValues

\* A call takes the next frame, with room for every index of its map.
LEMMA RoomFor == ASSUME Sharing, NEW s \in Subs PROVE maps[s].size \in Nat /\ Len(Locals[s]) \in Nat /\ Len(Locals[s]) <= maps[s].size
<1>1. s # "temp" /\ OwnOf(s) = Locals[s]
  BY NamesAssumption DEF OwnOf
<1>2. Maps(Home(ctl, graph), LetNow(ctl, graph), maps, lets)
  BY DEF Sharing
<1>3. \/ Bare(maps[s], OwnOf(s))
      \/ Holds(maps[s], OwnOf(s), lets[LetNow(ctl, graph)].sub)
  BY <1>2 DEF Maps
<1> QED
  BY <1>1, <1>3 DEF Bare, Holds, Parted

\* sub_call_stack, up to the first line
LEMMA FramedCall == ASSUME Sharing, Framed, NEW s \in Subs, NEW v \in Val, Call(s, v) PROVE Framed'
<1> DEFINE e == [kind |-> "call", sub |-> s, let |-> 0, map |-> localMap]
           fs == AllocLocal(maps[s].size)
           f == [i \in DOMAIN fs[level + 1] |-> IF i <= NbParam[s] THEN v ELSE fs[level + 1][i]]
<1>1. /\ UNCHANGED <<graph, lets>> /\ ctl' = Append(ctl, e) /\ level' = level + 1 /\ e.kind = "call" /\ e.sub = s
      /\ frames' = [fs EXCEPT ![level + 1] = f]
  BY DEF Call
<1> HIDE DEF e
<1>2. maps[s].size \in Nat /\ Len(Locals[s]) \in Nat /\ Len(Locals[s]) <= maps[s].size
  BY RoomFor
<1>3. Grown(frames, fs) /\ level + 1 \in 1..Len(fs) /\ Len(fs[level + 1]) >= maps[s].size
  BY <1>2, FramedIs, AllocIs
<1> HIDE DEF fs
<1>4. SeqSeq(fs) /\ IsSeq(fs[level + 1]) /\ Len(fs[level + 1]) \in Nat /\ DOMAIN fs[level + 1] = 1..Len(fs[level + 1])
  BY <1>3, LenIs DEF Grown, SeqSeq
<1>5. IsSeq(f) /\ Len(f) = Len(fs[level + 1])
  <2>1. f = [i \in 1..Len(fs[level + 1]) |-> f[i]]
    BY <1>4
  <2> HIDE DEF f
  <2> QED
    BY <1>4, <2>1, ListIs
<1> HIDE DEF f
<1>a. PICK gs : gs = frames'
  OBVIOUS
<1>6. Grown(fs, gs) /\ gs[level + 1] = f /\ Len(gs) = Len(fs)
  <2>1. gs = [fs EXCEPT ![level + 1] = f] /\ Len(f) >= Len(fs[level + 1])
    BY <1>1, <1>4, <1>5, <1>a
  <2>2. Reframed(fs, level + 1, f, gs)
    BY <1>3, <1>4, <1>5, <2>1, FrameIs
  <2> QED
    BY <2>2 DEF Reframed
<1>7. Grown(frames, gs)
  BY <1>3, <1>6, FramedIs, GrownAll
<1>b. PICK d : d = ctl'
  OBVIOUS
<1>8. IsSeq(d) /\ Len(d) = Len(ctl) + 1 /\ (\A i \in 1..Len(ctl) : d[i] = ctl[i]) /\ d[Len(ctl) + 1] = e
  <2>1. IsSeq(ctl)
    BY FramedIs DEF Stack
  <2> QED
    BY <1>1, <1>b, <2>1, AppendIs
<1>9. CallFrames(d, graph, level + 1, gs) /\ LetFrame(d, graph, level + 1) = LetFrame(ctl, graph, level)
  <2>1. Len(Locals[d[Len(ctl) + 1].sub]) <= Len(gs[level + 1])
    BY <1>1, <1>2, <1>3, <1>4, <1>5, <1>6, <1>8
  <2>2. d[Len(ctl) + 1].kind = "call" /\ level + 1 \in 1..Len(gs)
    BY <1>1, <1>3, <1>6, <1>8
  <2> QED
    BY <1>7, <1>8, <2>1, <2>2, FramedIs, FramesCall
<1>10. LetFrames(LetFrame(ctl, graph, level), gs, lets)
  BY <1>7, FramedIs, LetFramesGrow
<1> QED
  BY <1>1, <1>9, <1>10, <1>a, <1>b DEF Framed

\* sub_call_stack, after the last line
LEMMA FramedReturn == ASSUME Sharing, Framed, Return PROVE Framed'
<1>b. PICK d : d = ctl'
  OBVIOUS
<1>1. Stack(ctl) /\ IsSeq(ctl) /\ Len(ctl) \in Nat /\ Len(lets) \in Nat /\ Graph(ctl, graph, Len(lets)) /\ CallFrames(ctl, graph, level, frames)
  BY FramedIs DEF Stack
<1>2. /\ ctl # <<>> /\ ctl' = Front(ctl) /\ UNCHANGED <<frames, graph, lets>> /\ level' = level - 1 /\ ctl[Len(ctl)].kind = "call"
      /\ (graph.state = "none" \/ graph.depth < Len(ctl))
  BY DEF Return, Kind, Pop, Top
<1>3. IsSeq(d) /\ Len(d) = Len(ctl) - 1 /\ \A i \in 1..(Len(ctl) - 1) : d[i] = ctl[i]
  BY <1>1, <1>2, <1>b, FrontIs
<1>4. graph.depth # Len(ctl)
  <2>1. Len(ctl) # 0
    BY <1>1, <1>2, LenIs
  <2> QED
    BY <1>1, <1>2, <2>1 DEF Graph
<1>5. CallFrames(d, graph, level - 1, frames) /\ LetFrame(d, graph, level - 1) = LetFrame(ctl, graph, level)
  BY <1>1, <1>2, <1>3, <1>4, FramesReturn
<1> QED
  BY <1>2, <1>5, <1>b DEF Framed

\* What a let on the graph has below and above it.
LEMMA OnTop ==
  ASSUME Sharing, graph.state # "none", graph.depth = Len(ctl), NEW e, e.kind # "call",
         NEW d, d = Append(ctl, e), NEW hr, hr.depth = graph.depth, LetNow(d, hr) > 0
  PROVE  OnGraph(ctl, d, graph, hr) /\ LevelForLet = LetLevel(graph, level)
<1>1. IsSeq(ctl)
  BY SharingIs DEF Stack
<1>2. Len(d) = Len(ctl) + 1 /\ (\A i \in 1..Len(ctl) : d[i] = ctl[i]) /\ d[Len(ctl) + 1] = e
  BY <1>1, AppendIs
<1>3. LetNow(ctl, graph) = 0 /\ (localMap = "none" <=> graph.depth = 0)
  BY AtHome
<1>4. OnGraph(ctl, d, graph, hr)
  BY <1>1, <1>2, <1>3 DEF OnGraph
<1> QED
  BY <1>3, <1>4 DEF LevelForLet, LetLevel

\* The frame for the next let exists.
LEMMA FramesForLetIs ==
  ASSUME Sharing, Framed, graph.state # "none", graph.depth = Len(ctl)
  PROVE  Grown(frames, FramesForLet) /\ LevelForLet \in 1..Len(FramesForLet)
<1>1. localMap # "none" => level > 0
  <2> SUFFICES ASSUME localMap # "none" PROVE level > 0
    OBVIOUS
  <2>1. ctl # <<>>
    BY NoMapAtAll
  <2>2. level \in 1..Len(frames)
    BY <2>1, AtLevel
  <2> QED
    BY <2>2
<1> QED
  BY <1>1, FramedIs, ForLetIs

\* The let's variables get their cells: frames and lets from here on.
LEMMA ParseLetCells ==
  ASSUME NEW n \in Names, ParseLet(n)
  PROVE  LET map == maps[MapForLet]
             new == NewIndices(map, IsNew(map, n))
             length == Max({Len(FramesForLet[LevelForLet])} \cup {i + 1 : i \in new})
         IN \E f : f = [i \in 1..length |-> f[i]] /\ frames' = [FramesForLet EXCEPT ![LevelForLet] = f]
<1> DEFINE map == maps[MapForLet]
           new == NewIndices(map, IsNew(map, n))
           length == Max({Len(FramesForLet[LevelForLet])} \cup {i + 1 : i \in new})
           f == [i \in 1..length |-> IF i - 1 \in new THEN 0 ELSE Ensure(FramesForLet[LevelForLet], length)[i]]
<1>1. frames' = [FramesForLet EXCEPT ![LevelForLet] = f]
  BY Zenon DEF ParseLet, NewIndices, IsNew, WithX, Pushed
<1>2. f = [i \in 1..length |-> f[i]]
  OBVIOUS
<1> HIDE DEF f, length
<1> QED
  BY <1>1, <1>2 DEF length

\* parseLet: the frame is made long enough for the indices of the new let.
LEMMA FramedParseLet == ASSUME Sharing, Framed, Sharing', NEW n \in Names, ParseLet(n) PROVE Framed'
<1> DEFINE home == Home(ctl, graph)
           own == OwnOf(home)
           fs == FramesForLet
           at == LevelForLet
<1>1. graph.state = "open" /\ graph.depth = Len(ctl) /\ graph' = graph /\ level' = at
      /\ \E e : ctl' = Append(ctl, e) /\ e.kind # "call"
  <2> DEFINE e == [kind |-> "parse", sub |-> "none", let |-> Len(lets) + 1, map |-> localMap]
  <2>1. graph.state = "open" /\ graph.depth = Len(ctl) /\ graph' = graph /\ ctl' = Append(ctl, e) /\ level' = LevelForLet
    BY DEF ParseLet
  <2>2. e.kind # "call"
    OBVIOUS
  <2> HIDE DEF e
  <2> QED
    BY <2>1, <2>2
<1>2. MapForLet = home /\ Bare(maps[home], own) /\ home \in Subs \cup {"temp"}
  BY <1>1, AtHome
<1>3. LetNow(ctl, graph)' = Len(lets) + 1 /\ Len(lets) \in Nat
  <2>1. CurrentMap'
    BY DEF Sharing
  <2> QED
    BY <2>1, ParseLetKeeps, SharingIs
<1>a. PICK d : d = ctl'
  OBVIOUS
<1>b. PICK gs : gs = frames'
  OBVIOUS
<1>c. PICK ls : ls = lets'
  OBVIOUS
<1>4. OnGraph(ctl, d, graph, graph) /\ at = LetLevel(graph, level)
  <2>1. PICK e : ctl' = Append(ctl, e) /\ e.kind # "call"
    BY <1>1
  <2>2. LetNow(d, graph) > 0
    BY <1>1, <1>3, <1>a
  <2> QED
    BY <1>1, <1>a, <2>1, <2>2, OnTop
<1>5. Grown(frames, fs) /\ at \in 1..Len(fs)
  BY <1>1, FramesForLetIs
<1> HIDE DEF fs, at
<1>6. SeqSeq(fs) /\ Len(fs[at]) \in Nat
  BY <1>5, LenIs DEF Grown, SeqSeq
<1> DEFINE isNew == IsNew(maps[home], n)
           new == NewIndices(maps[home], isNew)
           S == {Len(fs[at])} \cup {i + 1 : i \in new}
           length == Max(S)
           t == Parsed(maps[home], n, isNew)
<1>7. \E l : l.sub = Last(t.subs) /\ lets' = Append(lets, l)
  BY <1>2, ParseLetDoes
<1>8. PICK f : f = [i \in 1..length |-> f[i]] /\ frames' = [fs EXCEPT ![at] = f]
  BY <1>2, ParseLetCells DEF fs, at
<1>9. (\A i \in 1..Len(Last(t.subs)) : Last(t.subs)[i].at \in new) /\ (\A i \in new : i \in Len(own)..(t.size - 1)) /\ t.size \in Nat /\ Len(own) \in Nat
  <2>1. (\A i \in 1..Len(Last(t.subs)) : Last(t.subs)[i].at \in new) /\ (\A i \in new : i \in Len(own)..(t.size - 1)) /\ Holds(t, own, Last(t.subs))
    <3> HIDE DEF isNew, own, home
    <3> QED
      BY <1>2, ParsedIs
  <2> HIDE DEF t, new
  <2> QED
    BY <2>1 DEF Holds, Parted
<1> HIDE DEF t, new, isNew, own, home
<1>10. length \in Nat /\ length >= Len(fs[at]) /\ \A i \in new : i < length
  <2> DEFINE b == Len(fs[at]) + t.size
  <2>1. b \in Nat /\ S \subseteq 0..b /\ S # {}
    BY <1>6, <1>9
  <2> HIDE DEF b
  <2>2. length \in Nat /\ \A j \in S : j <= length
    BY <2>1, MaxIs
  <2>3. \A i \in new : i + 1 <= length
    BY <2>2
  <2>4. Len(fs[at]) <= length
    BY <2>2
  <2> HIDE DEF length
  <2> QED
    BY <1>6, <1>9, <2>2, <2>3, <2>4
<1> HIDE DEF length
<1>11. IsSeq(f) /\ Len(f) = length
  BY <1>8, <1>10, ListIs
<1>12. Grown(fs, gs) /\ gs[at] = f /\ Len(gs) = Len(fs)
  <2>1. gs = [fs EXCEPT ![at] = f] /\ Len(f) >= Len(fs[at])
    BY <1>8, <1>10, <1>11, <1>b
  <2>2. Reframed(fs, at, f, gs)
    BY <1>5, <1>6, <1>11, <2>1, FrameIs
  <2> QED
    BY <2>2 DEF Reframed
<1>13. Grown(frames, gs)
  BY <1>5, <1>12, FramedIs, GrownAll
<1>14. CallFrames(d, graph, at, gs) /\ LetFrame(d, graph, at) = at /\ LetFrame(ctl, graph, level) = at
  <2>1. LetLevel(graph, level) \in 1..Len(gs)
    BY <1>4, <1>5, <1>12
  <2>2. CallFrames(d, graph, LetLevel(graph, level), gs)
    BY <1>4, <1>13, <2>1, FramedIs, FramesPush
  <2>3. LetFrame(d, graph, LetLevel(graph, level)) = LetLevel(graph, level) /\ LetFrame(ctl, graph, level) = LetLevel(graph, level)
    BY <1>4, FramedIs, FrameOnGraph
  <2> QED
    BY <1>4, <2>2, <2>3
<1>15. LetFrames(at, gs, lets)
  BY <1>13, <1>14, FramedIs, LetFramesGrow
<1>16. LetFrames(at, gs, ls)
  <2>1. PICK l : l.sub = Last(t.subs) /\ lets' = Append(lets, l)
    BY <1>7
  <2>2. Len(ls) = Len(lets) + 1 /\ ls[Len(lets) + 1] = l /\ \A i \in 1..Len(lets) : ls[i] = lets[i]
    <3>1. IsSeq(lets)
      BY DEF Sharing, Lets
    <3> QED
      BY <1>c, <2>1, <3>1, AppendIs
  <2>3. at \in 1..Len(gs) /\ \A i \in 1..Len(l.sub) : l.sub[i].at < Len(gs[at])
    BY <1>5, <1>9, <1>10, <1>11, <1>12, <2>1
  <2> SUFFICES ASSUME NEW k \in 1..Len(ls) PROVE at \in 1..Len(gs) /\ \A i \in 1..Len(ls[k].sub) : ls[k].sub[i].at < Len(gs[at])
    BY DEF LetFrames
  <2>4. CASE k = Len(lets) + 1
    BY <2>2, <2>3, <2>4
  <2>5. CASE k # Len(lets) + 1
    <3>1. k \in 1..Len(lets)
      BY <1>3, <2>2, <2>5
    <3> QED
      BY <1>15, <2>2, <3>1 DEF LetFrames
  <2> QED
    BY <2>4, <2>5
<1> QED
  BY <1>1, <1>14, <1>16, <1>a, <1>b, <1>c DEF Framed

\* doLet: the indices of a let that comes back have their cells still.
LEMMA FramedDoLet == ASSUME Sharing, Framed, Sharing', DoLet PROVE Framed'
<1> DEFINE fs == FramesForLet
           at == LevelForLet
           k == Head(graph.todo)
           gs0 == RestoredFrames(lets[k])
<1>1. /\ graph.state = "drawing" /\ graph.depth = Len(ctl) /\ lets' = lets /\ level' = at
      /\ graph' = [graph EXCEPT !.todo = Tail(@)] /\ frames' = Put(gs0, at, lets[k].x, 0)
      /\ \E e : ctl' = Append(ctl, e) /\ e.kind # "call"
  <2>1. graph.state = "drawing" /\ graph.depth = Len(ctl) /\ lets' = lets /\ level' = at
        /\ graph' = [graph EXCEPT !.todo = Tail(@)] /\ frames' = Put(gs0, at, lets[k].x, 0)
    BY DEF DoLet, Drawing, NextLet
  <2>2. \E e : ctl' = Append(ctl, e) /\ e.kind # "call"
    <3> DEFINE e == [kind |-> "let", sub |-> "none", let |-> Head(graph.todo), map |-> localMap]
    <3>1. ctl' = Append(ctl, e)
      BY DEF DoLet
    <3>2. e.kind # "call"
      OBVIOUS
    <3> HIDE DEF e
    <3> QED
      BY <3>1, <3>2
  <2> QED
    BY <2>1, <2>2
<1>2. graph'.depth = graph.depth
  <2>1. Graph(ctl, graph, Len(lets))
    BY DEF Sharing
  <2> QED
    BY <1>1, <2>1 DEF Graph
<1>3. LetNow(ctl, graph)' > 0
  <2>1. CurrentMap'
    BY DEF Sharing
  <2>2. LetNow(ctl, graph)' \in 1..Len(lets) /\ Len(lets) \in Nat
    BY <2>1, DoLetKeeps, SharingIs
  <2> QED
    BY <2>2
<1>a. PICK d : d = ctl'
  OBVIOUS
<1>b. PICK gs : gs = frames'
  OBVIOUS
<1>c. PICK hr : hr = graph'
  OBVIOUS
<1>4. OnGraph(ctl, d, graph, hr) /\ at = LetLevel(graph, level)
  <2>1. PICK e : ctl' = Append(ctl, e) /\ e.kind # "call"
    BY <1>1
  <2>2. LetNow(d, hr) > 0 /\ hr.depth = graph.depth /\ graph.state # "none"
    BY <1>1, <1>2, <1>3, <1>a, <1>c
  <2> QED
    BY <1>1, <1>a, <2>1, <2>2, OnTop
<1>5. Grown(frames, fs) /\ at \in 1..Len(fs) /\ SeqSeq(fs)
  <2>1. Grown(frames, fs) /\ at \in 1..Len(fs)
    BY <1>1, FramesForLetIs
  <2> QED
    BY <2>1 DEF Grown
<1>6. Grown(fs, gs0)
  <2>1. CASE lets[k].ref.local
    BY <1>5, <2>1, PutIs DEF RestoredFrames
  <2>2. CASE ~ lets[k].ref.local
    BY <1>5, <2>2, GrownSelf DEF RestoredFrames
  <2> QED
    BY <2>1, <2>2
<1> HIDE DEF fs, at, gs0, k
<1>7. SeqSeq(gs0) /\ Len(gs0) >= Len(fs) /\ Len(fs) \in Nat /\ Len(gs0) \in Nat /\ at \in 1..Len(gs0)
  <2>1. SeqSeq(gs0) /\ Len(fs) <= Len(gs0)
    BY <1>6 DEF Grown
  <2>2. Len(fs) \in Nat /\ Len(gs0) \in Nat
    BY <1>5, <2>1, LenIs DEF SeqSeq
  <2> QED
    BY <1>5, <2>1, <2>2
<1>8. Grown(gs0, gs)
  BY <1>1, <1>7, <1>b, PutIs
<1>9. Grown(frames, gs)
  <2>1. Grown(frames, gs0)
    BY <1>5, <1>6, FramedIs, GrownAll
  <2> QED
    BY <1>8, <2>1, FramedIs, GrownAll
<1>10. at \in 1..Len(gs)
  <2>1. Len(gs0) <= Len(gs) /\ SeqSeq(gs)
    BY <1>8 DEF Grown
  <2>2. Len(gs) \in Nat
    BY <2>1, LenIs DEF SeqSeq
  <2> QED
    BY <1>7, <2>1, <2>2
<1>11. CallFrames(d, hr, at, gs) /\ LetFrame(d, hr, at) = at /\ LetFrame(ctl, graph, level) = at
  <2>1. LetLevel(graph, level) \in 1..Len(gs)
    BY <1>4, <1>10
  <2>2. CallFrames(d, hr, LetLevel(graph, level), gs)
    BY <1>4, <1>9, <2>1, FramedIs, FramesPush
  <2>3. LetFrame(d, hr, LetLevel(graph, level)) = LetLevel(graph, level) /\ LetFrame(ctl, graph, level) = LetLevel(graph, level)
    BY <1>4, FramedIs, FrameOnGraph
  <2> QED
    BY <1>4, <2>2, <2>3
<1>12. LetFrames(at, gs, lets)
  BY <1>9, <1>11, FramedIs, LetFramesGrow
<1> QED
  BY <1>1, <1>11, <1>12, <1>a, <1>b, <1>c DEF Framed

\* removeLocalSubMap: the frame of a let in the main program is left for the next one.
LEMMA FramedRemove ==
  ASSUME Sharing, Framed, Sharing', Kind \in {"parse", "let"}, RemoveLocalSubMap, Pop, UNCHANGED <<graph, lets, frames>>
  PROVE  Framed'
<1>1. Stack(ctl) /\ Len(ctl) \in Nat /\ Graph(ctl, graph, Len(lets)) /\ CallFrames(ctl, graph, level, frames) /\ IsSeq(ctl) /\ level \in Int
  BY FramedIs DEF Stack
<1>2. /\ localMap = Home(ctl, graph) /\ Len(ctl) = graph.depth + 1 /\ LetNow(ctl, graph) \in 1..Len(lets) /\ graph.depth \in Nat
  BY InLetIs
<1>3. ctl # <<>> /\ ctl' = Front(ctl) /\ ctl[Len(ctl)].kind # "call"
  BY DEF Kind, Pop, Top
<1>4. localMap = "temp" <=> graph.depth = 0
  BY <1>1, <1>2, <1>3, HomeIs
<1> DEFINE l == IF localMap = "temp" THEN level - 1 ELSE level
<1>5. level' = l /\ l \in Int
  BY <1>1 DEF RemoveLocalSubMap
<1>6. level = LetLevel(graph, l)
  BY <1>1, <1>4 DEF LetLevel
<1> HIDE DEF l
<1>a. PICK d : d = ctl'
  OBVIOUS
<1>7. IsSeq(d) /\ Len(d) = Len(ctl) - 1 /\ \A i \in 1..(Len(ctl) - 1) : d[i] = ctl[i]
  BY <1>1, <1>3, <1>a, FrontIs
<1>8. LetNow(d, graph) = 0
  <2>1. CurrentMap'
    BY DEF Sharing
  <2>2. LetNow(ctl, graph)' = 0
    BY <2>1, RemoveKeeps
  <2> QED
    BY <1>a, <2>2
<1>9. OnGraph(d, ctl, graph, graph)
  <2>1. Len(d) = graph.depth /\ Len(ctl) = Len(d) + 1 /\ \A i \in 1..Len(d) : ctl[i] = d[i]
    BY <1>2, <1>7
  <2>2. LetNow(ctl, graph) > 0
    <3>1. Len(lets) \in Nat
      BY FramedIs
    <3> QED
      BY <1>2, <3>1
  <2> QED
    BY <1>3, <1>7, <1>8, <2>1, <2>2 DEF OnGraph
<1>10. CallFrames(d, graph, l, frames) /\ LetFrame(d, graph, l) = LetFrame(ctl, graph, level)
  <2>1. CallFrames(ctl, graph, LetLevel(graph, l), frames)
    BY <1>1, <1>6
  <2>2. CallFrames(d, graph, l, frames) /\ LetFrame(d, graph, l) = LetFrame(ctl, graph, LetLevel(graph, l))
    BY <1>1, <1>5, <1>9, <2>1, FramesRemove
  <2> QED
    BY <1>6, <2>2
<1> QED
  BY <1>5, <1>10, <1>a DEF Framed

\* findAdd: the frame is made longer when the new index lies outside of it.
LEMMA FramedDetect == ASSUME Sharing, Framed, Sharing', NEW d \in Data, Detect(d) PROVE Framed'
<1> DEFINE t == Detected(maps[localMap], d)
           after == Last(t.subs)
           at == IndexIn(after, d)
           sub == lets[Top.let].sub
           f == Ensure(frames[level], at + 1)
           fs == Expand(frames, at)
           own == OwnOf(localMap)
<1>1. UNCHANGED <<ctl, graph, level>> /\ frames' = Put(fs, level, at, 0) /\ Kind = "let"
  BY DEF Detect, Detected, InLet
<1>2. /\ Len(lets') = Len(lets) /\ (\A n \in 1..Len(lets) : n # Top.let => lets'[n] = lets[n])
      /\ lets'[Top.let].sub = after
  <2>1. CurrentMap'
    BY DEF Sharing
  <2> QED
    BY <2>1, DetectKeeps
<1>3. Holds(maps[localMap], own, sub) /\ Top.let \in 1..Len(lets) /\ Lets(localMap, lets) /\ localMap \in Subs \cup {"temp"}
  BY <1>1, InLetIs DEF Sharing
<1>4. Len(sub) > 0
  BY <1>3 DEF Lets, Loose
<1> HIDE DEF own, sub
<1>5. /\ Loose(Len(own), after) /\ IsSeq(after)
      /\ \E k \in 1..Len(after) : after[k].name = d
      /\ \A i \in 1..Len(after) : (i \in 1..Len(sub) /\ after[i] = sub[i]) \/ after[i].at = at
  BY <1>3, <1>4, DetectedIs
<1> HIDE DEF after, t
<1>6. at \in Nat
  <2>1. PICK b \in Nat : \A i \in 1..Len(after) : after[i].at \in Len(own)..b
    BY <1>5 DEF Loose
  <2>2. DOMAIN after = 1..Len(after) /\ Len(own) \in Nat
    BY <1>3, <1>5, LenIs, OwnOfIs DEF own
  <2>3. (CHOOSE k \in DOMAIN after : after[k].name = d) \in 1..Len(after)
    BY <1>5, <2>2
  <2>4. at \in Len(own)..b
    BY <2>1, <2>3 DEF IndexIn
  <2> HIDE DEF at
  <2> QED
    BY <2>2, <2>4
<1> HIDE DEF at
<1>7. level \in 1..Len(frames) /\ LetFrame(ctl, graph, level) = level /\ SeqSeq(frames)
  <2>1. ctl # <<>>
    BY <1>1 DEF Kind
  <2> QED
    BY <1>1, <2>1, AtLevel, FramedIs
<1>8. IsSeq(f) /\ Len(f) >= at + 1 /\ Len(f) >= Len(frames[level]) /\ Len(frames[level]) \in Nat /\ Len(f) \in Nat
  <2>1. IsSeq(frames[level]) /\ at + 1 \in Nat
    BY <1>6, <1>7 DEF SeqSeq
  <2> QED
    BY <2>1, EnsureIs
<1>9. fs = [frames EXCEPT ![level] = f]
  BY DEF Expand
<1> HIDE DEF f, fs
<1>10. Grown(frames, fs) /\ fs[level] = f /\ Len(fs) = Len(frames)
  <2>1. Reframed(frames, level, f, fs)
    BY <1>7, <1>8, <1>9, FrameIs
  <2> QED
    BY <2>1 DEF Reframed
<1>a. PICK gs : gs = frames'
  OBVIOUS
<1>b. PICK ls : ls = lets'
  OBVIOUS
<1>11. Grown(fs, gs)
  <2>1. SeqSeq(fs)
    BY <1>10 DEF Grown
  <2> QED
    BY <1>1, <1>7, <1>10, <1>a, <2>1, PutIs
<1>12. Grown(frames, gs)
  BY <1>7, <1>10, <1>11, GrownAll
<1>13. level \in 1..Len(gs) /\ Len(gs[level]) >= Len(f) /\ Len(gs[level]) \in Nat
  <2>1. SeqSeq(gs) /\ Len(fs) <= Len(gs) /\ \A j \in 1..Len(fs) : Len(fs[j]) <= Len(gs[j])
    BY <1>11 DEF Grown
  <2>2. Len(gs) \in Nat /\ Len(fs) \in Nat /\ \A j \in 1..Len(gs) : Len(gs[j]) \in Nat
    <3>1. Len(gs) \in Nat /\ \A j \in 1..Len(gs) : Len(gs[j]) \in Nat
      BY <2>1, LenIs DEF SeqSeq
    <3>2. Len(frames) \in Nat
      BY FramedIs
    <3> QED
      BY <1>10, <3>1, <3>2
  <2> QED
    BY <1>7, <1>8, <1>10, <2>1, <2>2
<1>14. CallFrames(ctl, graph, level, gs)
  BY <1>12, FramedIs, CallFramesGrow
<1>15. LetFrames(level, gs, lets)
  BY <1>7, <1>12, FramedIs, LetFramesGrow
<1>16. LetFrames(level, gs, ls)
  <2> SUFFICES ASSUME NEW k \in 1..Len(ls) PROVE level \in 1..Len(gs) /\ \A i \in 1..Len(ls[k].sub) : ls[k].sub[i].at < Len(gs[level])
    BY DEF LetFrames
  <2>1. CASE k # Top.let
    <3>1. k \in 1..Len(lets) /\ ls[k] = lets[k]
      BY <1>2, <1>b, <2>1
    <3> QED
      BY <1>15, <3>1 DEF LetFrames
  <2>2. CASE k = Top.let
    <3>1. ls[k].sub = after
      BY <1>2, <1>b, <2>2
    <3>2. \A i \in 1..Len(sub) : sub[i].at < Len(gs[level])
      BY <1>3, <1>15 DEF LetFrames, sub
    <3>3. at < Len(gs[level])
      BY <1>6, <1>8, <1>13
    <3> QED
      BY <1>5, <1>13, <3>1, <3>2, <3>3
  <2> QED
    BY <2>1, <2>2
<1> QED
  BY <1>1, <1>7, <1>14, <1>16, <1>a, <1>b DEF Framed

\* Without a let on the stack, the calls do not notice the graph.
LEMMA FramesSame ==
  ASSUME NEW c, Stack(c), NEW gr, NEW hr, LetNow(c, gr) = 0, LetNow(c, hr) = 0, NEW l, NEW fs, CallFrames(c, gr, l, fs)
  PROVE  CallFrames(c, hr, l, fs) /\ (hr.depth = gr.depth => LetFrame(c, hr, l) = LetFrame(c, gr, l))
<1>1. Borrows(c, gr) = 0 /\ Borrows(c, hr) = 0
  <2>1. ~ (0 > 0)
    OBVIOUS
  <2> QED
    BY <2>1 DEF Borrows
<1>2. \A k : FrameOf(c, gr, l, k) = (l - Len(c)) + k + 0 /\ FrameOf(c, hr, l, k) = (l - Len(c)) + k + 0
  BY <1>1 DEF FrameOf
<1>3. \A k : FrameOf(c, hr, l, k) = FrameOf(c, gr, l, k)
  BY <1>2
<1>4. CallFrames(c, hr, l, fs)
  BY <1>1, <1>3 DEF CallFrames
<1>5. hr.depth = gr.depth => LetFrame(c, hr, l) = LetFrame(c, gr, l)
  BY <1>3 DEF LetFrame
<1> QED
  BY <1>4, <1>5

\* begin and end of the graph, and a new run over the old frames
LEMMA FramedGraph ==
  ASSUME Sharing, Framed, Sharing', BeginGraph \/ (\E twice \in BOOLEAN : EndGraph(twice)) \/ GraphDone \/ Run PROVE Framed'
<1>1. LetNow(ctl, graph)' = 0 /\ (~ Run => LetNow(ctl, graph) = 0)
  <2>1. CurrentMap'
    BY DEF Sharing
  <2> QED
    BY <2>1, GraphKeeps
<1>a. PICK hr : hr = graph'
  OBVIOUS
<1>2. Stack(ctl) /\ SeqSeq(frames) /\ Graph(ctl, graph, Len(lets)) /\ level \in 0..Len(frames) /\ Len(frames) \in Nat
      /\ CallFrames(ctl, graph, level, frames) /\ LetFrames(LetFrame(ctl, graph, level), frames, lets)
  BY FramedIs
<1>3. Len(<<>>) = 0 /\ \A at : LetFrames(at, frames, <<>>)
  BY EmptyIs DEF LetFrames
<1>4. ASSUME UNCHANGED <<ctl, level, frames>>, LetNow(ctl, graph) = 0
      PROVE  CallFrames(ctl, graph, level, frames)' /\ (hr.depth = graph.depth => LetFrame(ctl, graph, level)' = LetFrame(ctl, graph, level))
  <2>1. LetNow(ctl, hr) = 0
    BY <1>1, <1>4, <1>a
  <2>2. CallFrames(ctl, hr, level, frames) /\ (hr.depth = graph.depth => LetFrame(ctl, hr, level) = LetFrame(ctl, graph, level))
    BY <1>2, <1>4, <2>1, FramesSame
  <2> QED
    BY <1>4, <1>a, <2>2
<1>5. CASE Run
  <2>1. ctl' = <<>> /\ lets' = <<>> /\ hr = Closed /\ UNCHANGED <<frames, level>>
    BY <1>5, <1>a DEF Run
  <2>2. Borrows(<<>>, Closed) = 0
    <3>1. LetNow(<<>>, Closed) = 0 /\ ~ (0 > 0)
      BY <1>1, <1>a, <2>1
    <3> QED
      BY <3>1 DEF Borrows
  <2>3. CallFrames(<<>>, Closed, level, frames)
    <3>1. (level - 0) + 0 >= 0
      BY <1>2
    <3>2. \A k \in 1..0 : FALSE
      OBVIOUS
    <3> QED
      BY <1>2, <1>3, <2>2, <3>1, <3>2 DEF CallFrames
  <2> QED
    BY <1>3, <1>a, <2>1, <2>3 DEF Framed
<1>6. CASE ~ Run /\ GraphDone
  <2>1. lets' = <<>> /\ UNCHANGED <<ctl, level, frames>>
    BY <1>6 DEF GraphDone
  <2> QED
    BY <1>1, <1>3, <1>4, <1>6, <2>1 DEF Framed
<1>7. CASE ~ Run /\ BeginGraph
  <2>1. lets' = lets /\ UNCHANGED <<ctl, level, frames>> /\ graph.state = "none"
    BY <1>7 DEF BeginGraph
  <2>2. Len(lets) = 0
    BY <1>2, <2>1 DEF Graph
  <2>3. LetFrames(LetFrame(ctl, graph, level), frames, lets)'
    BY <2>1, <2>2 DEF LetFrames
  <2> QED
    BY <1>1, <1>4, <1>7, <2>1, <2>3 DEF Framed
<1>8. ASSUME ~ Run, NEW twice \in BOOLEAN, EndGraph(twice) PROVE Framed'
  <2>1. lets' = lets /\ UNCHANGED <<ctl, level, frames>> /\ hr.depth = graph.depth
    <3>1. graph = [state |-> graph.state, depth |-> graph.depth, todo |-> graph.todo]
      BY <1>2 DEF Graph
    <3> QED
      BY <1>8, <1>a, <3>1 DEF EndGraph
  <2> QED
    BY <1>1, <1>2, <1>4, <1>8, <2>1 DEF Framed
<1> QED
  BY <1>5, <1>6, <1>7, <1>8

\* The frames are long enough after every step.
LEMMA FramedStep == ASSUME Sharing, Framed, [Next]_vars PROVE Framed'
<1>0. Sharing'
  BY SharingStep
<1>1. ASSUME UNCHANGED <<ctl, graph, level, lets, frames>> PROVE Framed'
  BY <1>1 DEF Framed
<1>2. ASSUME NEW s \in Subs, NEW v \in Val, Call(s, v) PROVE Framed'
  BY <1>2, FramedCall
<1>3. ASSUME NEW n \in Names, NEW v \in Val, Assign(n, v) PROVE Framed'
  BY <1>3, FramedAssign
<1>4. ASSUME NEW n \in Names, ParseLet(n) PROVE Framed'
  BY <1>0, <1>4, FramedParseLet
<1>5. ASSUME NEW v \in Val, NEW w \in Val, Select(v, w) PROVE Framed'
  BY <1>5, FramedSelect
<1>6. ASSUME NEW d \in Data, Detect(d) PROVE Framed'
  BY <1>0, <1>6, FramedDetect
<1>7. CASE Return
  BY <1>7, FramedReturn
<1>8. CASE DoLet
  BY <1>0, <1>8, FramedDoLet
<1>9. CASE EndParse
  BY <1>0, <1>9, FramedRemove DEF EndParse
<1>10. CASE EndLet
  BY <1>0, <1>10, FramedRemove DEF EndLet, InLet
<1>11. CASE BeginGraph \/ (\E twice \in BOOLEAN : EndGraph(twice)) \/ GraphDone \/ Run
  BY <1>0, <1>11, FramedGraph
<1>12. CASE Retrieve \/ UNCHANGED vars
  BY <1>1, <1>12 DEF Retrieve, vars
<1> QED
  BY <1>2, <1>3, <1>4, <1>5, <1>6, <1>7, <1>8, <1>9, <1>10, <1>11, <1>12 DEF Next

\* There are no frames at the start.
LEMMA FramedInit == ASSUME Init, Sharing PROVE Framed
<1>1. ctl = <<>> /\ graph = Closed /\ lets = <<>> /\ frames = <<>> /\ level = 0
  BY DEF Init
<1>2. IsSeq(<<>>) /\ Len(<<>>) = 0
  BY EmptyIs
<1>3. LetNow(<<>>, Closed) = 0
  BY <1>2, ClosedIs
<1>4. Borrows(<<>>, Closed) = 0
  <2>1. ~ (0 > 0)
    OBVIOUS
  <2> QED
    BY <1>3, <2>1 DEF Borrows
<1>5. CallFrames(<<>>, Closed, 0, <<>>)
  <2>1. \A k \in 1..0 : FALSE
    OBVIOUS
  <2>2. SeqSeq(<<>>)
    BY <1>2, <2>1 DEF SeqSeq
  <2>3. (0 - 0) + 0 >= 0 /\ 0 \in 0..0
    OBVIOUS
  <2> QED
    BY <1>2, <1>4, <2>1, <2>2, <2>3 DEF CallFrames
<1>6. \A at : LetFrames(at, <<>>, <<>>)
  BY <1>2 DEF LetFrames
<1> QED
  BY <1>1, <1>5, <1>6 DEF Framed

-----------------------------------------------------------------------------
(***************************************************************************)
(* How far the indices of a map can go: a let has X, one name of its        *)
(* expression at most, and the d[i] it was seen to use.                     *)
(***************************************************************************)
Room == 2 + Cardinality(Data)

Few(sub) == Len(sub) <= 2 + Cardinality(Data \cap NamesIn(sub))

Sized(home, ms, ls) ==
  /\ \A m \in Subs \cup {"temp"} : ms[m].size <= Len(OwnOf(m)) + Room
  /\ \A n \in 1..Len(ls) : Few(ls[n].sub) /\ \A i \in 1..Len(ls[n].sub) : ls[n].sub[i].at < Len(OwnOf(home)) + Room

SizedNow == Sized(Home(ctl, graph), maps, lets)

\* What a let can need at most
LEMMA RoomIs == Room \in Nat /\ Room >= 2 /\ \A S : Cardinality(Data \cap S) \in Nat /\ 2 + Cardinality(Data \cap S) <= Room
<1>1. IsFiniteSet(Data) /\ Cardinality(Data) \in Nat
  BY NamesAssumption, FS_CardinalityType
<1>2. ASSUME NEW S PROVE Cardinality(Data \cap S) \in Nat /\ Cardinality(Data \cap S) <= Cardinality(Data)
  <2>1. Data \cap S \in SUBSET Data
    OBVIOUS
  <2>2. IsFiniteSet(Data \cap S) /\ Cardinality(Data \cap S) <= Cardinality(Data)
    BY <1>1, <2>1, FS_Subset
  <2> QED
    BY <2>2, FS_CardinalityType
<1> QED
  BY <1>1, <1>2 DEF Room

\* With no index free, every index is a local or in the submap.
LEMMA FullIs ==
  ASSUME NEW o, NEW size, NEW free, NEW sub, Parted(o, size, free, sub), free = <<>>
  PROVE  size <= o + Len(sub)
<1>1. o \in Nat /\ size \in Nat /\ o <= size /\ IsSeq(sub) /\ Len(sub) \in Nat /\ Len(free) = 0
  BY LenIs DEF Parted
<1> DEFINE n == Len(sub)
           S == o..(size - 1)
           f == [i \in 1..n |-> sub[i].at]
<1>2. (\A i \in 1..n : sub[i].at \in S) /\ \A k \in S : \E i \in 1..n : sub[i].at = k
  BY <1>1 DEF Parted
<1> HIDE DEF n
<1>3. f \in [1..n -> S] /\ \A k \in S : \E i \in 1..n : f[i] = k
  BY <1>2
<1> HIDE DEF f
<1>4. ExistsSurjection(1..n, S)
  BY <1>3 DEF ExistsSurjection, Surjection
<1>5. Cardinality(S) <= n
  BY <1>1, <1>4, FS_SurjCardinalityBound DEF n
<1>6. Cardinality(S) = IF o > size - 1 THEN 0 ELSE size - 1 - o + 1
  BY <1>1, FS_Interval
<1> HIDE DEF S
<1> QED
  BY <1>1, <1>5, <1>6 DEF n

\* One variable more.
LEMMA AddSized ==
  ASSUME NEW map, NEW own, NEW sub, Holds(map, own, sub), map.size <= Len(own) + Room, Len(sub) < Room, NEW n
  PROVE  AddToSubMap(map, n).size <= Len(own) + Room
<1>1. Parted(Len(own), map.size, map.free, sub) /\ map.size \in Nat /\ Len(own) \in Nat /\ Len(sub) \in Nat /\ Room \in Nat
  BY RoomIs, LenIs DEF Holds, Parted
<1>2. AddToSubMap(map, n).size = IF map.free # <<>> THEN map.size ELSE map.size + 1
  BY AddToSubMapIs
<1>3. CASE map.free # <<>>
  BY <1>2, <1>3
<1>4. CASE map.free = <<>>
  <2>1. map.size <= Len(own) + Len(sub)
    BY <1>1, <1>4, FullIs
  <2> QED
    BY <1>1, <1>2, <1>4, <2>1
<1> QED
  BY <1>3, <1>4

\* The indices of a let that has been read
LEMMA ParsedSized ==
  ASSUME NEW map, NEW own, Bare(map, own), map.size <= Len(own) + Room, NEW n, NEW isNew \in BOOLEAN
  PROVE  LET t == Parsed(map, n, isNew) IN t.size <= Len(own) + Room /\ Len(Last(t.subs)) <= 2
<1> DEFINE p == Pushed(map)
           w == WithX(map)
           ex == [name |-> X, at |-> FreeIndex(p)]
           en == [name |-> n, at |-> FreeIndex(w)]
           one == Append(<<>>, ex)
           two == Append(one, en)
           t2 == AddToSubMap(w, n)
<1>0. Room \in Nat /\ Room >= 2 /\ Len(<<>>) = 0
  BY RoomIs, EmptyIs
<1>1. Holds(p, own, <<>>) /\ p.size = map.size
  BY PushIs DEF Pushed
<1> HIDE DEF p
<1>2. Holds(w, own, one) /\ Last(w.subs) = one
  BY <1>1, AddToSubMapIs DEF WithX, p
<1>3. w.size <= Len(own) + Room
  <2>1. p.size <= Len(own) + Room /\ Len(<<>>) < Room
    BY <1>0, <1>1
  <2>2. w = AddToSubMap(p, X)
    BY DEF WithX, p
  <2> HIDE DEF w
  <2> QED
    BY <1>1, <2>1, <2>2, AddSized
<1>4. Len(one) = 1 /\ IsSeq(one)
  <2>1. IsSeq(one) /\ Len(one) = 0 + 1
    <3> HIDE DEF ex
    <3> QED
      BY EmptyIs, AppendIs
  <2> HIDE DEF one
  <2> QED
    BY <2>1
<1> HIDE DEF one, w
<1>5. Last(t2.subs) = two
  BY <1>2, AddToSubMapIs
<1>6. t2.size <= Len(own) + Room
  <2>1. Len(one) < Room
    BY <1>0, <1>4
  <2> QED
    BY <1>2, <1>3, <2>1, AddSized
<1>7. Len(two) = 2
  <2>1. Len(two) = 1 + 1
    <3> HIDE DEF en
    <3>1. Len(two) = Len(one) + 1
      BY <1>4, AppendIs
    <3> QED
      BY <1>4, <3>1
  <2> HIDE DEF two
  <2> QED
    BY <2>1
<1> HIDE DEF two, t2
<1> DEFINE t == Parsed(map, n, isNew)
<1>8. CASE isNew
  <2>1. t = t2
    BY <1>8 DEF Parsed, t2, w
  <2> HIDE DEF t
  <2>2. t.size <= Len(own) + Room /\ Len(Last(t.subs)) <= 2
    <3>1. t.size <= Len(own) + Room
      BY <1>5, <1>6, <1>7, <2>1
    <3>2. Last(t.subs) = two
      BY <1>5, <1>6, <1>7, <2>1
    <3>3. Len(two) <= 2
      <4> HIDE DEF t
      <4> QED
        BY <1>5, <1>6, <1>7, <2>1
    <3> QED
      BY <3>1, <3>2, <3>3
  <2> QED
    BY <2>2 DEF t
<1>9. CASE ~isNew
  <2>1. t = w
    BY <1>9 DEF Parsed, w
  <2> HIDE DEF t
  <2>2. t.size <= Len(own) + Room /\ Len(Last(t.subs)) <= 2
    <3>1. t.size <= Len(own) + Room
      BY <1>2, <1>3, <1>4, <2>1
    <3>2. Last(t.subs) = one
      BY <1>2, <1>3, <1>4, <2>1
    <3>3. Len(one) <= 2
      <4> HIDE DEF t
      <4> QED
        BY <1>2, <1>3, <1>4, <2>1
    <3> QED
      BY <3>1, <3>2, <3>3
  <2> QED
    BY <2>2 DEF t
<1> QED
  BY <1>8, <1>9

\* A d[i] more: each is added once.
LEMMA DetectedSized ==
  ASSUME NEW map, NEW own, NEW sub, Holds(map, own, sub), map.size <= Len(own) + Room, Few(sub), NEW d \in Data
  PROVE  LET t == Detected(map, d) IN t.size <= Len(own) + Room /\ Few(Last(t.subs))
<1> DEFINE e == [name |-> d, at |-> FreeIndex(map)]
           more == Append(sub, e)
           t == Detected(map, d)
<1>1. Last(map.subs) = sub /\ IsSeq(sub) /\ Len(sub) \in Nat
  <2>1. map.subs = <<sub>> /\ IsSeq(sub)
    BY DEF Holds, Parted
  <2>2. Len(<<sub>>) = 1 /\ <<sub>>[1] = sub
    OBVIOUS
  <2> QED
    BY <2>1, <2>2, LenIs DEF Last
<1>2. CASE d \in NamesIn(sub)
  <2>1. t = map
    BY <1>1, <1>2 DEF Detected
  <2> QED
    BY <1>1, <2>1
<1>3. CASE d \notin NamesIn(sub)
  <2>1. t = AddToSubMap(map, d) /\ Last(AddToSubMap(map, d).subs) = more
    BY <1>1, <1>3, AddToSubMapIs DEF Detected
  <2>2. Len(more) = Len(sub) + 1 /\ more[Len(sub) + 1] = e /\ (\A i \in 1..Len(sub) : more[i] = sub[i]) /\ IsSeq(more)
    <3> HIDE DEF e
    <3> QED
      BY <1>1, AppendIs
  <2>3. e.name = d
    OBVIOUS
  <2> HIDE DEF more, e, t
  <2>4. NamesIn(more) = NamesIn(sub) \cup {d}
    <3>1. NamesIn(sub) = {sub[k].name : k \in 1..Len(sub)} /\ NamesIn(more) = {more[k].name : k \in 1..Len(more)}
      BY <1>1, <2>2, LenIs DEF NamesIn
    <3>2. \A k \in 1..Len(more) : k \in 1..Len(sub) \/ k = Len(sub) + 1
      BY <1>1, <2>2
    <3>3. \A k \in 1..Len(sub) : k \in 1..Len(more)
      BY <1>1, <2>2
    <3>4. Len(sub) + 1 \in 1..Len(more)
      BY <1>1, <2>2
    <3> QED
      BY <2>2, <2>3, <3>1, <3>2, <3>3, <3>4
  <2> DEFINE A == Data \cap NamesIn(sub)
             B == Data \cap NamesIn(more)
  <2>5. B = A \cup {d} /\ d \notin A
    BY <1>3, <2>4
  <2>6. IsFiniteSet(A)
    <3>1. IsFiniteSet(Data) /\ A \in SUBSET Data
      BY NamesAssumption
    <3> QED
      BY <3>1, FS_Subset
  <2>7. Cardinality(A) \in Nat /\ Cardinality(B) \in Nat /\ 2 + Cardinality(A) <= Room /\ 2 + Cardinality(B) <= Room /\ Room \in Nat
    BY RoomIs
  <2> HIDE DEF A, B
  <2>8. Cardinality(B) = Cardinality(A) + 1
    BY <2>5, <2>6, FS_AddElement
  <2>9. Len(sub) <= 2 + Cardinality(A)
    BY DEF Few, A
  <2>10. Few(more)
    <3>1. Len(more) <= 2 + Cardinality(B)
      BY <1>1, <2>2, <2>7, <2>8, <2>9
    <3> QED
      BY <3>1 DEF Few, B
  <2>11. AddToSubMap(map, d).size <= Len(own) + Room
    <3>1. Len(sub) < Room
      BY <1>1, <2>7, <2>8, <2>9
    <3> QED
      BY <3>1, AddSized
  <2> QED
    BY <2>1, <2>10, <2>11 DEF t
<1> QED
  BY <1>2, <1>3

\* No index of a let lies beyond.
LEMMA AddVarsSized ==
  ASSUME NEW map, NEW own, NEW sub, Bare(map, own), Loose(Len(own), sub), map.size <= Len(own) + Room,
         \A i \in 1..Len(sub) : sub[i].at < Len(own) + Room
  PROVE  AddVars(map, sub).size <= Len(own) + Room
<1> DEFINE I == IndicesOf(sub)
           top == Max(I)
           size == Max({map.size, top + 1})
<1>1. map.size \in Nat /\ Len(own) \in Nat /\ Room \in Nat /\ IsSeq(sub) /\ Len(sub) > 0 /\ IsMap(map)
  BY RoomIs DEF Bare, Loose, Parted
<1>2. \A i \in I : i \in Nat /\ i < Len(own) + Room
  <2>1. PICK b \in Nat : \A i \in 1..Len(sub) : sub[i].at \in Len(own)..b
    BY DEF Loose
  <2>2. \A i \in 1..Len(sub) : sub[i].at \in Nat /\ sub[i].at < Len(own) + Room
    BY <1>1, <2>1
  <2> QED
    BY <1>1, <2>2, IndicesIs
<1>3. I # {}
  <2>1. 1 \in 1..Len(sub)
    BY <1>1, LenIs
  <2> QED
    BY <1>1, <2>1, IndicesIs
<1> HIDE DEF I
<1>4. top \in Nat /\ top < Len(own) + Room
  <2> DEFINE b == Len(own) + Room
  <2>1. b \in Nat /\ I \subseteq 0..b
    BY <1>1, <1>2
  <2> HIDE DEF b
  <2>2. top \in I
    BY <1>3, <2>1, MaxIs
  <2> QED
    BY <1>2, <2>2
<1> HIDE DEF top
<1>5. size <= Len(own) + Room
  <2> DEFINE b == Len(own) + Room
             S == {map.size, top + 1}
  <2>1. b \in Nat /\ S \subseteq 0..b /\ S # {}
    BY <1>1, <1>4
  <2> HIDE DEF b
  <2>2. size \in S
    BY <2>1, MaxIs
  <2> QED
    BY <1>1, <1>4, <2>2
<1>6. AddVars(map, sub).size = size
  BY <1>1 DEF AddVars, IsMap, size, top, I
<1> QED
  BY <1>5, <1>6

\* One map is changed.
LEMMA SizedOne ==
  ASSUME NEW home \in Subs \cup {"temp"}, NEW ms, NEW ls, Sized(home, ms, ls), ms = [m \in Subs \cup {"temp"} |-> ms[m]],
         NEW ns, NEW map, ns = [ms EXCEPT ![home] = map], map.size <= Len(OwnOf(home)) + Room
  PROVE  Sized(home, ns, ls)
BY DEF Sized

\* The steps that change a map: parseLet,
LEMMA SizedParseLet == ASSUME Sharing, SizedNow, Sharing', NEW n \in Names, ParseLet(n) PROVE SizedNow'
<1> DEFINE home == Home(ctl, graph)
           own == OwnOf(home)
<1>1. graph.state = "open" /\ graph.depth = Len(ctl)
  BY DEF ParseLet
<1>2. MapForLet = home /\ Bare(maps[home], own) /\ home \in Subs \cup {"temp"} /\ Maps(home, LetNow(ctl, graph), maps, lets) /\ Lets(home, lets)
  BY <1>1, AtHome DEF Sharing
<1>3. Home(ctl, graph)' = home
  <2>1. CurrentMap'
    BY DEF Sharing
  <2> QED
    BY <2>1, ParseLetKeeps
<1>4. PICK isNew \in BOOLEAN :
        /\ maps' = [maps EXCEPT ![home] = Parsed(maps[home], n, isNew)]
        /\ \E l : l.sub = Last(Parsed(maps[home], n, isNew).subs) /\ lets' = Append(lets, l)
  BY <1>2, ParseLetDoes
<1>5. PICK l : l.sub = Last(Parsed(maps[home], n, isNew).subs) /\ lets' = Append(lets, l)
  BY <1>4
<1> DEFINE map == Parsed(maps[home], n, isNew)
<1>6. Sized(home, maps, lets)
  BY DEF SizedNow
<1>7. maps[home].size <= Len(own) + Room
  BY <1>2, <1>6 DEF Sized
<1> HIDE DEF home, own
<1>8. map.size <= Len(own) + Room /\ Len(l.sub) <= 2
  BY <1>2, <1>5, <1>7, ParsedSized
<1>9. Holds(map, own, l.sub)
  BY <1>2, <1>5, ParsedIs
<1> HIDE DEF map
<1>10. \A i \in 1..Len(l.sub) : l.sub[i].at < Len(own) + Room
  <2>1. Parted(Len(own), map.size, map.free, l.sub) /\ map.size \in Nat /\ Len(own) \in Nat /\ Room \in Nat
    BY <1>9, RoomIs DEF Holds, Parted
  <2>2. \A i \in 1..Len(l.sub) : l.sub[i].at \in Len(own)..(map.size - 1)
    BY <2>1 DEF Parted
  <2> QED
    BY <1>8, <2>1, <2>2
<1>11. Few(l.sub)
  <2>1. Cardinality(Data \cap NamesIn(l.sub)) \in Nat
    BY RoomIs
  <2>2. Len(l.sub) \in Nat
    BY <1>9, LenIs DEF Holds, Parted
  <2> QED
    BY <1>8, <2>1, <2>2 DEF Few
<1>a. PICK ms : ms = maps'
  OBVIOUS
<1>b. PICK ls : ls = lets'
  OBVIOUS
<1>12. Sized(home, ms, lets)
  <2>1. maps = [m \in Subs \cup {"temp"} |-> maps[m]]
    BY <1>2 DEF Maps
  <2>2. ms = [maps EXCEPT ![home] = map]
    BY <1>4, <1>a DEF map
  <2> QED
    BY <1>2, <1>6, <1>8, <2>1, <2>2, SizedOne DEF own
<1>13. Len(ls) = Len(lets) + 1 /\ ls[Len(lets) + 1] = l /\ (\A i \in 1..Len(lets) : ls[i] = lets[i]) /\ Len(lets) \in Nat
  <2>1. IsSeq(lets)
    BY <1>2 DEF Lets
  <2> QED
    BY <1>5, <1>b, <2>1, AppendIs
<1>14. Sized(home, ms, ls)
  <2>1. \A k \in 1..Len(ls) : k = Len(lets) + 1 \/ k \in 1..Len(lets)
    BY <1>13
  <2>2. \A k \in 1..Len(ls) : Few(ls[k].sub) /\ \A i \in 1..Len(ls[k].sub) : ls[k].sub[i].at < Len(OwnOf(home)) + Room
    BY <1>10, <1>11, <1>12, <1>13, <2>1 DEF Sized, own
  <2> QED
    BY <1>12, <2>2 DEF Sized
<1> QED
  BY <1>3, <1>14, <1>a, <1>b DEF SizedNow, home

\* doLet,
LEMMA SizedDoLet == ASSUME Sharing, SizedNow, Sharing', DoLet PROVE SizedNow'
<1> DEFINE home == Home(ctl, graph)
           own == OwnOf(home)
           k == Head(graph.todo)
<1>1. /\ graph.state = "drawing" /\ graph.depth = Len(ctl) /\ lets' = lets
      /\ maps' = [maps EXCEPT ![MapForLet] = AddVars(@, lets[k].sub)]
  BY DEF DoLet, Drawing, NextLet
<1>2. MapForLet = home /\ Bare(maps[home], own) /\ home \in Subs \cup {"temp"} /\ Maps(home, LetNow(ctl, graph), maps, lets) /\ Lets(home, lets)
  BY <1>1, AtHome DEF Sharing
<1>3. Home(ctl, graph)' = home /\ k \in 1..Len(lets)
  <2>1. CurrentMap'
    BY DEF Sharing
  <2> QED
    BY <2>1, DoLetKeeps
<1>4. Sized(home, maps, lets)
  BY DEF SizedNow
<1> DEFINE sub == lets[k].sub
           map == AddVars(maps[home], sub)
<1>5. maps[home].size <= Len(own) + Room /\ Loose(Len(own), sub) /\ \A i \in 1..Len(sub) : sub[i].at < Len(own) + Room
  BY <1>2, <1>3, <1>4 DEF Sized, Lets
<1>6. maps' = [maps EXCEPT ![home] = map]
  BY <1>1, <1>2
<1> HIDE DEF home, own, sub
<1>7. map.size <= Len(own) + Room
  BY <1>2, <1>5, AddVarsSized
<1> HIDE DEF map
<1>a. PICK ms : ms = maps'
  OBVIOUS
<1>8. Sized(home, ms, lets)
  <2>1. maps = [m \in Subs \cup {"temp"} |-> maps[m]]
    BY <1>2 DEF Maps
  <2> QED
    BY <1>2, <1>4, <1>6, <1>7, <1>a, <2>1, SizedOne DEF own
<1> QED
  BY <1>1, <1>3, <1>8, <1>a DEF SizedNow, home

\* removeLocalSubMap,
LEMMA SizedRemove ==
  ASSUME Sharing, SizedNow, Sharing', Kind \in {"parse", "let"}, RemoveLocalSubMap, Pop, UNCHANGED <<graph, lets>>
  PROVE  SizedNow'
<1> DEFINE home == Home(ctl, graph)
           own == OwnOf(home)
<1>1. /\ localMap = home /\ home \in Subs \cup {"temp"} /\ Holds(maps[home], own, lets[Top.let].sub)
      /\ Maps(home, LetNow(ctl, graph), maps, lets)
  BY InLetIs DEF Sharing
<1>2. Home(ctl, graph)' = home
  <2>1. CurrentMap'
    BY DEF Sharing
  <2> QED
    BY <2>1, RemoveKeeps
<1>3. Sized(home, maps, lets)
  BY DEF SizedNow
<1>4. maps[home].size <= Len(own) + Room /\ Len(own) \in Nat /\ Room \in Nat
  BY <1>1, <1>3, OwnOfIs, RoomIs DEF Sized
<1> HIDE DEF home, own
<1>5. PICK map : maps' = [maps EXCEPT ![home] = map] /\ map.size <= Len(own) + Room
  <2>1. CASE localMap = "temp"
    <3>1. maps' = [maps EXCEPT ![home] = NoMap] /\ NoMap.size = 0
      BY <1>1, <2>1, EmptyIs DEF RemoveLocalSubMap, NoMap, NewMap
    <3>2. NoMap.size <= Len(own) + Room
      BY <1>4, <3>1
    <3> QED
      BY <3>1, <3>2, Zenon
  <2>2. CASE localMap # "temp"
    <3>1. maps' = [maps EXCEPT ![home] = PopSubMap(maps[home])]
      BY <1>1, <2>2 DEF RemoveLocalSubMap
    <3>2. PopSubMap(maps[home]).size = maps[home].size
      BY <1>1 DEF PopSubMap, Holds, IsMap
    <3> QED
      BY <1>4, <3>1, <3>2
  <2> QED
    BY <2>1, <2>2
<1>a. PICK ms : ms = maps'
  OBVIOUS
<1>6. Sized(home, ms, lets)
  <2>1. maps = [m \in Subs \cup {"temp"} |-> maps[m]]
    BY <1>1 DEF Maps
  <2> QED
    BY <1>1, <1>3, <1>5, <1>a, <2>1, SizedOne DEF own
<1> QED
  BY <1>2, <1>6, <1>a DEF SizedNow, home

\* findAdd,
LEMMA SizedDetect == ASSUME Sharing, SizedNow, Sharing', NEW d \in Data, Detect(d) PROVE SizedNow'
<1> DEFINE home == Home(ctl, graph)
           own == OwnOf(home)
           k == Top.let
           sub == lets[k].sub
           t == Detected(maps[home], d)
           after == Last(t.subs)
<1>0. Kind = "let" /\ maps' = [maps EXCEPT ![localMap] = Detected(maps[localMap], d)]
  BY DEF Detect, InLet, Detected
<1>1. /\ localMap = home /\ home \in Subs \cup {"temp"} /\ Holds(maps[home], own, sub) /\ k \in 1..Len(lets)
      /\ Maps(home, LetNow(ctl, graph), maps, lets) /\ Lets(home, lets)
  BY <1>0, InLetIs DEF Sharing
<1>2. /\ Home(ctl, graph)' = home /\ Len(lets') = Len(lets) /\ (\A n \in 1..Len(lets) : n # k => lets'[n] = lets[n])
      /\ lets'[k].sub = after
  <2>1. CurrentMap'
    BY DEF Sharing
  <2> QED
    BY <1>1, <2>1, DetectKeeps
<1>3. Sized(home, maps, lets)
  BY DEF SizedNow
<1>4. maps[home].size <= Len(own) + Room /\ Few(sub) /\ Len(sub) > 0
  BY <1>1, <1>3 DEF Sized, Lets, Loose
<1> HIDE DEF home, own, k, sub
<1>5. t.size <= Len(own) + Room /\ Few(after)
  BY <1>1, <1>4, DetectedSized
<1>6. Holds(t, own, after)
  BY <1>1, <1>4, DetectedIs
<1> HIDE DEF t, after
<1>7. \A i \in 1..Len(after) : after[i].at < Len(own) + Room
  <2>1. Parted(Len(own), t.size, t.free, after) /\ t.size \in Nat /\ Len(own) \in Nat /\ Room \in Nat
    BY <1>6, RoomIs DEF Holds, Parted
  <2>2. \A i \in 1..Len(after) : after[i].at \in Len(own)..(t.size - 1)
    BY <2>1 DEF Parted
  <2> QED
    BY <1>5, <2>1, <2>2
<1>a. PICK ms : ms = maps'
  OBVIOUS
<1>b. PICK ls : ls = lets'
  OBVIOUS
<1>8. Sized(home, ms, lets)
  <2>1. maps = [m \in Subs \cup {"temp"} |-> maps[m]]
    BY <1>1 DEF Maps
  <2>2. ms = [maps EXCEPT ![home] = t]
    BY <1>0, <1>1, <1>a DEF t
  <2> QED
    BY <1>1, <1>3, <1>5, <2>1, <2>2, SizedOne DEF own
<1>9. Sized(home, ms, ls)
  <2>1. \A n \in 1..Len(ls) : Few(ls[n].sub) /\ \A i \in 1..Len(ls[n].sub) : ls[n].sub[i].at < Len(OwnOf(home)) + Room
    BY <1>2, <1>5, <1>7, <1>8, <1>b DEF Sized, own
  <2> QED
    BY <1>8, <2>1 DEF Sized
<1> QED
  BY <1>2, <1>9, <1>a, <1>b DEF SizedNow, home

\* The maps at the start of a run
LEMMA FreshSized == \A home : Sized(home, FreshMaps, <<>>)
<1>1. ASSUME NEW m \in Subs \cup {"temp"} PROVE FreshMaps[m].size <= Len(OwnOf(m)) + Room
  <2>1. FreshMaps[m].size = Len(OwnOf(m))
    BY DEF FreshMaps, NewMap, NoMap, OwnOf
  <2> QED
    BY <2>1, OwnOfIs, RoomIs
<1> QED
  BY <1>1, EmptyIs DEF Sized

\* and the graph, with which the lets come and go.
LEMMA SizedGraph ==
  ASSUME Sharing, SizedNow, Sharing', BeginGraph \/ (\E twice \in BOOLEAN : EndGraph(twice)) \/ GraphDone \/ Run PROVE SizedNow'
<1>1. lets' = <<>> \/ (lets' = lets /\ Home(ctl, graph)' = Home(ctl, graph))
  <2>1. CurrentMap'
    BY DEF Sharing
  <2> QED
    BY <2>1, GraphKeeps
<1>2. maps' = maps \/ (maps' = FreshMaps /\ lets' = <<>>)
  BY DEF BeginGraph, EndGraph, GraphDone, Run
<1>3. \A home : Sized(home, maps, lets) => Sized(home, maps, <<>>) /\ \A other : Sized(other, maps, <<>>)
  BY EmptyIs DEF Sized
<1>4. \A other : Sized(other, maps, <<>>)
  BY <1>3 DEF SizedNow
<1> QED
  BY <1>1, <1>2, <1>4, FreshSized DEF SizedNow

\* No map outgrows its bound in any step.
LEMMA SizedStep == ASSUME Sharing, SizedNow, [Next]_vars PROVE SizedNow'
<1>0. Sharing' /\ CurrentMap'
  BY SharingStep DEF Sharing
<1>1. ASSUME UNCHANGED <<maps, lets>>, Home(ctl, graph)' = Home(ctl, graph) PROVE SizedNow'
  BY <1>1 DEF SizedNow
<1>2. ASSUME NEW s \in Subs, NEW v \in Val, Call(s, v) PROVE SizedNow'
  <2> DEFINE e == [kind |-> "call", sub |-> s, let |-> 0, map |-> localMap]
  <2>1. ctl' = Append(ctl, e) /\ UNCHANGED <<maps, graph, lets>> /\ e.kind = "call"
    BY <1>2 DEF Call
  <2> HIDE DEF e
  <2>2. Home(ctl, graph)' = Home(ctl, graph)
    BY <1>0, <2>1, CallKeeps
  <2> QED
    BY <1>1, <2>1, <2>2
<1>3. ASSUME NEW n \in Names, ParseLet(n) PROVE SizedNow'
  BY <1>0, <1>3, SizedParseLet
<1>4. ASSUME NEW d \in Data, Detect(d) PROVE SizedNow'
  BY <1>0, <1>4, SizedDetect
<1>5. CASE Return
  <2>1. Home(ctl, graph)' = Home(ctl, graph)
    BY <1>0, <1>5, ReturnKeeps
  <2>2. UNCHANGED <<maps, lets>>
    BY <1>5 DEF Return
  <2> QED
    BY <1>1, <2>1, <2>2
<1>6. CASE DoLet
  BY <1>0, <1>6, SizedDoLet
<1>7. CASE EndParse
  BY <1>0, <1>7, SizedRemove DEF EndParse
<1>8. CASE EndLet
  BY <1>0, <1>8, SizedRemove DEF EndLet, InLet
<1>9. CASE BeginGraph \/ (\E twice \in BOOLEAN : EndGraph(twice)) \/ GraphDone \/ Run
  BY <1>0, <1>9, SizedGraph
<1>10. CASE Retrieve \/ (\E n \in Names, v \in Val : Assign(n, v)) \/ (\E v, w \in Val : Select(v, w)) \/ UNCHANGED vars
  <2>1. UNCHANGED <<ctl, graph, maps, lets>>
    BY <1>10 DEF Retrieve, Assign, Select, vars
  <2> QED
    BY <2>1 DEF SizedNow
<1> QED
  BY <1>2, <1>3, <1>4, <1>5, <1>6, <1>7, <1>8, <1>9, <1>10 DEF Next

\* There are no lets at the start.
LEMMA SizedInit == ASSUME Init PROVE SizedNow
BY FreshSized DEF Init, SizedNow

-----------------------------------------------------------------------------
(***************************************************************************)
(* The locals of the innermost call, and the let at the top, in the current *)
(* frame and below the end of the local indices.                            *)
(***************************************************************************)
\* No map reaches NUM_LOCAL, that of a subroutine or the temporary one.
Wide ==
  /\ Room <= NumLocal
  /\ \A s \in Subs : Len(Locals[s]) + Room <= NumLocal

\* In a call, or in a let on it, the current frame is that of the call.
LEMMA InCall ==
  ASSUME Sharing, Framed, CallOf(ctl, Len(ctl)) # 0
  PROVE  LET call == CallOf(ctl, Len(ctl))
         IN /\ call \in 1..Len(ctl) /\ ctl[call].sub \in Subs /\ localMap = ctl[call].sub
            /\ Len(Locals[ctl[call].sub]) <= Len(frames[level])
<1> DEFINE call == CallOf(ctl, Len(ctl))
<1>1. Stack(ctl) /\ Len(ctl) \in Nat /\ Graph(ctl, graph, Len(lets)) /\ CallFrames(ctl, graph, level, frames) /\ localMap = MapOf(ctl, Len(ctl))
      /\ Len(lets) \in Nat
  BY FramedIs, SharingIs
<1>2. PICK m : LastCall(ctl, Len(ctl), m)
  BY <1>1 DEF Stack
<1>3. call = m /\ m \in 0..Len(ctl)
  BY <1>1, <1>2, CallOfLast
<1>4. call \in 1..Len(ctl) /\ ctl[call].kind = "call" /\ \A i \in 1..Len(ctl) : ctl[i].kind = "call" => i <= call
  BY <1>1, <1>2, <1>3 DEF LastCall, Calls
<1> HIDE DEF call
<1>5. ctl[call].sub \in Subs
  BY <1>1, <1>4 DEF Stack
<1>6. localMap = ctl[call].sub
  BY <1>1, <1>4 DEF MapOf, call
<1>7. FrameOf(ctl, graph, level, call) = level
  <2>1. ctl # <<>> /\ Kind = ctl[Len(ctl)].kind /\ Len(ctl) \in 1..Len(ctl)
    <3>1. Len(ctl) # 0
      BY <1>1, <1>4
    <3> QED
      BY <1>1, <3>1, LenIs DEF Stack, Kind, Top
  <2>2. CASE Kind = "call"
    <3>1. call = Len(ctl)
      <4>1. Len(ctl) <= call
        BY <1>4, <2>1, <2>2
      <4> QED
        BY <1>1, <1>4, <4>1
    <3> QED
      BY <2>1, <2>2, <3>1, AtLevel
  <2>3. CASE Kind # "call"
    <3>1. Len(ctl) = graph.depth + 1 /\ graph.depth \in Nat
      BY <1>1, <2>1, <2>3, TopIs
    <3>2. call # Len(ctl)
      BY <1>4, <2>1, <2>3
    <3>3. graph.depth > 0 /\ graph.depth \in 1..Len(ctl)
      BY <1>1, <1>4, <3>1, <3>2
    <3>4. call = graph.depth
      <4>1. ctl[graph.depth].kind = "call"
        BY <1>1, <3>3 DEF Graph
      <4> QED
        BY <1>1, <1>4, <3>1, <3>2, <3>3, <4>1
    <3> QED
      BY <2>1, <2>3, <3>3, <3>4, AtLevel
  <2> QED
    BY <2>2, <2>3
<1>8. Len(Locals[ctl[call].sub]) <= Len(frames[level])
  BY <1>1, <1>4, <1>7 DEF CallFrames
<1> QED
  BY <1>4, <1>5, <1>6, <1>8 DEF call

\* All of it together
LEMMA CellsAre == ASSUME Wide, Sharing, Framed, SizedNow PROVE CellsExist
<1> DEFINE call == CallIn(Len(ctl))
           own == IF call = 0 THEN {} ELSE {k - 1 : k \in DOMAIN Locals[ctl[call].sub]}
           let == IF InLet THEN IndicesOf(lets[Top.let].sub) ELSE {}
<1>1. call = CallOf(ctl, Len(ctl))
  BY DEF CallIn, CallOf, Calls
<1> HIDE DEF call
<1>2. NumLocal \in Nat /\ Room \in Nat
  BY NamesAssumption, RoomIs
<1>3. ASSUME NEW m \in Subs \cup {"temp"} PROVE maps[m].size <= NumLocal /\ maps[m].size \in Nat
  <2>1. maps[m].size <= Len(OwnOf(m)) + Room /\ Len(OwnOf(m)) \in Nat
    BY OwnOfIs DEF SizedNow, Sized
  <2>2. maps[m].size \in Nat
    <3>1. Maps(Home(ctl, graph), LetNow(ctl, graph), maps, lets)
      BY DEF Sharing
    <3>2. \/ Bare(maps[m], OwnOf(m))
          \/ Holds(maps[m], OwnOf(m), lets[LetNow(ctl, graph)].sub)
      BY <3>1 DEF Maps
    <3> QED
      BY <3>2 DEF Bare, Holds, Parted
  <2>3. Len(OwnOf(m)) + Room <= NumLocal
    <3>1. CASE m = "temp"
      <4>1. Len(OwnOf(m)) = 0
        BY <3>1, EmptyIs DEF OwnOf
      <4> QED
        BY <1>2, <4>1 DEF Wide
    <3>2. CASE m # "temp"
      BY <3>2 DEF OwnOf, Wide
    <3> QED
      BY <3>1, <3>2
  <2> QED
    BY <1>2, <2>1, <2>2, <2>3
<1>4. ASSUME NEW i \in own PROVE Fits(i) /\ i < Len(frames[level])
  <2> DEFINE s == ctl[call].sub
  <2>1. call # 0
    BY <1>4
  <2>2. s \in Subs /\ localMap = s /\ Len(Locals[s]) <= Len(frames[level])
    BY <1>1, <2>1, InCall
  <2>3. level \in 1..Len(frames) /\ Len(frames[level]) \in Nat
    <3>1. ctl # <<>>
      <4> SUFFICES ASSUME ctl = <<>> PROVE FALSE
        OBVIOUS
      <4>1. localMap = "none"
        BY NoMapAtAll
      <4> QED
        BY <2>2, <4>1, NamesAssumption
    <3>2. level \in 1..Len(frames)
      BY <3>1, AtLevel
    <3> QED
      BY <3>2, FramedIs, LenIs DEF SeqSeq
  <2>4. maps[s].size \in Nat /\ Len(Locals[s]) \in Nat /\ Len(Locals[s]) <= maps[s].size /\ maps[s].size <= NumLocal
    BY <1>3, <2>2, RoomFor
  <2>5. i \in Nat /\ i < Len(Locals[s])
    <3>1. DOMAIN Locals[s] = 1..Len(Locals[s])
      BY <2>2, NamesAssumption
    <3>2. PICK k \in DOMAIN Locals[s] : i = k - 1
      BY <1>4, <2>1
    <3> QED
      BY <2>4, <3>1, <3>2
  <2> HIDE DEF s
  <2>6. localMap # "none" /\ i < maps[localMap].size /\ i < NumLocal /\ i < Len(frames[level])
    BY <1>2, <2>2, <2>3, <2>4, <2>5, NamesAssumption
  <2> QED
    BY <2>6 DEF Fits
<1>5. ASSUME NEW i \in let PROVE Fits(i) /\ i < Len(frames[level])
  <2>1. Kind = "let" /\ i \in IndicesOf(lets[Top.let].sub)
    BY <1>5 DEF InLet
  <2> DEFINE sub == lets[Top.let].sub
  <2>2. localMap \in Subs \cup {"temp"} /\ Holds(maps[localMap], OwnOf(localMap), sub) /\ Top.let \in 1..Len(lets)
    BY <2>1, InLetIs
  <2>3. ctl # <<>>
    BY <2>1 DEF Kind
  <2>4. LetFrame(ctl, graph, level) = level
    BY <2>1, <2>3, AtLevel
  <2>5. \A j \in 1..Len(sub) : sub[j].at < Len(frames[level])
    BY <2>2, <2>4, FramedIs DEF LetFrames
  <2> HIDE DEF sub
  <2>6. Parted(Len(OwnOf(localMap)), maps[localMap].size, maps[localMap].free, sub)
    BY <2>2 DEF Holds
  <2>7. PICK j \in 1..Len(sub) : sub[j].at = i
    <3>1. IsSeq(sub)
      BY <2>6 DEF Parted
    <3> QED
      BY <2>1, <3>1, IndicesIs DEF sub
  <2>8. i \in Nat /\ i < maps[localMap].size /\ maps[localMap].size \in Nat
    <3>1. i \in Len(OwnOf(localMap))..(maps[localMap].size - 1) /\ Len(OwnOf(localMap)) \in Nat /\ maps[localMap].size \in Nat
      BY <2>6, <2>7 DEF Parted
    <3> QED
      BY <3>1
  <2>9. i < NumLocal
    <3>1. maps[localMap].size <= NumLocal
      BY <1>3, <2>2
    <3> QED
      BY <1>2, <2>8, <3>1
  <2>10. localMap # "none"
    BY <2>2, NamesAssumption
  <2> QED
    BY <2>5, <2>7, <2>8, <2>9, <2>10 DEF Fits
<1> QED
  BY <1>4, <1>5 DEF CellsExist, call

\* IndicesPartition: getFreeID, addVars, popSubMap and removeFromParent keep
\* every index of every map in one place, however calls and lets interleave.
THEOREM PartitionKept == Spec => []IndicesPartition
<1>1. Init => Sharing
  BY CurrentMapInit, SharingInit
<1>2. Sharing /\ [Next]_vars => Sharing'
  BY SharingStep
<1>3. Sharing => IndicesPartition
  BY SharingParts
<1> QED
  BY <1>1, <1>2, <1>3, PTL DEF Spec

\* IndicesComeBack: "variable not free when adding submap" of addVars is never
\* raised, in a graph of any depth, for lets drawn once or twice.
THEOREM IndicesReturn == Spec => []IndicesComeBack
<1>1. Init => Sharing
  BY CurrentMapInit, SharingInit
<1>2. Sharing /\ [Next]_vars => Sharing'
  BY SharingStep
<1>3. Sharing => IndicesComeBack
  BY SharingBack
<1> QED
  BY <1>1, <1>2, <1>3, PTL DEF Spec

\* CellsExist: with at least Room local indices left beside the locals of
\* every subroutine, GLEVars::check refuses no index in use and no index lies
\* outside of its frame, in frames used again by other calls, lets and runs.
THEOREM CellsThere == ASSUME Wide PROVE Spec => []CellsExist
<1> DEFINE Inv == Sharing /\ Framed /\ SizedNow
<1>1. Init => Inv
  BY CurrentMapInit, SharingInit, FramedInit, SizedInit
<1>2. Inv /\ [Next]_vars => Inv'
  BY SharingStep, FramedStep, SizedStep
<1>3. Inv => CellsExist
  BY CellsAre
<1> QED
  BY <1>1, <1>2, <1>3, PTL DEF Spec

-----------------------------------------------------------------------------
(***************************************************************************)
(* Indices stand for names: what a let and a statement read through them is *)
(* the variable that the text of the script means, and every step of Vars   *)
(* is a step of Scopes or changes nothing that Scopes knows of.             *)
(***************************************************************************)

(* Names and indices                                                        *)

NamesOnce(sub) == \A i, j \in 1..Len(sub) : sub[i].name = sub[j].name => i = j

\* The names of a submap, by their places
LEMMA NamesAre == ASSUME NEW s, IsSeq(s) PROVE \A n : n \in NamesIn(s) <=> \E i \in 1..Len(s) : s[i].name = n
BY LenIs DEF NamesIn

\* The index of a name in a submap
LEMMA IndexInIs ==
  ASSUME NEW sub, IsSeq(sub), NEW n, n \in NamesIn(sub)
  PROVE  /\ \E k \in 1..Len(sub) : sub[k].name = n /\ IndexIn(sub, n) = sub[k].at
         /\ NamesOnce(sub) => \A k \in 1..Len(sub) : sub[k].name = n => IndexIn(sub, n) = sub[k].at
<1> DEFINE k == CHOOSE k \in DOMAIN sub : sub[k].name = n
<1>1. \E i \in DOMAIN sub : sub[i].name = n
  BY DEF NamesIn
<1>2. k \in DOMAIN sub /\ sub[k].name = n
  BY <1>1
<1>3. IndexIn(sub, n) = sub[k].at
  BY DEF IndexIn
<1>4. DOMAIN sub = 1..Len(sub)
  BY LenIs
<1> HIDE DEF k
<1> QED
  BY <1>2, <1>3, <1>4 DEF NamesOnce

\* The index of a local is its place in the map of the subroutine.
LEMMA OwnIndex ==
  ASSUME NEW own, IsSeq(own), NEW n
  PROVE  IF n \in ToSet(own) THEN \E k \in 1..Len(own) : own[k] = n /\ VarGet(NewMap(own), n) = k - 1
         ELSE VarGet(NewMap(own), n) = -1
<1> DEFINE having == {k \in DOMAIN NewMap(own).subs : n \in NamesIn(NewMap(own).subs[k])}
           places == {k \in DOMAIN own : own[k] = n}
           c == CHOOSE k \in places : TRUE
<1>1. having = {}
  BY DEF NewMap
<1>2. NewMap(own).own = own
  BY DEF NewMap
<1>3. VarGet(NewMap(own), n) = IF places # {} THEN c - 1 ELSE -1
  BY <1>1, <1>2 DEF VarGet
<1>4. DOMAIN own = 1..Len(own)
  BY LenIs
<1>5. CASE n \in ToSet(own)
  <2>1. places # {}
    BY <1>5 DEF ToSet
  <2>2. c \in places
    BY <2>1
  <2> HIDE DEF c
  <2> QED
    BY <1>3, <1>4, <1>5, <2>1, <2>2
<1>6. CASE n \notin ToSet(own)
  <2>1. places = {}
    BY <1>6 DEF ToSet
  <2> QED
    BY <1>3, <1>6, <2>1
<1> QED
  BY <1>5, <1>6

\* var_get: the submap first
LEMMA HeldGet ==
  ASSUME NEW map, NEW own, NEW sub, Holds(map, own, sub), NEW n
  PROVE  VarGet(map, n) = IF n \in NamesIn(sub) THEN IndexIn(sub, n) ELSE VarGet(NewMap(own), n)
<1> DEFINE having == {k \in DOMAIN map.subs : n \in NamesIn(map.subs[k])}
           places == {k \in DOMAIN own : own[k] = n}
           c == CHOOSE k \in places : TRUE
<1>1. map.own = own /\ map.subs = <<sub>>
  BY DEF Holds
<1>2. DOMAIN map.subs = {1} /\ map.subs[1] = sub
  BY <1>1
<1>3. having = IF n \in NamesIn(sub) THEN {1} ELSE {}
  BY <1>2
<1>4. VarGet(map, n) = IF having # {} THEN IndexIn(map.subs[Max(having)], n)
                       ELSE IF places # {} THEN c - 1 ELSE -1
  BY <1>1 DEF VarGet
<1>5. Max({1}) = 1
  <2>1. {1} \subseteq 0..1 /\ {1} # {}
    OBVIOUS
  <2>2. Max({1}) \in {1}
    BY <2>1, MaxIs
  <2> QED
    BY <2>2
<1>6. VarGet(NewMap(own), n) = IF places # {} THEN c - 1 ELSE -1
  <2>1. {k \in DOMAIN NewMap(own).subs : n \in NamesIn(NewMap(own).subs[k])} = {} /\ NewMap(own).own = own
    BY DEF NewMap
  <2> QED
    BY <2>1 DEF VarGet
<1> HIDE DEF having, places, c
<1>7. CASE n \in NamesIn(sub)
  <2>1. having = {1}
    BY <1>3, <1>7
  <2> QED
    BY <1>2, <1>4, <1>5, <1>7, <2>1
<1>8. CASE n \notin NamesIn(sub)
  <2>1. having = {}
    BY <1>3, <1>8
  <2> QED
    BY <1>4, <1>6, <1>8, <2>1
<1> QED
  BY <1>7, <1>8

-----------------------------------------------------------------------------
(***************************************************************************)
(* A let keeps the index of X and the reference its expression was parsed   *)
(* to.  They are good for as long as the let lives because the submap keeps *)
(* what it has, and gets nothing but names of data sets.                    *)
(***************************************************************************)
NamedLet(own, let) ==
  /\ NamesOnce(let.sub)
  /\ \E i \in 1..Len(let.sub) : let.sub[i].name = X /\ let.sub[i].at = let.x
  /\ let.name \in Names
  /\ \/ \E i \in 1..Len(let.sub) : let.sub[i].name = let.name /\ let.ref = Local(let.sub[i].at)
     \/ /\ let.name \notin NamesIn(let.sub) \cup Data /\ let.name \in ToSet(own)
        /\ let.ref = Local(VarGet(NewMap(own), let.name))
     \/ /\ let.name \notin NamesIn(let.sub) \cup Data \cup ToSet(own) /\ let.name \in Globals
        /\ let.ref = Global(let.name)

NamedBy(own, ls) == \A n \in 1..Len(ls) : NamedLet(own, ls[n])

NamedNow == NamedBy(OwnOf(Home(ctl, graph)), lets)

\* The data sets have names of their own.
Apart == Data \cap Globals = {} /\ \A s \in Subs : Data \cap Own(s) = {}

\* One entry, and one more
LEMMA PairIs ==
  ASSUME NEW a, NEW b
  PROVE  LET one == Append(<<>>, a)
             two == Append(one, b)
         IN /\ IsSeq(one) /\ Len(one) = 1 /\ one[1] = a
            /\ IsSeq(two) /\ Len(two) = 2 /\ two[1] = a /\ two[2] = b
<1> DEFINE one == Append(<<>>, a)
           two == Append(one, b)
<1>1. IsSeq(one) /\ Len(one) = 0 + 1 /\ one[0 + 1] = a
  BY EmptyIs, AppendIs
<1> HIDE DEF one
<1>2. IsSeq(one) /\ Len(one) = 1 /\ one[1] = a
  BY <1>1
<1>3. IsSeq(two) /\ Len(two) = Len(one) + 1 /\ two[Len(one) + 1] = b /\ \A i \in 1..Len(one) : two[i] = one[i]
  <2>1. IsSeq(one)
    BY <1>2
  <2> QED
    BY ONLY <2>1, AppendIs
<1> HIDE DEF two
<1>4. IsSeq(two) /\ Len(two) = 2 /\ two[1] = a /\ two[2] = b
  BY <1>2, <1>3
<1> QED
  BY <1>2, <1>4 DEF one, two

\* Reading a let with the name n makes the map t of the map, with submap sub.
ParsedFor(map, n) == Parsed(map, n, IsNew(map, n))

ParsesTo(map, own, n, t, sub) ==
  IsSeq(own) /\ Bare(map, own) /\ t = ParsedFor(map, n) /\ sub = Last(t.subs)

\* The submap of a let that has been read: X, and the name that is new
LEMMA ParsedNames ==
  ASSUME NEW map, NEW own, NEW n, NEW t, NEW sub, ParsesTo(map, own, n, t, sub)
  PROVE  /\ IsNew(map, n) <=> n # X /\ n \notin ToSet(own) \cup Globals
         /\ VarGet(WithX(map), n) = -1 <=> n # X /\ n \notin ToSet(own)
         /\ Len(sub) = IF IsNew(map, n) THEN 2 ELSE 1
         /\ sub[1] = [name |-> X, at |-> FreeIndex(Pushed(map))]
         /\ IsNew(map, n) => sub[2] = [name |-> n, at |-> FreeIndex(WithX(map))]
         /\ Holds(t, own, sub) /\ NamesOnce(sub)
         /\ NamesIn(sub) = {X} \cup (IF IsNew(map, n) THEN {n} ELSE {})
<1> DEFINE p == Pushed(map)
           w == WithX(map)
           ex == [name |-> X, at |-> FreeIndex(p)]
           en == [name |-> n, at |-> FreeIndex(w)]
           one == Append(<<>>, ex)
           two == Append(one, en)
           t2 == AddToSubMap(w, n)
           isNew == IsNew(map, n)
<1>0. IsSeq(own) /\ Bare(map, own) /\ t = Parsed(map, n, isNew) /\ sub = Last(t.subs)
  BY DEF ParsesTo, ParsedFor
<1> USE <1>0
<1>1. Holds(p, own, <<>>) /\ p.size = map.size
  BY PushIs DEF Pushed
<1> HIDE DEF p
<1>2. Holds(w, own, one) /\ Last(w.subs) = one /\ FreeIndex(p) \in Len(own)..(w.size - 1)
  BY <1>1, AddToSubMapIs DEF WithX, p
<1>3. Len(one) = 1 /\ one[1] = ex /\ IsSeq(one) /\ Len(two) = 2 /\ two[1] = ex /\ two[2] = en /\ IsSeq(two)
  <2> HIDE DEF ex, en
  <2> QED
    BY PairIs
<1> HIDE DEF one, w
<1>4. Holds(t2, own, two) /\ Last(t2.subs) = two
  BY <1>2, AddToSubMapIs
<1>7. FreeIndex(p) \in Nat
  <2>1. Len(own) \in Nat /\ w.size \in Nat
    BY <1>2 DEF Holds, Parted
  <2> QED
    BY <1>2, <2>1
<1>8. NamesIn(one) = {X}
  <2>1. ex.name = X
    OBVIOUS
  <2> HIDE DEF ex
  <2> QED
    BY <1>3, <2>1, NamesAre
<1>9. VarGet(w, n) = IF n \in NamesIn(one) THEN IndexIn(one, n) ELSE VarGet(NewMap(own), n)
  BY <1>2, HeldGet
<1>10. IndexIn(one, X) = FreeIndex(p)
  <2>1. X \in NamesIn(one)
    BY <1>8
  <2>2. PICK k \in 1..Len(one) : IndexIn(one, X) = one[k].at
    BY <1>3, <2>1, IndexInIs
  <2>3. k = 1
    BY <1>3
  <2> QED
    BY <1>3, <2>2, <2>3
<1>11. VarGet(w, n) = -1 <=> n # X /\ n \notin ToSet(own)
  <2>1. CASE n = X
    BY <1>7, <1>8, <1>9, <1>10, <2>1
  <2>2. CASE n # X
    <3>1. VarGet(w, n) = VarGet(NewMap(own), n)
      BY <1>8, <1>9, <2>2
    <3>2. CASE n \in ToSet(own)
      <4>1. PICK k \in 1..Len(own) : VarGet(NewMap(own), n) = k - 1
        BY <3>2, OwnIndex
      <4> QED
        BY <2>2, <3>1, <3>2, <4>1, LenIs
    <3>3. CASE n \notin ToSet(own)
      BY <2>2, <3>1, <3>3, OwnIndex
    <3> QED
      BY <3>2, <3>3
  <2> QED
    BY <2>1, <2>2
<1>12. isNew <=> n # X /\ n \notin ToSet(own) \cup Globals
  BY <1>11 DEF IsNew, w
<1>13. CASE isNew
  <2>1. t = t2
    BY <1>13 DEF Parsed, t2, w
  <2> HIDE DEF t2
  <2>2. sub = two
    BY <1>4, <2>1
  <2>3. n # X /\ ex.name = X /\ en.name = n
    BY <1>12, <1>13
  <2> HIDE DEF two, ex, en
  <2>4. Len(two) = 2 /\ two[1] = ex /\ two[2] = en /\ IsSeq(two) /\ \A i \in 1..2 : i = 1 \/ i = 2
    BY <1>3
  <2>5. NamesOnce(two)
    BY <2>3, <2>4 DEF NamesOnce
  <2>6. NamesIn(two) = {X, n}
    BY <2>3, <2>4, NamesAre
  <2>7. Len(sub) = 2 /\ sub[1] = ex /\ sub[2] = en /\ Holds(t, own, sub) /\ NamesOnce(sub) /\ NamesIn(sub) = {X} \cup {n}
    BY <1>4, <2>1, <2>2, <2>4, <2>5, <2>6
  <2> QED
    BY <1>11, <1>12, <1>13, <2>7 DEF ex, en, p, w
<1>14. CASE ~ isNew
  <2>1. t = w
    BY <1>14 DEF Parsed, w
  <2>2. sub = one
    BY <1>2, <2>1
  <2>3. ex.name = X
    OBVIOUS
  <2> HIDE DEF ex
  <2>4. NamesOnce(one)
    BY <1>3 DEF NamesOnce
  <2>5. Len(sub) = 1 /\ sub[1] = ex /\ Holds(t, own, sub) /\ NamesOnce(sub) /\ NamesIn(sub) = {X} \cup {}
    BY <1>2, <1>3, <1>8, <2>1, <2>2, <2>4
  <2> QED
    BY <1>11, <1>12, <1>14, <2>5 DEF ex, p, w
<1> QED
  BY <1>13, <1>14

\* What parseLet makes of its let: the cells of its frame, the reference of the
\* name of its expression, and the record that is kept.
LetCells(fs, at, new) ==
  LET length == Max({Len(fs[at])} \cup {i + 1 : i \in new})
  IN [i \in 1..length |-> IF i - 1 \in new THEN 0 ELSE Ensure(fs[at], length)[i]]

LetRef(map, n) ==
  IF VarGet(WithX(map), n) = -1 /\ n \in Globals THEN Global(n) ELSE Local(VarGet(ParsedFor(map, n), n))

ReadLet(map, n, cells) ==
  [sub |-> Last(ParsedFor(map, n).subs), x |-> FreeIndex(Pushed(map)), name |-> n, ref |-> LetRef(map, n),
   value |-> IF LetRef(map, n).local THEN cells[LetRef(map, n).at + 1] ELSE globals[n]]

\* ParseLet in these terms
LEMMA ParseLetReads ==
  ASSUME NEW n \in Names, ParseLet(n)
  PROVE  LET map == maps[MapForLet]
             cells == LetCells(FramesForLet, LevelForLet, NewIndices(map, IsNew(map, n)))
         IN /\ frames' = [FramesForLet EXCEPT ![LevelForLet] = cells]
            /\ lets' = Append(lets, ReadLet(map, n, cells))
<1>1. frames' = [FramesForLet EXCEPT ![LevelForLet] = LetCells(FramesForLet, LevelForLet, NewIndices(maps[MapForLet], IsNew(maps[MapForLet], n)))]
  BY Zenon DEF ParseLet, NewIndices, IsNew, WithX, Pushed, LetCells
<1>2. lets' = Append(lets, ReadLet(maps[MapForLet], n, LetCells(FramesForLet, LevelForLet, NewIndices(maps[MapForLet], IsNew(maps[MapForLet], n)))))
  BY Zenon DEF ParseLet, NewIndices, IsNew, WithX, Pushed, LetCells, ReadLet, LetRef, ParsedFor, Parsed
<1> QED
  BY <1>1, <1>2

\* Its name is known by the index it will always have.
LEMMA ReadLetNamed ==
  ASSUME Apart, NEW home \in Subs \cup {"temp"}, NEW map, Bare(map, OwnOf(home)), NEW n \in Names, NEW cells
  PROVE  NamedLet(OwnOf(home), ReadLet(map, n, cells)) /\ IsLet(ReadLet(map, n, cells))
<1> DEFINE own == OwnOf(home)
           isNew == IsNew(map, n)
           t == ParsedFor(map, n)
           sub == Last(t.subs)
           let == ReadLet(map, n, cells)
           ref == LetRef(map, n)
<1>1. IsSeq(own) /\ isNew \in BOOLEAN
  BY OwnOfIs DEF IsNew
<1>2. n \in ToSet(own) => n \notin Data
  BY DEF Apart, Own, OwnOf, ToSet
<1>3. n \in Globals => n \notin Data
  BY DEF Apart
<1> HIDE DEF own, isNew
<1>4. /\ isNew <=> n # X /\ n \notin ToSet(own) \cup Globals
      /\ VarGet(WithX(map), n) = -1 <=> n # X /\ n \notin ToSet(own)
      /\ Len(sub) = IF isNew THEN 2 ELSE 1
      /\ sub[1] = [name |-> X, at |-> FreeIndex(Pushed(map))]
      /\ isNew => sub[2] = [name |-> n, at |-> FreeIndex(WithX(map))]
      /\ Holds(t, own, sub) /\ NamesOnce(sub)
      /\ NamesIn(sub) = {X} \cup (IF isNew THEN {n} ELSE {})
  <2>1. ParsesTo(map, own, n, t, sub)
    BY <1>1 DEF own, ParsesTo
  <2> USE DEF isNew
  <2> HIDE DEF t, sub
  <2> QED
    BY ONLY <2>1, ParsedNames
<1>5. let.sub = sub /\ let.x = FreeIndex(Pushed(map)) /\ let.name = n /\ let.ref = ref /\ IsLet(let)
  BY DEF ReadLet, IsLet
<1>6. ref = IF VarGet(WithX(map), n) = -1 /\ n \in Globals THEN Global(n) ELSE Local(VarGet(t, n))
  BY DEF LetRef
<1>7. VarGet(t, n) = IF n \in NamesIn(sub) THEN IndexIn(sub, n) ELSE VarGet(NewMap(own), n)
  BY <1>4, HeldGet
<1> HIDE DEF let, t, sub, ref
<1>8. IsSeq(sub) /\ 1 \in 1..Len(sub) /\ sub[1].name = X /\ sub[1].at = FreeIndex(Pushed(map))
  BY <1>4 DEF Holds, Parted
<1>9. n \in NamesIn(sub) => \E i \in 1..Len(sub) : sub[i].name = n /\ ref = Local(sub[i].at)
  <2> SUFFICES ASSUME n \in NamesIn(sub) PROVE \E i \in 1..Len(sub) : sub[i].name = n /\ ref = Local(sub[i].at)
    OBVIOUS
  <2>1. ref = Local(IndexIn(sub, n))
    BY <1>4, <1>6, <1>7
  <2>2. PICK i \in 1..Len(sub) : sub[i].name = n /\ IndexIn(sub, n) = sub[i].at
    BY <1>8, IndexInIs
  <2> QED
    BY <2>1, <2>2
<1>10. n \notin NamesIn(sub) => n # X /\ n \in ToSet(own) \cup Globals
  BY <1>4
<1>11. n \notin NamesIn(sub) /\ n \in ToSet(own) => ref = Local(VarGet(NewMap(own), n))
  BY <1>4, <1>6, <1>7
<1>12. n \notin NamesIn(sub) /\ n \notin ToSet(own) => ref = Global(n)
  BY <1>4, <1>6, <1>10
<1>13. NamesOnce(let.sub) /\ (\E i \in 1..Len(let.sub) : let.sub[i].name = X /\ let.sub[i].at = let.x) /\ let.name \in Names
  BY <1>4, <1>5, <1>8
<1>14. NamedLet(own, let)
  <2>1. CASE n \in NamesIn(sub)
    BY <1>5, <1>9, <1>13, <2>1 DEF NamedLet
  <2>2. CASE n \notin NamesIn(sub)
    <3>1. n \notin NamesIn(sub) \cup Data /\ (n \in ToSet(own) \/ n \in Globals)
      BY <1>2, <1>3, <1>10, <2>2 DEF own
    <3>2. CASE n \in ToSet(own)
      BY <1>5, <1>11, <1>13, <3>1, <3>2 DEF NamedLet
    <3>3. CASE n \notin ToSet(own)
      BY <1>5, <1>12, <1>13, <3>1, <3>3 DEF NamedLet
    <3> QED
      BY <3>2, <3>3
  <2> QED
    BY <2>1, <2>2
<1> QED
  BY <1>5, <1>14 DEF let, own

\* findAdd: the submap is what it was, or has one name more.
LEMMA DetectedSub ==
  ASSUME NEW map, NEW own, NEW sub, Holds(map, own, sub), NEW d, NEW after, after = Last(Detected(map, d).subs)
  PROVE  /\ NamesIn(after) = NamesIn(sub) \cup {d} /\ (NamesOnce(sub) => NamesOnce(after))
         /\ IsSeq(after) /\ Len(sub) <= Len(after) /\ \A i \in 1..Len(sub) : after[i] = sub[i]
<1> DEFINE t == Detected(map, d)
           e == [name |-> d, at |-> FreeIndex(map)]
           more == Append(sub, e)
<1>1. Last(map.subs) = sub /\ IsSeq(sub) /\ Len(sub) \in Nat
  <2>1. map.subs = <<sub>> /\ IsSeq(sub)
    BY DEF Holds, Parted
  <2>2. Len(<<sub>>) = 1 /\ <<sub>>[1] = sub
    OBVIOUS
  <2> QED
    BY <2>1, <2>2, LenIs DEF Last
<1>2. CASE d \in NamesIn(sub)
  <2>1. after = sub
    BY <1>1, <1>2 DEF Detected
  <2> QED
    BY <1>1, <1>2, <2>1
<1>3. CASE d \notin NamesIn(sub)
  <2>1. t = AddToSubMap(map, d)
    BY <1>1, <1>3 DEF Detected
  <2>2. after = more
    BY <2>1, AddToSubMapIs
  <2>3. e.name = d
    OBVIOUS
  <2>4. IsSeq(more) /\ Len(more) = Len(sub) + 1 /\ more[Len(sub) + 1] = e /\ \A i \in 1..Len(sub) : more[i] = sub[i]
    <3> HIDE DEF e
    <3> QED
      BY <1>1, AppendIs
  <2> HIDE DEF more, e
  <2>5. \A i \in 1..Len(more) : i \in 1..Len(sub) \/ i = Len(sub) + 1
    BY <1>1, <2>4
  <2>6. Len(sub) + 1 \in 1..Len(more) /\ \A i \in 1..Len(sub) : i \in 1..Len(more)
    BY <1>1, <2>4
  <2>7. \A n : n \in NamesIn(more) <=> n \in NamesIn(sub) \/ n = d
    BY <1>1, <2>3, <2>4, <2>5, <2>6, NamesAre
  <2>8. ASSUME NamesOnce(sub) PROVE NamesOnce(more)
    <3> SUFFICES ASSUME NEW i \in 1..Len(more), NEW j \in 1..Len(more), more[i].name = more[j].name PROVE i = j
      BY DEF NamesOnce
    <3>1. \A k \in 1..Len(sub) : sub[k].name # d
      BY <1>1, <1>3, NamesAre
    <3>2. CASE i \in 1..Len(sub) /\ j \in 1..Len(sub)
      BY <2>4, <2>8, <3>2 DEF NamesOnce
    <3>3. CASE i = Len(sub) + 1 /\ j = Len(sub) + 1
      BY <3>3
    <3>4. CASE i \in 1..Len(sub) /\ j = Len(sub) + 1
      BY <2>3, <2>4, <3>1, <3>4
    <3>5. CASE i = Len(sub) + 1 /\ j \in 1..Len(sub)
      BY <2>3, <2>4, <3>1, <3>5
    <3> QED
      BY <2>5, <3>2, <3>3, <3>4, <3>5
  <2>9. NamesIn(more) = NamesIn(sub) \cup {d} /\ Len(sub) <= Len(more)
    BY <1>1, <2>4, <2>7
  <2> QED
    BY <2>2, <2>4, <2>8, <2>9
<1> QED
  BY <1>2, <1>3

\* What a let has been read with stays in its submap.
LEMMA NamedMore ==
  ASSUME NEW own, NEW let, NEW let2, NamedLet(own, let), let2.x = let.x, let2.name = let.name, let2.ref = let.ref,
         NEW d \in Data, NamesIn(let2.sub) = NamesIn(let.sub) \cup {d}, NamesOnce(let2.sub),
         Len(let.sub) \in Nat, Len(let2.sub) \in Nat, Len(let.sub) <= Len(let2.sub),
         \A i \in 1..Len(let.sub) : let2.sub[i] = let.sub[i]
  PROVE  NamedLet(own, let2)
<1>1. \A i \in 1..Len(let.sub) : i \in 1..Len(let2.sub)
  OBVIOUS
<1>2. (\E i \in 1..Len(let2.sub) : let2.sub[i].name = X /\ let2.sub[i].at = let2.x) /\ let2.name \in Names
  BY <1>1 DEF NamedLet
<1>3. CASE \E i \in 1..Len(let.sub) : let.sub[i].name = let.name /\ let.ref = Local(let.sub[i].at)
  BY <1>1, <1>2, <1>3 DEF NamedLet
<1>4. CASE ~ \E i \in 1..Len(let.sub) : let.sub[i].name = let.name /\ let.ref = Local(let.sub[i].at)
  BY <1>2, <1>4 DEF NamedLet
<1> QED
  BY <1>3, <1>4

\* findAdd, on the copy of the submap that the let keeps
LEMMA DetectReads ==
  ASSUME Sharing, Sharing', NEW d \in Data, Detect(d)
  PROVE  LET k == Top.let IN
         /\ k \in 1..Len(lets) /\ Len(lets') = Len(lets) /\ \A n \in 1..Len(lets) : n # k => lets'[n] = lets[n]
         /\ lets'[k].sub = Last(Detected(maps[localMap], d).subs)
         /\ lets'[k].x = lets[k].x /\ lets'[k].name = lets[k].name /\ lets'[k].ref = lets[k].ref /\ lets'[k].value = lets[k].value
<1> DEFINE k == Top.let
           after == Last(Detected(maps[localMap], d).subs)
<1>0. CurrentMap'
  BY DEF Sharing
<1>1. Len(lets') = Len(lets) /\ (\A n \in 1..Len(lets) : n # k => lets'[n] = lets[n]) /\ lets'[k].sub = after
  BY <1>0, DetectKeeps
<1>2. lets' = [lets EXCEPT ![k].sub = after]
  BY DEF Detect, Detected
<1>3. k \in 1..Len(lets) /\ Lets(Home(ctl, graph), lets)
  <2>1. Kind \in {"parse", "let"}
    BY DEF Detect, InLet
  <2> QED
    BY <2>1, InLetIs DEF Sharing
<1>4. k \in DOMAIN lets /\ IsLet(lets[k])
  BY <1>3, LenIs DEF Lets
<1> HIDE DEF k, after
<1>5. lets'[k] = [lets[k] EXCEPT !.sub = after]
  BY <1>2, <1>4
<1>6. lets[k] = [sub |-> lets[k].sub, x |-> lets[k].x, name |-> lets[k].name, ref |-> lets[k].ref, value |-> lets[k].value]
  BY <1>4 DEF IsLet
<1> DEFINE l == lets[k]
           l2 == [sub |-> after, x |-> l.x, name |-> l.name, ref |-> l.ref, value |-> l.value]
<1>7. [l EXCEPT !.sub = after] = l2
  BY <1>6
<1> HIDE DEF l
<1>8. l2.x = l.x /\ l2.name = l.name /\ l2.ref = l.ref /\ l2.value = l.value
  OBVIOUS
<1> HIDE DEF l2
<1> QED
  BY <1>1, <1>3, <1>5, <1>7, <1>8 DEF k, after, l

\* The names hold in every step.
LEMMA NamedStep == ASSUME Apart, Sharing, NamedNow, [Next]_vars PROVE NamedNow'
<1>0. Sharing' /\ CurrentMap'
  BY SharingStep DEF Sharing
<1>1. ASSUME lets' = lets, Home(ctl, graph)' = Home(ctl, graph) PROVE NamedNow'
  BY <1>1 DEF NamedNow
<1>2. ASSUME lets' = <<>> PROVE NamedNow'
  BY <1>2, EmptyIs DEF NamedNow, NamedBy
<1>3. ASSUME NEW s \in Subs, NEW v \in Val, Call(s, v) PROVE NamedNow'
  <2> DEFINE e == [kind |-> "call", sub |-> s, let |-> 0, map |-> localMap]
  <2>1. ctl' = Append(ctl, e) /\ UNCHANGED <<maps, graph, lets>> /\ e.kind = "call"
    BY <1>3 DEF Call
  <2> HIDE DEF e
  <2> QED
    BY <1>0, <1>1, <2>1, CallKeeps
<1>4. ASSUME NEW n \in Names, ParseLet(n) PROVE NamedNow'
  <2> DEFINE home == Home(ctl, graph)
             l == ReadLet(maps[home], n, LetCells(FramesForLet, LevelForLet, NewIndices(maps[home], IsNew(maps[home], n))))
  <2>1. graph.state # "none" /\ graph.depth = Len(ctl)
    BY <1>4 DEF ParseLet
  <2>2. MapForLet = home /\ home \in Subs \cup {"temp"} /\ Bare(maps[home], OwnOf(home))
    BY <2>1, AtHome
  <2>3. lets' = Append(lets, l)
    BY <1>4, <2>2, ParseLetReads
  <2>4. NamedLet(OwnOf(home), l)
    BY <2>2, ReadLetNamed
  <2> HIDE DEF l
  <2>5. IsSeq(lets) /\ Len(lets) \in Nat /\ Home(ctl, graph)' = home
    BY <1>0, <1>4, ParseLetKeeps, SharingIs DEF Sharing, Lets
  <2>6. Len(lets') = Len(lets) + 1 /\ lets'[Len(lets) + 1] = l /\ \A i \in 1..Len(lets) : lets'[i] = lets[i]
    BY <2>3, <2>5, AppendIs
  <2>7. \A i \in 1..Len(lets') : i \in 1..Len(lets) \/ i = Len(lets) + 1
    BY <2>5, <2>6
  <2> HIDE DEF home
  <2>8. \A i \in 1..Len(lets') : NamedLet(OwnOf(home), lets'[i])
    BY <2>4, <2>6, <2>7 DEF NamedNow, NamedBy, home
  <2> QED
    BY <2>5, <2>8 DEF NamedNow, NamedBy
<1>5. ASSUME NEW d \in Data, Detect(d) PROVE NamedNow'
  <2> DEFINE k == Top.let
             own == OwnOf(localMap)
  <2>1. /\ k \in 1..Len(lets) /\ Len(lets') = Len(lets) /\ \A n \in 1..Len(lets) : n # k => lets'[n] = lets[n]
        /\ lets'[k].sub = Last(Detected(maps[localMap], d).subs)
        /\ lets'[k].x = lets[k].x /\ lets'[k].name = lets[k].name /\ lets'[k].ref = lets[k].ref
    BY <1>0, <1>5, DetectReads
  <2>2. Home(ctl, graph)' = Home(ctl, graph)
    BY <1>0, <1>5, DetectKeeps
  <2>3. localMap = Home(ctl, graph) /\ Holds(maps[localMap], own, lets[k].sub)
    <3>1. Kind \in {"parse", "let"}
      BY <1>5 DEF Detect, InLet
    <3> QED
      BY <3>1, InLetIs
  <2>4. NamedLet(own, lets[k])
    BY <2>1, <2>3 DEF NamedNow, NamedBy
  <2>5. /\ NamesIn(lets'[k].sub) = NamesIn(lets[k].sub) \cup {d}
        /\ NamesOnce(lets[k].sub) => NamesOnce(lets'[k].sub)
        /\ IsSeq(lets'[k].sub) /\ Len(lets[k].sub) <= Len(lets'[k].sub)
        /\ \A i \in 1..Len(lets[k].sub) : lets'[k].sub[i] = lets[k].sub[i]
    <3> DEFINE after == Last(Detected(maps[localMap], d).subs)
               sub == lets[k].sub
    <3> HIDE DEF sub, own
    <3>1. /\ NamesIn(after) = NamesIn(sub) \cup {d} /\ (NamesOnce(sub) => NamesOnce(after))
          /\ IsSeq(after) /\ Len(sub) <= Len(after) /\ \A i \in 1..Len(sub) : after[i] = sub[i]
      <4>1. PICK map : map = maps[localMap]
        OBVIOUS
      <4>2. Holds(map, own, sub) /\ after = Last(Detected(map, d).subs)
        BY <2>3, <4>1 DEF sub
      <4> HIDE DEF after
      <4> QED
        BY ONLY <4>2, DetectedSub
    <3> HIDE DEF after
    <3>2. lets'[k].sub = after
      BY <2>1 DEF after
    <3> QED
      BY <3>1, <3>2 DEF sub
  <2>6. Len(lets[k].sub) \in Nat /\ Len(lets'[k].sub) \in Nat /\ NamesOnce(lets'[k].sub)
    <3>1. IsSeq(lets[k].sub)
      BY <2>3 DEF Holds, Parted
    <3> QED
      BY <2>4, <2>5, <3>1, LenIs DEF NamedLet
  <2>7. NamedLet(own, lets'[k])
    BY <2>1, <2>4, <2>5, <2>6, NamedMore
  <2> HIDE DEF k, own
  <2>8. \A n \in 1..Len(lets') : NamedLet(own, lets'[n])
    BY <2>1, <2>3, <2>7 DEF NamedNow, NamedBy, own
  <2> QED
    BY <2>2, <2>3, <2>8 DEF NamedNow, NamedBy, own
<1>6. CASE Return
  BY <1>0, <1>1, <1>6, ReturnKeeps DEF Return
<1>7. CASE DoLet
  BY <1>0, <1>1, <1>7, DoLetKeeps DEF DoLet
<1>8. CASE EndParse
  BY <1>0, <1>1, <1>8, RemoveKeeps DEF EndParse
<1>9. CASE EndLet
  BY <1>0, <1>1, <1>9, RemoveKeeps DEF EndLet, InLet
<1>10. CASE BeginGraph \/ (\E twice \in BOOLEAN : EndGraph(twice)) \/ GraphDone \/ Run
  BY <1>0, <1>1, <1>2, <1>10, GraphKeeps
<1>11. CASE Retrieve \/ (\E n \in Names, v \in Val : Assign(n, v)) \/ (\E v, w \in Val : Select(v, w)) \/ UNCHANGED vars
  <2>1. UNCHANGED <<ctl, graph, lets>>
    BY <1>11 DEF Retrieve, Assign, Select, vars
  <2> QED
    BY <1>1, <2>1
<1> QED
  BY <1>3, <1>4, <1>5, <1>6, <1>7, <1>8, <1>9, <1>10, <1>11 DEF Next

-----------------------------------------------------------------------------
(* Which frame is whose, once more: as the refinement counts them.          *)

FrameAt(c, gr, l, k) == IF c[k].kind = "call" THEN FrameOf(c, gr, l, k) ELSE LetFrame(c, gr, l)

\* The let on the stack, if it is there
LEMMA LetOnStack ==
  ASSUME Sharing, NEW j \in 1..Len(ctl), ctl[j].kind # "call"
  PROVE  /\ j = graph.depth + 1 /\ graph.depth \in Nat /\ LetNow(ctl, graph) = ctl[j].let /\ ctl[j].let \in 1..Len(lets)
         /\ LetNow(ctl, graph) > 0 /\ graph.state # "none"
         /\ Borrows(ctl, graph) = IF graph.depth > 0 THEN 1 ELSE 0
<1>1. Graph(ctl, graph, Len(lets)) /\ Len(lets) \in Nat /\ Len(ctl) \in Nat
  BY SharingIs DEF Sharing
<1>2. graph.state # "none" /\ j = graph.depth + 1 /\ ctl[j].let \in 1..Len(lets) /\ graph.depth \in 0..Len(ctl)
  BY <1>1 DEF Graph
<1>3. graph.depth < Len(ctl) /\ graph.depth \in Nat
  BY <1>1, <1>2
<1>4. LetNow(ctl, graph) = ctl[j].let
  BY <1>2, <1>3 DEF LetNow
<1>5. LetNow(ctl, graph) > 0
  BY <1>1, <1>2, <1>4
<1> QED
  BY <1>2, <1>3, <1>4, <1>5 DEF Borrows

\* A let on a call has no frame, a let in the main program has one.
LEMMA HasFrameIs ==
  ASSUME Sharing, NEW j \in 1..Len(ctl)
  PROVE  HasFrame(j) <=> ctl[j].kind = "call" \/ graph.depth = 0
<1>1. Stack(ctl) /\ Len(ctl) \in Nat /\ Graph(ctl, graph, Len(lets))
  BY SharingIs DEF Sharing
<1>2. CallIn(j) = CallOf(ctl, j)
  BY DEF CallIn, CallOf, Calls
<1>3. j \in Nat /\ j \in 0..Len(ctl)
  BY <1>1
<1>4. PICK m : LastCall(ctl, j, m)
  BY <1>1, <1>3 DEF Stack
<1>5. CallOf(ctl, j) = m
  BY <1>3, <1>4, CallOfLast
<1>6. CASE ctl[j].kind = "call"
  BY <1>6 DEF HasFrame
<1>7. CASE ctl[j].kind # "call"
  <2>1. j = graph.depth + 1 /\ graph.depth \in Nat
    BY <1>7, LetOnStack
  <2>2. CASE graph.depth = 0
    <3>1. Calls(ctl, j) = {}
      BY <1>7, <2>1, <2>2 DEF Calls
    <3>2. m = 0
      BY <1>4, <3>1 DEF LastCall
    <3> QED
      BY <1>2, <1>5, <2>2, <3>2 DEF HasFrame
  <2>3. CASE graph.depth # 0
    <3>1. graph.depth \in 1..j /\ graph.depth > 0
      BY <2>1, <2>3
    <3>2. ctl[graph.depth].kind = "call"
      BY <1>1, <3>1 DEF Graph
    <3>3. graph.depth \in Calls(ctl, j)
      BY <3>1, <3>2 DEF Calls
    <3>4. graph.depth <= m
      BY <1>4, <3>3 DEF LastCall
    <3>5. m # 0
      BY <2>1, <2>3, <3>4
    <3> QED
      BY <1>2, <1>5, <1>7, <2>3, <3>5 DEF HasFrame
  <2> QED
    BY <2>2, <2>3
<1> QED
  BY <1>6, <1>7

\* The frame of the let on the stack
LEMMA LetFrameIs ==
  ASSUME Sharing, Framed, NEW k \in 1..Len(ctl), ctl[k].kind # "call"
  PROVE  LetFrame(ctl, graph, level) = (level - Len(ctl)) + k /\ (level - Len(ctl)) + k \in 1..Len(frames)
<1>1. Len(ctl) \in Nat /\ level \in Int /\ LetFrames(LetFrame(ctl, graph, level), frames, lets)
  BY FramedIs
<1>2. /\ k = graph.depth + 1 /\ graph.depth \in Nat /\ ctl[k].let \in 1..Len(lets)
      /\ Borrows(ctl, graph) = IF graph.depth > 0 THEN 1 ELSE 0
  BY LetOnStack
<1>3. LetFrame(ctl, graph, level) = (level - Len(ctl)) + k
  <2>1. CASE graph.depth = 0
    BY <1>2, <2>1 DEF LetFrame
  <2>2. CASE graph.depth # 0
    <3>1. LetFrame(ctl, graph, level) = (level - Len(ctl)) + graph.depth + 1
      BY <1>2, <2>2 DEF LetFrame, FrameOf
    <3> QED
      BY <1>1, <1>2, <3>1
  <2> QED
    BY <2>1, <2>2
<1>4. LetFrame(ctl, graph, level) \in 1..Len(frames)
  BY <1>1, <1>2 DEF LetFrames
<1> QED
  BY <1>3, <1>4

\* The frames above an entry
LEMMA LevelOfIs ==
  ASSUME Sharing, Framed, NEW k \in 1..Len(ctl)
  PROVE  LevelOf(k) = FrameAt(ctl, graph, level, k)
<1> DEFINE n == Len(ctl)
           S == {j \in (k + 1)..n : HasFrame(j)}
           B == {j \in (k + 1)..n : ctl[j].kind # "call" /\ graph.depth # 0}
<1>1. n \in Nat /\ level \in Int /\ k \in 1..n /\ k \in Nat /\ Graph(ctl, graph, Len(lets)) /\ graph.depth \in Nat
  <2>1. n \in Nat /\ level \in Int /\ Graph(ctl, graph, Len(lets))
    BY FramedIs
  <2>2. graph.depth \in 0..n
    BY <2>1 DEF Graph
  <2> QED
    BY <2>1, <2>2
<1>2. \A j \in (k + 1)..n : j \in 1..n /\ (ctl[j].kind # "call" => j = graph.depth + 1)
  <2>1. \A j \in (k + 1)..n : j \in 1..n
    BY <1>1
  <2> QED
    BY <2>1, LetOnStack
<1>3. IsFiniteSet((k + 1)..n) /\ Cardinality((k + 1)..n) = n - k
  <2>1. k + 1 \in Int /\ n \in Int /\ k <= n
    BY <1>1
  <2> HIDE DEF n
  <2>2. IsFiniteSet((k + 1)..n) /\ Cardinality((k + 1)..n) = IF k + 1 > n THEN 0 ELSE n - (k + 1) + 1
    BY <2>1, FS_Interval, Zenon
  <2> QED
    BY <1>1, <2>1, <2>2
<1>4. LevelOf(k) = level - Cardinality(S)
  BY DEF LevelOf
<1>5. S = ((k + 1)..n) \ B
  <2>1. \A j \in (k + 1)..n : HasFrame(j) <=> ctl[j].kind = "call" \/ graph.depth = 0
    BY <1>2, HasFrameIs
  <2> QED
    BY <2>1
<1> HIDE DEF S
<1>6. CASE B = {}
  <2>1. LevelOf(k) = level - (n - k)
    BY <1>3, <1>4, <1>5, <1>6
  <2>2. CASE ctl[k].kind = "call"
    <3>1. k <= graph.depth => Borrows(ctl, graph) = 0
      <4> SUFFICES ASSUME k <= graph.depth PROVE Borrows(ctl, graph) = 0
        OBVIOUS
      <4>1. CASE graph.depth < n
        <5>1. graph.depth + 1 \in (k + 1)..n
          BY <1>1, <4>1
        <5>2. ctl[graph.depth + 1].kind = "call" \/ graph.depth = 0
          BY <1>6, <5>1
        <5>3. ctl[graph.depth + 1].kind = "call"
          BY <1>1, <5>2
        <5>4. LetNow(ctl, graph) = 0
          BY <5>3 DEF LetNow
        <5> QED
          BY <5>4 DEF Borrows
      <4>2. CASE ~ graph.depth < n
        <5>1. LetNow(ctl, graph) = 0
          BY <4>2 DEF LetNow
        <5> QED
          BY <5>1 DEF Borrows
      <4> QED
        BY <4>1, <4>2
    <3>2. FrameOf(ctl, graph, level, k) = (level - n) + k + 0
      BY <3>1 DEF FrameOf
    <3> HIDE DEF n
    <3> QED
      BY <1>1, <2>1, <2>2, <3>2 DEF FrameAt
  <2>3. CASE ctl[k].kind # "call"
    <3>2. LetFrame(ctl, graph, level) = (level - n) + k
      BY <2>3, LetFrameIs
    <3> HIDE DEF n
    <3> QED
      BY <1>1, <2>1, <2>3, <3>2 DEF FrameAt
  <2> QED
    BY <2>2, <2>3
<1>7. CASE B # {}
  <2>1. PICK b \in B : TRUE
    BY <1>7
  <2>2. b = graph.depth + 1 /\ b \in (k + 1)..n /\ b \in 1..n /\ ctl[b].kind # "call" /\ graph.depth # 0
    BY <1>2, <2>1
  <2>3. B = {b}
    BY <1>2, <2>2
  <2>4. Cardinality(S) = (n - k) - 1
    <3> DEFINE T == (k + 1)..n
    <3>1. IsFiniteSet(T) /\ Cardinality(T) = n - k /\ b \in T /\ S = T \ {b}
      BY <1>3, <1>5, <2>2, <2>3
    <3> HIDE DEF T, B, n
    <3>2. Cardinality(T \ {b}) = Cardinality(T) - 1
      BY <3>1, FS_RemoveElement
    <3> QED
      BY <3>1, <3>2
  <2>5. Borrows(ctl, graph) = 1
    BY <1>1, <2>2, LetOnStack
  <2>6. k <= graph.depth
    BY <1>1, <2>2
  <2>7. ctl[k].kind = "call"
    <3> SUFFICES ASSUME ctl[k].kind # "call" PROVE FALSE
      OBVIOUS
    <3>1. k = graph.depth + 1
      BY LetOnStack
    <3> QED
      BY <1>1, <2>6, <3>1
  <2>8. FrameOf(ctl, graph, level, k) = (level - n) + k + 1
    BY <2>5, <2>6 DEF FrameOf
  <2> HIDE DEF n, B
  <2> QED
    BY <1>1, <1>4, <2>4, <2>7, <2>8 DEF FrameAt
<1> QED
  BY <1>6, <1>7

\* The current frame belongs to the entry at the top, and to the call below it
\* when that is a let.
LEMMA FrameBelow ==
  ASSUME Sharing, Framed, NEW k \in 1..Len(ctl)
  PROVE  /\ FrameAt(ctl, graph, level, k) \in 1..level
         /\ FrameAt(ctl, graph, level, k) = level <=> k = Len(ctl) \/ (k = Len(ctl) - 1 /\ ctl[Len(ctl)].kind # "call")
<1> DEFINE n == Len(ctl)
           f == FrameAt(ctl, graph, level, k)
<1>1. /\ n \in Nat /\ level \in Int /\ k \in 1..n /\ Graph(ctl, graph, Len(lets)) /\ CallFrames(ctl, graph, level, frames)
      /\ graph.depth \in 0..n /\ Len(lets) \in Nat /\ level \in 0..Len(frames) /\ Len(frames) \in Nat
  <2>1. /\ n \in Nat /\ level \in Int /\ Graph(ctl, graph, Len(lets)) /\ CallFrames(ctl, graph, level, frames)
        /\ Len(lets) \in Nat /\ level \in 0..Len(frames) /\ Len(frames) \in Nat
    BY FramedIs
  <2> QED
    BY <2>1 DEF Graph
<1>2. n \in 1..n
  BY <1>1
<1>3. CASE ctl[k].kind # "call"
  <2>1. f = (level - n) + k /\ (level - n) + k \in 1..Len(frames)
    BY <1>3, LetFrameIs DEF FrameAt
  <2>2. k = n - 1 => ctl[n].kind = "call"
    <3> SUFFICES ASSUME k = n - 1, ctl[n].kind # "call" PROVE FALSE
      OBVIOUS
    <3>1. n = graph.depth + 1 /\ k = graph.depth + 1
      BY <1>2, <1>3, LetOnStack
    <3> HIDE DEF n
    <3> QED
      BY <1>1, <3>1
  <2> HIDE DEF n, f
  <2>3. f \in 1..level /\ (f = level <=> k = n)
    BY <1>1, <2>1
  <2> QED
    BY <1>1, <2>2, <2>3 DEF n, f
<1>4. CASE ctl[k].kind = "call"
  <2>1. f = FrameOf(ctl, graph, level, k) /\ f \in 1..level
    BY <1>1, <1>4 DEF FrameAt, CallFrames
  <2>2. f = (level - n) + k + (IF k <= graph.depth THEN Borrows(ctl, graph) ELSE 0)
    BY <2>1 DEF FrameOf
  <2>3. CASE LetNow(ctl, graph) > 0
    <3>1. graph.depth \in Nat /\ graph.depth < n /\ ctl[graph.depth + 1].kind # "call"
      BY <1>1, <2>3, LetNowIs
    <3>2. Borrows(ctl, graph) = IF graph.depth > 0 THEN 1 ELSE 0
      BY <2>3 DEF Borrows
    <3>3. ctl[n].kind # "call" <=> n = graph.depth + 1
      <4>1. ctl[n].kind # "call" => n = graph.depth + 1
        BY <1>2, LetOnStack
      <4> QED
        BY <3>1, <4>1
    <3> HIDE DEF n, f
    <3>4. f = level <=> k = n \/ (k = n - 1 /\ n = graph.depth + 1)
      <4>1. CASE k <= graph.depth
        <5>1. f = (level - n) + k + 1
          BY <1>1, <2>2, <3>2, <4>1
        <5>2. k # n
          BY <1>1, <3>1, <4>1
        <5>3. f = level <=> k = n - 1
          BY <1>1, <5>1
        <5>4. k = n - 1 => n = graph.depth + 1
          BY <1>1, <3>1, <4>1
        <5> QED
          BY <5>2, <5>3, <5>4
      <4>2. CASE ~ k <= graph.depth
        <5>1. f = (level - n) + k + 0
          BY <2>2, <4>2
        <5>2. f = level <=> k = n
          BY <1>1, <5>1
        <5>3. ~ (k = n - 1 /\ n = graph.depth + 1)
          BY <1>1, <3>1, <4>2
        <5> QED
          BY <5>2, <5>3
      <4> QED
        BY <4>1, <4>2
    <3> QED
      BY <2>1, <3>3, <3>4 DEF n, f
  <2>4. CASE ~ LetNow(ctl, graph) > 0
    <3>1. Borrows(ctl, graph) = 0
      BY <2>4 DEF Borrows
    <3>2. f = (level - n) + k + 0
      BY <2>2, <3>1
    <3>3. ctl[n].kind = "call"
      BY <1>2, <2>4, LetOnStack
    <3> HIDE DEF n, f
    <3>4. f = level <=> k = n
      BY <1>1, <3>2
    <3> QED
      BY <2>1, <3>3, <3>4 DEF n, f
  <2> QED
    BY <2>3, <2>4
<1> QED
  BY <1>3, <1>4

-----------------------------------------------------------------------------
(* The operators of Scopes, in the state they are used for.                 *)

\* The stack of Scopes is that of Vars without the maps.
LEMMA EntriesAre ==
  ASSUME Sharing
  PROVE  /\ IsSeq(Entries) /\ Len(Entries) = Len(ctl) /\ DOMAIN Entries = 1..Len(ctl) /\ DOMAIN ctl = 1..Len(ctl)
         /\ \A k \in 1..Len(ctl) : Entries[k] = [kind |-> ctl[k].kind, sub |-> ctl[k].sub, let |-> ctl[k].let]
         /\ (Entries = <<>> <=> ctl = <<>>) /\ Scoped!Kind = Kind
         /\ IsSeq(Envs) /\ Len(Envs) = Len(ctl) /\ DOMAIN Envs = 1..Len(ctl) /\ \A k \in 1..Len(ctl) : Envs[k] = EnvOf(k)
<1>1. Len(ctl) \in Nat /\ IsSeq(ctl) /\ (Len(ctl) = 0 <=> ctl = <<>>)
  BY SharingIs DEF Stack
<1>2. DOMAIN ctl = 1..Len(ctl)
  BY <1>1, LenIs
<1>3. DOMAIN Entries = 1..Len(ctl) /\ \A k \in 1..Len(ctl) : Entries[k] = [kind |-> ctl[k].kind, sub |-> ctl[k].sub, let |-> ctl[k].let]
  BY <1>2 DEF Entries
<1>4. IsSeq(Entries) /\ Len(Entries) = Len(ctl)
  <2>1. Entries = [k \in 1..Len(ctl) |-> Entries[k]]
    BY <1>2 DEF Entries
  <2> QED
    BY <1>1, <2>1, ListIs
<1>5. IsSeq(Envs) /\ Len(Envs) = Len(ctl) /\ DOMAIN Envs = 1..Len(ctl) /\ \A k \in 1..Len(ctl) : Envs[k] = EnvOf(k)
  <2>1. Envs = [k \in 1..Len(ctl) |-> Envs[k]] /\ DOMAIN Envs = 1..Len(ctl) /\ \A k \in 1..Len(ctl) : Envs[k] = EnvOf(k)
    BY <1>2 DEF Envs
  <2> QED
    BY <1>1, <2>1, ListIs
<1>6. Entries = <<>> <=> ctl = <<>>
  BY <1>1, <1>4, LenIs
<1>7. Scoped!Kind = Kind
  <2>1. CASE ctl = <<>>
    BY <1>6, <2>1 DEF Scoped!Kind, Kind
  <2>2. CASE ctl # <<>>
    <3>1. Len(ctl) \in 1..Len(ctl)
      BY <1>1, <2>2
    <3>2. Entries[Len(Entries)].kind = ctl[Len(ctl)].kind
      BY <1>3, <1>4, <3>1
    <3> QED
      BY <1>6, <2>2, <3>2 DEF Scoped!Kind, Scoped!Top, Kind, Top
  <2> QED
    BY <2>1, <2>2
<1> QED
  BY <1>2, <1>3, <1>4, <1>5, <1>6, <1>7

\* The variables of an entry
LEMMA EnvNames ==
  ASSUME NEW k
  PROVE  DOMAIN EnvOf(k) = IF ctl[k].kind = "call" THEN Own(ctl[k].sub) ELSE NamesIn(lets[ctl[k].let].sub)
BY DEF EnvOf

\* The entry a name belongs to
LEMMA ScopeIs ==
  ASSUME Sharing, NEW n
  PROVE  LET top == Len(ctl)
             call == CallOf(ctl, top)
         IN Scoped!Scope(n) = IF top > 0 /\ n \in DOMAIN EnvOf(top) THEN top
                              ELSE IF call > 0 /\ n \in DOMAIN EnvOf(call) THEN call ELSE 0
<1>1. /\ Len(Entries) = Len(ctl) /\ Len(ctl) \in Nat /\ Stack(ctl)
      /\ (\A k \in 1..Len(ctl) : Entries[k] = [kind |-> ctl[k].kind, sub |-> ctl[k].sub, let |-> ctl[k].let])
      /\ \A k \in 1..Len(ctl) : Envs[k] = EnvOf(k)
  BY EntriesAre, SharingIs
<1>2. Scoped!CallIn(Len(ctl)) = CallOf(ctl, Len(ctl))
  <2>0. ASSUME NEW i \in 1..Len(ctl) PROVE Entries[i].kind = ctl[i].kind
    <3>1. Entries[i] = [kind |-> ctl[i].kind, sub |-> ctl[i].sub, let |-> ctl[i].let]
      BY <1>1
    <3> QED
      BY <3>1
  <2>1. {i \in 1..Len(ctl) : Entries[i].kind = "call"} = {i \in 1..Len(ctl) : ctl[i].kind = "call"}
    BY <2>0
  <2>2. \A S : Scoped!Max(S) = Max(S)
    BY DEF Scoped!Max, Max
  <2> QED
    BY <2>1, <2>2 DEF Scoped!CallIn, CallOf, Calls
<1>3. CallOf(ctl, Len(ctl)) \in 0..Len(ctl)
  BY <1>1, CallOfLast DEF Stack
<1>4. Len(ctl) > 0 => Envs[Len(ctl)] = EnvOf(Len(ctl))
  BY <1>1
<1>5. CallOf(ctl, Len(ctl)) > 0 => Envs[CallOf(ctl, Len(ctl))] = EnvOf(CallOf(ctl, Len(ctl)))
  BY <1>1, <1>3
<1> QED
  BY <1>1, <1>2, <1>4, <1>5 DEF Scoped!Scope

\* The locals around a statement, or around the graph that stands there
Around == IF ctl = <<>> THEN <<>> ELSE Locals[Top.sub]

\* A statement is in a call or in the main program.
LEMMA AtCall ==
  ASSUME Sharing, Framed, ctl = <<>> \/ ctl[Len(ctl)].kind = "call"
  PROVE  /\ ctl # <<>> => /\ Len(ctl) \in 1..Len(ctl) /\ Len(ctl) > 0 /\ ctl[Len(ctl)].sub \in Subs
                          /\ CallOf(ctl, Len(ctl)) = Len(ctl) /\ localMap = ctl[Len(ctl)].sub
                          /\ level \in 1..Len(frames) /\ LevelOf(Len(ctl)) = level
         /\ ctl = <<>> => Len(ctl) = 0 /\ CallOf(ctl, Len(ctl)) = 0 /\ localMap = "none"
         /\ IsSeq(Around)
<1>1. Stack(ctl) /\ Len(ctl) \in Nat /\ (Len(ctl) = 0 <=> ctl = <<>>) /\ localMap = MapOf(ctl, Len(ctl))
  BY SharingIs
<1>2. PICK m : LastCall(ctl, Len(ctl), m)
  BY <1>1 DEF Stack
<1>3. CallOf(ctl, Len(ctl)) = m /\ m \in 0..Len(ctl)
  BY <1>1, <1>2, CallOfLast
<1>4. CASE ctl = <<>>
  <2>1. Len(ctl) = 0 /\ m = 0
    BY <1>1, <1>3, <1>4
  <2>2. localMap = "none"
    BY <1>1, <1>3, <2>1 DEF MapOf
  <2>3. IsSeq(Around)
    BY <1>4, EmptyIs DEF Around
  <2> QED
    BY <1>3, <1>4, <2>1, <2>2, <2>3
<1>5. CASE ctl # <<>>
  <2>1. Len(ctl) \in 1..Len(ctl) /\ Len(ctl) > 0 /\ ctl[Len(ctl)].kind = "call"
    BY <1>1, <1>5
  <2>2. Len(ctl) \in Calls(ctl, Len(ctl))
    BY <2>1 DEF Calls
  <2>3. m = Len(ctl)
    <3>1. Len(ctl) <= m
      BY <1>2, <2>2 DEF LastCall
    <3> QED
      BY <1>1, <1>3, <3>1
  <2>4. ctl[Len(ctl)].sub \in Subs
    BY <1>1, <2>1 DEF Stack
  <2>5. localMap = ctl[Len(ctl)].sub
    BY <1>1, <1>3, <2>1, <2>3 DEF MapOf
  <2>6. level \in 1..Len(frames)
    BY <1>5, AtLevel
  <2>7. LevelOf(Len(ctl)) = level
    BY <2>1, LevelOfIs, FrameBelow
  <2>8. IsSeq(Around)
    BY <1>5, <2>4, NamesAssumption DEF Around, Top, IsSeq
  <2> QED
    BY <1>3, <1>5, <2>1, <2>3, <2>4, <2>5, <2>6, <2>7, <2>8
<1> QED
  BY <1>4, <1>5

\* Statements are not in a let.
LEMMA AtTop ==
  ASSUME Sharing, AtStatement
  PROVE  ctl = <<>> \/ ctl[Len(ctl)].kind = "call"
<1>1. Stack(ctl) /\ Len(ctl) \in Nat /\ (Len(ctl) = 0 <=> ctl = <<>>)
  BY SharingIs
<1>2. ctl # <<>> => ctl[Len(ctl)].kind \in {"main", "call"}
  BY DEF AtStatement, Kind, Top
<1>3. ctl # <<>> => Len(ctl) \in 1..Len(ctl)
  BY <1>1
<1>4. ctl # <<>> => ctl[Len(ctl)].kind \in {"call", "parse", "let"}
  BY <1>1, <1>3 DEF Stack
<1> QED
  BY <1>2, <1>4

\* What a frame has at an index
At(f, i) == IF i + 1 \in DOMAIN f THEN f[i + 1] ELSE 0

\* The locals there, as the parser, the frames and Scopes know them
LEMMA AroundIs ==
  ASSUME Wide, Sharing, Framed, SizedNow, ctl = <<>> \/ ctl[Len(ctl)].kind = "call", NEW n
  PROVE  LET i == VarGet(NewMap(Around), n) IN
         /\ Static(n) = IF n \in ToSet(Around) THEN Local(i) ELSE Global(n)
         /\ Known(n) <=> n \in ToSet(Around) \/ n \in Globals
         /\ Scoped!Scope(n) = IF n \in ToSet(Around) THEN Len(ctl) ELSE 0
         /\ n \in ToSet(Around) =>
               /\ i \in Nat /\ i < Len(Around) /\ Fits(i) /\ i < Len(frames[level]) /\ i + 1 \in DOMAIN frames[level] /\ ctl # <<>>
               /\ n \in DOMAIN EnvOf(Len(ctl)) /\ EnvOf(Len(ctl))[n] = At(frames[level], i) /\ Len(ctl) > 0
<1> DEFINE i == VarGet(NewMap(Around), n)
<1>1. Stack(ctl) /\ Len(ctl) \in Nat /\ (Len(ctl) = 0 <=> ctl = <<>>) /\ IsSeq(Around)
  BY AtCall, SharingIs
<1>2. Static(n) = IF n \in ToSet(Around) THEN Local(i) ELSE Global(n)
  BY DEF Static, Around
<1>3. Known(n) <=> n \in ToSet(Around) \/ n \in Globals
  <2>1. Local(i).local = TRUE /\ Global(n).local = FALSE
    BY DEF Local, Global
  <2> QED
    BY <1>2, <2>1 DEF Known
<1>4. CASE ctl = <<>>
  <2>1. Around = <<>> /\ ToSet(Around) = {}
    BY <1>4 DEF Around, ToSet
  <2>2. Scoped!Scope(n) = 0
    <3>1. Len(ctl) = 0 /\ CallOf(ctl, Len(ctl)) = 0
      BY <1>4, AtCall
    <3>2. ~ (0 > 0)
      OBVIOUS
    <3> QED
      BY <3>1, <3>2, ScopeIs
  <2> QED
    BY <1>2, <1>3, <2>1, <2>2
<1>5. CASE ctl # <<>>
  <2> DEFINE top == Len(ctl)
             s == ctl[top].sub
  <2>1. /\ top \in 1..top /\ top > 0 /\ s \in Subs /\ CallOf(ctl, top) = top /\ level \in 1..Len(frames) /\ LevelOf(top) = level
        /\ ctl[top].kind = "call"
    BY <1>5, AtCall
  <2>2. Around = Locals[s] /\ Own(s) = ToSet(Around)
    BY <1>5 DEF Around, Top, Own
  <2>3. EnvOf(top) = [m \in Own(s) |-> Cell(frames, LevelOf(top), VarGet(NewMap(Locals[s]), m))]
    BY <2>1 DEF EnvOf
  <2> HIDE DEF top, s
  <2>4. DOMAIN EnvOf(top) = ToSet(Around)
    BY <2>2, <2>3
  <2>5. n \in ToSet(Around) => EnvOf(top)[n] = At(frames[level], i)
    BY <2>1, <2>2, <2>3 DEF Cell, At
  <2>6. Scoped!Scope(n) = IF n \in ToSet(Around) THEN top ELSE 0
    BY <2>1, <2>4, ScopeIs DEF top
  <2>7. ASSUME n \in ToSet(Around)
        PROVE  i \in Nat /\ i < Len(Around) /\ Fits(i) /\ i < Len(frames[level]) /\ i + 1 \in DOMAIN frames[level]
    <3>1. PICK k \in 1..Len(Around) : i = k - 1
      BY <1>1, <2>7, OwnIndex
    <3>2. Len(Around) \in Nat /\ DOMAIN Around = 1..Len(Around)
      BY <1>1, LenIs
    <3> HIDE DEF i
    <3>3. i \in Nat /\ i < Len(Around)
      BY <3>1, <3>2
    <3>4. CellsExist
      BY CellsAre
    <3>5. CallIn(Len(ctl)) = CallOf(ctl, Len(ctl))
      BY DEF CallIn, CallOf, Calls
    <3>6. i \in {j - 1 : j \in DOMAIN Locals[ctl[CallIn(Len(ctl))].sub]} /\ CallIn(Len(ctl)) # 0
      <4>1. CallIn(Len(ctl)) = Len(ctl) /\ Len(ctl) # 0
        BY <2>1, <3>5 DEF top
      <4>2. Locals[ctl[CallIn(Len(ctl))].sub] = Around
        BY <2>2, <4>1 DEF top, s
      <4>3. i \in {j - 1 : j \in DOMAIN Around}
        BY <3>1, <3>2
      <4> QED
        BY <4>1, <4>2, <4>3
    <3>7. Fits(i) /\ i < Len(frames[level])
      BY <3>4, <3>6 DEF CellsExist
    <3>8. i + 1 \in DOMAIN frames[level]
      <4>1. IsSeq(frames[level])
        BY <2>1, FramedIs DEF SeqSeq
      <4>2. DOMAIN frames[level] = 1..Len(frames[level]) /\ Len(frames[level]) \in Nat
        BY <4>1, LenIs
      <4> QED
        BY <3>3, <3>7, <4>2
    <3> QED
      BY <3>3, <3>7, <3>8
  <2> HIDE DEF i
  <2>8. n \in ToSet(Around) =>
           /\ i \in Nat /\ i < Len(Around) /\ Fits(i) /\ i < Len(frames[level]) /\ i + 1 \in DOMAIN frames[level] /\ ctl # <<>>
           /\ n \in DOMAIN EnvOf(Len(ctl)) /\ EnvOf(Len(ctl))[n] = At(frames[level], i) /\ Len(ctl) > 0
    BY <1>5, <2>1, <2>4, <2>5, <2>7 DEF top
  <2> QED
    BY <1>2, <1>3, <2>6, <2>8 DEF top, i
<1> QED
  BY <1>4, <1>5

\* The environment of an entry, from the variables of Vars
EnvIs(c, gr, l, fs, ls, k) ==
  LET f == fs[FrameAt(c, gr, l, k)]
  IN IF c[k].kind = "call" THEN [n \in Own(c[k].sub) |-> At(f, VarGet(NewMap(Locals[c[k].sub]), n))]
     ELSE [n \in NamesIn(ls[c[k].let].sub) |-> At(f, IndexIn(ls[c[k].let].sub, n))]

\* The environments of Scopes
LEMMA EnvsAre ==
  ASSUME Sharing, Framed
  PROVE  \A k \in 1..Len(ctl) : EnvOf(k) = EnvIs(ctl, graph, level, frames, lets, k)
<1> SUFFICES ASSUME NEW k \in 1..Len(ctl) PROVE EnvOf(k) = EnvIs(ctl, graph, level, frames, lets, k)
  OBVIOUS
<1>1. LevelOf(k) = FrameAt(ctl, graph, level, k)
  BY LevelOfIs
<1> QED
  BY <1>1 DEF EnvOf, EnvIs, Cell, At

\* The variables of the let at the top, and those of the call it stands on
LEMMA LetIs ==
  ASSUME Sharing, Framed, NamedNow, Kind \in {"parse", "let"}
  PROVE  LET top == Len(ctl)
             sub == lets[Top.let].sub
             own == OwnOf(localMap)
             d == graph.depth
         IN /\ top \in 1..top /\ top > 0 /\ top = d + 1 /\ d \in Nat /\ ctl[top].kind # "call" /\ Top.let \in 1..Len(lets)
            /\ level \in 1..Len(frames) /\ IsSeq(sub) /\ NamesOnce(sub) /\ IsSeq(own) /\ NamedLet(own, lets[Top.let])
            /\ DOMAIN EnvOf(top) = NamesIn(sub)
            /\ \A i \in 1..Len(sub) : EnvOf(top)[sub[i].name] = At(frames[level], sub[i].at)
            /\ d = 0 => CallOf(ctl, top) = 0 /\ own = <<>>
            /\ d > 0 => /\ CallOf(ctl, top) = d /\ d \in 1..top /\ DOMAIN EnvOf(d) = ToSet(own) /\ localMap \in Subs
                        /\ \A n \in ToSet(own) : EnvOf(d)[n] = At(frames[level], VarGet(NewMap(own), n))
<1> DEFINE top == Len(ctl)
           sub == lets[Top.let].sub
           own == OwnOf(localMap)
           d == graph.depth
<1>1. /\ localMap = Home(ctl, graph) /\ localMap \in Subs \cup {"temp"} /\ top = d + 1 /\ Top.let \in 1..Len(lets) /\ d \in Nat
      /\ Holds(maps[localMap], own, sub) /\ LetNow(ctl, graph) = Top.let
  BY InLetIs
<1>2. ctl # <<>> /\ Top = ctl[top] /\ ctl[top].kind # "call" /\ Kind # "call"
  BY DEF Kind, Top
<1>3. top \in 1..top /\ top > 0
  BY <1>1
<1>4. level \in 1..Len(frames) /\ LetFrame(ctl, graph, level) = level /\ (d > 0 => FrameOf(ctl, graph, level, d) = level)
  BY <1>2, AtLevel
<1>5. IsSeq(sub) /\ IsSeq(own)
  BY <1>1, OwnOfIs DEF Holds, Parted
<1>6. NamedLet(own, lets[Top.let]) /\ NamesOnce(sub)
  BY <1>1 DEF NamedNow, NamedBy, NamedLet
<1>7. EnvOf(top) = [n \in NamesIn(sub) |-> At(frames[level], IndexIn(sub, n))]
  <2>1. EnvOf(top) = EnvIs(ctl, graph, level, frames, lets, top)
    BY <1>3, EnvsAre
  <2> QED
    BY <1>2, <1>4, <2>1 DEF EnvIs, FrameAt
<1>8. \A i \in 1..Len(sub) : EnvOf(top)[sub[i].name] = At(frames[level], sub[i].at)
  <2> SUFFICES ASSUME NEW i \in 1..Len(sub) PROVE EnvOf(top)[sub[i].name] = At(frames[level], sub[i].at)
    OBVIOUS
  <2>1. sub[i].name \in NamesIn(sub)
    BY <1>5, NamesAre
  <2>2. IndexIn(sub, sub[i].name) = sub[i].at
    BY <1>5, <1>6, <2>1, IndexInIs
  <2> QED
    BY <1>7, <2>1, <2>2
<1>9. /\ Stack(ctl) /\ Graph(ctl, graph, Len(lets)) /\ Len(ctl) \in Nat
  BY FramedIs
<1>10. LastCall(ctl, top, d)
  <2>1. d > 0 => d \in Calls(ctl, top)
    BY <1>1, <1>9 DEF Graph, Calls
  <2>2. \A i \in Calls(ctl, top) : i <= d
    BY <1>1, <1>2 DEF Calls
  <2> QED
    BY <1>1, <2>1, <2>2 DEF LastCall
<1>11. CallOf(ctl, top) = d
  BY <1>1, <1>10, CallOfLast
<1>12. d = 0 => CallOf(ctl, top) = 0 /\ own = <<>>
  BY <1>1, <1>11 DEF Home, OwnOf
<1>13. ASSUME d > 0
       PROVE  /\ CallOf(ctl, top) = d /\ d \in 1..top /\ DOMAIN EnvOf(d) = ToSet(own) /\ localMap \in Subs
              /\ \A n \in ToSet(own) : EnvOf(d)[n] = At(frames[level], VarGet(NewMap(own), n))
  <2>1. d \in 1..top /\ ctl[d].kind = "call" /\ localMap = ctl[d].sub
    BY <1>1, <1>9, <1>13 DEF Graph, Home
  <2>2. ctl[d].sub \in Subs
    BY <1>9, <2>1 DEF Stack
  <2>3. own = Locals[ctl[d].sub] /\ Own(ctl[d].sub) = ToSet(own)
    BY <2>1, <2>2, NamesAssumption DEF OwnOf, Own
  <2>4. EnvOf(d) = EnvIs(ctl, graph, level, frames, lets, d)
    BY <2>1, EnvsAre
  <2>5. FrameAt(ctl, graph, level, d) = level
    BY <1>4, <1>13, <2>1 DEF FrameAt
  <2>6. EnvOf(d) = [n \in ToSet(own) |-> At(frames[level], VarGet(NewMap(own), n))]
    BY <2>1, <2>3, <2>4, <2>5 DEF EnvIs
  <2> HIDE DEF own, d, top
  <2> QED
    BY <1>11, <2>1, <2>2, <2>6
<1> QED
  BY <1>1, <1>2, <1>3, <1>4, <1>5, <1>6, <1>7, <1>8, <1>12, <1>13

\* Whose variable a name is, in a let
LEMMA LetScope ==
  ASSUME Sharing, Framed, NamedNow, Kind \in {"parse", "let"}, NEW n
  PROVE  Scoped!Scope(n) = IF n \in NamesIn(lets[Top.let].sub) THEN Len(ctl)
                           ELSE IF n \in ToSet(OwnOf(localMap)) THEN graph.depth ELSE 0
<1> DEFINE top == Len(ctl)
           d == graph.depth
           own == OwnOf(localMap)
<1>1. /\ top > 0 /\ d \in Nat /\ DOMAIN EnvOf(top) = NamesIn(lets[Top.let].sub)
      /\ d = 0 => CallOf(ctl, top) = 0 /\ own = <<>>
      /\ d > 0 => CallOf(ctl, top) = d /\ DOMAIN EnvOf(d) = ToSet(own)
  BY LetIs
<1>2. Scoped!Scope(n) = IF top > 0 /\ n \in DOMAIN EnvOf(top) THEN top
                        ELSE IF CallOf(ctl, top) > 0 /\ n \in DOMAIN EnvOf(CallOf(ctl, top)) THEN CallOf(ctl, top) ELSE 0
  BY ScopeIs
<1>3. own = <<>> => n \notin ToSet(own)
  BY DEF ToSet
<1> HIDE DEF top, own
<1>4. CASE d = 0
  <2>1. ~ (0 > 0)
    OBVIOUS
  <2> QED
    BY <1>1, <1>2, <1>3, <1>4, <2>1 DEF top, own
<1>5. CASE d # 0
  <2>1. d > 0
    BY <1>1, <1>5
  <2> QED
    BY <1>1, <1>2, <2>1 DEF top, own
<1> QED
  BY <1>4, <1>5

\* An index that fits reads its cell.
LEMMA LocalGet ==
  ASSUME NEW i, Fits(i)
  PROVE  Get(Local(i)) = At(frames[level], i)
<1>1. Local(i).local = TRUE /\ Local(i).at = i
  BY DEF Local
<1> QED
  BY <1>1 DEF Get, Cell, At

\* The name of a global reads the global.
LEMMA GlobalGet == ASSUME NEW n PROVE Get(Global(n)) = globals[n]
<1>1. Global(n).local = FALSE /\ Global(n).name = n
  BY DEF Global
<1> QED
  BY <1>1 DEF Get

\* The value of a name in Scopes
LEMMA ValueIs ==
  ASSUME Sharing, NEW n, NEW k \in 0..Len(ctl), Scoped!Scope(n) = k
  PROVE  Scoped!ValueOf(n) = IF k > 0 THEN EnvOf(k)[n] ELSE globals[n]
<1>1. Len(ctl) \in Nat /\ \A j \in 1..Len(ctl) : Envs[j] = EnvOf(j)
  BY EntriesAre, SharingIs
<1>2. k > 0 => Envs[k] = EnvOf(k)
  BY <1>1
<1> QED
  BY <1>2 DEF Scoped!ValueOf

\* ReadsAgree in the state of these invariants
LEMMA ReadsAre == ASSUME Wide, Sharing, Framed, SizedNow, NamedNow PROVE ReadsAgree
<1>1. ASSUME AtStatement, NEW n \in Names, Known(n) PROVE Get(Static(n)) = Scoped!ValueOf(n)
  <2> DEFINE i == VarGet(NewMap(Around), n)
             own == n \in ToSet(Around)
  <2>1. ctl = <<>> \/ ctl[Len(ctl)].kind = "call"
    BY <1>1, AtTop
  <2>2. /\ Static(n) = IF own THEN Local(i) ELSE Global(n)
        /\ Scoped!Scope(n) = IF own THEN Len(ctl) ELSE 0
        /\ own => Fits(i) /\ EnvOf(Len(ctl))[n] = At(frames[level], i) /\ Len(ctl) > 0
    BY <2>1, AroundIs
  <2>3. Len(ctl) \in Nat /\ Len(ctl) \in 0..Len(ctl) /\ 0 \in 0..Len(ctl) /\ ~ (0 > 0)
    BY SharingIs
  <2> HIDE DEF i, own
  <2>4. CASE own
    <3>1. Scoped!ValueOf(n) = EnvOf(Len(ctl))[n]
      BY <2>2, <2>3, <2>4, ValueIs
    <3> QED
      BY <2>2, <2>4, <3>1, LocalGet
  <2>5. CASE ~ own
    <3>1. Scoped!ValueOf(n) = globals[n]
      BY <2>2, <2>3, <2>5, ValueIs
    <3> QED
      BY <2>2, <2>5, <3>1, GlobalGet
  <2> QED
    BY <2>4, <2>5
<1>2. ASSUME InLet
      PROVE  /\ Get(Local(lets[Top.let].x)) = Scoped!ValueOf(X)
             /\ Get(lets[Top.let].ref) = Scoped!ValueOf(lets[Top.let].name)
             /\ \A d \in Data \cap NamesIn(lets[Top.let].sub) : Get(Local(VarGet(maps[localMap], d))) = Scoped!ValueOf(d)
  <2> DEFINE top == Len(ctl)
             let == lets[Top.let]
             own == OwnOf(localMap)
             d == graph.depth
  <2>1. Kind \in {"parse", "let"}
    BY <1>2 DEF InLet
  <2>2. /\ top > 0 /\ top = d + 1 /\ d \in Nat /\ level \in 1..Len(frames) /\ IsSeq(let.sub) /\ NamesOnce(let.sub)
        /\ NamedLet(own, let) /\ \A i \in 1..Len(let.sub) : EnvOf(top)[let.sub[i].name] = At(frames[level], let.sub[i].at)
        /\ d = 0 => own = <<>>
        /\ d > 0 => (localMap \in Subs /\ \A n \in ToSet(own) : EnvOf(d)[n] = At(frames[level], VarGet(NewMap(own), n)))
    BY <2>1, LetIs
  <2>3. \A i \in IndicesOf(let.sub) : Fits(i)
    BY <1>2, CellsAre DEF CellsExist
  <2>4. Holds(maps[localMap], own, let.sub)
    BY <2>1, InLetIs
  <2>5. top \in 0..top /\ d \in 0..top /\ 0 \in 0..top /\ ~ (0 > 0)
    BY <2>2
  <2> HIDE DEF top, let, own, d
  <2>6. ASSUME NEW i \in 1..Len(let.sub) PROVE Get(Local(let.sub[i].at)) = Scoped!ValueOf(let.sub[i].name)
    <3>1. Fits(let.sub[i].at)
      <4>1. let.sub[i].at \in IndicesOf(let.sub)
        BY <2>2, IndicesIs
      <4> QED
        BY <2>3, <4>1
    <3>2. let.sub[i].name \in NamesIn(let.sub)
      BY <2>2, NamesAre
    <3>3. Scoped!Scope(let.sub[i].name) = top
      BY <2>1, <3>2, LetScope DEF top, let
    <3>4. Scoped!ValueOf(let.sub[i].name) = EnvOf(top)[let.sub[i].name]
      BY <2>2, <2>5, <3>3, ValueIs DEF top
    <3> QED
      BY <2>2, <3>1, <3>4, LocalGet
  <2>7. Get(Local(let.x)) = Scoped!ValueOf(X)
    BY <2>2, <2>6 DEF NamedLet
  <2>8. Get(let.ref) = Scoped!ValueOf(let.name)
    <3>1. CASE \E i \in 1..Len(let.sub) : let.sub[i].name = let.name /\ let.ref = Local(let.sub[i].at)
      BY <2>6, <3>1
    <3>2. CASE /\ let.name \notin NamesIn(let.sub) \cup Data /\ let.name \in ToSet(own)
               /\ let.ref = Local(VarGet(NewMap(own), let.name))
      <4>1. d > 0
        <5>1. own # <<>>
          BY <3>2 DEF ToSet
        <5> QED
          BY <2>2, <5>1
      <4>2. Scoped!Scope(let.name) = d
        BY <2>1, <3>2, LetScope DEF let, own, d
      <4>3. Scoped!ValueOf(let.name) = EnvOf(d)[let.name]
        BY <2>5, <4>1, <4>2, ValueIs DEF top
      <4>4. Fits(VarGet(NewMap(own), let.name))
        <5>1. IsSeq(own) /\ own = Locals[localMap]
          BY <2>2, <4>1, OwnOfIs, NamesAssumption DEF own, OwnOf
        <5>2. PICK k \in 1..Len(own) : VarGet(NewMap(own), let.name) = k - 1
          BY <3>2, <5>1, OwnIndex
        <5>3. CallIn(top) = d /\ ctl[d].sub = localMap
          <6>1. CallOf(ctl, top) = d
            BY <2>1, <4>1, LetIs DEF top, d
          <6>2. localMap = Home(ctl, graph)
            BY <2>1, InLetIs
          <6> QED
            BY <4>1, <6>1, <6>2 DEF CallIn, CallOf, Calls, Home, d
        <5>4. k - 1 \in {j - 1 : j \in DOMAIN Locals[ctl[CallIn(Len(ctl))].sub]} /\ CallIn(Len(ctl)) # 0
          <6>1. k \in DOMAIN Locals[ctl[CallIn(Len(ctl))].sub]
            BY <5>1, <5>2, <5>3, LenIs DEF top
          <6> QED
            BY <4>1, <5>3, <6>1 DEF top
        <5> QED
          BY <5>2, <5>4, CellsAre DEF CellsExist
      <4> QED
        BY <2>2, <3>2, <4>1, <4>3, <4>4, LocalGet
    <3>3. CASE /\ let.name \notin NamesIn(let.sub) \cup Data \cup ToSet(own) /\ let.name \in Globals
               /\ let.ref = Global(let.name)
      <4>1. Scoped!Scope(let.name) = 0
        BY <2>1, <3>3, LetScope DEF let, own
      <4>2. Scoped!ValueOf(let.name) = globals[let.name]
        BY <2>5, <4>1, ValueIs DEF top
      <4> QED
        BY <3>3, <4>2, GlobalGet
    <3> QED
      BY <2>2, <3>1, <3>2, <3>3 DEF NamedLet
  <2>9. ASSUME NEW e \in Data \cap NamesIn(let.sub) PROVE Get(Local(VarGet(maps[localMap], e))) = Scoped!ValueOf(e)
    <3>1. VarGet(maps[localMap], e) = IndexIn(let.sub, e)
      BY <2>4, HeldGet
    <3>2. PICK k \in 1..Len(let.sub) : let.sub[k].name = e /\ IndexIn(let.sub, e) = let.sub[k].at
      BY <2>2, IndexInIs
    <3> QED
      BY <2>6, <3>1, <3>2
  <2> QED
    BY <2>7, <2>8, <2>9 DEF let
<1> QED
  BY <1>1, <1>2 DEF ReadsAgree

\* No name is known before there is a graph.
LEMMA NamedInit == ASSUME Init PROVE NamedNow
<1>1. lets = <<>>
  BY DEF Init
<1> QED
  BY <1>1, EmptyIs DEF NamedNow, NamedBy

\* ReadsAgree: the index a statement, an expression of a let or a data set
\* variable was resolved to reads what its name stands for in the text of the
\* script, whatever maps and frames were shared or used again meanwhile; when
\* the maps have room (Wide) and no variable is named like a data set (Apart).
THEOREM NamesRead == ASSUME Wide, Apart PROVE Spec => []ReadsAgree
<1> DEFINE Inv == Sharing /\ Framed /\ SizedNow /\ NamedNow
<1>1. Init => Inv
  BY CurrentMapInit, SharingInit, FramedInit, SizedInit, NamedInit
<1>2. Inv /\ [Next]_vars => Inv'
  BY SharingStep, FramedStep, SizedStep, NamedStep
<1>3. Inv => ReadsAgree
  BY ReadsAre
<1> QED
  BY <1>1, <1>2, <1>3, PTL DEF Spec

-----------------------------------------------------------------------------
(* What the steps do to the cells.                                          *)

Vals(f) == \A x \in DOMAIN f : f[x] \in Val
Filled(fs) == \A j \in 1..Len(fs) : Vals(fs[j])

\* Put
LEMMA PutDoes ==
  ASSUME NEW fs, SeqSeq(fs), NEW l \in 1..Len(fs), NEW i, NEW v
  PROVE  LET gs == Put(fs, l, i, v)
         IN /\ SeqSeq(gs) /\ Len(gs) = Len(fs) /\ \A j \in 1..Len(fs) : j # l => gs[j] = fs[j]
            /\ DOMAIN gs[l] = DOMAIN fs[l] /\ \A x \in DOMAIN fs[l] : gs[l][x] = IF x = i + 1 THEN v ELSE fs[l][x]
<1> DEFINE gs == Put(fs, l, i, v)
<1>1. CASE i + 1 \in DOMAIN fs[l]
  <2> DEFINE f == [fs[l] EXCEPT ![i + 1] = v]
  <2>1. gs = [fs EXCEPT ![l] = f]
    BY <1>1 DEF Put
  <2>2. DOMAIN f = DOMAIN fs[l] /\ \A x \in DOMAIN fs[l] : f[x] = IF x = i + 1 THEN v ELSE fs[l][x]
    OBVIOUS
  <2> HIDE DEF f
  <2>3. IsSeq(gs) /\ Len(gs) = Len(fs) /\ \A j \in 1..Len(fs) : gs[j] = IF j = l THEN f ELSE fs[j]
    <3>1. IsSeq(fs)
      BY DEF SeqSeq
    <3>2. Replaced(fs, l, f, [fs EXCEPT ![l] = f])
      BY <3>1, PutAt
    <3> QED
      BY <2>1, <3>2 DEF Replaced
  <2>4. SeqSeq(gs)
    BY PutIs DEF Grown
  <2> HIDE DEF gs
  <2>5. gs[l] = f /\ \A j \in 1..Len(fs) : j # l => gs[j] = fs[j]
    BY <2>3
  <2> QED
    BY <2>2, <2>3, <2>4, <2>5 DEF gs
<1>2. CASE ~ (i + 1 \in DOMAIN fs[l])
  BY <1>2 DEF Put
<1> QED
  BY <1>1, <1>2

\* Ensure
LEMMA EnsureDoes ==
  ASSUME NEW f, IsSeq(f), NEW n \in Nat
  PROVE  LET g == Ensure(f, n)
         IN /\ IsSeq(g) /\ DOMAIN f \subseteq DOMAIN g /\ \A x \in DOMAIN g : g[x] = IF x \in DOMAIN f THEN f[x] ELSE 0
            /\ Len(f) >= n => g = f
<1>1. Len(f) \in Nat /\ DOMAIN f = 1..Len(f) /\ IsSeq(Ensure(f, n))
  BY LenIs, EnsureIs
<1>2. CASE Len(f) >= n
  BY <1>1, <1>2 DEF Ensure
<1>3. CASE ~ Len(f) >= n
  <2> DEFINE m == n - Len(f)
             z == [k \in 1..m |-> 0]
  <2>1. m \in Nat /\ Ensure(f, n) = f \o z
    BY <1>1, <1>3 DEF Ensure
  <2>2. z \in Seq({0}) /\ Len(z) = m
    BY <2>1
  <2>3. PICK S : f \in Seq(S)
    BY DEF IsSeq
  <2>4. /\ DOMAIN (f \o z) = 1..(Len(f) + Len(z))
        /\ \A x \in 1..(Len(f) + Len(z)) : (f \o z)[x] = IF x <= Len(f) THEN f[x] ELSE z[x - Len(f)]
    <3>1. f \in Seq(S \cup {0}) /\ z \in Seq(S \cup {0})
      BY <2>2, <2>3, SeqMonotonic
    <3> HIDE DEF z
    <3> QED
      BY <3>1
  <2>5. \A x \in 1..m : z[x] = 0
    OBVIOUS
  <2> HIDE DEF z
  <2>6. DOMAIN Ensure(f, n) = 1..(Len(f) + m) /\ \A x \in 1..(Len(f) + m) : Ensure(f, n)[x] = IF x <= Len(f) THEN f[x] ELSE z[x - Len(f)]
    BY <2>1, <2>2, <2>4
  <2> HIDE DEF m
  <2>7. \A x \in 1..(Len(f) + m) : Ensure(f, n)[x] = IF x \in 1..Len(f) THEN f[x] ELSE 0
    <3> SUFFICES ASSUME NEW x \in 1..(Len(f) + m) PROVE Ensure(f, n)[x] = IF x \in 1..Len(f) THEN f[x] ELSE 0
      OBVIOUS
    <3>1. CASE x <= Len(f)
      BY <1>1, <2>6, <3>1
    <3>2. CASE ~ x <= Len(f)
      <4>1. x - Len(f) \in 1..m /\ x \notin 1..Len(f)
        BY <1>1, <2>1, <3>2
      <4> QED
        BY <2>5, <2>6, <3>2, <4>1
    <3> QED
      BY <3>1, <3>2
  <2>8. 1..Len(f) \subseteq 1..(Len(f) + m)
    BY <1>1, <2>1
  <2> QED
    BY <1>1, <1>3, <2>6, <2>7, <2>8
<1> QED
  BY <1>2, <1>3

\* allocLocal
LEMMA AllocDoes ==
  ASSUME SeqSeq(frames), level \in 0..Len(frames), NEW num \in Nat
  PROVE  LET gs == AllocLocal(num)
         IN /\ SeqSeq(gs) /\ level + 1 \in 1..Len(gs) /\ Len(frames) <= Len(gs)
            /\ \A j \in 1..Len(gs) : j \in 1..Len(frames) \/ j = level + 1
            /\ \A j \in 1..Len(frames) : j # level + 1 => gs[j] = frames[j]
            /\ Filled(frames) => Vals(gs[level + 1])
<1>0. IsSeq(frames) /\ Len(frames) \in Nat /\ level \in Nat
  BY LenIs DEF SeqSeq
<1>a. Grown(frames, AllocLocal(num)) /\ level + 1 \in 1..Len(AllocLocal(num))
  BY AllocIs
<1>1. CASE level = Len(frames)
  <2> DEFINE z == [k \in 1..num |-> 0]
             gs == Append(frames, z)
  <2>1. AllocLocal(num) = gs
    BY <1>1 DEF AllocLocal
  <2>2. DOMAIN z = 1..num /\ \A x \in 1..num : z[x] = 0
    OBVIOUS
  <2> HIDE DEF z
  <2>3. Len(gs) = Len(frames) + 1 /\ (\A j \in 1..Len(frames) : gs[j] = frames[j]) /\ gs[Len(frames) + 1] = z
    BY <1>0, AppendIs
  <2>4. Vals(z)
    BY <2>2, NamesAssumption DEF Vals
  <2> HIDE DEF gs
  <2> QED
    BY <1>0, <1>1, <1>a, <2>1, <2>3, <2>4 DEF Grown
<1>2. CASE level # Len(frames)
  <2> DEFINE f == Ensure(frames[level + 1], num + 1)
             gs == [frames EXCEPT ![level + 1] = f]
  <2>1. AllocLocal(num) = gs
    BY <1>2 DEF AllocLocal
  <2>2. level + 1 \in 1..Len(frames) /\ num + 1 \in Nat
    BY <1>0, <1>2
  <2>3. \A x \in DOMAIN f : f[x] = IF x \in DOMAIN frames[level + 1] THEN frames[level + 1][x] ELSE 0
    BY <2>2, EnsureDoes DEF SeqSeq
  <2> HIDE DEF f
  <2>4. Replaced(frames, level + 1, f, gs)
    BY <1>0, <2>2, PutAt
  <2> HIDE DEF gs
  <2>5. Len(gs) = Len(frames) /\ \A j \in 1..Len(frames) : gs[j] = IF j = level + 1 THEN f ELSE frames[j]
    BY <2>4 DEF Replaced
  <2>6. Filled(frames) => Vals(f)
    BY <2>2, <2>3, NamesAssumption DEF Filled, Vals
  <2> QED
    BY <1>0, <1>a, <2>1, <2>2, <2>5, <2>6 DEF Grown
<1> QED
  BY <1>1, <1>2

\* The frames with the one the let is to have
LEMMA ForLetDoes ==
  ASSUME Sharing, Framed, graph.state # "none", graph.depth = Len(ctl)
  PROVE  /\ SeqSeq(FramesForLet) /\ LevelForLet \in 1..Len(FramesForLet) /\ Len(frames) <= Len(FramesForLet)
         /\ Filled(frames) => Filled(FramesForLet)
         /\ graph.depth > 0 => FramesForLet = frames /\ LevelForLet = level
<1>1. SeqSeq(frames) /\ level \in 0..Len(frames) /\ Len(frames) \in Nat /\ Len(ctl) \in Nat
  BY FramedIs
<1>2. Grown(frames, FramesForLet) /\ LevelForLet \in 1..Len(FramesForLet)
  BY FramesForLetIs
<1>3. localMap = "none" <=> graph.depth = 0
  BY AtHome
<1>4. CASE localMap = "none"
  <2>1. /\ \A j \in 1..Len(AllocLocal(0)) : j \in 1..Len(frames) \/ j = level + 1
        /\ \A j \in 1..Len(frames) : j # level + 1 => AllocLocal(0)[j] = frames[j]
        /\ Filled(frames) => Vals(AllocLocal(0)[level + 1])
    BY <1>1, AllocDoes
  <2>2. Filled(frames) => Filled(AllocLocal(0))
    BY <2>1 DEF Filled
  <2> QED
    BY <1>1, <1>2, <1>3, <1>4, <2>2 DEF FramesForLet, Grown
<1>5. CASE localMap # "none"
  BY <1>1, <1>2, <1>5 DEF FramesForLet, LevelForLet, Grown
<1> QED
  BY <1>4, <1>5

\* parseLet: the cells of the frame it has, those of the new indices cleared
LEMMA ParsedCells ==
  ASSUME Sharing, Framed, NEW n \in Names, ParseLet(n)
  PROVE  LET map == maps[MapForLet]
             new == NewIndices(map, IsNew(map, n))
             fs == FramesForLet
             at == LevelForLet
             cells == LetCells(fs, at, new)
         IN /\ IsSeq(cells) /\ Len(fs[at]) \in Nat /\ Len(cells) \in Nat /\ Len(fs[at]) <= Len(cells)
            /\ \A i \in new : i \in Nat /\ i >= Len(OwnOf(Home(ctl, graph))) /\ i + 1 \in DOMAIN cells
            /\ \A x \in DOMAIN cells : cells[x] = IF x - 1 \in new THEN 0 ELSE IF x \in DOMAIN fs[at] THEN fs[at][x] ELSE 0
            /\ \A i \in 1..Len(Last(ParsedFor(map, n).subs)) : Last(ParsedFor(map, n).subs)[i].at \in new
            /\ Len(frames') = Len(fs) /\ \A j \in 1..Len(fs) : frames'[j] = IF j = at THEN cells ELSE fs[j]
<1> DEFINE home == Home(ctl, graph)
           map == maps[MapForLet]
           own == OwnOf(home)
           new == NewIndices(map, IsNew(map, n))
           fs == FramesForLet
           at == LevelForLet
           cells == LetCells(fs, at, new)
           S == {Len(fs[at])} \cup {i + 1 : i \in new}
           length == Max(S)
           t == ParsedFor(map, n)
<1>1. graph.state = "open" /\ graph.depth = Len(ctl)
  BY DEF ParseLet
<1>2. MapForLet = home /\ Bare(map, own) /\ home \in Subs \cup {"temp"}
  BY <1>1, AtHome
<1>3. SeqSeq(fs) /\ at \in 1..Len(fs)
  BY <1>1, ForLetDoes
<1>4. IsSeq(fs[at]) /\ Len(fs[at]) \in Nat
  BY <1>3, LenIs DEF SeqSeq
<1>5. /\ \A i \in 1..Len(Last(t.subs)) : Last(t.subs)[i].at \in new
      /\ \A i \in new : i \in Len(own)..(t.size - 1)
      /\ t.size \in Nat /\ Len(own) \in Nat
  <2> DEFINE isNew == IsNew(map, n)
  <2>1. t = Parsed(map, n, isNew)
    BY DEF ParsedFor
  <2> HIDE DEF isNew, own, map, t
  <2>2. /\ \A i \in 1..Len(Last(t.subs)) : Last(t.subs)[i].at \in NewIndices(map, isNew)
        /\ \A i \in NewIndices(map, isNew) : i \in Len(own)..(t.size - 1)
        /\ Holds(t, own, Last(t.subs))
    BY <1>2, <2>1, ParsedIs
  <2>3. t.size \in Nat /\ Len(own) \in Nat
    BY <2>2 DEF Holds, Parted
  <2> QED
    BY <2>2, <2>3 DEF isNew
<1>6. cells = [i \in 1..length |-> IF i - 1 \in new THEN 0 ELSE Ensure(fs[at], length)[i]]
  BY DEF LetCells
<1>7. frames' = [fs EXCEPT ![at] = cells]
  BY ParseLetReads
<1> HIDE DEF map, own, new, fs, at, cells, t, home
<1>8. length \in Nat /\ length >= Len(fs[at]) /\ \A i \in new : i \in Nat /\ i >= Len(own) /\ i + 1 \in 1..length
  <2> DEFINE b == Len(fs[at]) + t.size
  <2>1. b \in Nat /\ S \subseteq 0..b /\ S # {}
    BY <1>4, <1>5
  <2> HIDE DEF b
  <2>2. length \in Nat /\ \A j \in S : j <= length
    BY <2>1, MaxIs
  <2>3. \A i \in new : i + 1 <= length
    BY <2>2
  <2>4. Len(fs[at]) <= length
    BY <2>2
  <2> HIDE DEF length
  <2> QED
    BY <1>4, <1>5, <2>2, <2>3, <2>4
<1> HIDE DEF length
<1>9. cells = [i \in 1..length |-> cells[i]]
  BY <1>6
<1>10. IsSeq(cells) /\ Len(cells) = length /\ DOMAIN cells = 1..length
  BY <1>8, <1>9, ListIs
<1>11. ASSUME NEW x \in 1..length PROVE cells[x] = IF x - 1 \in new THEN 0 ELSE IF x \in DOMAIN fs[at] THEN fs[at][x] ELSE 0
  <2> DEFINE g == Ensure(fs[at], length)
  <2>1. IsSeq(g) /\ Len(g) >= length /\ Len(g) \in Nat /\ \A y \in DOMAIN g : g[y] = IF y \in DOMAIN fs[at] THEN fs[at][y] ELSE 0
    BY <1>4, <1>8, EnsureIs, EnsureDoes
  <2>2. cells[x] = IF x - 1 \in new THEN 0 ELSE g[x]
    BY <1>6
  <2> HIDE DEF g
  <2>3. x \in DOMAIN g
    BY <1>8, <2>1, LenIs
  <2> QED
    BY <2>1, <2>2, <2>3
<1>12. Len(frames') = Len(fs) /\ \A j \in 1..Len(fs) : frames'[j] = IF j = at THEN cells ELSE fs[j]
  <2>1. IsSeq(fs)
    BY <1>3 DEF SeqSeq
  <2>2. Replaced(fs, at, cells, [fs EXCEPT ![at] = cells])
    BY <1>3, <2>1, PutAt
  <2> QED
    BY <1>7, <2>2 DEF Replaced
<1>13. /\ IsSeq(cells) /\ Len(fs[at]) \in Nat /\ Len(cells) \in Nat /\ Len(fs[at]) <= Len(cells)
       /\ \A i \in new : i \in Nat /\ i >= Len(own) /\ i + 1 \in DOMAIN cells
       /\ \A x \in DOMAIN cells : cells[x] = IF x - 1 \in new THEN 0 ELSE IF x \in DOMAIN fs[at] THEN fs[at][x] ELSE 0
       /\ \A i \in 1..Len(Last(t.subs)) : Last(t.subs)[i].at \in new
  BY <1>4, <1>5, <1>8, <1>10, <1>11
<1> QED
  BY <1>12, <1>13 DEF map, own, new, fs, at, cells, t, home

\* The cells of a call at the top are there.
LEMMA TopCells ==
  ASSUME Sharing, Framed, ctl # <<>>, ctl[Len(ctl)].kind = "call"
  PROVE  Around = Locals[ctl[Len(ctl)].sub] /\ level \in 1..Len(frames) /\ Len(Around) \in Nat
         /\ Len(frames[level]) \in Nat /\ Len(Around) <= Len(frames[level])
<1>1. Around = Locals[ctl[Len(ctl)].sub] /\ IsSeq(Around) /\ level \in 1..Len(frames) /\ Len(ctl) \in 1..Len(ctl)
  BY AtCall DEF Around, Top
<1>2. FrameOf(ctl, graph, level, Len(ctl)) = level
  BY AtLevel DEF Kind, Top
<1>3. Len(Around) <= Len(frames[level])
  BY <1>1, <1>2, FramedIs DEF CallFrames
<1> QED
  BY <1>1, <1>3, FramedIs, LenIs DEF SeqSeq

\* A graph stands on the call whose map its lets borrow.
LEMMA GraphAround ==
  ASSUME Sharing, Framed, graph.state # "none", graph.depth = Len(ctl)
  PROVE  /\ ctl = <<>> \/ ctl[Len(ctl)].kind = "call"
         /\ OwnOf(Home(ctl, graph)) = Around
<1>1. Stack(ctl) /\ Len(ctl) \in Nat /\ (Len(ctl) = 0 <=> ctl = <<>>) /\ Graph(ctl, graph, Len(lets))
  BY FramedIs, SharingIs
<1>2. CASE ctl = <<>>
  BY <1>1, <1>2 DEF Home, OwnOf, Around
<1>3. CASE ctl # <<>>
  <2>1. Len(ctl) \in 1..Len(ctl) /\ Len(ctl) > 0 /\ ctl[Len(ctl)].kind = "call"
    BY <1>1, <1>3 DEF Graph
  <2>2. ctl[Len(ctl)].sub \in Subs
    BY <1>1, <2>1 DEF Stack
  <2> QED
    BY <1>1, <1>3, <2>1, <2>2, NamesAssumption DEF Home, OwnOf, Around, Top
<1> QED
  BY <1>2, <1>3

\* The value parseLet finds for the name of the expression
LEMMA ParsedValue ==
  ASSUME Apart, Sharing, Framed, NEW n \in Names, ParseLet(n)
  PROVE  LET map == maps[MapForLet]
             cells == LetCells(FramesForLet, LevelForLet, NewIndices(map, IsNew(map, n)))
             let == ReadLet(map, n, cells)
         IN /\ n \in NamesIn(let.sub) => let.value = 0
            /\ n \notin NamesIn(let.sub) => (n \in ToSet(Around) \/ n \in Globals)
            /\ n \notin NamesIn(let.sub) /\ n \in ToSet(Around) =>
                 /\ let.value = At(frames[level], VarGet(NewMap(Around), n)) /\ VarGet(NewMap(Around), n) + 1 \in DOMAIN frames[level]
                 /\ ctl # <<>>
            /\ n \notin NamesIn(let.sub) /\ n \notin ToSet(Around) => let.value = globals[n]
            /\ lets' = Append(lets, let)
<1> DEFINE map == maps[MapForLet]
           new == NewIndices(map, IsNew(map, n))
           fs == FramesForLet
           at == LevelForLet
           cells == LetCells(fs, at, new)
           let == ReadLet(map, n, cells)
           own == OwnOf(Home(ctl, graph))
           i == VarGet(NewMap(Around), n)
<1>1. graph.state # "none" /\ graph.depth = Len(ctl)
  BY DEF ParseLet
<1>2. MapForLet = Home(ctl, graph) /\ Home(ctl, graph) \in Subs \cup {"temp"} /\ Bare(map, own)
  BY <1>1, AtHome
<1>3. own = Around /\ (ctl = <<>> \/ ctl[Len(ctl)].kind = "call")
  BY <1>1, GraphAround
<1>4. NamedLet(own, let)
  <2> HIDE DEF cells
  <2> QED
    BY <1>2, ReadLetNamed
<1>5. lets' = Append(lets, let)
  BY ParseLetReads
<1>6. let.name = n /\ let.sub = Last(ParsedFor(map, n).subs) /\ let.ref = LetRef(map, n)
      /\ let.value = IF let.ref.local THEN cells[let.ref.at + 1] ELSE globals[n]
  BY DEF ReadLet
<1>7. /\ Len(fs[at]) \in Nat /\ IsSeq(cells) /\ Len(cells) \in Nat /\ Len(fs[at]) <= Len(cells)
      /\ \A j \in new : j \in Nat /\ j >= Len(own) /\ j + 1 \in DOMAIN cells
      /\ \A x \in DOMAIN cells : cells[x] = IF x - 1 \in new THEN 0 ELSE IF x \in DOMAIN fs[at] THEN fs[at][x] ELSE 0
      /\ \A j \in 1..Len(let.sub) : let.sub[j].at \in new
  BY <1>6, ParsedCells
<1>8. graph.depth > 0 => fs = frames /\ at = level
  BY <1>1, ForLetDoes
<1>9. IsSeq(Around) /\ DOMAIN cells = 1..Len(cells) /\ IsSeq(let.sub)
  <2>1. IsSeq(Around)
    BY <1>2, <1>3, OwnOfIs
  <2>2. IsSeq(let.sub)
    <3>1. Holds(ParsedFor(map, n), own, Last(ParsedFor(map, n).subs))
      <4> DEFINE isNew == IsNew(map, n)
      <4> HIDE DEF isNew, own, map
      <4>1. Holds(Parsed(map, n, isNew), own, Last(Parsed(map, n, isNew).subs))
        BY <1>2, ParsedIs
      <4> QED
        BY <4>1 DEF ParsedFor, isNew
    <3> QED
      BY <1>6, <3>1 DEF Holds, Parted
  <2> QED
    BY <1>7, <2>1, <2>2, LenIs
<1>10. \A j : Local(j).local = TRUE /\ Local(j).at = j
  BY DEF Local
<1>11. Global(n).local = FALSE
  BY DEF Global
<1> HIDE DEF let, cells, new, fs, at, own, map
<1>12. CASE \E j \in 1..Len(let.sub) : let.sub[j].name = let.name /\ let.ref = Local(let.sub[j].at)
  <2>1. PICK j \in 1..Len(let.sub) : let.sub[j].name = n /\ let.ref = Local(let.sub[j].at)
    BY <1>6, <1>12
  <2>2. n \in NamesIn(let.sub)
    BY <1>9, <2>1, NamesAre
  <2> DEFINE p == let.sub[j].at
  <2>3. p \in new /\ let.ref.local /\ let.ref.at = p
    BY <1>7, <1>10, <2>1
  <2> HIDE DEF p
  <2>4. p + 1 \in DOMAIN cells /\ (p + 1) - 1 = p
    BY <1>7, <2>3
  <2>5. let.value = 0
    BY <1>6, <1>7, <2>3, <2>4
  <2> QED
    BY <1>5, <2>2, <2>5 DEF let, cells, new, fs, at, map
<1>13. CASE /\ let.name \notin NamesIn(let.sub) \cup Data /\ let.name \in ToSet(own)
            /\ let.ref = Local(VarGet(NewMap(own), let.name))
  <2>1. n \in ToSet(Around) /\ n \notin NamesIn(let.sub) /\ let.ref.local /\ let.ref.at = i
    BY <1>3, <1>6, <1>10, <1>13
  <2>2. ctl # <<>> /\ ctl[Len(ctl)].kind = "call"
    <3>1. ctl = <<>> => ToSet(Around) = {}
      BY DEF Around, ToSet
    <3> QED
      BY <1>3, <2>1, <3>1
  <2>3. Len(Around) \in Nat /\ Len(frames[level]) \in Nat /\ Len(Around) <= Len(frames[level]) /\ level \in 1..Len(frames)
    BY <2>2, TopCells
  <2>4. fs = frames /\ at = level
    <3>1. graph.depth > 0
      BY <1>1, <2>2, SharingIs
    <3> QED
      BY <1>8, <3>1
  <2>5. PICK k \in 1..Len(Around) : i = k - 1
    BY <1>9, <2>1, OwnIndex
  <2> HIDE DEF i
  <2>6. i + 1 = k /\ k - 1 = i /\ k \in 1..Len(frames[level]) /\ k \in 1..Len(cells)
    BY <1>7, <2>3, <2>4, <2>5
  <2>7. DOMAIN frames[level] = 1..Len(frames[level])
    <3>1. IsSeq(frames[level])
      BY <2>3, FramedIs DEF SeqSeq
    <3> QED
      BY <3>1, LenIs
  <2>8. i \notin new
    <3> SUFFICES ASSUME i \in new PROVE FALSE
      OBVIOUS
    <3>1. i >= Len(Around)
      BY <1>3, <1>7
    <3> QED
      BY <2>3, <2>5, <3>1
  <2>9. cells[k] = frames[level][k]
    BY <1>7, <1>9, <2>4, <2>6, <2>7, <2>8
  <2>10. let.value = At(frames[level], i) /\ i + 1 \in DOMAIN frames[level]
    BY <1>6, <2>1, <2>6, <2>7, <2>9 DEF At
  <2> QED
    BY <1>5, <2>1, <2>2, <2>10 DEF let, cells, new, fs, at, map, i
<1>14. CASE /\ let.name \notin NamesIn(let.sub) \cup Data \cup ToSet(own) /\ let.name \in Globals
            /\ let.ref = Global(let.name)
  <2>1. n \notin NamesIn(let.sub) /\ n \notin ToSet(Around) /\ n \in Globals /\ let.value = globals[n]
    BY <1>3, <1>6, <1>11, <1>14
  <2> QED
    BY <1>5, <2>1 DEF let, cells, new, fs, at, map
<1> QED
  BY <1>4, <1>12, <1>13, <1>14 DEF NamedLet

\* findAdd: the index of d[i], in its submap
LEMMA DetectedCell ==
  ASSUME Sharing, NEW d \in Data, Detect(d)
  PROVE  LET after == Last(Detected(maps[localMap], d).subs)
             at == IndexIn(after, d)
         IN /\ at \in Nat /\ at + 1 \in Nat /\ Len(OwnOf(localMap)) <= at /\ Len(OwnOf(localMap)) \in Nat
            /\ Holds(Detected(maps[localMap], d), OwnOf(localMap), after) /\ IsSeq(after)
            /\ \E k \in 1..Len(after) : after[k].name = d /\ at = after[k].at
<1> DEFINE own == OwnOf(localMap)
           sub == lets[Top.let].sub
           t == Detected(maps[localMap], d)
           after == Last(t.subs)
           at == IndexIn(after, d)
<1>1. Kind = "let"
  BY DEF Detect, InLet
<1>2. Holds(maps[localMap], own, sub) /\ Top.let \in 1..Len(lets) /\ Lets(localMap, lets) /\ localMap \in Subs \cup {"temp"}
  BY <1>1, InLetIs DEF Sharing
<1>3. Len(sub) > 0
  BY <1>2 DEF Lets, Loose
<1>4. Len(own) \in Nat
  BY <1>2, OwnOfIs
<1> HIDE DEF own, sub
<1>5. Holds(t, own, after) /\ IsSeq(after) /\ \E k \in 1..Len(after) : after[k].name = d
  BY <1>2, <1>3, DetectedIs
<1> HIDE DEF t, after
<1>6. d \in NamesIn(after)
  BY <1>5, NamesAre
<1>7. PICK k \in 1..Len(after) : after[k].name = d /\ at = after[k].at
  BY <1>5, <1>6, IndexInIs
<1> HIDE DEF at
<1>8. after[k].at \in Len(own)..(t.size - 1) /\ t.size \in Nat
  BY <1>5 DEF Holds, Parted
<1>9. at \in Nat /\ at + 1 \in Nat /\ Len(own) <= at
  BY <1>4, <1>7, <1>8
<1> QED
  BY <1>4, <1>5, <1>7, <1>9 DEF own, t, after, at

-----------------------------------------------------------------------------
(* Every cell has a value: what is left in a frame is somebody's.           *)

ValuesNow ==
  /\ globals \in [Globals -> Val]
  /\ Filled(frames)
  /\ \A n \in 1..Len(lets) : lets[n].value \in Val

\* A cell that is there, or is not
LEMMA AtVal == ASSUME NEW f, Vals(f), NEW i PROVE At(f, i) \in Val
BY NamesAssumption DEF At, Vals

\* One frame with other values
LEMMA FilledOne ==
  ASSUME NEW fs, Filled(fs), NEW l, NEW gs, Len(gs) = Len(fs), \A j \in 1..Len(fs) : j # l => gs[j] = fs[j], Vals(gs[l])
  PROVE  Filled(gs)
BY DEF Filled

\* Put
LEMMA PutFills ==
  ASSUME NEW fs, SeqSeq(fs), Filled(fs), NEW l \in 1..Len(fs), NEW i, NEW v \in Val
  PROVE  Filled(Put(fs, l, i, v)) /\ SeqSeq(Put(fs, l, i, v)) /\ Len(Put(fs, l, i, v)) = Len(fs)
<1> DEFINE gs == Put(fs, l, i, v)
<1>1. SeqSeq(gs) /\ Len(gs) = Len(fs) /\ (\A j \in 1..Len(fs) : j # l => gs[j] = fs[j])
      /\ DOMAIN gs[l] = DOMAIN fs[l] /\ \A x \in DOMAIN fs[l] : gs[l][x] = IF x = i + 1 THEN v ELSE fs[l][x]
  BY PutDoes
<1> HIDE DEF gs
<1>2. Vals(gs[l])
  BY <1>1 DEF Vals, Filled
<1> QED
  BY <1>1, <1>2, FilledOne DEF gs

\* Every step leaves values.
LEMMA ValuesStep == ASSUME Apart, Sharing, Framed, NamedNow, ValuesNow, [Next]_vars PROVE ValuesNow'
<1>a. /\ SeqSeq(frames) /\ level \in 0..Len(frames) /\ Len(frames) \in Nat /\ Graph(ctl, graph, Len(lets)) /\ Len(lets) \in Nat
      /\ Stack(ctl) /\ Len(ctl) \in Nat /\ Lets(Home(ctl, graph), lets)
  BY FramedIs
<1>b. Sharing' /\ CurrentMap' /\ globals \in [Globals -> Val] /\ Filled(frames) /\ \A n \in 1..Len(lets) : lets[n].value \in Val
  BY SharingStep DEF Sharing, ValuesNow
<1>0. ASSUME UNCHANGED <<globals, frames>>, lets' = lets \/ lets' = <<>> PROVE ValuesNow'
  BY <1>0, <1>b, EmptyIs DEF ValuesNow
<1>1. ASSUME NEW s \in Subs, NEW v \in Val, Call(s, v) PROVE ValuesNow'
  <2> DEFINE fs == AllocLocal(maps[s].size)
             f == [i \in DOMAIN fs[level + 1] |-> IF i <= NbParam[s] THEN v ELSE fs[level + 1][i]]
  <2>1. UNCHANGED <<globals, lets>> /\ frames' = [fs EXCEPT ![level + 1] = f]
    BY <1>1 DEF Call
  <2>2. maps[s].size \in Nat
    BY RoomFor
  <2>3. /\ SeqSeq(fs) /\ level + 1 \in 1..Len(fs) /\ Len(frames) <= Len(fs)
        /\ \A j \in 1..Len(fs) : j \in 1..Len(frames) \/ j = level + 1
        /\ \A j \in 1..Len(frames) : j # level + 1 => fs[j] = frames[j]
        /\ Vals(fs[level + 1])
    BY <1>a, <1>b, <2>2, AllocDoes
  <2> HIDE DEF fs
  <2>4. Filled(fs)
    BY <1>b, <2>3 DEF Filled
  <2>5. Vals(f)
    BY <2>3 DEF Vals
  <2> HIDE DEF f
  <2>6. Replaced(fs, level + 1, f, [fs EXCEPT ![level + 1] = f])
    BY <2>3, PutAt DEF SeqSeq
  <2>7. Filled([fs EXCEPT ![level + 1] = f])
    <3> DEFINE gs == [fs EXCEPT ![level + 1] = f]
    <3>1. Len(gs) = Len(fs) /\ \A j \in 1..Len(fs) : gs[j] = IF j = level + 1 THEN f ELSE fs[j]
      BY <2>6 DEF Replaced
    <3> HIDE DEF gs
    <3>2. Filled(gs)
      BY <2>4, <2>5, <3>1 DEF Filled
    <3> QED
      BY <3>2 DEF gs
  <2> QED
    BY <1>b, <2>1, <2>7 DEF ValuesNow
<1>2. ASSUME NEW n \in Names, NEW v \in Val, Assign(n, v) PROVE ValuesNow'
  <2> DEFINE ref == Static(n)
  <2>1. /\ UNCHANGED lets
        /\ IF ref.local /\ Fits(ref.at) THEN frames' = Put(frames, level, ref.at, v) /\ globals' = globals
           ELSE frames' = frames /\ \E g : globals' = [globals EXCEPT ![g] = v]
    BY <1>2 DEF Assign
  <2> HIDE DEF ref
  <2>2. CASE ref.local /\ Fits(ref.at)
    <3>1. ctl # <<>>
      BY <2>2, NoMapAtAll DEF Fits
    <3>2. level \in 1..Len(frames)
      BY <3>1, AtLevel
    <3>3. Filled(Put(frames, level, ref.at, v))
      BY <1>a, <1>b, <3>2, PutFills
    <3> QED
      BY <1>b, <2>1, <2>2, <3>3 DEF ValuesNow
  <2>3. CASE ~ (ref.local /\ Fits(ref.at))
    <3>1. PICK g : globals' = [globals EXCEPT ![g] = v]
      BY <2>1, <2>3
    <3>2. globals' \in [Globals -> Val]
      BY <1>b, <3>1
    <3> QED
      BY <1>b, <2>1, <2>3, <3>2 DEF ValuesNow
  <2> QED
    BY <2>2, <2>3
<1>3. ASSUME NEW n \in Names, ParseLet(n) PROVE ValuesNow'
  <2> DEFINE map == maps[MapForLet]
             cells == LetCells(FramesForLet, LevelForLet, NewIndices(map, IsNew(map, n)))
             let == ReadLet(map, n, cells)
             fs == FramesForLet
             at == LevelForLet
  <2>1. graph.state # "none" /\ graph.depth = Len(ctl) /\ globals' = globals
    BY <1>3 DEF ParseLet
  <2>2. SeqSeq(fs) /\ at \in 1..Len(fs) /\ Filled(fs)
    BY <1>b, <2>1, ForLetDoes
  <2>3. /\ \A x \in DOMAIN cells : cells[x] = 0 \/ (x \in DOMAIN fs[at] /\ cells[x] = fs[at][x])
        /\ Len(frames') = Len(fs) /\ \A j \in 1..Len(fs) : frames'[j] = IF j = at THEN cells ELSE fs[j]
    BY <1>3, ParsedCells
  <2>4. /\ let.value = 0 \/ (n \in ToSet(Around) /\ ctl # <<>> /\ let.value = At(frames[level], VarGet(NewMap(Around), n)))
           \/ (n \in Globals /\ let.value = globals[n])
        /\ lets' = Append(lets, let)
    BY <1>3, ParsedValue
  <2> HIDE DEF let, cells, fs, at, map
  <2>5. Vals(cells)
    BY <2>2, <2>3, NamesAssumption DEF Vals, Filled
  <2>6. Filled(frames)'
    BY <2>2, <2>3, <2>5 DEF Filled
  <2>7. let.value \in Val
    <3>1. CASE ctl # <<>> /\ let.value = At(frames[level], VarGet(NewMap(Around), n))
      <4>1. level \in 1..Len(frames)
        BY <3>1, AtLevel
      <4> QED
        BY <1>b, <3>1, <4>1, AtVal DEF Filled
    <3> QED
      BY <1>b, <2>4, <3>1, NamesAssumption
  <2>8. \A k \in 1..Len(lets') : lets'[k].value \in Val
    <3>1. Len(lets') = Len(lets) + 1 /\ lets'[Len(lets) + 1] = let /\ \A k \in 1..Len(lets) : lets'[k] = lets[k]
      BY <1>a, <2>4, AppendIs DEF Lets
    <3>2. \A k \in 1..Len(lets') : k \in 1..Len(lets) \/ k = Len(lets) + 1
      BY <1>a, <3>1
    <3> QED
      BY <1>b, <2>7, <3>1, <3>2
  <2> QED
    BY <1>b, <2>1, <2>6, <2>8 DEF ValuesNow
<1>4. CASE DoLet
  <2> DEFINE fs == FramesForLet
             at == LevelForLet
             let == NextLet
             gs == RestoredFrames(let)
  <2>1. /\ graph.state # "none" /\ graph.depth = Len(ctl) /\ lets' = lets /\ frames' = Put(gs, at, let.x, 0)
        /\ globals' = RestoredGlobals(let) /\ graph.todo # <<>>
    BY <1>4 DEF DoLet, Drawing
  <2>2. SeqSeq(fs) /\ at \in 1..Len(fs) /\ Filled(fs)
    BY <1>b, <2>1, ForLetDoes
  <2>3. let.value \in Val
    <3>1. Head(graph.todo) \in 1..Len(lets)
      BY <1>4, <1>b, DoLetKeeps
    <3> QED
      BY <1>b, <3>1 DEF NextLet
  <2> HIDE DEF fs, at, let
  <2>4. SeqSeq(gs) /\ Len(gs) = Len(fs) /\ Filled(gs)
    <3>1. gs = IF let.ref.local THEN Put(fs, at, let.ref.at, let.value) ELSE fs
      BY DEF RestoredFrames, fs, at
    <3> HIDE DEF gs
    <3> QED
      BY <2>2, <2>3, <3>1, PutFills
  <2>5. Filled(Put(gs, at, let.x, 0))
    <3>1. at \in 1..Len(gs) /\ 0 \in Val
      BY <2>2, <2>4, NamesAssumption
    <3> HIDE DEF gs
    <3> QED
      BY <2>4, <3>1, PutFills
  <2>6. RestoredGlobals(let) \in [Globals -> Val]
    BY <1>b, <2>3 DEF RestoredGlobals
  <2> QED
    BY <1>b, <2>1, <2>5, <2>6 DEF ValuesNow
<1>5. ASSUME NEW d \in Data, Detect(d) PROVE ValuesNow'
  <2> DEFINE at == IndexIn(Last(Detected(maps[localMap], d).subs), d)
             f == Ensure(frames[level], at + 1)
             fs == Expand(frames, at)
  <2>1. globals' = globals /\ frames' = Put(fs, level, at, 0) /\ Kind = "let"
    BY <1>5 DEF Detect, Detected, InLet
  <2>2. level \in 1..Len(frames) /\ IsSeq(frames[level])
    BY <1>a, <2>1, AtLevel DEF Kind, SeqSeq
  <2>3. at + 1 \in Nat
    BY <1>5, <1>b, DetectedCell
  <2> HIDE DEF at
  <2>4. IsSeq(f) /\ Len(f) >= Len(frames[level]) /\ \A x \in DOMAIN f : f[x] = IF x \in DOMAIN frames[level] THEN frames[level][x] ELSE 0
    BY <2>2, <2>3, EnsureIs, EnsureDoes
  <2>5. fs = [frames EXCEPT ![level] = f]
    BY DEF Expand
  <2>6. Vals(f)
    BY <1>b, <2>2, <2>4, NamesAssumption DEF Filled, Vals
  <2> HIDE DEF f, fs
  <2>7. SeqSeq(fs) /\ Len(fs) = Len(frames) /\ \A j \in 1..Len(frames) : fs[j] = IF j = level THEN f ELSE frames[j]
    <3>1. Replaced(frames, level, f, fs)
      BY <1>a, <2>2, <2>5, PutAt DEF SeqSeq
    <3>2. IsSeq(fs) /\ Len(fs) = Len(frames) /\ \A j \in 1..Len(frames) : fs[j] = IF j = level THEN f ELSE frames[j]
      BY <3>1 DEF Replaced
    <3> QED
      BY <1>a, <2>4, <3>2 DEF SeqSeq
  <2>8. Filled(fs)
    BY <1>b, <2>6, <2>7 DEF Filled
  <2>9. Filled(Put(fs, level, at, 0))
    BY <2>2, <2>7, <2>8, PutFills, NamesAssumption
  <2>10. \A k \in 1..Len(lets') : lets'[k].value \in Val
    <3>1. /\ Top.let \in 1..Len(lets) /\ Len(lets') = Len(lets) /\ \A n \in 1..Len(lets) : n # Top.let => lets'[n] = lets[n]
          /\ lets'[Top.let].value = lets[Top.let].value
      BY <1>5, <1>b, DetectReads
    <3> QED
      BY <1>b, <3>1
  <2> QED
    BY <1>b, <2>1, <2>9, <2>10 DEF ValuesNow
<1>6. ASSUME NEW v \in Val, NEW w \in Val, Select(v, w) PROVE ValuesNow'
  <2> DEFINE let == lets[Top.let]
             data == {let.sub[k].at : k \in {j \in DOMAIN let.sub : let.sub[j].name \in Data}}
             f == [i \in DOMAIN frames[level] |-> IF i - 1 = let.x THEN v ELSE IF i - 1 \in data THEN w ELSE frames[level][i]]
  <2>1. UNCHANGED <<globals, lets>> /\ frames' = [frames EXCEPT ![level] = f] /\ Kind = "let"
    BY <1>6 DEF Select, InLet
  <2>2. level \in 1..Len(frames)
    BY <2>1, AtLevel DEF Kind
  <2>3. Vals(f)
    BY <1>b, <2>2 DEF Filled, Vals
  <2> HIDE DEF f
  <2>4. Replaced(frames, level, f, [frames EXCEPT ![level] = f])
    BY <1>a, <2>2, PutAt DEF SeqSeq
  <2>5. Filled([frames EXCEPT ![level] = f])
    <3> DEFINE gs == [frames EXCEPT ![level] = f]
    <3>1. Len(gs) = Len(frames) /\ \A j \in 1..Len(frames) : gs[j] = IF j = level THEN f ELSE frames[j]
      BY <2>4 DEF Replaced
    <3> HIDE DEF gs
    <3>2. Filled(gs)
      BY <1>b, <2>3, <3>1 DEF Filled
    <3> QED
      BY <3>2 DEF gs
  <2> QED
    BY <1>b, <2>1, <2>5 DEF ValuesNow
<1>7. CASE Run
  <2>1. lets' = <<>> /\ frames' = frames /\ globals' = [g \in Globals |-> 0]
    BY <1>7 DEF Run
  <2>2. globals' \in [Globals -> Val]
    BY <2>1, NamesAssumption
  <2> QED
    BY <1>b, <2>1, <2>2, EmptyIs DEF ValuesNow
<1>8. CASE \/ Return \/ BeginGraph \/ EndParse \/ Retrieve \/ EndLet \/ GraphDone \/ (\E twice \in BOOLEAN : EndGraph(twice))
           \/ UNCHANGED vars
  <2>1. UNCHANGED <<globals, frames>> /\ (lets' = lets \/ lets' = <<>>)
    BY <1>8 DEF Return, BeginGraph, EndParse, Retrieve, EndLet, GraphDone, EndGraph, vars
  <2> QED
    BY <1>0, <2>1
<1> QED
  BY <1>1, <1>2, <1>3, <1>4, <1>5, <1>6, <1>7, <1>8 DEF Next

-----------------------------------------------------------------------------
(***************************************************************************)
(* The refinement.  What Scopes sees of a state, and what pushing, popping  *)
(* or changing an entry does to it.                                         *)
(***************************************************************************)
EntryOf(e) == [kind |-> e.kind, sub |-> e.sub, let |-> e.let]
EntriesOf(c) == [k \in 1..Len(c) |-> EntryOf(c[k])]
EnvsOf(c, gr, l, fs, ls) == [k \in 1..Len(c) |-> EnvIs(c, gr, l, fs, ls, k)]
LetRead(let) == [name |-> let.name, own |-> NamesIn(let.sub), value |-> let.value]
LetsOf(ls) == [k \in 1..Len(ls) |-> LetRead(ls[k])]

\* The mapping, in these terms
LEMMA ViewIs ==
  ASSUME Sharing, Framed
  PROVE  Entries = EntriesOf(ctl) /\ Envs = EnvsOf(ctl, graph, level, frames, lets) /\ LetsRead = LetsOf(lets)
<1>1. DOMAIN ctl = 1..Len(ctl) /\ DOMAIN lets = 1..Len(lets)
  BY FramedIs, LenIs DEF Stack, Lets
<1>2. Entries = EntriesOf(ctl)
  BY <1>1 DEF Entries, EntriesOf, EntryOf
<1>3. Envs = EnvsOf(ctl, graph, level, frames, lets)
  BY <1>1, EnvsAre DEF Envs, EnvsOf
<1>4. LetsRead = LetsOf(lets)
  BY <1>1 DEF LetsRead, LetsOf, LetRead
<1> QED
  BY <1>2, <1>3, <1>4

\* in the state before and in the state after
LEMMA ViewNext ==
  ASSUME Sharing', Framed'
  PROVE  Entries' = EntriesOf(ctl') /\ Envs' = EnvsOf(ctl', graph', level', frames', lets') /\ LetsRead' = LetsOf(lets')
<1>1. (Entries = EntriesOf(ctl) /\ Envs = EnvsOf(ctl, graph, level, frames, lets) /\ LetsRead = LetsOf(lets))'
  BY ViewIs, PTL
<1> QED
  BY <1>1

\* Sequences with the same elements
LEMMA SameSeq == ASSUME NEW s, IsSeq(s), NEW t, IsSeq(t), Len(s) = Len(t), \A i \in 1..Len(s) : s[i] = t[i] PROVE s = t
<1>1. PICK S : s \in Seq(S)
  BY DEF IsSeq
<1>2. PICK T : t \in Seq(T)
  BY DEF IsSeq
<1>3. s \in Seq(S \cup T) /\ t \in Seq(S \cup T)
  BY <1>1, <1>2, SeqMonotonic
<1> QED
  BY <1>3

\* A function on 1..n, and one element more or less
LEMMA ListMore ==
  ASSUME NEW s, NEW n \in Nat, IsSeq(s), Len(s) = n, NEW t, IsSeq(t), Len(t) = n + 1, \A i \in 1..n : t[i] = s[i]
  PROVE  t = Append(s, t[n + 1]) /\ s = SubSeq(t, 1, Len(t) - 1)
<1>1. PICK T : t \in Seq(T)
  BY DEF IsSeq
<1>2. DOMAIN t = 1..(n + 1)
  BY LenIs
<1>3. t = Append(s, t[n + 1])
  <2> DEFINE e == t[n + 1]
             a == Append(s, e)
  <2>1. IsSeq(a) /\ Len(a) = n + 1 /\ a[n + 1] = e /\ \A i \in 1..n : a[i] = s[i]
    BY AppendIs
  <2> HIDE DEF a
  <2>2. \A i \in 1..(n + 1) : i \in 1..n \/ i = n + 1
    OBVIOUS
  <2>3. \A i \in 1..Len(t) : t[i] = a[i]
    BY <2>1, <2>2
  <2> HIDE DEF e
  <2>4. t = a
    BY <2>1, <2>3, SameSeq
  <2> QED
    BY <2>4 DEF a, e
<1>4. s = SubSeq(t, 1, Len(t) - 1)
  <2> DEFINE u == SubSeq(t, 1, n)
  <2>1. u \in Seq(T) /\ Len(u) = n /\ \A i \in 1..n : u[i] = t[i]
    BY <1>1
  <2> HIDE DEF u
  <2>2. IsSeq(u)
    BY <2>1 DEF IsSeq
  <2>3. s = u
    BY <2>1, <2>2, SameSeq
  <2> QED
    BY <2>3 DEF u
<1> QED
  BY <1>3, <1>4

\* The view has one entry per entry.
LEMMA ViewSeqs ==
  ASSUME NEW c, IsSeq(c), NEW gr, NEW l, NEW fs, NEW ls
  PROVE  /\ IsSeq(EntriesOf(c)) /\ Len(EntriesOf(c)) = Len(c) /\ Len(c) \in Nat
         /\ IsSeq(EnvsOf(c, gr, l, fs, ls)) /\ Len(EnvsOf(c, gr, l, fs, ls)) = Len(c)
<1>1. Len(c) \in Nat
  BY LenIs
<1>2. EntriesOf(c) = [k \in 1..Len(c) |-> EntriesOf(c)[k]]
  BY DEF EntriesOf
<1>3. EnvsOf(c, gr, l, fs, ls) = [k \in 1..Len(c) |-> EnvsOf(c, gr, l, fs, ls)[k]]
  BY DEF EnvsOf
<1> QED
  BY <1>1, <1>2, <1>3, ListIs

\* d has one entry more than c, and the others keep their variables.
OneMore(c, gr, l, fs, ls, d, hr, m, gs, ms) ==
  /\ IsSeq(c) /\ IsSeq(d) /\ Len(d) = Len(c) + 1
  /\ \A k \in 1..Len(c) : d[k] = c[k] /\ EnvIs(d, hr, m, gs, ms, k) = EnvIs(c, gr, l, fs, ls, k)

\* An entry is pushed.
LEMMA ViewMore ==
  ASSUME NEW c, NEW gr, NEW l, NEW fs, NEW ls, NEW d, NEW hr, NEW m, NEW gs, NEW ms,
         OneMore(c, gr, l, fs, ls, d, hr, m, gs, ms)
  PROVE  /\ EntriesOf(d) = Append(EntriesOf(c), EntryOf(d[Len(d)]))
         /\ EnvsOf(d, hr, m, gs, ms) = Append(EnvsOf(c, gr, l, fs, ls), EnvIs(d, hr, m, gs, ms, Len(d)))
<1> USE DEF OneMore
<1> DEFINE n == Len(c)
           small == EnvsOf(c, gr, l, fs, ls)
           big == EnvsOf(d, hr, m, gs, ms)
           e1 == EntriesOf(c)
           e2 == EntriesOf(d)
<1>1. n \in Nat /\ IsSeq(small) /\ Len(small) = n /\ IsSeq(e1) /\ Len(e1) = n
  BY ViewSeqs
<1>2. IsSeq(big) /\ Len(big) = n + 1 /\ IsSeq(e2) /\ Len(e2) = n + 1 /\ Len(d) = n + 1
  BY ViewSeqs
<1>3. (\A k \in 1..n : e2[k] = e1[k]) /\ e2[n + 1] = EntryOf(d[n + 1])
  BY <1>1, <1>2 DEF EntriesOf
<1>4. (\A k \in 1..n : big[k] = small[k]) /\ big[n + 1] = EnvIs(d, hr, m, gs, ms, n + 1)
  BY <1>1, <1>2 DEF EnvsOf
<1> HIDE DEF e1, e2, small, big, n
<1>5. e2 = Append(e1, e2[n + 1]) /\ e1 = SubSeq(e2, 1, Len(e2) - 1)
  <2>1. \A k \in 1..n : e2[k] = e1[k]
    BY <1>3
  <2>2. n \in Nat /\ IsSeq(e1) /\ Len(e1) = n /\ IsSeq(e2) /\ Len(e2) = n + 1
    BY <1>1, <1>2
  <2> QED
    BY <2>1, <2>2, ListMore
<1>6. big = Append(small, big[n + 1]) /\ small = SubSeq(big, 1, Len(big) - 1)
  BY <1>1, <1>2, <1>4, ListMore
<1> QED
  BY <1>2, <1>3, <1>4, <1>5, <1>6 DEF e1, e2, small, big

\* The same for the stack d that is left when the top of c goes
LEMMA ViewLess ==
  ASSUME NEW c, NEW gr, NEW l, NEW fs, NEW ls, NEW d, NEW hr, NEW m, NEW gs, NEW ms,
         OneMore(d, hr, m, gs, ms, c, gr, l, fs, ls)
  PROVE  /\ EntriesOf(d) = SubSeq(EntriesOf(c), 1, Len(EntriesOf(c)) - 1)
         /\ EnvsOf(d, hr, m, gs, ms) = SubSeq(EnvsOf(c, gr, l, fs, ls), 1, Len(EnvsOf(c, gr, l, fs, ls)) - 1)
<1> USE DEF OneMore
<1> DEFINE n == Len(d)
           small == EnvsOf(d, hr, m, gs, ms)
           big == EnvsOf(c, gr, l, fs, ls)
           e1 == EntriesOf(d)
           e2 == EntriesOf(c)
<1>1. n \in Nat /\ IsSeq(small) /\ Len(small) = n /\ IsSeq(e1) /\ Len(e1) = n
  BY ViewSeqs
<1>2. IsSeq(big) /\ Len(big) = n + 1 /\ IsSeq(e2) /\ Len(e2) = n + 1
  BY ViewSeqs
<1>3. \A k \in 1..n : e2[k] = e1[k]
  BY <1>1, <1>2 DEF EntriesOf
<1>4. \A k \in 1..n : big[k] = small[k]
  BY <1>1, <1>2 DEF EnvsOf
<1> HIDE DEF e1, e2, small, big, n
<1>5. e1 = SubSeq(e2, 1, Len(e2) - 1)
  BY <1>1, <1>2, <1>3, ListMore
<1>6. small = SubSeq(big, 1, Len(big) - 1)
  BY <1>1, <1>2, <1>4, ListMore
<1> QED
  BY <1>5, <1>6 DEF e1, e2, small, big

\* The indices an entry uses
Used(c, ls, k) ==
  IF c[k].kind = "call" THEN {VarGet(NewMap(Locals[c[k].sub]), n) : n \in Own(c[k].sub)}
  ELSE {IndexIn(ls[c[k].let].sub, n) : n \in NamesIn(ls[c[k].let].sub)}

\* An entry whose frame and cells stay keeps its variables.
LEMMA EnvKept ==
  ASSUME NEW c, NEW gr, NEW l, NEW fs, NEW ls, NEW d, NEW hr, NEW m, NEW gs, NEW ms, NEW k,
         d[k] = c[k], FrameAt(d, hr, m, k) = FrameAt(c, gr, l, k),
         c[k].kind # "call" => ms[c[k].let].sub = ls[c[k].let].sub,
         \A i \in Used(c, ls, k) : At(gs[FrameAt(c, gr, l, k)], i) = At(fs[FrameAt(c, gr, l, k)], i)
  PROVE  EnvIs(d, hr, m, gs, ms, k) = EnvIs(c, gr, l, fs, ls, k)
<1> DEFINE f == FrameAt(c, gr, l, k)
<1>1. FrameAt(d, hr, m, k) = f
  OBVIOUS
<1> HIDE DEF f
<1>2. CASE c[k].kind = "call"
  <2>1. \A n \in Own(c[k].sub) : At(gs[f], VarGet(NewMap(Locals[c[k].sub]), n)) = At(fs[f], VarGet(NewMap(Locals[c[k].sub]), n))
    BY <1>2 DEF Used, f
  <2> QED
    BY <1>1, <1>2, <2>1 DEF EnvIs, f
<1>3. CASE c[k].kind # "call"
  <2> DEFINE sub == ls[c[k].let].sub
  <2>1. \A n \in NamesIn(sub) : At(gs[f], IndexIn(sub, n)) = At(fs[f], IndexIn(sub, n))
    BY <1>3 DEF Used, f
  <2>2. ms[d[k].let].sub = sub /\ d[k].kind = c[k].kind
    BY <1>3
  <2> HIDE DEF sub
  <2> QED
    BY <1>1, <1>3, <2>1, <2>2 DEF EnvIs, f, sub
<1> QED
  BY <1>2, <1>3

\* The guards of Scopes are those of Vars.
LEMMA GuardsAre ==
  ASSUME Sharing, Framed
  PROVE  /\ Scoped!Kind = Kind /\ (Scoped!AtStatement <=> AtStatement) /\ (Scoped!Drawing <=> Drawing) /\ (Scoped!InLet <=> InLet)
         /\ Scoped!Closed = Closed /\ Len(Entries) = Len(ctl) /\ Len(Envs) = Len(ctl) /\ Len(LetsRead) = Len(lets) /\ DOMAIN LetsRead = DOMAIN lets
<1>1. Scoped!Kind = Kind /\ Len(Entries) = Len(ctl) /\ Len(Envs) = Len(ctl)
  BY EntriesAre
<1>2. Len(LetsRead) = Len(lets) /\ DOMAIN LetsRead = DOMAIN lets
  <2>1. DOMAIN lets = 1..Len(lets) /\ Len(lets) \in Nat
    BY FramedIs, LenIs DEF Lets
  <2>2. LetsRead = [k \in 1..Len(lets) |-> LetsRead[k]] /\ DOMAIN LetsRead = 1..Len(lets)
    BY <2>1 DEF LetsRead
  <2> QED
    BY <2>1, <2>2, ListIs
<1>3. Scoped!AtStatement <=> AtStatement
  BY <1>1 DEF Scoped!AtStatement, AtStatement
<1>4. Scoped!Drawing <=> Drawing
  BY <1>1 DEF Scoped!Drawing, Drawing
<1> QED
  BY <1>1, <1>2, <1>3, <1>4 DEF Scoped!InLet, InLet, Scoped!Closed, Closed

\* Calls come and go above the frames of all others.
LEMMA FrameSteady ==
  ASSUME NEW c, NEW gr, NEW l \in Int, NEW d, NEW m \in Int, Len(c) \in Nat, Len(d) \in Nat, gr.depth \in Nat,
         LetNow(d, gr) = LetNow(c, gr), m - Len(d) = l - Len(c), NEW k, d[k] = c[k]
  PROVE  FrameAt(d, gr, m, k) = FrameAt(c, gr, l, k)
<1>1. Borrows(d, gr) = Borrows(c, gr)
  BY DEF Borrows
<1>2. \A i : FrameOf(d, gr, m, i) = FrameOf(c, gr, l, i)
  BY <1>1 DEF FrameOf
<1>3. LetFrame(d, gr, m) = LetFrame(c, gr, l)
  BY <1>2 DEF LetFrame
<1> QED
  BY <1>2, <1>3 DEF FrameAt

\* sub_call_stack, after the last line: the variables of the call are gone.
LEMMA ReturnRefines == ASSUME Sharing, Framed, Sharing', Framed', Return PROVE Scoped!Return
<1>a. PICK d : d = ctl'
  OBVIOUS
<1>1. /\ Stack(ctl) /\ IsSeq(ctl) /\ Len(ctl) \in Nat /\ Len(lets) \in Nat /\ Graph(ctl, graph, Len(lets))
      /\ level \in Int /\ graph.depth \in 0..Len(ctl)
  BY FramedIs DEF Stack, Graph
<1>2. /\ ctl # <<>> /\ ctl' = Front(ctl) /\ UNCHANGED <<globals, frames, graph, lets>> /\ level' = level - 1 /\ ctl[Len(ctl)].kind = "call"
      /\ (graph.state = "none" \/ graph.depth < Len(ctl)) /\ AtStatement /\ Kind = "call"
  BY DEF Return, Kind, Pop, Top
<1>3. IsSeq(d) /\ Len(d) = Len(ctl) - 1 /\ \A i \in 1..(Len(ctl) - 1) : d[i] = ctl[i]
  BY <1>1, <1>2, <1>a, FrontIs
<1>4. Len(ctl) # 0 /\ graph.depth # Len(ctl)
  BY <1>1, <1>2, LenIs DEF Graph
<1>5. Len(ctl) = Len(d) + 1 /\ Len(d) \in Nat /\ \A k \in 1..Len(d) : ctl[k] = d[k]
  BY <1>1, <1>3, <1>4
<1>6. LetNow(d, graph) = LetNow(ctl, graph)
  BY <1>1, <1>2, <1>3, <1>4, GraphReturn
<1>7. \A k \in 1..Len(d) : EnvIs(ctl, graph, level, frames, lets, k) = EnvIs(d, graph, level - 1, frames, lets, k)
  <2> SUFFICES ASSUME NEW k \in 1..Len(d)
               PROVE  EnvIs(ctl, graph, level, frames, lets, k) = EnvIs(d, graph, level - 1, frames, lets, k)
    OBVIOUS
  <2>1. level \in Int /\ level - 1 \in Int
    BY <1>1
  <2>2. d[k] = ctl[k]
    BY <1>5
  <2>3. (level - 1) - Len(d) = level - Len(ctl)
    BY <1>1, <1>5
  <2>4. graph.depth \in Nat
    BY <1>1
  <2>5. Len(ctl) \in Nat /\ Len(d) \in Nat
    BY <1>1, <1>5
  <2>6. FrameAt(d, graph, level - 1, k) = FrameAt(ctl, graph, level, k)
    BY <1>6, <2>1, <2>2, <2>3, <2>4, <2>5, FrameSteady
  <2> QED
    BY <2>2, <2>6, EnvKept
<1>b. PICK m : m = level - 1
  OBVIOUS
<1>8. /\ EntriesOf(d) = SubSeq(EntriesOf(ctl), 1, Len(EntriesOf(ctl)) - 1)
      /\ EnvsOf(d, graph, m, frames, lets) =
           SubSeq(EnvsOf(ctl, graph, level, frames, lets), 1, Len(EnvsOf(ctl, graph, level, frames, lets)) - 1)
  <2>1. IsSeq(d) /\ IsSeq(ctl)
    BY <1>1, <1>3
  <2>2. Len(ctl) = Len(d) + 1
    BY <1>5
  <2>3. \A k \in 1..Len(d) : ctl[k] = d[k]
    BY <1>5
  <2>4. \A k \in 1..Len(d) : EnvIs(ctl, graph, level, frames, lets, k) = EnvIs(d, graph, m, frames, lets, k)
    BY <1>7, <1>b
  <2>5. OneMore(d, graph, m, frames, lets, ctl, graph, level, frames, lets)
    BY <2>1, <2>2, <2>3, <2>4 DEF OneMore
  <2> QED
    BY ONLY <2>5, ViewLess
<1>9. /\ Entries = EntriesOf(ctl) /\ Envs = EnvsOf(ctl, graph, level, frames, lets)
      /\ Entries' = EntriesOf(d) /\ Envs' = EnvsOf(d, graph, m, frames, lets) /\ LetsRead' = LetsRead
  <2>1. Entries' = EntriesOf(ctl') /\ Envs' = EnvsOf(ctl', graph', level', frames', lets') /\ LetsRead' = LetsOf(lets')
    BY ViewNext
  <2> QED
    BY <1>2, <1>a, <1>b, <2>1, ViewIs
<1> QED
  BY <1>2, <1>8, <1>9, GuardsAre DEF Scoped!Return

\* The end of a let: its variables are gone, the call below it has its own.
LEMMA RemoveRefines ==
  ASSUME Sharing, Framed, Sharing', Framed', Kind \in {"parse", "let"}, RemoveLocalSubMap, Pop, UNCHANGED <<graph, lets, frames>>
  PROVE  /\ Entries' = SubSeq(Entries, 1, Len(Entries) - 1) /\ Envs' = SubSeq(Envs, 1, Len(Envs) - 1)
         /\ LetsRead' = LetsRead
<1>1. Stack(ctl) /\ Len(ctl) \in Nat /\ Graph(ctl, graph, Len(lets)) /\ IsSeq(ctl) /\ level \in Int /\ Len(lets) \in Nat
  BY FramedIs DEF Stack
<1>2. localMap = Home(ctl, graph) /\ Len(ctl) = graph.depth + 1 /\ LetNow(ctl, graph) \in 1..Len(lets) /\ graph.depth \in Nat
  BY InLetIs
<1>3. ctl # <<>> /\ ctl' = Front(ctl) /\ ctl[Len(ctl)].kind # "call"
  BY DEF Kind, Pop, Top
<1>4. localMap = "temp" <=> graph.depth = 0
  BY <1>1, <1>2, <1>3, HomeIs
<1> DEFINE l == IF localMap = "temp" THEN level - 1 ELSE level
<1>5. level' = l /\ l \in Int
  BY <1>1 DEF RemoveLocalSubMap
<1>6. level = LetLevel(graph, l)
  BY <1>1, <1>4 DEF LetLevel
<1> HIDE DEF l
<1>a. PICK d : d = ctl'
  OBVIOUS
<1>7. IsSeq(d) /\ Len(d) = Len(ctl) - 1 /\ \A i \in 1..(Len(ctl) - 1) : d[i] = ctl[i]
  BY <1>1, <1>3, <1>a, FrontIs
<1>8. LetNow(d, graph) = 0
  <2>1. CurrentMap'
    BY DEF Sharing
  <2>2. LetNow(ctl, graph)' = 0
    BY <2>1, RemoveKeeps
  <2> QED
    BY <1>a, <2>2
<1>9. Len(d) = graph.depth /\ Len(ctl) = Len(d) + 1 /\ Len(d) \in Nat /\ \A k \in 1..Len(d) : ctl[k] = d[k]
  BY <1>2, <1>7
<1>10. OnGraph(d, ctl, graph, graph)
  <2>1. LetNow(ctl, graph) > 0
    BY <1>1, <1>2
  <2> QED
    BY <1>3, <1>7, <1>8, <1>9, <2>1 DEF OnGraph
<1>11. \A k \in 1..Len(d) : FrameOf(ctl, graph, level, k) = FrameOf(d, graph, l, k)
  BY <1>5, <1>6, <1>10, FrameOnGraph
<1>12. \A k \in 1..Len(d) : EnvIs(ctl, graph, level, frames, lets, k) = EnvIs(d, graph, l, frames, lets, k)
  <2> SUFFICES ASSUME NEW k \in 1..Len(d) PROVE EnvIs(ctl, graph, level, frames, lets, k) = EnvIs(d, graph, l, frames, lets, k)
    OBVIOUS
  <2>1. ctl[k] = d[k] /\ k # graph.depth + 1 /\ k \in 1..Len(ctl)
    BY <1>9
  <2>2. ctl[k].kind = "call"
    BY <1>1, <2>1 DEF Graph
  <2>3. FrameAt(ctl, graph, level, k) = FrameAt(d, graph, l, k)
    BY <1>11, <2>1, <2>2 DEF FrameAt
  <2> QED
    BY <2>1, <2>3, EnvKept
<1>13. /\ EntriesOf(d) = SubSeq(EntriesOf(ctl), 1, Len(EntriesOf(ctl)) - 1)
       /\ EnvsOf(d, graph, l, frames, lets) =
            SubSeq(EnvsOf(ctl, graph, level, frames, lets), 1, Len(EnvsOf(ctl, graph, level, frames, lets)) - 1)
  <2>1. IsSeq(d) /\ IsSeq(ctl)
    BY <1>1, <1>7
  <2>2. Len(ctl) = Len(d) + 1
    BY <1>9
  <2>3. \A k \in 1..Len(d) : ctl[k] = d[k]
    BY <1>9
  <2>4. OneMore(d, graph, l, frames, lets, ctl, graph, level, frames, lets)
    BY <2>1, <2>2, <2>3, <1>12 DEF OneMore
  <2> QED
    BY ONLY <2>4, ViewLess
<1>14. /\ Entries = EntriesOf(ctl) /\ Envs = EnvsOf(ctl, graph, level, frames, lets)
       /\ Entries' = EntriesOf(d) /\ Envs' = EnvsOf(d, graph, l, frames, lets) /\ LetsRead' = LetsRead
  <2>1. Entries' = EntriesOf(ctl') /\ Envs' = EnvsOf(ctl', graph', level', frames', lets') /\ LetsRead' = LetsOf(lets')
    BY ViewNext
  <2> QED
    BY <1>5, <1>a, <2>1, ViewIs
<1> QED
  BY <1>13, <1>14

\* removeLocalSubMap, after a let has been read
LEMMA EndParseRefines == ASSUME Sharing, Framed, Sharing', Framed', EndParse PROVE Scoped!EndParse
<1>1. Kind = "parse" /\ RemoveLocalSubMap /\ Pop /\ UNCHANGED <<globals, frames, graph, lets>>
  BY DEF EndParse
<1> QED
  BY <1>1, RemoveRefines, GuardsAre DEF Scoped!EndParse

\* and after it has been drawn
LEMMA EndLetRefines == ASSUME Sharing, Framed, Sharing', Framed', EndLet PROVE Scoped!EndLet
<1>1. Kind = "let" /\ RemoveLocalSubMap /\ Pop /\ UNCHANGED <<globals, frames, graph, lets>> /\ InLet
  BY DEF EndLet, InLet
<1> QED
  BY <1>1, RemoveRefines, GuardsAre DEF Scoped!EndLet

\* The stack stays, and every entry keeps its variables.
LEMMA ViewSame ==
  ASSUME NEW c, NEW gr, NEW l, NEW fs, NEW ls, NEW hr, NEW m, NEW gs, NEW ms,
         \A k \in 1..Len(c) : EnvIs(c, hr, m, gs, ms, k) = EnvIs(c, gr, l, fs, ls, k)
  PROVE  EnvsOf(c, hr, m, gs, ms) = EnvsOf(c, gr, l, fs, ls)
BY DEF EnvsOf

\* A call uses the indices of its locals.
LEMMA OwnUsed ==
  ASSUME NEW c, NEW ls, NEW k, c[k].kind = "call", c[k].sub \in Subs
  PROVE  \A i \in Used(c, ls, k) : i \in Nat /\ i < Len(Locals[c[k].sub])
<1> SUFFICES ASSUME NEW n \in Own(c[k].sub)
             PROVE  VarGet(NewMap(Locals[c[k].sub]), n) \in Nat /\ VarGet(NewMap(Locals[c[k].sub]), n) < Len(Locals[c[k].sub])
  BY DEF Used
<1>1. IsSeq(Locals[c[k].sub])
  BY NamesAssumption DEF IsSeq
<1>2. PICK j \in 1..Len(Locals[c[k].sub]) : VarGet(NewMap(Locals[c[k].sub]), n) = j - 1
  BY <1>1, OwnIndex DEF Own
<1>3. Len(Locals[c[k].sub]) \in Nat
  BY <1>1, LenIs
<1> QED
  BY <1>2, <1>3

\* What happens in the current frame is the business of the entry at the top,
\* if the locals of the call below a let are left alone.
LEMMA BelowKept ==
  ASSUME Sharing, Framed, NEW gs, NEW ms, NEW k \in 1..Len(ctl), k # Len(ctl),
         \A j \in 1..Len(frames) : j # level => gs[j] = frames[j],
         ctl[Len(ctl)].kind # "call" => \A i \in Nat : i < Len(OwnOf(localMap)) => At(gs[level], i) = At(frames[level], i),
         ctl[k].kind # "call" => ms = lets
  PROVE  EnvIs(ctl, graph, level, gs, ms, k) = EnvIs(ctl, graph, level, frames, lets, k)
<1> DEFINE f == FrameAt(ctl, graph, level, k)
<1>1. f \in 1..level /\ (f = level <=> k = Len(ctl) - 1 /\ ctl[Len(ctl)].kind # "call")
  BY FrameBelow
<1>2. level \in 0..Len(frames) /\ Len(frames) \in Nat /\ Len(ctl) \in Nat /\ Stack(ctl) /\ Graph(ctl, graph, Len(lets))
  BY FramedIs
<1> HIDE DEF f
<1>3. CASE f # level
  <2>1. gs[f] = frames[f]
    BY <1>1, <1>2, <1>3
  <2> QED
    BY <2>1, EnvKept DEF f
<1>4. CASE f = level
  <2>1. k = Len(ctl) - 1 /\ ctl[Len(ctl)].kind # "call" /\ ctl # <<>>
    BY <1>1, <1>2, <1>4, LenIs DEF Stack
  <2>2. Kind \in {"parse", "let"}
    <3>1. Len(ctl) \in 1..Len(ctl)
      BY <1>2, <2>1
    <3> QED
      BY <1>2, <2>1, <3>1 DEF Kind, Top, Stack
  <2>3. localMap = Home(ctl, graph) /\ Len(ctl) = graph.depth + 1 /\ graph.depth \in Nat
    BY <2>2, InLetIs
  <2>4. k = graph.depth /\ k > 0
    BY <1>2, <2>1, <2>3
  <2>5. ctl[k].kind = "call"
    BY <1>2, <2>4 DEF Graph
  <2>6. ctl[k].sub \in Subs /\ localMap = ctl[k].sub
    BY <1>2, <2>3, <2>4, <2>5 DEF Stack, Home
  <2>7. OwnOf(localMap) = Locals[ctl[k].sub]
    BY <2>6, NamesAssumption DEF OwnOf
  <2>8. \A i \in Used(ctl, lets, k) : At(gs[f], i) = At(frames[f], i)
    BY <1>4, <2>1, <2>5, <2>6, <2>7, OwnUsed
  <2> QED
    BY <2>5, <2>8, EnvKept DEF f
<1> QED
  BY <1>3, <1>4

\* An assignment changes one variable: that of the call at the top, or a global.
LEMMA AssignRefines ==
  ASSUME Wide, Sharing, Framed, SizedNow, Sharing', Framed', NEW n \in Names, NEW v \in Val, Assign(n, v)
  PROVE  Scoped!Assign(n, v)
<1> DEFINE top == Len(ctl)
           i == VarGet(NewMap(Around), n)
<1>1. /\ AtStatement /\ Known(n) /\ UNCHANGED <<maps, localMap, level, ctl, graph, lets>>
      /\ IF Static(n).local /\ Fits(Static(n).at)
         THEN frames' = Put(frames, level, Static(n).at, v) /\ UNCHANGED globals
         ELSE globals' = [globals EXCEPT ![IF Static(n).local THEN Global0 ELSE n] = v] /\ UNCHANGED frames
  BY DEF Assign
<1>2. ctl = <<>> \/ ctl[Len(ctl)].kind = "call"
  BY <1>1, AtTop
<1>3. /\ Static(n) = IF n \in ToSet(Around) THEN Local(i) ELSE Global(n)
      /\ Known(n) <=> n \in ToSet(Around) \/ n \in Globals
      /\ Scoped!Scope(n) = IF n \in ToSet(Around) THEN top ELSE 0
      /\ n \in ToSet(Around) =>
            /\ i \in Nat /\ i < Len(Around) /\ Fits(i) /\ i + 1 \in DOMAIN frames[level] /\ ctl # <<>>
            /\ top > 0
  BY <1>2, AroundIs
<1>4. Scoped!AtStatement
  BY <1>1, GuardsAre
<1>5. Entries' = Entries /\ LetsRead' = LetsRead /\ graph' = graph
  <2>1. Entries' = EntriesOf(ctl') /\ LetsRead' = LetsOf(lets')
    BY ViewNext
  <2>2. ctl' = ctl /\ graph' = graph /\ lets' = lets
    BY <1>1
  <2>3. Entries = EntriesOf(ctl) /\ LetsRead = LetsOf(lets)
    BY ViewIs
  <2> QED
    BY <2>1, <2>2, <2>3
<1>6. Envs' = EnvsOf(ctl, graph, level, frames', lets) /\ Envs = EnvsOf(ctl, graph, level, frames, lets)
  <2>1. Envs' = EnvsOf(ctl', graph', level', frames', lets')
    BY ViewNext
  <2>2. ctl' = ctl /\ graph' = graph /\ level' = level /\ lets' = lets
    BY <1>1
  <2>3. Envs = EnvsOf(ctl, graph, level, frames, lets)
    BY ViewIs
  <2> QED
    BY <2>1, <2>2, <2>3
<1>7. CASE n \in ToSet(Around)
  <2>1. frames' = Put(frames, level, i, v) /\ globals' = globals
    BY <1>1, <1>3, <1>7 DEF Local
  <2>2. PICK gs : gs = frames'
    OBVIOUS
  <2>3. top \in 1..top /\ ctl[top].kind = "call" /\ Around = Locals[ctl[top].sub] /\ SeqSeq(frames) /\ level \in 1..Len(frames)
        /\ ctl[top].sub \in Subs /\ LevelOf(top) = level
    BY <1>2, <1>3, <1>7, AtCall, FramedIs, TopCells
  <2>4. /\ \A j \in 1..Len(frames) : j # level => gs[j] = frames[j]
        /\ DOMAIN gs[level] = DOMAIN frames[level]
        /\ \A x \in DOMAIN frames[level] : gs[level][x] = IF x = i + 1 THEN v ELSE frames[level][x]
    BY <2>1, <2>2, <2>3, PutDoes
  <2>5. \A k \in 1..top : k # top => EnvIs(ctl, graph, level, gs, lets, k) = EnvIs(ctl, graph, level, frames, lets, k)
    BY <2>3, <2>4, BelowKept
  <2>6. FrameAt(ctl, graph, level, top) = level
    BY <2>3, LevelOfIs
  <2>7. EnvIs(ctl, graph, level, gs, lets, top) = [EnvIs(ctl, graph, level, frames, lets, top) EXCEPT ![n] = v]
    <3> DEFINE own == Locals[ctl[top].sub]
               new == EnvIs(ctl, graph, level, gs, lets, top)
               old == EnvIs(ctl, graph, level, frames, lets, top)
    <3>1. /\ new = [m \in ToSet(own) |-> At(gs[level], VarGet(NewMap(own), m))]
          /\ old = [m \in ToSet(own) |-> At(frames[level], VarGet(NewMap(own), m))]
      BY <2>3, <2>6 DEF EnvIs, Own
    <3>2. IsSeq(own) /\ own = Around
      BY <2>3, AtCall, <1>2
    <3>3. \A m \in ToSet(own) : At(gs[level], VarGet(NewMap(own), m)) = IF m = n THEN v ELSE At(frames[level], VarGet(NewMap(own), m))
      <4> SUFFICES ASSUME NEW m \in ToSet(own)
                   PROVE  At(gs[level], VarGet(NewMap(own), m)) = IF m = n THEN v ELSE At(frames[level], VarGet(NewMap(own), m))
        OBVIOUS
      <4> DEFINE a == VarGet(NewMap(own), m)
      <4>1. PICK j \in 1..Len(own) : own[j] = m /\ a = j - 1
        BY <3>2, OwnIndex
      <4>2. PICK h \in 1..Len(own) : own[h] = n /\ i = h - 1
        BY <1>7, <3>2, OwnIndex
      <4>3. a = i <=> m = n
        <5>1. m = n => a = i
          BY <3>2
        <5>2. Len(own) \in Nat
          BY <3>2, LenIs
        <5> HIDE DEF a, i, own
        <5>3. a = i => j = h
          BY <4>1, <4>2, <5>2
        <5> QED
          BY <4>1, <4>2, <5>1, <5>3
      <4>4. i \in Nat /\ a \in Int /\ i + 1 \in DOMAIN frames[level]
        <5>1. Len(own) \in Nat
          BY <3>2, LenIs
        <5> QED
          BY <1>3, <1>7, <4>1, <5>1
      <4> HIDE DEF a, i, own
      <4>5. At(gs[level], a) = IF m = n THEN v ELSE At(frames[level], a)
        BY <2>4, <4>3, <4>4 DEF At
      <4> QED
        BY <4>5 DEF a
    <3>4. n \in ToSet(own)
      BY <1>7, <3>2
    <3> HIDE DEF own, new, old
    <3>5. new = [old EXCEPT ![n] = v]
      BY <3>1, <3>3, <3>4
    <3> QED
      BY <3>5 DEF new, old
  <2>8. EnvsOf(ctl, graph, level, gs, lets) =
          [EnvsOf(ctl, graph, level, frames, lets) EXCEPT ![top] = EnvIs(ctl, graph, level, gs, lets, top)]
    <3>1. top \in 1..Len(ctl)
      BY <2>3
    <3>2. \A k \in 1..Len(ctl) : k # top => EnvIs(ctl, graph, level, gs, lets, k) = EnvIs(ctl, graph, level, frames, lets, k)
      BY <2>5
    <3> HIDE DEF top
    <3> QED
      BY <3>1, <3>2 DEF EnvsOf
  <2>9. EnvsOf(ctl, graph, level, frames, lets)[top] = EnvIs(ctl, graph, level, frames, lets, top)
    BY <2>3 DEF EnvsOf
  <2>10. Envs' = [Envs EXCEPT ![top][n] = v]
    BY <1>6, <2>2, <2>7, <2>8, <2>9
  <2>11. Scoped!Scope(n) = top /\ top > 0
    BY <1>3, <1>7
  <2> QED
    BY <1>4, <1>5, <2>1, <2>10, <2>11 DEF Scoped!Assign, Scoped!Visible
<1>8. CASE n \notin ToSet(Around)
  <2>1. Static(n) = Global(n) /\ n \in Globals /\ Scoped!Scope(n) = 0
    BY <1>1, <1>3, <1>8
  <2>2. globals' = [globals EXCEPT ![n] = v] /\ frames' = frames
    BY <1>1, <2>1 DEF Global
  <2>3. Envs' = Envs
    BY <1>6, <2>2
  <2> QED
    BY <1>4, <1>5, <2>1, <2>2, <2>3 DEF Scoped!Assign, Scoped!Visible
<1> QED
  BY <1>7, <1>8

\* The variables of the let at the top, by their places in its submap
LEMMA LetHas ==
  ASSUME Sharing, Framed, NamedNow, Kind \in {"parse", "let"}
  PROVE  LET top == Len(ctl)
             let == lets[Top.let]
             sub == let.sub
         IN /\ top \in 1..top /\ ctl[top].kind # "call" /\ Top = ctl[top] /\ FrameAt(ctl, graph, level, top) = level
            /\ level \in 1..Len(frames) /\ SeqSeq(frames)
            /\ IsSeq(sub) /\ DOMAIN sub = 1..Len(sub) /\ NamesOnce(sub) /\ OnceAt(sub) /\ Len(OwnOf(localMap)) \in Nat
            /\ \A k \in 1..Len(sub) : /\ sub[k].at \in Nat /\ sub[k].at >= Len(OwnOf(localMap)) /\ sub[k].at + 1 \in DOMAIN frames[level]
                                      /\ IndexIn(sub, sub[k].name) = sub[k].at
            /\ \A n \in NamesIn(sub) : \E k \in 1..Len(sub) : sub[k].name = n
            /\ \E k \in 1..Len(sub) : sub[k].name = X /\ sub[k].at = let.x
<1> DEFINE top == Len(ctl)
           let == lets[Top.let]
           sub == let.sub
<1>1. /\ top \in 1..top /\ ctl[top].kind # "call" /\ Top.let \in 1..Len(lets) /\ level \in 1..Len(frames)
      /\ IsSeq(sub) /\ NamesOnce(sub) /\ NamedLet(OwnOf(localMap), let)
  BY LetIs
<1>2. Top = ctl[top]
  BY DEF Top
<1>3. FrameAt(ctl, graph, level, top) = level
  BY <1>1, FrameBelow
<1>4. SeqSeq(frames) /\ LetFrames(LetFrame(ctl, graph, level), frames, lets)
  BY FramedIs
<1>5. LetFrame(ctl, graph, level) = level
  BY <1>1, <1>3 DEF FrameAt
<1>6. \A k \in 1..Len(sub) : sub[k].at < Len(frames[level])
  BY <1>1, <1>4, <1>5 DEF LetFrames
<1>7. Holds(maps[localMap], OwnOf(localMap), sub)
  BY InLetIs
<1>8. OnceAt(sub) /\ Len(OwnOf(localMap)) \in Nat /\ \A k \in 1..Len(sub) : sub[k].at \in Nat /\ sub[k].at >= Len(OwnOf(localMap))
  BY <1>7 DEF Holds, Parted
<1>9. IsSeq(frames[level]) /\ DOMAIN frames[level] = 1..Len(frames[level]) /\ Len(frames[level]) \in Nat
  BY <1>1, <1>4, LenIs DEF SeqSeq
<1>10. DOMAIN sub = 1..Len(sub)
  BY <1>1, LenIs
<1>11. \E k \in 1..Len(sub) : sub[k].name = X /\ sub[k].at = let.x
  BY <1>1 DEF NamedLet
<1> HIDE DEF top, let, sub
<1>12. \A k \in 1..Len(sub) : sub[k].at + 1 \in DOMAIN frames[level]
  BY <1>6, <1>8, <1>9
<1>13. \A n \in NamesIn(sub) : \E k \in 1..Len(sub) : sub[k].name = n
  BY <1>1, NamesAre
<1>14. \A k \in 1..Len(sub) : IndexIn(sub, sub[k].name) = sub[k].at
  <2>1. \A k \in 1..Len(sub) : sub[k].name \in NamesIn(sub)
    BY <1>1, NamesAre
  <2> QED
    BY <1>1, <2>1, IndexInIs
<1> QED
  BY <1>1, <1>2, <1>3, <1>4, <1>8, <1>10, <1>11, <1>12, <1>13, <1>14 DEF top, let, sub

\* The next point: X and the variables of data sets get their values.
LEMMA SelectRefines ==
  ASSUME Sharing, Framed, NamedNow, Sharing', Framed', NEW v \in Val, NEW w \in Val, Select(v, w)
  PROVE  Scoped!Select(v, w)
<1> DEFINE top == Len(ctl)
           let == lets[Top.let]
           sub == let.sub
           data == {sub[k].at : k \in {j \in DOMAIN sub : sub[j].name \in Data}}
<1>1. /\ InLet /\ UNCHANGED <<globals, maps, localMap, level, ctl, graph, lets>>
      /\ frames' = [frames EXCEPT ![level] = [i \in DOMAIN @ |-> IF i - 1 = let.x THEN v ELSE IF i - 1 \in data THEN w ELSE @[i]]]
  BY DEF Select
<1>2. Kind \in {"parse", "let"}
  BY <1>1 DEF InLet
<1>3. /\ top \in 1..top /\ ctl[top].kind # "call" /\ Top = ctl[top] /\ FrameAt(ctl, graph, level, top) = level
      /\ level \in 1..Len(frames) /\ SeqSeq(frames)
      /\ IsSeq(sub) /\ DOMAIN sub = 1..Len(sub) /\ NamesOnce(sub) /\ OnceAt(sub) /\ Len(OwnOf(localMap)) \in Nat
      /\ \A k \in 1..Len(sub) : /\ sub[k].at \in Nat /\ sub[k].at >= Len(OwnOf(localMap)) /\ sub[k].at + 1 \in DOMAIN frames[level]
                                /\ IndexIn(sub, sub[k].name) = sub[k].at
      /\ \A n \in NamesIn(sub) : \E k \in 1..Len(sub) : sub[k].name = n
      /\ \E k \in 1..Len(sub) : sub[k].name = X /\ sub[k].at = let.x
  BY <1>2, LetHas
<1>4. Entries' = Entries /\ LetsRead' = LetsRead /\ graph' = graph
  <2>1. Entries' = EntriesOf(ctl') /\ LetsRead' = LetsOf(lets')
    BY ViewNext
  <2> QED
    BY <1>1, <2>1, ViewIs
<1>5. Envs' = EnvsOf(ctl, graph, level, frames', lets) /\ Envs = EnvsOf(ctl, graph, level, frames, lets)
  <2>1. Envs' = EnvsOf(ctl', graph', level', frames', lets')
    BY ViewNext
  <2> QED
    BY <1>1, <2>1, ViewIs
<1>6. PICK gs : gs = frames'
  OBVIOUS
<1>7. /\ DOMAIN gs[level] = DOMAIN frames[level]
      /\ \A x \in DOMAIN frames[level] :
            gs[level][x] = IF x - 1 = let.x THEN v ELSE IF x - 1 \in data THEN w ELSE frames[level][x]
      /\ \A j \in 1..Len(frames) : j # level => gs[j] = frames[j]
  <2>1. DOMAIN frames = 1..Len(frames)
    BY <1>3, LenIs DEF SeqSeq
  <2> HIDE DEF data, let
  <2> QED
    BY <1>1, <1>3, <1>6, <2>1
<1>a. PICK s : s = sub
  OBVIOUS
<1>b. PICK x : x = let.x
  OBVIOUS
<1>c. /\ \A k \in 1..Len(s) : s[k].at \in Nat /\ s[k].at >= Len(OwnOf(localMap)) /\ s[k].at + 1 \in DOMAIN frames[level]
      /\ Len(OwnOf(localMap)) \in Nat
  BY <1>3, <1>a
<1>d. \E k \in 1..Len(s) : s[k].name = X /\ s[k].at = x
  BY <1>3, <1>a, <1>b
<1>e. \A a : a \in data <=> \E j \in 1..Len(s) : s[j].name \in Data /\ s[j].at = a
  BY <1>3, <1>a
<1>f. NamesOnce(s) /\ OnceAt(s)
  BY <1>3, <1>a
<1>8. \A i \in Nat : i < Len(OwnOf(localMap)) => At(gs[level], i) = At(frames[level], i)
  <2> SUFFICES ASSUME NEW i \in Nat, i < Len(OwnOf(localMap)) PROVE At(gs[level], i) = At(frames[level], i)
    OBVIOUS
  <2>1. (i + 1) - 1 = i
    OBVIOUS
  <2>2. i # let.x
    BY <1>b, <1>c, <1>d
  <2>3. i \notin data
    <3> SUFFICES ASSUME i \in data PROVE FALSE
      OBVIOUS
    <3>1. PICK j \in 1..Len(s) : s[j].at = i
      BY <1>e
    <3> QED
      BY <1>c, <3>1
  <2> HIDE DEF data, let
  <2> QED
    BY <1>7, <2>1, <2>2, <2>3 DEF At
<1>9. \A k \in 1..top : k # top => EnvIs(ctl, graph, level, gs, lets, k) = EnvIs(ctl, graph, level, frames, lets, k)
  BY <1>7, <1>8, BelowKept
<1> DEFINE old == EnvIs(ctl, graph, level, frames, lets, top)
           new == EnvIs(ctl, graph, level, gs, lets, top)
<1>10. /\ old = [n \in NamesIn(sub) |-> At(frames[level], IndexIn(sub, n))]
       /\ new = [n \in NamesIn(sub) |-> At(gs[level], IndexIn(sub, n))]
  BY <1>3 DEF EnvIs
<1>11. \A n \in NamesIn(sub) : At(gs[level], IndexIn(sub, n)) =
                                 IF n = X THEN v ELSE IF n \in Data THEN w ELSE At(frames[level], IndexIn(sub, n))
  <2> SUFFICES ASSUME NEW n \in NamesIn(sub)
               PROVE  At(gs[level], IndexIn(sub, n)) = IF n = X THEN v ELSE IF n \in Data THEN w ELSE At(frames[level], IndexIn(sub, n))
    OBVIOUS
  <2>1. PICK k \in 1..Len(s) : s[k].name = n
    BY <1>3, <1>a
  <2>2. PICK a : a = s[k].at
    OBVIOUS
  <2>a. IndexIn(sub, n) = a
    BY <1>3, <1>a, <2>1, <2>2
  <2>3. a \in Nat /\ a + 1 \in DOMAIN frames[level] /\ (a + 1) - 1 = a
    BY <1>c, <2>1, <2>2
  <2>4. a = let.x <=> n = X
    BY <1>b, <1>d, <1>f, <2>1, <2>2 DEF NamesOnce, OnceAt
  <2>5. a \in data <=> n \in Data
    BY <1>e, <1>f, <2>1, <2>2 DEF OnceAt
  <2> HIDE DEF data, let, sub
  <2> QED
    BY <1>7, <2>a, <2>3, <2>4, <2>5 DEF At
<1>12. new = [n \in DOMAIN old |-> IF n = X THEN v ELSE IF n \in Data THEN w ELSE old[n]]
  <2> HIDE DEF old, new
  <2>1. \A n \in NamesIn(sub) : new[n] = IF n = X THEN v ELSE IF n \in Data THEN w ELSE old[n]
    BY <1>10, <1>11
  <2> QED
    BY <1>10, <2>1
<1>13. Envs' = [Envs EXCEPT ![top] = [n \in DOMAIN @ |-> IF n = X THEN v ELSE IF n \in Data THEN w ELSE @[n]]]
  <2> DEFINE E == EnvsOf(ctl, graph, level, frames, lets)
             F == EnvsOf(ctl, graph, level, gs, lets)
  <2>1. E[top] = old /\ F[top] = new /\ top \in DOMAIN E
    BY <1>3 DEF EnvsOf
  <2>2. F = [E EXCEPT ![top] = new]
    BY <1>3, <1>9 DEF EnvsOf
  <2>3. Envs = E /\ Envs' = F
    BY <1>5, <1>6
  <2> HIDE DEF E, F, old, new, top
  <2> QED
    BY <1>12, <2>1, <2>2, <2>3
<1> QED
  BY <1>1, <1>4, <1>13, GuardsAre DEF Scoped!Select

\* findAdd, on the frame: the cell of d[i] is 0, the others are what they were.
LEMMA DetectedFrame ==
  ASSUME Sharing, Framed, NEW d \in Data, Detect(d)
  PROVE  LET at == IndexIn(Last(Detected(maps[localMap], d).subs), d)
         IN /\ \A j \in 1..Len(frames) : j # level => frames'[j] = frames[j]
            /\ \A i \in Nat : At(frames'[level], i) = IF i = at THEN 0 ELSE At(frames[level], i)
<1> DEFINE at == IndexIn(Last(Detected(maps[localMap], d).subs), d)
           g == Ensure(frames[level], at + 1)
<1>1. frames' = Put(Expand(frames, at), level, at, 0) /\ Kind = "let" /\ ctl # <<>>
  BY DEF Detect, Detected, InLet, Kind
<1>2. SeqSeq(frames) /\ level \in 1..Len(frames) /\ DOMAIN frames = 1..Len(frames) /\ IsSeq(frames[level])
  BY <1>1, AtLevel, FramedIs, LenIs DEF SeqSeq
<1>3. at \in Nat /\ at + 1 \in Nat
  BY DetectedCell
<1> HIDE DEF at
<1>4. IsSeq(g) /\ DOMAIN frames[level] \subseteq DOMAIN g /\ \A x \in DOMAIN g : g[x] = IF x \in DOMAIN frames[level] THEN frames[level][x] ELSE 0
  BY <1>2, <1>3, EnsureDoes
<1>5. PICK fs : fs = Expand(frames, at)
  OBVIOUS
<1>6. fs = [frames EXCEPT ![level] = g]
  BY <1>5 DEF Expand
<1> HIDE DEF g
<1>7. IsSeq(fs) /\ Len(fs) = Len(frames) /\ \A j \in 1..Len(frames) : fs[j] = IF j = level THEN g ELSE frames[j]
  BY <1>2, <1>6, PutAt DEF Replaced, SeqSeq
<1>8. SeqSeq(fs) /\ level \in 1..Len(fs) /\ fs[level] = g
  BY <1>2, <1>4, <1>7 DEF SeqSeq
<1>9. PICK gs : gs = Put(fs, level, at, 0)
  OBVIOUS
<1>10. /\ \A j \in 1..Len(fs) : j # level => gs[j] = fs[j]
       /\ DOMAIN gs[level] = DOMAIN g /\ \A x \in DOMAIN g : gs[level][x] = IF x = at + 1 THEN 0 ELSE g[x]
  BY <1>8, <1>9, PutDoes
<1>11. \A i \in Nat : At(gs[level], i) = IF i = at THEN 0 ELSE At(frames[level], i)
  BY <1>3, <1>4, <1>10 DEF At
<1>12. \A j \in 1..Len(frames) : j # level => gs[j] = frames[j]
  BY <1>7, <1>10
<1>13. frames' = gs
  BY <1>1, <1>5, <1>9
<1> QED
  BY <1>11, <1>12, <1>13 DEF at

\* The variables of the let: d is one of them, and 0.
LEMMA DetectedEnv ==
  ASSUME NEW sub, NEW after, NEW d, IsSeq(sub), IsSeq(after), NamesOnce(sub), NamesOnce(after), OnceAt(after),
         NamesIn(after) = NamesIn(sub) \cup {d}, Len(sub) <= Len(after),
         \A i \in 1..Len(sub) : after[i] = sub[i] /\ sub[i].at \in Nat,
         NEW f, NEW g, IndexIn(after, d) \in Nat,
         \A i \in Nat : At(g, i) = IF i = IndexIn(after, d) THEN 0 ELSE At(f, i)
  PROVE  \A n \in NamesIn(after) : At(g, IndexIn(after, n)) = IF n = d THEN 0 ELSE At(f, IndexIn(sub, n))
<1> SUFFICES ASSUME NEW n \in NamesIn(after), n # d
             PROVE  At(g, IndexIn(after, n)) = At(f, IndexIn(sub, n))
  OBVIOUS
<1>1. n \in NamesIn(sub) /\ d \in NamesIn(after)
  OBVIOUS
<1>2. PICK k \in 1..Len(sub) : sub[k].name = n
  BY <1>1, NamesAre
<1>3. PICK h \in 1..Len(after) : after[h].name = d /\ IndexIn(after, d) = after[h].at
  <2>1. IsSeq(after) /\ d \in NamesIn(after)
    BY <1>1
  <2> QED
    BY ONLY <2>1, IndexInIs
<1>4. k \in 1..Len(after) /\ after[k] = sub[k] /\ sub[k].at \in Nat
  <2>1. Len(sub) \in Nat /\ Len(after) \in Nat
    BY LenIs
  <2> QED
    BY <1>2, <2>1
<1>5. IndexIn(after, n) = sub[k].at /\ IndexIn(sub, n) = sub[k].at
  <2>1. IsSeq(after) /\ n \in NamesIn(after) /\ NamesOnce(after) /\ k \in 1..Len(after) /\ after[k].name = n
    BY <1>2, <1>4
  <2>2. IsSeq(sub) /\ n \in NamesIn(sub) /\ NamesOnce(sub) /\ k \in 1..Len(sub) /\ sub[k].name = n
    BY <1>1, <1>2
  <2>3. IndexIn(after, n) = after[k].at
    BY ONLY <2>1, IndexInIs
  <2>4. IndexIn(sub, n) = sub[k].at
    BY ONLY <2>2, IndexInIs
  <2> QED
    BY <1>4, <2>3, <2>4
<1>6. sub[k].at # IndexIn(after, d)
  BY <1>2, <1>3, <1>4 DEF OnceAt
<1> QED
  BY <1>4, <1>5, <1>6

\* d[i]: one variable more in the let, and in what is known of it.
LEMMA DetectRefines ==
  ASSUME Sharing, Framed, NamedNow, Sharing', Framed', NEW d \in Data, Detect(d)
  PROVE  Scoped!Detect(d)
<1> DEFINE top == Len(ctl)
           sub == lets[Top.let].sub
           after == Last(Detected(maps[localMap], d).subs)
<1>1. InLet /\ UNCHANGED <<globals, ctl, graph, level>> /\ Kind \in {"parse", "let"}
  BY DEF Detect, InLet
<1>2. /\ top \in 1..top /\ ctl[top].kind # "call" /\ Top = ctl[top] /\ FrameAt(ctl, graph, level, top) = level
      /\ IsSeq(sub) /\ NamesOnce(sub) /\ Len(OwnOf(localMap)) \in Nat
      /\ \A k \in 1..Len(sub) : sub[k].at \in Nat
  BY <1>1, LetHas
<1>3. Holds(maps[localMap], OwnOf(localMap), sub)
  BY <1>1, InLetIs
<1>4. /\ IndexIn(after, d) \in Nat /\ Len(OwnOf(localMap)) <= IndexIn(after, d)
      /\ Holds(Detected(maps[localMap], d), OwnOf(localMap), after) /\ IsSeq(after)
  BY DetectedCell
<1>5. /\ NamesIn(after) = NamesIn(sub) \cup {d} /\ NamesOnce(after)
      /\ Len(sub) <= Len(after) /\ \A i \in 1..Len(sub) : after[i] = sub[i]
  <2>1. NamesOnce(sub)
    BY <1>2
  <2>2. PICK map, own, s, t : map = maps[localMap] /\ own = OwnOf(localMap) /\ s = sub /\ t = after
    OBVIOUS
  <2>3. Holds(map, own, s) /\ NamesOnce(s)
    BY <1>3, <2>1, <2>2
  <2>5. t = Last(Detected(map, d).subs)
    BY <2>2
  <2>6. /\ NamesIn(t) = NamesIn(s) \cup {d} /\ NamesOnce(t)
        /\ Len(s) <= Len(t) /\ \A i \in 1..Len(s) : t[i] = s[i]
    BY ONLY <2>3, <2>5, DetectedSub
  <2> HIDE DEF sub, after
  <2> QED
    BY ONLY <2>2, <2>6
<1>6. PICK gs : gs = frames'
  OBVIOUS
<1>7. PICK ms : ms = lets'
  OBVIOUS
<1>8. /\ \A j \in 1..Len(frames) : j # level => gs[j] = frames[j]
      /\ \A i \in Nat : At(gs[level], i) = IF i = IndexIn(after, d) THEN 0 ELSE At(frames[level], i)
  BY <1>6, DetectedFrame
<1>9. /\ Top.let \in 1..Len(lets) /\ Len(ms) = Len(lets) /\ \A n \in 1..Len(lets) : n # Top.let => ms[n] = lets[n]
      /\ ms[Top.let].sub = after /\ ms[Top.let].name = lets[Top.let].name /\ ms[Top.let].value = lets[Top.let].value
  BY <1>7, DetectReads
<1>10. OnceAt(after)
  BY <1>4 DEF Holds, Parted
<1>11. \A n \in NamesIn(after) : At(gs[level], IndexIn(after, n)) = IF n = d THEN 0 ELSE At(frames[level], IndexIn(sub, n))
  <2>1. PICK s : s = sub
    OBVIOUS
  <2>2. PICK t : t = after
    OBVIOUS
  <2>3. IsSeq(s) /\ IsSeq(t) /\ NamesOnce(s) /\ NamesOnce(t) /\ OnceAt(t) /\ IndexIn(t, d) \in Nat
    BY <1>2, <1>4, <1>5, <1>10, <2>1, <2>2
  <2>5. NamesIn(t) = NamesIn(s) \cup {d} /\ Len(s) <= Len(t)
    BY <1>5, <2>1, <2>2
  <2>6. \A i \in 1..Len(s) : t[i] = s[i] /\ s[i].at \in Nat
    BY <1>2, <1>5, <2>1, <2>2
  <2>7. \A i \in Nat : At(gs[level], i) = IF i = IndexIn(t, d) THEN 0 ELSE At(frames[level], i)
    BY <1>8, <2>2
  <2>8. PICK f, g : f = frames[level] /\ g = gs[level]
    OBVIOUS
  <2>9. \A i \in Nat : At(g, i) = IF i = IndexIn(t, d) THEN 0 ELSE At(f, i)
    BY <2>7, <2>8
  <2>10. \A n \in NamesIn(t) : At(g, IndexIn(t, n)) = IF n = d THEN 0 ELSE At(f, IndexIn(s, n))
    BY ONLY <2>3, <2>5, <2>6, <2>9, DetectedEnv
  <2> QED
    BY <2>1, <2>2, <2>8, <2>10
<1>12. \A k \in 1..top : k # top => EnvIs(ctl, graph, level, gs, ms, k) = EnvIs(ctl, graph, level, frames, lets, k)
  <2> SUFFICES ASSUME NEW k \in 1..top, k # top PROVE EnvIs(ctl, graph, level, gs, ms, k) = EnvIs(ctl, graph, level, frames, lets, k)
    OBVIOUS
  <2>1. ctl[k].kind = "call"
    <3>1. Graph(ctl, graph, Len(lets)) /\ top = graph.depth + 1
      BY <1>1, InLetIs, FramedIs
    <3> QED
      BY <3>1 DEF Graph
  <2>2. \A i \in Nat : i < Len(OwnOf(localMap)) => At(gs[level], i) = At(frames[level], i)
    BY <1>2, <1>4, <1>8
  <2> QED
    BY <1>8, <2>1, <2>2, BelowKept
<1> DEFINE old == EnvIs(ctl, graph, level, frames, lets, top)
           new == EnvIs(ctl, graph, level, gs, ms, top)
<1>13. old = [n \in NamesIn(sub) |-> At(frames[level], IndexIn(sub, n))]
  BY <1>2 DEF EnvIs
<1>14. new = [n \in NamesIn(after) |-> At(gs[level], IndexIn(after, n))]
  <2>1. FrameAt(ctl, graph, level, top) = level /\ ctl[top].kind # "call" /\ ms[ctl[top].let].sub = after
    BY <1>2, <1>9
  <2> HIDE DEF after, top
  <2> QED
    BY <2>1 DEF EnvIs
<1>15. new = [n \in DOMAIN old \cup {d} |-> IF n = d THEN 0 ELSE old[n]]
  <2>1. NamesIn(after) = NamesIn(sub) \cup {d}
    BY <1>5
  <2> HIDE DEF old, new, sub, after
  <2> QED
    BY <1>11, <1>13, <1>14, <2>1
<1>16. Envs' = [Envs EXCEPT ![top] = [n \in DOMAIN @ \cup {d} |-> IF n = d THEN 0 ELSE @[n]]]
  <2> DEFINE E == EnvsOf(ctl, graph, level, frames, lets)
             F == EnvsOf(ctl, graph, level, gs, ms)
  <2>1. E[top] = old /\ F[top] = new /\ top \in DOMAIN E
    BY <1>2 DEF EnvsOf
  <2>2. F = [E EXCEPT ![top] = new]
    BY <1>2, <1>12 DEF EnvsOf
  <2>3. Envs = E
    BY ViewIs
  <2>4. Envs' = F
    <3>1. Envs' = EnvsOf(ctl', graph', level', frames', lets')
      BY ViewNext
    <3> QED
      BY <1>1, <1>6, <1>7, <3>1
  <2> HIDE DEF E, F, old, new, top
  <2> QED
    BY <1>15, <2>1, <2>2, <2>3, <2>4
<1>17. Entries' = Entries
  <2>1. Entries' = EntriesOf(ctl')
    BY ViewNext
  <2> QED
    BY <1>1, <2>1, ViewIs
<1>18. LetsRead' = [LetsRead EXCEPT ![Top.let].own = @ \cup {d}]
  <2>1. LetsRead' = LetsOf(ms) /\ LetsRead = LetsOf(lets)
    <3>1. LetsRead' = LetsOf(lets')
      BY ViewNext
    <3> QED
      BY <1>7, <3>1, ViewIs
  <2>2. PICK k : k = Top.let
    OBVIOUS
  <2>3. k \in 1..Len(lets) /\ \A n \in 1..Len(lets) : n # k => ms[n] = lets[n]
    BY <1>9, <2>2
  <2>4. LetRead(ms[k]) = [LetRead(lets[k]) EXCEPT !.own = @ \cup {d}]
    <3>1. ms[k].name = lets[k].name /\ ms[k].value = lets[k].value /\ NamesIn(ms[k].sub) = NamesIn(lets[k].sub) \cup {d}
      BY <1>5, <1>9, <2>2
    <3>2. \A a, o, v : [[name |-> a, own |-> o, value |-> v] EXCEPT !.own = @ \cup {d}] = [name |-> a, own |-> o \cup {d}, value |-> v]
      OBVIOUS
    <3> QED
      BY <3>1, <3>2 DEF LetRead
  <2>5. Len(ms) = Len(lets)
    BY <1>9
  <2>6. LetsOf(ms) = [LetsOf(lets) EXCEPT ![k] = LetRead(ms[k])]
    BY <2>3, <2>5 DEF LetsOf
  <2>7. LetsOf(lets)[k] = LetRead(lets[k])
    BY <2>3 DEF LetsOf
  <2> QED
    BY <2>1, <2>2, <2>4, <2>6, <2>7
<1>19. Scoped!Top.let = Top.let /\ Scoped!InLet /\ Len(Envs) = top
  <2>1. Entries[top] = [kind |-> ctl[top].kind, sub |-> ctl[top].sub, let |-> ctl[top].let] /\ Len(Entries) = top
    BY <1>2, EntriesAre
  <2> QED
    BY <1>1, <1>2, <2>1, GuardsAre DEF Scoped!Top
<1> QED
  BY <1>1, <1>16, <1>17, <1>18, <1>19 DEF Scoped!Detect

\* The switch to the points themselves is not seen.
LEMMA SameView ==
  ASSUME Sharing, Framed, Sharing', Framed', UNCHANGED <<globals, ctl, graph, level, frames, lets>>
  PROVE  UNCHANGED Scoped!vars
<1>1. Entries' = EntriesOf(ctl') /\ Envs' = EnvsOf(ctl', graph', level', frames', lets') /\ LetsRead' = LetsOf(lets')
  BY ViewNext
<1>2. Entries' = Entries /\ Envs' = Envs /\ LetsRead' = LetsRead
  BY <1>1, ViewIs
<1> QED
  BY <1>2 DEF Scoped!vars

\* Where no let is in progress
LEMMA NoLets ==
  ASSUME Sharing, Framed, graph.state = "none" \/ graph.depth = Len(ctl)
  PROVE  (\A k \in 1..Len(ctl) : ctl[k].kind = "call") /\ LetNow(ctl, graph) = 0
<1>1. Graph(ctl, graph, Len(lets)) /\ Len(ctl) \in Nat
  BY FramedIs
<1>2. \A k \in 1..Len(ctl) : ctl[k].kind = "call"
  BY <1>1 DEF Graph
<1>3. LetNow(ctl, graph) = 0
  BY <1>1 DEF LetNow
<1> QED
  BY <1>2, <1>3

\* the graph comes and goes unseen by the calls.
LEMMA GraphUnseen ==
  ASSUME Sharing, Framed, Sharing', Framed', graph.state = "none" \/ graph.depth = Len(ctl),
         LetNow(ctl, graph)' = 0, UNCHANGED <<ctl, level, frames>>
  PROVE  Entries' = Entries /\ Envs' = Envs
<1>1. PICK hr, ms : hr = graph' /\ ms = lets'
  OBVIOUS
<1>2. (\A k \in 1..Len(ctl) : ctl[k].kind = "call") /\ LetNow(ctl, graph) = 0 /\ LetNow(ctl, hr) = 0
  BY <1>1, NoLets
<1>3. \A k \in 1..Len(ctl) : EnvIs(ctl, hr, level, frames, ms, k) = EnvIs(ctl, graph, level, frames, lets, k)
  <2> SUFFICES ASSUME NEW k \in 1..Len(ctl)
               PROVE  EnvIs(ctl, hr, level, frames, ms, k) = EnvIs(ctl, graph, level, frames, lets, k)
    OBVIOUS
  <2>1. Borrows(ctl, hr) = 0 /\ Borrows(ctl, graph) = 0
    BY <1>2 DEF Borrows
  <2>2. FrameOf(ctl, hr, level, k) = FrameOf(ctl, graph, level, k)
    BY <2>1 DEF FrameOf
  <2>3. FrameAt(ctl, hr, level, k) = FrameAt(ctl, graph, level, k)
    BY <1>2, <2>2 DEF FrameAt
  <2> QED
    BY <1>2, <2>3, EnvKept
<1>4. Entries' = EntriesOf(ctl') /\ Envs' = EnvsOf(ctl', graph', level', frames', lets')
  BY ViewNext
<1>5. Envs' = EnvsOf(ctl, hr, level, frames, ms)
  BY <1>1, <1>4
<1> QED
  BY <1>3, <1>4, <1>5, ViewIs, ViewSame

\* begin graph
LEMMA BeginGraphRefines == ASSUME Sharing, Framed, Sharing', Framed', BeginGraph PROVE Scoped!BeginGraph
<1>1. /\ AtStatement /\ graph.state = "none" /\ UNCHANGED <<globals, frames, level, ctl, lets>>
      /\ graph' = [state |-> "open", depth |-> Len(ctl), todo |-> <<>>]
  BY DEF BeginGraph
<1>2. LetNow(ctl, graph)' = 0
  <2>1. CurrentMap'
    BY DEF Sharing
  <2> QED
    BY <2>1, GraphKeeps
<1>3. Entries' = Entries /\ Envs' = Envs
  BY <1>1, <1>2, GraphUnseen
<1>4. LetsRead' = LetsRead
  <2>1. LetsRead' = LetsOf(lets')
    BY ViewNext
  <2> QED
    BY <1>1, <2>1, ViewIs
<1> QED
  BY <1>1, <1>3, <1>4, GuardsAre DEF Scoped!BeginGraph

\* end graph, and the lets it has to do
LEMMA EndGraphRefines ==
  ASSUME Sharing, Framed, Sharing', Framed', NEW twice \in BOOLEAN, EndGraph(twice) PROVE Scoped!EndGraph(twice)
<1>1. /\ AtStatement /\ graph.state = "open" /\ graph.depth = Len(ctl) /\ UNCHANGED <<globals, frames, level, ctl, lets>>
      /\ LET all == [k \in DOMAIN lets |-> k]
         IN graph' = [graph EXCEPT !.state = "drawing", !.todo = IF twice THEN all \o all ELSE all]
  BY DEF EndGraph
<1>2. LetNow(ctl, graph)' = 0
  <2>1. CurrentMap'
    BY DEF Sharing
  <2> QED
    BY <2>1, GraphKeeps
<1>3. Entries' = Entries /\ Envs' = Envs
  BY <1>1, <1>2, GraphUnseen
<1>4. LetsRead' = LetsRead
  <2>1. LetsRead' = LetsOf(lets')
    BY ViewNext
  <2> QED
    BY <1>1, <2>1, ViewIs
<1>5. DOMAIN LetsRead = DOMAIN lets /\ Scoped!AtStatement /\ Len(Entries) = Len(ctl)
  BY <1>1, GuardsAre
<1> QED
  BY <1>1, <1>3, <1>4, <1>5 DEF Scoped!EndGraph

\* The graph is done, and its lets.
LEMMA GraphDoneRefines == ASSUME Sharing, Framed, Sharing', Framed', GraphDone PROVE Scoped!GraphDone
<1>1. /\ Drawing /\ graph.todo = <<>> /\ UNCHANGED <<globals, frames, level, ctl>> /\ graph' = Closed /\ lets' = <<>>
      /\ graph.depth = Len(ctl)
  BY DEF GraphDone, Drawing
<1>2. LetNow(ctl, graph)' = 0
  <2>1. CurrentMap'
    BY DEF Sharing
  <2> QED
    BY <2>1, GraphKeeps
<1>3. Entries' = Entries /\ Envs' = Envs
  BY <1>1, <1>2, GraphUnseen
<1>4. LetsRead' = <<>>
  <2>1. LetsRead' = LetsOf(lets')
    BY ViewNext
  <2>2. LetsOf(<<>>) = [k \in 1..0 |-> LetsOf(<<>>)[k]]
    BY EmptyIs DEF LetsOf
  <2> QED
    BY <1>1, <2>1, <2>2, ListIs, LenIs
<1> QED
  BY <1>1, <1>3, <1>4, GuardsAre DEF Scoped!GraphDone

\* Without an entry, nothing is there to be seen.
LEMMA EmptyView == EntriesOf(<<>>) = <<>> /\ LetsOf(<<>>) = <<>> /\ \A gr, l, fs, ls : EnvsOf(<<>>, gr, l, fs, ls) = <<>>
<1>1. EntriesOf(<<>>) = [k \in 1..0 |-> EntriesOf(<<>>)[k]]
  BY EmptyIs DEF EntriesOf
<1>2. LetsOf(<<>>) = [k \in 1..0 |-> LetsOf(<<>>)[k]]
  BY EmptyIs DEF LetsOf
<1>3. ASSUME NEW gr, NEW l, NEW fs, NEW ls PROVE EnvsOf(<<>>, gr, l, fs, ls) = <<>>
  <2>1. EnvsOf(<<>>, gr, l, fs, ls) = [k \in 1..0 |-> EnvsOf(<<>>, gr, l, fs, ls)[k]]
    BY EmptyIs DEF EnvsOf
  <2> QED
    BY <2>1, ListIs, LenIs
<1> QED
  BY <1>1, <1>2, <1>3, ListIs, LenIs

\* Another run starts with nothing but globals, whatever frames are left.
LEMMA RunRefines == ASSUME Sharing', Framed', Run PROVE Scoped!Run
<1>1. globals' = [g \in Globals |-> 0] /\ ctl' = <<>> /\ lets' = <<>> /\ graph' = Closed
  BY DEF Run
<1>2. Entries' = EntriesOf(ctl') /\ Envs' = EnvsOf(ctl', graph', level', frames', lets') /\ LetsRead' = LetsOf(lets')
  BY ViewNext
<1>3. PICK gr, l, fs, ls : gr = graph' /\ l = level' /\ fs = frames' /\ ls = lets'
  OBVIOUS
<1>4. Entries' = <<>> /\ Envs' = <<>> /\ LetsRead' = <<>>
  BY <1>1, <1>2, <1>3, EmptyView
<1> QED
  BY <1>1, <1>4 DEF Scoped!Run, Scoped!Closed, Closed

\* and so does the first one.
LEMMA InitRefines == ASSUME Sharing, Framed, Init PROVE Scoped!Init
<1>1. globals = [g \in Globals |-> 0] /\ ctl = <<>> /\ lets = <<>> /\ graph = Closed
  BY DEF Init
<1>2. Entries = <<>> /\ Envs = <<>> /\ LetsRead = <<>>
  BY <1>1, ViewIs, EmptyView
<1> QED
  BY <1>1, <1>2 DEF Scoped!Init, Scoped!Closed, Closed

\* sub_call_stack: the variables of the call are in a frame of its own, the
\* parameters have the value of the arguments.
LEMMA CallRefines ==
  ASSUME Sharing, Framed, Sharing', Framed', ValuesNow', NEW s \in Subs, NEW v \in Val, Call(s, v)
  PROVE  Scoped!Call(s, v)
<1> DEFINE top == Len(ctl)
           own == Locals[s]
           entry == [kind |-> "call", sub |-> s, let |-> 0, map |-> localMap]
           alloc == AllocLocal(maps[s].size)
<1>1. /\ Len(ctl) < MaxDepth /\ (AtStatement \/ Kind \in {"parse", "let"})
      /\ level' = level + 1 /\ ctl' = Append(ctl, entry) /\ UNCHANGED <<globals, graph, lets>>
      /\ frames' = [alloc EXCEPT ![level + 1] = [i \in DOMAIN @ |-> IF i <= NbParam[s] THEN v ELSE @[i]]]
  BY DEF Call
<1>2. PICK d : d = ctl'
  OBVIOUS
<1>3. PICK gs : gs = frames'
  OBVIOUS
<1>4. PICK m : m = level + 1
  OBVIOUS
<1>5. /\ Stack(ctl) /\ IsSeq(ctl) /\ top \in Nat /\ Len(lets) \in Nat /\ Graph(ctl, graph, Len(lets)) /\ SeqSeq(frames)
      /\ level \in 0..Len(frames) /\ Len(frames) \in Nat /\ level \in Int /\ graph.depth \in 0..top
  BY FramedIs DEF Stack, Graph
<1>6. IsSeq(d) /\ Len(d) = top + 1 /\ (\A i \in 1..top : d[i] = ctl[i]) /\ d[top + 1] = entry
  BY <1>1, <1>2, <1>5, AppendIs
<1>7. LetNow(d, graph) = LetNow(ctl, graph)
  <2>1. d[top + 1].kind = "call"
    BY <1>6
  <2> QED
    BY <1>5, <1>6, <2>1, GraphCall
<1>8. /\ SeqSeq(alloc) /\ m \in 1..Len(alloc)
      /\ \A j \in 1..Len(frames) : j # m => alloc[j] = frames[j]
  <2>1. maps[s].size \in Nat
    BY RoomFor
  <2> QED
    BY <1>4, <1>5, <2>1, AllocDoes
<1> HIDE DEF alloc
<1>9. /\ \A j \in 1..Len(frames) : j # m => gs[j] = frames[j]
      /\ \A x \in DOMAIN gs[m] : x <= NbParam[s] => gs[m][x] = v
  <2>1. DOMAIN alloc = 1..Len(alloc) /\ Len(frames) \in Nat
    BY <1>5, <1>8, LenIs DEF SeqSeq
  <2>2. gs = [alloc EXCEPT ![m] = [i \in DOMAIN alloc[m] |-> IF i <= NbParam[s] THEN v ELSE alloc[m][i]]]
    BY <1>1, <1>3, <1>4
  <2>3. gs[m] = [i \in DOMAIN alloc[m] |-> IF i <= NbParam[s] THEN v ELSE alloc[m][i]]
    BY <1>8, <2>1, <2>2
  <2>4. \A j : j # m => gs[j] = alloc[j]
    BY <2>2
  <2> QED
    BY <1>8, <2>3, <2>4
<1>10. /\ SeqSeq(gs) /\ m \in 1..Len(gs) /\ Len(own) <= Len(gs[m]) /\ FrameAt(d, graph, m, top + 1) = m
  <2>1. CallFrames(d, graph, m, gs)
    BY <1>1, <1>2, <1>3, <1>4 DEF Framed
  <2>2. top + 1 \in 1..Len(d) /\ d[top + 1].kind = "call" /\ d[top + 1].sub = s
    BY <1>5, <1>6
  <2>3. FrameOf(d, graph, m, top + 1) = m
    BY <1>4, <1>5, <1>6 DEF FrameOf
  <2>4. m \in 1..m /\ m \in 0..Len(gs)
    BY <2>1, <2>2, <2>3 DEF CallFrames
  <2>5. m \in 1..Len(gs)
    BY <2>4
  <2> QED
    BY <2>1, <2>2, <2>3, <2>5 DEF CallFrames, FrameAt
<1>11. Vals(gs[m])
  <2>1. Filled(gs)
    BY <1>3 DEF ValuesNow
  <2> QED
    BY <1>10, <2>1 DEF Filled
<1>12. \A k \in 1..top : EnvIs(d, graph, m, gs, lets, k) = EnvIs(ctl, graph, level, frames, lets, k)
  <2> SUFFICES ASSUME NEW k \in 1..top PROVE EnvIs(d, graph, m, gs, lets, k) = EnvIs(ctl, graph, level, frames, lets, k)
    OBVIOUS
  <2>1. level \in Int /\ m \in Int
    BY <1>4, <1>5
  <2>2. d[k] = ctl[k]
    BY <1>6
  <2>3. m - Len(d) = level - Len(ctl)
    BY <1>4, <1>5, <1>6
  <2>4. graph.depth \in Nat
    BY <1>5
  <2>5. Len(ctl) \in Nat /\ Len(d) \in Nat
    BY <1>5, <1>6
  <2>6. FrameAt(d, graph, m, k) = FrameAt(ctl, graph, level, k)
    BY <1>7, <2>1, <2>2, <2>3, <2>4, <2>5, FrameSteady
  <2>7. FrameAt(ctl, graph, level, k) \in 1..level
    BY FrameBelow
  <2>8. gs[FrameAt(ctl, graph, level, k)] = frames[FrameAt(ctl, graph, level, k)]
    BY <1>4, <1>5, <1>9, <2>7
  <2> QED
    BY <2>2, <2>6, <2>8, EnvKept
<1> DEFINE e == EnvIs(d, graph, m, gs, lets, top + 1)
<1>13. e = [n \in Own(s) |-> At(gs[m], VarGet(NewMap(own), n))]
  BY <1>6, <1>10 DEF EnvIs
<1>14. IsSeq(own) /\ Len(own) \in Nat /\ DOMAIN own = 1..Len(own) /\ NbParam[s] \in Nat /\ NbParam[s] <= Len(own)
  <2>1. own \in Seq(Names) /\ NbParam[s] \in Nat /\ NbParam[s] <= Len(own)
    BY NamesAssumption, LocalsAssumption
  <2> QED
    BY <2>1, LenIs DEF IsSeq
<1>15. e \in [Own(s) -> Val] /\ \A n \in Scoped!Parameters(s) : e[n] = v
  <2>1. e \in [Own(s) -> Val]
    <3> HIDE DEF e, own
    <3> QED
      BY <1>11, <1>13, AtVal
  <2>2. ASSUME NEW n \in Scoped!Parameters(s) PROVE e[n] = v
    <3>1. PICK k \in 1..NbParam[s] : n = own[k]
      BY DEF Scoped!Parameters
    <3>2. k \in 1..Len(own)
      BY <1>14, <3>1
    <3>3. n \in ToSet(own)
      BY <1>14, <3>1, <3>2, ToSetIs
    <3>4. PICK j \in 1..Len(own) : own[j] = n /\ VarGet(NewMap(own), n) = j - 1
      BY <1>14, <3>3, OwnIndex
    <3>5. j = k
      BY <1>14, <3>1, <3>2, <3>4, LocalsAssumption
    <3>6. (j - 1) + 1 = j /\ j <= NbParam[s] /\ j <= Len(gs[m]) /\ j \in Nat /\ j >= 1
      BY <1>10, <1>14, <3>1, <3>4, <3>5
    <3>7. DOMAIN gs[m] = 1..Len(gs[m]) /\ Len(gs[m]) \in Nat
      BY <1>10, LenIs DEF SeqSeq
    <3>8. At(gs[m], j - 1) = v
      <4>1. j \in DOMAIN gs[m]
        BY <3>6, <3>7
      <4> QED
        BY <1>9, <3>6, <4>1 DEF At
    <3>9. e[n] = At(gs[m], VarGet(NewMap(own), n))
      BY <1>13, <3>3 DEF Own
    <3> QED
      BY <3>4, <3>8, <3>9
  <2> QED
    BY <2>1, <2>2
<1>16. EntriesOf(d) = Append(EntriesOf(ctl), EntryOf(d[Len(d)])) /\ EnvsOf(d, graph, m, gs, lets) = Append(EnvsOf(ctl, graph, level, frames, lets), EnvIs(d, graph, m, gs, lets, Len(d)))
  <2>1. IsSeq(ctl) /\ IsSeq(d)
    BY <1>5, <1>6
  <2>2. Len(d) = Len(ctl) + 1
    BY <1>6
  <2>3. \A k \in 1..Len(ctl) : d[k] = ctl[k]
    BY <1>6
  <2> QED
    <3>1. OneMore(ctl, graph, level, frames, lets, d, graph, m, gs, lets)
      BY <2>1, <2>2, <2>3, <1>12 DEF OneMore
    <3> QED
      BY ONLY <3>1, ViewMore
<1>17. /\ Entries = EntriesOf(ctl) /\ Envs = EnvsOf(ctl, graph, level, frames, lets)
       /\ Entries' = EntriesOf(d) /\ Envs' = EnvsOf(d, graph, m, gs, lets) /\ LetsRead' = LetsRead
  <2>1. Entries' = EntriesOf(ctl') /\ Envs' = EnvsOf(ctl', graph', level', frames', lets') /\ LetsRead' = LetsOf(lets')
    BY ViewNext
  <2> QED
    BY <1>1, <1>2, <1>3, <1>4, <2>1, ViewIs
<1>18. Envs' = Append(Envs, e)
  <2>1. Len(d) = top + 1
    BY <1>6
  <2> QED
    BY <1>16, <1>17, <2>1
<1>19. Entries' = Append(Entries, [kind |-> "call", sub |-> s, let |-> 0])
  BY <1>6, <1>16, <1>17 DEF EntryOf
<1>20. Len(Entries) < MaxDepth /\ (Scoped!AtStatement \/ Scoped!Kind \in {"parse", "let"}) /\ Scoped!Own(s) = Own(s)
  <2>1. Scoped!Own(s) = Own(s)
    BY <1>14, ToSetIs DEF Scoped!Own, Own, ToSet
  <2> QED
    BY <1>1, <2>1, GuardsAre
<1> HIDE DEF e
<1> QED
  BY <1>1, <1>15, <1>17, <1>18, <1>19, <1>20 DEF Scoped!Call

\* A let is added to those that are known.
LEMMA LetsMore ==
  ASSUME NEW ls, IsSeq(ls), NEW let
  PROVE  LetsOf(Append(ls, let)) = Append(LetsOf(ls), LetRead(let))
<1> DEFINE n == Len(ls)
           more == Append(ls, let)
           s == LetsOf(ls)
           t == LetsOf(more)
<1>1. n \in Nat /\ Len(more) = n + 1 /\ (\A i \in 1..n : more[i] = ls[i]) /\ more[n + 1] = let
  BY AppendIs
<1>2. s = [k \in 1..n |-> s[k]]
  BY DEF LetsOf
<1>3. t = [k \in 1..(n + 1) |-> t[k]]
  BY <1>1 DEF LetsOf
<1>4. (\A k \in 1..n : t[k] = s[k]) /\ t[n + 1] = LetRead(let)
  BY <1>1 DEF LetsOf
<1> HIDE DEF s, t, n
<1>5. IsSeq(s) /\ Len(s) = n /\ IsSeq(t) /\ Len(t) = n + 1
  BY <1>1, <1>2, <1>3, ListIs
<1>6. t = Append(s, t[n + 1])
  BY <1>1, <1>4, <1>5, ListMore
<1> QED
  BY <1>4, <1>6 DEF s, t

\* A let is put on the graph: ParseLet and DoLet
LetComes(entry, d, hr) ==
  /\ graph.state # "none" /\ graph.depth = Len(ctl) /\ hr.depth = graph.depth
  /\ entry.kind # "call" /\ d = Append(ctl, entry) /\ LetNow(d, hr) > 0

\* The frames of the calls below it, and its own
LEMMA LetArrives ==
  ASSUME Sharing, Framed, NEW entry, NEW d, NEW hr, LetComes(entry, d, hr)
  PROVE  /\ IsSeq(d) /\ Len(d) = Len(ctl) + 1 /\ (\A k \in 1..Len(ctl) : d[k] = ctl[k] /\ ctl[k].kind = "call") /\ d[Len(d)] = entry
         /\ Len(ctl) \in Nat /\ IsSeq(ctl)
         /\ FrameAt(d, hr, LevelForLet, Len(d)) = LevelForLet
         /\ \A k \in 1..Len(ctl) : /\ FrameAt(d, hr, LevelForLet, k) = FrameAt(ctl, graph, level, k)
                                   /\ FrameAt(ctl, graph, level, k) \in 1..level /\ graph.depth > 0
                                   /\ FrameAt(ctl, graph, level, k) = level <=> k = Len(ctl)
<1> USE DEF LetComes
<1> DEFINE top == Len(ctl)
<1>1. Stack(ctl) /\ IsSeq(ctl) /\ top \in Nat /\ level \in Int
  BY FramedIs DEF Stack
<1>2. IsSeq(d) /\ Len(d) = top + 1 /\ (\A k \in 1..top : d[k] = ctl[k]) /\ d[top + 1] = entry
  BY <1>1, AppendIs
<1>3. \A k \in 1..top : ctl[k].kind = "call"
  BY NoLets
<1>4. OnGraph(ctl, d, graph, hr) /\ LevelForLet = LetLevel(graph, level)
  BY OnTop
<1>5. /\ \A k \in 1..top : FrameOf(d, hr, LevelForLet, k) = FrameOf(ctl, graph, level, k)
      /\ LetFrame(d, hr, LevelForLet) = LevelForLet
  BY <1>1, <1>4, FrameOnGraph
<1>6. FrameAt(d, hr, LevelForLet, top + 1) = LevelForLet
  BY <1>2, <1>5 DEF FrameAt
<1>7. \A k \in 1..top : FrameAt(d, hr, LevelForLet, k) = FrameAt(ctl, graph, level, k)
  BY <1>2, <1>3, <1>5 DEF FrameAt
<1>8. ASSUME NEW k \in 1..top
      PROVE  FrameAt(ctl, graph, level, k) \in 1..level /\ graph.depth > 0 /\ (FrameAt(ctl, graph, level, k) = level <=> k = top)
  <2>1. top \in 1..top /\ ctl[top].kind = "call" /\ top > 0
    BY <1>1, <1>3
  <2> QED
    BY <2>1, FrameBelow
<1> QED
  BY <1>1, <1>2, <1>3, <1>6, <1>7, <1>8

\* The locals that the call around has in the frame f
LocalsIn(f) == [n \in ToSet(Around) |-> At(f, VarGet(NewMap(Around), n))]

\* A let borrows the frame of the call below: the others keep their variables,
\* and so does that call when the let leaves its locals alone.
LEMMA CallsKept ==
  ASSUME Sharing, Framed, NEW entry, NEW d, NEW hr, LetComes(entry, d, hr), NEW gs, NEW ms,
         graph.depth > 0 => \A j \in 1..Len(frames) : j # level => gs[j] = frames[j]
  PROVE  \A k \in 1..Len(ctl) : k # Len(ctl) \/ LocalsIn(gs[level]) = LocalsIn(frames[level])
                                  => EnvIs(d, hr, LevelForLet, gs, ms, k) = EnvIs(ctl, graph, level, frames, lets, k)
<1> SUFFICES ASSUME NEW k \in 1..Len(ctl), k # Len(ctl) \/ LocalsIn(gs[level]) = LocalsIn(frames[level])
             PROVE  EnvIs(d, hr, LevelForLet, gs, ms, k) = EnvIs(ctl, graph, level, frames, lets, k)
  OBVIOUS
<1>1. PICK m : m = LevelForLet
  OBVIOUS
<1> DEFINE f == FrameAt(ctl, graph, level, k)
<1>a. \A j \in 1..Len(ctl) : /\ d[j] = ctl[j] /\ ctl[j].kind = "call" /\ graph.depth > 0
                             /\ FrameAt(d, hr, LevelForLet, j) = FrameAt(ctl, graph, level, j)
                             /\ FrameAt(ctl, graph, level, j) \in 1..level
                             /\ FrameAt(ctl, graph, level, j) = level <=> j = Len(ctl)
  BY LetArrives
<1>2. d[k] = ctl[k] /\ ctl[k].kind = "call" /\ f \in 1..level /\ graph.depth > 0 /\ (f = level <=> k = Len(ctl))
  BY <1>a
<1>b. FrameAt(d, hr, m, k) = FrameAt(ctl, graph, level, k)
  BY <1>1, <1>a
<1>c. d[k] = ctl[k]
  BY <1>2
<1>d. ctl[k].kind # "call" => ms[ctl[k].let].sub = lets[ctl[k].let].sub
  BY <1>2
<1>3. level \in 0..Len(frames) /\ Len(frames) \in Nat
  BY FramedIs
<1>4. \A i \in Used(ctl, lets, k) : At(gs[f], i) = At(frames[f], i)
  <2>1. CASE f # level
    <3>1. gs[f] = frames[f]
      BY <1>2, <1>3, <2>1
    <3> QED
      BY <3>1
  <2>2. CASE f = level
    <3>1. k = Len(ctl) /\ ctl # <<>> /\ LocalsIn(gs[level]) = LocalsIn(frames[level])
      BY <1>2, <2>2, EmptyIs
    <3>2. Around = Locals[ctl[k].sub]
      BY <3>1 DEF Around, Top
    <3>3. \A n \in ToSet(Around) : At(gs[level], VarGet(NewMap(Around), n)) = At(frames[level], VarGet(NewMap(Around), n))
      <4>1. \A n \in ToSet(Around) : LocalsIn(gs[level])[n] = At(gs[level], VarGet(NewMap(Around), n))
        BY DEF LocalsIn
      <4>2. \A n \in ToSet(Around) : LocalsIn(frames[level])[n] = At(frames[level], VarGet(NewMap(Around), n))
        BY DEF LocalsIn
      <4> QED
        BY <3>1, <4>1, <4>2
    <3> QED
      BY <1>2, <2>2, <3>2, <3>3 DEF Used, Own
  <2> QED
    BY <2>1, <2>2
<1>5. \A i \in Used(ctl, lets, k) : At(gs[FrameAt(ctl, graph, level, k)], i) = At(frames[FrameAt(ctl, graph, level, k)], i)
  BY <1>4
<1>6. EnvIs(d, hr, m, gs, ms, k) = EnvIs(ctl, graph, level, frames, lets, k)
  BY ONLY <1>b, <1>c, <1>d, <1>5, EnvKept
<1> QED
  BY <1>1, <1>6

\* parseLet: the let has X and the name nobody knows, both 0, and remembers
\* what a known name stands for.
LEMMA ParseLetRefines ==
  ASSUME Wide, Apart, Sharing, Framed, SizedNow, Sharing', Framed', NEW n \in Names, ParseLet(n)
  PROVE  Scoped!ParseLet(n)
<1> DEFINE top == Len(ctl)
           entry == [kind |-> "parse", sub |-> "none", let |-> Len(lets) + 1, map |-> localMap]
           map == maps[MapForLet]
           isNew == IsNew(map, n)
           new == NewIndices(map, isNew)
           cells == LetCells(FramesForLet, LevelForLet, new)
           let == ReadLet(map, n, cells)
           sub == Last(ParsedFor(map, n).subs)
<1>1. /\ AtStatement /\ graph.state = "open" /\ graph.depth = top /\ top < MaxDepth /\ Len(lets) < MaxLets
      /\ level' = LevelForLet /\ ctl' = Append(ctl, entry) /\ UNCHANGED <<globals, graph>>
  BY DEF ParseLet
<1>2. PICK d : d = ctl'
  OBVIOUS
<1>3. PICK gs : gs = frames'
  OBVIOUS
<1>4. PICK ms : ms = lets'
  OBVIOUS
<1>5. PICK m : m = LevelForLet
  OBVIOUS
<1>6. /\ MapForLet = Home(ctl, graph) /\ Bare(map, OwnOf(Home(ctl, graph))) /\ OwnOf(Home(ctl, graph)) = Around
      /\ IsSeq(Around) /\ Home(ctl, graph) \in Subs \cup {"temp"}
  <2>1. /\ MapForLet = Home(ctl, graph) /\ Home(ctl, graph) \in Subs \cup {"temp"}
        /\ Bare(maps[Home(ctl, graph)], OwnOf(Home(ctl, graph)))
    BY <1>1, AtHome
  <2>2. OwnOf(Home(ctl, graph)) = Around
    BY <1>1, GraphAround
  <2> QED
    BY <2>1, <2>2, OwnOfIs
<1>7. /\ IsSeq(cells) /\ Len(FramesForLet[m]) \in Nat /\ Len(cells) \in Nat /\ Len(FramesForLet[m]) <= Len(cells)
      /\ \A i \in new : i \in Nat /\ i >= Len(Around) /\ i + 1 \in DOMAIN cells
      /\ \A x \in DOMAIN cells : cells[x] = IF x - 1 \in new THEN 0 ELSE IF x \in DOMAIN FramesForLet[m] THEN FramesForLet[m][x] ELSE 0
      /\ \A i \in 1..Len(sub) : sub[i].at \in new
      /\ \A j \in 1..Len(FramesForLet) : gs[j] = IF j = m THEN cells ELSE FramesForLet[j]
  BY <1>3, <1>5, <1>6, ParsedCells
<1>8. /\ SeqSeq(FramesForLet) /\ m \in 1..Len(FramesForLet) /\ Len(frames) <= Len(FramesForLet)
      /\ graph.depth > 0 => FramesForLet = frames /\ m = level
  BY <1>1, <1>5, ForLetDoes
<1>9. /\ n \in NamesIn(let.sub) => let.value = 0
      /\ n \notin NamesIn(let.sub) => (n \in ToSet(Around) \/ n \in Globals)
      /\ n \notin NamesIn(let.sub) /\ n \in ToSet(Around) => let.value = At(frames[level], VarGet(NewMap(Around), n))
      /\ n \notin NamesIn(let.sub) /\ n \notin ToSet(Around) => let.value = globals[n]
      /\ lets' = Append(lets, let)
  BY ParsedValue
<1>10. LetRead(let) = [name |-> n, own |-> NamesIn(sub), value |-> let.value] /\ let.sub = sub
  BY DEF LetRead, ReadLet
<1> HIDE DEF let, cells, new
<1>11. /\ isNew <=> n # X /\ n \notin ToSet(Around) \cup Globals
       /\ IsSeq(sub) /\ NamesOnce(sub) /\ NamesIn(sub) = {X} \cup (IF isNew THEN {n} ELSE {})
  <2>1. PICK mp, own, t, s : mp = map /\ own = Around /\ t = ParsedFor(mp, n) /\ s = Last(t.subs)
    OBVIOUS
  <2>2. IsSeq(own) /\ Bare(mp, own)
    BY <1>6, <2>1
  <2>3. /\ IsNew(mp, n) <=> n # X /\ n \notin ToSet(own) \cup Globals
        /\ Holds(t, own, s) /\ NamesOnce(s)
        /\ NamesIn(s) = {X} \cup (IF IsNew(mp, n) THEN {n} ELSE {})
    <3>1. ParsesTo(mp, own, n, t, s)
      BY ONLY <2>1, <2>2 DEF ParsesTo, ParsedFor
    <3>2. IsNew(mp, n) <=> n # X /\ n \notin ToSet(own) \cup Globals
      BY ONLY <3>1, ParsedNames
    <3>3. Holds(t, own, s) /\ NamesOnce(s)
      BY ONLY <3>1, ParsedNames
    <3>4. NamesIn(s) = {X} \cup (IF IsNew(mp, n) THEN {n} ELSE {})
      BY ONLY <3>1, ParsedNames, ZenonT(60)
    <3> QED
      BY ONLY <3>2, <3>3, <3>4
  <2> QED
    BY <2>1, <2>3 DEF Holds, Parted
<1> HIDE DEF sub, isNew, map
<1>12. LetComes(entry, d, graph)
  <2>1. LetNow(d, graph) = Len(lets) + 1
    <3>1. CurrentMap'
      BY DEF Sharing
    <3>2. LetNow(ctl, graph)' = Len(lets) + 1
      BY <3>1, ParseLetKeeps
    <3> QED
      BY <1>1, <1>2, <3>2
  <2>2. Len(lets) \in Nat
    BY FramedIs
  <2> QED
    BY <1>1, <1>2, <2>1, <2>2 DEF LetComes
<1>13. /\ IsSeq(d) /\ Len(d) = top + 1 /\ (\A k \in 1..top : d[k] = ctl[k]) /\ d[Len(d)] = entry
       /\ top \in Nat /\ IsSeq(ctl) /\ FrameAt(d, graph, m, Len(d)) = m
  BY <1>5, <1>12, LetArrives
<1>14. graph.depth > 0 => /\ \A j \in 1..Len(frames) : j # level => gs[j] = frames[j]
                          /\ \A y \in ToSet(Around) : At(gs[level], VarGet(NewMap(Around), y)) = At(frames[level], VarGet(NewMap(Around), y))
  <2> SUFFICES ASSUME graph.depth > 0
               PROVE  /\ \A j \in 1..Len(frames) : j # level => gs[j] = frames[j]
                      /\ \A y \in ToSet(Around) : At(gs[level], VarGet(NewMap(Around), y)) = At(frames[level], VarGet(NewMap(Around), y))
    OBVIOUS
  <2>1. FramesForLet = frames /\ m = level
    BY <1>8
  <2>2. \A j \in 1..Len(frames) : j # level => gs[j] = frames[j]
    BY <1>7, <2>1
  <2>3. gs[level] = cells /\ DOMAIN cells = 1..Len(cells) /\ DOMAIN frames[level] = 1..Len(frames[level])
    BY <1>7, <1>8, <2>1, LenIs DEF SeqSeq
  <2>4. ASSUME NEW y \in ToSet(Around)
        PROVE  At(gs[level], VarGet(NewMap(Around), y)) = At(frames[level], VarGet(NewMap(Around), y))
    <3>1. PICK i : i = VarGet(NewMap(Around), y)
      OBVIOUS
    <3>2. i \in Nat /\ i < Len(Around) /\ Len(Around) \in Nat
      <4>1. \E j \in 1..Len(Around) : i = j - 1
        BY <1>6, <3>1, OwnIndex
      <4> QED
        BY <1>6, <4>1, LenIs
    <3>3. i \notin new
      <4> SUFFICES ASSUME i \in new PROVE FALSE
        OBVIOUS
      <4>1. i >= Len(Around)
        BY <1>7
      <4> QED
        BY <3>2, <4>1
    <3>4. (i + 1) - 1 = i /\ i + 1 \in Nat
      BY <3>2
    <3>5. At(cells, i) = At(frames[level], i)
      BY <1>7, <2>1, <2>3, <3>3, <3>4 DEF At
    <3> QED
      BY <2>3, <3>1, <3>5
  <2> QED
    BY <2>2, <2>4
<1>15. \A k \in 1..top : EnvIs(d, graph, m, gs, ms, k) = EnvIs(ctl, graph, level, frames, lets, k)
  <2>1. graph.depth > 0 => \A j \in 1..Len(frames) : j # level => gs[j] = frames[j]
    BY <1>14
  <2>2. \A k \in 1..top : graph.depth > 0
    BY <1>12, LetArrives
  <2>3. \A k \in 1..top : LocalsIn(gs[level]) = LocalsIn(frames[level])
    BY <1>14, <2>2 DEF LocalsIn
  <2>4. \A k \in 1..Len(ctl) : EnvIs(d, graph, LevelForLet, gs, ms, k) = EnvIs(ctl, graph, level, frames, lets, k)
    BY <1>12, <2>1, <2>3, CallsKept
  <2> QED
    BY <1>5, <2>4
<1>16. EnvIs(d, graph, m, gs, ms, Len(d)) = [y \in NamesIn(sub) |-> 0]
  <2>1. ms[d[Len(d)].let].sub = sub /\ d[Len(d)].kind # "call"
    <3>1. IsSeq(lets)
      BY FramedIs DEF Lets
    <3>2. lets'[Len(lets) + 1] = let
      BY <1>9, <3>1, AppendIs
    <3> QED
      BY <1>4, <1>10, <1>13, <3>2
  <2>2. gs[m] = cells
    BY <1>7, <1>8
  <2>3. \A y \in NamesIn(sub) : At(cells, IndexIn(sub, y)) = 0
    <3> SUFFICES ASSUME NEW y \in NamesIn(sub) PROVE At(cells, IndexIn(sub, y)) = 0
      OBVIOUS
    <3>1. PICK k \in 1..Len(sub) : IndexIn(sub, y) = sub[k].at
      BY <1>11, IndexInIs
    <3>2. PICK i : i = sub[k].at
      OBVIOUS
    <3>3. i \in new /\ i \in Nat /\ i + 1 \in DOMAIN cells /\ (i + 1) - 1 = i
      BY <1>7, <3>2
    <3>4. At(cells, i) = 0
      BY <1>7, <3>3 DEF At
    <3> QED
      BY <3>1, <3>2, <3>4
  <2>4. EnvIs(d, graph, m, gs, ms, Len(d)) = [y \in NamesIn(sub) |-> At(cells, IndexIn(sub, y))]
    BY <1>13, <2>1, <2>2 DEF EnvIs
  <2> QED
    BY <2>3, <2>4
<1>17. /\ EntriesOf(d) = Append(EntriesOf(ctl), EntryOf(d[Len(d)]))
       /\ EnvsOf(d, graph, m, gs, ms) = Append(EnvsOf(ctl, graph, level, frames, lets), EnvIs(d, graph, m, gs, ms, Len(d)))
  <2>1. IsSeq(ctl) /\ IsSeq(d)
    BY <1>13
  <2>2. Len(d) = Len(ctl) + 1
    BY <1>13
  <2>3. \A k \in 1..Len(ctl) : d[k] = ctl[k]
    BY <1>13
  <2>4. \A k \in 1..Len(ctl) : EnvIs(d, graph, m, gs, ms, k) = EnvIs(ctl, graph, level, frames, lets, k)
    BY <1>15
  <2>5. OneMore(ctl, graph, level, frames, lets, d, graph, m, gs, ms)
    BY <2>1, <2>2, <2>3, <2>4 DEF OneMore
  <2> QED
    BY <2>5, ViewMore
<1>18. /\ Entries = EntriesOf(ctl) /\ Envs = EnvsOf(ctl, graph, level, frames, lets) /\ LetsRead = LetsOf(lets)
       /\ Entries' = EntriesOf(d) /\ Envs' = EnvsOf(d, graph, m, gs, ms) /\ LetsRead' = LetsOf(ms)
  <2>1. Entries' = EntriesOf(ctl') /\ Envs' = EnvsOf(ctl', graph', level', frames', lets') /\ LetsRead' = LetsOf(lets')
    BY ViewNext
  <2> QED
    BY <1>1, <1>2, <1>3, <1>4, <1>5, <2>1, ViewIs
<1>19. LetsRead' = Append(LetsRead, [name |-> n, own |-> NamesIn(sub), value |-> let.value])
  <2>1. IsSeq(lets) /\ ms = Append(lets, let)
    BY <1>4, <1>9, FramedIs DEF Lets
  <2> QED
    BY <1>10, <1>18, <2>1, LetsMore
<1>20. ctl = <<>> \/ ctl[Len(ctl)].kind = "call"
  BY <1>1, AtTop
<1>21. /\ Scoped!Scope(n) = IF n \in ToSet(Around) THEN top ELSE 0
       /\ n \in ToSet(Around) => EnvOf(top)[n] = At(frames[level], VarGet(NewMap(Around), n)) /\ top > 0
  BY <1>20, AroundIs
<1>22. Scoped!Visible(n) <=> n \in ToSet(Around) \cup Globals
  BY <1>21 DEF Scoped!Visible
<1>23. NamesIn(sub) = {X} \cup (IF Scoped!Visible(n) THEN {} ELSE {n})
  BY <1>11, <1>22
<1>24. let.value = IF n \in NamesIn(sub) THEN 0 ELSE Scoped!ValueOf(n)
  <2>1. CASE n \in NamesIn(sub)
    BY <1>9, <1>10, <2>1
  <2>2. CASE n \notin NamesIn(sub) /\ n \in ToSet(Around)
    <3>1. Scoped!Scope(n) = top /\ top > 0 /\ top \in 0..Len(ctl)
      BY <1>13, <1>21, <2>2
    <3>2. Scoped!ValueOf(n) = EnvOf(top)[n]
      BY <3>1, ValueIs
    <3> QED
      BY <1>9, <1>10, <1>21, <2>2, <3>2
  <2>3. CASE n \notin NamesIn(sub) /\ n \notin ToSet(Around)
    <3>1. Scoped!Scope(n) = 0 /\ 0 \in 0..Len(ctl)
      BY <1>13, <1>21, <2>3
    <3>2. Scoped!ValueOf(n) = globals[n]
      BY <3>1, ValueIs
    <3> QED
      BY <1>9, <1>10, <2>3, <3>2
  <2> QED
    BY <2>1, <2>2, <2>3
<1>25. Entries' = Append(Entries, [kind |-> "parse", sub |-> "none", let |-> Len(LetsRead) + 1])
  <2>1. Len(LetsRead) = Len(lets)
    BY GuardsAre
  <2> QED
    BY <1>13, <1>17, <1>18, <2>1 DEF EntryOf
<1>26. Envs' = Append(Envs, [y \in NamesIn(sub) |-> 0])
  BY <1>16, <1>17, <1>18
<1>27. Scoped!AtStatement /\ Len(Entries) = top /\ Len(LetsRead) = Len(lets)
  BY <1>1, GuardsAre
<1> QED
  BY <1>1, <1>19, <1>23, <1>24, <1>25, <1>26, <1>27, SMTT(60) DEF Scoped!ParseLet

\* Put, as the variables see it
LEMMA PutAtIs ==
  ASSUME NEW fs, SeqSeq(fs), NEW l \in 1..Len(fs), NEW i \in Nat, NEW v
  PROVE  \A j \in Nat : At(Put(fs, l, i, v)[l], j) = IF j = i /\ i + 1 \in DOMAIN fs[l] THEN v ELSE At(fs[l], j)
<1> PICK gs : gs = Put(fs, l, i, v)
  OBVIOUS
<1>1. DOMAIN gs[l] = DOMAIN fs[l] /\ \A x \in DOMAIN fs[l] : gs[l][x] = IF x = i + 1 THEN v ELSE fs[l][x]
  BY PutDoes
<1>2. \A j \in Nat : j + 1 = i + 1 <=> j = i
  OBVIOUS
<1> QED
  BY <1>1, <1>2 DEF At

\* The stack of doLet
LEMMA DoLetComes ==
  ASSUME Sharing, Sharing', DoLet
  PROVE  LET entry == [kind |-> "let", sub |-> "none", let |-> Head(graph.todo), map |-> localMap]
         IN LetComes(entry, ctl', graph') /\ Head(graph.todo) \in 1..Len(lets)
<1> DEFINE entry == [kind |-> "let", sub |-> "none", let |-> Head(graph.todo), map |-> localMap]
<1>1. /\ graph.state = "drawing" /\ graph.depth = Len(ctl) /\ ctl' = Append(ctl, entry)
      /\ graph' = [graph EXCEPT !.todo = Tail(@)]
  BY DEF DoLet, Drawing
<1>2. LetNow(ctl, graph)' = Head(graph.todo) /\ Head(graph.todo) \in 1..Len(lets)
  <2>1. CurrentMap'
    BY DEF Sharing
  <2> QED
    BY <2>1, DoLetKeeps
<1>3. graph'.depth = graph.depth
  <2>1. graph = [state |-> graph.state, depth |-> graph.depth, todo |-> graph.todo]
    BY DEF Sharing, Graph
  <2> QED
    BY <1>1, <2>1
<1>4. PICK d, hr : d = ctl' /\ hr = graph'
  OBVIOUS
<1>5. LetNow(d, hr) = Head(graph.todo)
  BY <1>2, <1>4
<1>6. LetComes(entry, d, hr)
  BY <1>1, <1>2, <1>3, <1>4, <1>5 DEF LetComes
<1> QED
  BY <1>2, <1>4, <1>6

\* What the next let was read with
LEMMA NextLetHas ==
  ASSUME Sharing, Framed, NamedNow, Sharing', Framed', DoLet
  PROVE  LET let == NextLet
             sub == let.sub
         IN /\ IsSeq(sub) /\ NamesOnce(sub) /\ OnceAt(sub) /\ NamedLet(Around, let) /\ IsSeq(Around) /\ Len(Around) \in Nat
            /\ \A k \in 1..Len(sub) : sub[k].at \in Nat /\ sub[k].at >= Len(Around) /\ sub[k].at < Len(frames'[LevelForLet])
            /\ Head(graph.todo) \in 1..Len(lets)
<1> DEFINE entry == [kind |-> "let", sub |-> "none", let |-> Head(graph.todo), map |-> localMap]
           let == NextLet
           sub == let.sub
<1>1. LetComes(entry, ctl', graph') /\ Head(graph.todo) \in 1..Len(lets)
  BY DoLetComes
<1>2. graph.state = "drawing" /\ graph.depth = Len(ctl) /\ level' = LevelForLet /\ lets' = lets
  BY DEF DoLet, Drawing
<1>3. OwnOf(Home(ctl, graph)) = Around /\ Home(ctl, graph) \in Subs \cup {"temp"}
  BY <1>2, GraphAround, FramedIs
<1>4. IsSeq(Around) /\ Len(Around) \in Nat
  BY <1>3, OwnOfIs
<1>5. Loose(Len(Around), sub)
  BY <1>1, <1>3, FramedIs DEF Lets, NextLet
<1>6. NamedLet(Around, let)
  BY <1>1, <1>3 DEF NamedNow, NamedBy, NextLet
<1>7. LetFrame(ctl, graph, level)' = LevelForLet
  <2>1. PICK d, hr, m : d = ctl' /\ hr = graph' /\ m = LevelForLet
    OBVIOUS
  <2>2. FrameAt(d, hr, m, Len(d)) = m /\ d[Len(d)] = entry
    BY <1>1, <2>1, LetArrives
  <2>3. LetFrame(d, hr, m) = m
    BY <2>2 DEF FrameAt
  <2> QED
    BY <1>2, <2>1, <2>3
<1>8. LetFrames(LevelForLet, frames', lets)
  <2>1. LetFrames(LetFrame(ctl, graph, level)', frames', lets')
    BY DEF Framed
  <2> QED
    BY <1>2, <1>7, <2>1
<1>9. \A k \in 1..Len(sub) : sub[k].at < Len(frames'[LevelForLet])
  BY <1>1, <1>8 DEF LetFrames, NextLet
<1>10. IsSeq(sub) /\ OnceAt(sub) /\ \A k \in 1..Len(sub) : sub[k].at \in Nat /\ sub[k].at >= Len(Around)
  BY <1>4, <1>5 DEF Loose
<1>11. NamesOnce(sub)
  BY <1>6 DEF NamedLet
<1> QED
  BY <1>1, <1>4, <1>6, <1>9, <1>10, <1>11

\* doLet, on the frame: the name of the expression gets its value, then X is 0.
LEMMA DoLetFrame ==
  ASSUME Sharing, Framed, NamedNow, Sharing', Framed', DoLet
  PROVE  LET let == NextLet
             fs == FramesForLet
             m == LevelForLet
         IN /\ graph.depth > 0 => FramesForLet = frames /\ LevelForLet = level /\ \A j \in 1..Len(frames) : j # level => frames'[j] = frames[j]
            /\ m \in 1..Len(frames') /\ let.x \in Nat
            /\ At(frames'[m], let.x) = 0
            /\ let.ref.local => let.ref.at \in Nat /\ (let.ref.at # let.x => At(frames'[m], let.ref.at) = let.value)
            /\ \A i \in Nat : i # let.x /\ ~(let.ref.local /\ i = let.ref.at) => At(frames'[m], i) = At(fs[m], i)
<1> DEFINE let == NextLet
           sub == let.sub
           r == let.ref.at
<1>1. PICK fs : fs = FramesForLet
  OBVIOUS
<1>2. PICK m : m = LevelForLet
  OBVIOUS
<1>3. PICK gs : gs = frames'
  OBVIOUS
<1>4. PICK fs1 : fs1 = RestoredFrames(let)
  OBVIOUS
<1>5. /\ fs1 = IF let.ref.local THEN Put(fs, m, r, let.value) ELSE fs
      /\ gs = Put(fs1, m, let.x, 0)
  BY <1>1, <1>2, <1>3, <1>4 DEF DoLet, RestoredFrames
<1>6. graph.state = "drawing" /\ graph.depth = Len(ctl)
  BY DEF DoLet, Drawing
<1>7. /\ SeqSeq(fs) /\ m \in 1..Len(fs) /\ Len(frames) <= Len(fs)
      /\ graph.depth > 0 => fs = frames /\ m = level
  BY <1>1, <1>2, <1>6, ForLetDoes
<1>8. /\ IsSeq(sub) /\ NamedLet(Around, let) /\ IsSeq(Around) /\ Len(Around) \in Nat
      /\ \A k \in 1..Len(sub) : sub[k].at \in Nat /\ sub[k].at < Len(gs[m])
  BY <1>2, <1>3, NextLetHas
<1>9. PICK kx \in 1..Len(sub) : sub[kx].at = let.x
  BY <1>8 DEF NamedLet
<1>10. let.x \in Nat
  BY <1>8, <1>9
<1>11. let.ref.local => \/ \E i \in 1..Len(sub) : r = sub[i].at
                        \/ \E n \in ToSet(Around) : r = VarGet(NewMap(Around), n)
  <2>1. \/ \E i \in 1..Len(sub) : let.ref = Local(sub[i].at)
        \/ let.name \in ToSet(Around) /\ let.ref = Local(VarGet(NewMap(Around), let.name))
        \/ let.ref = Global(let.name)
    BY <1>8 DEF NamedLet
  <2>2. PICK ref, a, n : ref = let.ref /\ a = sub /\ n = let.name
    OBVIOUS
  <2>3. \/ \E i \in 1..Len(a) : ref = Local(a[i].at)
        \/ n \in ToSet(Around) /\ ref = Local(VarGet(NewMap(Around), n))
        \/ ref = Global(n)
    BY <2>1, <2>2
  <2>4. \A i : Local(i).at = i
    BY DEF Local
  <2>5. ref.local => ref # Global(n)
    BY DEF Global
  <2>6. ref.local => \/ \E i \in 1..Len(a) : ref.at = a[i].at
                     \/ \E y \in ToSet(Around) : ref.at = VarGet(NewMap(Around), y)
    BY <2>3, <2>4, <2>5
  <2> QED
    BY <2>2, <2>6
<1>12. ASSUME NEW n \in ToSet(Around)
       PROVE  VarGet(NewMap(Around), n) \in Nat /\ VarGet(NewMap(Around), n) < Len(Around) /\ graph.depth > 0
  <2>1. \E j \in 1..Len(Around) : VarGet(NewMap(Around), n) = j - 1
    BY <1>8, OwnIndex
  <2>2. ctl # <<>>
    <3>1. Around # <<>>
      BY <1>8, <2>1, LenIs
    <3> QED
      BY <3>1 DEF Around
  <2>3. Len(ctl) \in Nat /\ Len(ctl) # 0
    BY <2>2, FramedIs, LenIs DEF Stack
  <2> QED
    BY <1>6, <1>8, <2>1, <2>3
<1>13. let.ref.local => r \in Nat
  BY <1>8, <1>11, <1>12
<1> HIDE DEF let, sub, r
<1>14. SeqSeq(fs1) /\ Len(fs1) = Len(fs) /\ DOMAIN fs1[m] = DOMAIN fs[m] /\ \A j \in 1..Len(fs) : j # m => fs1[j] = fs[j]
  <2>1. CASE let.ref.local
    BY <1>5, <1>7, <2>1, PutDoes
  <2>2. CASE ~let.ref.local
    BY <1>5, <1>7, <2>2
  <2> QED
    BY <2>1, <2>2
<1>15. SeqSeq(gs) /\ Len(gs) = Len(fs) /\ DOMAIN gs[m] = DOMAIN fs[m] /\ \A j \in 1..Len(fs) : j # m => gs[j] = fs[j]
  <2>1. SeqSeq(fs1) /\ m \in 1..Len(fs1)
    BY <1>7, <1>14
  <2>2. SeqSeq(gs) /\ Len(gs) = Len(fs1) /\ DOMAIN gs[m] = DOMAIN fs1[m] /\ \A j \in 1..Len(fs1) : j # m => gs[j] = fs1[j]
    BY <1>5, <2>1, PutDoes
  <2> QED
    BY <1>14, <2>2
<1>16. let.ref.local => r + 1 \in DOMAIN fs[m]
  <2> SUFFICES ASSUME let.ref.local PROVE r + 1 \in DOMAIN fs[m]
    OBVIOUS
  <2>1. DOMAIN fs[m] = 1..Len(gs[m]) /\ Len(gs[m]) \in Nat
    BY <1>7, <1>15, LenIs DEF SeqSeq
  <2>2. CASE \E i \in 1..Len(sub) : r = sub[i].at
    BY <1>8, <2>1, <2>2
  <2>3. CASE \E n \in ToSet(Around) : r = VarGet(NewMap(Around), n)
    <3>1. r < Len(Around) /\ graph.depth > 0 /\ r \in Nat
      BY <1>12, <2>3
    <3>2. ctl # <<>> /\ ctl[Len(ctl)].kind = "call"
      <4>1. ctl # <<>>
        BY <1>6, <3>1, EmptyIs
      <4> QED
        BY <1>6, <4>1, GraphAround
    <3>3. Len(frames[level]) \in Nat /\ Len(Around) <= Len(frames[level])
      BY <3>2, TopCells
    <3>4. DOMAIN frames[level] = 1..Len(frames[level])
      BY <1>7, <3>1, LenIs DEF SeqSeq
    <3> QED
      BY <1>7, <1>8, <3>1, <3>3, <3>4
  <2> QED
    BY <1>11, <2>2, <2>3
<1>17. \A j \in Nat : At(fs1[m], j) = IF let.ref.local /\ j = r THEN let.value ELSE At(fs[m], j)
  <2>1. CASE let.ref.local
    <3>1. \A j \in Nat : At(Put(fs, m, r, let.value)[m], j) = IF j = r /\ r + 1 \in DOMAIN fs[m] THEN let.value ELSE At(fs[m], j)
      BY <1>7, <1>13, <2>1, PutAtIs
    <3> QED
      BY <1>5, <1>16, <2>1, <3>1
  <2>2. CASE ~let.ref.local
    BY <1>5, <2>2
  <2> QED
    BY <2>1, <2>2
<1>18. \A j \in Nat : At(gs[m], j) = IF j = let.x THEN 0 ELSE At(fs1[m], j)
  <2>1. SeqSeq(fs1) /\ m \in 1..Len(fs1)
    BY <1>7, <1>14
  <2>2. \A j \in Nat : At(Put(fs1, m, let.x, 0)[m], j) = IF j = let.x /\ let.x + 1 \in DOMAIN fs1[m] THEN 0 ELSE At(fs1[m], j)
    BY <1>10, <2>1, PutAtIs
  <2>3. let.x + 1 \in DOMAIN fs1[m]
    <3>1. DOMAIN fs1[m] = 1..Len(gs[m]) /\ Len(gs[m]) \in Nat
      BY <1>7, <1>14, <1>15, LenIs DEF SeqSeq
    <3> QED
      BY <1>8, <1>9, <3>1
  <2> QED
    BY <1>5, <2>2, <2>3
<1>19. graph.depth > 0 => \A j \in 1..Len(frames) : j # level => gs[j] = frames[j]
  BY <1>7, <1>15
<1>20. /\ At(gs[m], let.x) = 0
       /\ let.ref.local => r \in Nat /\ (r # let.x => At(gs[m], r) = let.value)
       /\ \A i \in Nat : i # let.x /\ ~(let.ref.local /\ i = r) => At(gs[m], i) = At(fs[m], i)
  BY <1>10, <1>13, <1>17, <1>18
<1> QED
  BY <1>1, <1>2, <1>3, <1>7, <1>10, <1>15, <1>19, <1>20 DEF let, r

\* What the name of the expression of a let stands for
LEMMA NameOf ==
  ASSUME NEW own, NEW let, NamedLet(own, let), IsSeq(let.sub)
  PROVE  /\ let.name \in NamesIn(let.sub) => \E i \in 1..Len(let.sub) : let.sub[i].name = let.name /\ let.ref.local /\ let.ref.at = let.sub[i].at
         /\ let.name \notin NamesIn(let.sub) /\ let.name \in ToSet(own) => let.ref.local /\ let.ref.at = VarGet(NewMap(own), let.name)
         /\ let.name \notin NamesIn(let.sub) /\ let.name \notin ToSet(own) => ~let.ref.local /\ let.ref.name = let.name
<1>1. PICK n, ref, sub : n = let.name /\ ref = let.ref /\ sub = let.sub
  OBVIOUS
<1>2. \/ \E i \in 1..Len(sub) : sub[i].name = n /\ ref = Local(sub[i].at)
      \/ n \notin NamesIn(sub) /\ n \in ToSet(own) /\ ref = Local(VarGet(NewMap(own), n))
      \/ n \notin NamesIn(sub) /\ n \notin ToSet(own) /\ ref = Global(n)
  BY <1>1 DEF NamedLet
<1>3. (\E i \in 1..Len(sub) : sub[i].name = n) => n \in NamesIn(sub)
  BY <1>1, NamesAre
<1>4. \A i : Local(i).at = i /\ Local(i).local
  BY DEF Local
<1>5. Global(n).name = n /\ ~Global(n).local
  BY DEF Global
<1>6. /\ n \in NamesIn(sub) => \E i \in 1..Len(sub) : sub[i].name = n /\ ref.local /\ ref.at = sub[i].at
      /\ n \notin NamesIn(sub) /\ n \in ToSet(own) => ref.local /\ ref.at = VarGet(NewMap(own), n)
      /\ n \notin NamesIn(sub) /\ n \notin ToSet(own) => ~ref.local /\ ref.name = n
  BY <1>2, <1>3, <1>4, <1>5
<1> QED
  BY <1>1, <1>6

\* doLet: the variables of the let
LEMMA LetRestored ==
  ASSUME Sharing, Framed, NamedNow, Sharing', Framed', ValuesNow', DoLet
  PROVE  LET let == NextLet
             sub == let.sub
             e == [y \in NamesIn(sub) |-> At(frames'[LevelForLet], IndexIn(sub, y))]
         IN e \in [NamesIn(sub) -> Val] /\ e[X] = 0 /\ (let.name \in NamesIn(sub) \ {X} => e[let.name] = let.value)
<1> DEFINE let == NextLet
           n == let.name
<1>1. PICK m : m = LevelForLet
  OBVIOUS
<1>2. PICK gs : gs = frames'
  OBVIOUS
<1>3. PICK sub : sub = let.sub
  OBVIOUS
<1>4. IsSeq(sub) /\ NamesOnce(sub) /\ OnceAt(sub) /\ NamedLet(Around, let)
  BY <1>3, NextLetHas
<1>5. m \in 1..Len(gs) /\ At(gs[m], let.x) = 0 /\ (let.ref.local => (let.ref.at # let.x => At(gs[m], let.ref.at) = let.value))
  BY <1>1, <1>2, DoLetFrame
<1>6. PICK kx \in 1..Len(sub) : sub[kx].name = X /\ sub[kx].at = let.x
  BY <1>3, <1>4 DEF NamedLet
<1>7. n \in NamesIn(sub) => \E i \in 1..Len(sub) : sub[i].name = n /\ let.ref.local /\ let.ref.at = sub[i].at
  BY <1>3, <1>4, NameOf
<1> HIDE DEF let, n
<1> DEFINE e == [y \in NamesIn(sub) |-> At(gs[m], IndexIn(sub, y))]
<1>8. X \in NamesIn(sub) /\ IndexIn(sub, X) = let.x
  <2>1. X \in NamesIn(sub)
    BY <1>4, <1>6, NamesAre
  <2> QED
    BY <1>4, <1>6, <2>1, IndexInIs
<1>9. e[X] = 0
  BY <1>5, <1>8
<1>10. ASSUME n \in NamesIn(sub) \ {X} PROVE e[n] = let.value
  <2>1. PICK i \in 1..Len(sub) : sub[i].name = n /\ let.ref.local /\ let.ref.at = sub[i].at
    BY <1>7, <1>10
  <2>2. IndexIn(sub, n) = sub[i].at
    BY <1>4, <1>10, <2>1, IndexInIs
  <2>3. sub[i].at # let.x
    BY <1>4, <1>6, <1>10, <2>1 DEF OnceAt
  <2> QED
    BY <1>5, <1>10, <2>1, <2>2, <2>3
<1>11. e \in [NamesIn(sub) -> Val]
  <2>1. Filled(gs)
    BY <1>2 DEF ValuesNow
  <2>2. Vals(gs[m])
    BY <1>5, <2>1 DEF Filled
  <2> QED
    BY <2>2, AtVal
<1> QED
  BY <1>1, <1>2, <1>3, <1>9, <1>10, <1>11 DEF let, n

\* doLet: the locals of the call around
LEMMA LocalsRestored ==
  ASSUME Sharing, Framed, NamedNow, Sharing', Framed', DoLet, graph.depth > 0
  PROVE  LET let == NextLet
             n == let.name
         IN LocalsIn(frames'[level]) = IF n \in ToSet(Around) /\ n \notin NamesIn(let.sub)
                                       THEN [LocalsIn(frames[level]) EXCEPT ![n] = let.value] ELSE LocalsIn(frames[level])
<1> DEFINE let == NextLet
           n == let.name
           r == let.ref.at
<1>1. PICK gs : gs = frames'
  OBVIOUS
<1>2. PICK sub : sub = let.sub
  OBVIOUS
<1>3. /\ IsSeq(sub) /\ NamedLet(Around, let) /\ IsSeq(Around) /\ Len(Around) \in Nat
      /\ \A k \in 1..Len(sub) : sub[k].at \in Nat /\ sub[k].at >= Len(Around)
  BY <1>2, NextLetHas
<1>4. /\ let.x \in Nat
      /\ let.ref.local => r \in Nat /\ (r # let.x => At(gs[level], r) = let.value)
      /\ \A i \in Nat : i # let.x /\ ~(let.ref.local /\ i = r) => At(gs[level], i) = At(frames[level], i)
  <2>1. FramesForLet = frames /\ LevelForLet = level
    BY DoLetFrame
  <2>2. /\ let.x \in Nat
        /\ let.ref.local => r \in Nat /\ (r # let.x => At(gs[LevelForLet], r) = let.value)
        /\ \A i \in Nat : i # let.x /\ ~(let.ref.local /\ i = r) => At(gs[LevelForLet], i) = At(FramesForLet[LevelForLet], i)
    BY <1>1, DoLetFrame
  <2> HIDE DEF let, r
  <2> QED
    BY <2>1, <2>2
<1>5. \E k \in 1..Len(sub) : sub[k].at = let.x
  BY <1>2, <1>3 DEF NamedLet
<1>6. /\ n \in NamesIn(sub) => \E i \in 1..Len(sub) : let.ref.local /\ r = sub[i].at
      /\ n \notin NamesIn(sub) /\ n \in ToSet(Around) => let.ref.local /\ r = VarGet(NewMap(Around), n)
      /\ n \notin NamesIn(sub) /\ n \notin ToSet(Around) => ~let.ref.local
  BY <1>2, <1>3, NameOf
<1> HIDE DEF let, n, r
<1> DEFINE old == LocalsIn(frames[level])
           new == LocalsIn(gs[level])
<1>7. ASSUME NEW y \in ToSet(Around)
      PROVE  At(gs[level], VarGet(NewMap(Around), y)) =
               IF y = n /\ n \notin NamesIn(sub) THEN let.value ELSE At(frames[level], VarGet(NewMap(Around), y))
  <2>1. PICK a : a = VarGet(NewMap(Around), y)
    OBVIOUS
  <2>2. PICK j \in 1..Len(Around) : Around[j] = y /\ a = j - 1
    BY <1>3, <2>1, OwnIndex
  <2>3. a \in Nat /\ a < Len(Around)
    BY <1>3, <2>2
  <2>4. a # let.x
    BY <1>3, <1>5, <2>3
  <2>5. CASE n \in NamesIn(sub)
    <3>1. a # r
      BY <1>3, <1>6, <2>3, <2>5
    <3> QED
      BY <1>4, <2>1, <2>3, <2>4, <2>5, <3>1
  <2>6. CASE n \notin NamesIn(sub) /\ n \notin ToSet(Around)
    BY <1>4, <1>6, <2>1, <2>3, <2>4, <2>6
  <2>7. CASE n \notin NamesIn(sub) /\ n \in ToSet(Around)
    <3>1. let.ref.local /\ r = VarGet(NewMap(Around), n)
      BY <1>6, <2>7
    <3>2. CASE y = n
      BY <1>4, <2>1, <2>4, <2>7, <3>1, <3>2
    <3>3. CASE y # n
      <4>1. PICK h \in 1..Len(Around) : Around[h] = n /\ r = h - 1
        BY <1>3, <2>7, <3>1, OwnIndex
      <4>2. a # r
        BY <1>3, <2>2, <3>3, <4>1
      <4> QED
        BY <1>4, <2>1, <2>3, <2>4, <3>3, <4>2
    <3> QED
      BY <3>2, <3>3
  <2> QED
    BY <2>5, <2>6, <2>7
<1>8. /\ old = [y \in ToSet(Around) |-> At(frames[level], VarGet(NewMap(Around), y))]
      /\ new = [y \in ToSet(Around) |-> At(gs[level], VarGet(NewMap(Around), y))]
  BY DEF LocalsIn
<1> HIDE DEF old, new
<1>9. new = IF n \in ToSet(Around) /\ n \notin NamesIn(sub) THEN [old EXCEPT ![n] = let.value] ELSE old
  <2>1. CASE n \in ToSet(Around) /\ n \notin NamesIn(sub)
    <3>1. new = [y \in ToSet(Around) |-> IF y = n THEN let.value ELSE old[y]]
      BY <1>7, <1>8, <2>1
    <3> QED
      BY <1>8, <2>1, <3>1
  <2>2. CASE ~(n \in ToSet(Around) /\ n \notin NamesIn(sub))
    <3>1. new = [y \in ToSet(Around) |-> old[y]]
      BY <1>7, <1>8, <2>2
    <3> QED
      BY <1>8, <2>2, <3>1
  <2> QED
    BY <2>1, <2>2
<1> QED
  BY <1>1, <1>2, <1>9 DEF let, n, old, new

\* doLet: the calls around, one of which may get the value back
LEMMA CallsRestored ==
  ASSUME Wide, Sharing, Framed, SizedNow, NamedNow, Sharing', Framed', DoLet, NEW k \in 1..Len(ctl)
  PROVE  LET n == NextLet.name
             old == EnvIs(ctl, graph, level, frames, lets, k)
         IN EnvIs(ctl', graph', LevelForLet, frames', lets, k) =
              IF k = Scoped!Scope(n) /\ n \notin NamesIn(NextLet.sub) THEN [old EXCEPT ![n] = NextLet.value] ELSE old
<1> DEFINE n == NextLet.name
           entry == [kind |-> "let", sub |-> "none", let |-> Head(graph.todo), map |-> localMap]
           top == Len(ctl)
           old == EnvIs(ctl, graph, level, frames, lets, k)
<1>1. PICK d, hr, gs, m : d = ctl' /\ hr = graph' /\ gs = frames' /\ m = LevelForLet
  OBVIOUS
<1> DEFINE new == EnvIs(d, hr, m, gs, lets, k)
<1>2. LetComes(entry, d, hr) /\ graph.state = "drawing" /\ graph.depth = top
  BY <1>1, DoLetComes DEF DoLet, Drawing
<1>3. ctl = <<>> \/ ctl[Len(ctl)].kind = "call"
  BY <1>2, GraphAround
<1>4. Scoped!Scope(n) = IF n \in ToSet(Around) THEN top ELSE 0
  BY <1>3, AroundIs
<1>5. graph.depth > 0 /\ k > 0
  <2>1. top \in Nat
    BY FramedIs
  <2> QED
    BY <1>2, <2>1
<1>6. \A j \in 1..Len(frames) : j # level => gs[j] = frames[j]
  BY <1>1, <1>5, DoLetFrame
<1>7. k # top \/ LocalsIn(gs[level]) = LocalsIn(frames[level]) => new = old
  <2>1. \A j \in 1..Len(ctl) : j # Len(ctl) \/ LocalsIn(gs[level]) = LocalsIn(frames[level])
                                 => EnvIs(d, hr, LevelForLet, gs, lets, j) = EnvIs(ctl, graph, level, frames, lets, j)
    BY <1>2, <1>6, CallsKept
  <2> QED
    BY <1>1, <2>1
<1>8. LocalsIn(gs[level]) = IF n \in ToSet(Around) /\ n \notin NamesIn(NextLet.sub)
                            THEN [LocalsIn(frames[level]) EXCEPT ![n] = NextLet.value] ELSE LocalsIn(frames[level])
  BY <1>1, <1>5, LocalsRestored
<1>9. CASE ~(k = Scoped!Scope(n) /\ n \notin NamesIn(NextLet.sub))
  <2>1. k # top \/ ~(n \in ToSet(Around) /\ n \notin NamesIn(NextLet.sub))
    BY <1>4, <1>9
  <2>2. new = old
    BY <1>7, <1>8, <2>1
  <2> QED
    BY <1>1, <1>9, <2>2
<1>10. CASE k = Scoped!Scope(n) /\ n \notin NamesIn(NextLet.sub)
  <2>1. n \in ToSet(Around) /\ k = top
    BY <1>4, <1>5, <1>10
  <2>2. /\ d[k] = ctl[k] /\ ctl[k].kind = "call"
        /\ FrameAt(d, hr, m, k) = level /\ FrameAt(ctl, graph, level, k) = level
    BY <1>1, <1>2, <2>1, LetArrives
  <2>3. Around = Locals[ctl[k].sub]
    BY <2>1, <2>2, EmptyIs DEF Around, Top
  <2>4. old = LocalsIn(frames[level])
    BY <2>2, <2>3 DEF EnvIs, LocalsIn, Own
  <2>5. new = LocalsIn(gs[level])
    BY <2>2, <2>3 DEF EnvIs, LocalsIn, Own
  <2>6. new = [old EXCEPT ![n] = NextLet.value]
    BY <1>8, <1>10, <2>1, <2>4, <2>5
  <2> QED
    BY <1>1, <1>10, <2>6
<1> QED
  BY <1>9, <1>10

\* doLet: the let has its variables again, and the name of its expression, in
\* whatever scope it is, the value that was remembered.
LEMMA DoLetRefines ==
  ASSUME Wide, Sharing, Framed, SizedNow, NamedNow, Sharing', Framed', ValuesNow', DoLet
  PROVE  Scoped!DoLet
<1> DEFINE let == NextLet
           n == let.name
           sub == let.sub
           top == Len(ctl)
           entry == [kind |-> "let", sub |-> "none", let |-> Head(graph.todo), map |-> localMap]
           e == [y \in NamesIn(sub) |-> At(frames'[LevelForLet], IndexIn(sub, y))]
           at == Scoped!Scope(n)
           read == LetsRead[Head(graph.todo)]
<1>1. /\ Drawing /\ graph.todo # <<>> /\ top < MaxDepth /\ graph.state = "drawing" /\ graph.depth = top
      /\ level' = LevelForLet /\ ctl' = Append(ctl, entry) /\ graph' = [graph EXCEPT !.todo = Tail(@)]
      /\ globals' = RestoredGlobals(let) /\ lets' = lets
  BY DEF DoLet, Drawing
<1>2. LetComes(entry, ctl', graph') /\ Head(graph.todo) \in 1..Len(lets)
  BY DoLetComes
<1>3. PICK d, hr, gs, m : d = ctl' /\ hr = graph' /\ gs = frames' /\ m = LevelForLet
  OBVIOUS
<1>4. /\ IsSeq(d) /\ Len(d) = top + 1 /\ (\A k \in 1..top : d[k] = ctl[k]) /\ d[Len(d)] = entry
      /\ top \in Nat /\ IsSeq(ctl) /\ FrameAt(d, hr, m, Len(d)) = m
  BY <1>2, <1>3, LetArrives
<1>5. IsSeq(sub) /\ NamedLet(Around, let)
  BY NextLetHas
<1>6. read = [name |-> n, own |-> NamesIn(sub), value |-> let.value]
  BY <1>2, ViewIs DEF LetsOf, LetRead, NextLet
<1>7. e \in [NamesIn(sub) -> Val] /\ e[X] = 0 /\ (n \in NamesIn(sub) \ {X} => e[n] = let.value)
  BY LetRestored
<1>8. EnvIs(d, hr, m, gs, lets, top + 1) = e
  <2>1. d[top + 1] = entry /\ FrameAt(d, hr, m, top + 1) = m /\ lets[d[top + 1].let] = let /\ d[top + 1].kind # "call"
    BY <1>4 DEF NextLet
  <2> HIDE DEF let
  <2> QED
    BY <1>3, <2>1 DEF EnvIs
<1>9. \A k \in 1..top : EnvIs(d, hr, m, gs, lets, k) =
        IF k = at /\ n \notin NamesIn(sub) THEN [EnvIs(ctl, graph, level, frames, lets, k) EXCEPT ![n] = let.value]
        ELSE EnvIs(ctl, graph, level, frames, lets, k)
  BY <1>3, CallsRestored
<1>10. /\ Entries = EntriesOf(ctl) /\ Envs = EnvsOf(ctl, graph, level, frames, lets)
       /\ Entries' = EntriesOf(d) /\ Envs' = EnvsOf(d, hr, m, gs, lets) /\ LetsRead' = LetsRead
  <2>1. Entries' = EntriesOf(ctl') /\ Envs' = EnvsOf(ctl', graph', level', frames', lets') /\ LetsRead' = LetsOf(lets')
    BY ViewNext
  <2> QED
    BY <1>1, <1>3, <2>1, ViewIs
<1>11. Entries' = Append(Entries, [kind |-> "let", sub |-> "none", let |-> Head(graph.todo)])
  <2>1. EntriesOf(d) = Append(EntriesOf(ctl), EntryOf(d[Len(d)]))
    <3> DEFINE e1 == EntriesOf(ctl)
               e2 == EntriesOf(d)
    <3>1. IsSeq(e1) /\ Len(e1) = top /\ IsSeq(e2) /\ Len(e2) = top + 1
      BY <1>4, ViewSeqs
    <3>2. (\A k \in 1..top : e2[k] = e1[k]) /\ e2[top + 1] = EntryOf(d[top + 1])
      BY <1>4 DEF EntriesOf
    <3> HIDE DEF e1, e2, top
    <3>3. e2 = Append(e1, e2[top + 1])
      BY <1>4, <3>1, <3>2, ListMore
    <3> QED
      BY <1>4, <3>2, <3>3 DEF e1, e2
  <2> QED
    BY <1>4, <1>10, <2>1 DEF EntryOf
<1>12. Envs' = [k \in 1..(top + 1) |-> IF k > top THEN e
                                        ELSE IF k = at /\ n \notin NamesIn(sub) THEN [Envs[k] EXCEPT ![n] = let.value] ELSE Envs[k]]
  <2> DEFINE E == EnvsOf(ctl, graph, level, frames, lets)
             F == EnvsOf(d, hr, m, gs, lets)
  <2>1. F = [k \in 1..(top + 1) |-> EnvIs(d, hr, m, gs, lets, k)]
    BY <1>4 DEF EnvsOf
  <2>2. \A k \in 1..top : E[k] = EnvIs(ctl, graph, level, frames, lets, k)
    BY DEF EnvsOf
  <2> HIDE DEF E, F, e, let, sub, n, at
  <2>3. \A k \in 1..(top + 1) : EnvIs(d, hr, m, gs, lets, k) =
          IF k > top THEN e ELSE IF k = at /\ n \notin NamesIn(sub) THEN [E[k] EXCEPT ![n] = let.value] ELSE E[k]
    <3> SUFFICES ASSUME NEW k \in 1..(top + 1)
                 PROVE  EnvIs(d, hr, m, gs, lets, k) =
                          IF k > top THEN e ELSE IF k = at /\ n \notin NamesIn(sub) THEN [E[k] EXCEPT ![n] = let.value] ELSE E[k]
      OBVIOUS
    <3>1. CASE k > top
      <4>1. k = top + 1
        BY <1>4, <3>1
      <4> QED
        BY <1>8, <3>1, <4>1
    <3>2. CASE k \in 1..top
      BY <1>4, <1>9, <2>2, <3>2
    <3> QED
      BY <1>4, <3>1, <3>2
  <2>4. Envs = E /\ Envs' = F
    BY <1>10 DEF E, F
  <2> QED
    BY <2>1, <2>3, <2>4
<1>13. at = IF n \in ToSet(Around) THEN top ELSE 0
  <2>1. ctl = <<>> \/ ctl[Len(ctl)].kind = "call"
    BY <1>1, GraphAround
  <2> QED
    BY <2>1, AroundIs
<1>14. n \in ToSet(Around) => top > 0
  <2>1. Len(Around) \in Nat /\ (n \in ToSet(Around) => Around # <<>>)
    <3>1. IsSeq(Around)
      BY NextLetHas
    <3>2. ToSet(<<>>) = {}
      BY EmptyIs, ToSetIs
    <3> QED
      BY <3>1, <3>2, LenIs
  <2>2. Around # <<>> => ctl # <<>>
    BY DEF Around
  <2> QED
    BY <1>4, <2>1, <2>2, LenIs
<1>15. globals' = IF n \in NamesIn(sub) \/ at > 0 THEN globals ELSE [globals EXCEPT ![n] = let.value]
  <2>1. /\ n \in NamesIn(sub) => let.ref.local
        /\ n \notin NamesIn(sub) /\ n \in ToSet(Around) => let.ref.local
        /\ n \notin NamesIn(sub) /\ n \notin ToSet(Around) => ~let.ref.local /\ let.ref.name = n
    BY <1>5, NameOf
  <2>2. globals' = IF let.ref.local THEN globals ELSE [globals EXCEPT ![let.ref.name] = let.value]
    BY <1>1 DEF RestoredGlobals
  <2>3. at \in Nat /\ (at > 0 <=> n \in ToSet(Around))
    <3>1. top \in Nat
      BY <1>4
    <3> HIDE DEF top, n, at
    <3> QED
      BY <3>1, <1>13, <1>14
  <2>4. (n \in NamesIn(sub) \/ at > 0) <=> let.ref.local
    <3> HIDE DEF let, sub, n, at
    <3> QED
      BY <2>1, <2>3
  <2>5. ~let.ref.local => let.ref.name = n
    <3> HIDE DEF let, sub, n, at
    <3> QED
      BY <2>1
  <2> HIDE DEF let, sub, n, at
  <2>6. CASE let.ref.local
    BY <2>2, <2>4, <2>6
  <2>7. CASE ~let.ref.local
    <3>1. globals' = [globals EXCEPT ![n] = let.value]
      BY <2>2, <2>5, <2>7
    <3> QED
      BY <2>4, <2>7, <3>1
  <2> QED
    BY <2>6, <2>7
<1>16. Scoped!Drawing /\ Len(Entries) = top
  BY <1>1, GuardsAre
<1> HIDE DEF e, let, sub, n, at, top, read
<1>17. /\ read.name = n /\ read.own = NamesIn(sub) /\ read.value = let.value
  BY <1>6
<1>18. \E f \in [read.own -> Val] :
          /\ f[X] = 0
          /\ n \in read.own \ {X} => f[n] = read.value
          /\ Envs' = [k \in 1..(Len(Entries) + 1) |->
                        IF k > Len(Entries) THEN f
                        ELSE IF k = at /\ n \notin read.own
                             THEN [Envs[k] EXCEPT ![n] = read.value] ELSE Envs[k]]
  BY <1>7, <1>12, <1>16, <1>17
<1>19. graph' = [graph EXCEPT !.todo = Tail(graph.todo)]
  BY <1>1
<1> QED
  BY <1>1, <1>10, <1>11, <1>15, <1>16, <1>17, <1>18, <1>19 DEF Scoped!DoLet, at, read, top

-----------------------------------------------------------------------------
(***************************************************************************)
(* Vars implements Scopes: the first state, and every step.                 *)
(***************************************************************************)
View == Sharing /\ Framed /\ SizedNow /\ NamedNow /\ ValuesNow

\* Every variable is 0 to begin with, and there is no other cell.
LEMMA ValuesInit == ASSUME Init PROVE ValuesNow
<1>1. globals = [g \in Globals |-> 0] /\ frames = <<>> /\ lets = <<>>
  BY DEF Init
<1>2. 0 \in Val
  BY NamesAssumption
<1> QED
  BY <1>1, <1>2, EmptyIs DEF ValuesNow, Filled

\* What the refinement needs, in the first state
LEMMA ViewInit == Init => View
  BY CurrentMapInit, SharingInit, FramedInit, SizedInit, NamedInit, ValuesInit DEF View

\* and after every step
LEMMA ViewStep == ASSUME Apart PROVE View /\ [Next]_vars => View'
  BY SharingStep, FramedStep, SizedStep, NamedStep, ValuesStep DEF View

\* Every step of Vars is a step of Scopes, or one Scopes does not see.
LEMMA RefineStep ==
  ASSUME Wide, Apart, View, View', [Next]_vars
  PROVE  [Scoped!Next]_(Scoped!vars)
<1>a. Sharing /\ Framed /\ SizedNow /\ NamedNow /\ Sharing' /\ Framed' /\ ValuesNow'
  BY DEF View
<1>1. ASSUME NEW s \in Subs, NEW v \in Val, Call(s, v) PROVE Scoped!Next
  <2>1. Scoped!Call(s, v)
    BY <1>a, <1>1, CallRefines
  <2> QED
    BY <2>1 DEF Scoped!Next
<1>2. ASSUME NEW n \in Names, NEW v \in Val, Assign(n, v) PROVE Scoped!Next
  <2>1. Scoped!Assign(n, v)
    BY <1>a, <1>2, AssignRefines
  <2> QED
    BY <2>1 DEF Scoped!Next
<1>3. ASSUME NEW n \in Names, ParseLet(n) PROVE Scoped!Next
  <2>1. Scoped!ParseLet(n)
    BY <1>a, <1>3, ParseLetRefines
  <2> QED
    BY <2>1 DEF Scoped!Next
<1>4. CASE Return
  <2>1. Scoped!Return
    BY <1>a, <1>4, ReturnRefines
  <2> QED
    BY <2>1 DEF Scoped!Next
<1>5. CASE BeginGraph
  <2>1. Scoped!BeginGraph
    BY <1>a, <1>5, BeginGraphRefines
  <2> QED
    BY <2>1 DEF Scoped!Next
<1>6. CASE EndParse
  <2>1. Scoped!EndParse
    BY <1>a, <1>6, EndParseRefines
  <2> QED
    BY <2>1 DEF Scoped!Next
<1>7. CASE DoLet
  <2>1. Scoped!DoLet
    BY <1>a, <1>7, DoLetRefines
  <2> QED
    BY <2>1 DEF Scoped!Next
<1>8. CASE EndLet
  <2>1. Scoped!EndLet
    BY <1>a, <1>8, EndLetRefines
  <2> QED
    BY <2>1 DEF Scoped!Next
<1>9. CASE GraphDone
  <2>1. Scoped!GraphDone
    BY <1>a, <1>9, GraphDoneRefines
  <2> QED
    BY <2>1 DEF Scoped!Next
<1>10. ASSUME NEW twice \in BOOLEAN, EndGraph(twice) PROVE Scoped!Next
  <2>1. Scoped!EndGraph(twice)
    BY <1>a, <1>10, EndGraphRefines
  <2> QED
    BY <2>1 DEF Scoped!Next
<1>11. ASSUME NEW v \in Val, NEW w \in Val, Select(v, w) PROVE Scoped!Next
  <2>1. Scoped!Select(v, w)
    BY <1>a, <1>11, SelectRefines
  <2> QED
    BY <2>1 DEF Scoped!Next
<1>12. ASSUME NEW d \in Data, Detect(d) PROVE Scoped!Next
  <2>1. Scoped!Detect(d)
    BY <1>a, <1>12, DetectRefines
  <2> QED
    BY <2>1 DEF Scoped!Next
<1>13. CASE Run
  <2>1. Scoped!Run
    BY <1>a, <1>13, RunRefines
  <2> QED
    BY <2>1 DEF Scoped!Next
<1>14. CASE Retrieve
  <2>1. UNCHANGED <<globals, ctl, graph, level, frames, lets>>
    BY <1>14 DEF Retrieve
  <2> QED
    BY <1>a, <2>1, SameView
<1>15. CASE UNCHANGED vars
  <2>1. UNCHANGED <<globals, ctl, graph, level, frames, lets>>
    BY <1>15 DEF vars
  <2> QED
    BY <1>a, <2>1, SameView
<1> QED
  BY <1>1, <1>2, <1>3, <1>4, <1>5, <1>6, <1>7, <1>8, <1>9, <1>10, <1>11, <1>12, <1>13, <1>14, <1>15 DEF Next

\* LexicalScopes: indices into one global array, maps that are shared and
\* frames that are reused and never cleared (var.cpp) give every script the
\* variables its text says: a call its own locals, a let its own X, its own
\* name and its own data set variables, and the value the name had when the
\* let was read; when the maps have room (Wide) and no variable is named like
\* a data set (Apart).
THEOREM ScopesImplemented == ASSUME Wide, Apart PROVE Spec => LexicalScopes
<1>1. Init => View
  BY ViewInit
<1>2. View /\ [Next]_vars => View'
  BY ViewStep
<1>3. Init /\ View => Scoped!Init
  BY InitRefines DEF View
<1>4. View /\ View' /\ [Next]_vars => [Scoped!Next]_(Scoped!vars)
  BY RefineStep
<1> QED
  BY <1>1, <1>2, <1>3, <1>4, PTL DEF Spec, LexicalScopes, Scoped!Spec
=============================================================================
