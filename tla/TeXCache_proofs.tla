--------------------------- MODULE TeXCache_proofs ---------------------------
(***************************************************************************)
(* Proofs about the sizes of LaTeX texts and of fonts: for any texts,       *)
(* preambles and scripts, any number of runs, failures and crashes.         *)
(***************************************************************************)
EXTENDS TeXCache, FiniteSetTheorems, WellFoundedInduction, TLAPS

(***************************************************************************)
(* Pages and hash are files and memory of their own, and only the numbers   *)
(* of their entries relate them.  Matched says when they can be relied on:  *)
(* when the pages were made in this run, or when no failure has left files  *)
(* that do not belong together.                                             *)
(***************************************************************************)
Listed(s) == Len(s) \in Nat /\ s = [i \in 1 .. Len(s) |-> s[i]]
IsLine(l) == l # <<>>
IsObject(o) == o = [line |-> o.line, dims |-> o.dims, used |-> o.used] /\ IsLine(o.line)
Shapes ==
  /\ Listed(hash) /\ \A i \in DOMAIN hash : IsObject(hash[i])
  /\ Listed(texlines) /\ \A i \in DOMAIN texlines : IsLine(texlines[i])
  /\ pc \in {"reset", "draw"} /\ loaded = "none" => hash = <<>>
  /\ measured \in BOOLEAN /\ faults \in Nat

\* The size of o is that of its line.
Own(o) == o.dims = [pre |-> (o.dims).pre, line |-> o.line] /\ IsLine(o.line) /\ (measured => (o.dims).pre = script.pre)
Pages(lines) == ps.lines = lines /\ (measured => ps.pre = script.pre)

OnReset ==
  \/ loaded = "none" /\ ps.lines = texlines /\ ~measured
  \/ loaded = "partial" /\ Pages(LinesOf(Used(hash)))
OnDraw ==
  \/ loaded = "none" /\ ps.lines = texlines /\ ~measured /\ objects = {}
  \/ loaded = "partial" /\ Pages(LinesOf(hash)) /\ objects = {}
  \/ /\ loaded = "full"
     /\ \A i \in DOMAIN hash : Own(hash[i]) \/ (hash[i].dims = NoDims /\ modified)
     /\ modified \/ \A o \in objects : Own(o)
Matched ==
  faults = 0 \/ measured =>
    /\ pc = "reset" => OnReset
    /\ pc = "draw" => OnDraw
    /\ pc = "done" => \A o \in objects : Own(o)
\* Without failures the two files belong together, too.
Together ==
  faults = 0 =>
    IF pc \in {"latex", "dvips"} THEN texlines = LinesOf(Used(hash)) ELSE ps.lines = texlines
IInv == Shapes /\ Matched /\ Together

-----------------------------------------------------------------------------
(* Sequences.                                                               *)

LEMMA Least == ASSUME NEW S, S \subseteq Nat, S # {} PROVE \E m \in S : \A n \in S : m <= n
<1> DEFINE R == OpToRel(<, Nat)
<1>1. IsWellFoundedOn(R, Nat)
  BY NatLessThanWellFounded
<1>2. \A x, y \in Nat : x < y => <<x, y>> \in R
  BY DEF OpToRel
<1> HIDE DEF R
<1>3. PICK m \in S : \A n \in S : <<n, m>> \notin R
  BY <1>1, WFMin
<1>4. \A n \in S : ~ (n < m)
  BY <1>2, <1>3, Zenon
<1>5. m \in Nat
  BY <1>3
<1> QED
  BY <1>3, <1>4, <1>5

LEMMA ListedIs == ASSUME NEW s, NEW n \in Nat, s = [i \in 1 .. n |-> s[i]] PROVE Listed(s) /\ Len(s) = n /\ DOMAIN s = 1 .. n
<1> DEFINE S == {s[i] : i \in 1 .. n}
<1>1. \A i \in 1 .. n : s[i] \in S
  OBVIOUS
<1> HIDE DEF S
<1>2. s \in [1 .. n -> S]
  BY <1>1
<1>3. s \in Seq(S)
  BY <1>2
<1>4. Len(s) = n
  BY <1>2, <1>3
<1> QED
  BY <1>2, <1>4 DEF Listed

LEMMA AppendIs ==
  ASSUME NEW s, Listed(s), NEW x
  PROVE  /\ Listed(Append(s, x)) /\ DOMAIN s = 1 .. Len(s) /\ DOMAIN Append(s, x) = 1 .. Len(s) + 1
         /\ \A i \in DOMAIN s : Append(s, x)[i] = s[i]
         /\ Append(s, x)[Len(s) + 1] = x
<1> DEFINE S == {s[i] : i \in 1 .. Len(s)} \cup {x}
<1>1. Len(s) \in Nat /\ s = [i \in 1 .. Len(s) |-> s[i]]
  BY DEF Listed
<1>2. x \in S /\ \A i \in 1 .. Len(s) : s[i] \in S
  OBVIOUS
<1> HIDE DEF S
<1>3. s \in [1 .. Len(s) -> S]
  BY <1>1, <1>2
<1>4. s \in Seq(S)
  BY <1>1, <1>3
<1> DEFINE t == Append(s, x)
<1>5. t \in Seq(S) /\ Len(t) = Len(s) + 1 /\ (\A i \in 1 .. Len(s) : t[i] = s[i]) /\ t[Len(s) + 1] = x
  BY <1>2, <1>4
<1> HIDE DEF t
<1>6. t \in [1 .. Len(t) -> S] /\ Len(t) \in Nat
  BY <1>5
<1>7. t = [i \in 1 .. Len(t) |-> t[i]] /\ DOMAIN t = 1 .. Len(t)
  BY <1>6
<1>8. DOMAIN s = 1 .. Len(s)
  BY <1>3
<1>9. Listed(t)
  BY <1>6, <1>7 DEF Listed
<1> QED
  BY <1>5, <1>7, <1>8, <1>9 DEF t

LEMMA ConcatEmpty == ASSUME NEW t, Listed(t) PROVE <<>> \o t = t
<1> DEFINE S == {t[i] : i \in 1 .. Len(t)}
<1>1. Len(t) \in Nat /\ t = [i \in 1 .. Len(t) |-> t[i]]
  BY DEF Listed
<1>2. \A i \in 1 .. Len(t) : t[i] \in S
  OBVIOUS
<1> HIDE DEF S
<1>3. t \in [1 .. Len(t) -> S]
  BY <1>1, <1>2
<1>4. t \in Seq(S)
  BY <1>1, <1>3
<1> QED
  BY <1>4

-----------------------------------------------------------------------------
(* The members of a sequence at some of its places.                        *)

LEMMA PlacesUpToIs ==
  ASSUME NEW L \in Nat, NEW S \in SUBSET (1 .. L)
  PROVE  /\ PlacesUpTo(S, 0) = 0
         /\ \A i \in 0 .. L : PlacesUpTo(S, i) \in Nat
         /\ \A i \in 1 .. L : PlacesUpTo(S, i) = IF i \in S THEN PlacesUpTo(S, i - 1) + 1 ELSE PlacesUpTo(S, i - 1)
<1> DEFINE U(i) == S \cap 1 .. i
<1>1. \A i \in Nat : IsFiniteSet(U(i)) /\ Cardinality(U(i)) \in Nat
  <2> SUFFICES ASSUME NEW i \in Nat PROVE IsFiniteSet(U(i)) /\ Cardinality(U(i)) \in Nat
    OBVIOUS
  <2>1. IsFiniteSet(1 .. i)
    BY FS_Interval
  <2>2. U(i) \in SUBSET (1 .. i)
    OBVIOUS
  <2> HIDE DEF U
  <2>3. IsFiniteSet(U(i))
    BY <2>1, <2>2, FS_Subset
  <2> QED
    BY <2>3, FS_CardinalityType
<1>2. PlacesUpTo(S, 0) = 0
  <2>1. U(0) = {}
    OBVIOUS
  <2> QED
    BY <2>1, FS_EmptySet DEF PlacesUpTo
<1>3. ASSUME NEW i \in 1 .. L
      PROVE  PlacesUpTo(S, i) = IF i \in S THEN PlacesUpTo(S, i - 1) + 1 ELSE PlacesUpTo(S, i - 1)
  <2>1. i - 1 \in Nat /\ i \notin U(i - 1)
    OBVIOUS
  <2>2. U(i) = IF i \in S THEN U(i - 1) \cup {i} ELSE U(i - 1)
    OBVIOUS
  <2>3. PlacesUpTo(S, i) = Cardinality(U(i)) /\ PlacesUpTo(S, i - 1) = Cardinality(U(i - 1))
    BY DEF PlacesUpTo
  <2> HIDE DEF U
  <2>4. Cardinality(U(i - 1) \cup {i}) = Cardinality(U(i - 1)) + 1
    BY <2>1, <1>1, FS_AddElement
  <2> QED
    BY <2>2, <2>3, <2>4
<1>4. \A i \in 0 .. L : PlacesUpTo(S, i) \in Nat
  BY <1>1 DEF PlacesUpTo
<1> QED
  BY <1>2, <1>3, <1>4

\* There is an n-th one.
LEMMA Nth ==
  ASSUME NEW L \in Nat, NEW S \in SUBSET (1 .. L), NEW n \in 1 .. PlacesUpTo(S, L)
  PROVE  \E i \in S : PlacesUpTo(S, i) = n
<1>0. /\ PlacesUpTo(S, 0) = 0
      /\ \A i \in 0 .. L : PlacesUpTo(S, i) \in Nat
      /\ \A i \in 1 .. L : PlacesUpTo(S, i) = IF i \in S THEN PlacesUpTo(S, i - 1) + 1 ELSE PlacesUpTo(S, i - 1)
  BY PlacesUpToIs
<1>1. n \in Nat \ {0} /\ PlacesUpTo(S, 0) = 0 /\ PlacesUpTo(S, L) \in Nat /\ n <= PlacesUpTo(S, L)
  <2>1. L \in 0 .. L
    OBVIOUS
  <2> QED
    BY <2>1, <1>0
<1> DEFINE T == {i \in 0 .. L : PlacesUpTo(S, i) >= n}
<1>2. T \subseteq Nat /\ L \in T
  BY <1>1
<1>3. PICK m \in T : \A i \in T : m <= i
  BY <1>2, Least
<1>4. m \in 1 .. L
  BY <1>1, <1>3
<1>5. m - 1 \in 0 .. L /\ m - 1 \notin T
  BY <1>1, <1>3, <1>4
<1>6. PlacesUpTo(S, m - 1) \in Nat /\ PlacesUpTo(S, m - 1) < n /\ PlacesUpTo(S, m) >= n
  BY <1>1, <1>3, <1>5, <1>0
<1>7. PlacesUpTo(S, m) = IF m \in S THEN PlacesUpTo(S, m - 1) + 1 ELSE PlacesUpTo(S, m - 1)
  BY <1>4, <1>0
<1>8. m \in S /\ PlacesUpTo(S, m) = n
  BY <1>1, <1>6, <1>7
<1> QED
  BY <1>8

\* What is picked comes from the places named, and from none of them twice.
LEMMA PickedIs ==
  ASSUME NEW s, Listed(s), NEW S \in SUBSET (DOMAIN s)
  PROVE  /\ Listed(Picked(s, S))
         /\ \E at : /\ \A n \in DOMAIN Picked(s, S) : at[n] \in S /\ Picked(s, S)[n] = s[at[n]]
                    /\ \A n, m \in DOMAIN Picked(s, S) : at[n] = at[m] => n = m
<1>1. Len(s) \in Nat /\ DOMAIN s = 1 .. Len(s)
  BY ListedIs DEF Listed
<1> DEFINE N == PlacesUpTo(S, Len(s))
           c(n) == CHOOSE i \in S : PlacesUpTo(S, i) = n
           at == [n \in 1 .. N |-> c(n)]
           p == Picked(s, S)
<1>2. N \in Nat
  <2>1. Len(s) \in 0 .. Len(s) /\ S \in SUBSET (1 .. Len(s))
    BY <1>1
  <2> QED
    BY <1>1, <2>1, PlacesUpToIs
<1>3. p = [n \in 1 .. N |-> s[c(n)]]
  BY DEF Picked
<1>4. \A n \in 1 .. N : c(n) \in S /\ PlacesUpTo(S, c(n)) = n
  BY <1>1, Nth
<1> HIDE DEF N, c, p
<1>5. p = [n \in 1 .. N |-> p[n]] /\ DOMAIN p = 1 .. N
  BY <1>3
<1>6. Listed(p)
  BY <1>2, <1>5, ListedIs
<1>7. \A n \in 1 .. N : at[n] \in S /\ p[n] = s[at[n]] /\ PlacesUpTo(S, at[n]) = n
  BY <1>3, <1>4
<1> HIDE DEF at
<1>8. /\ \A n \in DOMAIN p : at[n] \in S /\ p[n] = s[at[n]]
      /\ \A n, m \in DOMAIN p : at[n] = at[m] => n = m
  BY <1>5, <1>7
<1> QED
  BY <1>6, <1>8 DEF p

LEMMA UsedIs ==
  ASSUME NEW h, Listed(h)
  PROVE  /\ Listed(Used(h))
         /\ \A n \in DOMAIN Used(h) : \E i \in DOMAIN h : Used(h)[n] = h[i]
<1> DEFINE S == {i \in DOMAIN h : h[i].used}
<1>1. S \in SUBSET (DOMAIN h) /\ Used(h) = Picked(h, S)
  BY DEF Used
<1> HIDE DEF S
<1>2. Listed(Picked(h, S)) /\ \A n \in DOMAIN Picked(h, S) : \E i \in S : Picked(h, S)[n] = h[i]
  BY <1>1, PickedIs
<1> QED
  BY <1>1, <1>2

LEMMA LinesOfIs == ASSUME NEW h, Listed(h) PROVE Listed(LinesOf(h)) /\ DOMAIN LinesOf(h) = DOMAIN h /\ \A i \in DOMAIN h : LinesOf(h)[i] = h[i].line
<1>1. Len(h) \in Nat /\ DOMAIN h = 1 .. Len(h)
  BY ListedIs DEF Listed
<1>2. LinesOf(h) = [i \in 1 .. Len(h) |-> h[i].line]
  BY <1>1 DEF LinesOf
<1> DEFINE l == LinesOf(h)
<1>3. l = [i \in 1 .. Len(h) |-> l[i]]
  BY <1>2
<1>4. Listed(l)
  <2> HIDE DEF l
  <2> QED BY <1>1, <1>3, ListedIs
<1> QED
  BY <1>1, <1>2, <1>4

Hash(h) == Listed(h) /\ \A i \in DOMAIN h : IsObject(h[i])

LEMMA HashUsed ==
  ASSUME NEW h, Hash(h)
  PROVE  /\ Hash(Used(h))
         /\ Listed(LinesOf(Used(h))) /\ \A i \in DOMAIN LinesOf(Used(h)) : IsLine(LinesOf(Used(h))[i])
BY UsedIs, LinesOfIs DEF Hash, IsObject

\* What is found for a line is the object of that line.
LEMMA OfIs == ASSUME NEW h, Listed(h), NEW line, Has(h, line) PROVE \E i \in DOMAIN h : Of(h, line) = h[i] /\ h[i].line = line
<1> DEFINE S == {i \in DOMAIN h : h[i].line = line}
<1>1. Len(h) \in Nat /\ DOMAIN h = 1 .. Len(h)
  BY ListedIs DEF Listed
<1>2. S \subseteq Nat /\ S # {}
  BY <1>1 DEF Has
<1>3. PICK m \in S : \A j \in S : m <= j
  BY <1>2, Least
<1>4. \A j \in 1 .. m - 1 : h[j].line # line
  BY <1>1, <1>3
<1> QED
  BY <1>1, <1>3, <1>4 DEF Of

\* An object that is looked up is there then, and the others keep their sizes.
LEMMA UseIs ==
  ASSUME NEW h, Hash(h), NEW line, IsLine(line)
  PROVE  LET g == Use(h, line) IN
         /\ Hash(g)
         /\ \A i \in DOMAIN g :
              \/ i \in DOMAIN h /\ g[i].line = h[i].line /\ g[i].dims = h[i].dims
              \/ ~Has(h, line) /\ g[i].dims = NoDims
         /\ \E i \in DOMAIN g : Of(g, line) = g[i] /\ g[i].line = line
<1> DEFINE g == Use(h, line)
           new == [line |-> line, dims |-> NoDims, used |-> TRUE]
<1>1. Len(h) \in Nat /\ DOMAIN h = 1 .. Len(h)
  BY ListedIs DEF Listed, Hash
<1>2. CASE Has(h, line)
  <2> DEFINE e(i) == IF h[i] = Of(h, line) THEN [h[i] EXCEPT !.used = TRUE] ELSE h[i]
  <2>1. g = [i \in 1 .. Len(h) |-> e(i)]
    BY <1>1, <1>2 DEF Use
  <2>2. \A i \in 1 .. Len(h) : IsObject(e(i)) /\ e(i).line = h[i].line /\ e(i).dims = h[i].dims
    <3> SUFFICES ASSUME NEW i \in 1 .. Len(h) PROVE IsObject(e(i)) /\ e(i).line = h[i].line /\ e(i).dims = h[i].dims
      OBVIOUS
    <3> DEFINE u == [line |-> h[i].line, dims |-> h[i].dims, used |-> TRUE]
    <3>1. h[i] = [line |-> h[i].line, dims |-> h[i].dims, used |-> h[i].used] /\ IsLine(h[i].line)
      BY <1>1 DEF Hash, IsObject
    <3>2. [h[i] EXCEPT !.used = TRUE] = u
      <4>1. PICK l, d, w : h[i] = [line |-> l, dims |-> d, used |-> w]
        BY <3>1
      <4>2. \A v : [[line |-> l, dims |-> d, used |-> w] EXCEPT !.used = v] = [line |-> l, dims |-> d, used |-> v]
        OBVIOUS
      <4>3. h[i].line = l /\ h[i].dims = d
        BY <4>1
      <4> DEFINE v == TRUE
      <4>4. [[line |-> l, dims |-> d, used |-> w] EXCEPT !.used = v] = [line |-> l, dims |-> d, used |-> v]
        <5> HIDE DEF v
        <5> QED BY <4>2
      <4> QED
        BY <4>1, <4>3, <4>4
    <3>3. IsObject(u) /\ u.line = h[i].line /\ u.dims = h[i].dims
      BY <3>1 DEF IsObject
    <3> HIDE DEF u
    <3>4. e(i) = u \/ e(i) = h[i]
      BY <3>2
    <3> QED
      BY <3>1, <3>3, <3>4 DEF IsObject
  <2> HIDE DEF g, e
  <2>3. DOMAIN g = 1 .. Len(h) /\ g = [i \in 1 .. Len(h) |-> g[i]] /\ \A i \in 1 .. Len(h) : g[i] = e(i)
    BY <2>1
  <2>4. Listed(g)
    BY <1>1, <2>3, ListedIs
  <2>5. Has(g, line)
    BY <1>1, <1>2, <2>2, <2>3 DEF Has
  <2>6. \E i \in DOMAIN g : Of(g, line) = g[i] /\ g[i].line = line
    BY <2>4, <2>5, OfIs
  <2>7. Hash(g) /\ \A i \in DOMAIN g : i \in DOMAIN h /\ g[i].line = h[i].line /\ g[i].dims = h[i].dims
    BY <1>1, <2>2, <2>3, <2>4 DEF Hash
  <2> QED
    BY <2>6, <2>7 DEF g
<1>3. CASE ~Has(h, line)
  <2>1. g = Append(h, new)
    BY <1>3 DEF Use
  <2>2. IsObject(new) /\ new.line = line /\ new.dims = NoDims
    BY DEF IsObject
  <2> HIDE DEF g, new
  <2>3. Listed(g) /\ DOMAIN g = 1 .. Len(h) + 1 /\ (\A i \in DOMAIN h : g[i] = h[i]) /\ g[Len(h) + 1] = new
    BY <2>1, AppendIs DEF Hash
  <2>4. \A i \in DOMAIN g : i \in DOMAIN h \/ i = Len(h) + 1
    BY <1>1, <2>3
  <2>5. Hash(g)
    BY <2>2, <2>3, <2>4 DEF Hash
  <2>6. Len(h) + 1 \in DOMAIN g
    BY <1>1, <2>3
  <2>7. Has(g, line)
    BY <2>2, <2>3, <2>6 DEF Has
  <2>8. \E i \in DOMAIN g : Of(g, line) = g[i] /\ g[i].line = line
    BY <2>3, <2>7, OfIs
  <2> QED
    BY <1>3, <2>2, <2>3, <2>4, <2>5, <2>8 DEF g
<1> QED
  BY <1>2, <1>3

LEMMA LoadLinesIs ==
  ASSUME NEW ls, Listed(ls), \A i \in DOMAIN ls : IsLine(ls[i])
  PROVE  /\ Hash(LoadTeXLines(ls)) /\ DOMAIN LoadTeXLines(ls) = DOMAIN ls
         /\ \A i \in DOMAIN ls : LoadTeXLines(ls)[i].line = ls[i]
<1> DEFINE h == LoadTeXLines(ls)
           e(i) == [line |-> ls[i], dims |-> NoDims, used |-> FALSE]
<1>1. Len(ls) \in Nat /\ DOMAIN ls = 1 .. Len(ls)
  BY ListedIs DEF Listed
<1>2. h = [i \in 1 .. Len(ls) |-> e(i)]
  BY <1>1 DEF LoadTeXLines
<1>3. \A i \in 1 .. Len(ls) : IsObject(e(i)) /\ e(i).line = ls[i]
  BY <1>1 DEF IsObject
<1> HIDE DEF h, e
<1>4. DOMAIN h = 1 .. Len(ls) /\ h = [i \in 1 .. Len(ls) |-> h[i]] /\ \A i \in 1 .. Len(ls) : h[i] = e(i)
  BY <1>2
<1>5. Listed(h)
  BY <1>1, <1>4, ListedIs
<1> QED
  BY <1>1, <1>3, <1>4, <1>5 DEF Hash, h

\* When the pages are those of the lines of the hash, every object gets its own size.
LEMMA LoadPSIs ==
  ASSUME NEW h, Hash(h), NEW pages
  PROVE  /\ Hash(LoadTeXPS(h, pages)) /\ DOMAIN LoadTeXPS(h, pages) = DOMAIN h
         /\ pages.lines = LinesOf(h) =>
              \A i \in DOMAIN h : LET o == LoadTeXPS(h, pages)[i] IN o.dims = [pre |-> pages.pre, line |-> o.line] /\ IsLine(o.line)
<1> DEFINE g == LoadTeXPS(h, pages)
           e(i) == IF i \in DOMAIN pages.lines
                   THEN [h[i] EXCEPT !.dims = [pre |-> pages.pre, line |-> pages.lines[i]]] ELSE h[i]
<1>1. Len(h) \in Nat /\ DOMAIN h = 1 .. Len(h)
  BY ListedIs DEF Listed, Hash
<1>2. g = [i \in 1 .. Len(h) |-> e(i)]
  BY <1>1 DEF LoadTeXPS
<1>3. \A i \in 1 .. Len(h) : IsObject(e(i)) /\ e(i).line = h[i].line
  BY <1>1 DEF Hash, IsObject
<1>4. ASSUME pages.lines = LinesOf(h), NEW i \in 1 .. Len(h) PROVE e(i).dims = [pre |-> pages.pre, line |-> h[i].line]
  <2>1. i \in DOMAIN pages.lines /\ pages.lines[i] = h[i].line
    BY <1>1, <1>4, LinesOfIs DEF Hash
  <2> QED
    BY <2>1, <1>1 DEF Hash, IsObject
<1> HIDE DEF g, e
<1>5. DOMAIN g = 1 .. Len(h) /\ g = [i \in 1 .. Len(h) |-> g[i]] /\ \A i \in 1 .. Len(h) : g[i] = e(i)
  BY <1>2
<1>6. Listed(g)
  BY <1>1, <1>5, ListedIs
<1>7. Hash(g)
  BY <1>3, <1>5, <1>6 DEF Hash
<1>8. ASSUME pages.lines = LinesOf(h), NEW i \in DOMAIN h PROVE g[i].dims = [pre |-> pages.pre, line |-> g[i].line] /\ IsLine(g[i].line)
  BY <1>1, <1>3, <1>4, <1>5, <1>8 DEF IsObject
<1> QED
  BY <1>1, <1>5, <1>7, <1>8 DEF g

-----------------------------------------------------------------------------
(* The steps.                                                               *)

LEMMA EmptyListed == Listed(<<>>) /\ DOMAIN <<>> = {} /\ Len(<<>>) = 0
BY ListedIs DEF Listed

LEMMA UsedEmpty == Used(<<>>) = <<>>
<1> DEFINE S == {i \in DOMAIN <<>> : <<>>[i].used}
<1>1. S = {} /\ S \in SUBSET (1 .. 0)
  BY EmptyListed
<1>2. Used(<<>>) = Picked(<<>>, S)
  BY DEF Used
<1> HIDE DEF S
<1>3. PlacesUpTo(S, Len(<<>>)) = 0
  BY <1>1, EmptyListed, PlacesUpToIs
<1>4. 1 .. PlacesUpTo(S, Len(<<>>)) = {}
  BY <1>3
<1>5. Picked(<<>>, S) = <<>>
  <2> DEFINE c(n) == <<>>[CHOOSE i \in S : PlacesUpTo(S, i) = n]
  <2>1. Picked(<<>>, S) = [n \in 1 .. PlacesUpTo(S, Len(<<>>)) |-> c(n)]
    BY DEF Picked
  <2> HIDE DEF c
  <2>2. Picked(<<>>, S) = [n \in {} |-> c(n)]
    BY <2>1, <1>4
  <2> QED
    BY <2>2
<1> QED
  BY <1>2, <1>5

LEMMA TInit == ASSUME Init PROVE IInv
<1>1. Shapes
  BY EmptyListed DEF Init, Shapes
<1>2. Matched /\ Together
  BY DEF Init, Matched, Together, NoPages
<1> QED
  BY <1>1, <1>2 DEF IInv

\* A step that touches neither the hash nor the pages.
LEMMA Elsewhere ==
  ASSUME IInv, UNCHANGED <<pc, script, memory, texlines, ps, measured>>, faults' \in Nat, faults <= faults'
  PROVE  IInv'
<1>1. faults' = 0 => faults = 0
  BY DEF IInv, Shapes
<1>2. UNCHANGED <<hash, objects, loaded, modified>>
  BY DEF memory
<1>3. Shapes'
  BY <1>2 DEF IInv, Shapes
<1>4. Matched'
  BY <1>1, <1>2 DEF IInv, Matched, OnReset, OnDraw, Own, Pages
<1>5. Together'
  BY <1>1, <1>2 DEF IInv, Together
<1> QED
  BY <1>3, <1>4, <1>5 DEF IInv

LEMMA TRun == ASSUME IInv, Run PROVE IInv'
<1>1. /\ pc \in Ended /\ pc' = "reset" /\ hash' = <<>> /\ loaded' = "none" /\ measured' = FALSE
      /\ UNCHANGED <<texlines, ps, faults>>
  BY DEF Run, files
<1>2. Shapes'
  BY <1>1, EmptyListed DEF IInv, Shapes
<1>3. faults = 0 => ps.lines = texlines
  BY <1>1 DEF IInv, Together, Ended
<1>4. Matched' /\ Together'
  BY <1>1, <1>3 DEF Matched, Together, OnReset
<1> QED
  BY <1>2, <1>4 DEF IInv

LEMMA TReset == ASSUME IInv, Reset PROVE IInv'
<1>1. /\ pc = "reset" /\ pc' = "draw" /\ hash' = Used(hash) /\ objects' = {}
      /\ UNCHANGED <<script, loaded, texlines, ps, measured, faults>>
  BY DEF Reset, files
<1>2. Shapes'
  BY <1>1, HashUsed, UsedEmpty DEF IInv, Shapes, Hash
<1>3. faults = 0 \/ measured => OnReset
  BY <1>1 DEF IInv, Matched
<1>4. OnReset => OnDraw'
  BY <1>1 DEF OnReset, OnDraw, Pages
<1>5. Matched'
  BY <1>1, <1>3, <1>4 DEF Matched
<1>6. Together'
  BY <1>1 DEF IInv, Together
<1> QED
  BY <1>2, <1>5, <1>6 DEF IInv

LEMMA TSizes == ASSUME IInv, CheckTeXFontSizes PROVE IInv'
<1>1. UNCHANGED <<pc, script, memory, texlines, ps, measured>> /\ (faults' = faults \/ faults' = faults + 1) /\ faults \in Nat
  BY DEF CheckTeXFontSizes, IInv, Shapes
<1> QED
  BY <1>1, Elsewhere

\* What tryLoadHash gives.
LEMMA LoadedIs ==
  ASSUME IInv, pc = "draw"
  PROVE  /\ Hash(Loaded)
         /\ OnDraw =>
              \A i \in DOMAIN Loaded : Own(Loaded[i]) \/ (Loaded[i].dims = NoDims /\ loaded = "full" /\ modified)
<1> DEFINE h == IF loaded = "none" THEN hash \o LoadTeXLines(texlines) ELSE hash
<1>1. Hash(hash) /\ Hash(LoadTeXLines(texlines)) /\ Listed(texlines)
  BY LoadLinesIs DEF IInv, Shapes, Hash
<1>2. CASE loaded = "full"
  BY <1>1, <1>2 DEF Loaded, OnDraw
<1>3. CASE loaded # "full"
  <2>1. Loaded = LoadTeXPS(h, ps)
    BY <1>3 DEF Loaded
  <2>2. CASE loaded = "none"
    <3>1. h = LoadTeXLines(texlines)
      BY <2>2, <1>1, ConcatEmpty DEF IInv, Shapes, Hash
    <3>2. LinesOf(h) = texlines
      <4>1. Hash(h) /\ DOMAIN h = DOMAIN texlines /\ \A i \in DOMAIN texlines : h[i].line = texlines[i]
        BY <3>1, LoadLinesIs DEF IInv, Shapes
      <4>2. LinesOf(h) = [i \in DOMAIN texlines |-> texlines[i]]
        BY <4>1 DEF LinesOf
      <4>3. texlines = [i \in DOMAIN texlines |-> texlines[i]]
        BY <1>1, ListedIs DEF Listed
      <4> QED
        BY <4>2, <4>3
    <3>3. OnDraw => ps.lines = LinesOf(h) /\ ~measured
      BY <2>2, <3>2 DEF OnDraw
    <3> HIDE DEF h
    <3>4. Hash(LoadTeXPS(h, ps)) /\ DOMAIN LoadTeXPS(h, ps) = DOMAIN h
      BY <1>1, <3>1, LoadPSIs
    <3>5. ASSUME OnDraw, NEW i \in DOMAIN h PROVE Own(LoadTeXPS(h, ps)[i])
      <4>1. LoadTeXPS(h, ps)[i].dims = [pre |-> ps.pre, line |-> LoadTeXPS(h, ps)[i].line] /\ IsLine(LoadTeXPS(h, ps)[i].line)
        BY <1>1, <3>1, <3>3, <3>5, LoadPSIs
      <4> QED
        BY <4>1, <3>3, <3>5 DEF Own
    <3> QED
      BY <2>1, <3>4, <3>5
  <2>3. CASE loaded # "none"
    <3>1. Loaded = LoadTeXPS(hash, ps)
      BY <2>1, <2>3
    <3>2. OnDraw => Pages(LinesOf(hash))
      BY <1>3, <2>3 DEF OnDraw
    <3>3. Hash(LoadTeXPS(hash, ps)) /\ DOMAIN LoadTeXPS(hash, ps) = DOMAIN hash
      BY <1>1, LoadPSIs
    <3>4. ASSUME OnDraw, NEW i \in DOMAIN hash PROVE Own(LoadTeXPS(hash, ps)[i])
      <4>1. LoadTeXPS(hash, ps)[i].dims = [pre |-> ps.pre, line |-> LoadTeXPS(hash, ps)[i].line] /\ IsLine(LoadTeXPS(hash, ps)[i].line)
        BY <1>1, <3>2, <3>4, LoadPSIs DEF Pages
      <4> QED
        BY <4>1, <3>2, <3>4 DEF Own, Pages
    <3> QED
      BY <3>1, <3>3, <3>4
  <2> QED
    BY <2>2, <2>3
<1> QED
  BY <1>2, <1>3

LEMMA TDraw == ASSUME IInv, Draw PROVE IInv'
<1> DEFINE d == Drawing[drawn + 1]
           line == LineOf(d)
           o == [line |-> line, dims |-> (Of(hash', line)).dims]
<1>1. /\ pc = "draw" /\ hash' = Use(Loaded, line) /\ loaded' = "full"
      /\ modified' = ((loaded = "full" /\ modified) \/ ~Has(Loaded, line))
      /\ objects' \in {objects, objects \cup {o}}
      /\ UNCHANGED <<pc, script, texlines, ps, measured, faults>>
  BY DEF Draw, InPass, files
<1>2. IsLine(line)
  BY DEF LineOf, IsLine
<1> HIDE DEF d, line
<1>3. Hash(Loaded)
  BY <1>1, LoadedIs
<1>4. /\ Hash(hash')
      /\ \A i \in DOMAIN hash' :
           \/ i \in DOMAIN Loaded /\ hash'[i].line = Loaded[i].line /\ hash'[i].dims = Loaded[i].dims
           \/ ~Has(Loaded, line) /\ hash'[i].dims = NoDims
      /\ \E i \in DOMAIN hash' : Of(hash', line) = hash'[i] /\ hash'[i].line = line
  BY <1>1, <1>2, <1>3, UseIs
<1>5. Shapes'
  BY <1>1, <1>4 DEF IInv, Shapes, Hash
<1>6. Together'
  BY <1>1 DEF IInv, Together
<1>7. ASSUME OnDraw PROVE OnDraw'
  <2>1. \A i \in DOMAIN Loaded : Own(Loaded[i]) \/ (Loaded[i].dims = NoDims /\ loaded = "full" /\ modified)
    BY <1>1, <1>7, LoadedIs
  <2>2. \A i \in DOMAIN hash' : Own(hash'[i]) \/ (hash'[i].dims = NoDims /\ modified')
    <3> SUFFICES ASSUME NEW i \in DOMAIN hash' PROVE Own(hash'[i]) \/ (hash'[i].dims = NoDims /\ modified')
      OBVIOUS
    <3>1. CASE i \in DOMAIN Loaded /\ hash'[i].line = Loaded[i].line /\ hash'[i].dims = Loaded[i].dims
      <4>1. CASE Own(Loaded[i])
        BY <3>1, <4>1 DEF Own
      <4>2. CASE Loaded[i].dims = NoDims /\ loaded = "full" /\ modified
        BY <3>1, <4>2, <1>1
      <4> QED
        BY <3>1, <4>1, <4>2, <2>1
    <3>2. CASE ~Has(Loaded, line) /\ hash'[i].dims = NoDims
      BY <3>2, <1>1
    <3> QED
      BY <3>1, <3>2, <1>4
  <2>3. modified' \/ \A x \in objects : Own(x)
    BY <1>1, <1>7 DEF OnDraw
  <2>4. modified' \/ Own(o)
    <3>1. PICK i \in DOMAIN hash' : Of(hash', line) = hash'[i] /\ hash'[i].line = line
      BY <1>4
    <3>2. o.line = hash'[i].line /\ o.dims = hash'[i].dims
      BY <3>1
    <3> HIDE DEF o
    <3>3. CASE modified'
      BY <3>3
    <3>4. CASE Own(hash'[i])
      BY <3>2, <3>4 DEF Own
    <3> QED
      BY <3>3, <3>4, <2>2
  <2> HIDE DEF o
  <2>5. modified' \/ \A x \in objects' : Own(x)
    BY <2>3, <2>4, <1>1
  <2>6. \A i \in DOMAIN hash' : Own(hash[i])' \/ (hash'[i].dims = NoDims /\ modified')
    BY <2>2, <1>1 DEF Own
  <2>7. modified' \/ \A x \in objects' : Own(x)'
    BY <2>5, <1>1 DEF Own
  <2> QED
    BY <2>6, <2>7, <1>1 DEF OnDraw
<1>8. Matched'
  BY <1>1, <1>7 DEF IInv, Matched
<1> QED
  BY <1>5, <1>6, <1>8 DEF IInv

LEMMA TDrawError == ASSUME IInv, DrawError PROVE IInv'
<1>1. pc = "draw" /\ pc' = "failed" /\ UNCHANGED <<script, hash, texlines, ps, measured, faults>>
  BY DEF DrawError, memory, files
<1>2. Shapes' /\ Matched' /\ Together'
  BY <1>1 DEF IInv, Shapes, Matched, Together
<1> QED
  BY <1>2 DEF IInv

LEMMA TCreateHash == ASSUME IInv, TryCreateHash PROVE IInv'
<1>1. pc = "draw" /\ UNCHANGED <<script, hash, objects, modified, ps, measured, faults>>
  BY DEF TryCreateHash, EndPass, memory
<1>2. CASE modified /\ objects # {}
  <2>1. pc' = "latex" /\ texlines' = LinesOf(Used(hash))
    BY <1>2 DEF TryCreateHash
  <2>2. Shapes' /\ Matched' /\ Together'
    BY <1>1, <2>1, HashUsed DEF IInv, Shapes, Hash, Matched, Together
  <2> QED
    BY <2>2 DEF IInv
<1>3. CASE ~(modified /\ objects # {})
  <2>1. pc' = "done" /\ UNCHANGED texlines
    BY <1>3 DEF TryCreateHash
  <2>2. Shapes' /\ Together'
    BY <1>1, <2>1 DEF IInv, Shapes, Together
  <2>3. OnDraw => \A o \in objects : Own(o)'
    BY <1>1, <1>3 DEF OnDraw, Own
  <2>4. Matched'
    BY <1>1, <2>1, <2>3 DEF IInv, Matched
  <2> QED
    BY <2>2, <2>4 DEF IInv
<1> QED
  BY <1>2, <1>3

LEMMA TLatex == ASSUME IInv, Latex PROVE IInv'
<1>1. /\ pc = "latex" /\ UNCHANGED <<script, hash, texlines, ps, measured>>
      /\ \/ pc' = "dvips" /\ faults' = faults
         \/ pc' = "failed" /\ faults' = faults + 1
  BY DEF Latex, memory, files
<1>2. Shapes' /\ Matched' /\ Together'
  BY <1>1 DEF IInv, Shapes, Matched, Together
<1> QED
  BY <1>2 DEF IInv

\* The pages are made of the objects that the next pass starts with.
LEMMA TDvips == ASSUME IInv, Dvips PROVE IInv'
<1>1. /\ pc = "dvips" /\ UNCHANGED <<script, hash, texlines>>
      /\ \/ /\ ps' = [pre |-> script.pre, lines |-> LinesOf(Used(hash))]
            /\ loaded' = "partial" /\ measured' = TRUE /\ pc' = "reset" /\ faults' = faults
         \/ pc' = "failed" /\ faults' = faults + 1 /\ measured' = measured
  BY DEF Dvips
<1>2. Shapes'
  <2>1. pc' \in {"reset", "draw"} => loaded' # "none"
    BY <1>1
  <2>2. measured' \in BOOLEAN
    <3>1. measured \in BOOLEAN
      BY DEF IInv, Shapes
    <3>2. measured' = TRUE \/ measured' = measured
      BY <1>1
    <3> QED
      BY <3>1, <3>2, Zenon
  <2>3. faults' \in Nat
    <3>1. faults \in Nat
      BY DEF IInv, Shapes
    <3>2. faults' = faults \/ faults' = faults + 1
      BY <1>1
    <3> QED
      BY <3>1, <3>2
  <2> QED
    BY <1>1, <2>1, <2>2, <2>3 DEF IInv, Shapes
<1>3. Matched'
  BY <1>1 DEF Matched, OnReset, Pages
<1>4. Together'
  BY <1>1 DEF IInv, Shapes, Together
<1> QED
  BY <1>2, <1>3, <1>4 DEF IInv

LEMMA TCrash == ASSUME IInv, Crash PROVE IInv'
<1>1. pc' = "off" /\ faults' = faults + 1 /\ UNCHANGED <<hash, texlines, measured>>
  BY DEF Crash, memory
<1>2. Shapes' /\ Matched' /\ Together'
  BY <1>1 DEF IInv, Shapes, Matched, Together
<1> QED
  BY <1>2 DEF IInv

LEMMA TStep == ASSUME IInv, [Next]_vars PROVE IInv'
<1>1. CASE UNCHANGED vars
  BY <1>1, Elsewhere DEF vars, files, IInv, Shapes
<1>2. CASE Next
  BY <1>2, TRun, TReset, TSizes, TDraw, TDrawError, TCreateHash, TLatex, TDvips, TCrash DEF Next, Step
<1> QED
  BY <1>1, <1>2

LEMMA AlwaysIInv == Spec => []IInv
<1>1. Init => IInv
  BY TInit
<1>2. IInv /\ [Next]_vars => IInv'
  BY TStep
<1> QED
  BY <1>1, <1>2, PTL DEF Spec

\* As long as nothing has failed, every text of a finished figure has been laid out
\* with the size of that text, whichever run has measured it.
THEOREM SizesAreOwn == Spec => []OwnDimensions
<1>1. IInv => OwnDimensions
  <2> SUFFICES ASSUME IInv, pc = "done", faults = 0, NEW o \in objects
               PROVE  o.dims # NoDims /\ (o.dims).line = o.line
    BY DEF OwnDimensions
  <2>1. o.dims = [pre |-> (o.dims).pre, line |-> o.line] /\ o.line # <<>>
    BY DEF IInv, Matched, Own, IsLine
  <2>2. (o.dims).line = o.line
    BY <2>1
  <2>3. NoDims.line = <<>>
    BY DEF NoDims
  <2> QED
    BY <2>1, <2>2, <2>3
<1> QED
  BY <1>1, AlwaysIInv, PTL

\* And a run that has measured its texts is right about all of them, whatever has
\* failed before.
THEOREM MeasuredAnew == Spec => []MeasuredInThisRun
<1>1. IInv => MeasuredInThisRun
  BY DEF IInv, Matched, Own, MeasuredInThisRun
<1> QED
  BY <1>1, AlwaysIInv, PTL

-----------------------------------------------------------------------------
(***************************************************************************)
(* Fonts.  The sizes kept for a preamble, in memory and in the file, are    *)
(* those measured under it; Chosen says so as long as nothing has failed.   *)
(***************************************************************************)
Asked == {r \in Infos : r.sizes \in {r.pre, Unknown}}
Saved == {r \in Infos : r.sizes = r.pre}
Chosen ==
  /\ infos \in Seq(Asked) /\ pinfo \in Seq(Saved)
  /\ \A o \in objects : o.line[2] = script.pre

LEMMA SeqIs == ASSUME NEW A, NEW s PROVE s \in Seq(A) <=> Listed(s) /\ \A i \in DOMAIN s : s[i] \in A
<1>1. ASSUME s \in Seq(A) PROVE Listed(s) /\ \A i \in DOMAIN s : s[i] \in A
  <2>1. Len(s) \in Nat /\ s = [i \in 1 .. Len(s) |-> s[i]] /\ DOMAIN s = 1 .. Len(s) /\ \A i \in 1 .. Len(s) : s[i] \in A
    BY <1>1
  <2> QED
    BY <2>1 DEF Listed
<1>2. ASSUME Listed(s), \A i \in DOMAIN s : s[i] \in A PROVE s \in Seq(A)
  <2>1. Len(s) \in Nat /\ s = [i \in 1 .. Len(s) |-> s[i]] /\ DOMAIN s = 1 .. Len(s)
    BY <1>2, ListedIs DEF Listed
  <2>2. s \in [1 .. Len(s) -> A]
    BY <1>2, <2>1
  <2> QED
    BY <2>1, <2>2
<1> QED
  BY <1>1, <1>2

LEMMA FindOrAddIs ==
  ASSUME NEW A, NEW is \in Seq(A), NEW p, [pre |-> p, sizes |-> Unknown] \in A
  PROVE  FindOrAdd(is, p) \in Seq(A)
BY DEF FindOrAdd

LEMMA SetSizesIs ==
  ASSUME NEW A \in SUBSET Infos, NEW is \in Seq(A), NEW p, NEW s, [pre |-> p, sizes |-> s] \in A
  PROVE  SetSizes(is, p, s) \in Seq(A)
<1> DEFINE e(i) == IF is[i].pre = p THEN [is[i] EXCEPT !.sizes = s] ELSE is[i]
<1>1. SetSizes(is, p, s) = [i \in 1 .. Len(is) |-> e(i)] /\ Len(is) \in Nat
  BY DEF SetSizes
<1>2. ASSUME NEW i \in 1 .. Len(is) PROVE e(i) \in A
  <2>1. is[i] \in A /\ is[i] \in [pre : Preambles, sizes : Sizes \cup {Unknown}]
    BY DEF Infos
  <2>2. is[i].pre = p => [is[i] EXCEPT !.sizes = s] = [pre |-> p, sizes |-> s]
    BY <2>1
  <2> QED
    BY <2>1, <2>2
<1> HIDE DEF e
<1> QED
  BY <1>1, <1>2

LEMMA SizesOfIs ==
  ASSUME NEW A, NEW is \in Seq(A), NEW p
  PROVE  SizesOf(is, p) = Unknown \/ \E r \in A : r.pre = p /\ SizesOf(is, p) = r.sizes
<1>1. CASE Known(is, p)
  <2>1. DOMAIN is = 1 .. Len(is) /\ \A i \in DOMAIN is : is[i] \in A
    OBVIOUS
  <2> QED
    BY <1>1, <2>1 DEF Known, SizesOf
<1>2. CASE ~Known(is, p)
  BY <1>2 DEF SizesOf
<1> QED
  BY <1>1, <1>2

LEMMA SaveInfosIs ==
  ASSUME NEW A, NEW is \in Seq(A)
  PROVE  SaveInfos(is) \in Seq({r \in A : r.sizes # Unknown})
<1> DEFINE S == {i \in DOMAIN is : is[i].sizes # Unknown}
<1>1. Listed(is) /\ \A i \in DOMAIN is : is[i] \in A
  BY SeqIs
<1>2. SaveInfos(is) = Picked(is, S) /\ S \in SUBSET (DOMAIN is) /\ \A i \in S : is[i] \in A /\ is[i].sizes # Unknown
  BY <1>1 DEF SaveInfos
<1> HIDE DEF S
<1>3. Listed(Picked(is, S)) /\ \A n \in DOMAIN Picked(is, S) : \E i \in S : Picked(is, S)[n] = is[i]
  BY <1>1, <1>2, PickedIs
<1> QED
  BY <1>2, <1>3, SeqIs

\* What is read into is, record by record.
LEMMA LoadInfosIs ==
  ASSUME NEW A \in SUBSET Infos, NEW B \in SUBSET Infos, NEW is \in Seq(A), NEW file \in Seq(B),
         \A r \in B : /\ [pre |-> r.pre, sizes |-> Unknown] \in A
                      /\ [pre |-> r.pre, sizes |-> IF r.sizes = None THEN Zero ELSE r.sizes] \in A
  PROVE  LoadInfos(is, file) \in Seq(A)
<1> DEFINE e(g, n) == IF n = 0 \/ (n > 1 /\ file[n - 1].sizes = None) THEN is
                      ELSE SetSizes(FindOrAdd(g[n - 1], file[n].pre), file[n].pre,
                                    IF file[n].sizes = None THEN Zero ELSE file[n].sizes)
           F == CHOOSE f : f = [n \in 0 .. Len(file) |-> e(f, n)]
           last == {n \in DOMAIN file : \A m \in 1 .. n - 1 : file[m].sizes # None}
<1>1. LoadInfos(is, file) = F[Cardinality(last)]
  BY DEF LoadInfos
<1>2. Len(file) \in Nat
  OBVIOUS
\* The records can be read up to the n-th.
<1> DEFINE There(n) == \E f : f = [i \in 0 .. n |-> e(f, i)]
<1>3. \A n \in 0 .. Len(file) : There(n)
  <2> DEFINE S == {n \in 0 .. Len(file) : ~There(n)}
  <2>1. SUFFICES ASSUME S # {} PROVE FALSE
    OBVIOUS
  <2>2. S \subseteq Nat
    BY <1>2
  <2>3. PICK m \in S : \A n \in S : m <= n
    BY <2>1, <2>2, Least
  <2>4. CASE m = 0
    <3> DEFINE f == [i \in 0 .. 0 |-> is]
    <3>1. \A i \in 0 .. 0 : e(f, i) = is
      OBVIOUS
    <3>2. f = [i \in 0 .. 0 |-> e(f, i)]
      BY <3>1
    <3> HIDE DEF f
    <3>3. There(0)
      BY <3>2
    <3> QED
      BY <2>3, <2>4, <3>3
  <2>5. CASE m # 0
    <3>1. m \in Nat /\ m - 1 \in 0 .. Len(file) /\ m - 1 \notin S
      BY <2>3, <2>5, <1>2
    <3>2. There(m - 1)
      BY <3>1
    <3>3. PICK g : g = [i \in 0 .. m - 1 |-> e(g, i)]
      BY <3>2
    <3> DEFINE f == [i \in 0 .. m |-> IF i = m THEN e(g, m) ELSE g[i]]
    <3>4. \A i \in 0 .. m : i > 0 => f[i - 1] = g[i - 1]
      BY <3>1
    <3>5. \A i \in 0 .. m - 1 : g[i] = e(g, i)
      BY <3>3
    <3>6. \A i \in 0 .. m : e(f, i) = e(g, i)
      BY <3>1, <3>4
    <3>7. \A i \in 0 .. m : (IF i = m THEN e(g, m) ELSE g[i]) = e(g, i)
      BY <3>1, <3>5
    <3>8. f = [i \in 0 .. m |-> e(g, i)]
      <4> HIDE DEF e
      <4> QED BY <3>7
    <3> HIDE DEF f
    <3>9. f = [i \in 0 .. m |-> e(f, i)]
      <4> HIDE DEF e
      <4> QED BY <3>6, <3>8
    <3>10. There(m)
      BY <3>9
    <3> QED
      BY <2>3, <3>10
  <2> QED
    BY <2>4, <2>5
<1>4. F = [n \in 0 .. Len(file) |-> e(F, n)]
  <2>1. Len(file) \in 0 .. Len(file)
    BY <1>2
  <2>2. There(Len(file))
    BY <1>3, <2>1
  <2> HIDE DEF e
  <2> QED
    BY <2>2
<1> HIDE DEF F
<1>5. \A n \in 0 .. Len(file) : F[n] \in Seq(A)
  <2> DEFINE S == {n \in 0 .. Len(file) : F[n] \notin Seq(A)}
  <2>1. SUFFICES ASSUME S # {} PROVE FALSE
    OBVIOUS
  <2>2. S \subseteq Nat
    BY <1>2
  <2>3. PICK m \in S : \A n \in S : m <= n
    BY <2>1, <2>2, Least
  <2>4. F[m] = e(F, m)
    <3> HIDE DEF e
    <3> QED BY <1>4, <2>3
  <2>5. e(F, m) # is
    BY <2>3, <2>4
  <2>6. m # 0
    BY <2>5
  <2>7. m \in 1 .. Len(file) /\ m - 1 \in 0 .. Len(file) /\ m - 1 \notin S
    BY <2>3, <2>6, <1>2
  <2>8. F[m - 1] \in Seq(A)
    BY <2>7
  <2> DEFINE r == file[m]
             z == IF r.sizes = None THEN Zero ELSE r.sizes
  <2>9. r \in B
    BY <2>7
  <2>10. e(F, m) = SetSizes(FindOrAdd(F[m - 1], r.pre), r.pre, z)
    BY <2>5
  <2>11. [pre |-> r.pre, sizes |-> Unknown] \in A /\ [pre |-> r.pre, sizes |-> z] \in A
    BY <2>9
  <2> HIDE DEF r, z, e
  <2>12. FindOrAdd(F[m - 1], r.pre) \in Seq(A)
    BY <2>8, <2>11, FindOrAddIs
  <2>13. SetSizes(FindOrAdd(F[m - 1], r.pre), r.pre, z) \in Seq(A)
    BY <2>11, <2>12, SetSizesIs
  <2> QED
    BY <2>3, <2>4, <2>10, <2>13
<1>6. Cardinality(last) \in 0 .. Len(file)
  <2>1. last \in SUBSET (1 .. Len(file))
    OBVIOUS
  <2> HIDE DEF last
  <2>2. IsFiniteSet(1 .. Len(file)) /\ Cardinality(1 .. Len(file)) = Len(file)
    <3> DEFINE L == Len(file)
    <3>1. L \in Nat
      BY <1>2
    <3> HIDE DEF L
    <3>2. IsFiniteSet(1 .. L) /\ Cardinality(1 .. L) = IF 1 > L THEN 0 ELSE L - 1 + 1
      <4>1. 1 \in Int /\ L \in Int
        BY <3>1
      <4> QED
        BY <4>1, FS_Interval, Zenon
    <3>3. Cardinality(1 .. L) = L
      BY <3>1, <3>2
    <3> QED
      BY <3>2, <3>3 DEF L
  <2>3. IsFiniteSet(last) /\ Cardinality(last) <= Len(file)
    BY <2>1, <2>2, FS_Subset
  <2> QED
    BY <1>2, <2>3, FS_CardinalityType
<1> QED
  BY <1>1, <1>5, <1>6

Fonts == script \in Scripts /\ faults \in Nat /\ (faults = 0 => Chosen)

LEMMA FRun == ASSUME Fonts, Run PROVE Fonts'
<1>1. script' \in Scripts /\ infos' \in {infos, NoInfos} /\ objects' = {} /\ UNCHANGED <<pinfo, faults>>
  BY DEF Run, files
<1>2. NoInfos \in Seq(Asked)
  BY DefaultAssumption DEF NoInfos, Asked, Infos
<1>3. Chosen => Chosen'
  BY <1>1, <1>2 DEF Chosen
<1> QED
  BY <1>1, <1>3 DEF Fonts

\* Where the preamble of the script has been entered, it is one to be asked for.
LEMMA AskedIs == \A p \in Preambles : [pre |-> p, sizes |-> Unknown] \in Asked /\ [pre |-> p, sizes |-> p] \in Asked
BY DEF Asked, Infos, Sizes

LEMMA ScriptPre == ASSUME script \in Scripts PROVE script.pre \in Preambles
BY ScriptsAssumption DEF Script

LEMMA FReset == ASSUME Fonts, Reset PROVE Fonts'
<1>1. infos' = FindOrAdd(infos, script.pre) /\ objects' = {} /\ UNCHANGED <<script, pinfo, faults>>
  BY DEF Reset, files
<1>2. [pre |-> script.pre, sizes |-> Unknown] \in Asked
  BY AskedIs, ScriptPre DEF Fonts
<1>3. Chosen => Chosen'
  BY <1>1, <1>2, FindOrAddIs DEF Chosen
<1> QED
  BY <1>1, <1>3 DEF Fonts

\* Without failures, what is read and what is measured are sizes of their preambles.
LEMMA FSizes == ASSUME Fonts, CheckTeXFontSizes PROVE Fonts'
<1> DEFINE read == LoadInfos(infos, pinfo)
           set == SetSizes(read, script.pre, script.pre)
<1>1. /\ UNCHANGED <<script, objects>>
      /\ \/ infos' = read /\ pinfo' = pinfo /\ faults' = faults
         \/ infos' = set /\ pinfo' = SaveInfos(set) /\ faults' = faults
         \/ faults' = faults + 1
  BY DEF CheckTeXFontSizes, memory
<1>2. ASSUME Chosen PROVE read \in Seq(Asked)
  <2>1. infos \in Seq(Asked) /\ pinfo \in Seq(Saved) /\ Asked \in SUBSET Infos /\ Saved \in SUBSET Infos
    BY <1>2 DEF Chosen, Asked, Saved
  <2>2. \A r \in Saved : r.pre \in Preambles /\ r.sizes = r.pre /\ r.sizes # None
    BY PreamblesAssumption DEF Saved, Infos
  <2>3. \A r \in Saved : /\ [pre |-> r.pre, sizes |-> Unknown] \in Asked
                         /\ [pre |-> r.pre, sizes |-> IF r.sizes = None THEN Zero ELSE r.sizes] \in Asked
    BY <2>2, AskedIs
  <2> QED
    BY <2>1, <2>3, LoadInfosIs
<1> HIDE DEF read
<1>3. ASSUME Chosen PROVE set \in Seq(Asked) /\ SaveInfos(set) \in Seq(Saved)
  <2>1. [pre |-> script.pre, sizes |-> script.pre] \in Asked /\ Asked \in SUBSET Infos
    BY AskedIs, ScriptPre DEF Fonts, Asked
  <2>2. set \in Seq(Asked)
    BY <1>2, <1>3, <2>1, SetSizesIs
  <2> HIDE DEF set
  <2>3. SaveInfos(set) \in Seq({r \in Asked : r.sizes # Unknown})
    BY <2>2, SaveInfosIs
  <2>4. {r \in Asked : r.sizes # Unknown} \subseteq Saved
    BY DEF Asked, Saved
  <2> QED
    BY <2>2, <2>3, <2>4, SeqIs
<1> HIDE DEF set
<1>4. CASE faults' = faults + 1
  BY <1>1, <1>4 DEF Fonts
<1>5. CASE faults' # faults + 1
  <2>1. Chosen => Chosen'
    BY <1>1, <1>2, <1>3, <1>5 DEF Chosen
  <2> QED
    BY <1>1, <1>5, <2>1 DEF Fonts
<1> QED
  BY <1>4, <1>5

LEMMA FDraw == ASSUME Fonts, Draw PROVE Fonts'
<1> DEFINE line == LineOf(Drawing[drawn + 1])
           o == [line |-> line, dims |-> (Of(hash', line)).dims]
<1>1. /\ FontSizes # Unknown /\ objects' \in {objects, objects \cup {o}}
      /\ UNCHANGED <<script, infos, pinfo, faults>>
  BY DEF Draw, files
<1>2. Chosen => FontSizes = script.pre
  BY <1>1, SizesOfIs DEF Chosen, FontSizes, Asked
<1>3. o.line[2] = FontSizes
  BY DEF LineOf
<1> HIDE DEF o
<1>4. Chosen => Chosen'
  BY <1>1, <1>2, <1>3 DEF Chosen
<1> QED
  BY <1>1, <1>4 DEF Fonts

\* A step that leaves the sizes, the script and the objects alone, or fails.
LEMMA FOther ==
  ASSUME Fonts, script' = script, \/ UNCHANGED <<infos, pinfo, objects>> /\ faults' = faults
                                  \/ faults' = faults + 1
  PROVE  Fonts'
BY DEF Fonts, Chosen

LEMMA FStep == ASSUME Fonts, [Next]_vars PROVE Fonts'
<1>1. CASE UNCHANGED vars
  BY <1>1, FOther DEF vars, memory, files
<1>2. CASE DrawError \/ TryCreateHash
  BY <1>2, FOther DEF DrawError, TryCreateHash, memory, files
<1>3. CASE Latex
  BY <1>3, FOther DEF Latex, memory, files
<1>4. CASE Dvips
  BY <1>4, FOther DEF Dvips
<1>5. CASE Crash
  BY <1>5, FOther DEF Crash
<1> QED
  BY <1>1, <1>2, <1>3, <1>4, <1>5, FRun, FReset, FSizes, FDraw DEF Next, Step

\* As long as nothing has failed, the font of a text has been chosen by the sizes of
\* the preamble it is typeset with, also when the preamble has been edited.
THEOREM FontOfPreamble == Spec => []SizesOfPreamble
<1>1. Init => Fonts
  <2> SUFFICES ASSUME Init PROVE Fonts
    OBVIOUS
  <2>1. NoInfos \in Seq(Asked)
    BY DefaultAssumption DEF NoInfos, Asked, Infos
  <2> QED
    BY <2>1 DEF Init, Fonts, Chosen
<1>2. Fonts /\ [Next]_vars => Fonts'
  BY FStep
<1>3. Fonts => SizesOfPreamble
  BY DEF Fonts, Chosen, SizesOfPreamble
<1> QED
  BY <1>1, <1>2, <1>3, PTL DEF Spec

-----------------------------------------------------------------------------
(***************************************************************************)
(* Types, and one object for a line: the lines of the file are different    *)
(* ones, and the file is read into a hash that is empty.                    *)
(***************************************************************************)
Objects == [line : Lines, dims : Dims \cup {NoDims}, used : BOOLEAN]
OneEach(h) == \A i, j \in DOMAIN h : h[i].line = h[j].line => i = j
Table(h) == h \in Seq(Objects) /\ OneEach(h)
LinesKept(ls) == ls \in Seq(Lines) /\ \A i, j \in DOMAIN ls : ls[i] = ls[j] => i = j
Memory ==
  /\ Table(hash) /\ objects \subseteq [line : Lines, dims : Dims \cup {NoDims}]
  /\ loaded \in {"none", "partial", "full"} /\ modified \in BOOLEAN
  /\ pc \in {"reset", "draw"} /\ loaded = "none" => hash = <<>>
Files ==
  /\ LinesKept(texlines) /\ ps \in [pre : Preambles, lines : Seq(Lines)]
  /\ pinfo \in Seq(Infos) /\ pps \in Preambles \cup {NoFile}
Places ==
  /\ pc \in {"off", "reset", "draw", "latex", "dvips", "done", "failed"}
  /\ script \in Scripts /\ drawn \in Nat /\ infos \in Seq(Infos)
  /\ measured \in BOOLEAN /\ runs \in 0 .. MaxRuns /\ faults \in 0 .. MaxFaults
Typed == Memory /\ Files /\ Places

LEMMA UsedTyped == ASSUME NEW h, Table(h) PROVE Table(Used(h)) /\ LinesKept(LinesOf(Used(h)))
<1> DEFINE S == {i \in DOMAIN h : h[i].used}
           u == Picked(h, S)
<1>1. Listed(h) /\ (\A i \in DOMAIN h : h[i] \in Objects) /\ OneEach(h)
  BY SeqIs DEF Table
<1>2. S \in SUBSET (DOMAIN h) /\ Used(h) = Picked(h, S)
  BY DEF Used
<1> HIDE DEF S
<1>3. /\ Listed(u)
      /\ \E at : /\ \A n \in DOMAIN u : at[n] \in S /\ u[n] = h[at[n]]
                 /\ \A n, m \in DOMAIN u : at[n] = at[m] => n = m
  BY <1>1, <1>2, PickedIs
<1> HIDE DEF u
<1>4. PICK at : /\ \A n \in DOMAIN u : at[n] \in S /\ u[n] = h[at[n]]
                /\ \A n, m \in DOMAIN u : at[n] = at[m] => n = m
  BY <1>3
<1>5. \A n \in DOMAIN u : u[n] \in Objects
  BY <1>1, <1>2, <1>4
<1>6. OneEach(u)
  BY <1>1, <1>2, <1>4 DEF OneEach
<1>7. Table(u)
  BY <1>3, <1>5, <1>6, SeqIs DEF Table
<1>8. Listed(LinesOf(u)) /\ DOMAIN LinesOf(u) = DOMAIN u /\ \A i \in DOMAIN u : LinesOf(u)[i] = u[i].line
  BY <1>3, LinesOfIs
<1>9. \A i \in DOMAIN u : u[i].line \in Lines
  BY <1>5 DEF Objects
<1>10. LinesOf(u) \in Seq(Lines)
  BY <1>8, <1>9, SeqIs
<1>11. LinesKept(LinesOf(u))
  BY <1>6, <1>8, <1>10 DEF LinesKept, OneEach
<1> QED
  BY <1>2, <1>7, <1>11 DEF u

LEMMA LoadLinesTyped == ASSUME NEW ls, LinesKept(ls) PROVE Table(LoadTeXLines(ls))
<1> DEFINE e(i) == [line |-> ls[i], dims |-> NoDims, used |-> FALSE]
           h == LoadTeXLines(ls)
<1>1. Len(ls) \in Nat /\ DOMAIN ls = 1 .. Len(ls) /\ \A i \in 1 .. Len(ls) : ls[i] \in Lines
  BY DEF LinesKept
<1>2. h = [i \in 1 .. Len(ls) |-> e(i)]
  BY <1>1 DEF LoadTeXLines
<1>3. \A i \in 1 .. Len(ls) : e(i) \in Objects /\ e(i).line = ls[i]
  BY <1>1 DEF Objects
<1> HIDE DEF h, e
<1>4. h \in Seq(Objects) /\ DOMAIN h = 1 .. Len(ls) /\ \A i \in 1 .. Len(ls) : h[i].line = ls[i]
  <2>1. h \in [1 .. Len(ls) -> Objects]
    BY <1>2, <1>3
  <2> QED
    BY <1>1, <1>2, <1>3, <2>1
<1>5. OneEach(h)
  BY <1>1, <1>4 DEF OneEach, LinesKept
<1> QED
  BY <1>4, <1>5 DEF Table, h

LEMMA LoadPSTyped ==
  ASSUME NEW h, Table(h), NEW pages \in [pre : Preambles, lines : Seq(Lines)]
  PROVE  Table(LoadTeXPS(h, pages))
<1> DEFINE e(i) == IF i \in DOMAIN pages.lines
                   THEN [h[i] EXCEPT !.dims = [pre |-> pages.pre, line |-> pages.lines[i]]] ELSE h[i]
           g == LoadTeXPS(h, pages)
<1>1. Len(h) \in Nat /\ DOMAIN h = 1 .. Len(h) /\ \A i \in 1 .. Len(h) : h[i] \in Objects
  BY DEF Table
<1>2. g = [i \in 1 .. Len(h) |-> e(i)]
  BY <1>1 DEF LoadTeXPS
<1>3. ASSUME NEW i \in 1 .. Len(h) PROVE e(i) \in Objects /\ e(i).line = h[i].line
  <2> DEFINE d == [pre |-> pages.pre, line |-> pages.lines[i]]
  <2>1. i \in DOMAIN pages.lines => d \in Dims
    BY DEF Dims
  <2>2. h[i] \in Objects
    BY <1>1
  <2>3. \A x \in Dims : [h[i] EXCEPT !.dims = x] \in Objects /\ [h[i] EXCEPT !.dims = x].line = h[i].line
    BY <2>2 DEF Objects
  <2> HIDE DEF d
  <2>4. i \in DOMAIN pages.lines => [h[i] EXCEPT !.dims = d] \in Objects /\ [h[i] EXCEPT !.dims = d].line = h[i].line
    BY <2>1, <2>3
  <2> QED
    BY <2>2, <2>4 DEF d
<1> HIDE DEF e, g
<1>4. g \in Seq(Objects) /\ DOMAIN g = 1 .. Len(h) /\ \A i \in 1 .. Len(h) : g[i].line = h[i].line
  <2>1. g \in [1 .. Len(h) -> Objects]
    BY <1>2, <1>3
  <2> QED
    BY <1>1, <1>2, <1>3, <2>1
<1>5. OneEach(g)
  BY <1>1, <1>4 DEF OneEach, Table
<1> QED
  BY <1>4, <1>5 DEF Table, g

LEMMA UseTyped ==
  ASSUME NEW h, Table(h), NEW line \in Lines
  PROVE  Table(Use(h, line)) /\ (Of(Use(h, line), line)).dims \in Dims \cup {NoDims}
<1> DEFINE g == Use(h, line)
           new == [line |-> line, dims |-> NoDims, used |-> TRUE]
<1>1. Len(h) \in Nat /\ DOMAIN h = 1 .. Len(h) /\ (\A i \in 1 .. Len(h) : h[i] \in Objects) /\ OneEach(h)
  BY DEF Table
<1>2. Table(g)
  <2>1. CASE Has(h, line)
    <3> DEFINE e(i) == IF h[i] = Of(h, line) THEN [h[i] EXCEPT !.used = TRUE] ELSE h[i]
    <3>1. g = [i \in 1 .. Len(h) |-> e(i)]
      BY <1>1, <2>1 DEF Use
    <3>2. \A o \in Objects : [o EXCEPT !.used = TRUE] \in Objects /\ [o EXCEPT !.used = TRUE].line = o.line
      BY DEF Objects
    <3>3. \A i \in 1 .. Len(h) : e(i) \in Objects /\ e(i).line = h[i].line
      BY <1>1, <3>2
    <3> HIDE DEF e, g
    <3>4. g \in Seq(Objects) /\ DOMAIN g = 1 .. Len(h) /\ \A i \in 1 .. Len(h) : g[i].line = h[i].line
      <4>1. g \in [1 .. Len(h) -> Objects]
        BY <3>1, <3>3
      <4> QED
        BY <1>1, <3>1, <3>3, <4>1
    <3> QED
      BY <1>1, <3>4 DEF Table, OneEach
  <2>2. CASE ~Has(h, line)
    <3>1. g = Append(h, new)
      BY <2>2 DEF Use
    <3>2. new \in Objects /\ new.line = line
      BY DEF Objects
    <3> HIDE DEF g, new
    <3>3. g \in Seq(Objects) /\ DOMAIN g = 1 .. Len(h) + 1 /\ (\A i \in 1 .. Len(h) : g[i] = h[i]) /\ g[Len(h) + 1] = new
      BY <1>1, <3>1, <3>2 DEF Table
    <3>4. \A i \in 1 .. Len(h) : h[i].line # line
      BY <1>1, <2>2 DEF Has
    <3>5. \A i \in DOMAIN g : i \in 1 .. Len(h) \/ i = Len(h) + 1
      BY <1>1, <3>3
    <3>6. OneEach(g)
      <4> SUFFICES ASSUME NEW i \in DOMAIN g, NEW j \in DOMAIN g, g[i].line = g[j].line PROVE i = j
        BY DEF OneEach
      <4> QED
        BY <1>1, <3>2, <3>3, <3>4, <3>5 DEF OneEach
    <3> QED
      BY <3>3, <3>6 DEF Table
  <2> QED
    BY <2>1, <2>2
<1>3. Listed(g) /\ \A i \in DOMAIN g : g[i] \in Objects
  BY <1>2, SeqIs DEF Table
<1>4. Has(g, line)
  <2>1. CASE Has(h, line)
    <3>1. DOMAIN g = DOMAIN h /\ \A i \in DOMAIN h : g[i] = h[i] \/ g[i] = [h[i] EXCEPT !.used = TRUE]
      BY <2>1 DEF Use
    <3>2. \A i \in DOMAIN h : [h[i] EXCEPT !.used = TRUE].line = h[i].line
      BY <1>1 DEF Objects
    <3> QED
      BY <2>1, <3>1, <3>2 DEF Has
  <2>2. CASE ~Has(h, line)
    <3>1. g = Append(h, new)
      BY <2>2 DEF Use
    <3>2. new.line = line
      OBVIOUS
    <3> HIDE DEF g, new
    <3>3. Len(h) + 1 \in DOMAIN g /\ g[Len(h) + 1] = new
      BY <1>1, <3>1, AppendIs, SeqIs DEF Table
    <3> QED
      BY <3>2, <3>3 DEF Has
  <2> QED
    BY <2>1, <2>2
<1> HIDE DEF g
<1>5. PICK i \in DOMAIN g : Of(g, line) = g[i]
  BY <1>3, <1>4, OfIs
<1>6. (Of(g, line)).dims \in Dims \cup {NoDims}
  BY <1>3, <1>5 DEF Objects
<1> QED
  BY <1>2, <1>6 DEF g

LEMMA TableEmpty == Table(<<>>)
<1>1. \A i \in DOMAIN <<>> : FALSE
  BY EmptyListed
<1>2. OneEach(<<>>)
  BY <1>1 DEF OneEach
<1> QED
  BY <1>2 DEF Table

LEMMA YInit == ASSUME Init PROVE Typed
<1>1. Memory
  BY TableEmpty DEF Init, Memory
<1>2. Files
  <2>1. NoPages \in [pre : Preambles, lines : Seq(Lines)]
    BY DefaultAssumption DEF NoPages
  <2> QED
    BY <2>1 DEF Init, Files, LinesKept
<1>3. Places
  <2>1. NoInfos \in Seq(Infos)
    BY DefaultAssumption DEF NoInfos, Infos
  <2>2. 0 \in 0 .. MaxRuns /\ 0 \in 0 .. MaxFaults
    BY BoundsAssumption
  <2> QED
    BY <2>1, <2>2 DEF Init, Places
<1> QED
  BY <1>1, <1>2, <1>3 DEF Typed

LEMMA YRun == ASSUME Typed, Run PROVE Typed'
<1>1. /\ runs < MaxRuns /\ script' \in Scripts /\ infos' \in {infos, NoInfos}
      /\ hash' = <<>> /\ objects' = {} /\ loaded' = "none" /\ modified' = FALSE
      /\ measured' = FALSE /\ runs' = runs + 1 /\ pc' = "reset"
      /\ UNCHANGED <<drawn, texlines, ps, pinfo, pps, faults>>
  BY DEF Run, files
<1>2. Memory'
  BY <1>1, TableEmpty DEF Memory
<1>3. Files'
  BY <1>1 DEF Typed, Files
<1>4. Places'
  <2>1. NoInfos \in Seq(Infos)
    BY DefaultAssumption DEF NoInfos, Infos
  <2>2. runs + 1 \in 0 .. MaxRuns
    BY <1>1, BoundsAssumption DEF Typed, Places
  <2> QED
    BY <1>1, <2>1, <2>2 DEF Typed, Places
<1> QED
  BY <1>2, <1>3, <1>4 DEF Typed

LEMMA YReset == ASSUME Typed, Reset PROVE Typed'
<1>1. /\ pc = "reset" /\ pc' = "draw" /\ hash' = Used(hash) /\ objects' = {} /\ modified' = FALSE /\ drawn' = 0
      /\ infos' = FindOrAdd(infos, script.pre)
      /\ UNCHANGED <<script, loaded, texlines, ps, pinfo, pps, measured, runs, faults>>
  BY DEF Reset, files
<1>2. Memory'
  <2>1. loaded' = "none" => hash' = <<>>
    BY <1>1, UsedEmpty DEF Typed, Memory
  <2> QED
    BY <1>1, <2>1, UsedTyped DEF Typed, Memory
<1>3. Files'
  BY <1>1 DEF Typed, Files
<1>4. infos' \in Seq(Infos)
  <2>1. [pre |-> script.pre, sizes |-> Unknown] \in Infos
    BY ScriptPre DEF Typed, Places, Infos
  <2> QED
    BY <1>1, <2>1, FindOrAddIs DEF Typed, Places
<1>5. Places'
  BY <1>1, <1>4 DEF Typed, Places
<1> QED
  BY <1>2, <1>3, <1>5 DEF Typed

LEMMA YSizes == ASSUME Typed, CheckTeXFontSizes PROVE Typed'
<1> DEFINE read == LoadInfos(infos, pinfo)
           set(s) == SetSizes(read, script.pre, s)
<1>1. /\ UNCHANGED <<pc, script, drawn, hash, objects, loaded, modified, texlines, ps, measured, runs>>
      /\ \/ infos' = read /\ UNCHANGED <<pinfo, pps, faults>>
         \/ pps' = script.pre /\ infos' = set(script.pre) /\ pinfo' = SaveInfos(infos') /\ faults' = faults
         \/ /\ faults < MaxFaults /\ faults' = faults + 1 /\ pps' \in {pps, NoFile}
            /\ infos' = set(IF pps' = NoFile THEN None ELSE pps') /\ pinfo' = SaveInfos(infos')
  BY DEF CheckTeXFontSizes, memory
<1>2. script.pre \in Preambles
  BY ScriptPre DEF Typed, Places
<1>3. read \in Seq(Infos)
  <2>1. \A r \in Infos : /\ [pre |-> r.pre, sizes |-> Unknown] \in Infos
                         /\ [pre |-> r.pre, sizes |-> IF r.sizes = None THEN Zero ELSE r.sizes] \in Infos
    BY DEF Infos, Sizes
  <2>2. infos \in Seq(Infos) /\ pinfo \in Seq(Infos) /\ Infos \in SUBSET Infos
    BY DEF Typed, Places, Files
  <2> QED
    BY <2>1, <2>2, LoadInfosIs
<1> HIDE DEF read
<1>4. ASSUME NEW s \in Sizes PROVE set(s) \in Seq(Infos)
  <2>1. [pre |-> script.pre, sizes |-> s] \in Infos /\ Infos \in SUBSET Infos
    BY <1>2, <1>4 DEF Infos
  <2> QED
    BY <1>3, <2>1, SetSizesIs
<1> HIDE DEF set
<1>5. pps' \in Preambles \cup {NoFile}
  BY <1>1, <1>2 DEF Typed, Files
<1>6. infos' \in Seq(Infos)
  <2>1. script.pre \in Sizes /\ (IF pps' = NoFile THEN None ELSE pps') \in Sizes
    BY <1>2, <1>5 DEF Sizes
  <2> QED
    BY <1>1, <1>3, <1>4, <2>1
<1>7. pinfo' \in Seq(Infos)
  <2>1. SaveInfos(infos') \in Seq({r \in Infos : r.sizes # Unknown})
    BY <1>6, SaveInfosIs
  <2>2. SaveInfos(infos') \in Seq(Infos)
    BY <2>1, SeqIs
  <2>3. pinfo' = pinfo \/ pinfo' = SaveInfos(infos')
    BY <1>1
  <2> QED
    BY <2>2, <2>3 DEF Typed, Files
<1>8. faults' \in 0 .. MaxFaults
  <2>1. faults' = faults \/ (faults < MaxFaults /\ faults' = faults + 1)
    BY <1>1
  <2> QED
    BY <2>1, BoundsAssumption DEF Typed, Places
<1>9. Memory'
  BY <1>1 DEF Typed, Memory
<1>10. Files'
  BY <1>1, <1>5, <1>7 DEF Typed, Files
<1>11. Places'
  BY <1>1, <1>6, <1>8 DEF Typed, Places
<1> QED
  BY <1>9, <1>10, <1>11 DEF Typed

LEMMA LoadedTyped == ASSUME Typed, pc = "draw" PROVE Table(Loaded)
<1> DEFINE h == IF loaded = "none" THEN hash \o LoadTeXLines(texlines) ELSE hash
<1>1. Table(h)
  <2>1. CASE loaded = "none"
    <3>1. hash = <<>> /\ Table(LoadTeXLines(texlines))
      BY <2>1, LoadLinesTyped DEF Typed, Memory, Files
    <3>2. h = LoadTeXLines(texlines)
      BY <2>1, <3>1, ConcatEmpty, SeqIs DEF Table
    <3> QED
      BY <3>1, <3>2
  <2>2. CASE loaded # "none"
    BY <2>2 DEF Typed, Memory
  <2> QED
    BY <2>1, <2>2
<1>2. Loaded = hash \/ Loaded = LoadTeXPS(h, ps)
  BY DEF Loaded
<1> HIDE DEF h
<1> QED
  BY <1>1, <1>2, LoadPSTyped DEF Typed, Memory, Files

LEMMA YDraw == ASSUME Typed, Draw PROVE Typed'
<1> DEFINE d == Drawing[drawn + 1]
           line == LineOf(d)
           o == [line |-> line, dims |-> (Of(hash', line)).dims]
<1>1. /\ pc = "draw" /\ hash' = Use(Loaded, line) /\ loaded' = "full" /\ drawn' = drawn + 1
      /\ modified' = ((loaded = "full" /\ modified) \/ ~Has(Loaded, line))
      /\ objects' \in {objects, objects \cup {o}}
      /\ FontSizes # Unknown /\ drawn < Len(Drawing)
      /\ UNCHANGED <<pc, script, infos, texlines, ps, pinfo, pps, measured, runs, faults>>
  BY DEF Draw, InPass, files
<1>2. line \in Lines
  <2>1. script.always \in Seq(Draws) /\ script.fits \in Seq(Draws)
    BY ScriptsAssumption DEF Typed, Places, Script
  <2>2. Drawing \in Seq(Draws)
    <3>1. \A s, t \in Seq(Draws) : s \o t \in Seq(Draws)
      OBVIOUS
    <3>2. (IF drawn > 0 /\ Fits THEN script.fits ELSE <<>>) \in Seq(Draws)
      BY <2>1
    <3> QED
      BY <2>1, <3>1, <3>2 DEF Drawing
  <2>3. d \in Draws
    BY <1>1, <2>2 DEF Typed, Places
  <2>4. FontSizes \in Sizes
    <3>1. infos \in Seq(Infos)
      BY DEF Typed, Places
    <3>2. PICK r \in Infos : FontSizes = r.sizes
      BY <1>1, <3>1, SizesOfIs DEF FontSizes
    <3>3. r.sizes \in Sizes \cup {Unknown}
      BY DEF Infos
    <3> QED
      BY <1>1, <3>2, <3>3
  <2> HIDE DEF d
  <2> QED
    BY <2>3, <2>4 DEF LineOf, Draws, Lines
<1> HIDE DEF d, line
<1>3. Table(Loaded)
  BY <1>1, LoadedTyped
<1>4. Table(hash') /\ (Of(hash', line)).dims \in Dims \cup {NoDims}
  BY <1>1, <1>2, <1>3, UseTyped
<1>5. objects' \subseteq [line : Lines, dims : Dims \cup {NoDims}]
  BY <1>1, <1>2, <1>4 DEF Typed, Memory
<1>6. modified' \in BOOLEAN
  BY <1>1, Zenon
<1>7. Memory'
  BY <1>1, <1>4, <1>5, <1>6 DEF Memory
<1>8. Files'
  BY <1>1 DEF Typed, Files
<1>9. Places'
  BY <1>1 DEF Typed, Places
<1> QED
  BY <1>7, <1>8, <1>9 DEF Typed

\* A step that changes at most where the program is, the files of the pages and the
\* number of failures.
LEMMA YOther ==
  ASSUME Typed, UNCHANGED <<script, drawn, hash, objects, modified, pinfo, pps, runs>>,
         pc' \in {"off", "latex", "dvips", "done", "failed"} \/ (pc' = "reset" /\ loaded' = "partial") \/ UNCHANGED <<pc, loaded>>,
         loaded' \in {loaded, "partial"}, infos' \in {infos, NoInfos}, measured' \in {measured, TRUE},
         texlines' \in {texlines, LinesOf(Used(hash))},
         ps' \in {ps, NoPages, [pre |-> script.pre, lines |-> LinesOf(Used(hash))]},
         faults' = faults \/ (faults < MaxFaults /\ faults' = faults + 1)
  PROVE  Typed'
<1>1. LinesKept(LinesOf(Used(hash))) /\ script.pre \in Preambles
  BY UsedTyped, ScriptPre DEF Typed, Memory, Places
<1>2. Memory'
  BY DEF Typed, Memory
<1>3. Files'
  <2>1. NoPages \in [pre : Preambles, lines : Seq(Lines)]
    BY DefaultAssumption DEF NoPages
  <2>2. [pre |-> script.pre, lines |-> LinesOf(Used(hash))] \in [pre : Preambles, lines : Seq(Lines)]
    BY <1>1 DEF LinesKept
  <2> QED
    BY <1>1, <2>1, <2>2 DEF Typed, Files
<1>4. Places'
  <2>1. NoInfos \in Seq(Infos)
    BY DefaultAssumption DEF NoInfos, Infos
  <2>2. faults' \in 0 .. MaxFaults
    BY BoundsAssumption DEF Typed, Places
  <2>3. measured' \in BOOLEAN
    BY Zenon DEF Typed, Places
  <2> QED
    BY <2>1, <2>2, <2>3 DEF Typed, Places
<1> QED
  BY <1>2, <1>3, <1>4 DEF Typed

LEMMA YStep == ASSUME Typed, [Next]_vars PROVE Typed'
<1>1. CASE UNCHANGED vars
  BY <1>1, YOther DEF vars, memory, files
<1>2. CASE DrawError
  BY <1>2, YOther DEF DrawError, memory, files
<1>3. CASE TryCreateHash
  BY <1>3, YOther DEF TryCreateHash, memory
<1>4. CASE Latex
  BY <1>4, YOther DEF Latex, memory, files
<1>5. CASE Dvips
  BY <1>5, YOther DEF Dvips
<1>6. CASE Crash
  BY <1>6, YOther DEF Crash, memory
<1> QED
  BY <1>1, <1>2, <1>3, <1>4, <1>5, <1>6, YRun, YReset, YSizes, YDraw DEF Next, Step

\* The variables hold what the members and the files can hold, and the hash of
\* texts has one object for a line, although it is read from a file, purged and
\* filled anew.
THEOREM TypesAndOneObject == Spec => []TypeOK
<1>1. Init => Typed
  BY YInit
<1>2. Typed /\ [Next]_vars => Typed'
  BY YStep
<1>3. Typed => TypeOK
  BY DEF Typed, Memory, Files, Places, Table, OneEach, Objects, LinesKept, TypeOK
<1> QED
  BY <1>1, <1>2, <1>3, PTL DEF Spec
=============================================================================
