------------------------- MODULE EditSession_proofs -------------------------
(***************************************************************************)
(* For every set of scripts, points and colours, and every number of        *)
(* objects and commands: the types of a session; that a commit keeps the    *)
(* other lines of a script, and does nothing when nothing differs; and, for *)
(* a user who does not do what the code cannot cope with, that the objects  *)
(* of the drawing area are those of the script, command by command.         *)
(***************************************************************************)
EXTENDS EditSession, FiniteSetTheorems, SequenceTheorems, WellFoundedInduction, TLAPS

-----------------------------------------------------------------------------
(* Recursion over the natural numbers, and induction up to a number.        *)

\* Nonempty sets of numbers have a least element.
LEMMA Least == ASSUME NEW S, S \subseteq Nat, S # {} PROVE \E m \in S : \A n \in S : m <= n
<1> DEFINE R == OpToRel(<, Nat)
<1>1. IsWellFoundedOn(R, Nat)
  BY NatLessThanWellFounded
<1>2. \A x, y \in Nat : x < y => <<x, y>> \in R
  BY DEF OpToRel
<1> HIDE DEF R
<1>3. PICK m \in S : \A n \in S : <<n, m>> \notin R
  BY <1>1, WFMin
<1>4. \A n \in S : ~ (n < m)
  BY <1>2, <1>3, Zenon
<1>5. m \in Nat
  BY <1>3
<1> QED
  BY <1>3, <1>4, <1>5

\* Induction over the lines of a script, or any other list.
LEMMA Inductive ==
  ASSUME NEW n \in Nat, NEW S, 0 \in S, \A i \in 1..n : i - 1 \in S => i \in S
  PROVE  \A i \in 0..n : i \in S
<1> SUFFICES ASSUME NEW k \in 0..n, k \notin S PROVE FALSE
  OBVIOUS
<1> DEFINE T == {i \in 0..n : i \notin S}
<1>1. T \subseteq Nat /\ T # {}
  OBVIOUS
<1> HIDE DEF T
<1>2. PICK m \in T : \A x \in T : m <= x
  BY <1>1, Least
<1>3. m # 0 /\ m \in 1..n /\ m - 1 \in 0..n /\ m - 1 \notin T /\ m \notin S
  BY <1>2 DEF T
<1> QED
  BY <1>3 DEF T

\* What a function on 0..n is that is defined step by step.
Steps(f, n, A, b, g) ==
  f \in [0..n -> A] /\ f[0] = b /\ \A i \in 1..n : f[i] = g[<<f[i-1], i>>]

\* A function defined step by step exists.
LEMMA ByRecursion ==
  ASSUME NEW n \in Nat, NEW A, NEW b \in A, NEW g \in [A \X (1..n) -> A]
  PROVE  \E f : Steps(f, n, A, b, g)
<1> DEFINE e(f, i) == IF i = 0 THEN b ELSE g[<<f[i-1], i>>]
           There(k) == \E f \in [0..k -> A] : \A i \in 0..k : f[i] = e(f, i)
           S == {k \in 0..n : There(k)}
<1>1. 0 \in S
  <2> DEFINE f == [i \in 0..0 |-> b]
  <2>1. f \in [0..0 -> A] /\ f[0] = b /\ \A i \in 0..0 : i = 0
    OBVIOUS
  <2> HIDE DEF f
  <2> QED
    BY <2>1
<1>2. \A k \in 1..n : k - 1 \in S => k \in S
  <2>0. SUFFICES ASSUME NEW k \in 1..n, There(k - 1) PROVE There(k)
    <3> HIDE DEF There
    <3> QED
      OBVIOUS
  <2>1. PICK f \in [0..(k-1) -> A] : \A i \in 0..(k-1) : f[i] = e(f, i)
    BY <2>0
  <2> DEFINE h == [i \in 0..k |-> IF i = k THEN g[<<f[k-1], k>>] ELSE f[i]]
  <2>2. f[k-1] \in A /\ g[<<f[k-1], k>>] \in A
    OBVIOUS
  <2>3. h \in [0..k -> A]
    BY <2>2
  <2>4. \A i \in 0..k : i # k => i \in 0..(k-1) /\ h[i] = f[i]
    OBVIOUS
  <2>5. \A i \in 0..k : i # 0 => i - 1 \in 0..k /\ i - 1 # k /\ i - 1 \in 0..(k-1) /\ h[i-1] = f[i-1]
    OBVIOUS
  <2>6. h[k] = g[<<f[k-1], k>>]
    OBVIOUS
  <2> HIDE DEF h
  <2>7. \A i \in 0..k : h[i] = e(h, i)
    <3> SUFFICES ASSUME NEW i \in 0..k PROVE h[i] = e(h, i)
      OBVIOUS
    <3>1. e(h, i) = e(f, i)
      BY <2>5
    <3>2. CASE i = k
      BY <2>6, <3>1, <3>2
    <3>3. CASE i # k
      BY <2>1, <2>4, <3>1, <3>3
    <3> QED
      BY <3>2, <3>3
  <2> QED
    BY <2>3, <2>7
<1>3. n \in S
  <2> HIDE DEF S
  <2> QED
    BY <1>1, <1>2, Inductive
<1>4. PICK f \in [0..n -> A] : \A i \in 0..n : f[i] = e(f, i)
  BY <1>3
<1>5. 0 \in 0..n /\ \A i \in 1..n : i \in 0..n /\ i # 0
  OBVIOUS
<1> QED
  BY <1>4, <1>5 DEF Steps

-----------------------------------------------------------------------------
(* What Max is, and the steps of Only.                                      *)

\* The largest of some numbers.
LEMMA MaxIs ==
  ASSUME NEW n \in Nat, NEW S \in SUBSET (0..n), S # {}
  PROVE  Max(S) \in S /\ \A x \in S : x <= Max(S)
<1> DEFINE T == {n - x : x \in S}
<1>1. T \subseteq Nat /\ T # {}
  <2>1. \A x \in S : n - x \in Nat
    OBVIOUS
  <2> QED
    BY <2>1
<1>2. PICK m \in T : \A x \in T : m <= x
  <2> HIDE DEF T
  <2> QED
    BY <1>1, Least
<1>3. PICK y \in S : m = n - y
  BY <1>2
<1>4. \A x \in S : y >= x
  <2> SUFFICES ASSUME NEW x \in S PROVE y >= x
    OBVIOUS
  <2>1. n - x \in T
    OBVIOUS
  <2>2. n - y <= n - x
    BY <1>2, <1>3, <2>1
  <2> QED
    BY <2>2
<1>5. Max(S) \in S /\ \A x \in S : Max(S) >= x
  BY <1>4 DEF Max
<1> QED
  BY <1>5

-----------------------------------------------------------------------------
(* The elements of a sequence that are in a set.                            *)

\* f has what Only(s, S) has after each element.
OnlyTo(f, s, S) ==
  /\ f \in [0..Len(s) -> Seq(S)] /\ f[0] = <<>>
  /\ \A i \in 1..Len(s) : f[i] = IF s[i] \in S THEN Append(f[i-1], s[i]) ELSE f[i-1]

LEMMA OnlyIs ==
  ASSUME NEW A, NEW s \in Seq(A), NEW S
  PROVE  \E f : OnlyTo(f, s, S) /\ Only(s, S) = f[Len(s)]
<1> DEFINE B == Seq(S)
           n == Len(s)
           e(f, i) == IF i = 0 THEN <<>> ELSE IF s[i] \in S THEN Append(f[i-1], s[i]) ELSE f[i-1]
           g == [x \in B \X (1..n) |-> IF s[x[2]] \in S THEN Append(x[1], s[x[2]]) ELSE x[1]]
           F == CHOOSE f : f = [i \in 0..n |-> e(f, i)]
<1>1. n \in Nat /\ <<>> \in B /\ \A i \in 1..n : s[i] \in A
  OBVIOUS
<1>2. g \in [B \X (1..n) -> B]
  <2>1. \A c \in B, i \in 1..n : s[i] \in S => Append(c, s[i]) \in B
    BY <1>1
  <2> HIDE DEF B, n
  <2> QED
    BY <2>1
<1>3. \A c \in B, i \in 1..n : g[<<c, i>>] = IF s[i] \in S THEN Append(c, s[i]) ELSE c
  <2> HIDE DEF B, n
  <2> QED
    OBVIOUS
<1> HIDE DEF g, B
<1>4. PICK f : Steps(f, n, B, <<>>, g)
  <2> HIDE DEF n
  <2> QED
    BY <1>1, <1>2, ByRecursion
<1>5. \A i \in 1..n : i \in 0..n /\ i # 0 /\ i - 1 \in 0..n
  BY <1>1
<1>6. f \in [0..n -> B] /\ f[0] = <<>> /\ \A i \in 1..n : f[i] = e(f, i)
  <2>1. f \in [0..n -> B] /\ f[0] = <<>> /\ \A i \in 1..n : f[i] = g[<<f[i-1], i>>]
    BY <1>4 DEF Steps
  <2>2. \A i \in 1..n : f[i-1] \in B
    <3> HIDE DEF n
    <3> QED
      BY <2>1, <1>5
  <2>3. \A i \in 1..n : g[<<f[i-1], i>>] = e(f, i)
    <3> HIDE DEF n
    <3> QED
      BY <1>3, <1>5, <2>2
  <2> QED
    BY <2>1, <2>3
<1>7. F = [i \in 0..n |-> e(F, i)]
  <2>1. \A i \in 0..n : f[i] = e(f, i)
    <3>1. \A i \in 0..n : i = 0 \/ i \in 1..n
      BY <1>1
    <3> QED
      BY <3>1, <1>6
  <2> HIDE DEF e
  <2>2. f = [i \in 0..n |-> e(f, i)]
    BY <1>6, <2>1
  <2> QED
    BY <2>2
<1>8. Only(s, S) = F[n]
  BY DEF Only
<1> HIDE DEF F
<1>9. \A i \in 0..n : F[i] = f[i]
  <2> DEFINE T == {i \in 0..n : F[i] = f[i]}
  <2>1. 0 \in T
    <3>1. 0 \in 0..n
      BY <1>1
    <3> QED
      BY <1>6, <1>7, <3>1
  <2>2. \A i \in 1..n : i - 1 \in T => i \in T
    <3> SUFFICES ASSUME NEW i \in 1..n, F[i-1] = f[i-1] PROVE i \in T
      OBVIOUS
    <3>1. F[i] = e(F, i) /\ f[i] = e(f, i)
      BY <1>5, <1>6, <1>7
    <3> QED
      BY <3>1, <1>5
  <2> HIDE DEF T, n
  <2>3. \A i \in 0..n : i \in T
    BY <1>1, <2>1, <2>2, Inductive
  <2> QED
    BY <2>3 DEF T
<1>10. F[n] = f[n]
  BY <1>1, <1>9
<1> QED
  BY <1>6, <1>8, <1>10 DEF OnlyTo, B

-----------------------------------------------------------------------------
(* Lists: joining them, appending to them, and picking elements with Only.  *)

LEMMA AppendsTo ==
  ASSUME NEW S, NEW s \in Seq(S), NEW x \in S
  PROVE  /\ Append(s, x) \in Seq(S) /\ Len(Append(s, x)) = Len(s) + 1
         /\ Append(s, x)[Len(s) + 1] = x /\ \A i \in 1..Len(s) : Append(s, x)[i] = s[i]
OBVIOUS

LEMMA Joined ==
  ASSUME NEW S, NEW s \in Seq(S), NEW t \in Seq(S)
  PROVE  /\ s \o t \in Seq(S) /\ Len(s \o t) = Len(s) + Len(t)
         /\ \A i \in 1..Len(s) : (s \o t)[i] = s[i]
         /\ \A i \in 1..Len(t) : (s \o t)[Len(s) + i] = t[i]
OBVIOUS

LEMMA SameList ==
  ASSUME NEW S, NEW s \in Seq(S), NEW T, NEW t \in Seq(T), Len(s) = Len(t), \A i \in 1..Len(s) : s[i] = t[i]
  PROVE  s = t
OBVIOUS

\* Appending to a joined list appends to its second part.
AppendsLast(s, t, x) == Append(s \o t, x) = s \o Append(t, x)

LEMMA JoinedAppend ==
  ASSUME NEW S, NEW s \in Seq(S), NEW t \in Seq(S), NEW x \in S
  PROVE  AppendsLast(s, t, x)
<1> DEFINE u == Append(s \o t, x)
           v == s \o Append(t, x)
<1>1. u \in Seq(S) /\ v \in Seq(S) /\ Len(u) = Len(s) + Len(t) + 1 /\ Len(v) = Len(u)
      /\ Len(s) \in Nat /\ Len(t) \in Nat
  BY AppendsTo, Joined
<1>2. ASSUME NEW i \in 1..Len(u) PROVE u[i] = v[i]
  <2>1. CASE i \in 1..Len(s)
    BY <2>1, <1>1
  <2>2. CASE i \in (Len(s)+1)..(Len(s) + Len(t))
    BY <2>2, <1>1
  <2>3. CASE i = Len(s) + Len(t) + 1
    BY <2>3, <1>1
  <2> QED
    BY <1>1, <2>1, <2>2, <2>3
<1> HIDE DEF u, v
<1> QED
  BY <1>1, <1>2, SameList DEF u, v, AppendsLast

\* What is left is in the set, and of the list.
LEMMA OnlyIn ==
  ASSUME NEW A, NEW s \in Seq(A), NEW S
  PROVE  Only(s, S) \in Seq(S) /\ Only(s, S) \in Seq(A)
<1>1. PICK f : OnlyTo(f, s, S) /\ Only(s, S) = f[Len(s)]
  BY OnlyIs
<1>2. Len(s) \in Nat /\ Len(s) \in 0..Len(s) /\ 0 \in 0..Len(s)
      /\ \A i \in 1..Len(s) : i \in 0..Len(s) /\ i - 1 \in 0..Len(s) /\ s[i] \in A
  OBVIOUS
<1> DEFINE T == {i \in 0..Len(s) : f[i] \in Seq(A)}
<1>3. 0 \in T
  BY <1>1, <1>2 DEF OnlyTo
<1>4. \A i \in 1..Len(s) : i - 1 \in T => i \in T
  <2> SUFFICES ASSUME NEW i \in 1..Len(s), f[i-1] \in Seq(A) PROVE f[i] \in Seq(A)
    BY <1>2
  <2>1. Append(f[i-1], s[i]) \in Seq(A)
    BY <1>2, AppendsTo
  <2> QED
    BY <2>1, <1>1 DEF OnlyTo
<1> HIDE DEF T
<1>5. \A i \in 0..Len(s) : i \in T
  BY <1>2, <1>3, <1>4, Inductive
<1> QED
  BY <1>1, <1>2, <1>5 DEF T, OnlyTo

\* What is left of one list after another.
OnlyApart(s, t, S) == Only(s \o t, S) = Only(s, S) \o Only(t, S)

LEMMA OnlyJoined ==
  ASSUME NEW A, NEW s \in Seq(A), NEW t \in Seq(A), NEW S
  PROVE  OnlyApart(s, t, S)
<1> DEFINE n == Len(s)
           m == Len(t)
<1>1. n \in Nat /\ m \in Nat /\ s \o t \in Seq(A) /\ Len(s \o t) = n + m
  OBVIOUS
<1>2. PICK f : OnlyTo(f, s, S) /\ Only(s, S) = f[n]
  BY OnlyIs
<1>3. PICK g : OnlyTo(g, t, S) /\ Only(t, S) = g[m]
  BY OnlyIs
<1>4. PICK h : OnlyTo(h, s \o t, S) /\ Only(s \o t, S) = h[n + m]
  BY <1>1, OnlyIs
<1>5. \A i \in 1..n : (s \o t)[i] = s[i]
  OBVIOUS
<1>6. \A i \in 1..m : (s \o t)[n + i] = t[i]
  OBVIOUS
<1>7. h \in [0..(n+m) -> Seq(S)] /\ h[0] = <<>>
      /\ \A i \in 1..(n+m) : h[i] = IF (s \o t)[i] \in S THEN Append(h[i-1], (s \o t)[i]) ELSE h[i-1]
  BY <1>1, <1>4 DEF OnlyTo
<1>8. /\ f \in [0..n -> Seq(S)] /\ f[0] = <<>>
         /\ \A i \in 1..n : f[i] = IF s[i] \in S THEN Append(f[i-1], s[i]) ELSE f[i-1]
      /\ g \in [0..m -> Seq(S)] /\ g[0] = <<>>
         /\ \A i \in 1..m : g[i] = IF t[i] \in S THEN Append(g[i-1], t[i]) ELSE g[i-1]
  BY <1>2, <1>3 DEF OnlyTo
<1> HIDE DEF n, m
<1>9. /\ 0 \in 0..n /\ n \in 0..n /\ 0 \in 0..m /\ m \in 0..m
      /\ \A i \in 1..n : i \in 0..n /\ i - 1 \in 0..n /\ i \in 1..(n+m)
      /\ \A i \in 1..m : i \in 0..m /\ i - 1 \in 0..m /\ n + i \in 1..(n+m) /\ (n + i) - 1 = n + (i - 1)
  BY <1>1
<1>10. h[n] = f[n]
  <2> DEFINE T == {i \in 0..n : h[i] = f[i]}
  <2>1. 0 \in T
    BY <1>7, <1>8, <1>9
  <2>2. \A i \in 1..n : i - 1 \in T => i \in T
    BY <1>5, <1>7, <1>8, <1>9
  <2> HIDE DEF T
  <2>3. \A i \in 0..n : i \in T
    BY <1>1, <2>1, <2>2, Inductive
  <2> QED
    BY <2>3, <1>9 DEF T
<1>11. h[n + m] = f[n] \o g[m]
  <2> DEFINE T == {i \in 0..m : h[n + i] = f[n] \o g[i]}
  <2>0. n + 0 = n /\ f[n] \in Seq(S)
    BY <1>1, <1>8, <1>9
  <2>1. 0 \in T
    BY <1>8, <1>9, <1>10, <2>0
  <2>2. \A i \in 1..m : i - 1 \in T => i \in T
    <3> SUFFICES ASSUME NEW i \in 1..m, h[n + (i - 1)] = f[n] \o g[i-1] PROVE h[n + i] = f[n] \o g[i]
      BY <1>9
    <3>1. h[n + i] = IF t[i] \in S THEN Append(h[n + (i - 1)], t[i]) ELSE h[n + (i - 1)]
      BY <1>6, <1>7, <1>9
    <3>2. g[i-1] \in Seq(S) /\ g[i] = IF t[i] \in S THEN Append(g[i-1], t[i]) ELSE g[i-1]
      BY <1>8, <1>9
    <3>3. t[i] \in S => AppendsLast(f[n], g[i-1], t[i])
      BY <2>0, <3>2, JoinedAppend
    <3> QED
      BY <3>1, <3>2, <3>3 DEF AppendsLast
  <2> HIDE DEF T
  <2>3. \A i \in 0..m : i \in T
    BY <1>1, <2>1, <2>2, Inductive
  <2> QED
    BY <2>3, <1>9 DEF T
<1> QED
  BY <1>2, <1>3, <1>4, <1>11 DEF n, m, OnlyApart

LEMMA OnlyEmpty == ASSUME NEW S PROVE Only(<<>>, S) = <<>>
<1>1. <<>> \in Seq(S) /\ Len(<<>>) = 0
  OBVIOUS
<1>2. PICK f : OnlyTo(f, <<>>, S) /\ Only(<<>>, S) = f[0]
  BY <1>1, OnlyIs
<1> QED
  BY <1>2 DEF OnlyTo

\* A list of one element.
LEMMA OnlyOne ==
  ASSUME NEW S, NEW x
  PROVE  Only(<<>>, S) = <<>> /\ Only(<<x>>, S) = IF x \in S THEN <<x>> ELSE <<>>
<1>1. <<>> \in Seq({x}) /\ <<x>> \in Seq({x}) /\ Len(<<x>>) = 1 /\ <<x>>[1] = x /\ Len(<<>>) = 0
  OBVIOUS
<1>2. PICK f : OnlyTo(f, <<>>, S) /\ Only(<<>>, S) = f[0]
  BY <1>1, OnlyIs
<1>3. PICK g : OnlyTo(g, <<x>>, S) /\ Only(<<x>>, S) = g[1]
  BY <1>1, OnlyIs
<1>4. g[1] = IF x \in S THEN Append(g[0], x) ELSE g[0]
  <2>1. 1 \in 1..1 /\ 1 - 1 = 0
    OBVIOUS
  <2>2. \A i \in 1..1 : g[i] = IF <<x>>[i] \in S THEN Append(g[i-1], <<x>>[i]) ELSE g[i-1]
    BY <1>1, <1>3 DEF OnlyTo
  <2> QED
    BY <1>1, <2>1, <2>2
<1>5. f[0] = <<>> /\ g[0] = <<>>
  BY <1>2, <1>3 DEF OnlyTo
<1>6. Append(<<>>, x) = <<x>>
  OBVIOUS
<1> QED
  BY <1>2, <1>3, <1>4, <1>5, <1>6

LEMMA OnlyAppend ==
  ASSUME NEW A, NEW s \in Seq(A), NEW x \in A, NEW S
  PROVE  Only(Append(s, x), S) = IF x \in S THEN Append(Only(s, S), x) ELSE Only(s, S)
<1>1. Append(s, x) = s \o <<x>> /\ <<x>> \in Seq(A)
  OBVIOUS
<1>2. Only(Append(s, x), S) = Only(s, S) \o Only(<<x>>, S)
  <2>1. PICK one : one = <<x>> /\ one \in Seq(A)
    BY <1>1
  <2>2. OnlyApart(s, one, S)
    <3>1. one \in Seq(A)
      BY <2>1
    <3> QED
      BY <3>1, OnlyJoined
  <2> QED
    BY <1>1, <2>1, <2>2 DEF OnlyApart
<1>3. Only(s, S) \in Seq(A)
  BY OnlyIn
<1>4. Only(s, S) \o <<x>> = Append(Only(s, S), x) /\ Only(s, S) \o <<>> = Only(s, S)
  BY <1>3
<1> QED
  BY <1>2, <1>4, OnlyOne

LEMMA OnlyNone ==
  ASSUME NEW A, NEW s \in Seq(A), NEW S, \A i \in 1..Len(s) : s[i] \notin S
  PROVE  Only(s, S) = <<>>
<1>1. PICK f : OnlyTo(f, s, S) /\ Only(s, S) = f[Len(s)]
  BY OnlyIs
<1>2. Len(s) \in Nat /\ Len(s) \in 0..Len(s) /\ 0 \in 0..Len(s) /\ \A i \in 1..Len(s) : i \in 0..Len(s)
  OBVIOUS
<1> DEFINE T == {i \in 0..Len(s) : f[i] = <<>>}
<1>3. 0 \in T
  BY <1>1, <1>2 DEF OnlyTo
<1>4. \A i \in 1..Len(s) : i - 1 \in T => i \in T
  BY <1>1, <1>2 DEF OnlyTo
<1> HIDE DEF T
<1>5. \A i \in 0..Len(s) : i \in T
  BY <1>2, <1>3, <1>4, Inductive
<1> QED
  BY <1>1, <1>2, <1>5 DEF T

-----------------------------------------------------------------------------
(* The objects and the states of a run; the steps of Run.                   *)

\* What an object looks like, an object, and the state of a run.
Looks == [c : Shapes, p : Nat, q : Nat, k : Nat]
Objects == [c : Shapes \cup {"none"}, p : Nat, q : Nat, k : Nat, deleted : BOOLEAN]
States == [at : Nat, color : Nat, drawn : Seq(Looks)]
Start0 == [at |-> Origin, color |-> Black, drawn |-> <<>>]

\* f has the state of a run after each line.
RunsTo(f, lines) ==
  /\ f \in [0..Len(lines) -> States] /\ f[0] = Start0
  /\ \A i \in 1..Len(lines) : f[i] = RunLine(lines[i], f[i-1])

\* A drawing command draws an object.
LEMMA ObjectTyped ==
  ASSUME NEW line \in Lines, line.c \in Shapes, NEW s, s.at \in Nat, s.color \in Nat
  PROVE  ObjectOf(line, s) \in Looks
BY DEF ObjectOf, Lines, Looks

LEMMA RunLineTyped ==
  ASSUME NEW line \in Lines, NEW s \in States
  PROVE  RunLine(line, s) \in States
<1>1. s.at \in Nat /\ s.color \in Nat /\ s.drawn \in Seq(Looks)
  BY DEF States
<1>2. CASE line.c \in Shapes
  <2>1. ObjectOf(line, s) \in Looks
    BY <1>1, <1>2, ObjectTyped
  <2>2. ObjectOf(line, s).q \in Nat /\ Append(s.drawn, ObjectOf(line, s)) \in Seq(Looks)
    BY <1>1, <2>1 DEF Looks
  <2> QED
    BY <1>2, <2>2 DEF RunLine, States
<1>3. CASE line.c \notin Shapes
  BY <1>3 DEF RunLine, PassLine, States, Lines
<1> QED
  BY <1>2, <1>3

\* Run is what its recursive definition says.
LEMMA RunIs == ASSUME NEW lines \in Seq(Lines) PROVE RunsTo(Run(lines), lines)
<1> DEFINE n == Len(lines)
           e(f, i) == IF i = 0 THEN [at |-> Origin, color |-> Black, drawn |-> <<>>]
                      ELSE RunLine(lines[i], f[i-1])
           g == [x \in States \X (1..n) |-> RunLine(lines[x[2]], x[1])]
           F == CHOOSE f : f = [i \in 0..n |-> e(f, i)]
<1>1. n \in Nat /\ Start0 \in States /\ \A i \in 1..n : lines[i] \in Lines
  BY DEF States, Start0, Origin, Black
<1>2. g \in [States \X (1..n) -> States]
  <2>1. \A s \in States, i \in 1..n : RunLine(lines[i], s) \in States
    BY <1>1, RunLineTyped
  <2> HIDE DEF n
  <2> QED
    BY <2>1
<1>3. \A s \in States, i \in 1..n : g[<<s, i>>] = RunLine(lines[i], s)
  <2> HIDE DEF n
  <2> QED
    OBVIOUS
<1> HIDE DEF g
<1>4. PICK f : Steps(f, n, States, Start0, g)
  <2> HIDE DEF n
  <2> QED
    BY <1>1, <1>2, ByRecursion
<1>5. /\ n \in 0..n /\ 0 \in 0..n /\ \A i \in 1..n : i \in 0..n /\ i # 0 /\ i - 1 \in 0..n
      /\ \A i \in 0..n : i = 0 \/ i \in 1..n
  BY <1>1
<1>6. RunsTo(f, lines)
  <2>1. f \in [0..n -> States] /\ f[0] = Start0 /\ \A i \in 1..n : f[i] = g[<<f[i-1], i>>]
    BY <1>4 DEF Steps
  <2>2. \A i \in 1..n : f[i-1] \in States
    <3> HIDE DEF n
    <3> QED
      BY <2>1, <1>5
  <2>3. \A i \in 1..n : g[<<f[i-1], i>>] = RunLine(lines[i], f[i-1])
    <3> HIDE DEF n
    <3> QED
      BY <1>3, <2>2
  <2> QED
    BY <2>1, <2>3 DEF RunsTo
<1>7. F = [i \in 0..n |-> e(F, i)]
  <2>1. \A i \in 0..n : f[i] = e(f, i)
    BY <1>5, <1>6 DEF RunsTo, Start0
  <2> HIDE DEF e
  <2>2. f = [i \in 0..n |-> e(f, i)]
    <3>1. f \in [0..n -> States]
      BY <1>6 DEF RunsTo
    <3> QED
      BY <2>1, <3>1
  <2> QED
    BY <2>2
<1>8. Run(lines) = F
  BY DEF Run
<1> HIDE DEF F
<1>9. \A i \in 0..n : F[i] = f[i]
  <2> DEFINE T == {i \in 0..n : F[i] = f[i]}
  <2>1. 0 \in T
    BY <1>5, <1>6, <1>7 DEF RunsTo, Start0
  <2>2. \A i \in 1..n : i - 1 \in T => i \in T
    <3> SUFFICES ASSUME NEW i \in 1..n, F[i-1] = f[i-1] PROVE i \in T
      OBVIOUS
    <3>1. F[i] = RunLine(lines[i], F[i-1]) /\ f[i] = RunLine(lines[i], f[i-1])
      BY <1>5, <1>6, <1>7 DEF RunsTo
    <3> QED
      BY <3>1, <1>5
  <2> HIDE DEF T, n
  <2>3. \A i \in 0..n : i \in T
    BY <1>1, <2>1, <2>2, Inductive
  <2> QED
    BY <2>3 DEF T
<1>10. F = f
  <2>1. f = [i \in 0..n |-> f[i]]
    BY <1>6 DEF RunsTo
  <2> HIDE DEF e
  <2>2. F = [i \in 0..n |-> F[i]]
    BY <1>7
  <2> QED
    BY <2>1, <2>2, <1>9
<1> QED
  BY <1>6, <1>8, <1>10

-----------------------------------------------------------------------------
(* What a script draws: one object for each drawing command.                *)

\* The drawing commands, and what kind of object each of a list is.
Shaped == {line \in Lines : line.c \in Shapes}
KindsOf(list) == [i \in DOMAIN list |-> list[i].c]

\* The drawing is that of the last state.
LEMMA DrawnIs ==
  ASSUME NEW lines \in Seq(Lines)
  PROVE  /\ RunsTo(Run(lines), lines) /\ Drawn(lines) = Run(lines)[Len(lines)].drawn
         /\ Drawn(lines) \in Seq(Looks)
<1>1. RunsTo(Run(lines), lines)
  BY RunIs
<1>2. Len(lines) \in 0..Len(lines)
  OBVIOUS
<1>3. Run(lines)[Len(lines)] \in States
  BY <1>1, <1>2 DEF RunsTo
<1> QED
  BY <1>1, <1>3 DEF Drawn, States

\* One line draws one object or none.
LEMMA OneLineDraws ==
  ASSUME NEW lines \in Seq(Lines), NEW f, RunsTo(f, lines), NEW i \in 1..Len(lines)
  PROVE  /\ i \in 0..Len(lines) /\ i - 1 \in 0..Len(lines)
         /\ f[i-1].drawn \in Seq(Looks) /\ f[i].drawn \in Seq(Looks)
         /\ f[i].drawn = IF lines[i].c \in Shapes THEN Append(f[i-1].drawn, ObjectOf(lines[i], f[i-1]))
                         ELSE f[i-1].drawn
<1>1. i \in 0..Len(lines) /\ i - 1 \in 0..Len(lines)
  OBVIOUS
<1>2. f[i] = RunLine(lines[i], f[i-1]) /\ f[i-1] \in States /\ f[i] \in States
  BY <1>1 DEF RunsTo
<1> QED
  BY <1>1, <1>2 DEF RunLine, PassLine, States

\* What has been drawn stays drawn.
LEMMA DrawnGrows ==
  ASSUME NEW lines \in Seq(Lines), NEW i \in 0..Len(lines)
  PROVE  /\ Len(Run(lines)[i].drawn) <= Len(Drawn(lines))
         /\ \A j \in 1..Len(Run(lines)[i].drawn) : Drawn(lines)[j] = Run(lines)[i].drawn[j]
<1> DEFINE n == Len(lines)
           f == Run(lines)
           Grown(m) == /\ Len(f[i].drawn) <= Len(f[m].drawn)
                       /\ \A j \in 1..Len(f[i].drawn) : f[m].drawn[j] = f[i].drawn[j]
           T == {m \in 0..n : m >= i => Grown(m)}
<1>1. RunsTo(f, lines) /\ n \in Nat /\ n \in 0..n /\ n >= i
  BY DrawnIs
<1>2. \A m \in 0..n : f[m].drawn \in Seq(Looks)
  BY <1>1 DEF RunsTo, States
<1> HIDE DEF f
<1>3. Grown(i)
  BY <1>2
<1>4. 0 \in T
  <2>1. 0 \in 0..n /\ (0 >= i => i = 0)
    BY <1>1
  <2> HIDE DEF Grown
  <2> QED
    BY <2>1, <1>3
<1>5. \A m \in 1..n : m - 1 \in T => m \in T
  <2> SUFFICES ASSUME NEW m \in 1..n, m - 1 \in T, m >= i PROVE m \in T
    BY <1>1
  <2>1. m \in 0..n
    OBVIOUS
  <2>2. CASE m = i
    <3> HIDE DEF Grown
    <3> QED
      BY <2>1, <2>2, <1>3
  <2>3. CASE m # i
    <3>1. m - 1 >= i
      BY <2>3
    <3>2. Grown(m - 1)
      BY <3>1
    <3>3. /\ f[m-1].drawn \in Seq(Looks)
          /\ f[m].drawn = IF lines[m].c \in Shapes THEN Append(f[m-1].drawn, ObjectOf(lines[m], f[m-1]))
                          ELSE f[m-1].drawn
      BY <1>1, OneLineDraws
    <3>4. Len(f[m-1].drawn) <= Len(f[m].drawn)
          /\ \A j \in 1..Len(f[m-1].drawn) : f[m].drawn[j] = f[m-1].drawn[j]
      BY <3>3
    <3>5. Len(f[i].drawn) \in Nat /\ Len(f[m-1].drawn) \in Nat /\ Len(f[m].drawn) \in Nat
      BY <1>2, <2>1, <3>3
    <3>6. Grown(m)
      <4>1. Len(f[i].drawn) <= Len(f[m].drawn)
        <5>1. Len(f[i].drawn) <= Len(f[m-1].drawn)
          BY <3>2
        <5>2. \A a, b, c \in Nat : a <= b /\ b <= c => a <= c
          OBVIOUS
        <5> QED
          BY <5>1, <5>2, <3>4, <3>5, Zenon
      <4>2. ASSUME NEW j \in 1..Len(f[i].drawn) PROVE f[m].drawn[j] = f[i].drawn[j]
        <5>1. j \in 1..Len(f[m-1].drawn)
          BY <3>2, <3>5
        <5> HIDE DEF T
        <5> QED
          BY <3>2, <3>4, <5>1
      <4> QED
        BY <4>1, <4>2
    <3> QED
      BY <2>1, <3>6
  <2> QED
    BY <2>2, <2>3
<1> HIDE DEF T
<1>6. \A m \in 0..n : m \in T
  BY <1>1, <1>4, <1>5, Inductive
<1>7. Grown(n)
  BY <1>1, <1>6 DEF T
<1> QED
  BY <1>7, DrawnIs DEF f

\* The commands that draw are those of the objects drawn.
LEMMA KindsDrawn ==
  ASSUME NEW lines \in Seq(Lines)
  PROVE  KindsOf(Drawn(lines)) = KindsOf(Only(lines, Shaped))
<1> DEFINE n == Len(lines)
           f == Run(lines)
           T(g) == {m \in 0..n : KindsOf(f[m].drawn) = KindsOf(g[m])}
<1>1. RunsTo(f, lines) /\ n \in Nat /\ n \in 0..n /\ 0 \in 0..n
  BY DrawnIs
<1>2. \A m \in 0..n : f[m].drawn \in Seq(Looks)
  BY <1>1 DEF RunsTo, States
<1>3. PICK g : OnlyTo(g, lines, Shaped) /\ Only(lines, Shaped) = g[n]
  BY OnlyIs
<1>4. 0 \in T(g)
  BY <1>1, <1>3 DEF OnlyTo, RunsTo, Start0, KindsOf
<1>5. \A m \in 1..n : m - 1 \in T(g) => m \in T(g)
  <2> SUFFICES ASSUME NEW m \in 1..n, KindsOf(f[m-1].drawn) = KindsOf(g[m-1])
               PROVE  KindsOf(f[m].drawn) = KindsOf(g[m])
    OBVIOUS
  <2>1. /\ m - 1 \in 0..n
        /\ f[m-1].drawn \in Seq(Looks)
        /\ f[m].drawn = IF lines[m].c \in Shapes THEN Append(f[m-1].drawn, ObjectOf(lines[m], f[m-1]))
                        ELSE f[m-1].drawn
    BY <1>1, OneLineDraws
  <2>2. g[m-1] \in Seq(Shaped) /\ g[m] = IF lines[m] \in Shaped THEN Append(g[m-1], lines[m]) ELSE g[m-1]
    BY <1>3, <2>1 DEF OnlyTo
  <2>3. lines[m] \in Lines /\ (lines[m] \in Shaped <=> lines[m].c \in Shapes)
        /\ ObjectOf(lines[m], f[m-1]).c = lines[m].c
    BY DEF Shaped, ObjectOf
  <2> HIDE DEF f
  <2>4. Len(f[m-1].drawn) = Len(g[m-1]) /\ \A i \in 1..Len(g[m-1]) : f[m-1].drawn[i].c = g[m-1][i].c
    <3>1. DOMAIN KindsOf(f[m-1].drawn) = 1..Len(f[m-1].drawn) /\ DOMAIN KindsOf(g[m-1]) = 1..Len(g[m-1])
      BY <2>1, <2>2 DEF KindsOf
    <3>2. Len(f[m-1].drawn) = Len(g[m-1])
      BY <2>1, <2>2, <3>1
    <3> QED
      BY <2>1, <2>2, <3>2 DEF KindsOf
  <2>5. CASE lines[m].c \in Shapes
    <3> DEFINE a == Append(f[m-1].drawn, ObjectOf(lines[m], f[m-1]))
               b == Append(g[m-1], lines[m])
    <3>1. /\ DOMAIN a = 1..(Len(g[m-1]) + 1) /\ DOMAIN b = 1..(Len(g[m-1]) + 1)
          /\ \A i \in 1..(Len(g[m-1]) + 1) : a[i].c = b[i].c
      BY <2>1, <2>2, <2>3, <2>4
    <3> HIDE DEF a, b
    <3>2. KindsOf(a) = KindsOf(b)
      BY <3>1 DEF KindsOf
    <3> QED
      BY <2>1, <2>2, <2>3, <2>5, <3>2 DEF a, b
  <2>6. CASE lines[m].c \notin Shapes
    BY <2>1, <2>2, <2>3, <2>6
  <2> QED
    BY <2>5, <2>6
<1> HIDE DEF T
<1>6. \A m \in 0..n : m \in T(g)
  BY <1>1, <1>4, <1>5, Inductive
<1>7. KindsOf(f[n].drawn) = KindsOf(g[n])
  BY <1>1, <1>6 DEF T
<1> QED
  BY <1>3, <1>7, DrawnIs

-----------------------------------------------------------------------------
(* The run in commit mode: what its state is, and what the handlers that    *)
(* change or schedule lines keep.                                           *)

\* Insertions are amoves and set commands.
Insertions == [before : Nat, line : Lines]
CommitStates == [at : Nat, color : Nat, next : Nat, src : Seq(Lines), ins : Seq(Insertions),
                 del : SUBSET Nat, stray : BOOLEAN]
\* The state the run in commit mode starts from.
CommitStart(lines) == [at |-> Origin, color |-> Black, next |-> 1, src |-> lines,
                       ins |-> <<>>, del |-> {}, stray |-> FALSE]
\* The lines a commit adds or changes besides drawing commands.
Plain == {"other", "blank"}

\* What a commit leaves as it is.
Kept(lines, s) ==
  /\ s \in CommitStates
  /\ Len(s.src) = Len(lines)
  /\ \A j \in 1..Len(lines) : /\ s.src[j].c = lines[j].c
                              /\ lines[j].c \in Plain => s.src[j] = lines[j]
  /\ \A n \in 1..Len(s.ins) : s.ins[n].line.c \in {"set", "amove"}
  /\ \A j \in s.del : j \in 1..Len(lines) /\ lines[j].c \in Shapes \cup {"amove"}

\* The command in front is a line before.
LEMMA PreviousIn ==
  ASSUME NEW lines \in Seq(Lines), NEW i \in 1..Len(lines), NEW c
  PROVE  Previous(lines, i, c) \in 0..Len(lines)
<1>1. CASE i = 1
  BY <1>1 DEF Previous
<1>2. CASE i # 1
  <2> DEFINE S == {1} \cup {j \in 1..(i-1) : lines[j].c # c}
  <2>1. S \in SUBSET (0..Len(lines)) /\ S # {} /\ Len(lines) \in Nat
    OBVIOUS
  <2>2. Previous(lines, i, c) = Max(S)
    BY <1>2 DEF Previous
  <2> HIDE DEF S
  <2> QED
    BY <2>1, <2>2, MaxIs
<1> QED
  BY <1>1, <1>2

\* An insertion scheduled...
LEMMA ScheduleKeeps ==
  ASSUME NEW lines, NEW s, Kept(lines, s), NEW i \in Nat, NEW line \in Lines, line.c \in {"set", "amove"}
  PROVE  Kept(lines, Schedule(s, i, line))
<1> DEFINE e == [before |-> i, line |-> line]
           t == [s EXCEPT !.ins = Append(s.ins, e)]
<1>1. e \in Insertions /\ e.line = line
  BY DEF Insertions
<1> HIDE DEF e
<1>2. s \in CommitStates /\ s.ins \in Seq(Insertions)
  BY DEF Kept, CommitStates
<1>3. Append(s.ins, e) \in Seq(Insertions)
  BY <1>1, <1>2
<1>4. t \in CommitStates /\ t.ins = Append(s.ins, e) /\ t.src = s.src /\ t.del = s.del
  BY <1>2, <1>3 DEF CommitStates
<1>5. \A n \in 1..Len(t.ins) : t.ins[n].line.c \in {"set", "amove"}
  BY <1>1, <1>2, <1>4 DEF Kept
<1>6. Schedule(s, i, line) = t
  BY DEF Schedule, e
<1> QED
  BY <1>4, <1>5, <1>6 DEF Kept

\* A line of the source is changed.
LEMMA ChangeKeeps ==
  ASSUME NEW lines \in Seq(Lines), NEW s, Kept(lines, s), NEW i \in 1..Len(lines), NEW line \in Lines,
         line.c = lines[i].c, line.c \notin Plain
  PROVE  Kept(lines, [s EXCEPT !.src[i] = line])
<1> DEFINE t == [s EXCEPT !.src[i] = line]
<1>1. s \in CommitStates /\ s.src \in Seq(Lines) /\ Len(s.src) = Len(lines)
  BY DEF Kept, CommitStates
<1>2. [s.src EXCEPT ![i] = line] \in Seq(Lines) /\ Len([s.src EXCEPT ![i] = line]) = Len(lines)
  BY <1>1
<1>3. t \in CommitStates /\ t.ins = s.ins /\ t.src = [s.src EXCEPT ![i] = line] /\ t.del = s.del
  BY <1>1, <1>2 DEF CommitStates
<1>4. \A j \in 1..Len(lines) : t.src[j] = IF j = i THEN line ELSE s.src[j]
  BY <1>1, <1>3
<1> HIDE DEF t
<1> QED
  BY <1>2, <1>3, <1>4 DEF Kept, t

\* The lines that are written are lines.
LEMMA LinesMade ==
  ASSUME NEW n \in Nat
  PROVE  SetColor(n) \in Lines /\ SetColor(n).c = "set" /\ AMove(n) \in Lines /\ AMove(n).c = "amove"
<1>1. SetColor(n) = [c |-> "set", p |-> 0, k |-> n] /\ AMove(n) = [c |-> "amove", p |-> n, k |-> 1]
  BY DEF SetColor, AMove, Line, Origin, Black
<1>2. [c |-> "set", p |-> 0, k |-> n] \in Lines
  BY DEF Lines
<1>3. [c |-> "amove", p |-> n, k |-> 1] \in Lines
  BY DEF Lines
<1> QED
  BY <1>1, <1>2, <1>3

\* ...a set command changed or scheduled...
LEMMA SetPropertiesKeeps ==
  ASSUME NEW lines \in Seq(Lines), NEW s, Kept(lines, s), NEW i \in 1..Len(lines), NEW k \in Nat
  PROVE  LET t == SetProperties(lines, s, i, k)
         IN  Kept(lines, t) /\ t.next = s.next /\ t.del = s.del
<1> DEFINE prev == Previous(lines, i, "amove")
           t == [s EXCEPT !.color = k]
<1>1. prev \in 0..Len(lines) /\ Len(lines) \in Nat
  BY PreviousIn
<1>2. Kept(lines, t) /\ t.next = s.next /\ t.del = s.del
  BY DEF Kept, CommitStates
<1>3. SetProperties(lines, s, i, k) = IF Is(lines, prev, "set") THEN [t EXCEPT !.src[prev] = SetColor(k)]
                                      ELSE Schedule(t, prev + 1, SetColor(k))
  BY DEF SetProperties
<1> HIDE DEF prev, t
<1>4. CASE Is(lines, prev, "set")
  <2>1. prev \in 1..Len(lines) /\ lines[prev].c = "set"
    BY <1>4 DEF Is
  <2>2. Kept(lines, [t EXCEPT !.src[prev] = SetColor(k)])
    BY <1>2, <2>1, LinesMade, ChangeKeeps DEF Plain
  <2>3. t \in CommitStates
    BY <1>2 DEF Kept
  <2>4. [t EXCEPT !.src[prev] = SetColor(k)].next = t.next /\ [t EXCEPT !.src[prev] = SetColor(k)].del = t.del
    BY <2>3 DEF CommitStates
  <2> QED
    BY <1>2, <1>3, <1>4, <2>2, <2>4
<1>5. CASE ~Is(lines, prev, "set")
  <2>1. prev + 1 \in Nat
    BY <1>1
  <2>2. Kept(lines, Schedule(t, prev + 1, SetColor(k)))
    BY <1>2, <2>1, LinesMade, ScheduleKeeps
  <2>3. t \in CommitStates
    BY <1>2 DEF Kept
  <2>4. Schedule(t, prev + 1, SetColor(k)).next = t.next /\ Schedule(t, prev + 1, SetColor(k)).del = t.del
    BY <2>3 DEF CommitStates, Schedule
  <2> QED
    BY <1>2, <1>3, <1>5, <2>2, <2>4
<1> QED
  BY <1>4, <1>5

\* ...an amove changed or scheduled, and the other lines stay.
LEMMA AddAmoveKeeps ==
  ASSUME NEW lines \in Seq(Lines), NEW s, Kept(lines, s), NEW i \in 1..Len(lines), NEW p \in Nat
  PROVE  LET t == AddAmove(lines, s, i, p)
         IN  Kept(lines, t) /\ t.next = s.next /\ t.del = s.del
<1> DEFINE prev == Previous(lines, i, "blank")
<1>0. s \in CommitStates /\ i \in Nat
  BY DEF Kept
<1>1. prev \in 0..Len(lines) /\ Len(lines) \in Nat
  BY PreviousIn
<1>3. AddAmove(lines, s, i, p) = IF s.at = p THEN s
                                 ELSE IF Is(lines, prev, "amove") THEN [s EXCEPT !.src[prev] = AMove(p)]
                                 ELSE Schedule(s, i, AMove(p))
  BY DEF AddAmove
<1> HIDE DEF prev
<1>4. CASE s.at = p
  BY <1>3, <1>4
<1>5. CASE s.at # p /\ Is(lines, prev, "amove")
  <2>1. prev \in 1..Len(lines) /\ lines[prev].c = "amove"
    BY <1>5 DEF Is
  <2>2. Kept(lines, [s EXCEPT !.src[prev] = AMove(p)])
    BY <2>1, LinesMade, ChangeKeeps DEF Plain
  <2>4. [s EXCEPT !.src[prev] = AMove(p)].next = s.next /\ [s EXCEPT !.src[prev] = AMove(p)].del = s.del
    BY <1>0 DEF CommitStates
  <2> QED
    BY <1>3, <1>5, <2>2, <2>4
<1>6. CASE s.at # p /\ ~Is(lines, prev, "amove")
  <2>2. Kept(lines, Schedule(s, i, AMove(p)))
    BY <1>0, LinesMade, ScheduleKeeps
  <2>4. Schedule(s, i, AMove(p)).next = s.next /\ Schedule(s, i, AMove(p)).del = s.del
    BY <1>0 DEF CommitStates, Schedule
  <2> QED
    BY <1>3, <1>6, <2>2, <2>4
<1> QED
  BY <1>4, <1>5, <1>6

-----------------------------------------------------------------------------
(* The run in commit mode, line by line: which lines it changes, schedules  *)
(* and deletes.                                                             *)

\* With an object goes its own line, and an amove at most.
LEMMA DeletedWithIs ==
  ASSUME NEW lines \in Seq(Lines), NEW i \in 1..Len(lines), lines[i].c \in Shapes
  PROVE  /\ i \in DeletedWith(lines, i)
         /\ \A j \in DeletedWith(lines, i) : /\ j \in 1..Len(lines)
                                             /\ j = i \/ lines[j].c = "amove"
BY DEF DeletedWith, Is

\* The code of an object is a line, and of the same kind.
LEMMA CodeTyped ==
  ASSUME NEW o \in Objects, o.c \in Shapes
  PROVE  CodeOf(o) \in Lines /\ CodeOf(o).c = o.c
<1>1. CodeOf(o) = [c |-> o.c, p |-> IF o.c = "aline" THEN o.q ELSE 0, k |-> 1]
  BY DEF CodeOf, Line, Origin, Black
<1> QED
  BY <1>1 DEF Lines, Objects

\* What else of the state changes does not matter here.
LEMMA RestKeeps ==
  ASSUME NEW lines, NEW s, Kept(lines, s), NEW t \in CommitStates,
         t.src = s.src, t.ins = s.ins, t.del = s.del
  PROVE  Kept(lines, t)
BY DEF Kept

\* Comparing a command with its object keeps the lines of other kinds.
LEMMA CompareKeeps ==
  ASSUME NEW lines \in Seq(Lines), NEW s, Kept(lines, s), NEW i \in 1..Len(lines),
         lines[i].c \in Shapes, NEW o \in Objects, o.c = lines[i].c
  PROVE  LET t == Compare(lines, s, i, o)
         IN  /\ Kept(lines, t) /\ t.next = s.next
             /\ t.del = IF o.deleted THEN s.del \cup DeletedWith(lines, i) ELSE s.del
<1> DEFINE old == ObjectOf(lines[i], s)
           same == o.p = old.p /\ o.q = old.q
           props == IF o.k # s.color THEN SetProperties(lines, s, i, o.k) ELSE s
           add == AddAmove(lines, props, i, o.p)
           moved == IF same THEN props ELSE [add EXCEPT !.src[i] = CodeOf(o)]
           t == Compare(lines, s, i, o)
<1>1. o.p \in Nat /\ o.q \in Nat /\ o.k \in Nat /\ s \in CommitStates
  BY DEF Objects, Kept
<1>2. Kept(lines, props) /\ props.next = s.next /\ props.del = s.del
  BY <1>1, SetPropertiesKeeps
<1> HIDE DEF props
<1>3. Kept(lines, add) /\ add.next = s.next /\ add.del = s.del
  BY <1>1, <1>2, AddAmoveKeeps
<1>4. t = IF o.deleted
          THEN [moved EXCEPT !.del = moved.del \cup DeletedWith(lines, i),
                             !.stray = moved.stray \/ (o.c = "aline" /\ ~same /\ o.p # s.at),
                             !.at = IF o.c = "circle" THEN o.p ELSE moved.at]
          ELSE [moved EXCEPT !.at = o.q]
  BY DEF Compare, props
<1> HIDE DEF add, t
<1>5. Kept(lines, moved) /\ moved.next = s.next /\ moved.del = s.del
  <2>1. CASE same
    BY <2>1, <1>2
  <2>2. CASE ~same
    <3>1. CodeOf(o) \in Lines /\ CodeOf(o).c = lines[i].c /\ lines[i].c \notin Plain
      BY CodeTyped DEF Shapes, Plain
    <3>2. Kept(lines, [add EXCEPT !.src[i] = CodeOf(o)])
      BY <1>3, <3>1, ChangeKeeps
    <3>3. [add EXCEPT !.src[i] = CodeOf(o)].next = add.next /\ [add EXCEPT !.src[i] = CodeOf(o)].del = add.del
      BY <1>3 DEF Kept, CommitStates
    <3> QED
      BY <2>2, <1>3, <3>2, <3>3
  <2> QED
    BY <2>1, <2>2
<1> HIDE DEF moved
<1>6. moved \in CommitStates
  BY <1>5 DEF Kept
<1>7. CASE ~o.deleted
  <2>1. t \in CommitStates /\ t.src = moved.src /\ t.ins = moved.ins /\ t.del = moved.del /\ t.next = moved.next
    BY <1>1, <1>4, <1>6, <1>7 DEF CommitStates
  <2> QED
    <3>1. Kept(lines, t)
      BY <1>5, <2>1, RestKeeps
    <3> QED
      BY <1>5, <1>7, <2>1, <3>1 DEF t
<1>8. CASE o.deleted
  <2>1. /\ \A j \in DeletedWith(lines, i) : j \in 1..Len(lines) /\ lines[j].c \in Shapes \cup {"amove"}
        /\ DeletedWith(lines, i) \subseteq Nat
    BY DeletedWithIs
  <2> DEFINE a == IF o.c = "circle" THEN o.p ELSE moved.at
             x == moved.stray \/ (o.c = "aline" /\ ~same /\ o.p # s.at)
             d == moved.del \cup DeletedWith(lines, i)
  <2>2. a \in Nat /\ x \in BOOLEAN /\ d \in SUBSET Nat
    BY <1>1, <1>6, <2>1 DEF CommitStates
  <2>3. t = [moved EXCEPT !.del = d, !.stray = x, !.at = a]
    BY <1>4, <1>8
  <2> HIDE DEF a, x, d
  <2>4. t \in CommitStates /\ t.src = moved.src /\ t.ins = moved.ins /\ t.del = d /\ t.next = moved.next
    BY <1>6, <2>2, <2>3 DEF CommitStates
  <2>5. \A j \in d : j \in 1..Len(lines) /\ lines[j].c \in Shapes \cup {"amove"}
    BY <1>5, <2>1 DEF d, Kept
  <2>6. Kept(lines, t)
    BY <1>5, <2>4, <2>5 DEF Kept
  <2> QED
    BY <1>5, <1>8, <2>4, <2>6 DEF d, t
<1> QED
  BY <1>7, <1>8 DEF t

\* What one line of the run does to what matters here.
LineDone(lines, objects, s, i, t) ==
  /\ Kept(lines, t)
  /\ t.next = IF lines[i].c \in Shapes THEN s.next + 1 ELSE s.next
  /\ t.del = IF lines[i].c \in Shapes /\ s.next \in DOMAIN objects /\ objects[s.next].c = lines[i].c
                /\ objects[s.next].deleted
             THEN s.del \cup DeletedWith(lines, i) ELSE s.del

\* So does every line of the run.
LEMMA CommitLineKeeps ==
  ASSUME NEW lines \in Seq(Lines), NEW objects \in Seq(Objects), NEW s, Kept(lines, s), NEW i \in 1..Len(lines)
  PROVE  LineDone(lines, objects, s, i, CommitLine(lines, objects, s, i))
<1> DEFINE t == CommitLine(lines, objects, s, i)
           n == s.next
           u == [s EXCEPT !.next = n + 1]
<1>1. s \in CommitStates /\ lines[i] \in Lines
  BY DEF Kept
<1>2. CASE lines[i].c \notin Shapes
  <2>1. t = PassLine(lines[i], s)
    BY <1>2 DEF CommitLine
  <2>2. lines[i].p \in Nat /\ lines[i].k \in Nat
    BY <1>1 DEF Lines
  <2>3. t \in CommitStates /\ t.src = s.src /\ t.ins = s.ins /\ t.del = s.del /\ t.next = s.next
    BY <1>1, <2>1, <2>2 DEF CommitStates, PassLine
  <2> HIDE DEF t
  <2>4. Kept(lines, t)
    BY <2>3, RestKeeps
  <2> QED
    BY <1>2, <2>3, <2>4 DEF t, LineDone
<1>3. CASE lines[i].c \in Shapes
  <2>1. u \in CommitStates /\ u.src = s.src /\ u.ins = s.ins /\ u.del = s.del /\ u.next = n + 1
    <3>1. n \in Nat /\ n + 1 \in Nat
      BY <1>1 DEF CommitStates
    <3> HIDE DEF n
    <3> QED
      BY <1>1, <3>1 DEF CommitStates
  <2>2. t = IF n \in DOMAIN objects /\ objects[n].c = lines[i].c
            THEN Compare(lines, u, i, objects[n]) ELSE u
    BY <1>3 DEF CommitLine
  <2> HIDE DEF u
  <2>3. Kept(lines, u)
    BY <2>1, RestKeeps
  <2>4. CASE n \in DOMAIN objects /\ objects[n].c = lines[i].c
    <3>1. objects[n] \in Objects
      BY <2>4
    <3>2. LET r == Compare(lines, u, i, objects[n])
          IN  /\ Kept(lines, r) /\ r.next = u.next
              /\ r.del = IF objects[n].deleted THEN u.del \cup DeletedWith(lines, i) ELSE u.del
      BY <1>3, <2>3, <2>4, <3>1, CompareKeeps
    <3> HIDE DEF n
    <3> QED
      BY <1>3, <2>1, <2>2, <2>4, <3>2 DEF n, LineDone
  <2>5. CASE ~(n \in DOMAIN objects /\ objects[n].c = lines[i].c)
    BY <1>3, <2>1, <2>2, <2>3, <2>5 DEF LineDone
  <2> QED
    BY <2>4, <2>5
<1> QED
  BY <1>2, <1>3

-----------------------------------------------------------------------------
(* The run in commit mode as a whole, and the object of each command.       *)

\* States of the run that have the lines of a script, changed as Kept says.
KeptStates(lines) == {s \in CommitStates : Kept(lines, s)}

\* f has the state of the run in commit mode after each line.
CommitTo(f, lines, objects) ==
  /\ f \in [0..Len(lines) -> KeptStates(lines)] /\ f[0] = CommitStart(lines)
  /\ \A i \in 1..Len(lines) : f[i] = CommitLine(lines, objects, f[i-1], i)

\* CommitRun is what its recursive definition says.
LEMMA CommitIs ==
  ASSUME NEW lines \in Seq(Lines), NEW objects \in Seq(Objects)
  PROVE  \E f : CommitTo(f, lines, objects) /\ CommitRun(lines, objects) = f[Len(lines)]
<1> DEFINE n == Len(lines)
           A == KeptStates(lines)
           e(f, i) == IF i = 0 THEN [at |-> Origin, color |-> Black, next |-> 1, src |-> lines,
                                     ins |-> <<>>, del |-> {}, stray |-> FALSE]
                      ELSE CommitLine(lines, objects, f[i-1], i)
           g == [x \in A \X (1..n) |-> CommitLine(lines, objects, x[1], x[2])]
           F == CHOOSE f : f = [i \in 0..n |-> e(f, i)]
<1>1. n \in Nat /\ CommitStart(lines) \in A
  <2>1. CommitStart(lines) \in CommitStates
    BY DEF CommitStart, CommitStates, Origin, Black
  <2> QED
    BY <2>1 DEF CommitStart, Kept, KeptStates
<1>2. \A s \in A, i \in 1..n : CommitLine(lines, objects, s, i) \in A
  <2> SUFFICES ASSUME NEW s \in A, NEW i \in 1..n PROVE CommitLine(lines, objects, s, i) \in A
    OBVIOUS
  <2>1. Kept(lines, s)
    BY DEF KeptStates
  <2>2. Kept(lines, CommitLine(lines, objects, s, i))
    BY <2>1, CommitLineKeeps DEF LineDone
  <2> QED
    BY <2>2 DEF KeptStates, Kept, LineDone
<1>3. g \in [A \X (1..n) -> A] /\ \A s \in A, i \in 1..n : g[<<s, i>>] = CommitLine(lines, objects, s, i)
  <2> HIDE DEF n, A
  <2> QED
    BY <1>2
<1> HIDE DEF g, A
<1>4. PICK f : Steps(f, n, A, CommitStart(lines), g)
  <2> HIDE DEF n
  <2> QED
    BY <1>1, <1>3, ByRecursion
<1>5. /\ n \in 0..n /\ 0 \in 0..n /\ \A i \in 1..n : i \in 0..n /\ i # 0 /\ i - 1 \in 0..n
      /\ \A i \in 0..n : i = 0 \/ i \in 1..n
  BY <1>1
<1>6. CommitTo(f, lines, objects)
  <2>1. f \in [0..n -> A] /\ f[0] = CommitStart(lines) /\ \A i \in 1..n : f[i] = g[<<f[i-1], i>>]
    BY <1>4 DEF Steps
  <2>2. \A i \in 1..n : f[i-1] \in A
    <3> HIDE DEF n
    <3> QED
      BY <2>1, <1>5
  <2>3. \A i \in 1..n : g[<<f[i-1], i>>] = CommitLine(lines, objects, f[i-1], i)
    <3> HIDE DEF n
    <3> QED
      BY <1>3, <2>2
  <2> QED
    BY <2>1, <2>3 DEF CommitTo, A
<1>7. F = [i \in 0..n |-> e(F, i)]
  <2>1. \A i \in 0..n : f[i] = e(f, i)
    BY <1>5, <1>6 DEF CommitTo, CommitStart
  <2> HIDE DEF e
  <2>2. f = [i \in 0..n |-> e(f, i)]
    <3>1. f \in [0..n -> A]
      BY <1>6 DEF CommitTo, A
    <3> QED
      BY <2>1, <3>1
  <2> QED
    BY <2>2
<1>8. CommitRun(lines, objects) = F[n]
  BY DEF CommitRun
<1> HIDE DEF F
<1>9. \A i \in 0..n : F[i] = f[i]
  <2> DEFINE T == {i \in 0..n : F[i] = f[i]}
  <2>1. 0 \in T
    BY <1>5, <1>6, <1>7 DEF CommitTo, CommitStart
  <2>2. \A i \in 1..n : i - 1 \in T => i \in T
    <3> SUFFICES ASSUME NEW i \in 1..n, F[i-1] = f[i-1] PROVE i \in T
      OBVIOUS
    <3>1. F[i] = CommitLine(lines, objects, F[i-1], i) /\ f[i] = CommitLine(lines, objects, f[i-1], i)
      BY <1>5, <1>6, <1>7 DEF CommitTo
    <3> QED
      BY <3>1, <1>5
  <2> HIDE DEF T, n
  <2>3. \A i \in 0..n : i \in T
    BY <1>1, <2>1, <2>2, Inductive
  <2> QED
    BY <2>3 DEF T
<1> QED
  BY <1>5, <1>6, <1>8, <1>9

\* The objects are counted along.
LEMMA NextObject ==
  ASSUME NEW lines \in Seq(Lines), NEW objects \in Seq(Objects), NEW f, CommitTo(f, lines, objects)
  PROVE  \A i \in 0..Len(lines) : f[i].next = Len(Run(lines)[i].drawn) + 1
<1> DEFINE n == Len(lines)
           r == Run(lines)
           T == {i \in 0..n : f[i].next = Len(r[i].drawn) + 1}
<1>1. RunsTo(r, lines) /\ n \in Nat /\ 0 \in 0..n
  BY DrawnIs
<1>2. 0 \in T
  BY <1>1 DEF CommitTo, CommitStart, RunsTo, Start0
<1>3. \A i \in 1..n : i - 1 \in T => i \in T
  <2> SUFFICES ASSUME NEW i \in 1..n, f[i-1].next = Len(r[i-1].drawn) + 1
               PROVE  f[i].next = Len(r[i].drawn) + 1
    OBVIOUS
  <2>1. /\ i - 1 \in 0..n
        /\ r[i-1].drawn \in Seq(Looks)
        /\ r[i].drawn = IF lines[i].c \in Shapes THEN Append(r[i-1].drawn, ObjectOf(lines[i], r[i-1]))
                        ELSE r[i-1].drawn
    BY <1>1, OneLineDraws
  <2>2. Kept(lines, f[i-1])
    BY <2>1 DEF CommitTo, KeptStates
  <2>3. f[i].next = IF lines[i].c \in Shapes THEN f[i-1].next + 1 ELSE f[i-1].next
    <3>1. LineDone(lines, objects, f[i-1], i, CommitLine(lines, objects, f[i-1], i))
      BY <2>2, CommitLineKeeps
    <3> QED
      BY <3>1 DEF CommitTo, LineDone
  <2> HIDE DEF r
  <2>4. Len(Append(r[i-1].drawn, ObjectOf(lines[i], r[i-1]))) = Len(r[i-1].drawn) + 1
    BY <2>1
  <2> QED
    BY <2>1, <2>3, <2>4
<1> HIDE DEF T
<1>4. \A i \in 0..n : i \in T
  BY <1>1, <1>2, <1>3, Inductive
<1> QED
  BY <1>4 DEF T

\* A command that draws draws an object of the script.
LEMMA OwnObject ==
  ASSUME NEW lines \in Seq(Lines), NEW i \in 1..Len(lines), lines[i].c \in Shapes
  PROVE  LET m == Len(Run(lines)[i].drawn)
         IN  /\ m = Len(Run(lines)[i-1].drawn) + 1
             /\ m \in DOMAIN Drawn(lines)
             /\ Drawn(lines)[m] = ObjectOf(lines[i], Run(lines)[i-1])
<1> DEFINE r == Run(lines)
           m == Len(r[i].drawn)
<1>1. /\ i \in 0..Len(lines) /\ r[i-1].drawn \in Seq(Looks) /\ r[i].drawn \in Seq(Looks)
      /\ r[i].drawn = Append(r[i-1].drawn, ObjectOf(lines[i], r[i-1]))
  <2>1. RunsTo(r, lines)
    BY DrawnIs
  <2> HIDE DEF r
  <2> QED
    BY <2>1, OneLineDraws
<1>2. Len(r[i].drawn) <= Len(Drawn(lines)) /\ \A j \in 1..Len(r[i].drawn) : Drawn(lines)[j] = r[i].drawn[j]
  BY <1>1, DrawnGrows
<1>3. Drawn(lines) \in Seq(Looks)
  BY DrawnIs
<1> HIDE DEF r
<1>4. m = Len(r[i-1].drawn) + 1 /\ m \in 1..m /\ m \in Nat /\ r[i].drawn[m] = ObjectOf(lines[i], r[i-1])
  BY <1>1
<1>5. m \in 1..Len(Drawn(lines)) /\ Drawn(lines)[m] = r[i].drawn[m]
  <2>1. Len(Drawn(lines)) \in Nat
    BY <1>3
  <2> QED
    BY <1>2, <1>4, <2>1 DEF r
<1>6. DOMAIN Drawn(lines) = 1..Len(Drawn(lines))
  BY <1>3
<1> QED
  BY <1>4, <1>5, <1>6 DEF r

-----------------------------------------------------------------------------
(* performUpdates, line by line.                                            *)

\* Nothing is left out of a list that is all in the set.
LEMMA OnlyAll ==
  ASSUME NEW A, NEW s \in Seq(A), NEW S, \A i \in 1..Len(s) : s[i] \in S
  PROVE  Only(s, S) = s
<1> DEFINE n == Len(s)
<1>1. PICK f : OnlyTo(f, s, S) /\ Only(s, S) = f[n]
  BY OnlyIs
<1>2. n \in Nat /\ n \in 0..n /\ 0 \in 0..n /\ \A i \in 1..n : i \in 0..n /\ i - 1 \in 0..n
  OBVIOUS
<1> DEFINE T == {i \in 0..n : Len(f[i]) = i /\ \A j \in 1..i : f[i][j] = s[j]}
<1>3. 0 \in T
  BY <1>1, <1>2 DEF OnlyTo
<1>4. \A i \in 1..n : i - 1 \in T => i \in T
  <2> SUFFICES ASSUME NEW i \in 1..n, Len(f[i-1]) = i - 1, \A j \in 1..(i-1) : f[i-1][j] = s[j]
               PROVE  Len(f[i]) = i /\ \A j \in 1..i : f[i][j] = s[j]
    BY <1>2
  <2>1. f[i-1] \in Seq(S) /\ f[i] = Append(f[i-1], s[i])
    BY <1>1, <1>2 DEF OnlyTo
  <2> QED
    BY <2>1
<1> HIDE DEF T
<1>5. \A i \in 0..n : i \in T
  BY <1>2, <1>3, <1>4, Inductive
<1>6. f[n] \in Seq(S) /\ Len(f[n]) = n /\ \A j \in 1..n : f[n][j] = s[j]
  BY <1>1, <1>2, <1>5 DEF T, OnlyTo
<1>7. f[n] = s
  <2> HIDE DEF n
  <2> QED
    BY <1>6, SameList DEF n
<1> QED
  BY <1>1, <1>7

\* The updates a commit schedules.
Ready(s) == s.src \in Seq(Lines) /\ s.ins \in Seq(Insertions)

UpdateStates(s) == [pos : 0..Len(s.ins), out : Seq(Lines)]

\* u has what is written after each line.
UpdatesTo(u, s) ==
  /\ u \in [0..Len(s.src) -> UpdateStates(s)] /\ u[0] = [pos |-> 0, out |-> <<>>]
  /\ \A i \in 1..Len(s.src) : u[i] = UpdateLine(s, u[i-1], i)

\* What one line of the source contributes.
LineOf(s, i) == IF i \in s.del THEN <<>> ELSE <<s.src[i]>>

\* What is written for one line: insertions, and the line if it stays.
LEMMA UpdateLineDoes ==
  ASSUME NEW s, Ready(s), NEW u \in UpdateStates(s), NEW i \in 1..Len(s.src)
  PROVE  \E ins \in Seq(Lines) :
           /\ \A n \in 1..Len(ins) : \E m \in 1..Len(s.ins) : ins[n] = s.ins[m].line
           /\ UpdateLine(s, u, i).out = (u.out \o ins) \o LineOf(s, i)
           /\ UpdateLine(s, u, i) \in UpdateStates(s)
<1> DEFINE S == {u.pos} \cup {n \in (u.pos + 1)..Len(s.ins) :
                                \A m \in (u.pos + 1)..n : s.ins[m].before = i}
           upto == Max(S)
           inserted == [n \in 1..(upto - u.pos) |-> s.ins[u.pos + n].line]
<1>1. u.pos \in 0..Len(s.ins) /\ Len(s.ins) \in Nat /\ u.out \in Seq(Lines)
  BY DEF UpdateStates, Ready
<1>2. S \in SUBSET (0..Len(s.ins)) /\ S # {} /\ \A x \in S : x >= u.pos
  BY <1>1
<1>3. UpdateLine(s, u, i) = [pos |-> upto, out |-> (u.out \o inserted) \o LineOf(s, i)]
  BY DEF UpdateLine, LineOf
<1>4. upto \in 0..Len(s.ins) /\ upto >= u.pos
  <2> HIDE DEF S
  <2> QED
    BY <1>1, <1>2, MaxIs
<1> HIDE DEF S, upto
<1>5. \A n \in 1..(upto - u.pos) : u.pos + n \in 1..Len(s.ins) /\ s.ins[u.pos + n].line \in Lines
  <2>1. \A n \in 1..(upto - u.pos) : u.pos + n \in 1..Len(s.ins)
    BY <1>1, <1>4
  <2>2. \A n \in 1..Len(s.ins) : s.ins[n] \in Insertions
    BY DEF Ready
  <2> QED
    BY <2>1, <2>2 DEF Insertions
<1>6. inserted \in Seq(Lines) /\ Len(inserted) = upto - u.pos
  <2>1. PICK m \in Nat : m = upto - u.pos
    BY <1>1, <1>4
  <2>2. inserted = [n \in 1..m |-> s.ins[u.pos + n].line] /\ \A n \in 1..m : s.ins[u.pos + n].line \in Lines
    BY <1>5, <2>1
  <2> QED
    BY <2>1, <2>2
<1>7. \A n \in 1..Len(inserted) : \E m \in 1..Len(s.ins) : inserted[n] = s.ins[m].line
  BY <1>5, <1>6
<1> HIDE DEF inserted
<1>8. LineOf(s, i) \in Seq(Lines)
  BY DEF LineOf, Ready
<1>9. (u.out \o inserted) \o LineOf(s, i) \in Seq(Lines)
  BY <1>1, <1>6, <1>8
<1>10. UpdateLine(s, u, i).out = (u.out \o inserted) \o LineOf(s, i) /\ UpdateLine(s, u, i) \in UpdateStates(s)
  BY <1>3, <1>4, <1>9 DEF UpdateStates
<1> USE <1>6
<1> WITNESS inserted \in Seq(Lines)
<1> QED
  BY <1>7, <1>10

\* PerformUpdates is what its recursive definition says.
LEMMA UpdatesIs ==
  ASSUME NEW s, Ready(s)
  PROVE  \E u : UpdatesTo(u, s) /\ PerformUpdates(s) = u[Len(s.src)].out
<1> DEFINE n == Len(s.src)
           A == UpdateStates(s)
           b == [pos |-> 0, out |-> <<>>]
           e(f, i) == IF i = 0 THEN [pos |-> 0, out |-> <<>>] ELSE UpdateLine(s, f[i-1], i)
           g == [x \in A \X (1..n) |-> UpdateLine(s, x[1], x[2])]
           F == CHOOSE f : f = [i \in 0..n |-> e(f, i)]
<1>1. n \in Nat /\ b \in A
  BY DEF Ready, UpdateStates
<1>2. \A x \in A, i \in 1..n : UpdateLine(s, x, i) \in A
  BY UpdateLineDoes
<1>3. g \in [A \X (1..n) -> A] /\ \A x \in A, i \in 1..n : g[<<x, i>>] = UpdateLine(s, x, i)
  <2> HIDE DEF n, A
  <2> QED
    BY <1>2
<1> HIDE DEF g, A
<1>4. PICK f : Steps(f, n, A, b, g)
  <2> HIDE DEF n, b
  <2> QED
    BY <1>1, <1>3, ByRecursion
<1>5. /\ n \in 0..n /\ 0 \in 0..n /\ \A i \in 1..n : i \in 0..n /\ i # 0 /\ i - 1 \in 0..n
      /\ \A i \in 0..n : i = 0 \/ i \in 1..n
  BY <1>1
<1>6. UpdatesTo(f, s)
  <2>1. f \in [0..n -> A] /\ f[0] = b /\ \A i \in 1..n : f[i] = g[<<f[i-1], i>>]
    BY <1>4 DEF Steps
  <2>2. \A i \in 1..n : f[i-1] \in A
    <3> HIDE DEF n
    <3> QED
      BY <2>1, <1>5
  <2>3. \A i \in 1..n : g[<<f[i-1], i>>] = UpdateLine(s, f[i-1], i)
    <3> HIDE DEF n
    <3> QED
      BY <1>3, <2>2
  <2> QED
    BY <2>1, <2>3 DEF UpdatesTo, A
<1>7. F = [i \in 0..n |-> e(F, i)]
  <2>1. \A i \in 0..n : f[i] = e(f, i)
    BY <1>5, <1>6 DEF UpdatesTo
  <2> HIDE DEF e
  <2>2. f = [i \in 0..n |-> e(f, i)]
    <3>1. f \in [0..n -> A]
      BY <1>6 DEF UpdatesTo, A
    <3> QED
      BY <2>1, <3>1
  <2> QED
    BY <2>2
<1>8. PerformUpdates(s) = F[n].out
  BY DEF PerformUpdates
<1> HIDE DEF F
<1>9. \A i \in 0..n : F[i] = f[i]
  <2> DEFINE T == {i \in 0..n : F[i] = f[i]}
  <2>1. 0 \in T
    BY <1>5, <1>6, <1>7 DEF UpdatesTo
  <2>2. \A i \in 1..n : i - 1 \in T => i \in T
    <3> SUFFICES ASSUME NEW i \in 1..n, F[i-1] = f[i-1] PROVE i \in T
      OBVIOUS
    <3>1. F[i] = UpdateLine(s, F[i-1], i) /\ f[i] = UpdateLine(s, f[i-1], i)
      BY <1>5, <1>6, <1>7 DEF UpdatesTo
    <3> QED
      BY <3>1, <1>5
  <2> HIDE DEF T, n
  <2>3. \A i \in 0..n : i \in T
    BY <1>1, <2>1, <2>2, Inductive
  <2> QED
    BY <2>3 DEF T
<1> QED
  BY <1>5, <1>6, <1>8, <1>9

-----------------------------------------------------------------------------
(* What performUpdates makes of the lines of some kinds, when none of those *)
(* is inserted.                                                             *)

\* What a line adds to what is left of the output.
LineLeft(s, u, i, S) ==
  Only(UpdateLine(s, u, i).out, S) =
    IF i \notin s.del /\ s.src[i] \in S THEN Append(Only(u.out, S), s.src[i]) ELSE Only(u.out, S)

LEMMA OnlyUpdateLine ==
  ASSUME NEW s, Ready(s), NEW u \in UpdateStates(s), NEW i \in 1..Len(s.src),
         NEW S, \A n \in 1..Len(s.ins) : s.ins[n].line \notin S
  PROVE  LineLeft(s, u, i, S)
<1>1. PICK ins \in Seq(Lines) :
        /\ \A n \in 1..Len(ins) : \E m \in 1..Len(s.ins) : ins[n] = s.ins[m].line
        /\ UpdateLine(s, u, i).out = (u.out \o ins) \o LineOf(s, i)
        /\ UpdateLine(s, u, i) \in UpdateStates(s)
  BY UpdateLineDoes
<1>2. u.out \in Seq(Lines) /\ s.src[i] \in Lines /\ LineOf(s, i) \in Seq(Lines)
  BY DEF UpdateStates, Ready, LineOf
<1>3. \A n \in 1..Len(ins) : ins[n] \notin S
  BY <1>1
<1>4. Only(ins, S) = <<>>
  BY <1>3, OnlyNone
<1>5. u.out \o ins \in Seq(Lines)
  BY <1>2
<1>6. Only(u.out, S) \in Seq(Lines)
  BY <1>2, OnlyIn
<1>7. Only(u.out \o ins, S) = Only(u.out, S)
  <2>1. OnlyApart(u.out, ins, S)
    BY <1>2, OnlyJoined
  <2> QED
    BY <1>4, <1>6, <2>1 DEF OnlyApart
<1> DEFINE v == u.out \o ins
           w == LineOf(s, i)
<1>8. Only(v \o w, S) = Only(v, S) \o Only(w, S)
  <2> HIDE DEF v, w
  <2>1. v \in Seq(Lines) /\ w \in Seq(Lines)
    BY <1>2, <1>5 DEF v, w
  <2> QED
    BY <2>1, OnlyJoined DEF OnlyApart
<1>9. Only(w, S) = IF i \notin s.del /\ s.src[i] \in S THEN <<s.src[i]>> ELSE <<>>
  BY OnlyOne DEF LineOf
<1>10. Only(u.out, S) \o <<>> = Only(u.out, S)
       /\ Only(u.out, S) \o <<s.src[i]>> = Append(Only(u.out, S), s.src[i])
  BY <1>2, <1>6
<1> HIDE DEF w
<1> QED
  BY <1>1, <1>7, <1>8, <1>9, <1>10 DEF w, LineLeft

\* Lines that are neither inserted nor deleted are kept in their order.
LeftFrom(s, u, k, t, S) == Only(u[Len(s.src)].out, S) = Only(u[k].out, S) \o Only(t, S)

LEMMA OnlyUpdatedFrom ==
  ASSUME NEW s, Ready(s), NEW u, UpdatesTo(u, s), NEW k \in 0..Len(s.src), NEW t \in Seq(Lines),
         Len(s.src) = k + Len(t), \A i \in 1..Len(t) : s.src[k + i] = t[i],
         NEW S, \A n \in 1..Len(s.ins) : s.ins[n].line \notin S,
         \A i \in 1..Len(t) : k + i \in s.del => t[i] \notin S
  PROVE  LeftFrom(s, u, k, t, S)
<1> DEFINE n == Len(t)
<1>1. PICK f : OnlyTo(f, t, S) /\ Only(t, S) = f[n]
  BY OnlyIs
<1>2. n \in Nat /\ n \in 0..n /\ 0 \in 0..n /\ Len(s.src) = k + n /\ k + 0 = k /\ k \in Nat
  BY DEF Ready
<1>3. \A i \in 1..n : i \in 0..n /\ i - 1 \in 0..n /\ k + i \in 1..Len(s.src)
      /\ (k + i) - 1 = k + (i - 1) /\ k + (i - 1) \in 0..Len(s.src)
  BY <1>2
<1>4. u[k] \in UpdateStates(s) /\ Only(u[k].out, S) \in Seq(Lines)
  <2>1. u[k] \in UpdateStates(s)
    BY DEF UpdatesTo
  <2>2. u[k].out \in Seq(Lines)
    BY <2>1 DEF UpdateStates
  <2> QED
    BY <2>1, <2>2, OnlyIn
<1> DEFINE o == Only(u[k].out, S)
           T == {i \in 0..n : Only(u[k + i].out, S) = o \o f[i]}
<1> HIDE DEF o
<1>5. 0 \in T
  BY <1>1, <1>2, <1>4 DEF OnlyTo, o
<1>6. \A i \in 1..n : i - 1 \in T => i \in T
  <2> SUFFICES ASSUME NEW i \in 1..n, Only(u[k + (i - 1)].out, S) = o \o f[i-1]
               PROVE  Only(u[k + i].out, S) = o \o f[i]
    BY <1>3
  <2>1. u[k + (i - 1)] \in UpdateStates(s) /\ u[k + i] = UpdateLine(s, u[k + (i - 1)], k + i)
    BY <1>3 DEF UpdatesTo
  <2>2. Only(u[k + i].out, S) = IF k + i \notin s.del /\ s.src[k + i] \in S
                                THEN Append(o \o f[i-1], s.src[k + i]) ELSE o \o f[i-1]
    <3>1. LineLeft(s, u[k + (i - 1)], k + i, S)
      BY <1>3, <2>1, OnlyUpdateLine
    <3> QED
      BY <2>1, <3>1 DEF LineLeft
  <2>3. f[i-1] \in Seq(S) /\ f[i] = IF t[i] \in S THEN Append(f[i-1], t[i]) ELSE f[i-1]
    BY <1>1, <1>3 DEF OnlyTo
  <2>4. t[i] \in S => AppendsLast(o, f[i-1], t[i])
    <3>1. o \in Seq(S)
      <4>1. u[k].out \in Seq(Lines)
        BY <1>4 DEF UpdateStates
      <4> QED
        BY <4>1, OnlyIn DEF o
    <3> QED
      BY <2>3, <3>1, JoinedAppend
  <2>5. s.src[k + i] = t[i] /\ (k + i \in s.del => t[i] \notin S)
    OBVIOUS
  <2> QED
    BY <2>2, <2>3, <2>4, <2>5 DEF AppendsLast
<1> HIDE DEF T
<1>7. \A i \in 0..n : i \in T
  BY <1>2, <1>5, <1>6, Inductive
<1> QED
  BY <1>1, <1>2, <1>7 DEF T, o, LeftFrom

LEMMA OnlyUpdated ==
  ASSUME NEW s, Ready(s), NEW S, \A n \in 1..Len(s.ins) : s.ins[n].line \notin S,
         \A i \in 1..Len(s.src) : i \in s.del => s.src[i] \notin S
  PROVE  Only(PerformUpdates(s), S) = Only(s.src, S)
<1>1. PICK u : UpdatesTo(u, s) /\ PerformUpdates(s) = u[Len(s.src)].out
  BY UpdatesIs
<1>2. s.src \in Seq(Lines) /\ Len(s.src) \in Nat /\ 0 \in 0..Len(s.src) /\ Len(s.src) = 0 + Len(s.src)
      /\ \A i \in 1..Len(s.src) : 0 + i = i
  BY DEF Ready
<1>3. LeftFrom(s, u, 0, s.src, S)
  BY <1>1, <1>2, OnlyUpdatedFrom
<1>4. Only(u[0].out, S) = <<>>
  BY <1>1, OnlyEmpty DEF UpdatesTo
<1>5. Only(s.src, S) \in Seq(Lines)
  BY <1>2, OnlyIn
<1> QED
  BY <1>1, <1>3, <1>4, <1>5 DEF LeftFrom

-----------------------------------------------------------------------------
(* The code of one new object.                                              *)

\* The code of a new object, new objects, and objects that are not deleted.
Tails == {line \in Lines : line.c \in Plain => line = Blank}
NewObjects == {o \in Objects : o.c \in Shapes}
Live == {o \in Objects : ~o.deleted}

\* Joining lists, and the kinds of joined lists.
JoinsLast(s, t, r) == (s \o t) \o r = s \o (t \o r)

LEMMA JoinedJoined ==
  ASSUME NEW S, NEW s \in Seq(S), NEW t \in Seq(S), NEW r \in Seq(S)
  PROVE  JoinsLast(s, t, r)
<1> DEFINE u == (s \o t) \o r
           v == s \o (t \o r)
<1>1. /\ u \in Seq(S) /\ v \in Seq(S) /\ Len(u) = Len(s) + Len(t) + Len(r) /\ Len(v) = Len(u)
      /\ Len(s) \in Nat /\ Len(t) \in Nat /\ Len(r) \in Nat
  BY Joined
<1>2. ASSUME NEW i \in 1..Len(u) PROVE u[i] = v[i]
  <2>1. CASE i \in 1..Len(s)
    BY <2>1, <1>1
  <2>2. CASE i \in (Len(s)+1)..(Len(s) + Len(t))
    BY <2>2, <1>1
  <2>3. CASE i \in (Len(s)+Len(t)+1)..(Len(s) + Len(t) + Len(r))
    BY <2>3, <1>1
  <2> QED
    BY <1>1, <2>1, <2>2, <2>3
<1> HIDE DEF u, v
<1> QED
  BY <1>1, <1>2, SameList DEF u, v, JoinsLast

KindsApart(s, t) == KindsOf(s \o t) = KindsOf(s) \o KindsOf(t)

LEMMA KindsJoined ==
  ASSUME NEW S, NEW s \in Seq(S), NEW t \in Seq(S)
  PROVE  KindsApart(s, t)
<1> DEFINE K == {x.c : x \in S}
           u == KindsOf(s \o t)
           v == KindsOf(s) \o KindsOf(t)
<1>1. KindsOf(s) \in Seq(K) /\ Len(KindsOf(s)) = Len(s) /\ \A i \in 1..Len(s) : KindsOf(s)[i] = s[i].c
  BY DEF KindsOf
<1>2. KindsOf(t) \in Seq(K) /\ Len(KindsOf(t)) = Len(t) /\ \A i \in 1..Len(t) : KindsOf(t)[i] = t[i].c
  BY DEF KindsOf
<1>3. s \o t \in Seq(S) /\ Len(s \o t) = Len(s) + Len(t) /\ Len(s) \in Nat /\ Len(t) \in Nat
  BY Joined
<1>4. u \in Seq(K) /\ Len(u) = Len(s) + Len(t) /\ \A i \in 1..Len(u) : u[i] = (s \o t)[i].c
  <2> DEFINE st == s \o t
  <2>1. st \in Seq(S)
    BY <1>3
  <2> HIDE DEF st
  <2>2. KindsOf(st) \in Seq(K) /\ Len(KindsOf(st)) = Len(st) /\ \A i \in 1..Len(st) : KindsOf(st)[i] = st[i].c
    BY <2>1 DEF KindsOf
  <2> HIDE DEF K
  <2> QED
    BY <1>3, <2>2 DEF st
<1> HIDE DEF K
<1>5. v \in Seq(K) /\ Len(v) = Len(s) + Len(t)
  <2> DEFINE a == KindsOf(s)
             b == KindsOf(t)
  <2>1. a \in Seq(K) /\ b \in Seq(K) /\ Len(a) = Len(s) /\ Len(b) = Len(t)
    BY <1>1, <1>2
  <2> HIDE DEF a, b
  <2>2. a \o b \in Seq(K) /\ Len(a \o b) = Len(a) + Len(b)
    BY <2>1
  <2> QED
    BY <2>1, <2>2 DEF a, b
<1>6. ASSUME NEW i \in 1..Len(u) PROVE u[i] = v[i]
  <2>1. CASE i \in 1..Len(s)
    <3>1. (s \o t)[i] = s[i]
      BY <2>1
    <3>2. v[i] = KindsOf(s)[i]
      BY <1>1, <1>2, <2>1
    <3> QED
      BY <1>1, <1>4, <2>1, <3>1, <3>2
  <2>2. CASE i \in (Len(s)+1)..(Len(s) + Len(t))
    <3>1. (s \o t)[i] = t[i - Len(s)] /\ i - Len(s) \in 1..Len(t)
      BY <1>3, <2>2
    <3>2. v[i] = KindsOf(t)[i - Len(s)]
      BY <1>1, <1>2, <1>3, <2>2
    <3> QED
      BY <1>2, <1>4, <3>1, <3>2
  <2>3. i \in 1..Len(s) \/ i \in (Len(s)+1)..(Len(s) + Len(t))
    <3>1. i \in 1..(Len(s) + Len(t))
      BY <1>4
    <3> QED
      BY <1>3, <3>1
  <2> QED
    BY <2>1, <2>2, <2>3
<1> HIDE DEF u, v
<1>7. u = v
  BY <1>4, <1>5, <1>6, SameList
<1> QED
  BY <1>7 DEF u, v, KindsApart

\* The code of a new object.
Adds(s, o, t, tail) ==
  /\ t \in CommitStates
  /\ t.src = s.src \o tail /\ t.ins = s.ins /\ t.del = s.del
  /\ KindsOf(Only(tail, Shaped)) = IF o.deleted THEN <<>> ELSE <<o.c>>

\* A new object adds its code, with at most one drawing command: its own.
LEMMA AddObjectDoes ==
  ASSUME NEW s \in CommitStates, NEW o \in NewObjects
  PROVE  \E tail \in Seq(Tails) : Adds(s, o, AddObject(s, o), tail)
<1>1. s.src \in Seq(Lines) /\ o \in Objects /\ o.c \in Shapes /\ o.p \in Nat /\ o.q \in Nat /\ o.k \in Nat
  BY DEF CommitStates, NewObjects, Objects
<1>2. CASE o.deleted
  <2>1. AddObject(s, o) = s
    BY <1>2 DEF AddObject
  <2>2. s.src \o <<>> = s.src
    BY <1>1
  <2>3. KindsOf(Only(<<>>, Shaped)) = <<>>
    BY OnlyEmpty DEF KindsOf
  <2>4. <<>> \in Seq(Tails)
    OBVIOUS
  <2>5. Adds(s, o, AddObject(s, o), <<>>)
    BY <1>2, <2>1, <2>2, <2>3 DEF Adds
  <2> QED
    BY <2>4, <2>5
<1>3. CASE ~o.deleted
  <2> DEFINE moves == o.p # s.at
             x == (IF moves THEN <<Blank>> ELSE <<>>)
             y == (IF o.k # s.color THEN <<SetColor(o.k)>> ELSE <<>>)
             z == (IF moves THEN <<AMove(o.p)>> ELSE <<>>)
             head == x \o y \o z
             tail == head \o <<CodeOf(o)>>
             Other == {line \in Tails : line \notin Shaped}
  <2>1. AddObject(s, o) = [s EXCEPT !.src = s.src \o tail, !.at = o.q, !.color = o.k]
    BY <1>3 DEF AddObject
  <2>2. Blank \in Other /\ SetColor(o.k) \in Other /\ AMove(o.p) \in Other
    <3>1. Blank \in Lines /\ Blank.c = "blank"
      <4>1. Blank = [c |-> "blank", p |-> 0, k |-> 1]
        BY DEF Blank, Line, Origin, Black
      <4> QED
        BY <4>1 DEF Lines
    <3> QED
      BY <1>1, <3>1, LinesMade DEF Tails, Shaped, Plain, Shapes
  <2>3. head \in Seq(Other)
    <3>1. x \in Seq(Other) /\ y \in Seq(Other) /\ z \in Seq(Other)
      <4> HIDE DEF Other
      <4> QED
        BY <2>2
    <3> HIDE DEF x, y, z, Other
    <3> QED
      BY <3>1
  <2>4. CodeOf(o) \in Tails /\ CodeOf(o) \in Shaped /\ CodeOf(o).c = o.c
    BY <1>1, CodeTyped DEF Tails, Shaped, Plain, Shapes
  <2> HIDE DEF head
  <2>5. head \in Seq(Tails) /\ head \in Seq(Lines)
    BY <2>3 DEF Tails
  <2>6. tail \in Seq(Tails) /\ tail \in Seq(Lines) /\ tail = Append(head, CodeOf(o))
    BY <2>4, <2>5 DEF Tails
  <2>7. Only(head, Shaped) = <<>>
    <3>1. \A i \in 1..Len(head) : head[i] \notin Shaped
      BY <2>3
    <3> QED
      BY <2>5, <3>1, OnlyNone
  <2>8. Only(Append(head, CodeOf(o)), Shaped) = <<CodeOf(o)>>
    <3>1. Only(Append(head, CodeOf(o)), Shaped) =
            IF CodeOf(o) \in Shaped THEN Append(Only(head, Shaped), CodeOf(o)) ELSE Only(head, Shaped)
      BY <2>4, <2>5, OnlyAppend
    <3>2. Append(<<>>, CodeOf(o)) = <<CodeOf(o)>>
      OBVIOUS
    <3> QED
      BY <2>4, <2>7, <3>1, <3>2
  <2>9. KindsOf(<<CodeOf(o)>>) = <<o.c>>
    BY <2>4 DEF KindsOf
  <2>10. s.src \o tail \in Seq(Lines)
    <3> HIDE DEF tail
    <3> QED
      BY <1>1, <2>6
  <2>11. Adds(s, o, AddObject(s, o), tail)
    <3>1. KindsOf(Only(tail, Shaped)) = <<o.c>>
      BY <2>6, <2>8, <2>9
    <3> HIDE DEF tail
    <3> QED
      BY <1>1, <1>3, <2>1, <2>10, <3>1 DEF Adds, CommitStates
  <2> HIDE DEF tail
  <2> QED
    BY <2>6, <2>11
<1> QED
  BY <1>2, <1>3

-----------------------------------------------------------------------------
(* The code of all new objects.                                             *)

\* f has the script after each new object.
AddsTo(f, s, objects) ==
  /\ f \in [0..Len(objects) -> CommitStates] /\ f[0] = s
  /\ \A i \in 1..Len(objects) : f[i] = AddObject(f[i-1], objects[i])

\* AddObjects is what its recursive definition says.
LEMMA AddsIs ==
  ASSUME NEW s \in CommitStates, NEW objects \in Seq(NewObjects)
  PROVE  \E f : AddsTo(f, s, objects) /\ AddObjects(s, objects) = f[Len(objects)]
<1> DEFINE n == Len(objects)
           A == CommitStates
           e(f, i) == IF i = 0 THEN s ELSE AddObject(f[i-1], objects[i])
           g == [x \in A \X (1..n) |-> AddObject(x[1], objects[x[2]])]
           F == CHOOSE f : f = [i \in 0..n |-> e(f, i)]
<1>1. n \in Nat
  OBVIOUS
<1>2. \A x \in A, i \in 1..n : AddObject(x, objects[i]) \in A
  <2> SUFFICES ASSUME NEW x \in A, NEW i \in 1..n PROVE AddObject(x, objects[i]) \in A
    OBVIOUS
  <2>1. objects[i] \in NewObjects
    OBVIOUS
  <2> QED
    BY <2>1, AddObjectDoes DEF Adds
<1>3. g \in [A \X (1..n) -> A] /\ \A x \in A, i \in 1..n : g[<<x, i>>] = AddObject(x, objects[i])
  <2> HIDE DEF n, A
  <2> QED
    BY <1>2
<1> HIDE DEF g, A
<1>4. PICK f : Steps(f, n, A, s, g)
  <2> HIDE DEF n
  <2>1. s \in A
    BY DEF A
  <2> QED
    BY <1>1, <1>3, <2>1, ByRecursion
<1>5. /\ n \in 0..n /\ 0 \in 0..n /\ \A i \in 1..n : i \in 0..n /\ i # 0 /\ i - 1 \in 0..n
      /\ \A i \in 0..n : i = 0 \/ i \in 1..n
  BY <1>1
<1>6. AddsTo(f, s, objects)
  <2>1. f \in [0..n -> A] /\ f[0] = s /\ \A i \in 1..n : f[i] = g[<<f[i-1], i>>]
    BY <1>4 DEF Steps
  <2>2. \A i \in 1..n : f[i-1] \in A
    <3> HIDE DEF n
    <3> QED
      BY <2>1, <1>5
  <2>3. \A i \in 1..n : g[<<f[i-1], i>>] = AddObject(f[i-1], objects[i])
    <3> HIDE DEF n
    <3> QED
      BY <1>3, <2>2
  <2> QED
    BY <2>1, <2>3 DEF AddsTo, A
<1>7. F = [i \in 0..n |-> e(F, i)]
  <2>1. \A i \in 0..n : f[i] = e(f, i)
    BY <1>5, <1>6 DEF AddsTo
  <2> HIDE DEF e
  <2>2. f = [i \in 0..n |-> e(f, i)]
    <3>1. f \in [0..n -> A]
      BY <1>6 DEF AddsTo, A
    <3> QED
      BY <2>1, <3>1
  <2> QED
    BY <2>2
<1>8. AddObjects(s, objects) = F[n]
  BY DEF AddObjects
<1> HIDE DEF F
<1>9. \A i \in 0..n : F[i] = f[i]
  <2> DEFINE T == {i \in 0..n : F[i] = f[i]}
  <2>1. 0 \in T
    BY <1>5, <1>6, <1>7 DEF AddsTo
  <2>2. \A i \in 1..n : i - 1 \in T => i \in T
    <3> SUFFICES ASSUME NEW i \in 1..n, F[i-1] = f[i-1] PROVE i \in T
      OBVIOUS
    <3>1. F[i] = AddObject(F[i-1], objects[i]) /\ f[i] = AddObject(f[i-1], objects[i])
      BY <1>5, <1>6, <1>7 DEF AddsTo
    <3> QED
      BY <3>1, <1>5
  <2> HIDE DEF T, n
  <2>3. \A i \in 0..n : i \in T
    BY <1>1, <2>1, <2>2, Inductive
  <2> QED
    BY <2>3 DEF T
<1> QED
  BY <1>5, <1>6, <1>8, <1>9

\* The script t is that of s, with a tail that draws the new objects.
AddsAll(s, left, t, tail) ==
  /\ t \in CommitStates
  /\ t.src = s.src \o tail /\ t.ins = s.ins /\ t.del = s.del
  /\ KindsOf(Only(tail, Shaped)) = KindsOf(left)

LEMMA AddsMore ==
  ASSUME NEW s \in CommitStates, NEW left \in Seq(NewObjects), NEW t, NEW tail \in Seq(Tails), AddsAll(s, left, t, tail),
         NEW o \in NewObjects
  PROVE  \E more \in Seq(Tails) : AddsAll(s, IF o.deleted THEN left ELSE Append(left, o), AddObject(t, o), more)
<1>1. t \in CommitStates
  BY DEF AddsAll
<1>2. PICK last \in Seq(Tails) : Adds(t, o, AddObject(t, o), last)
  BY <1>1, AddObjectDoes
<1> DEFINE more == tail \o last
           u == AddObject(t, o)
<1>3. more \in Seq(Tails)
  OBVIOUS
<1>4. s.src \in Seq(Lines) /\ tail \in Seq(Lines) /\ last \in Seq(Lines)
  BY DEF CommitStates, Tails
<1>5. u.src = s.src \o more /\ u.ins = s.ins /\ u.del = s.del /\ u \in CommitStates
  <2>1. JoinsLast(s.src, tail, last)
    BY <1>4, JoinedJoined
  <2> QED
    BY <1>2, <2>1 DEF Adds, AddsAll, JoinsLast
<1>6. KindsOf(Only(more, Shaped)) = KindsOf(Only(tail, Shaped)) \o KindsOf(Only(last, Shaped))
  <2>1. OnlyApart(tail, last, Shaped)
    BY <1>4, OnlyJoined
  <2> DEFINE a == Only(tail, Shaped)
             b == Only(last, Shaped)
  <2>2. a \in Seq(Lines) /\ b \in Seq(Lines)
    BY <1>4, OnlyIn
  <2> HIDE DEF a, b
  <2>3. KindsApart(a, b)
    BY <2>2, KindsJoined
  <2> QED
    BY <2>1, <2>3 DEF a, b, OnlyApart, KindsApart
<1>7. KindsOf(left) \o (IF o.deleted THEN <<>> ELSE <<o.c>>) = KindsOf(IF o.deleted THEN left ELSE Append(left, o))
  <2>1. KindsApart(left, <<o>>)
    <3>1. PICK one : one = <<o>>
      OBVIOUS
    <3>2. one \in Seq(NewObjects)
      BY <3>1
    <3>3. KindsApart(left, one)
      BY <3>2, KindsJoined
    <3> QED
      BY <3>1, <3>3
  <2>2. left \o <<o>> = Append(left, o)
    OBVIOUS
  <2>3. KindsOf(<<o>>) = <<o.c>>
    BY DEF KindsOf
  <2>4. KindsOf(left) \o <<>> = KindsOf(left)
    <3> DEFINE K == {x.c : x \in NewObjects}
    <3>1. KindsOf(left) \in Seq(K)
      BY DEF KindsOf
    <3> QED
      BY <3>1
  <2> QED
    BY <2>1, <2>2, <2>3, <2>4 DEF KindsApart
<1> HIDE DEF more, u
<1>8. AddsAll(s, IF o.deleted THEN left ELSE Append(left, o), u, more)
  BY <1>2, <1>5, <1>6, <1>7 DEF Adds, AddsAll
<1> QED
  BY <1>3, <1>8 DEF u

\* The new objects that are not deleted are drawn by the tail.
LEMMA AddObjectsDoes ==
  ASSUME NEW s \in CommitStates, NEW objects \in Seq(NewObjects)
  PROVE  \E tail \in Seq(Tails) : AddsAll(s, Only(objects, Live), AddObjects(s, objects), tail)
<1> DEFINE n == Len(objects)
<1>1. PICK f : AddsTo(f, s, objects) /\ AddObjects(s, objects) = f[n]
  BY AddsIs
<1>2. PICK h : OnlyTo(h, objects, Live) /\ Only(objects, Live) = h[n]
  BY OnlyIs
<1>3. n \in Nat /\ n \in 0..n /\ 0 \in 0..n /\ \A i \in 1..n : i \in 0..n /\ i - 1 \in 0..n
  OBVIOUS
<1> DEFINE T == {i \in 0..n : h[i] \in Seq(NewObjects) /\ \E tail \in Seq(Tails) : AddsAll(s, h[i], f[i], tail)}
<1>4. 0 \in T
  <2>1. s.src \o <<>> = s.src
    BY DEF CommitStates
  <2>2. KindsOf(Only(<<>>, Shaped)) = KindsOf(<<>>)
    BY OnlyEmpty
  <2>3. AddsAll(s, <<>>, s, <<>>)
    BY <2>1, <2>2 DEF AddsAll
  <2>4. h[0] = <<>> /\ f[0] = s /\ <<>> \in Seq(Tails) /\ <<>> \in Seq(NewObjects)
    BY <1>1, <1>2 DEF OnlyTo, AddsTo
  <2> QED
    BY <1>3, <2>3, <2>4
<1>5. \A i \in 1..n : i - 1 \in T => i \in T
  <2> SUFFICES ASSUME NEW i \in 1..n, i - 1 \in T PROVE i \in T
    OBVIOUS
  <2>1. h[i-1] \in Seq(NewObjects)
    OBVIOUS
  <2>2. PICK tail \in Seq(Tails) : AddsAll(s, h[i-1], f[i-1], tail)
    OBVIOUS
  <2>3. objects[i] \in NewObjects /\ f[i] = AddObject(f[i-1], objects[i])
    BY <1>1 DEF AddsTo
  <2>4. objects[i] \in Live <=> ~objects[i].deleted
    BY <2>3 DEF NewObjects, Live
  <2>5. h[i] = IF objects[i].deleted THEN h[i-1] ELSE Append(h[i-1], objects[i])
    BY <1>2, <2>4 DEF OnlyTo
  <2>6. \E more \in Seq(Tails) : AddsAll(s, IF objects[i].deleted THEN h[i-1] ELSE Append(h[i-1], objects[i]),
                                         AddObject(f[i-1], objects[i]), more)
    BY <2>1, <2>2, <2>3, AddsMore
  <2>7. h[i] \in Seq(NewObjects)
    BY <2>1, <2>3, <2>5
  <2> QED
    BY <1>3, <2>3, <2>5, <2>6, <2>7
<1> HIDE DEF T
<1>6. \A i \in 0..n : i \in T
  BY <1>3, <1>4, <1>5, Inductive
<1> QED
  BY <1>1, <1>2, <1>3, <1>6 DEF T

-----------------------------------------------------------------------------
(* All of the commit; the other lines stay.                                 *)

\* The lines that are neither drawn, nor move, nor set anything.
Others == {line \in Lines : line.c \in {"other", "blank"}}

\* Lists that differ in what is left out only.
LEMMA OnlySame ==
  ASSUME NEW A, NEW s \in Seq(A), NEW t \in Seq(A), NEW S, Len(s) = Len(t),
         \A i \in 1..Len(s) : (s[i] \in S <=> t[i] \in S) /\ (s[i] \in S => s[i] = t[i])
  PROVE  Only(s, S) = Only(t, S)
<1> DEFINE n == Len(s)
<1>1. PICK f : OnlyTo(f, s, S) /\ Only(s, S) = f[n]
  BY OnlyIs
<1>2. PICK g : OnlyTo(g, t, S) /\ Only(t, S) = g[n]
  BY OnlyIs
<1>3. n \in Nat /\ n \in 0..n /\ 0 \in 0..n
  OBVIOUS
<1> DEFINE T == {i \in 0..n : f[i] = g[i]}
<1>4. 0 \in T
  BY <1>1, <1>2, <1>3 DEF OnlyTo
<1>5. \A i \in 1..n : i - 1 \in T => i \in T
  <2> SUFFICES ASSUME NEW i \in 1..n, f[i-1] = g[i-1] PROVE f[i] = g[i]
    OBVIOUS
  <2>1. f[i] = IF s[i] \in S THEN Append(f[i-1], s[i]) ELSE f[i-1]
    BY <1>1 DEF OnlyTo
  <2>2. g[i] = IF t[i] \in S THEN Append(g[i-1], t[i]) ELSE g[i-1]
    BY <1>2 DEF OnlyTo
  <2> QED
    BY <2>1, <2>2
<1> HIDE DEF T
<1>6. \A i \in 0..n : i \in T
  BY <1>3, <1>4, <1>5, Inductive
<1> QED
  BY <1>1, <1>2, <1>3, <1>6 DEF T

\* The steps of a commit.
CommitBy(lines, objects, new, f, tail, t) ==
  /\ CommitTo(f, lines, objects)
  /\ Kept(lines, f[Len(lines)])
  /\ AddsAll(f[Len(lines)], Only(new, Live), t, tail)
  /\ Committed(lines, objects, new) = PerformUpdates(t)

\* A commit is the run, then the new objects, then the updates.
LEMMA CommittedBy ==
  ASSUME NEW lines \in Seq(Lines), NEW objects \in Seq(Objects), NEW new \in Seq(NewObjects)
  PROVE  \E f, t : \E tail \in Seq(Tails) : CommitBy(lines, objects, new, f, tail, t)
<1>1. PICK f : CommitTo(f, lines, objects) /\ CommitRun(lines, objects) = f[Len(lines)]
  BY CommitIs
<1>2. Len(lines) \in 0..Len(lines)
  OBVIOUS
<1>3. Kept(lines, f[Len(lines)]) /\ f[Len(lines)] \in CommitStates
  BY <1>1, <1>2 DEF CommitTo, KeptStates
<1> DEFINE s == f[Len(lines)]
           t == AddObjects(s, new)
<1>4. PICK tail \in Seq(Tails) : AddsAll(s, Only(new, Live), t, tail)
  BY <1>3, AddObjectsDoes
<1>5. Committed(lines, objects, new) = PerformUpdates(t)
  BY <1>1 DEF Committed
<1> QED
  BY <1>1, <1>3, <1>4, <1>5 DEF CommitBy

\* What holds when the updates start.
CommitDone(lines, f, tail, t) ==
  LET n == Len(lines)
  IN  /\ Ready(t) /\ n \in Nat /\ tail \in Seq(Lines) /\ Len(t.src) = n + Len(tail) /\ Len(tail) \in Nat
      /\ f[n].src \in Seq(Lines) /\ Len(f[n].src) = n
      /\ \A i \in 1..n : t.src[i] = f[n].src[i]
      /\ \A i \in 1..Len(tail) : t.src[n + i] = tail[i]
      /\ \A m \in 1..Len(t.ins) : t.ins[m].line.c \in {"set", "amove"}
      /\ t.del = f[n].del
      /\ \A i \in t.del : i \in 1..n /\ t.src[i].c \in Shapes \cup {"amove"}

LEMMA CommitReady ==
  ASSUME NEW lines \in Seq(Lines), NEW objects, NEW new, NEW f, NEW tail \in Seq(Tails), NEW t,
         CommitBy(lines, objects, new, f, tail, t)
  PROVE  CommitDone(lines, f, tail, t)
<1> DEFINE n == Len(lines)
           s == f[n]
<1>1. Kept(lines, s) /\ s.src \in Seq(Lines) /\ Len(s.src) = n /\ n \in Nat
  BY DEF CommitBy, Kept, CommitStates
<1>2. t \in CommitStates /\ t.src = s.src \o tail /\ t.ins = s.ins /\ t.del = s.del
  BY DEF CommitBy, AddsAll
<1>3. tail \in Seq(Lines) /\ Len(tail) \in Nat
  BY DEF Tails
<1> HIDE DEF s
<1>4. /\ Len(t.src) = n + Len(tail)
      /\ \A i \in 1..n : t.src[i] = s.src[i]
      /\ \A i \in 1..Len(tail) : t.src[n + i] = tail[i]
  <2> DEFINE a == s.src
  <2>1. a \in Seq(Lines) /\ Len(a) = n /\ t.src = a \o tail
    BY <1>1, <1>2
  <2> HIDE DEF a, n
  <2>2. /\ Len(a \o tail) = n + Len(tail)
        /\ \A i \in 1..n : (a \o tail)[i] = a[i]
        /\ \A i \in 1..Len(tail) : (a \o tail)[n + i] = tail[i]
    <3>0. a \in Seq(Lines) /\ tail \in Seq(Lines)
      BY <1>3, <2>1
    <3>1. Len(a \o tail) = Len(a) + Len(tail)
      BY <3>0
    <3>2. \A i \in 1..Len(a) : (a \o tail)[i] = a[i]
      BY <3>0
    <3>3. \A i \in 1..Len(tail) : (a \o tail)[Len(a) + i] = tail[i]
      BY <3>0
    <3> QED
      BY <2>1, <3>1, <3>2, <3>3
  <2> QED
    BY <2>1, <2>2 DEF a
<1>5. Ready(t)
  BY <1>2 DEF Ready, CommitStates
<1>6. \A i \in t.del : i \in 1..n /\ t.src[i].c \in Shapes \cup {"amove"}
  BY <1>1, <1>2, <1>4 DEF Kept
<1>7. \A m \in 1..Len(t.ins) : t.ins[m].line.c \in {"set", "amove"}
  BY <1>1, <1>2 DEF Kept
<1> QED
  BY <1>1, <1>2, <1>3, <1>4, <1>5, <1>6, <1>7 DEF s, CommitDone

\* A commit makes a script.
LEMMA CommittedTyped ==
  ASSUME NEW lines \in Seq(Lines), NEW objects \in Seq(Objects), NEW new \in Seq(NewObjects)
  PROVE  Committed(lines, objects, new) \in Seq(Lines)
<1>1. PICK f, t : \E tail \in Seq(Tails) : CommitBy(lines, objects, new, f, tail, t)
  BY CommittedBy
<1>2. PICK tail \in Seq(Tails) : CommitBy(lines, objects, new, f, tail, t)
  BY <1>1
<1>3. Ready(t)
  BY <1>2, CommitReady DEF CommitDone
<1>4. PICK u : UpdatesTo(u, t) /\ PerformUpdates(t) = u[Len(t.src)].out
  BY <1>3, UpdatesIs
<1>5. Len(t.src) \in 0..Len(t.src)
  BY <1>3 DEF Ready
<1>6. u[Len(t.src)] \in UpdateStates(t)
  BY <1>4, <1>5 DEF UpdatesTo
<1> QED
  BY <1>2, <1>4, <1>6 DEF CommitBy, UpdateStates

\* The other lines stay.
LEMMA OthersStay ==
  ASSUME NEW lines \in Seq(Lines), NEW objects \in Seq(Objects), NEW new \in Seq(NewObjects)
  PROVE  \E more \in Seq(Lines) :
           /\ Only(Committed(lines, objects, new), Others) = Only(lines, Others) \o more
           /\ \A i \in 1..Len(more) : more[i] = Blank
<1>1. PICK f, t : \E tail \in Seq(Tails) : CommitBy(lines, objects, new, f, tail, t)
  BY CommittedBy
<1>2. PICK tail \in Seq(Tails) : CommitBy(lines, objects, new, f, tail, t)
  BY <1>1
<1> DEFINE n == Len(lines)
           s == f[n]
<1>3. /\ Ready(t) /\ n \in Nat /\ tail \in Seq(Lines) /\ Len(t.src) = n + Len(tail)
      /\ s.src \in Seq(Lines) /\ Len(s.src) = n
      /\ \A i \in 1..n : t.src[i] = s.src[i]
      /\ \A m \in 1..Len(t.ins) : t.ins[m].line.c \in {"set", "amove"}
      /\ \A i \in t.del : i \in 1..n /\ t.src[i].c \in Shapes \cup {"amove"}
  <2>1. CommitDone(lines, f, tail, t)
    BY <1>2, CommitReady
  <2> QED
    BY <2>1 DEF CommitDone
<1>4. Kept(lines, s) /\ t.src = s.src \o tail
  BY <1>2 DEF CommitBy, AddsAll
<1> HIDE DEF s
<1>5. Only(PerformUpdates(t), Others) = Only(t.src, Others)
  <2>1. \A m \in 1..Len(t.ins) : t.ins[m].line \notin Others
    BY <1>3 DEF Others
  <2>2. \A i \in 1..Len(t.src) : i \in t.del => t.src[i] \notin Others
    BY <1>3 DEF Others, Shapes
  <2> QED
    BY <1>3, <2>1, <2>2, OnlyUpdated
<1>6. Only(s.src, Others) = Only(lines, Others)
  <2>1. \A i \in 1..n : /\ s.src[i].c = lines[i].c /\ s.src[i] \in Lines /\ lines[i] \in Lines
                        /\ lines[i].c \in {"other", "blank"} => s.src[i] = lines[i]
    <3>1. \A i \in 1..n : s.src[i] \in Lines /\ lines[i] \in Lines
      BY <1>3
    <3> QED
      BY <1>4, <3>1 DEF Kept, Plain
  <2>2. \A i \in 1..n : (s.src[i] \in Others <=> lines[i] \in Others)
        /\ (s.src[i] \in Others => s.src[i] = lines[i])
    BY <2>1 DEF Others
  <2>3. \A i \in 1..Len(s.src) : (s.src[i] \in Others <=> lines[i] \in Others)
        /\ (s.src[i] \in Others => s.src[i] = lines[i])
    BY <1>3, <2>2
  <2>4. s.src \in Seq(Lines) /\ Len(s.src) = Len(lines)
    BY <1>3
  <2> QED
    BY <2>3, <2>4, OnlySame
<1> DEFINE more == Only(tail, Others)
<1>7. OnlyApart(s.src, tail, Others)
  BY <1>3, OnlyJoined
<1>8. more \in Seq(Tails) /\ more \in Seq(Others) /\ more \in Seq(Lines)
  BY <1>3, OnlyIn
<1> HIDE DEF more
<1>9. \A i \in 1..Len(more) : more[i] = Blank
  <2>1. \A i \in 1..Len(more) : more[i] \in Tails /\ more[i] \in Others
    BY <1>8
  <2> QED
    BY <2>1 DEF Tails, Others, Plain
<1>10. Only(Committed(lines, objects, new), Others) = Only(lines, Others) \o more
  BY <1>2, <1>4, <1>5, <1>6, <1>7 DEF CommitBy, OnlyApart, more
<1> QED
  BY <1>8, <1>9, <1>10

-----------------------------------------------------------------------------
(* A commit of what the script draws changes nothing.                       *)

\* The object of a command that draws, when the objects are of the kinds drawn.
LEMMA OwnKind ==
  ASSUME NEW lines \in Seq(Lines), NEW objects \in Seq(Objects), KindsOf(objects) = KindsOf(Drawn(lines)),
         NEW f, CommitTo(f, lines, objects), NEW i \in 1..Len(lines), lines[i].c \in Shapes
  PROVE  LET m == Len(Run(lines)[i].drawn)
         IN  m = f[i-1].next /\ m \in 1..Len(objects) /\ objects[m].c = lines[i].c /\ objects[m] \in Objects
<1> DEFINE m == Len(Run(lines)[i].drawn)
<1>1. /\ m = Len(Run(lines)[i-1].drawn) + 1 /\ m \in DOMAIN Drawn(lines)
      /\ Drawn(lines)[m] = ObjectOf(lines[i], Run(lines)[i-1])
  BY OwnObject
<1>2. i - 1 \in 0..Len(lines)
  OBVIOUS
<1>3. m = f[i-1].next
  <2>1. f[i-1].next = Len(Run(lines)[i-1].drawn) + 1
    BY <1>2, NextObject
  <2> QED
    BY <1>1, <2>1
<1>4. DOMAIN KindsOf(objects) = 1..Len(objects) /\ DOMAIN KindsOf(Drawn(lines)) = DOMAIN Drawn(lines)
  BY DEF KindsOf
<1> HIDE DEF m
<1>5. m \in 1..Len(objects)
  BY <1>1, <1>4
<1>6. KindsOf(objects)[m] = objects[m].c /\ KindsOf(Drawn(lines))[m] = Drawn(lines)[m].c
  BY <1>1, <1>5 DEF KindsOf
<1>7. objects[m].c = lines[i].c
  BY <1>1, <1>6 DEF ObjectOf
<1> QED
  BY <1>3, <1>5, <1>7 DEF m

\* Objects that look as drawn are those the commands make.
LEMMA SameAsDrawn ==
  ASSUME NEW lines \in Seq(Lines), NEW objects \in Seq(Objects), Look(objects) = Drawn(lines)
  PROVE  /\ KindsOf(objects) = KindsOf(Drawn(lines))
         /\ \A m \in 1..Len(objects) : Drawn(lines)[m] = [c |-> objects[m].c, p |-> objects[m].p,
                                                          q |-> objects[m].q, k |-> objects[m].k]
<1>1. \A m \in 1..Len(objects) : Look(objects)[m] = [c |-> objects[m].c, p |-> objects[m].p,
                                                     q |-> objects[m].q, k |-> objects[m].k]
  BY DEF Look
<1>2. DOMAIN Look(objects) = 1..Len(objects) /\ DOMAIN objects = 1..Len(objects)
  BY DEF Look
<1>3. \A m \in 1..Len(objects) : Drawn(lines)[m].c = objects[m].c
  <2>1. \A m \in 1..Len(objects) : Look(objects)[m].c = objects[m].c
    BY DEF Look
  <2> QED
    BY <2>1
<1>4. DOMAIN Drawn(lines) = 1..Len(objects)
  BY <1>2
<1>5. KindsOf(objects) = KindsOf(Drawn(lines))
  BY <1>2, <1>3, <1>4 DEF KindsOf
<1> QED
  BY <1>1, <1>5

\* A commit of what the script draws changes nothing.
LEMMA CommitStable ==
  ASSUME NEW lines \in Seq(Lines), NEW objects \in Seq(Objects), Look(objects) = Drawn(lines),
         \A m \in 1..Len(objects) : ~objects[m].deleted
  PROVE  Committed(lines, objects, <<>>) = lines
<1> DEFINE n == Len(lines)
           r == Run(lines)
           Same(s, i) == s.at = r[i].at /\ s.color = r[i].color /\ s.src = lines /\ s.ins = <<>> /\ s.del = {}
<1>1. RunsTo(r, lines) /\ n \in Nat /\ n \in 0..n /\ 0 \in 0..n /\ \A i \in 1..n : i \in 0..n /\ i - 1 \in 0..n
  BY DrawnIs
<1>2. <<>> \in Seq(NewObjects)
  OBVIOUS
<1>3. PICK f : CommitTo(f, lines, objects) /\ CommitRun(lines, objects) = f[n]
  BY CommitIs
<1> DEFINE T == {i \in 0..n : Same(f[i], i)}
<1>4. 0 \in T
  BY <1>1, <1>3 DEF CommitTo, CommitStart, RunsTo, Start0
<1>5. \A i \in 1..n : i - 1 \in T => i \in T
  <2> SUFFICES ASSUME NEW i \in 1..n, Same(f[i-1], i-1) PROVE Same(f[i], i)
    OBVIOUS
  <2> DEFINE s == f[i-1]
             z == r[i-1]
  <2>1. f[i] = CommitLine(lines, objects, s, i) /\ s \in CommitStates
    BY <1>1, <1>3 DEF CommitTo, KeptStates
  <2>2. r[i] = RunLine(lines[i], z) /\ z \in States
    BY <1>1 DEF RunsTo
  <2>3. CASE lines[i].c \notin Shapes
    <3>1. f[i] = PassLine(lines[i], s) /\ r[i] = PassLine(lines[i], z)
      BY <2>1, <2>2, <2>3 DEF CommitLine, RunLine
    <3>2. Same(s, i-1)
      OBVIOUS
    <3> HIDE DEF r, s
    <3> QED
      BY <2>1, <2>2, <3>1, <3>2 DEF CommitStates, States, PassLine
  <2>4. CASE lines[i].c \in Shapes
    <3> DEFINE m == Len(r[i].drawn)
               o == objects[m]
               t == [s EXCEPT !.next = s.next + 1]
    <3>1. m = s.next /\ m \in 1..Len(objects) /\ o.c = lines[i].c /\ o \in Objects
      BY <1>3, <2>4, SameAsDrawn, OwnKind
    <3>2. [c |-> o.c, p |-> o.p, q |-> o.q, k |-> o.k] = ObjectOf(lines[i], z)
      BY <2>4, <3>1, SameAsDrawn, OwnObject
    <3> HIDE DEF m, r
    <3>3. ~o.deleted
      BY <3>1
    <3> HIDE DEF o
    <3>4. t.at = z.at /\ t.color = z.color /\ t.src = lines /\ t.ins = <<>> /\ t.del = {}
          /\ t \in [at : Nat, color : Nat, next : Nat, src : Seq(Lines), ins : Seq(Insertions), del : SUBSET Nat, stray : BOOLEAN]
      <4>1. s.next \in Nat /\ s.next + 1 \in Nat
        BY <2>1 DEF CommitStates
      <4> QED
        BY <2>1, <4>1 DEF CommitStates
    <3>5. ObjectOf(lines[i], t) = ObjectOf(lines[i], z)
      BY <3>4 DEF ObjectOf
    <3>6. f[i] = Compare(lines, t, i, o)
      BY <2>1, <2>4, <3>1 DEF CommitLine, o
    <3> HIDE DEF t
    <3>7. o.k = t.color /\ o.p = ObjectOf(lines[i], t).p /\ o.q = ObjectOf(lines[i], t).q
      <4>1. ObjectOf(lines[i], t).k = t.color
        BY DEF ObjectOf
      <4> QED
        BY <3>2, <3>5, <4>1
    <3>8. f[i] = [t EXCEPT !.at = o.q]
      BY <3>3, <3>6, <3>7 DEF Compare
    <3>9. r[i].at = o.q /\ r[i].color = z.color
      <4>1. r[i].at = ObjectOf(lines[i], z).q /\ r[i].color = z.color
        BY <2>2, <2>4 DEF RunLine, States
      <4> QED
        BY <4>1, <3>5, <3>7
    <3> QED
      BY <3>4, <3>8, <3>9
  <2> QED
    BY <2>3, <2>4
<1> HIDE DEF T
<1>6. \A i \in 0..n : i \in T
  BY <1>1, <1>4, <1>5, Inductive
<1> DEFINE s == f[n]
<1>7. s.src = lines /\ s.ins = <<>> /\ s.del = {}
  BY <1>1, <1>6 DEF T
<1>8. AddObjects(s, <<>>) = s
  <2>1. s \in CommitStates
    BY <1>1, <1>3 DEF CommitTo, KeptStates
  <2>2. PICK g : AddsTo(g, s, <<>>) /\ AddObjects(s, <<>>) = g[Len(<<>>)]
    <3> HIDE DEF s
    <3> QED
      BY <1>2, <2>1, AddsIs
  <2> QED
    BY <2>2 DEF AddsTo
<1>9. Committed(lines, objects, <<>>) = PerformUpdates(s)
  BY <1>3, <1>8 DEF Committed
<1> HIDE DEF s
<1>10. Only(PerformUpdates(s), Lines) = Only(lines, Lines)
  <2>1. Ready(s)
    BY <1>7 DEF Ready
  <2>2. (\A x \in 1..Len(s.ins) : s.ins[x].line \notin Lines)
        /\ (\A i \in 1..Len(s.src) : i \in s.del => s.src[i] \notin Lines)
    BY <1>7
  <2> QED
    BY <1>7, <2>1, <2>2, OnlyUpdated
<1>11. PerformUpdates(s) \in Seq(Lines)
  BY <1>2, <1>9, CommittedTyped
<1>12. Only(PerformUpdates(s), Lines) = PerformUpdates(s) /\ Only(lines, Lines) = lines
  <2>1. \A x \in Seq(Lines) : Only(x, Lines) = x
    <3> SUFFICES ASSUME NEW x \in Seq(Lines) PROVE Only(x, Lines) = x
      OBVIOUS
    <3>1. \A i \in 1..Len(x) : x[i] \in Lines
      OBVIOUS
    <3> QED
      BY <3>1, OnlyAll
  <2> QED
    BY <1>11, <2>1
<1> QED
  BY <1>9, <1>10, <1>12

-----------------------------------------------------------------------------
(* What the script draws after a commit.                                    *)

\* A command is scheduled for deletion when its object is deleted.
LEMMA DeletedIff ==
  ASSUME NEW lines \in Seq(Lines), NEW objects \in Seq(Objects), KindsOf(objects) = KindsOf(Drawn(lines)),
         NEW f, CommitTo(f, lines, objects), NEW i \in 1..Len(lines), lines[i].c \in Shapes
  PROVE  i \in f[Len(lines)].del <=> objects[Len(Run(lines)[i].drawn)].deleted
<1> DEFINE n == Len(lines)
           o == objects[Len(Run(lines)[i].drawn)]
           T == {j \in 0..n : i \in f[j].del <=> j >= i /\ o.deleted}
<1>1. n \in Nat /\ n \in 0..n /\ 0 \in 0..n /\ n >= i
  OBVIOUS
<1>2. o = objects[f[i-1].next] /\ f[i-1].next \in DOMAIN objects /\ o.c = lines[i].c
  BY OwnKind
<1> HIDE DEF o
<1>3. 0 \in T
  BY <1>1 DEF CommitTo, CommitStart
<1>4. \A j \in 1..n : j - 1 \in T => j \in T
  <2> SUFFICES ASSUME NEW j \in 1..n, i \in f[j-1].del <=> j - 1 >= i /\ o.deleted
               PROVE  i \in f[j].del <=> j >= i /\ o.deleted
    OBVIOUS
  <2>1. j - 1 \in 0..n
    OBVIOUS
  <2>2. Kept(lines, f[j-1])
    BY <2>1 DEF CommitTo, KeptStates
  <2>3. LineDone(lines, objects, f[j-1], j, CommitLine(lines, objects, f[j-1], j))
    BY <2>2, CommitLineKeeps
  <2>4. f[j].del = IF lines[j].c \in Shapes /\ f[j-1].next \in DOMAIN objects
        /\ objects[f[j-1].next].c = lines[j].c
                      /\ objects[f[j-1].next].deleted
                   THEN f[j-1].del \cup DeletedWith(lines, j) ELSE f[j-1].del
    BY <2>3 DEF LineDone, CommitTo
  <2>5. CASE j = i
    <3>1. i \in DeletedWith(lines, i)
      BY DeletedWithIs
    <3> QED
      BY <1>2, <2>4, <2>5, <3>1
  <2>6. CASE j # i
    <3>1. lines[j].c \in Shapes => i \notin DeletedWith(lines, j)
      <4>1. lines[i].c # "amove"
        BY DEF Shapes
      <4> QED
        BY <2>6, <4>1, DeletedWithIs
    <3>2. j - 1 >= i <=> j >= i
      BY <2>6
    <3> QED
      BY <2>4, <3>1, <3>2
  <2> QED
    BY <2>5, <2>6
<1> HIDE DEF T
<1>5. \A j \in 0..n : j \in T
  BY <1>1, <1>3, <1>4, Inductive
<1> QED
  BY <1>1, <1>5 DEF T, o

\* Kinds of one more object.
LEMMA KindsAppend ==
  ASSUME NEW S, NEW s \in Seq(S), NEW x \in S
  PROVE  KindsOf(Append(s, x)) = Append(KindsOf(s), x.c)
<1>1. PICK one : one = <<x>>
  OBVIOUS
<1>2. one \in Seq(S)
  BY <1>1
<1>3. KindsApart(s, one)
  BY <1>2, KindsJoined
<1>4. KindsOf(one) = <<x.c>>
  BY <1>1 DEF KindsOf
<1>5. Append(s, x) = s \o one
  BY <1>1
<1> DEFINE K == {y.c : y \in S}
<1>6. KindsOf(s) \in Seq(K) /\ x.c \in K
  BY DEF KindsOf
<1> HIDE DEF K
<1>7. KindsOf(s) \o <<x.c>> = Append(KindsOf(s), x.c)
  BY <1>6
<1> QED
  BY <1>3, <1>4, <1>5, <1>7 DEF KindsApart

\* The objects the script draws after a commit.
LEMMA KindsCommitted ==
  ASSUME NEW lines \in Seq(Lines), NEW objects \in Seq(Objects), NEW new \in Seq(NewObjects),
         KindsOf(objects) = KindsOf(Drawn(lines))
  PROVE  KindsOf(Drawn(Committed(lines, objects, new))) = KindsOf(Only(objects, Live)) \o KindsOf(Only(new, Live))
<1>1. PICK f, t : \E tail \in Seq(Tails) : CommitBy(lines, objects, new, f, tail, t)
  BY CommittedBy
<1>2. PICK tail \in Seq(Tails) : CommitBy(lines, objects, new, f, tail, t)
  BY <1>1
<1> DEFINE n == Len(lines)
           r == Run(lines)
           s == f[n]
           m(i) == Len(r[i].drawn)
<1>3. CommitDone(lines, f, tail, t) /\ CommitTo(f, lines, objects)
  BY <1>2, CommitReady DEF CommitBy
<1>4. /\ Ready(t) /\ n \in Nat /\ tail \in Seq(Lines) /\ Len(t.src) = n + Len(tail) /\ Len(tail) \in Nat
      /\ \A i \in 1..n : t.src[i] = s.src[i]
      /\ \A i \in 1..Len(tail) : t.src[n + i] = tail[i]
      /\ \A x \in 1..Len(t.ins) : t.ins[x].line.c \in {"set", "amove"}
      /\ t.del = s.del /\ \A i \in t.del : i \in 1..n
  BY <1>3 DEF CommitDone
<1>5. \A x \in 1..Len(t.ins) : t.ins[x].line \notin Shaped
  BY <1>4 DEF Shaped, Shapes
<1>6. PICK u : UpdatesTo(u, t) /\ PerformUpdates(t) = u[Len(t.src)].out
  BY <1>4, UpdatesIs
<1>7. PICK h : OnlyTo(h, objects, Live) /\ Only(objects, Live) = h[Len(objects)]
  BY OnlyIs
<1>8. Kept(lines, s)
  BY <1>2 DEF CommitBy
<1>9. RunsTo(r, lines)
  BY DrawnIs
<1> DEFINE T == {i \in 0..n : KindsOf(Only(u[i].out, Shaped)) = KindsOf(h[m(i)])}
<1>10. /\ 0 \in 0..n /\ n \in 0..n
       /\ \A i \in 1..n : i \in 0..n /\ i - 1 \in 0..n /\ i \in 1..Len(t.src) /\ i - 1 \in 0..Len(t.src)
  BY <1>4
<1>11. 0 \in T
  <2>1. u[0].out = <<>> /\ m(0) = 0 /\ h[0] = <<>>
    BY <1>6, <1>7, <1>9 DEF UpdatesTo, RunsTo, Start0, OnlyTo
  <2> QED
    BY <1>10, <2>1, OnlyEmpty
<1>12. \A i \in 1..n : i - 1 \in T => i \in T
  <2> SUFFICES ASSUME NEW i \in 1..n, i - 1 \in T PROVE i \in T
    OBVIOUS
  <2>1. KindsOf(Only(u[i-1].out, Shaped)) = KindsOf(h[m(i-1)])
    OBVIOUS
  <2>2. u[i-1] \in UpdateStates(t) /\ u[i] = UpdateLine(t, u[i-1], i)
    BY <1>6, <1>10 DEF UpdatesTo
  <2>3. LineLeft(t, u[i-1], i, Shaped)
    BY <1>4, <1>5, <1>10, <2>2, OnlyUpdateLine
  <2> DEFINE a == Only(u[i-1].out, Shaped)
  <2>4. Only(u[i].out, Shaped) = IF i \notin s.del /\ t.src[i] \in Shaped THEN Append(a, t.src[i]) ELSE a
    BY <1>4, <2>2, <2>3 DEF LineLeft
  <2>5. t.src[i] \in Lines /\ t.src[i].c = lines[i].c /\ lines[i] \in Lines
    <3>1. t.src \in Seq(Lines)
      BY <1>4 DEF Ready
    <3>2. t.src[i] \in Lines
      BY <1>10, <3>1
    <3> QED
      <4>1. s.src[i].c = lines[i].c
        BY <1>8 DEF Kept
      <4>2. t.src[i] = s.src[i]
        BY <1>4
      <4> QED
        BY <3>2, <4>1, <4>2
  <2>6. a \in Seq(Lines)
    <3>1. u[i-1].out \in Seq(Lines)
      BY <2>2 DEF UpdateStates
    <3> QED
      BY <3>1, OnlyIn
  <2>7. /\ r[i-1].drawn \in Seq(Looks)
        /\ r[i].drawn = IF lines[i].c \in Shapes THEN Append(r[i-1].drawn, ObjectOf(lines[i], r[i-1]))
                        ELSE r[i-1].drawn
    <3> HIDE DEF r
    <3> QED
      BY <1>9, OneLineDraws
  <2>8. CASE lines[i].c \notin Shapes
    <3>1. m(i) = m(i-1)
      BY <2>7, <2>8
    <3>2. t.src[i] \notin Shaped
      BY <2>5, <2>8 DEF Shaped
    <3> QED
      BY <1>10, <2>1, <2>4, <3>1, <3>2
  <2>9. CASE lines[i].c \in Shapes
    <3>1. m(i) = m(i-1) + 1
      BY <2>9, OwnObject
    <3>2. m(i) \in 1..Len(objects) /\ objects[m(i)].c = lines[i].c /\ objects[m(i)] \in Objects
      BY <1>3, <2>9, OwnKind
    <3>3. i \in s.del <=> objects[m(i)].deleted
      BY <1>3, <2>9, DeletedIff
    <3>4. t.src[i] \in Shaped
      BY <2>5, <2>9 DEF Shaped
    <3>5. m(i-1) \in Nat
      BY <2>7
    <3> DEFINE k == m(i)
    <3> HIDE DEF m, a
    <3>6. k - 1 = m(i-1) /\ k \in 1..Len(objects)
      BY <3>1, <3>2, <3>5
    <3> HIDE DEF k
    <3>7. h[k-1] \in Seq(Live) /\ h[k] = IF objects[k] \in Live THEN Append(h[k-1], objects[k]) ELSE h[k-1]
      <4>1. k - 1 \in 0..Len(objects)
        BY <3>6
      <4> QED
        BY <1>7, <3>6, <4>1 DEF OnlyTo
    <3>8. objects[k] \in Live <=> i \notin s.del
      BY <3>2, <3>3 DEF k, Live
    <3>9. CASE i \in s.del
      <4>1. Only(u[i].out, Shaped) = a /\ h[k] = h[k-1]
        BY <2>4, <3>7, <3>8, <3>9
      <4>2. KindsOf(a) = KindsOf(h[k-1])
        BY <2>1, <3>6 DEF a
      <4> QED
        BY <1>10, <4>1, <4>2 DEF k
    <3>10. CASE i \notin s.del
      <4>1. Only(u[i].out, Shaped) = Append(a, t.src[i]) /\ h[k] = Append(h[k-1], objects[k])
        BY <2>4, <3>4, <3>7, <3>8, <3>10
      <4>2. KindsOf(a) = KindsOf(h[k-1])
        BY <2>1, <3>6 DEF a
      <4>3. KindsOf(Append(a, t.src[i])) = Append(KindsOf(a), t.src[i].c)
        BY <2>5, <2>6, KindsAppend
      <4>4. KindsOf(Append(h[k-1], objects[k])) = Append(KindsOf(h[k-1]), objects[k].c)
        BY <3>7, <3>8, <3>10, KindsAppend
      <4>5. t.src[i].c = objects[k].c
        BY <2>5, <3>2 DEF k
      <4> QED
        BY <1>10, <4>1, <4>2, <4>3, <4>4, <4>5 DEF k
    <3> QED
      BY <3>9, <3>10
  <2> QED
    BY <2>8, <2>9
<1> HIDE DEF T
<1>13. \A i \in 0..n : i \in T
  BY <1>4, <1>11, <1>12, Inductive
<1>14. m(n) = Len(objects)
  <2>1. m(n) = Len(Drawn(lines)) /\ Drawn(lines) \in Seq(Looks)
    BY DrawnIs
  <2>2. DOMAIN KindsOf(objects) = 1..Len(objects) /\ DOMAIN KindsOf(Drawn(lines)) = 1..Len(Drawn(lines))
    BY <2>1 DEF KindsOf
  <2> HIDE DEF m
  <2>3. Len(objects) \in Nat /\ Len(Drawn(lines)) \in Nat
    BY <2>1
  <2> QED
    BY <2>1, <2>2, <2>3
<1>15. KindsOf(Only(u[n].out, Shaped)) = KindsOf(Only(objects, Live))
  BY <1>7, <1>10, <1>13, <1>14 DEF T
<1>16. LeftFrom(t, u, n, tail, Shaped)
  <2>1. n \in 0..Len(t.src)
    BY <1>4
  <2>2. \A i \in 1..Len(tail) : n + i \in t.del => tail[i] \notin Shaped
    BY <1>4
  <2> QED
    BY <1>4, <1>5, <1>6, <2>1, <2>2, OnlyUpdatedFrom
<1>17. KindsOf(Only(PerformUpdates(t), Shaped)) = KindsOf(Only(u[n].out, Shaped)) \o KindsOf(Only(tail, Shaped))
  <2> DEFINE a == Only(u[n].out, Shaped)
             b == Only(tail, Shaped)
  <2>1. a \in Seq(Lines) /\ b \in Seq(Lines)
    <3>1. n \in 0..Len(t.src)
      BY <1>4
    <3>2. u[n].out \in Seq(Lines)
      BY <1>6, <3>1 DEF UpdatesTo, UpdateStates
    <3> QED
      BY <1>4, <3>2, OnlyIn
  <2> HIDE DEF a, b
  <2>2. KindsApart(a, b)
    BY <2>1, KindsJoined
  <2> QED
    BY <1>6, <1>16, <2>2 DEF a, b, KindsApart, LeftFrom
<1>18. KindsOf(Only(tail, Shaped)) = KindsOf(Only(new, Live))
  BY <1>2 DEF CommitBy, AddsAll
<1>19. Committed(lines, objects, new) = PerformUpdates(t) /\ Committed(lines, objects, new) \in Seq(Lines)
  BY <1>2, CommittedTyped DEF CommitBy
<1>20. KindsOf(Drawn(PerformUpdates(t))) = KindsOf(Only(PerformUpdates(t), Shaped))
  BY <1>19, KindsDrawn
<1> QED
  BY <1>15, <1>17, <1>18, <1>19, <1>20

-----------------------------------------------------------------------------
(* removeDeletedObjects.                                                    *)

\* c is a, and then b.
IsJoin(c, a, b, S) ==
  /\ c \in Seq(S) /\ Len(c) = Len(a) + Len(b) /\ Len(a) \in Nat /\ Len(b) \in Nat
  /\ \A i \in 1..Len(a) : c[i] = a[i]
  /\ \A i \in 1..Len(b) : c[Len(a) + i] = b[i]

LEMMA JoinIs ==
  ASSUME NEW S, NEW a \in Seq(S), NEW b \in Seq(S)
  PROVE  IsJoin(a \o b, a, b, S)
BY Joined DEF IsJoin

\* What is removed from a list in which one object at most is deleted.
LEMMA RemoveDeletedIn ==
  ASSUME NEW S, NEW list \in Seq(S), NEW D
  PROVE  RemoveDeleted(list, D) \in Seq(S)
<1> DEFINE G(i) == {j \in 1..i : list[j] \in D}
           gone(i) == Cardinality(G(i))
           n == Len(list)
<1>1. n \in Nat
  OBVIOUS
<1>2. \A i \in 0..n : IsFiniteSet(G(i)) /\ gone(i) \in Nat /\ gone(i) <= gone(n) /\ gone(i) <= i
  <2> SUFFICES ASSUME NEW i \in 0..n
               PROVE  IsFiniteSet(G(i)) /\ gone(i) \in Nat /\ gone(i) <= gone(n) /\ gone(i) <= i
    OBVIOUS
  <2>1. IsFiniteSet(1..i) /\ Cardinality(1..i) = i /\ IsFiniteSet(1..n)
    BY FS_Interval
  <2>2. G(i) \in SUBSET (1..i) /\ G(n) \in SUBSET (1..n) /\ G(i) \in SUBSET G(n)
    OBVIOUS
  <2> HIDE DEF G
  <2>3. IsFiniteSet(G(i)) /\ IsFiniteSet(G(n)) /\ Cardinality(G(i)) <= i
    BY <2>1, <2>2, FS_Subset
  <2>4. Cardinality(G(i)) <= Cardinality(G(n)) /\ Cardinality(G(i)) \in Nat
    BY <2>2, <2>3, FS_Subset, FS_CardinalityType
  <2> QED
    BY <2>3, <2>4
<1>3. RemoveDeleted(list, D) = [i \in 1..(n - gone(n)) |-> list[i + gone(i)]]
  BY DEF RemoveDeleted
<1> HIDE DEF gone
<1>4. n - gone(n) \in Nat /\ gone(n) \in Nat
  <2>1. n \in 0..n
    BY <1>1
  <2>2. gone(n) \in Nat /\ gone(n) <= n
    BY <1>2, <2>1
  <2> HIDE DEF n
  <2> QED
    BY <1>1, <2>2
<1>5. \A i \in 1..(n - gone(n)) : list[i + gone(i)] \in S
  <2> SUFFICES ASSUME NEW i \in 1..(n - gone(n)) PROVE list[i + gone(i)] \in S
    OBVIOUS
  <2>1. i \in 0..n
    BY <1>1, <1>4
  <2>2. i + gone(i) \in 1..n
    <3>1. gone(i) \in Nat /\ gone(i) <= gone(n)
      BY <1>2, <2>1
    <3> HIDE DEF n
    <3> QED
      BY <1>1, <1>4, <3>1
  <2> QED
    BY <2>2
<1> QED
  BY <1>3, <1>4, <1>5

\* When one at most is deleted, that one is left out.
LEMMA RemoveDeletedOnly ==
  ASSUME NEW S, NEW list \in Seq(S), NEW D,
         \A i, j \in 1..Len(list) : list[i] \in D /\ list[j] \in D => i = j
  PROVE  RemoveDeleted(list, D) = Only(list, S \ D)
<1> DEFINE gone(i) == Cardinality({j \in 1..i : list[j] \in D})
           n == Len(list)
<1>1. RemoveDeleted(list, D) = [i \in 1..(n - gone(n)) |-> list[i + gone(i)]] /\ n \in Nat
  BY DEF RemoveDeleted
<1>2. CASE \A i \in 1..n : list[i] \notin D
  <2>1. \A i \in 1..n : gone(i) = 0
    <3> SUFFICES ASSUME NEW i \in 1..n PROVE gone(i) = 0
      OBVIOUS
    <3>1. {j \in 1..i : list[j] \in D} = {}
      BY <1>2
    <3> QED
      BY <3>1, FS_EmptySet
  <2>2. gone(n) = 0
    <3>1. {j \in 1..n : list[j] \in D} = {}
      BY <1>2
    <3> QED
      BY <3>1, FS_EmptySet
  <2> HIDE DEF gone
  <2>3. RemoveDeleted(list, D) = [i \in 1..n |-> list[i]]
    BY <1>1, <2>1, <2>2
  <2>4. Only(list, S \ D) = list
    <3>1. \A i \in 1..Len(list) : list[i] \in S \ D
      BY <1>2
    <3> QED
      BY <3>1, OnlyAll
  <2> QED
    BY <2>3, <2>4
<1>3. CASE \E i \in 1..n : list[i] \in D
  <2>1. PICK d \in 1..n : list[d] \in D
    BY <1>3
  <2>2. \A i \in 1..n : list[i] \in D <=> i = d
    BY <2>1
  <2>3. \A i \in 1..n : gone(i) = IF i < d THEN 0 ELSE 1
    <3> SUFFICES ASSUME NEW i \in 1..n PROVE gone(i) = IF i < d THEN 0 ELSE 1
      OBVIOUS
    <3>1. {j \in 1..i : list[j] \in D} = IF i < d THEN {} ELSE {d}
      BY <2>2
    <3> QED
      BY <3>1, FS_EmptySet, FS_Singleton
  <2>4. gone(n) = 1
    BY <2>3
  <2> HIDE DEF gone
  <2>5. RemoveDeleted(list, D) = [i \in 1..(n-1) |-> IF i < d THEN list[i] ELSE list[i+1]]
    BY <1>1, <2>3, <2>4
  <2> DEFINE a == [i \in 1..(d-1) |-> list[i]]
             b == [i \in 1..(n-d) |-> list[d+i]]
             one == <<list[d]>>
  <2>6. a \in Seq(S \ D) /\ Len(a) = d - 1 /\ \A i \in 1..(d-1) : a[i] = list[i]
    <3>1. \A i \in 1..(d-1) : i \in 1..n /\ i # d
      OBVIOUS
    <3> QED
      BY <2>2, <3>1
  <2>7. b \in Seq(S \ D) /\ Len(b) = n - d /\ \A i \in 1..(n-d) : b[i] = list[d+i]
    <3>1. \A i \in 1..(n-d) : d + i \in 1..n /\ d + i # d
      OBVIOUS
    <3>2. n - d \in Nat
      OBVIOUS
    <3> QED
      BY <2>2, <3>1, <3>2
  <2>8. one \in Seq(S) /\ Len(one) = 1 /\ one[1] = list[d] /\ Only(one, S \ D) = <<>>
    <3>1. one \in Seq(S) /\ Len(one) = 1 /\ one[1] = list[d]
      OBVIOUS
    <3>2. \A i \in 1..Len(one) : one[i] \notin S \ D
      BY <2>1
    <3> QED
      BY <3>1, <3>2, OnlyNone
  <2> HIDE DEF a, b, one
  <2>9. a \in Seq(S) /\ b \in Seq(S)
    BY <2>6, <2>7
  <2>10. Only(a, S \ D) = a /\ Only(b, S \ D) = b
    BY <2>6, <2>7, OnlyAll
  <2> DEFINE c == a \o one
  <2>11. c \in Seq(S) /\ Len(c) = d /\ \A i \in 1..d : c[i] = list[i]
    <3>0. IsJoin(c, a, one, S)
      BY <2>8, <2>9, JoinIs
    <3> HIDE DEF c
    <3>1. c \in Seq(S) /\ Len(c) = d
      BY <2>6, <2>8, <3>0 DEF IsJoin
    <3>2. \A i \in 1..(d-1) : c[i] = list[i]
      BY <2>6, <3>0 DEF IsJoin
    <3>3. c[d] = list[d]
      <4>1. c[Len(a) + 1] = one[1] /\ Len(a) + 1 = d
        BY <2>6, <2>8, <3>0 DEF IsJoin
      <4> QED
        BY <2>8, <4>1
    <3> QED
      BY <3>1, <3>2, <3>3
  <2>12. Only(c, S \ D) = a
    <3>1. OnlyApart(a, one, S \ D)
      BY <2>8, <2>9, OnlyJoined
    <3>2. a \o <<>> = a
      BY <2>9
    <3> QED
      BY <2>8, <2>10, <3>1, <3>2 DEF OnlyApart
  <2> HIDE DEF c
  <2>13. list = c \o b
    <3> DEFINE e == c \o b
    <3>0. IsJoin(e, c, b, S)
      BY <2>9, <2>11, JoinIs
    <3> HIDE DEF e
    <3>1. e \in Seq(S) /\ Len(e) = Len(list)
      BY <2>7, <2>11, <3>0 DEF IsJoin
    <3>2. ASSUME NEW i \in 1..Len(list) PROVE list[i] = e[i]
      <4>1. CASE i \in 1..d
        BY <2>11, <3>0, <4>1 DEF IsJoin
      <4>2. CASE i \in (d+1)..n
        <5>1. i - d \in 1..(n - d) /\ d + (i - d) = i
          BY <4>2
        <5>2. e[Len(c) + (i - d)] = b[i - d]
          BY <2>7, <3>0, <5>1 DEF IsJoin
        <5> QED
          BY <2>7, <2>11, <5>1, <5>2
      <4>3. i \in 1..d \/ i \in (d+1)..n
        OBVIOUS
      <4> QED
        BY <4>1, <4>2, <4>3
    <3>3. list = e
      BY <3>1, <3>2, SameList
    <3> QED
      BY <3>3 DEF e
  <2>14. Only(list, S \ D) = a \o b
    <3>1. OnlyApart(c, b, S \ D)
      BY <2>9, <2>11, OnlyJoined
    <3> QED
      BY <2>10, <2>12, <2>13, <3>1 DEF OnlyApart
  <2> DEFINE v == [i \in 1..(n-1) |-> IF i < d THEN list[i] ELSE list[i+1]]
  <2>15. v \in Seq(S) /\ Len(v) = n - 1 /\ \A i \in 1..(n-1) : v[i] = IF i < d THEN list[i] ELSE list[i+1]
    <3>1. n - 1 \in Nat /\ \A i \in 1..(n-1) : list[i] \in S /\ list[i+1] \in S
      OBVIOUS
    <3> QED
      BY <3>1
  <2> HIDE DEF v
  <2> DEFINE w == a \o b
  <2>16. IsJoin(w, a, b, S)
    BY <2>9, JoinIs
  <2> HIDE DEF w
  <2>17. w \in Seq(S) /\ Len(w) = n - 1
    BY <2>6, <2>7, <2>16 DEF IsJoin
  <2>18. ASSUME NEW i \in 1..Len(v) PROVE v[i] = w[i]
    <3>1. CASE i < d
      <4>1. i \in 1..(d-1)
        BY <2>15, <3>1
      <4>2. w[i] = a[i]
        BY <2>6, <2>16, <4>1 DEF IsJoin
      <4> QED
        BY <2>6, <2>15, <3>1, <4>1, <4>2
    <3>2. CASE ~(i < d)
      <4>1. i - (d - 1) \in 1..(n-d) /\ d + (i - (d - 1)) = i + 1 /\ (d - 1) + (i - (d - 1)) = i
        BY <2>15, <3>2
      <4>2. w[Len(a) + (i - (d - 1))] = b[i - (d - 1)]
        BY <2>7, <2>16, <4>1 DEF IsJoin
      <4> QED
        BY <2>6, <2>7, <2>15, <3>2, <4>1, <4>2
    <3> QED
      BY <3>1, <3>2
  <2>19. v = w
    BY <2>15, <2>17, <2>18, SameList
  <2> QED
    BY <2>5, <2>14, <2>19 DEF v, w
<1> QED
  BY <1>2, <1>3

-----------------------------------------------------------------------------
(* Objects by their numbers: what Collect keeps, and new numbers.           *)

\* The objects of some numbers, in a store.
At(store, ids) == [i \in DOMAIN ids |-> store[ids[i]]]

\* Objects by number are objects.
LEMMA AtIs ==
  ASSUME NEW S, NEW store \in [Ids -> S], NEW ids \in Seq(Ids)
  PROVE  At(store, ids) \in Seq(S) /\ Len(At(store, ids)) = Len(ids)
         /\ \A i \in 1..Len(ids) : At(store, ids)[i] = store[ids[i]] /\ ids[i] \in Ids
BY DEF At

\* Stores that agree on some numbers.
LEMMA SameAt ==
  ASSUME NEW ids \in Seq(Ids), NEW store, NEW store2, \A id \in Range(ids) : store[id] = store2[id]
  PROVE  At(store, ids) = At(store2, ids)
BY DEF At, Range

\* Objects in one of the lists survive.
LEMMA CollectKeeps ==
  ASSUME NEW store \in [Ids -> Objects], NEW lists
  PROVE  /\ Collect(store, lists) \in [Ids -> Objects]
         /\ \A l \in DOMAIN lists : \A id \in Range(lists[l]) : id \in Ids => Collect(store, lists)[id] = store[id]
<1>1. NoObj \in Objects
  BY DEF NoObj, Objects, Origin, Black
<1> QED
  BY <1>1 DEF Collect

\* The elements of a list.
LEMMA RangeIn == ASSUME NEW S, NEW s \in Seq(S) PROVE Range(s) \subseteq S
BY DEF Range

LEMMA IdsFinite == IsFiniteSet(Ids) /\ Ids \subseteq Nat
BY BoundsAssumption, FS_Interval DEF Ids

\* Fresh numbers are different, and not in use.
LEMMA FreshIs ==
  ASSUME NEW used, NEW n \in Nat, n <= Cardinality(Ids \ used)
  PROVE  /\ Fresh(n, used) \in Seq(Ids) /\ Len(Fresh(n, used)) = n
         /\ \A i \in 1..n : Fresh(n, used)[i] \notin used
         /\ \A i, j \in 1..n : Fresh(n, used)[i] = Fresh(n, used)[j] => i = j
<1> DEFINE S == Ids \ used
           m == Cardinality(S)
           t == SetToSeq(S)
<1>1. IsFiniteSet(S)
  BY IdsFinite, FS_Subset
<1>2. m \in Nat /\ ExistsBijection(1..m, S)
  BY <1>1, FS_CardinalityType
<1>3. \E f \in [1..m -> S] : IsInjective(f)
  BY <1>2 DEF ExistsBijection, Bijection, Injection
<1>4. t \in [1..m -> S] /\ IsInjective(t)
  <2> HIDE DEF S, m
  <2>1. t = CHOOSE f \in [1..Cardinality(S) -> S] : IsInjective(f)
    BY DEF SetToSeq
  <2> HIDE DEF t
  <2> QED
    BY <1>3, <2>1 DEF m
<1> HIDE DEF m, t
<1>5. n <= m
  BY DEF m
<1>6. t \in Seq(S) /\ Len(t) = m /\ \A i \in 1..m : t[i] \in Ids /\ t[i] \notin used
  BY <1>2, <1>4
<1> HIDE DEF S
<1>7. SubSeq(t, 1, n) \in Seq(S) /\ Len(SubSeq(t, 1, n)) = n
      /\ \A i \in 1..n : SubSeq(t, 1, n)[i] = t[i] /\ i \in 1..m
  BY <1>2, <1>5, <1>6
<1>8. Fresh(n, used) = SubSeq(t, 1, n)
  BY DEF Fresh, t, S
<1>9. \A i, j \in 1..m : t[i] = t[j] => i = j
  BY <1>4 DEF IsInjective
<1>10. SubSeq(t, 1, n) \in Seq(Ids)
  BY <1>7 DEF S
<1> QED
  BY <1>6, <1>7, <1>8, <1>9, <1>10

\* There is a number for a new object.
LEMMA NewId ==
  ASSUME NEW used, used \subseteq Ids, Ids # used
  PROVE  Min(Ids \ used) \in Ids /\ Min(Ids \ used) \notin used
<1> DEFINE S == Ids \ used
<1>1. S \subseteq Nat /\ S # {}
  BY IdsFinite
<1> HIDE DEF S
<1>2. \E m \in S : \A n \in S : m <= n
  BY <1>1, Least
<1>3. Min(S) \in S
  BY <1>2 DEF Min
<1> QED
  BY <1>3 DEF S

-----------------------------------------------------------------------------
(* The types of a session: the start, a commit, a new or changed object.    *)

\* The types of a script and its objects; new objects are of a shape.
ScriptTyped(c, o, os, ns) ==
  /\ c \in Seq(Lines) /\ o \in [Ids -> Objects] /\ os \in Seq(Ids) /\ ns \in Seq(Ids)
  /\ \A id \in Range(ns) : o[id].c \in Shapes

\* The types of a session.
Typed ==
  /\ ScriptTyped(code, obj, objs, newObjs)
  /\ window \in Seq(Ids)
  /\ drawing \in BOOLEAN /\ dirty \in BOOLEAN /\ toCommit \in BOOLEAN /\ rendering \in BOOLEAN
  /\ mode \in {"edit", "preview", "closed"} /\ known \subseteq {"edit", "preview"}
  /\ file \in Files \cup {NoName} /\ disk \in [Files -> Seq(Lines)]

\* The objects of the script and the new ones are objects.
LEMMA ScriptIs ==
  ASSUME NEW c, NEW o, NEW os, NEW ns, ScriptTyped(c, o, os, ns)
  PROVE  At(o, os) \in Seq(Objects) /\ At(o, ns) \in Seq(NewObjects) /\ At(o, ns) \in Seq(Objects)
<1>1. o \in [Ids -> Objects] /\ os \in Seq(Ids) /\ ns \in Seq(Ids) /\ \A id \in Range(ns) : o[id].c \in Shapes
  BY DEF ScriptTyped
<1>2. At(o, os) \in Seq(Objects) /\ At(o, ns) \in Seq(Objects) /\ Len(At(o, ns)) = Len(ns)
      /\ \A i \in 1..Len(ns) : At(o, ns)[i] = o[ns[i]] /\ ns[i] \in Ids
  BY <1>1, AtIs
<1>3. \A i \in 1..Len(ns) : At(o, ns)[i] \in NewObjects
  <2>1. \A i \in 1..Len(ns) : ns[i] \in Range(ns)
    BY <1>1 DEF Range
  <2> QED
    BY <1>1, <1>2, <2>1 DEF NewObjects
<1>4. \A i \in 1..Len(At(o, ns)) : At(o, ns)[i] \in NewObjects
  BY <1>2, <1>3
<1> QED
  BY <1>2, <1>4

LEMMA TheObjsIs == ASSUME NEW ids PROVE TheObjs(ids) = At(obj, ids)
BY DEF TheObjs, At

\* What is saved is a script.
LEMMA CodeToSaveTyped == ASSUME Typed PROVE CodeToSave \in Seq(Lines)
<1>1. ScriptTyped(code, obj, objs, newObjs) /\ code \in Seq(Lines)
  BY DEF Typed, ScriptTyped
<1>2. At(obj, objs) \in Seq(Objects) /\ At(obj, newObjs) \in Seq(NewObjects)
  BY <1>1, ScriptIs
<1>3. Committed(code, At(obj, objs), At(obj, newObjs)) \in Seq(Lines)
  BY <1>1, <1>2, CommittedTyped
<1> QED
  BY <1>1, <1>3, TheObjsIs DEF CodeToSave

\* What a commit does to the script.
LEMMA CommitTyped ==
  ASSUME Typed, CommitChanges
  PROVE  /\ ScriptTyped(code', obj', objs', newObjs')
         /\ code' = Committed(code, At(obj, objs), At(obj, newObjs))
<1>1. /\ ScriptTyped(code, obj, objs, newObjs) /\ code \in Seq(Lines) /\ obj \in [Ids -> Objects]
      /\ objs \in Seq(Ids) /\ newObjs \in Seq(Ids)
  BY DEF Typed, ScriptTyped
<1>2. At(obj, objs) \in Seq(Objects) /\ At(obj, newObjs) \in Seq(NewObjects)
  BY <1>1, ScriptIs
<1>3. code' = Committed(code, At(obj, objs), At(obj, newObjs))
  BY TheObjsIs DEF CommitChanges
<1>4. code' \in Seq(Lines)
  BY <1>1, <1>2, <1>3, CommittedTyped
<1>5. newObjs' = <<>> /\ \A id \in Range(newObjs') : obj'[id].c \in Shapes
  BY DEF CommitChanges, Range
<1> DEFINE live == {id \in Ids : ~Deleted(id)}
           all == objs \o Only(newObjs, live)
           dead == {id \in ToSet(all) : Deleted(id)}
           left == RemoveDeleted(all, dead)
<1>6. objs' = left /\ obj' = Collect(obj, <<left, window>>)
  BY DEF CommitChanges
<1>7. all \in Seq(Ids)
  <2> HIDE DEF live
  <2>1. Only(newObjs, live) \in Seq(Ids)
    BY <1>1, OnlyIn
  <2> QED
    BY <1>1, <2>1
<1> HIDE DEF all, dead
<1>8. left \in Seq(Ids)
  BY <1>7, RemoveDeletedIn
<1> HIDE DEF left
<1>9. obj' \in [Ids -> Objects]
  BY <1>1, <1>6, CollectKeeps
<1> QED
  <2>1. newObjs' \in Seq(Ids) /\ objs' \in Seq(Ids)
    BY <1>5, <1>6, <1>8
  <2>2. ScriptTyped(code', obj', objs', newObjs')
    BY <1>4, <1>5, <1>9, <2>1 DEF ScriptTyped
  <2> QED
    BY <1>3, <2>2

\* The start.
LEMMA InitTyped == ASSUME Init PROVE Typed
<1>1. disk \in [Files -> Seq(Lines)]
  <2>1. disk \in [Files -> UNION Range(Scripts)] /\ \A f \in Files : disk[f] \in Scripts[f]
    BY DEF Init
  <2>2. \A f \in Files : Scripts[f] \subseteq Seq(Lines)
    BY FilesAssumption
  <2> QED
    BY <2>1, <2>2
<1>2. file \in Files /\ code = disk[file]
  BY DEF Init
<1>3. obj = [id \in Ids |-> NoObj] /\ objs = <<>> /\ newObjs = <<>> /\ window = <<>>
  BY DEF Init
<1>4. NoObj \in Objects
  BY DEF NoObj, Objects, Origin, Black
<1>5. ScriptTyped(code, obj, objs, newObjs)
  BY <1>1, <1>2, <1>3, <1>4 DEF ScriptTyped, Range
<1> QED
  <2>1. drawing = FALSE /\ dirty = FALSE /\ toCommit = FALSE /\ rendering = FALSE
        /\ mode = "preview" /\ known = {"preview"} /\ file \in Files
    BY DEF Init
  <2>2. window \in Seq(Ids)
    BY <1>3
  <2> QED
    BY <1>1, <1>5, <2>1, <2>2 DEF Typed

\* A new object.
LEMMA AddNewTyped ==
  ASSUME Typed, NEW o \in NewObjects, AddNew(o)
  PROVE  /\ window' \in Seq(Ids)
         /\ objs' = objs /\ code' = code => ScriptTyped(code', obj', objs', newObjs')
<1> DEFINE used == Range(objs) \cup Range(newObjs) \cup Range(window)
           id == Min(Ids \ used)
<1>1. /\ code \in Seq(Lines) /\ obj \in [Ids -> Objects] /\ objs \in Seq(Ids)
         /\ newObjs \in Seq(Ids) /\ window \in Seq(Ids)
      /\ \A x \in Range(newObjs) : obj[x].c \in Shapes
  BY DEF Typed, ScriptTyped
<1>2. used \subseteq Ids
  BY <1>1, RangeIn
<1>3. Ids # used /\ obj' = [obj EXCEPT ![id] = o] /\ newObjs' = Append(newObjs, id)
      /\ window' = Append(window, id)
  BY DEF AddNew
<1>4. id \in Ids /\ id \notin used
  <2> HIDE DEF used
  <2> QED
    BY <1>2, <1>3, NewId
<1> HIDE DEF id
<1>5. obj' \in [Ids -> Objects] /\ obj'[id] = o /\ \A x \in Ids : x # id => obj'[x] = obj[x]
  BY <1>1, <1>3, <1>4 DEF NewObjects
<1>6. newObjs' \in Seq(Ids) /\ window' \in Seq(Ids) /\ Range(newObjs') \subseteq Range(newObjs) \cup {id}
  BY <1>1, <1>3, <1>4 DEF Range
<1>7. \A x \in Range(newObjs') : obj'[x].c \in Shapes
  <2>1. Range(newObjs) \subseteq Ids
    BY <1>1, RangeIn
  <2> QED
    BY <1>1, <1>5, <1>6, <2>1 DEF NewObjects
<1> QED
  BY <1>1, <1>5, <1>6, <1>7 DEF ScriptTyped

\* A change of an object that keeps what it is.
LEMMA ChangeTyped ==
  ASSUME Typed, NEW id \in Ids, NEW o \in Objects, o.c = obj[id].c, obj' = [obj EXCEPT ![id] = o],
         UNCHANGED <<code, objs, newObjs>>
  PROVE  ScriptTyped(code', obj', objs', newObjs')
<1>1. /\ code \in Seq(Lines) /\ obj \in [Ids -> Objects] /\ objs \in Seq(Ids) /\ newObjs \in Seq(Ids)
      /\ \A x \in Range(newObjs) : obj[x].c \in Shapes
  BY DEF Typed, ScriptTyped
<1>2. obj' \in [Ids -> Objects] /\ \A x \in Ids : obj'[x].c = obj[x].c
  BY <1>1
<1>3. Range(newObjs) \subseteq Ids
  BY <1>1, RangeIn
<1> QED
  BY <1>1, <1>2, <1>3 DEF ScriptTyped

-----------------------------------------------------------------------------
(* The types of a session: the drawing area.                                *)

\* A new object is an object.
LEMMA NewTyped ==
  ASSUME NEW c \in Shapes, NEW p \in Nat, NEW q \in Nat, NEW k \in Nat
  PROVE  New(c, p, q, k) \in NewObjects /\ New(c, p, q, k) \in Objects
BY DEF New, NewObjects, Objects

\* What typing is about, when only the drawing area changes.
LEMMA AreaTyped ==
  ASSUME Typed, InArea, ScriptTyped(code', obj', objs', newObjs'), window' \in Seq(Ids),
         drawing' \in BOOLEAN, dirty' \in BOOLEAN, toCommit' \in BOOLEAN
  PROVE  Typed'
BY DEF Typed, InArea

\* The last element of a list, and the others.
LEMMA LastOf ==
  ASSUME NEW S, NEW s \in Seq(S), s # <<>>
  PROVE  Last(s) \in S /\ Front(s) \in Seq(S) /\ Len(Front(s)) = Len(s) - 1
         /\ \A i \in 1..(Len(s) - 1) : Front(s)[i] = s[i]
<1>1. Len(s) \in Nat /\ Len(s) > 0
  <2>1. Len(s) = 0 => s = <<>>
    OBVIOUS
  <2> QED
    BY <2>1
<1>2. Last(s) \in S
  <2>1. Len(s) \in 1..Len(s)
    BY <1>1
  <2>2. \A i \in 1..Len(s) : s[i] \in S
    OBVIOUS
  <2>3. s[Len(s)] \in S
    BY <2>1, <2>2
  <2> QED
    BY <2>3 DEF Last
<1> DEFINE n == Len(s) - 1
           t == SubSeq(s, 1, n)
<1>2a. n \in Nat /\ n <= Len(s)
  BY <1>1
<1> HIDE DEF n
<1>3. t \in Seq(S) /\ Len(t) = n /\ \A i \in 1..n : t[i] = s[i]
  BY <1>2a
<1>4. Front(s) = t
  BY DEF Front, n
<1> HIDE DEF t
<1> QED
  BY <1>2, <1>3, <1>4 DEF n

\* The first click...
LEMMA StartTyped ==
  ASSUME Typed, NEW c \in Shapes, NEW p \in Points, NEW k \in Colors, Start(c, p, k)
  PROVE  Typed'
<1>1. New(c, p, p, k) \in NewObjects
  BY NewTyped, ChoicesAssumption
<1>2. AddNew(New(c, p, p, k)) /\ InArea /\ drawing' = TRUE /\ dirty' = dirty /\ toCommit' = toCommit
  BY DEF Start
<1>3. code' = code /\ objs' = objs
  BY <1>2 DEF InArea
<1>4. window' \in Seq(Ids) /\ ScriptTyped(code', obj', objs', newObjs')
  BY <1>1, <1>2, <1>3, AddNewTyped
<1>5. dirty \in BOOLEAN /\ toCommit \in BOOLEAN
  BY DEF Typed
<1> QED
  BY <1>2, <1>4, <1>5, AreaTyped

\* ...and a text.
LEMMA DrawTextTyped ==
  ASSUME Typed, NEW p \in Points, NEW k \in Colors, DrawText(p, k)
  PROVE  Typed'
<1>1. New("circle", p, p, k) \in NewObjects
  <2>1. "circle" \in Shapes
    BY DEF Shapes
  <2> QED
    BY <2>1, NewTyped, ChoicesAssumption
<1>2. AddNew(New("circle", p, p, k)) /\ InArea /\ drawing' = drawing /\ dirty' = TRUE /\ toCommit' = TRUE
  BY DEF DrawText, Command, setDirtyAndSave
<1>3. code' = code /\ objs' = objs
  BY <1>2 DEF InArea
<1>4. window' \in Seq(Ids) /\ ScriptTyped(code', obj', objs', newObjs')
  BY <1>1, <1>2, <1>3, AddNewTyped
<1>5. drawing \in BOOLEAN
  BY DEF Typed
<1> QED
  BY <1>2, <1>4, <1>5, AreaTyped

\* An object is changed: which, and to what.
Changed(id, o) ==
  /\ id \in Ids /\ o \in Objects /\ o.c = obj[id].c /\ obj' = [obj EXCEPT ![id] = o]

\* Each of these commands changes one object.
LEMMA FinishChanges ==
  ASSUME Typed, NEW q \in Points, Finish(q)
  PROVE  \E o : Changed(Last(window), o)
<1> DEFINE id == Last(window)
           o == [obj[id] EXCEPT !.q = IF obj[id].c = "aline" THEN q ELSE @]
<1>1. window \in Seq(Ids) /\ window # <<>> /\ obj \in [Ids -> Objects]
  BY DEF Typed, ScriptTyped, Finish
<1>2. id \in Ids
  BY <1>1, LastOf
<1>3. obj[id] \in Objects /\ q \in Nat
  BY <1>1, <1>2, ChoicesAssumption
<1>4. o \in Objects /\ o.c = obj[id].c
  BY <1>3 DEF Objects
<1>5. obj' = [obj EXCEPT ![id] = o]
  BY DEF Finish
<1> QED
  BY <1>2, <1>4, <1>5 DEF Changed

LEMMA MoveChanges ==
  ASSUME Typed, NEW i \in DOMAIN window, NEW p \in Points, NEW q \in Points, Move(i, p, q)
  PROVE  \E o : Changed(window[i], o)
<1> DEFINE id == window[i]
           o == [obj[id] EXCEPT !.p = p, !.q = q]
<1>1. window \in Seq(Ids) /\ obj \in [Ids -> Objects]
  BY DEF Typed, ScriptTyped
<1>2. id \in Ids
  BY <1>1
<1>3. obj[id] \in Objects /\ q \in Nat /\ p \in Nat
  BY <1>1, <1>2, ChoicesAssumption
<1>4. o \in Objects /\ o.c = obj[id].c
  BY <1>3 DEF Objects
<1>5. obj' = [obj EXCEPT ![id] = o]
  BY <1>1, <1>2 DEF Move
<1> QED
  BY <1>2, <1>4, <1>5 DEF Changed

LEMMA RecolorChanges ==
  ASSUME Typed, NEW i \in DOMAIN window, NEW k \in Colors, Recolor(i, k)
  PROVE  \E o : Changed(window[i], o)
<1> DEFINE id == window[i]
           o == [obj[id] EXCEPT !.k = k]
<1>1. window \in Seq(Ids) /\ obj \in [Ids -> Objects]
  BY DEF Typed, ScriptTyped
<1>2. id \in Ids
  BY <1>1
<1>3. obj[id] \in Objects /\ k \in Nat
  BY <1>1, <1>2, ChoicesAssumption
<1>4. o \in Objects /\ o.c = obj[id].c
  BY <1>3 DEF Objects
<1>5. obj' = [obj EXCEPT ![id] = o]
  BY DEF Recolor
<1> QED
  BY <1>2, <1>4, <1>5 DEF Changed

LEMMA ChangedTyped ==
  ASSUME Typed, NEW id, \E o : Changed(id, o), InArea, UNCHANGED <<newObjs, window>>,
         drawing' \in BOOLEAN, dirty' \in BOOLEAN, toCommit' \in BOOLEAN
  PROVE  Typed'
<1>1. PICK o : Changed(id, o)
  OBVIOUS
<1>2. UNCHANGED <<code, objs, newObjs>>
  BY DEF InArea
<1>3. ScriptTyped(code', obj', objs', newObjs')
  BY <1>1, <1>2, ChangeTyped DEF Changed
<1>4. window' \in Seq(Ids)
  BY DEF Typed
<1> QED
  BY <1>3, <1>4, AreaTyped

LEMMA EditTyped ==
  ASSUME Typed,
         \/ \E q \in Points : Finish(q)
         \/ \E i \in DOMAIN window, p, q \in Points : Move(i, p, q)
         \/ \E i \in DOMAIN window, k \in Colors : Recolor(i, k)
  PROVE  Typed'
<1>0. drawing \in BOOLEAN
  BY DEF Typed
<1>1. CASE \E q \in Points : Finish(q)
  <2>1. PICK q \in Points : Finish(q)
    BY <1>1
  <2>2. InArea /\ UNCHANGED <<newObjs, window>> /\ drawing' = FALSE /\ dirty' = TRUE /\ toCommit' = TRUE
    BY <2>1 DEF Finish, Command, setDirtyAndSave
  <2>3. \E o : Changed(Last(window), o)
    BY <2>1, FinishChanges
  <2> QED
    BY <2>2, <2>3, ChangedTyped
<1>2. CASE \E i \in DOMAIN window, p, q \in Points : Move(i, p, q)
  <2>1. PICK i \in DOMAIN window, p \in Points, q \in Points : Move(i, p, q)
    BY <1>2
  <2>2. InArea /\ UNCHANGED <<newObjs, window>> /\ drawing' = drawing /\ dirty' = TRUE /\ toCommit' = TRUE
    BY <2>1 DEF Move, Command, setDirtyAndSave
  <2>3. \E o : Changed(window[i], o)
    BY <2>1, MoveChanges
  <2> QED
    BY <1>0, <2>2, <2>3, ChangedTyped
<1>3. CASE \E i \in DOMAIN window, k \in Colors : Recolor(i, k)
  <2>1. PICK i \in DOMAIN window, k \in Colors : Recolor(i, k)
    BY <1>3
  <2>2. InArea /\ UNCHANGED <<newObjs, window>> /\ drawing' = drawing /\ dirty' = TRUE /\ toCommit' = TRUE
    BY <2>1 DEF Recolor, Command, setDirtyAndSave
  <2>3. \E o : Changed(window[i], o)
    BY <2>1, RecolorChanges
  <2> QED
    BY <1>0, <2>2, <2>3, ChangedTyped
<1> QED
  BY <1>1, <1>2, <1>3

\* Cancelling...
LEMMA EscapeTyped == ASSUME Typed, Escape PROVE Typed'
<1>1. /\ code \in Seq(Lines) /\ obj \in [Ids -> Objects] /\ objs \in Seq(Ids)
         /\ newObjs \in Seq(Ids) /\ window \in Seq(Ids)
      /\ \A x \in Range(newObjs) : obj[x].c \in Shapes
  BY DEF Typed, ScriptTyped
<1>2. InArea /\ window # <<>> /\ drawing' = FALSE /\ window' = Front(window)
      /\ obj' = Collect(obj, <<objs, newObjs', window'>>)
      /\ UNCHANGED <<dirty, toCommit>>
  BY DEF Escape
<1>2a. newObjs' = newObjs \/ (newObjs # <<>> /\ newObjs' = Front(newObjs))
  <2>1. newObjs' = IF Len(newObjs) > 1 /\ Last(newObjs) = Last(window) THEN Front(newObjs) ELSE newObjs
    BY DEF Escape
  <2>2. newObjs = <<>> => ~(Len(newObjs) > 1)
    OBVIOUS
  <2> DEFINE own == Last(newObjs) = Last(window)
  <2>0. newObjs' = IF Len(newObjs) > 1 /\ own THEN Front(newObjs) ELSE newObjs
    BY <2>1
  <2> HIDE DEF own
  <2>3. CASE Len(newObjs) > 1 /\ own
    BY <2>0, <2>2, <2>3
  <2>4. CASE ~(Len(newObjs) > 1 /\ own)
    BY <2>0, <2>4
  <2> QED
    BY <2>3, <2>4
<1>3. code' = code /\ objs' = objs
  BY <1>2 DEF InArea
<1>4. window' \in Seq(Ids)
  BY <1>1, <1>2, LastOf
<1>5. newObjs' \in Seq(Ids) /\ Range(newObjs') \subseteq Range(newObjs)
  <2>1. CASE newObjs' = newObjs
    BY <1>1, <2>1
  <2>2. CASE newObjs # <<>> /\ newObjs' = Front(newObjs)
    <3>1. newObjs' \in Seq(Ids) /\ Len(newObjs') = Len(newObjs) - 1
          /\ \A i \in 1..(Len(newObjs) - 1) : newObjs'[i] = newObjs[i]
      BY <1>1, <2>2, LastOf
    <3>2. \A i \in 1..Len(newObjs') : i \in 1..Len(newObjs) /\ newObjs'[i] = newObjs[i]
      BY <1>1, <3>1
    <3>3. \A i \in DOMAIN newObjs' : newObjs'[i] \in Range(newObjs)
      <4>1. DOMAIN newObjs' = 1..Len(newObjs') /\ DOMAIN newObjs = 1..Len(newObjs)
        BY <1>1, <3>1
      <4> QED
        BY <3>2, <4>1 DEF Range
    <3>4. Range(newObjs') \subseteq Range(newObjs)
      BY <3>3 DEF Range
    <3> QED
      BY <3>1, <3>4
  <2> QED
    BY <1>2a, <2>1, <2>2
<1>6. obj' \in [Ids -> Objects] /\ \A x \in Range(newObjs') : x \in Ids => obj'[x] = obj[x]
  <2> DEFINE lists == <<objs, newObjs', window'>>
  <2>1. 2 \in DOMAIN lists /\ lists[2] = newObjs'
    OBVIOUS
  <2> HIDE DEF lists
  <2>2. obj' = Collect(obj, lists)
    BY <1>2 DEF lists
  <2> QED
    BY <1>1, <2>1, <2>2, CollectKeeps
<1>7. Range(newObjs) \subseteq Ids
  BY <1>1, RangeIn
<1>8. ScriptTyped(code', obj', objs', newObjs')
  BY <1>1, <1>3, <1>5, <1>6, <1>7 DEF ScriptTyped
<1>9. dirty \in BOOLEAN /\ toCommit \in BOOLEAN
  BY DEF Typed
<1> QED
  BY <1>2, <1>4, <1>8, <1>9, AreaTyped

\* ...and deleting.
LEMMA DeleteTyped == ASSUME Typed, NEW selected, DeleteSelected(selected) PROVE Typed'
<1>1. /\ code \in Seq(Lines) /\ obj \in [Ids -> Objects] /\ objs \in Seq(Ids)
         /\ newObjs \in Seq(Ids) /\ window \in Seq(Ids)
      /\ \A x \in Range(newObjs) : obj[x].c \in Shapes
  BY DEF Typed, ScriptTyped
<1> DEFINE ids == {window[i] : i \in selected}
           kept == Only(window, Ids \ ids)
           gone == [id \in Ids |-> [obj[id] EXCEPT !.deleted = @ \/ id \in ids]]
           lists == <<objs, newObjs, kept>>
<1>2. InArea /\ window' = kept /\ obj' = Collect(gone, lists) /\ dirty' = TRUE
      /\ toCommit' = TRUE /\ UNCHANGED <<newObjs, drawing>>
  BY DEF DeleteSelected, Command, setDirtyAndSave
<1>3. code' = code /\ objs' = objs
  BY <1>2 DEF InArea
<1> HIDE DEF ids
<1>4. kept \in Seq(Ids)
  BY <1>1, OnlyIn
<1>5. gone \in [Ids -> Objects] /\ \A id \in Ids : gone[id].c = obj[id].c
  BY <1>1 DEF Objects
<1>6. 2 \in DOMAIN lists /\ lists[2] = newObjs
  OBVIOUS
<1> HIDE DEF lists, gone, kept
<1>7. obj' \in [Ids -> Objects] /\ \A x \in Range(newObjs) : x \in Ids => obj'[x] = gone[x]
  BY <1>2, <1>5, <1>6, CollectKeeps
<1>8. Range(newObjs) \subseteq Ids
  BY <1>1, RangeIn
<1>9. ScriptTyped(code', obj', objs', newObjs')
  BY <1>1, <1>2, <1>3, <1>5, <1>7, <1>8 DEF ScriptTyped
<1>10. drawing \in BOOLEAN
  BY DEF Typed
<1> QED
  BY <1>2, <1>4, <1>9, <1>10, AreaTyped

-----------------------------------------------------------------------------
(* The types of a session: switching modes and rendering.                   *)

\* What typing is about, when only the main window changes.
LEMMA WindowTyped ==
  ASSUME Typed, ScriptTyped(code', obj', objs', newObjs'), window' \in Seq(Ids),
         drawing' \in BOOLEAN, dirty' \in BOOLEAN, toCommit' \in BOOLEAN, rendering' \in BOOLEAN,
         mode' \in {"edit", "preview", "closed"}, known' \subseteq {"edit", "preview"},
         file' \in Files \cup {NoName}, disk' \in [Files -> Seq(Lines)]
  PROVE  Typed'
BY DEF Typed

LEMMA ScriptSame == ASSUME Typed, UNCHANGED script PROVE ScriptTyped(code', obj', objs', newObjs')
<1>1. code' = code /\ obj' = obj /\ objs' = objs /\ newObjs' = newObjs
  BY DEF script
<1> QED
  BY <1>1 DEF Typed

LEMMA CodeTypedThen ==
  ASSUME ScriptTyped(code', obj', objs', newObjs') PROVE code' \in Seq(Lines)
BY DEF ScriptTyped

\* Switching modes.
LEMMA ToPreviewTyped == ASSUME Typed, ToPreview PROVE Typed'
<1>1. ScriptTyped(code', obj', objs', newObjs')
  <2>1. CommitChanges \/ UNCHANGED script
    BY DEF ToPreview
  <2> QED
    BY <2>1, CommitTyped, ScriptSame
<1>2. code' \in Seq(Lines)
  BY <1>1, CodeTypedThen
<1>3. dirty' \in BOOLEAN /\ file' \in Files \cup {NoName} /\ disk' \in [Files -> Seq(Lines)]
  <2>1. CASE UNCHANGED <<dirty, file, disk>>
    BY <2>1 DEF Typed
  <2>2. CASE \E f \in Files : Write(f)
    <3>1. PICK f \in Files : Write(f)
      BY <2>2
    <3>2. dirty' = FALSE /\ file' = f /\ disk' = [disk EXCEPT ![f] = code']
      BY <3>1 DEF Write
    <3>3. disk \in [Files -> Seq(Lines)]
      BY DEF Typed
    <3> QED
      BY <1>2, <3>2, <3>3
  <2> QED
    BY <2>1, <2>2 DEF ToPreview
<1>4. mode' = "preview" /\ drawing' = FALSE /\ toCommit' = FALSE /\ window' = window
  BY DEF ToPreview
<1>5. rendering' \in BOOLEAN /\ known' \subseteq {"edit", "preview"}
  <2>1. rendering' = (toCommit \/ "preview" \notin known) /\ known' = IF rendering' THEN {"preview"} ELSE known
    BY DEF ToPreview
  <2>2. known \subseteq {"edit", "preview"}
    BY DEF Typed
  <2>3. rendering' \in BOOLEAN
    BY <2>1
  <2> QED
    BY <2>1, <2>2, <2>3
<1>6. window \in Seq(Ids)
  BY DEF Typed
<1> QED
  BY <1>1, <1>3, <1>4, <1>5, <1>6, WindowTyped

LEMMA ToEditTyped == ASSUME Typed, ToEdit PROVE Typed'
<1>1. UNCHANGED script
  BY DEF ToEdit
<1>2. /\ mode' = "edit" /\ drawing' = FALSE /\ window' = window /\ dirty' = dirty /\ toCommit' = toCommit
      /\ known' = {"edit", "preview"} /\ file' = file /\ disk' = disk /\ rendering' \in BOOLEAN
  BY DEF ToEdit
<1>3. window \in Seq(Ids) /\ dirty \in BOOLEAN /\ toCommit \in BOOLEAN
      /\ file \in Files \cup {NoName} /\ disk \in [Files -> Seq(Lines)]
  BY DEF Typed
<1>4. ScriptTyped(code', obj', objs', newObjs')
  BY <1>1, ScriptSame
<1> QED
  BY <1>2, <1>3, <1>4, WindowTyped

\* The objects of a rendering are stored under the numbers made for them.
Store(drawn, ids, o) ==
  [id \in Ids |->
     IF id \in Range(ids)
     THEN LET d == drawn[CHOOSE i \in DOMAIN ids : ids[i] = id] IN New(d.c, d.p, d.q, d.k)
     ELSE o[id]]

\* The objects of a list have these looks.
Looked(list, looks) ==
  /\ Len(list) = Len(looks)
  /\ \A i \in 1..Len(looks) : list[i].c = looks[i].c /\ list[i].p = looks[i].p
                              /\ list[i].q = looks[i].q /\ list[i].k = looks[i].k

\* What is stored under which number.
LEMMA StoreIs ==
  ASSUME NEW drawn \in Seq(Looks), NEW ids \in Seq(Ids), Len(ids) = Len(drawn),
         \A i, j \in 1..Len(drawn) : ids[i] = ids[j] => i = j, NEW o \in [Ids -> Objects]
  PROVE  /\ Store(drawn, ids, o) \in [Ids -> Objects]
         /\ \A id \in Ids : id \notin Range(ids) => Store(drawn, ids, o)[id] = o[id]
         /\ \A i \in 1..Len(drawn) :
              Store(drawn, ids, o)[ids[i]] = New(drawn[i].c, drawn[i].p, drawn[i].q, drawn[i].k)
<1>1. ASSUME NEW i \in 1..Len(drawn)
      PROVE  /\ ids[i] \in Ids /\ ids[i] \in Range(ids)
             /\ (CHOOSE j \in DOMAIN ids : ids[j] = ids[i]) = i
  <2>1. DOMAIN ids = 1..Len(drawn)
    OBVIOUS
  <2>2. \A j \in DOMAIN ids : ids[j] = ids[i] => j = i
    BY <2>1
  <2>3. (CHOOSE j \in DOMAIN ids : ids[j] = ids[i]) \in DOMAIN ids
        /\ ids[CHOOSE j \in DOMAIN ids : ids[j] = ids[i]] = ids[i]
    BY <2>1
  <2>4. ids[i] \in Ids /\ ids[i] \in Range(ids)
    BY <2>1 DEF Range
  <2> QED
    BY <2>2, <2>3, <2>4
<1>2. \A i \in 1..Len(drawn) : New(drawn[i].c, drawn[i].p, drawn[i].q, drawn[i].k) \in Objects
  <2>1. ASSUME NEW i \in 1..Len(drawn) PROVE New(drawn[i].c, drawn[i].p, drawn[i].q, drawn[i].k) \in Objects
    <3>1. drawn[i] \in Looks
      OBVIOUS
    <3>2. drawn[i].c \in Shapes /\ drawn[i].p \in Nat /\ drawn[i].q \in Nat /\ drawn[i].k \in Nat
      BY <3>1 DEF Looks
    <3> QED
      BY <3>2, NewTyped
  <2> QED
    BY <2>1
<1>3. \A id \in Ids : id \notin Range(ids) => Store(drawn, ids, o)[id] = o[id]
  BY DEF Store
<1>4. ASSUME NEW i \in 1..Len(drawn)
      PROVE  Store(drawn, ids, o)[ids[i]] = New(drawn[i].c, drawn[i].p, drawn[i].q, drawn[i].k)
  BY <1>1 DEF Store
<1>5. \A id \in Range(ids) : \E i \in 1..Len(drawn) : ids[i] = id
  BY DEF Range
<1>6. \A id \in Ids : Store(drawn, ids, o)[id] \in Objects
  BY <1>2, <1>3, <1>4, <1>5
<1>7. Store(drawn, ids, o) = [id \in Ids |-> Store(drawn, ids, o)[id]]
  BY DEF Store
<1>8. Store(drawn, ids, o) \in [Ids -> Objects]
  BY <1>6, <1>7
<1> QED
  BY <1>3, <1>4, <1>8

\* What a rendering in edit mode leaves.
LEMMA RenderedIs ==
  ASSUME Typed, RenderDone, mode = "edit"
  PROVE  /\ ScriptTyped(code', obj', objs', newObjs') /\ window' \in Seq(Ids)
         /\ Looked(At(obj', objs'), Drawn(code'))
<1> DEFINE drawn == Drawn(code)
           ids == Fresh(Len(drawn), Range(newObjs))
           store == Store(drawn, ids, obj)
           lists == <<ids, newObjs>>
<1>1. /\ Len(drawn) <= Cardinality(Ids \ Range(newObjs))
      /\ objs' = ids /\ window' = ids /\ code' = code /\ newObjs' = newObjs
      /\ obj' = Collect(store, lists)
  BY DEF RenderDone, Store
<1>2. /\ code \in Seq(Lines) /\ obj \in [Ids -> Objects] /\ objs \in Seq(Ids) /\ newObjs \in Seq(Ids)
      /\ \A x \in Range(newObjs) : obj[x].c \in Shapes
  BY DEF Typed, ScriptTyped
<1>3. drawn \in Seq(Looks)
  BY <1>2, DrawnIs
<1> HIDE DEF drawn
<1>4. Len(drawn) \in Nat
  BY <1>3
<1>5. /\ ids \in Seq(Ids) /\ Len(ids) = Len(drawn)
      /\ \A i \in 1..Len(drawn) : ids[i] \notin Range(newObjs)
      /\ \A i, j \in 1..Len(drawn) : ids[i] = ids[j] => i = j
  BY <1>1, <1>4, FreshIs
<1> HIDE DEF ids
<1>6. /\ store \in [Ids -> Objects]
      /\ \A id \in Ids : id \notin Range(ids) => store[id] = obj[id]
      /\ \A i \in 1..Len(drawn) : store[ids[i]] = New(drawn[i].c, drawn[i].p, drawn[i].q, drawn[i].k)
  BY <1>2, <1>3, <1>5, StoreIs
<1> HIDE DEF store
<1>7. 1 \in DOMAIN lists /\ lists[1] = ids /\ 2 \in DOMAIN lists /\ lists[2] = newObjs
  OBVIOUS
<1> HIDE DEF lists
<1>8. /\ obj' \in [Ids -> Objects]
      /\ \A id \in Range(ids) : id \in Ids => obj'[id] = store[id]
      /\ \A id \in Range(newObjs) : id \in Ids => obj'[id] = store[id]
  BY <1>1, <1>6, <1>7, CollectKeeps
<1>9. Range(newObjs) \subseteq Ids
  BY <1>2, RangeIn
<1>10. \A id \in Range(newObjs) : id \notin Range(ids)
  BY <1>5 DEF Range
<1>11. \A id \in Range(newObjs') : obj'[id].c \in Shapes
  BY <1>1, <1>2, <1>6, <1>8, <1>9, <1>10
<1>12. ScriptTyped(code', obj', objs', newObjs')
  BY <1>1, <1>2, <1>5, <1>8, <1>11 DEF ScriptTyped
<1>13. \A i \in 1..Len(drawn) : ids[i] \in Ids /\ ids[i] \in Range(ids)
  BY <1>5 DEF Range
<1>14. Looked(At(obj', ids), drawn)
  <2>1. Len(At(obj', ids)) = Len(drawn) /\ \A i \in 1..Len(drawn) : At(obj', ids)[i] = obj'[ids[i]]
    BY <1>5, <1>8, AtIs
  <2>2. \A i \in 1..Len(drawn) : At(obj', ids)[i] = New(drawn[i].c, drawn[i].p, drawn[i].q, drawn[i].k)
    BY <1>6, <1>8, <1>13, <2>1
  <2> DEFINE made == At(obj', ids)
  <2>3. Len(made) = Len(drawn)
        /\ \A i \in 1..Len(drawn) : made[i] = New(drawn[i].c, drawn[i].p, drawn[i].q, drawn[i].k)
    BY <2>1, <2>2
  <2> HIDE DEF made
  <2>4. \A i \in 1..Len(drawn) : /\ made[i].c = drawn[i].c /\ made[i].p = drawn[i].p
                                 /\ made[i].q = drawn[i].q /\ made[i].k = drawn[i].k
    <3> SUFFICES ASSUME NEW i \in 1..Len(drawn)
                 PROVE  /\ made[i].c = drawn[i].c /\ made[i].p = drawn[i].p
                        /\ made[i].q = drawn[i].q /\ made[i].k = drawn[i].k
      OBVIOUS
    <3>1. made[i] = New(drawn[i].c, drawn[i].p, drawn[i].q, drawn[i].k)
      BY <2>3
    <3>2. PICK d : d = drawn[i]
      OBVIOUS
    <3>3. made[i] = New(d.c, d.p, d.q, d.k)
      BY <3>1, <3>2
    <3> QED
      BY <3>2, <3>3 DEF New
  <2>5. Looked(made, drawn)
    BY <2>3, <2>4 DEF Looked
  <2> QED
    BY <2>5 DEF made
<1> QED
  BY <1>1, <1>5, <1>12, <1>14 DEF drawn

\* A rendering is done.
LEMMA RenderDoneTyped == ASSUME Typed, RenderDone PROVE Typed'
<1>1. /\ rendering' = FALSE /\ code' = code /\ newObjs' = newObjs /\ dirty' = dirty /\ toCommit' = toCommit
      /\ mode' = mode /\ known' = known /\ file' = file /\ disk' = disk
  BY DEF RenderDone
<1>2. /\ dirty \in BOOLEAN /\ toCommit \in BOOLEAN /\ mode \in {"edit", "preview", "closed"}
      /\ known \subseteq {"edit", "preview"} /\ file \in Files \cup {NoName} /\ disk \in [Files -> Seq(Lines)]
      /\ drawing \in BOOLEAN /\ window \in Seq(Ids)
  BY DEF Typed
<1>3. CASE mode = "edit"
  <2>1. ScriptTyped(code', obj', objs', newObjs') /\ window' \in Seq(Ids)
    BY <1>3, RenderedIs
  <2>2. drawing' = FALSE
    BY <1>3 DEF RenderDone
  <2> QED
    BY <1>1, <1>2, <2>1, <2>2, WindowTyped
<1>4. CASE mode # "edit"
  <2>1. UNCHANGED script /\ drawing' = drawing /\ window' = window
    BY <1>1, <1>4 DEF RenderDone, script
  <2>2. ScriptTyped(code', obj', objs', newObjs')
    BY <2>1, ScriptSame
  <2> QED
    BY <1>1, <1>2, <2>1, <2>2, WindowTyped
<1> QED
  BY <1>3, <1>4

-----------------------------------------------------------------------------
(* The types of a session: saving, loading, closing, and every step.        *)

\* Saving.
LEMMA SaveTyped == ASSUME Typed, NEW f \in Files, Save(f) PROVE Typed'
<1>1. ScriptTyped(code', obj', objs', newObjs')
  <2>1. CommitChanges \/ UNCHANGED script
    BY DEF Save
  <2> QED
    BY <2>1, CommitTyped, ScriptSame
<1>2. code' \in Seq(Lines)
  BY <1>1, CodeTypedThen
<1>3. /\ disk' = [disk EXCEPT ![f] = code'] /\ dirty' = FALSE /\ file' = f
      /\ window' = window /\ drawing' = drawing /\ toCommit' = toCommit /\ mode' = mode
         /\ rendering' = rendering
      /\ mode # "closed"
  BY DEF Save
<1>4. known' = known \/ known' = {mode}
  BY DEF Save
<1>5. /\ toCommit \in BOOLEAN /\ mode \in {"edit", "preview", "closed"} /\ rendering \in BOOLEAN
      /\ known \subseteq {"edit", "preview"} /\ disk \in [Files -> Seq(Lines)]
      /\ drawing \in BOOLEAN /\ window \in Seq(Ids)
  BY DEF Typed
<1>6. known' \subseteq {"edit", "preview"} /\ disk' \in [Files -> Seq(Lines)] /\ file' \in Files \cup {NoName}
  BY <1>2, <1>3, <1>4, <1>5
<1> QED
  BY <1>1, <1>3, <1>5, <1>6, WindowTyped

LEMMA AskedTyped ==
  ASSUME Typed, NEW to \in Files \cup {NoName}, Asked(to) PROVE disk' \in [Files -> Seq(Lines)]
<1>1. disk \in [Files -> Seq(Lines)] /\ CodeToSave \in Seq(Lines)
  BY CodeToSaveTyped DEF Typed
<1>2. disk' = disk \/ disk' = [f \in Files |-> IF f = to THEN CodeToSave ELSE disk[f]]
  BY DEF Asked
<1> QED
  BY <1>1, <1>2

\* Loading a script, and what loads one.
LEMMA LoadTyped ==
  ASSUME Typed, NEW f \in Files \cup {NoName}, NEW lines \in Seq(Lines), Load(f, lines),
         disk' \in [Files -> Seq(Lines)]
  PROVE  Typed'
<1>1. /\ code' = lines /\ obj' = [id \in Ids |-> NoObj] /\ objs' = <<>> /\ newObjs' = <<>> /\ window' = <<>>
      /\ dirty' = (f = NoName) /\ toCommit' = FALSE /\ file' = f /\ known' = {mode} /\ rendering' = TRUE
      /\ drawing' = drawing /\ mode' = mode /\ mode # "closed"
  BY DEF Load
<1>2. NoObj \in Objects
  BY DEF NoObj, Objects, Origin, Black
<1>3. ScriptTyped(code', obj', objs', newObjs')
  BY <1>1, <1>2 DEF ScriptTyped, Range
<1>4. window' \in Seq(Ids) /\ dirty' \in BOOLEAN
  BY <1>1
<1>5. mode \in {"edit", "preview", "closed"} /\ drawing \in BOOLEAN
  BY DEF Typed
<1>6. known' \subseteq {"edit", "preview"}
  BY <1>1, <1>5
<1> QED
  BY <1>1, <1>3, <1>4, <1>5, <1>6, WindowTyped

LEMMA LoadsTyped ==
  ASSUME Typed,
         \/ \E f \in Files, to \in Files \cup {NoName} : OpenFile(f, to)
         \/ Reload
         \/ \E to \in Files \cup {NoName} : NewFile(to)
  PROVE  Typed'
<1>1. CASE \E f \in Files, to \in Files \cup {NoName} : OpenFile(f, to)
  <2>1. PICK f \in Files, to \in Files \cup {NoName} : Asked(to) /\ Load(f, disk'[f])
    BY <1>1 DEF OpenFile
  <2>2. disk' \in [Files -> Seq(Lines)]
    BY <2>1, AskedTyped
  <2>3. disk'[f] \in Seq(Lines) /\ f \in Files \cup {NoName}
    BY <2>2
  <2> QED
    BY <2>1, <2>2, <2>3, LoadTyped
<1>2. CASE Reload
  <2>1. file # NoName /\ Load(file, disk[file]) /\ disk' = disk
    BY <1>2 DEF Reload
  <2>2. file \in Files /\ disk \in [Files -> Seq(Lines)]
    BY <2>1 DEF Typed
  <2>3. disk[file] \in Seq(Lines) /\ file \in Files \cup {NoName} /\ disk' \in [Files -> Seq(Lines)]
    BY <2>1, <2>2
  <2> QED
    BY <2>1, <2>3, LoadTyped
<1>3. CASE \E to \in Files \cup {NoName} : NewFile(to)
  <2> DEFINE line == Line("other", Origin, Black)
  <2>1. PICK to \in Files \cup {NoName} : Asked(to) /\ Load(NoName, <<line>>)
    BY <1>3 DEF NewFile
  <2>2. disk' \in [Files -> Seq(Lines)]
    BY <2>1, AskedTyped
  <2>3. line \in Lines
    BY DEF Line, Lines, Origin, Black
  <2> HIDE DEF line
  <2>4. PICK one : one = <<line>>
    OBVIOUS
  <2>5. one \in Seq(Lines) /\ Load(NoName, one) /\ NoName \in Files \cup {NoName}
    BY <2>1, <2>3, <2>4
  <2> QED
    BY <2>2, <2>5, LoadTyped
<1> QED
  BY <1>1, <1>2, <1>3

\* Closing.
LEMMA CloseTyped == ASSUME Typed, NEW to \in Files \cup {NoName}, Close(to) PROVE Typed'
<1>1. /\ UNCHANGED script /\ mode' = "closed" /\ dirty' = FALSE /\ Asked(to)
      /\ window' = window /\ drawing' = drawing /\ toCommit' = toCommit
         /\ rendering' = rendering /\ known' = known
      /\ file' = IF file = NoName THEN to ELSE file
  BY DEF Close
<1>2. disk' \in [Files -> Seq(Lines)] /\ ScriptTyped(code', obj', objs', newObjs')
  BY <1>1, AskedTyped, ScriptSame
<1>3. /\ window \in Seq(Ids) /\ drawing \in BOOLEAN /\ toCommit \in BOOLEAN /\ rendering \in BOOLEAN
      /\ known \subseteq {"edit", "preview"} /\ file \in Files \cup {NoName}
  BY DEF Typed
<1>4. file' \in Files \cup {NoName}
  BY <1>1, <1>3
<1> QED
  BY <1>1, <1>2, <1>3, <1>4, WindowTyped

LEMMA StutterTyped == ASSUME Typed, UNCHANGED vars PROVE Typed'
<1>1. UNCHANGED <<script, area, mode, rendering, known, file, disk>>
  BY DEF vars
<1>2. /\ ScriptTyped(code', obj', objs', newObjs')
  BY <1>1, ScriptSame
<1>3. UNCHANGED <<window, drawing, dirty, toCommit, mode, rendering, known, file, disk>>
  BY <1>1 DEF area
<1> QED
  BY <1>2, <1>3 DEF Typed

\* Every step keeps the types.
LEMMA TypedStep == ASSUME Typed, [Next]_vars PROVE Typed'
<1>1. ASSUME NEW c \in Shapes, NEW p \in Points, NEW k \in Colors, Start(c, p, k) PROVE Typed'
  BY <1>1, StartTyped
<1>2. CASE \E q \in Points : Finish(q)
  BY <1>2, EditTyped
<1>3. CASE Escape
  BY <1>3, EscapeTyped
<1>4. ASSUME NEW p \in Points, NEW k \in Colors, DrawText(p, k) PROVE Typed'
  BY <1>4, DrawTextTyped
<1>5. CASE \E i \in DOMAIN window, p, q \in Points : Move(i, p, q)
  BY <1>5, EditTyped
<1>6. CASE \E i \in DOMAIN window, k \in Colors : Recolor(i, k)
  BY <1>6, EditTyped
<1>7. ASSUME NEW selected, DeleteSelected(selected) PROVE Typed'
  BY <1>7, DeleteTyped
<1>8. CASE ToPreview
  BY <1>8, ToPreviewTyped
<1>9. CASE ToEdit
  BY <1>9, ToEditTyped
<1>10. CASE RenderDone
  BY <1>10, RenderDoneTyped
<1>11. ASSUME NEW f \in Files, Save(f) PROVE Typed'
  BY <1>11, SaveTyped
<1>12. CASE \/ \E f \in Files, to \in Files \cup {NoName} : OpenFile(f, to)
            \/ Reload
            \/ \E to \in Files \cup {NoName} : NewFile(to)
  BY <1>12, LoadsTyped
<1>13. ASSUME NEW to \in Files \cup {NoName}, Close(to) PROVE Typed'
  BY <1>13, CloseTyped
<1>14. CASE UNCHANGED vars
  BY <1>14, StutterTyped
<1> QED
  BY <1>1, <1>2, <1>3, <1>4, <1>5, <1>6, <1>7, <1>8, <1>9, <1>10, <1>11, <1>12, <1>13, <1>14 DEF Next, Closed

\* All states of a session are typed: in particular every commit makes a script,
\* and the objects of the script and the new ones are objects there are.
THEOREM TypesKept == Spec => []Typed
<1>1. Init => Typed
  BY InitTyped
<1>2. Typed /\ [Next]_vars => Typed'
  BY TypedStep
<1> QED
  BY <1>1, <1>2, PTL DEF Spec

-----------------------------------------------------------------------------
(* What the types alone show: a commit keeps the other lines, and is stable. *)

\* The other lines before are a part of those after, and only empty lines follow.
Longer(s, more, x, t) == t = s \o more /\ \A i \in 1..Len(more) : more[i] = x

\* A longer list has the shorter one as its prefix.
LEMMA PrefixOf ==
  ASSUME NEW S, NEW s \in Seq(S), NEW more \in Seq(S), NEW x, NEW t, Longer(s, more, x, t)
  PROVE  IsPrefix(s, t) /\ \A i \in (Len(s) + 1)..Len(t) : t[i] = x
<1> DEFINE m == Len(s)
           n == Len(more)
<1>1. m \in Nat /\ n \in Nat /\ t \in Seq(S) /\ Len(t) = m + n /\ (\A i \in 1..m : t[i] = s[i])
      /\ \A i \in (m+1)..(m+n) : t[i] = more[i - m]
  BY DEF Longer
<1>2. SubSeq(t, 1, m) \in Seq(S) /\ Len(SubSeq(t, 1, m)) = m /\ \A i \in 1..m : SubSeq(t, 1, m)[i] = s[i]
  <2> HIDE DEF m, n
  <2>1. m <= Len(t)
    BY <1>1
  <2> QED
    BY <1>1, <2>1
<1>3. SubSeq(t, 1, m) = s
  <2> DEFINE u == SubSeq(t, 1, m)
  <2>1. u \in Seq(S) /\ Len(u) = Len(s) /\ \A i \in 1..Len(s) : u[i] = s[i]
    BY <1>2
  <2> HIDE DEF u
  <2>2. u = s
    BY <2>1, SameList
  <2> QED
    BY <2>2 DEF u
<1>4. SubSeq(s, 1, Len(s)) = s
  <2> DEFINE u == SubSeq(s, 1, Len(s))
  <2>1. u \in Seq(S) /\ Len(u) = Len(s) /\ \A i \in 1..Len(s) : u[i] = s[i]
    OBVIOUS
  <2> HIDE DEF u
  <2>2. u = s
    BY <2>1, SameList
  <2> QED
    BY <2>2 DEF u
<1>5. IsPrefix(s, t)
  BY <1>1, <1>3, <1>4 DEF IsPrefix
<1>6. \A i \in (m+1)..(m+n) : i - m \in 1..n
  BY <1>1
<1> QED
  BY <1>1, <1>5, <1>6 DEF Longer

\* Other lines are kept, by what a commit does.
LEMMA OtherLinesSafe == ASSUME Typed PROVE OtherLinesKept
<1>1. code \in Seq(Lines) /\ ScriptTyped(code, obj, objs, newObjs)
  BY DEF Typed, ScriptTyped
<1>2. At(obj, objs) \in Seq(Objects) /\ At(obj, newObjs) \in Seq(NewObjects)
  BY <1>1, ScriptIs
<1> DEFINE before == Only(code, Others)
           after == Only(CodeToSave, Others)
<1>3. before \in Seq(Lines)
  BY <1>1, OnlyIn
<1>4. \E more \in Seq(Lines) : Longer(before, more, Blank, after)
  <2>1. CASE CodeToSave = Committed(code, At(obj, objs), At(obj, newObjs))
    <3>1. PICK more \in Seq(Lines) :
            /\ Only(Committed(code, At(obj, objs), At(obj, newObjs)), Others) = Only(code, Others) \o more
            /\ \A i \in 1..Len(more) : more[i] = Blank
      BY <1>1, <1>2, OthersStay
    <3>2. Longer(before, more, Blank, after)
      BY <2>1, <3>1 DEF Longer
    <3> QED
      BY <3>2
  <2>2. CASE CodeToSave = code
    <3>1. after = before
      BY <2>2
    <3> HIDE DEF before, after
    <3>2. PICK none : none = <<>>
      OBVIOUS
    <3>3. none \in Seq(Lines) /\ before \o none = before /\ \A i \in 1..Len(none) : none[i] = Blank
      BY <1>3, <3>2
    <3>4. Longer(before, none, Blank, after)
      BY <3>1, <3>3 DEF Longer
    <3> QED
      BY <3>3, <3>4
  <2> QED
    BY <2>1, <2>2, TheObjsIs DEF CodeToSave
<1>5. PICK more \in Seq(Lines) : Longer(before, more, Blank, after)
  BY <1>4
<1> HIDE DEF before, after
<1>6. IsPrefix(before, after) /\ \A i \in (Len(before) + 1)..Len(after) : after[i] = Blank
  BY <1>3, <1>5, PrefixOf
<1> QED
  BY <1>6 DEF OtherLinesKept, before, after, Others

\* Whatever the user does, saving now would leave the comments and the other
\* commands as they are and in their order (performUpdates, handleNewDrawObject),
\* for all scripts, points, colours and numbers of objects and commands.
THEOREM OthersKept == Spec => []OtherLinesKept
<1>1. Typed => OtherLinesKept
  BY OtherLinesSafe
<1> QED
  BY <1>1, TypesKept, PTL

\* A commit when nothing differs does nothing.
LEMMA StableSafe == ASSUME Typed PROVE CommitIsStable
<1> SUFFICES ASSUME newObjs = <<>>, \A i \in DOMAIN objs : ~Deleted(objs[i]), Look(TheObjs(objs)) = Drawn(code)
             PROVE  CodeToSave = code
  BY DEF CommitIsStable
<1>1. code \in Seq(Lines) /\ ScriptTyped(code, obj, objs, newObjs) /\ obj \in [Ids -> Objects]
      /\ objs \in Seq(Ids)
  BY DEF Typed, ScriptTyped
<1>2. At(obj, objs) \in Seq(Objects) /\ Look(At(obj, objs)) = Drawn(code)
  BY <1>1, ScriptIs, TheObjsIs
<1>3. At(obj, newObjs) = <<>>
  BY DEF At
<1>4. \A m \in 1..Len(At(obj, objs)) : ~At(obj, objs)[m].deleted
  <2>1. Len(At(obj, objs)) = Len(objs) /\ \A i \in 1..Len(objs) : At(obj, objs)[i] = obj[objs[i]]
    BY <1>1, AtIs
  <2>2. \A i \in 1..Len(objs) : ~obj[objs[i]].deleted
    BY <1>1 DEF Deleted
  <2> QED
    BY <2>1, <2>2
<1>5. Committed(code, At(obj, objs), <<>>) = code
  BY <1>1, <1>2, <1>4, CommitStable
<1> QED
  BY <1>3, <1>5, TheObjsIs DEF CodeToSave

\* Whatever the user does, a commit when nothing differs does nothing
\* (handleNewDrawObject compares a command with its object before it writes).
THEOREM CommitStays == Spec => []CommitIsStable
<1>1. Typed => CommitIsStable
  BY StableSafe
<1> QED
  BY <1>1, TypesKept, PTL

-----------------------------------------------------------------------------
(* The objects left of a list are those of the numbers left.                *)

\* Joined lists of objects.
AtApart(o, s, t) == At(o, s \o t) = At(o, s) \o At(o, t)

\* The objects of joined lists of numbers.
LEMMA AtJoined ==
  ASSUME NEW o \in [Ids -> Objects], NEW s \in Seq(Ids), NEW t \in Seq(Ids)
  PROVE  AtApart(o, s, t)
<1> DEFINE st == s \o t
           u == At(o, st)
           v == At(o, s) \o At(o, t)
<1>1. st \in Seq(Ids) /\ Len(st) = Len(s) + Len(t) /\ Len(s) \in Nat /\ Len(t) \in Nat
      /\ (\A i \in 1..Len(s) : st[i] = s[i]) /\ \A i \in 1..Len(t) : st[Len(s) + i] = t[i]
  OBVIOUS
<1> HIDE DEF st
<1>2. u \in Seq(Objects) /\ Len(u) = Len(s) + Len(t) /\ \A i \in 1..Len(st) : u[i] = o[st[i]]
  <2>1. st \in Seq(Ids)
    BY <1>1
  <2>2. u \in Seq(Objects) /\ Len(u) = Len(st) /\ \A i \in 1..Len(st) : u[i] = o[st[i]]
    BY <2>1, AtIs
  <2> QED
    BY <1>1, <2>2
<1>3. /\ At(o, s) \in Seq(Objects) /\ Len(At(o, s)) = Len(s) /\ \A i \in 1..Len(s) : At(o, s)[i] = o[s[i]]
      /\ At(o, t) \in Seq(Objects) /\ Len(At(o, t)) = Len(t) /\ \A i \in 1..Len(t) : At(o, t)[i] = o[t[i]]
  BY AtIs
<1>4. v \in Seq(Objects) /\ Len(v) = Len(s) + Len(t) /\ (\A i \in 1..Len(s) : v[i] = o[s[i]])
      /\ \A i \in 1..Len(t) : v[Len(s) + i] = o[t[i]]
  <2> DEFINE a == At(o, s)
             b == At(o, t)
  <2>1. a \in Seq(Objects) /\ b \in Seq(Objects) /\ Len(a) = Len(s) /\ Len(b) = Len(t)
        /\ (\A i \in 1..Len(s) : a[i] = o[s[i]]) /\ \A i \in 1..Len(t) : b[i] = o[t[i]]
    BY <1>3
  <2> HIDE DEF a, b
  <2>2. v = a \o b
    BY DEF a, b
  <2> HIDE DEF v
  <2>3. v \in Seq(Objects) /\ Len(v) = Len(a) + Len(b) /\ (\A i \in 1..Len(a) : v[i] = a[i])
        /\ \A i \in 1..Len(b) : v[Len(a) + i] = b[i]
    <3>1. a \in Seq(Objects) /\ b \in Seq(Objects)
      BY <2>1
    <3>2. a \o b \in Seq(Objects) /\ Len(a \o b) = Len(a) + Len(b) /\ (\A i \in 1..Len(a) : (a \o b)[i] = a[i])
          /\ \A i \in 1..Len(b) : (a \o b)[Len(a) + i] = b[i]
      BY <3>1
    <3> QED
      BY <2>2, <3>2
  <2> QED
    BY <2>1, <2>3
<1> HIDE DEF u, v
<1>5. ASSUME NEW i \in 1..Len(u) PROVE u[i] = v[i]
  <2>1. CASE i \in 1..Len(s)
    BY <1>1, <1>2, <1>4, <2>1
  <2>2. CASE i \notin 1..Len(s)
    <3>1. PICK j \in 1..Len(t) : i = Len(s) + j
      <4>1. i - Len(s) \in 1..Len(t) /\ i = Len(s) + (i - Len(s))
        BY <1>1, <1>2, <2>2
      <4> QED
        BY <4>1
    <3>2. u[i] = o[st[i]] /\ st[i] = t[j] /\ v[i] = o[t[j]]
      BY <1>1, <1>2, <1>4, <3>1
    <3> QED
      BY <3>2
  <2> QED
    BY <2>1, <2>2
<1>6. u = v
  BY <1>2, <1>4, <1>5, SameList
<1> QED
  BY <1>6 DEF u, v, st, AtApart

\* The objects that are left of a list are those of the numbers that are left.
LEMMA OnlyAt ==
  ASSUME NEW o \in [Ids -> Objects], NEW s \in Seq(Ids), NEW S,
         \A id \in Ids : id \in S <=> ~o[id].deleted
  PROVE  At(o, Only(s, S)) = Only(At(o, s), Live)
<1> DEFINE n == Len(s)
           a == At(o, s)
<1>1. a \in Seq(Objects) /\ Len(a) = n /\ \A i \in 1..n : a[i] = o[s[i]] /\ s[i] \in Ids
  BY AtIs
<1> HIDE DEF a
<1>2. PICK f : OnlyTo(f, s, S) /\ Only(s, S) = f[n]
  BY OnlyIs
<1>3. PICK g : OnlyTo(g, a, Live) /\ Only(a, Live) = g[n]
  <2>1. PICK g : OnlyTo(g, a, Live) /\ Only(a, Live) = g[Len(a)]
    BY <1>1, OnlyIs
  <2> QED
    BY <1>1, <2>1
<1>4. n \in Nat /\ n \in 0..n /\ 0 \in 0..n /\ \A i \in 1..n : i \in 0..n /\ i - 1 \in 0..n
  OBVIOUS
<1> DEFINE T == {i \in 0..n : f[i] \in Seq(Ids) /\ At(o, f[i]) = g[i]}
<1>5. 0 \in T
  <2>1. f[0] = <<>> /\ g[0] = <<>> /\ f[0] \in Seq(Ids)
    BY <1>2, <1>3 DEF OnlyTo
  <2>2. At(o, <<>>) = <<>>
    BY DEF At
  <2> QED
    BY <1>4, <2>1, <2>2
<1>6. \A i \in 1..n : i - 1 \in T => i \in T
  <2> SUFFICES ASSUME NEW i \in 1..n, f[i-1] \in Seq(Ids), At(o, f[i-1]) = g[i-1]
               PROVE  f[i] \in Seq(Ids) /\ At(o, f[i]) = g[i]
    BY <1>4
  <2>1. f[i] = IF s[i] \in S THEN Append(f[i-1], s[i]) ELSE f[i-1]
    BY <1>2 DEF OnlyTo
  <2>2. g[i] = IF a[i] \in Live THEN Append(g[i-1], a[i]) ELSE g[i-1]
    BY <1>1, <1>3 DEF OnlyTo
  <2>3. s[i] \in Ids /\ a[i] = o[s[i]] /\ a[i] \in Objects
    BY <1>1
  <2>4. s[i] \in S <=> a[i] \in Live
    BY <2>3 DEF Live
  <2>5. CASE s[i] \notin S
    BY <2>1, <2>2, <2>4, <2>5
  <2>6. CASE s[i] \in S
    <3> DEFINE h == f[i-1]
               x == s[i]
    <3>1. PICK one : one = <<x>>
      OBVIOUS
    <3>2. h \in Seq(Ids) /\ x \in Ids /\ f[i] = Append(h, x)
      BY <2>1, <2>3, <2>6
    <3> HIDE DEF h, x
    <3>3. one \in Seq(Ids) /\ f[i] = h \o one /\ f[i] \in Seq(Ids) /\ At(o, one) = <<o[x]>>
      BY <3>1, <3>2 DEF At
    <3>4. AtApart(o, h, one)
      BY <3>2, <3>3, AtJoined
    <3>5. At(o, f[i]) = At(o, h) \o <<o[x]>>
      BY <3>3, <3>4 DEF AtApart
    <3>6. At(o, h) \in Seq(Objects) /\ o[x] \in Objects
      BY <3>2, AtIs
    <3>7. At(o, h) \o <<o[x]>> = Append(At(o, h), o[x])
      <4> DEFINE b == At(o, h)
      <4> HIDE DEF b
      <4>1. b \in Seq(Objects)
        BY <3>6 DEF b
      <4>2. b \o <<o[x]>> = Append(b, o[x])
        BY <3>6, <4>1
      <4> QED
        BY <4>2 DEF b
    <3>8. g[i] = Append(At(o, h), o[x])
      BY <2>2, <2>3, <2>4, <2>6 DEF h, x
    <3> QED
      BY <3>3, <3>5, <3>7, <3>8
  <2> QED
    BY <2>5, <2>6
<1> HIDE DEF T
<1>7. \A i \in 0..n : i \in T
  BY <1>4, <1>5, <1>6, Inductive
<1>8. At(o, f[n]) = g[n]
  BY <1>4, <1>7 DEF T
<1> QED
  BY <1>2, <1>3, <1>8 DEF a

-----------------------------------------------------------------------------
(* After a commit the objects of the script are those its commands draw.    *)

\* Only what the elements of the list are matters.
LEMMA RemoveSame ==
  ASSUME NEW S, NEW list \in Seq(S), NEW D, NEW E, \A i \in 1..Len(list) : list[i] \in D <=> list[i] \in E
  PROVE  RemoveDeleted(list, D) = RemoveDeleted(list, E)
<1> DEFINE n == Len(list)
           G(i, X) == {j \in 1..i : list[j] \in X}
           gone(i, X) == Cardinality(G(i, X))
<1>1. n \in Nat
  OBVIOUS
<1>2. \A i \in 0..n : gone(i, D) = gone(i, E)
  <2>1. \A i \in 0..n : G(i, D) = G(i, E)
    OBVIOUS
  <2> HIDE DEF G, n
  <2> QED
    BY <2>1
<1>3. /\ RemoveDeleted(list, D) = [i \in 1..(n - gone(n, D)) |-> list[i + gone(i, D)]]
      /\ RemoveDeleted(list, E) = [i \in 1..(n - gone(n, E)) |-> list[i + gone(i, E)]]
  BY DEF RemoveDeleted
<1>4. gone(n, D) \in Nat
  <2>1. IsFiniteSet(1..n) /\ G(n, D) \in SUBSET (1..n)
    BY <1>1, FS_Interval
  <2> HIDE DEF G, n
  <2>2. IsFiniteSet(G(n, D))
    BY <2>1, FS_Subset
  <2> QED
    BY <2>2, FS_CardinalityType
<1> HIDE DEF gone
<1>5. n \in 0..n /\ \A i \in 1..(n - gone(n, D)) : i \in 0..n
  BY <1>1, <1>4
<1> HIDE DEF n
<1>6. gone(n, D) = gone(n, E) /\ \A i \in 1..(n - gone(n, D)) : gone(i, D) = gone(i, E)
  BY <1>2, <1>5
<1> QED
  BY <1>3, <1>6

\* Two of a kind count as two.
LEMMA OneDeleted ==
  ASSUME NEW n \in Nat, NEW P, P \subseteq 1..n, Cardinality(P) < 2
  PROVE  \A i, j \in P : i = j
<1> SUFFICES ASSUME NEW i \in P, NEW j \in P, i # j PROVE FALSE
  OBVIOUS
<1>1. IsFiniteSet(P)
  <2>1. IsFiniteSet(1..n)
    BY FS_Interval
  <2>2. P \in SUBSET (1..n)
    OBVIOUS
  <2> QED
    BY <2>1, <2>2, FS_Subset
<1>2. IsFiniteSet({i}) /\ Cardinality({i}) = 1
  BY FS_Singleton
<1>3. j \notin {i}
  OBVIOUS
<1>4. Cardinality({i} \cup {j}) = 2
  BY <1>2, <1>3, FS_AddElement
<1>5. {i} \cup {j} \in SUBSET P
  OBVIOUS
<1>6. Cardinality({i} \cup {j}) <= Cardinality(P) /\ Cardinality(P) \in Nat
  BY <1>1, <1>5, FS_Subset, FS_CardinalityType
<1> QED
  BY <1>4, <1>6

\* The numbers that are left after a commit, when one object at most was deleted.
LEMMA LeftAfter ==
  ASSUME Typed, NEW live, live = {id \in Ids : ~Deleted(id)},
         Cardinality({i \in DOMAIN objs : Deleted(objs[i])}) < 2, NEW all, all = objs \o Only(newObjs, live)
  PROVE  /\ all \in Seq(Ids)
         /\ RemoveDeleted(all, {id \in ToSet(all) : Deleted(id)}) = Only(all, live)
         /\ OnlyApart(objs, Only(newObjs, live), live)
         /\ Only(Only(newObjs, live), live) = Only(newObjs, live)
<1> DEFINE new == Only(newObjs, live)
           dead == {id \in ToSet(all) : Deleted(id)}
           D == Ids \ live
           n == Len(objs)
<1>1. objs \in Seq(Ids) /\ newObjs \in Seq(Ids)
  BY DEF Typed, ScriptTyped
<1>2. new \in Seq(Ids) /\ new \in Seq(live)
  BY <1>1, OnlyIn
<1>3. Only(new, live) = new
  <2> HIDE DEF new
  <2>1. \A i \in 1..Len(new) : new[i] \in live
    BY <1>2
  <2> QED
    BY <1>2, <2>1, OnlyAll
<1>4. OnlyApart(objs, new, live)
  <2> HIDE DEF new
  <2> QED
    BY <1>1, <1>2, OnlyJoined
<1>5. /\ all \in Seq(Ids) /\ n \in Nat /\ Len(all) = n + Len(new) /\ Len(new) \in Nat
      /\ (\A i \in 1..n : all[i] = objs[i])
      /\ \A i \in 1..Len(new) : all[n + i] = new[i]
  <2> HIDE DEF new
  <2>1. all = objs \o new
    BY DEF new
  <2>2. /\ objs \o new \in Seq(Ids) /\ Len(objs \o new) = Len(objs) + Len(new)
           /\ Len(objs) \in Nat /\ Len(new) \in Nat
        /\ (\A i \in 1..Len(objs) : (objs \o new)[i] = objs[i])
        /\ \A i \in 1..Len(new) : (objs \o new)[Len(objs) + i] = new[i]
    BY <1>1, <1>2
  <2> QED
    BY <2>1, <2>2
<1>6. \A i \in 1..Len(all) : all[i] \in dead <=> all[i] \in D
  <2> SUFFICES ASSUME NEW i \in 1..Len(all) PROVE all[i] \in dead <=> all[i] \in D
    OBVIOUS
  <2>1. all[i] \in Ids /\ all[i] \in ToSet(all)
    <3>1. all \in Seq(Ids)
      BY <1>5
    <3>2. DOMAIN all = 1..Len(all) /\ all[i] \in Ids
      BY <3>1
    <3> QED
      BY <3>2 DEF ToSet
  <2> QED
    BY <2>1
<1>7. RemoveDeleted(all, dead) = RemoveDeleted(all, D)
  <2> HIDE DEF dead, D
  <2> QED
    BY <1>5, <1>6, RemoveSame
<1>8. \A i \in 1..Len(all) : all[i] \in D => i \in 1..n /\ Deleted(objs[i])
  <2> SUFFICES ASSUME NEW i \in 1..Len(all), all[i] \in D PROVE i \in 1..n /\ Deleted(objs[i])
    OBVIOUS
  <2>1. CASE i \in 1..n
    <3>1. all[i] \in Ids /\ all[i] \notin live /\ all[i] = objs[i]
      BY <1>5, <2>1
    <3> QED
      BY <2>1, <3>1
  <2>2. CASE i \notin 1..n
    <3>1. i - n \in 1..Len(new) /\ i = n + (i - n)
      BY <1>5, <2>2
    <3>2. PICK j \in 1..Len(new) : i = n + j
      BY <3>1
    <3>3. all[i] = new[j] /\ new[j] \in live
      <4> HIDE DEF new
      <4>1. new \in Seq(live)
        BY <1>2
      <4>2. new[j] \in live
        BY <4>1
      <4>3. all[i] = new[j]
        BY <1>5, <3>2
      <4> QED
        BY <4>2, <4>3
    <3> QED
      BY <3>3
  <2> QED
    BY <2>1, <2>2
<1>9. \A i, j \in 1..Len(all) : all[i] \in D /\ all[j] \in D => i = j
  <2> DEFINE P == {i \in 1..n : Deleted(objs[i])}
  <2>1. P \subseteq 1..n /\ Cardinality(P) < 2
    <3>1. DOMAIN objs = 1..n
      BY <1>1
    <3> QED
      BY <3>1
  <2>2. \A i \in 1..Len(all) : all[i] \in D => i \in P
    BY <1>8
  <2> HIDE DEF P, D
  <2>3. \A i, j \in P : i = j
    BY <1>5, <2>1, OneDeleted
  <2> QED
    BY <2>2, <2>3
<1>10. RemoveDeleted(all, D) = Only(all, Ids \ D)
  <2> HIDE DEF D
  <2> QED
    BY <1>5, <1>9, RemoveDeletedOnly
<1>11. Ids \ D = live
  OBVIOUS
<1> QED
  BY <1>3, <1>4, <1>5, <1>7, <1>10, <1>11

\* After a commit the objects of the script are again those its commands draw.
LEMMA CommitMatches ==
  ASSUME Typed, CommitChanges, KindsOf(At(obj, objs)) = KindsOf(Drawn(code)),
         Cardinality({i \in DOMAIN objs : Deleted(objs[i])}) < 2
  PROVE  KindsOf(At(obj', objs')) = KindsOf(Drawn(code'))
<1> DEFINE live == {id \in Ids : ~Deleted(id)}
           all == objs \o Only(newObjs, live)
           left == RemoveDeleted(all, {id \in ToSet(all) : Deleted(id)})
           a == At(obj, objs)
           b == At(obj, newObjs)
           lists == <<left, window>>
<1>1. objs' = left /\ obj' = Collect(obj, lists)
  BY DEF CommitChanges
<1>2. /\ code \in Seq(Lines) /\ obj \in [Ids -> Objects] /\ objs \in Seq(Ids) /\ newObjs \in Seq(Ids)
      /\ ScriptTyped(code, obj, objs, newObjs)
  BY DEF Typed, ScriptTyped
<1>3. a \in Seq(Objects) /\ b \in Seq(NewObjects) /\ b \in Seq(Objects)
  BY <1>2, ScriptIs
<1>4. code' = Committed(code, a, b)
  BY CommitTyped
<1>5. KindsOf(Drawn(code')) = KindsOf(Only(a, Live)) \o KindsOf(Only(b, Live))
  <2> HIDE DEF a, b
  <2>1. KindsOf(a) = KindsOf(Drawn(code))
    BY DEF a
  <2> QED
    BY <1>2, <1>3, <1>4, <2>1, KindsCommitted
<1>6. \A id \in Ids : id \in live <=> ~obj[id].deleted
  BY DEF Deleted
<1>7. all \in Seq(Ids) /\ left = Only(all, live) /\ OnlyApart(objs, Only(newObjs, live), live)
      /\ Only(Only(newObjs, live), live) = Only(newObjs, live)
  <2>1. PICK l : l = live
    OBVIOUS
  <2>2. PICK w : w = all
    OBVIOUS
  <2>3. l = {id \in Ids : ~Deleted(id)} /\ w = objs \o Only(newObjs, l)
    BY <2>1, <2>2
  <2>4. /\ w \in Seq(Ids) /\ RemoveDeleted(w, {id \in ToSet(w) : Deleted(id)}) = Only(w, l)
        /\ OnlyApart(objs, Only(newObjs, l), l) /\ Only(Only(newObjs, l), l) = Only(newObjs, l)
    BY <2>3, LeftAfter
  <2> QED
    BY <2>1, <2>2, <2>4
<1> DEFINE s == Only(objs, live)
           t == Only(newObjs, live)
<1>8. left = s \o t
  BY <1>7 DEF OnlyApart
<1> HIDE DEF live
<1>9. s \in Seq(Ids) /\ t \in Seq(Ids) /\ At(obj, s) = Only(a, Live) /\ At(obj, t) = Only(b, Live)
  BY <1>2, <1>6, OnlyIn, OnlyAt
<1> HIDE DEF all, left, s, t, a, b
<1>10. left \in Seq(Ids)
  BY <1>8, <1>9
<1>11. At(obj', left) = At(obj, left)
  <2>1. 1 \in DOMAIN lists /\ lists[1] = left
    OBVIOUS
  <2> HIDE DEF lists
  <2>2. \A id \in Range(left) : id \in Ids => obj'[id] = obj[id]
    BY <1>1, <1>2, <2>1, CollectKeeps
  <2>3. Range(left) \subseteq Ids
    BY <1>10, RangeIn
  <2> QED
    BY <1>10, <2>2, <2>3, SameAt
<1>12. At(obj, left) = At(obj, s) \o At(obj, t)
  <2>1. AtApart(obj, s, t)
    BY <1>2, <1>9, AtJoined
  <2> QED
    BY <1>8, <2>1 DEF AtApart
<1>13. At(obj, s) \in Seq(Objects) /\ At(obj, t) \in Seq(Objects)
  BY <1>2, <1>9, AtIs
<1>14. KindsApart(At(obj, s), At(obj, t))
  BY <1>13, KindsJoined
<1> QED
  BY <1>1, <1>5, <1>9, <1>11, <1>12, <1>14 DEF KindsApart

-----------------------------------------------------------------------------
(* The invariant behind ObjectsMatch: the drawing area.                     *)

\* The drawing area can be used; nothing is half-way or to be committed.
InEdit == mode = "edit" /\ ~rendering
Idle == ~toCommit /\ ~drawing /\ newObjs = <<>>
\* The objects of the script are what its commands draw: by kind, or by looks.
Kinds == KindsOf(At(obj, objs)) = KindsOf(Drawn(code))
Same == Look(At(obj, objs)) = Drawn(code)
\* A new object is there only while it is being drawn.
OnlyDrawing == Len(newObjs) = (IF drawing THEN 1 ELSE 0)

\* The inductive invariant.  In edit mode objects and commands are of the same
\* kinds, one by one; with nothing to commit they look the same, and there is no
\* new object but the one being drawn.  In preview mode, and while the script is
\* rendered, there is nothing new and nothing to commit; a preview that knows the
\* drawing area to be up to date has objects that look as drawn.  The object that
\* is being drawn is the last one in both lists, so that Escape takes it away
\* from both.
Matching ==
  /\ InEdit => Kinds
  /\ InEdit /\ ~toCommit => Same /\ OnlyDrawing
  /\ mode = "preview" \/ (mode = "edit" /\ rendering) => Idle
  /\ mode = "preview" /\ "edit" \in known => ~rendering /\ Same
  /\ drawing => window # <<>> /\ newObjs # <<>> /\ Last(window) = Last(newObjs)

\* What looks the same is of the same kind.
LEMMA SameKinds == Same => Kinds
BY DEF Same, Kinds, Look, KindsOf

LEMMA LookedIs ==
  ASSUME NEW list \in Seq(Objects), NEW looks \in Seq(Looks), Looked(list, looks)
  PROVE  Look(list) = looks
<1>1. Look(list) = [i \in 1..Len(looks) |-> [c |-> list[i].c, p |-> list[i].p, q |-> list[i].q, k |-> list[i].k]]
  <2>1. DOMAIN list = 1..Len(looks)
    BY DEF Looked
  <2> QED
    BY <2>1 DEF Look
<1>2. \A i \in 1..Len(looks) : [c |-> list[i].c, p |-> list[i].p, q |-> list[i].q, k |-> list[i].k] = looks[i]
  <2> SUFFICES ASSUME NEW i \in 1..Len(looks)
               PROVE  [c |-> list[i].c, p |-> list[i].p, q |-> list[i].q, k |-> list[i].k] = looks[i]
    OBVIOUS
  <2>1. looks[i] \in Looks
    OBVIOUS
  <2>2. list[i].c = looks[i].c /\ list[i].p = looks[i].p /\ list[i].q = looks[i].q /\ list[i].k = looks[i].k
    BY DEF Looked
  <2> QED
    BY <2>1, <2>2 DEF Looks
<1>3. looks = [i \in 1..Len(looks) |-> looks[i]]
  OBVIOUS
<1> QED
  BY <1>1, <1>2, <1>3

LEMMA KindsSame ==
  ASSUME NEW ids \in Seq(Ids), NEW o, NEW o2, \A id \in Range(ids) : o2[id].c = o[id].c
  PROVE  KindsOf(At(o2, ids)) = KindsOf(At(o, ids))
BY DEF KindsOf, At, Range

LEMMA LastAppended ==
  ASSUME NEW s \in Seq(Ids), NEW x \in Ids
  PROVE  Last(Append(s, x)) = x /\ Append(s, x) # <<>> /\ Len(Append(s, x)) = Len(s) + 1
BY DEF Last

LEMMA AddNewDoes ==
  ASSUME Typed, NEW o, AddNew(o)
  PROVE  \E id \in Ids : /\ id \notin Range(objs) /\ obj' = [obj EXCEPT ![id] = o]
                         /\ newObjs' = Append(newObjs, id) /\ window' = Append(window, id)
<1> DEFINE used == Range(objs) \cup Range(newObjs) \cup Range(window)
           id == Min(Ids \ used)
<1>1. objs \in Seq(Ids) /\ newObjs \in Seq(Ids) /\ window \in Seq(Ids)
  BY DEF Typed, ScriptTyped
<1>2. used \subseteq Ids
  BY <1>1, RangeIn
<1>3. Ids # used /\ obj' = [obj EXCEPT ![id] = o] /\ newObjs' = Append(newObjs, id)
      /\ window' = Append(window, id)
  BY DEF AddNew
<1>4. id \in Ids /\ id \notin used
  <2> HIDE DEF used
  <2> QED
    BY <1>2, <1>3, NewId
<1> HIDE DEF id
<1> QED
  BY <1>3, <1>4

LEMMA InAreaEdit ==
  ASSUME Careful, InArea
  PROVE  InEdit /\ mode' = "edit" /\ rendering' = rendering /\ objs' = objs /\ code' = code
BY DEF InArea, InEdit, Careful

\* A change in the drawing area that is to be committed, and leaves nothing half-way.
LEMMA TouchMatches ==
  ASSUME Careful, Typed, Matching, InArea, toCommit', ~drawing',
         \A id \in Range(objs) : obj'[id].c = obj[id].c
  PROVE  Matching'
<1>1. InEdit /\ mode' = "edit" /\ rendering' = rendering /\ objs' = objs /\ code' = code
  BY InAreaEdit
<1>2. objs \in Seq(Ids)
  BY DEF Typed, ScriptTyped
<1>3. KindsOf(At(obj', objs)) = KindsOf(At(obj, objs))
  BY <1>2, KindsSame
<1>4. KindsOf(At(obj', objs')) = KindsOf(Drawn(code'))
  BY <1>1, <1>3 DEF Matching, Kinds
<1> QED
  BY <1>1, <1>4 DEF Matching, Kinds, InEdit

\* The first click of an object.
LEMMA StartMatches ==
  ASSUME Careful, Typed, Matching, NEW c \in Shapes, NEW p \in Points, NEW k \in Colors, Start(c, p, k)
  PROVE  Matching'
<1>1. InArea /\ ~drawing /\ AddNew(New(c, p, p, k)) /\ drawing' = TRUE /\ toCommit' = toCommit
  BY DEF Start
<1>2. InEdit /\ mode' = "edit" /\ rendering' = rendering /\ objs' = objs /\ code' = code
  BY <1>1, InAreaEdit
<1>3. PICK id \in Ids : /\ id \notin Range(objs) /\ obj' = [obj EXCEPT ![id] = New(c, p, p, k)]
                        /\ newObjs' = Append(newObjs, id) /\ window' = Append(window, id)
  BY <1>1, AddNewDoes
<1>4. objs \in Seq(Ids) /\ newObjs \in Seq(Ids) /\ window \in Seq(Ids) /\ obj \in [Ids -> Objects]
  BY DEF Typed, ScriptTyped
<1>5. \A x \in Range(objs) : obj'[x] = obj[x]
  <2>1. Range(objs) \subseteq Ids
    BY <1>4, RangeIn
  <2> QED
    BY <1>3, <1>4, <2>1
<1>6. At(obj', objs) = At(obj, objs)
  BY <1>4, <1>5, SameAt
<1>7. At(obj', objs') = At(obj, objs)
  BY <1>2, <1>6
<1>8. Kinds'
  BY <1>2, <1>7 DEF Kinds, Matching
<1>9. ~toCommit => Same' /\ OnlyDrawing'
  <2> SUFFICES ASSUME ~toCommit PROVE Same' /\ OnlyDrawing'
    OBVIOUS
  <2>1. Same /\ OnlyDrawing
    BY <1>2 DEF Matching
  <2>2. Len(newObjs) = 0 /\ Len(newObjs') = Len(newObjs) + 1
    BY <1>1, <1>3, <1>4, <2>1, LastAppended DEF OnlyDrawing
  <2> QED
    BY <1>1, <1>2, <1>7, <2>1, <2>2 DEF Same, OnlyDrawing
<1>10. window' # <<>> /\ newObjs' # <<>> /\ Last(window') = id /\ Last(newObjs') = id
  BY <1>3, <1>4, LastAppended
<1> QED
  BY <1>1, <1>2, <1>8, <1>9, <1>10 DEF Matching, InEdit

\* Commands of the drawing area, one after the other.
LEMMA DrawTextMatches ==
  ASSUME Careful, Typed, Matching, NEW p \in Points, NEW k \in Colors, DrawText(p, k)
  PROVE  Matching'
<1>1. InArea /\ ~drawing /\ AddNew(New("circle", p, p, k)) /\ drawing' = drawing /\ toCommit' = TRUE
  BY DEF DrawText, Command, setDirtyAndSave
<1>2. PICK id \in Ids : id \notin Range(objs) /\ obj' = [obj EXCEPT ![id] = New("circle", p, p, k)]
  BY <1>1, AddNewDoes
<1>3. objs \in Seq(Ids) /\ obj \in [Ids -> Objects]
  BY DEF Typed, ScriptTyped
<1>4. Range(objs) \subseteq Ids
  BY <1>3, RangeIn
<1>5. \A x \in Range(objs) : obj'[x].c = obj[x].c
  BY <1>2, <1>3, <1>4
<1> QED
  BY <1>1, <1>5, TouchMatches

LEMMA ChangedMatches ==
  ASSUME Careful, Typed, Matching, NEW id, \E o : Changed(id, o), InArea, toCommit', ~drawing'
  PROVE  Matching'
<1>1. PICK o : Changed(id, o)
  OBVIOUS
<1>2. objs \in Seq(Ids) /\ obj \in [Ids -> Objects]
  BY DEF Typed, ScriptTyped
<1>3. Range(objs) \subseteq Ids
  BY <1>2, RangeIn
<1>4. \A x \in Range(objs) : obj'[x].c = obj[x].c
  BY <1>1, <1>2, <1>3 DEF Changed
<1> QED
  BY <1>4, TouchMatches

LEMMA EditMatches ==
  ASSUME Careful, Typed, Matching,
         \/ \E q \in Points : Finish(q)
         \/ \E i \in DOMAIN window, p, q \in Points : Move(i, p, q)
         \/ \E i \in DOMAIN window, k \in Colors : Recolor(i, k)
  PROVE  Matching'
<1>1. CASE \E q \in Points : Finish(q)
  <2>1. PICK q \in Points : Finish(q)
    BY <1>1
  <2>2. InArea /\ drawing' = FALSE /\ toCommit' = TRUE
    BY <2>1 DEF Finish, Command, setDirtyAndSave
  <2>3. \E o : Changed(Last(window), o)
    BY <2>1, FinishChanges
  <2> QED
    BY <2>2, <2>3, ChangedMatches
<1>2. CASE \E i \in DOMAIN window, p, q \in Points : Move(i, p, q)
  <2>1. PICK i \in DOMAIN window, p \in Points, q \in Points : Move(i, p, q)
    BY <1>2
  <2>2. InArea /\ ~drawing /\ drawing' = drawing /\ toCommit' = TRUE
    BY <2>1 DEF Move, Command, setDirtyAndSave
  <2>3. \E o : Changed(window[i], o)
    BY <2>1, MoveChanges
  <2> QED
    BY <2>2, <2>3, ChangedMatches
<1>3. CASE \E i \in DOMAIN window, k \in Colors : Recolor(i, k)
  <2>1. PICK i \in DOMAIN window, k \in Colors : Recolor(i, k)
    BY <1>3
  <2>2. InArea /\ ~drawing /\ drawing' = drawing /\ toCommit' = TRUE
    BY <2>1 DEF Recolor, Command, setDirtyAndSave
  <2>3. \E o : Changed(window[i], o)
    BY <2>1, RecolorChanges
  <2> QED
    BY <2>2, <2>3, ChangedMatches
<1> QED
  BY <1>1, <1>2, <1>3

\* A new object is only cancelled when others wait for the commit.
LEMMA EscapeMatches == ASSUME Careful, Typed, Matching, Escape PROVE Matching'
<1>1. /\ code \in Seq(Lines) /\ obj \in [Ids -> Objects] /\ objs \in Seq(Ids)
         /\ newObjs \in Seq(Ids) /\ window \in Seq(Ids)
  BY DEF Typed, ScriptTyped
<1>2. InArea /\ drawing /\ window # <<>> /\ drawing' = FALSE /\ toCommit' = toCommit
      /\ obj' = Collect(obj, <<objs, newObjs', window'>>) /\ Last(window) \notin Range(newObjs')
  BY DEF Escape, Careful
<1>3. InEdit
  BY <1>2, InAreaEdit
<1>4. newObjs # <<>> /\ Last(window) = Last(newObjs)
  BY <1>2 DEF Matching
<1>5. newObjs' # newObjs
  <2>1. Last(newObjs) \in Range(newObjs)
    <3>1. Len(newObjs) \in DOMAIN newObjs
      <4>1. Len(newObjs) \in Nat /\ Len(newObjs) # 0
        BY <1>1, <1>4
      <4>2. DOMAIN newObjs = 1..Len(newObjs)
        BY <1>1
      <4> QED
        BY <4>1, <4>2
    <3> QED
      BY <3>1 DEF Last, Range
  <2> QED
    BY <1>2, <1>4, <2>1
<1>6. Len(newObjs) > 1
  <2>1. newObjs' = IF Len(newObjs) > 1 /\ Last(newObjs) = Last(window) THEN Front(newObjs) ELSE newObjs
    BY DEF Escape
  <2> QED
    BY <1>4, <1>5, <2>1
<1>7. toCommit'
  <2>1. ~toCommit => Len(newObjs) = 1
    BY <1>2, <1>3 DEF Matching, OnlyDrawing
  <2>2. toCommit
    <3> SUFFICES ASSUME ~toCommit PROVE FALSE
      OBVIOUS
    <3>1. Len(newObjs) = 1
      BY <2>1
    <3> QED
      BY <1>6, <3>1
  <2>3. toCommit' = toCommit
    BY <1>2
  <2> QED
    BY <2>2, <2>3
<1>8. \A x \in Range(objs) : obj'[x].c = obj[x].c
  <2> DEFINE lists == <<objs, newObjs', window'>>
  <2>1. 1 \in DOMAIN lists /\ lists[1] = objs
    OBVIOUS
  <2>2. obj' = Collect(obj, lists)
    BY <1>2
  <2> HIDE DEF lists
  <2>3. \A x \in Range(objs) : x \in Ids => obj'[x] = obj[x]
    BY <1>1, <2>1, <2>2, CollectKeeps
  <2>4. Range(objs) \subseteq Ids
    BY <1>1, RangeIn
  <2> QED
    BY <2>3, <2>4
<1> QED
  BY <1>2, <1>7, <1>8, TouchMatches

LEMMA DeleteMatches ==
  ASSUME Careful, Typed, Matching, NEW selected, DeleteSelected(selected) PROVE Matching'
<1>1. obj \in [Ids -> Objects] /\ objs \in Seq(Ids)
  BY DEF Typed, ScriptTyped
<1> DEFINE ids == {window[i] : i \in selected}
           kept == Only(window, Ids \ ids)
           gone == [id \in Ids |-> [obj[id] EXCEPT !.deleted = @ \/ id \in ids]]
           lists == <<objs, newObjs, kept>>
<1>2. InArea /\ ~drawing /\ obj' = Collect(gone, lists) /\ toCommit' = TRUE /\ drawing' = drawing
  BY DEF DeleteSelected, Command, setDirtyAndSave
<1> HIDE DEF ids
<1>3. gone \in [Ids -> Objects] /\ \A id \in Ids : gone[id].c = obj[id].c
  BY <1>1 DEF Objects
<1>4. 1 \in DOMAIN lists /\ lists[1] = objs
  OBVIOUS
<1> HIDE DEF lists, gone, kept
<1>5. \A x \in Range(objs) : x \in Ids => obj'[x] = gone[x]
  BY <1>2, <1>3, <1>4, CollectKeeps
<1>6. Range(objs) \subseteq Ids
  BY <1>1, RangeIn
<1>7. \A x \in Range(objs) : obj'[x].c = obj[x].c
  BY <1>3, <1>5, <1>6
<1> QED
  BY <1>2, <1>7, TouchMatches

-----------------------------------------------------------------------------
(* The invariant behind ObjectsMatch: the main window, and every step.      *)

\* The parts of Matching, each with what it reads.
LEMMA ScriptUnchanged ==
  ASSUME UNCHANGED script
  PROVE  /\ code' = code /\ obj' = obj /\ objs' = objs /\ newObjs' = newObjs
         /\ (Kinds => Kinds') /\ (Same => Same')
<1>1. code' = code /\ obj' = obj /\ objs' = objs /\ newObjs' = newObjs
  BY DEF script
<1> QED
  BY <1>1 DEF Kinds, Same

\* Switching modes.
LEMMA ToPreviewMatches == ASSUME Careful, Typed, Matching, ToPreview PROVE Matching'
<1>1. InEdit /\ mode' = "preview" /\ drawing' = FALSE /\ toCommit' = FALSE
      /\ rendering' = (toCommit \/ "preview" \notin known)
  BY DEF ToPreview, InEdit
<1>2. ~drawing
  BY DEF ToPreview, MayStop, Careful
<1>3. known' = IF rendering' THEN {"preview"} ELSE known
  BY DEF ToPreview
<1>4. CASE toCommit
  <2>1. newObjs' = <<>> /\ rendering' = TRUE
    BY <1>1, <1>4 DEF ToPreview, CommitChanges
  <2>2. "edit" \notin known'
    BY <1>3, <2>1
  <2> QED
    BY <1>1, <2>1, <2>2 DEF Matching, Idle, InEdit
<1>5. CASE ~toCommit
  <2>1. UNCHANGED script
    BY <1>5 DEF ToPreview
  <2>2. Same /\ OnlyDrawing
    BY <1>1, <1>5 DEF Matching
  <2>3. newObjs \in Seq(Ids)
    BY DEF Typed, ScriptTyped
  <2>4. Len(newObjs) = 0
    BY <1>2, <2>2 DEF OnlyDrawing
  <2>5. newObjs = <<>>
    BY <2>3, <2>4
  <2>6. newObjs' = <<>> /\ Same'
    BY <2>1, <2>2, <2>5, ScriptUnchanged
  <2>7. "edit" \in known' => ~rendering'
    BY <1>3
  <2> QED
    BY <1>1, <2>6, <2>7 DEF Matching, Idle, InEdit
<1> QED
  BY <1>4, <1>5

LEMMA ToEditMatches == ASSUME Careful, Typed, Matching, ToEdit PROVE Matching'
<1>1. /\ mode = "preview" /\ ~rendering /\ mode' = "edit" /\ rendering' = ("edit" \notin known)
      /\ UNCHANGED script /\ drawing' = FALSE /\ toCommit' = toCommit
  BY DEF ToEdit
<1>2. Idle /\ ("edit" \in known => Same)
  BY <1>1 DEF Matching
<1>3. newObjs' = <<>> /\ (Same => Same' /\ Kinds')
  BY <1>1, <1>2, ScriptUnchanged, SameKinds DEF Idle
<1>4. Len(newObjs') = 0
  BY <1>3
<1>5. ~toCommit' /\ ~drawing'
  BY <1>1, <1>2 DEF Idle
<1>6. CASE rendering'
  BY <1>1, <1>3, <1>5, <1>6 DEF Matching, Idle, InEdit
<1>7. CASE ~rendering'
  <2>1. Same' /\ Kinds'
    BY <1>1, <1>2, <1>3, <1>7
  <2>2. OnlyDrawing'
    BY <1>4, <1>5 DEF OnlyDrawing
  <2> QED
    BY <1>1, <1>5, <1>7, <2>1, <2>2 DEF Matching, InEdit
<1> QED
  BY <1>6, <1>7

\* A rendering is done.
LEMMA RenderDoneMatches == ASSUME Careful, Typed, Matching, RenderDone PROVE Matching'
<1>1. /\ rendering /\ rendering' = FALSE /\ mode # "closed" /\ mode' = mode /\ toCommit' = toCommit
      /\ newObjs' = newObjs /\ known' = known
  BY DEF RenderDone
<1>2. mode \in {"edit", "preview"}
  BY <1>1 DEF Typed
<1>3. Idle
  BY <1>1, <1>2 DEF Matching
<1>4. CASE mode = "edit"
  <2>1. ScriptTyped(code', obj', objs', newObjs') /\ Looked(At(obj', objs'), Drawn(code'))
    BY <1>4, RenderedIs
  <2>2. At(obj', objs') \in Seq(Objects) /\ code' \in Seq(Lines)
    BY <2>1, ScriptIs, CodeTypedThen
  <2>3. Drawn(code') \in Seq(Looks)
    BY <2>2, DrawnIs
  <2>4. Look(At(obj', objs')) = Drawn(code')
    BY <2>1, <2>2, <2>3, LookedIs
  <2>5. Same'
    BY <2>4 DEF Same
  <2>6. Kinds'
    <3>1. KindsOf(At(obj', objs')) = KindsOf(Look(At(obj', objs')))
      BY DEF KindsOf, Look
    <3> QED
      BY <2>4, <3>1 DEF Kinds
  <2>7. drawing' = FALSE
    BY <1>4 DEF RenderDone
  <2>8. Len(<<>>) = 0
    OBVIOUS
  <2> QED
    BY <1>1, <1>3, <1>4, <2>5, <2>6, <2>7, <2>8 DEF Matching, Idle, InEdit, OnlyDrawing
<1>5. CASE mode = "preview"
  <2>1. drawing' = drawing
    BY <1>5 DEF RenderDone
  <2>2. "edit" \notin known
    BY <1>1, <1>5 DEF Matching
  <2> QED
    BY <1>1, <1>3, <1>5, <2>1, <2>2 DEF Matching, Idle, InEdit
<1> QED
  BY <1>2, <1>4, <1>5

\* Saving, which in edit mode commits.
LEMMA SaveMatches == ASSUME Careful, Typed, Matching, NEW f \in Files, Save(f) PROVE Matching'
<1>1. /\ mode # "closed" /\ ~rendering /\ mode' = mode /\ rendering' = rendering /\ drawing' = drawing
      /\ toCommit' = toCommit /\ known' = IF f = file THEN known ELSE {mode}
  BY DEF Save
<1>2. ~drawing /\ Cardinality({i \in DOMAIN objs : Deleted(objs[i])}) < 2
  BY DEF Save, MayStop, MayKeep, Careful
<1>3. CASE mode = "edit" /\ toCommit
  <2>1. CommitChanges
    BY <1>3 DEF Save
  <2>2. KindsOf(At(obj, objs)) = KindsOf(Drawn(code))
    BY <1>1, <1>3 DEF Matching, InEdit, Kinds
  <2>3. Kinds'
    <3>1. KindsOf(At(obj', objs')) = KindsOf(Drawn(code'))
      BY <1>2, <2>1, <2>2, CommitMatches
    <3> QED
      BY <3>1 DEF Kinds
  <2> QED
    BY <1>1, <1>2, <1>3, <2>3 DEF Matching, InEdit
<1>4. CASE ~(mode = "edit" /\ toCommit)
  <2>1. UNCHANGED script
    BY <1>4 DEF Save
  <2>2. newObjs' = newObjs /\ (Kinds => Kinds') /\ (Same => Same')
    BY <2>1, ScriptUnchanged
  <2>3. mode = "preview" /\ "edit" \in known' => "edit" \in known
    BY <1>1
  <2> QED
    BY <1>1, <1>2, <2>2, <2>3 DEF Matching, InEdit, Idle, OnlyDrawing
<1> QED
  BY <1>3, <1>4

\* Loading and closing.
LEMMA LoadMatches ==
  ASSUME Careful, Typed, Matching, NEW f, NEW lines, Load(f, lines) PROVE Matching'
<1>1. /\ mode # "closed" /\ newObjs' = <<>> /\ toCommit' = FALSE /\ known' = {mode} /\ rendering' = TRUE
      /\ drawing' = drawing /\ mode' = mode
  BY DEF Load
<1>2. ~drawing
  BY DEF Load, MayStop, Careful
<1>3. mode = "preview" => "edit" \notin known'
  BY <1>1
<1> QED
  BY <1>1, <1>2, <1>3 DEF Matching, InEdit, Idle

LEMMA CloseMatches == ASSUME Careful, Typed, Matching, NEW to, Close(to) PROVE Matching'
<1>1. /\ UNCHANGED script /\ mode' = "closed" /\ drawing' = drawing /\ window' = window
  BY DEF Close
<1>2. newObjs' = newObjs
  BY <1>1, ScriptUnchanged
<1> QED
  BY <1>1, <1>2 DEF Matching, InEdit

LEMMA StutterMatches == ASSUME Typed, Matching, UNCHANGED vars PROVE Matching'
<1>1. UNCHANGED <<script, area, mode, rendering, known>>
  BY DEF vars
<1>2. UNCHANGED <<window, drawing, toCommit>>
  BY <1>1 DEF area
<1>3. newObjs' = newObjs /\ (Kinds => Kinds') /\ (Same => Same')
  BY <1>1, ScriptUnchanged
<1> QED
  BY <1>1, <1>2, <1>3 DEF Matching, InEdit, Idle, OnlyDrawing

\* Every step keeps the invariant.
LEMMA MatchingStep == ASSUME Careful, Typed, Matching, [Next]_vars PROVE Matching'
<1>1. ASSUME NEW c \in Shapes, NEW p \in Points, NEW k \in Colors, Start(c, p, k) PROVE Matching'
  BY <1>1, StartMatches
<1>2. CASE \/ \E q \in Points : Finish(q)
           \/ \E i \in DOMAIN window, p, q \in Points : Move(i, p, q)
           \/ \E i \in DOMAIN window, k \in Colors : Recolor(i, k)
  BY <1>2, EditMatches
<1>3. CASE Escape
  BY <1>3, EscapeMatches
<1>4. ASSUME NEW p \in Points, NEW k \in Colors, DrawText(p, k) PROVE Matching'
  BY <1>4, DrawTextMatches
<1>5. ASSUME NEW selected, DeleteSelected(selected) PROVE Matching'
  BY <1>5, DeleteMatches
<1>6. CASE ToPreview
  BY <1>6, ToPreviewMatches
<1>7. CASE ToEdit
  BY <1>7, ToEditMatches
<1>8. CASE RenderDone
  BY <1>8, RenderDoneMatches
<1>9. ASSUME NEW f \in Files, Save(f) PROVE Matching'
  BY <1>9, SaveMatches
<1>10. ASSUME NEW f, NEW to, OpenFile(f, to) PROVE Matching'
  <2>1. Load(f, disk'[f])
    BY <1>10 DEF OpenFile
  <2>2. PICK lines : lines = disk'[f] /\ Load(f, lines)
    BY <2>1
  <2> QED
    BY <2>2, LoadMatches
<1>11. CASE Reload
  <2>1. Load(file, disk[file])
    BY <1>11 DEF Reload
  <2> QED
    BY <2>1, LoadMatches
<1>12. ASSUME NEW to, NewFile(to) PROVE Matching'
  <2>1. Load(NoName, <<Line("other", Origin, Black)>>)
    BY <1>12 DEF NewFile
  <2> QED
    BY <2>1, LoadMatches
<1>13. ASSUME NEW to, Close(to) PROVE Matching'
  BY <1>13, CloseMatches
<1>14. CASE UNCHANGED vars
  BY <1>14, StutterMatches
<1> QED
  BY <1>1, <1>2, <1>3, <1>4, <1>5, <1>6, <1>7, <1>8, <1>9, <1>10, <1>11, <1>12, <1>13, <1>14 DEF Next, Closed

LEMMA InitMatches == ASSUME Init PROVE Matching
BY DEF Init, Matching, InEdit, Idle

\* What it says of the lengths and the objects one by one.
LEMMA MatchingIsEnough == ASSUME Typed, Matching PROVE ObjectsMatch
<1> DEFINE drawn == Drawn(code)
<1> SUFFICES ASSUME InEdit
             PROVE  /\ Len(objs) = Len(drawn)
                    /\ \A i \in DOMAIN objs : obj[objs[i]].c = drawn[i].c
                    /\ ~toCommit => Look(TheObjs(objs)) = drawn /\ Len(newObjs) = (IF drawing THEN 1 ELSE 0)
  BY DEF ObjectsMatch, InEdit
<1>1. code \in Seq(Lines) /\ obj \in [Ids -> Objects] /\ objs \in Seq(Ids)
  BY DEF Typed, ScriptTyped
<1>2. drawn \in Seq(Looks)
  BY <1>1, DrawnIs
<1>3. KindsOf(At(obj, objs)) = KindsOf(drawn)
  BY DEF Matching, Kinds
<1>4. ~toCommit => Look(TheObjs(objs)) = drawn /\ Len(newObjs) = (IF drawing THEN 1 ELSE 0)
  BY TheObjsIs DEF Matching, Same, OnlyDrawing
<1>5. Len(At(obj, objs)) = Len(objs) /\ At(obj, objs) \in Seq(Objects)
      /\ \A i \in 1..Len(objs) : At(obj, objs)[i] = obj[objs[i]]
  BY <1>1, AtIs
<1> DEFINE a == At(obj, objs)
<1> HIDE DEF drawn, a
<1>6. a \in Seq(Objects) /\ Len(a) = Len(objs) /\ \A i \in 1..Len(objs) : a[i] = obj[objs[i]]
  BY <1>5 DEF a
<1>7. KindsOf(a) = KindsOf(drawn)
  BY <1>3 DEF a
<1>8. DOMAIN KindsOf(a) = 1..Len(a) /\ DOMAIN KindsOf(drawn) = 1..Len(drawn) /\ Len(a) \in Nat
      /\ Len(drawn) \in Nat
  BY <1>2, <1>6 DEF KindsOf
<1>9. Len(a) = Len(drawn)
  BY <1>7, <1>8
<1>10. \A i \in 1..Len(a) : KindsOf(a)[i] = a[i].c /\ KindsOf(drawn)[i] = drawn[i].c
  BY <1>2, <1>6, <1>9 DEF KindsOf
<1>11. DOMAIN objs = 1..Len(objs)
  BY <1>1
<1>12. \A i \in DOMAIN objs : obj[objs[i]].c = drawn[i].c
  BY <1>6, <1>7, <1>10, <1>11
<1> QED
  BY <1>4, <1>6, <1>9, <1>12

\* Unless the user does what the code cannot cope with (Careful), the objects of
\* the drawing area are those of the script, command by command, whenever a commit
\* may compare them (commitChangesGLE, updateFromScript, removeDeletedObjects).
THEOREM ObjectsMatchAlways == Careful => (Spec => []ObjectsMatch)
<1> SUFFICES ASSUME Careful PROVE Spec => []ObjectsMatch
  OBVIOUS
<1>1. Init => Typed /\ Matching
  BY InitTyped, InitMatches
<1>2. Typed /\ Matching /\ [Next]_vars => Typed' /\ Matching'
  BY TypedStep, MatchingStep
<1>3. Typed /\ Matching => ObjectsMatch
  BY MatchingIsEnough
<1> QED
  BY <1>1, <1>2, <1>3, PTL DEF Spec
=============================================================================
