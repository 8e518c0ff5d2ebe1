----------------------------- MODULE RingsProofs ------------------------------
(***************************************************************************)
(* Theorems about the joining of a relation's ways, for any relations.     *)
(*                                                                         *)
(* Edges and ends are counted in lists: a count of a list put together     *)
(* from two is the sum of theirs, and a step of join takes lists apart and *)
(* puts them together in another order.                                    *)
(*                                                                         *)
(* The multipolygon is whole in every state: adding a ring to it keeps it  *)
(* so, because outer rings never change and a missing one holds nothing.   *)
(***************************************************************************)
EXTENDS Rings, FiniteSetTheorems, SequenceTheorems, WellFoundedInduction, TLAPS

-----------------------------------------------------------------------------
(* Numbers.                                                                *)

LEMMA Least ==
  ASSUME NEW T \in SUBSET Nat, T # {}
  PROVE  \E x \in T : \A y \in T : x <= y
<1> DEFINE R == OpToRel(<, Nat)
<1>1. IsWellFoundedOn(R, Nat)
  BY NatLessThanWellFounded
<1>2. \A x, y \in Nat : y < x => <<y, x>> \in R
  BY DEF OpToRel
<1> HIDE DEF R
<1>3. PICK x \in T : \A y \in T : ~ (<<y, x>> \in R)
  BY <1>1, WFMin
<1>4. x \in Nat /\ \A y \in T : y \in Nat /\ ~(y < x)
  BY <1>2, <1>3
<1> QED
  BY <1>4

\* The library's induction takes an operator; this one takes a set.
LEMMA Induction ==
  ASSUME NEW S \in SUBSET Nat, 0 \in S, \A n \in S : n + 1 \in S
  PROVE  S = Nat
<1> SUFFICES ASSUME Nat \ S # {} PROVE FALSE
  OBVIOUS
<1>1. PICK x \in Nat \ S : \A y \in Nat \ S : x <= y
  BY Least
<1>2. x - 1 \in S /\ (x - 1) + 1 = x
  BY <1>1
<1> QED
  BY <1>1, <1>2

-----------------------------------------------------------------------------
(* Lists of lists.                                                         *)

\* A list that is put together from left to right.
LEMMA GrowsExists ==
  ASSUME NEW add, NEW n \in Nat
  PROVE  \E f : f = [i \in 0..n |-> IF i = 0 THEN <<>> ELSE f[i - 1] \o add[i]]
<1> DEFINE Def(f, m) == f = [i \in 0..m |-> IF i = 0 THEN <<>> ELSE f[i - 1] \o add[i]]
           S == {m \in Nat : \E f : Def(f, m)}
<1>1. 0 \in S
  <2>1. Def([i \in 0..0 |-> <<>>], 0)
    OBVIOUS
  <2> QED
    BY <2>1
<1>2. ASSUME NEW m \in S PROVE m + 1 \in S
  <2>1. PICK f : Def(f, m)
    OBVIOUS
  <2> DEFINE g == [i \in 0..m + 1 |-> IF i = m + 1 THEN f[m] \o add[m + 1] ELSE f[i]]
  <2>2. m \in Nat
    OBVIOUS
  <2>3. \A i \in 0..m : f[i] = IF i = 0 THEN <<>> ELSE f[i - 1] \o add[i]
    BY <2>1
  <2>4. g[m + 1] = f[m] \o add[m + 1] /\ \A i \in 0..m : g[i] = f[i]
    <3>1. m + 1 \in 0..m + 1 /\ \A i \in 0..m : i # m + 1 /\ i \in 0..m + 1
      BY <2>2
    <3> QED
      BY <3>1
  <2>5. g = [i \in 0..m + 1 |-> g[i]]
    OBVIOUS
  <2> HIDE DEF g
  <2>6. ASSUME NEW i \in 0..m + 1
        PROVE  g[i] = IF i = 0 THEN <<>> ELSE g[i - 1] \o add[i]
    <3>1. CASE i = m + 1
      <4>1. i - 1 = m /\ i # 0 /\ m \in 0..m
        BY <2>2, <3>1
      <4> QED
        BY <2>4, <3>1, <4>1
    <3>2. CASE i \in 0..m /\ i # 0
      <4>1. i - 1 \in 0..m
        BY <2>2, <3>2
      <4> QED
        BY <2>3, <2>4, <3>2, <4>1
    <3>3. CASE i = 0
      BY <2>2, <2>3, <2>4, <3>3
    <3> QED
      BY <2>2, <3>1, <3>2, <3>3
  <2>7. Def(g, m + 1)
    BY <2>5, <2>6
  <2> HIDE DEF Def
  <2>8. \E h : Def(h, m + 1)
    BY <2>7
  <2> QED
    BY <2>2, <2>8
<1> HIDE DEF S
<1>3. S = Nat
  BY <1>1, <1>2, Induction DEF S
<1> QED
  BY <1>3 DEF S

\* The lists f goes through, when to nothing it appends the lists of add in turn.
Grown(f, add, n) == f[0] = <<>> /\ \A i \in 1..n : f[i] = f[i - 1] \o add[i]

LEMMA GrownSame ==
  ASSUME NEW add, NEW n \in Nat, NEW f, NEW g, Grown(f, add, n), Grown(g, add, n)
  PROVE  f[n] = g[n]
<1> DEFINE S == {i \in Nat : i <= n => f[i] = g[i]}
<1>1. 0 \in S
  BY DEF Grown
<1>2. ASSUME NEW i \in S PROVE i + 1 \in S
  <2> SUFFICES ASSUME i + 1 <= n PROVE f[i + 1] = g[i + 1]
    OBVIOUS
  <2>1. i + 1 \in 1..n /\ (i + 1) - 1 = i /\ f[i] = g[i]
    OBVIOUS
  <2> QED
    BY <2>1 DEF Grown
<1> HIDE DEF S
<1>3. n \in S
  BY <1>1, <1>2, Induction DEF S
<1> QED
  BY <1>3 DEF S

LEMMA GrownTyped ==
  ASSUME NEW X, NEW add, NEW n \in Nat, \A i \in 1..n : add[i] \in Seq(X),
         NEW f, Grown(f, add, n), NEW m \in 0..n
  PROVE  f[m] \in Seq(X)
<1> DEFINE S == {i \in Nat : i <= n => f[i] \in Seq(X)}
<1>1. 0 \in S
  <2>1. f[0] \in Seq(X)
    BY EmptySeq DEF Grown
  <2> QED
    BY <2>1
<1>2. ASSUME NEW i \in S PROVE i + 1 \in S
  <2> SUFFICES ASSUME i + 1 <= n PROVE f[i + 1] \in Seq(X)
    OBVIOUS
  <2>1. i + 1 \in 1..n /\ (i + 1) - 1 = i /\ f[i] \in Seq(X)
    OBVIOUS
  <2>2. f[i + 1] = f[i] \o add[i + 1] /\ add[i + 1] \in Seq(X)
    BY <2>1 DEF Grown
  <2> QED
    BY <2>1, <2>2, ConcatProperties
<1>3. S \subseteq Nat
  OBVIOUS
<1> HIDE DEF S
<1>4. S = Nat
  BY <1>1, <1>2, <1>3, Induction
<1>5. m \in Nat /\ m <= n
  OBVIOUS
<1> QED
  BY <1>4, <1>5 DEF S

LEMMA FlattenGrown ==
  ASSUME NEW X, NEW ls \in Seq(Seq(X))
  PROVE  \E f : Grown(f, ls, Len(ls)) /\ f[Len(ls)] = FlattenSeq(ls)
<1> DEFINE n == Len(ls)
<1>1. n \in Nat /\ \A i \in 1..n : ls[i] \in Seq(X)
  OBVIOUS
<1>2. PICK f : f = [i \in 0..n |-> IF i = 0 THEN <<>> ELSE f[i - 1] \o ls[i]]
  BY <1>1, GrowsExists
<1> HIDE DEF n
<1>3. Grown(f, ls, n)
  <2>1. \A i \in 0..n : f[i] = IF i = 0 THEN <<>> ELSE f[i - 1] \o ls[i]
    BY <1>2
  <2>2. 0 \in 0..n /\ \A i \in 1..n : i \in 0..n /\ i # 0
    BY <1>1
  <2> QED
    BY <2>1, <2>2 DEF Grown
<1>4. CASE n = 0
  <2>1. FlattenSeq(ls) = ls /\ ls = <<>>
    BY <1>4 DEF FlattenSeq, n
  <2> QED
    BY <1>3, <1>4, <2>1 DEF Grown, n
<1>5. CASE n # 0
  <2> DEFINE P(g) == g = [i \in 1..n |-> IF i = 1 THEN ls[i] ELSE g[i - 1] \o ls[i]]
             c == CHOOSE g : P(g)
  <2>1. FlattenSeq(ls) = c[n]
    BY <1>5 DEF FlattenSeq, n
  <2>2. P([i \in 1..n |-> f[i]])
    <3> DEFINE h == [i \in 1..n |-> f[i]]
    <3>1. h = [i \in 1..n |-> h[i]] /\ \A i \in 1..n : h[i] = f[i]
      OBVIOUS
    <3> HIDE DEF h
    <3>2. ASSUME NEW i \in 1..n PROVE h[i] = IF i = 1 THEN ls[i] ELSE h[i - 1] \o ls[i]
      <4>1. CASE i = 1
        <5>1. f[1] = f[1 - 1] \o ls[1] /\ f[0] = <<>> /\ ls[1] \in Seq(X)
          BY <1>1, <1>3, <4>1 DEF Grown
        <5>2. 1 - 1 = 0
          OBVIOUS
        <5>3. <<>> \o ls[1] = ls[1]
          BY <5>1, ConcatEmptySeq
        <5>4. f[1] = ls[1]
          BY <5>1, <5>2, <5>3, Zenon
        <5> QED
          BY <3>1, <4>1, <5>4
      <4>2. CASE i # 1
        <5>1. i - 1 \in 1..n
          BY <1>1, <4>2
        <5> QED
          BY <1>3, <3>1, <4>2, <5>1 DEF Grown
      <4> QED
        BY <4>1, <4>2
    <3>3. P(h)
      BY <3>1, <3>2
    <3> QED
      BY <3>3 DEF h
  <2> HIDE DEF P
  <2>3. P(c)
    BY <2>2
  <2> DEFINE g == [i \in 0..n |-> IF i = 0 THEN <<>> ELSE c[i]]
  <2> HIDE DEF c
  <2>4. \A i \in 1..n : c[i] = IF i = 1 THEN ls[i] ELSE c[i - 1] \o ls[i]
    BY <2>3 DEF P
  <2>5. g[0] = <<>> /\ \A i \in 1..n : g[i] = c[i]
    BY <1>1
  <2> HIDE DEF g
  <2>6. ASSUME NEW i \in 1..n PROVE g[i] = g[i - 1] \o ls[i]
    <3>1. CASE i = 1
      <4>1. g[1] = ls[1] /\ ls[1] \in Seq(X) /\ g[1 - 1] = <<>>
        BY <1>1, <2>4, <2>5, <3>1
      <4> QED
        BY <3>1, <4>1, ConcatEmptySeq
    <3>2. CASE i # 1
      <4>1. i - 1 \in 1..n
        BY <1>1, <3>2
      <4> QED
        BY <2>4, <2>5, <3>2, <4>1
    <3> QED
      BY <3>1, <3>2
  <2>7. n \in 1..n
    BY <1>1, <1>5
  <2>8. Grown(g, ls, n) /\ g[n] = c[n]
    BY <2>5, <2>6, <2>7 DEF Grown
  <2> QED
    BY <2>1, <2>8 DEF n
<1> QED
  BY <1>4, <1>5

LEMMA FlattenTyped ==
  ASSUME NEW X, NEW ls \in Seq(Seq(X))
  PROVE  FlattenSeq(ls) \in Seq(X)
<1>1. PICK f : Grown(f, ls, Len(ls)) /\ f[Len(ls)] = FlattenSeq(ls)
  BY FlattenGrown
<1>2. Len(ls) \in Nat /\ \A i \in 1..Len(ls) : ls[i] \in Seq(X)
  OBVIOUS
<1>3. Len(ls) \in 0..Len(ls)
  BY <1>2
<1> QED
  BY <1>1, <1>2, <1>3, GrownTyped

LEMMA FlattenConcat ==
  ASSUME NEW X, NEW ls \in Seq(Seq(X)), NEW ms \in Seq(Seq(X))
  PROVE  FlattenSeq(ls \o ms) = FlattenSeq(ls) \o FlattenSeq(ms)
<1> DEFINE a == Len(ls)
           b == Len(ms)
           all == ls \o ms
<1>1. /\ a \in Nat /\ b \in Nat
      /\ all \in Seq(Seq(X)) /\ Len(all) = a + b
      /\ \A i \in 1..a : all[i] = ls[i]
      /\ \A i \in a + 1..a + b : all[i] = ms[i - a]
  OBVIOUS
<1>2. PICK f : Grown(f, ls, a) /\ f[a] = FlattenSeq(ls)
  BY FlattenGrown
<1>3. PICK g : Grown(g, ms, b) /\ g[b] = FlattenSeq(ms)
  BY FlattenGrown
<1>4. PICK k : Grown(k, all, a + b) /\ k[a + b] = FlattenSeq(all)
  BY <1>1, FlattenGrown
<1>5. /\ \A i \in 1..a : ls[i] \in Seq(X)
      /\ \A i \in 1..b : ms[i] \in Seq(X)
  OBVIOUS
<1> HIDE DEF a, b, all
<1>6. /\ \A i \in 0..a : f[i] \in Seq(X)
      /\ \A i \in 0..b : g[i] \in Seq(X)
  BY <1>1, <1>2, <1>3, <1>5, GrownTyped
<1> DEFINE h == [i \in 0..a + b |-> IF i <= a THEN f[i] ELSE f[a] \o g[i - a]]
<1>7. /\ \A i \in 0..a : h[i] = f[i]
      /\ \A i \in a + 1..a + b : h[i] = f[a] \o g[i - a]
  <2>1. /\ \A i \in 0..a : i \in 0..a + b /\ i <= a
        /\ \A i \in a + 1..a + b : i \in 0..a + b /\ ~(i <= a)
    BY <1>1
  <2> QED
    BY <2>1
<1> HIDE DEF h
<1>8. h[0] = <<>>
  BY <1>1, <1>2, <1>7 DEF Grown
<1>9. ASSUME NEW i \in 1..a + b PROVE h[i] = h[i - 1] \o all[i]
  <2>1. CASE i \in 1..a
    <3>1. i - 1 \in 0..a /\ i \in 0..a
      BY <1>1, <2>1
    <3> QED
      BY <1>1, <1>2, <1>7, <2>1, <3>1 DEF Grown
  <2>2. CASE i \in a + 1..a + b
    <3> DEFINE j == i - a
    <3>1. j \in 1..b /\ j - 1 \in 0..b /\ a \in 0..a
      BY <1>1, <2>2
    <3>2. g[j] = g[j - 1] \o ms[j] /\ all[i] = ms[j] /\ h[i] = f[a] \o g[j]
      BY <1>1, <1>3, <1>7, <2>2, <3>1 DEF Grown
    <3>3. h[i - 1] = f[a] \o g[j - 1]
      <4>1. CASE i = a + 1
        <5>1. i - 1 = a /\ j - 1 = 0
          BY <1>1, <4>1
        <5>2. g[0] = <<>> /\ f[a] \in Seq(X)
          BY <1>3, <1>6, <3>1 DEF Grown
        <5>3. h[a] = f[a] /\ f[a] \o <<>> = f[a]
          BY <1>7, <3>1, <5>2, ConcatEmptySeq
        <5> QED
          BY <5>1, <5>2, <5>3
      <4>2. CASE i # a + 1
        <5>1. i - 1 \in a + 1..a + b /\ (i - 1) - a = j - 1
          BY <1>1, <2>2, <4>2
        <5>2. h[i - 1] = f[a] \o g[(i - 1) - a]
          BY <1>7, <5>1
        <5> QED
          BY <5>1, <5>2
      <4> QED
        BY <4>1, <4>2
    <3> HIDE DEF j
    <3>4. f[a] \in Seq(X) /\ g[j - 1] \in Seq(X) /\ ms[j] \in Seq(X)
      BY <1>5, <1>6, <3>1
    <3>5. f[a] \o (g[j - 1] \o ms[j]) = (f[a] \o g[j - 1]) \o ms[j]
      <4> DEFINE p == f[a]
                 q == g[j - 1]
                 r == ms[j]
      <4>1. p \in Seq(X) /\ q \in Seq(X) /\ r \in Seq(X)
        BY <3>4
      <4> HIDE DEF p, q, r
      <4>2. p \o (q \o r) = (p \o q) \o r
        BY ONLY <4>1, ConcatAssociative, SMTT(30)
      <4> QED
        BY <4>2 DEF p, q, r
    <3>6. h[i] = f[a] \o (g[j - 1] \o ms[j])
      BY <3>2
    <3> QED
      BY <3>2, <3>3, <3>5, <3>6, Zenon
  <2>3. a \in Nat /\ b \in Nat
    BY <1>1
  <2>4. i \in 1..a \/ i \in a + 1..a + b
    BY <2>3
  <2> QED
    BY <2>1, <2>2, <2>4
<1>10. Grown(h, all, a + b)
  BY <1>8, <1>9 DEF Grown
<1>11. h[a + b] = FlattenSeq(all)
  BY <1>1, <1>4, <1>10, GrownSame
<1>12. h[a + b] = f[a] \o g[b]
  <2>1. CASE b = 0
    <3>1. a + b = a /\ g[b] = <<>> /\ a \in 0..a /\ f[a] \in Seq(X)
      BY <1>1, <1>3, <1>6, <2>1 DEF Grown
    <3> QED
      BY <1>7, <3>1, ConcatEmptySeq
  <2>2. CASE b # 0
    <3>1. a + b \in a + 1..a + b /\ (a + b) - a = b
      BY <1>1, <2>2
    <3> QED
      BY <1>7, <3>1
  <2> QED
    BY <2>1, <2>2
<1> QED
  BY <1>2, <1>3, <1>11, <1>12 DEF all

LEMMA FlattenNone == FlattenSeq(<<>>) = <<>>
<1>1. Len(<<>>) = 0
  OBVIOUS
<1> QED
  BY <1>1 DEF FlattenSeq

LEMMA FlattenOne ==
  ASSUME NEW X, NEW l \in Seq(X)
  PROVE  FlattenSeq(<<l>>) = l
<1>1. <<l>> \in Seq(Seq(X)) /\ Len(<<l>>) = 1 /\ <<l>>[1] = l
  OBVIOUS
<1>2. PICK f : Grown(f, <<l>>, 1) /\ f[1] = FlattenSeq(<<l>>)
  BY <1>1, FlattenGrown
<1>3. f[0] = <<>> /\ f[1] = f[1 - 1] \o l
  BY <1>1, <1>2 DEF Grown
<1>4. f[1] = <<>> \o l
  BY <1>3
<1> QED
  BY <1>2, <1>4, ConcatEmptySeq

-----------------------------------------------------------------------------
(* The elements of a list that are in a set.                               *)

LEMMA KeptTyped ==
  ASSUME NEW X, NEW list \in Seq(X), NEW set
  PROVE  Kept(list, set) \in Seq(X \cap set)
<1> DEFINE n == Len(list)
           add == [i \in 1..n |-> IF list[i] \in set THEN <<list[i]>> ELSE <<>>]
           P(g) == g = [i \in 0..n |-> IF i = 0 THEN <<>>
                          ELSE g[i - 1] \o (IF list[i] \in set THEN <<list[i]>> ELSE <<>>)]
           c == CHOOSE g : P(g)
<1>1. n \in Nat /\ \A i \in 1..n : list[i] \in X
  OBVIOUS
<1>2. Kept(list, set) = c[n]
  BY DEF Kept
<1> HIDE DEF n
<1>3. ASSUME NEW i \in 1..n
      PROVE  /\ add[i] = IF list[i] \in set THEN <<list[i]>> ELSE <<>>
             /\ add[i] \in Seq(X \cap set)
  <2>1. add[i] = IF list[i] \in set THEN <<list[i]>> ELSE <<>>
    OBVIOUS
  <2>2. CASE list[i] \in set
    <3>1. list[i] \in X \cap set
      BY <1>1, <2>2
    <3>2. <<list[i]>> \in Seq(X \cap set)
      BY <3>1
    <3> QED
      BY <2>1, <2>2, <3>2
  <2>3. CASE list[i] \notin set
    BY <2>1, <2>3, EmptySeq
  <2> QED
    BY <2>1, <2>2, <2>3
<1> HIDE DEF add
<1>4. \E g : P(g)
  <2>1. PICK f : f = [i \in 0..n |-> IF i = 0 THEN <<>> ELSE f[i - 1] \o add[i]]
    BY <1>1, GrowsExists
  <2>2. \A i \in 0..n : f[i] = IF i = 0 THEN <<>> ELSE f[i - 1] \o add[i]
    BY <2>1
  <2>3. f = [i \in 0..n |-> f[i]]
    BY <2>1
  <2>4. ASSUME NEW i \in 0..n
        PROVE  f[i] = IF i = 0 THEN <<>>
                      ELSE f[i - 1] \o (IF list[i] \in set THEN <<list[i]>> ELSE <<>>)
    BY <1>1, <1>3, <2>2
  <2>5. P(f)
    BY <2>3, <2>4
  <2> HIDE DEF P
  <2> QED
    BY <2>5
<1> HIDE DEF P
<1>5. P(c)
  BY <1>4
<1> HIDE DEF c
<1>6. Grown(c, add, n)
  BY <1>1, <1>3, <1>5 DEF P, Grown
<1>7. n \in 0..n
  BY <1>1
<1> QED
  BY <1>1, <1>2, <1>3, <1>6, <1>7, GrownTyped

-----------------------------------------------------------------------------
(* Counts.                                                                 *)

\* How many elements of a list are in a set.
Hits(list, set) == Cardinality({i \in DOMAIN list : list[i] \in set})

LEMMA HitsNat ==
  ASSUME NEW X, NEW s \in Seq(X), NEW A
  PROVE  /\ IsFiniteSet({i \in DOMAIN s : s[i] \in A})
         /\ Hits(s, A) \in Nat
<1>1. DOMAIN s = 1..Len(s) /\ Len(s) \in Nat
  OBVIOUS
<1>2. IsFiniteSet(1..Len(s))
  BY <1>1, FS_Interval
<1>3. {i \in DOMAIN s : s[i] \in A} \subseteq 1..Len(s)
  BY <1>1
<1> QED
  BY <1>2, <1>3, FS_Subset, FS_CardinalityType DEF Hits

LEMMA HitsConcat ==
  ASSUME NEW X, NEW s \in Seq(X), NEW t \in Seq(X), NEW A
  PROVE  Hits(s \o t, A) = Hits(s, A) + Hits(t, A)
<1> DEFINE a == Len(s)
           b == Len(t)
           D == {i \in DOMAIN s : s[i] \in A}
           E == {i \in DOMAIN t : t[i] \in A}
           M == {i \in a + 1..a + b : t[i - a] \in A}
<1>1. /\ a \in Nat /\ b \in Nat /\ DOMAIN s = 1..a /\ DOMAIN t = 1..b
      /\ DOMAIN (s \o t) = 1..a + b
      /\ \A i \in 1..a : (s \o t)[i] = s[i]
      /\ \A i \in a + 1..a + b : (s \o t)[i] = t[i - a]
  OBVIOUS
<1>2. /\ IsFiniteSet(D) /\ Cardinality(D) = Hits(s, A) /\ Hits(s, A) \in Nat
      /\ IsFiniteSet(E) /\ Cardinality(E) = Hits(t, A) /\ Hits(t, A) \in Nat
  BY HitsNat DEF Hits
<1>3. {i \in DOMAIN (s \o t) : (s \o t)[i] \in A} = D \cup M
  <2> HIDE DEF a, b
  <2>1. \A i \in 1..a + b : i \in 1..a \/ i \in a + 1..a + b
    BY <1>1
  <2>2. /\ \A i \in 1..a : i \in 1..a + b
        /\ \A i \in a + 1..a + b : i \in 1..a + b
    BY <1>1
  <2> QED
    BY <1>1, <2>1, <2>2
<1>4. D \cap M = {}
  BY <1>1
<1>5. IsFiniteSet(M) /\ Cardinality(M) = Cardinality(E)
  <2> DEFINE f == [i \in E |-> i + a]
  <2>1. \A i \in E : i \in 1..b /\ f[i] = i + a /\ i + a \in M
    <3> SUFFICES ASSUME NEW i \in E PROVE i \in 1..b /\ i + a \in M
      OBVIOUS
    <3>1. i \in 1..b /\ t[i] \in A
      BY <1>1
    <3>2. i + a \in a + 1..a + b /\ (i + a) - a = i
      BY <1>1, <3>1
    <3> QED
      BY <3>1, <3>2
  <2>2. \A j \in M : j - a \in E /\ (j - a) + a = j
    BY <1>1
  <2>3. f \in [E -> M]
    BY <2>1
  <2> HIDE DEF f, M, E
  <2>4. \A i, j \in E : f[i] = f[j] => i = j
    BY <1>1, <2>1
  <2>5. \A j \in M : \E i \in E : f[i] = j
    BY <2>1, <2>2
  <2>6. f \in Bijection(E, M)
    BY <2>3, <2>4, <2>5 DEF Bijection, Injection, Surjection, IsInjective
  <2>7. ExistsBijection(E, M)
    BY <2>6 DEF ExistsBijection
  <2> QED
    BY <1>2, <2>7, FS_Bijection
<1>6. Cardinality(D \cap M) = 0
  BY <1>4, FS_EmptySet
<1> HIDE DEF D, E, M
<1>7. Cardinality(D \cup M) = Cardinality(D) + Cardinality(M) - Cardinality(D \cap M)
  BY <1>2, <1>5, FS_Union
<1>8. Hits(s \o t, A) = Cardinality(D \cup M)
  BY <1>3 DEF Hits
<1> QED
  BY <1>2, <1>5, <1>6, <1>7, <1>8

LEMMA HitsOne ==
  ASSUME NEW x, NEW A
  PROVE  /\ Hits(<<x>>, A) = IF x \in A THEN 1 ELSE 0
         /\ Hits(<<>>, A) = 0
<1>1. DOMAIN <<x>> = {1} /\ <<x>>[1] = x
  OBVIOUS
<1>2. {i \in DOMAIN <<x>> : <<x>>[i] \in A} = IF x \in A THEN {1} ELSE {}
  BY <1>1
<1>3. {i \in DOMAIN <<>> : <<>>[i] \in A} = {}
  OBVIOUS
<1>4. Cardinality({1}) = 1 /\ Cardinality({}) = 0
  BY FS_Singleton, FS_EmptySet
<1> QED
  BY <1>2, <1>3, <1>4 DEF Hits

LEMMA HitsReverse ==
  ASSUME NEW X, NEW s \in Seq(X), NEW A
  PROVE  Reverse(s) \in Seq(X) /\ Hits(Reverse(s), A) = Hits(s, A)
<1> DEFINE n == Len(s)
           r == Reverse(s)
           D == {i \in DOMAIN s : s[i] \in A}
           E == {i \in DOMAIN r : r[i] \in A}
<1>1. n \in Nat /\ DOMAIN s = 1..n /\ \A i \in 1..n : s[i] \in X
  OBVIOUS
<1>2. r = [i \in 1..n |-> s[n - i + 1]]
  BY DEF Reverse
<1> HIDE DEF r, n
<1>3. \A i \in 1..n : n - i + 1 \in 1..n /\ n - (n - i + 1) + 1 = i
  BY <1>1
<1>4. r \in [1..n -> X]
  BY <1>1, <1>2, <1>3
<1>5. r \in Seq(X)
  BY <1>1, <1>4
<1>6. DOMAIN r = 1..n /\ \A i \in 1..n : r[i] = s[n - i + 1]
  BY <1>2
<1>7. IsFiniteSet(D)
  BY HitsNat
<1> DEFINE f == [i \in D |-> n - i + 1]
<1>8. \A i \in D : i \in 1..n /\ f[i] = n - i + 1 /\ f[i] \in E
  BY <1>1, <1>3, <1>6
<1>9. \A i \in E : i \in 1..n /\ n - i + 1 \in D
  BY <1>1, <1>3, <1>6
<1>10. f \in [D -> E]
  BY <1>8
<1> HIDE DEF f, D, E
<1>11. \A i, j \in D : f[i] = f[j] => i = j
  BY <1>1, <1>8
<1>12. \A j \in E : \E i \in D : f[i] = j
  BY <1>3, <1>8, <1>9
<1>13. f \in Bijection(D, E)
  BY <1>10, <1>11, <1>12 DEF Bijection, Injection, Surjection, IsInjective
<1>14. ExistsBijection(D, E)
  BY <1>13 DEF ExistsBijection
<1>15. Cardinality(E) = Cardinality(D)
  BY <1>7, <1>14, FS_Bijection
<1> QED
  BY <1>5, <1>15 DEF Hits, D, E, r

-----------------------------------------------------------------------------
(* Lines, their edges and their ends.                                      *)

\* Every point, the lines that join is given, and what is left of one when
\* it is joined.
Points == UNION {UNION {Range(m.nodes) : m \in {w \in Range(ms) : w.nodes # NoWay}} : ms \in Inputs}
Long == {l \in Seq(Points) : Len(l) >= 2}
Some == {l \in Seq(Points) : Len(l) >= 1}

LEMMA EdgesTyped ==
  ASSUME NEW l \in Seq(Points)
  PROVE  /\ Edges(l) \in Seq(SUBSET Points)
         /\ Len(Edges(l)) = IF Len(l) = 0 THEN 0 ELSE Len(l) - 1
         /\ \A k \in 1..Len(l) - 1 : Edges(l)[k] = {l[k], l[k + 1]}
<1> DEFINE n == IF Len(l) = 0 THEN 0 ELSE Len(l) - 1
<1>1. n \in Nat /\ 1..n = 1..Len(l) - 1 /\ \A k \in 1..n : l[k] \in Points /\ l[k + 1] \in Points
  OBVIOUS
<1>2. Edges(l) = [k \in 1..n |-> {l[k], l[k + 1]}]
  BY <1>1 DEF Edges
<1> HIDE DEF n
<1>3. Edges(l) \in [1..n -> SUBSET Points]
  BY <1>1, <1>2
<1>4. Edges(l) \in Seq(SUBSET Points) /\ Len(Edges(l)) = n
  BY <1>1, <1>3
<1> QED
  BY <1>1, <1>2, <1>4 DEF n

LEMMA LineEdgesTyped ==
  ASSUME NEW ls \in Seq(Seq(Points))
  PROVE  [i \in DOMAIN ls |-> Edges(ls[i])] \in Seq(Seq(SUBSET Points))
<1>1. Len(ls) \in Nat /\ DOMAIN ls = 1..Len(ls) /\ \A i \in 1..Len(ls) : ls[i] \in Seq(Points)
  OBVIOUS
<1>2. \A i \in 1..Len(ls) : Edges(ls[i]) \in Seq(SUBSET Points)
  BY <1>1, EdgesTyped
<1>3. [i \in DOMAIN ls |-> Edges(ls[i])] \in [1..Len(ls) -> Seq(SUBSET Points)]
  BY <1>1, <1>2
<1> QED
  BY <1>1, <1>3

LEMMA AllEdgesTyped ==
  ASSUME NEW ls \in Seq(Seq(Points))
  PROVE  AllEdges(ls) \in Seq(SUBSET Points)
BY LineEdgesTyped, FlattenTyped DEF AllEdges

\* How often an edge occurs.
Times(ls, e) == Hits(AllEdges(ls), {e})

LEMMA TimesNat ==
  ASSUME NEW ls \in Seq(Seq(Points)), NEW e
  PROVE  Times(ls, e) \in Nat
BY AllEdgesTyped, HitsNat DEF Times

LEMMA TimesConcat ==
  ASSUME NEW ls \in Seq(Seq(Points)), NEW ms \in Seq(Seq(Points)), NEW e
  PROVE  Times(ls \o ms, e) = Times(ls, e) + Times(ms, e)
<1> DEFINE a == Len(ls)
           b == Len(ms)
           of(xs) == [i \in DOMAIN xs |-> Edges(xs[i])]
<1>1. /\ a \in Nat /\ b \in Nat
      /\ ls \o ms \in Seq(Seq(Points)) /\ DOMAIN (ls \o ms) = 1..a + b
      /\ DOMAIN ls = 1..a /\ DOMAIN ms = 1..b
      /\ \A i \in 1..a : (ls \o ms)[i] = ls[i]
      /\ \A i \in a + 1..a + b : (ls \o ms)[i] = ms[i - a]
  OBVIOUS
<1>2. /\ of(ls) \in Seq(Seq(SUBSET Points)) /\ of(ms) \in Seq(Seq(SUBSET Points))
      /\ of(ls \o ms) \in Seq(Seq(SUBSET Points))
  BY <1>1, LineEdgesTyped
<1>3. /\ DOMAIN of(ls) = 1..a /\ DOMAIN of(ms) = 1..b /\ DOMAIN of(ls \o ms) = 1..a + b
      /\ \A i \in 1..a : of(ls)[i] = Edges(ls[i])
      /\ \A i \in 1..b : of(ms)[i] = Edges(ms[i])
      /\ \A i \in 1..a + b : of(ls \o ms)[i] = Edges((ls \o ms)[i])
  BY <1>1
<1> HIDE DEF of, a, b
<1>4. Len(of(ls)) = a /\ Len(of(ms)) = b /\ Len(of(ls \o ms)) = a + b
  BY <1>1, <1>2, <1>3
<1>5. of(ls \o ms) = of(ls) \o of(ms)
  <2>1. /\ of(ls) \o of(ms) \in Seq(Seq(SUBSET Points)) /\ Len(of(ls) \o of(ms)) = a + b
        /\ \A i \in 1..a + b : (of(ls) \o of(ms))[i] =
             IF i <= a THEN of(ls)[i] ELSE of(ms)[i - a]
    BY <1>2, <1>4, ConcatProperties
  <2>2. ASSUME NEW i \in 1..a + b PROVE of(ls \o ms)[i] = (of(ls) \o of(ms))[i]
    <3>1. CASE i <= a
      <4>1. i \in 1..a
        BY <1>1, <3>1
      <4> QED
        BY <1>1, <1>3, <2>1, <3>1, <4>1
    <3>2. CASE ~(i <= a)
      <4>1. i \in a + 1..a + b /\ i - a \in 1..b
        BY <1>1, <3>2
      <4> QED
        BY <1>1, <1>3, <2>1, <3>2, <4>1
    <3> QED
      BY <3>1, <3>2
  <2> QED
    BY <1>2, <1>4, <2>1, <2>2, SeqEqual
<1>6. /\ AllEdges(ls) = FlattenSeq(of(ls)) /\ AllEdges(ms) = FlattenSeq(of(ms))
      /\ AllEdges(ls \o ms) = FlattenSeq(of(ls \o ms))
  BY DEF AllEdges, of
<1>7. AllEdges(ls \o ms) = AllEdges(ls) \o AllEdges(ms)
  <2>1. FlattenSeq(of(ls) \o of(ms)) = FlattenSeq(of(ls)) \o FlattenSeq(of(ms))
    BY <1>2, FlattenConcat
  <2> QED
    BY <1>5, <1>6, <2>1, Zenon
<1> QED
  BY <1>7, AllEdgesTyped, HitsConcat DEF Times

LEMMA TimesOne ==
  ASSUME NEW l \in Seq(Points), NEW e
  PROVE  Times(<<l>>, e) = Hits(Edges(l), {e}) /\ Times(<<>>, e) = 0
<1>1. [i \in DOMAIN <<l>> |-> Edges(<<l>>[i])] = <<Edges(l)>>
  OBVIOUS
<1>2. [i \in DOMAIN <<>> |-> Edges(<<>>[i])] = <<>>
  OBVIOUS
<1>3. FlattenSeq(<<Edges(l)>>) = Edges(l) /\ FlattenSeq(<<>>) = <<>>
  BY EdgesTyped, FlattenOne, FlattenNone
<1>4. AllEdges(<<l>>) = Edges(l) /\ AllEdges(<<>>) = <<>>
  BY <1>1, <1>2, <1>3 DEF AllEdges
<1> QED
  BY <1>4, HitsOne DEF Times

\* A bag of edges says no more than how often each occurs.
LEMMA SameBag ==
  ASSUME NEW ls \in Seq(Seq(Points)), NEW ms \in Seq(Seq(Points)),
         \A e : Times(ls, e) = Times(ms, e)
  PROVE  EdgeBag(ls) = EdgeBag(ms)
<1> DEFINE at(s, e) == {k \in DOMAIN s : s[k] = e}
           l == AllEdges(ls)
           m == AllEdges(ms)
<1>1. l \in Seq(SUBSET Points) /\ m \in Seq(SUBSET Points)
  BY AllEdgesTyped
<1> HIDE DEF l, m
<1>2. ASSUME NEW s \in Seq(SUBSET Points), NEW e
      PROVE  /\ at(s, e) = {k \in DOMAIN s : s[k] \in {e}}
             /\ IsFiniteSet(at(s, e)) /\ Cardinality(at(s, e)) = Hits(s, {e})
             /\ e \in Range(s) <=> at(s, e) # {}
             /\ at(s, e) = {} <=> Hits(s, {e}) = 0
  <2>1. at(s, e) = {k \in DOMAIN s : s[k] \in {e}}
    OBVIOUS
  <2>2. IsFiniteSet(at(s, e)) /\ Cardinality(at(s, e)) = Hits(s, {e})
    BY <2>1, HitsNat DEF Hits
  <2>3. e \in Range(s) <=> at(s, e) # {}
    BY DEF Range
  <2> HIDE DEF at
  <2>4. at(s, e) = {} <=> Cardinality(at(s, e)) = 0
    BY <2>2, FS_EmptySet
  <2> QED
    BY <2>1, <2>2, <2>3, <2>4
<1>3. \A e : Hits(l, {e}) = Hits(m, {e})
  BY DEF Times, l, m
<1> HIDE DEF at
<1>4. Range(l) = Range(m)
  BY <1>1, <1>2, <1>3
<1>5. EdgeBag(ls) = [e \in Range(l) |-> Cardinality(at(l, e))]
  BY DEF EdgeBag, at, l
<1>6. EdgeBag(ms) = [e \in Range(m) |-> Cardinality(at(m, e))]
  BY DEF EdgeBag, at, m
<1>7. \A e : Cardinality(at(l, e)) = Cardinality(at(m, e))
  BY <1>1, <1>2, <1>3
<1> QED
  BY <1>4, <1>5, <1>6, <1>7

LEMMA EndsSplit ==
  ASSUME NEW ls \in Seq(Some), NEW p
  PROVE  Ends(ls, p) = Hits(ls, {l \in Some : Head(l) = p}) + Hits(ls, {l \in Some : Last(l) = p})
<1>1. \A i \in DOMAIN ls : ls[i] \in Some
  OBVIOUS
<1>2. /\ {i \in DOMAIN ls : Head(ls[i]) = p} = {i \in DOMAIN ls : ls[i] \in {l \in Some : Head(l) = p}}
      /\ {i \in DOMAIN ls : Last(ls[i]) = p} = {i \in DOMAIN ls : ls[i] \in {l \in Some : Last(l) = p}}
  BY <1>1
<1> QED
  BY <1>2 DEF Ends, Hits

LEMMA EndsNat ==
  ASSUME NEW ls \in Seq(Some), NEW p
  PROVE  Ends(ls, p) \in Nat
<1>1. /\ Hits(ls, {l \in Some : Head(l) = p}) \in Nat
      /\ Hits(ls, {l \in Some : Last(l) = p}) \in Nat
  BY HitsNat
<1>2. Ends(ls, p) = Hits(ls, {l \in Some : Head(l) = p}) + Hits(ls, {l \in Some : Last(l) = p})
  BY EndsSplit
<1>3. \A x, y \in Nat : x + y \in Nat
  OBVIOUS
<1> QED
  BY <1>1, <1>2, <1>3

LEMMA EndsConcat ==
  ASSUME NEW ls \in Seq(Some), NEW ms \in Seq(Some), NEW p
  PROVE  Ends(ls \o ms, p) = Ends(ls, p) + Ends(ms, p)
<1> DEFINE H == {l \in Some : Head(l) = p}
           L == {l \in Some : Last(l) = p}
<1>1. ls \o ms \in Seq(Some)
  BY ConcatProperties
<1>2. /\ Ends(ls \o ms, p) = Hits(ls \o ms, H) + Hits(ls \o ms, L)
      /\ Ends(ls, p) = Hits(ls, H) + Hits(ls, L)
      /\ Ends(ms, p) = Hits(ms, H) + Hits(ms, L)
  BY <1>1, EndsSplit
<1> HIDE DEF H, L
<1>3. /\ Hits(ls \o ms, H) = Hits(ls, H) + Hits(ms, H)
      /\ Hits(ls \o ms, L) = Hits(ls, L) + Hits(ms, L)
  BY HitsConcat
<1>4. /\ Hits(ls, H) \in Nat /\ Hits(ls, L) \in Nat
      /\ Hits(ms, H) \in Nat /\ Hits(ms, L) \in Nat
  BY HitsNat
<1> QED
  BY <1>2, <1>3, <1>4

LEMMA EndsOne ==
  ASSUME NEW l \in Some, NEW p
  PROVE  /\ Ends(<<l>>, p) = (IF Head(l) = p THEN 1 ELSE 0) + (IF Last(l) = p THEN 1 ELSE 0)
         /\ Ends(<<>>, p) = 0
<1>1. <<l>> \in Seq(Some) /\ <<>> \in Seq(Some)
  OBVIOUS
<1> DEFINE H == {x \in Some : Head(x) = p}
           L == {x \in Some : Last(x) = p}
<1>2. /\ Ends(<<l>>, p) = Hits(<<l>>, H) + Hits(<<l>>, L)
      /\ Ends(<<>>, p) = Hits(<<>>, H) + Hits(<<>>, L)
  BY <1>1, EndsSplit
<1>3. (l \in H <=> Head(l) = p) /\ (l \in L <=> Last(l) = p)
  OBVIOUS
<1> HIDE DEF H, L
<1>4. /\ Hits(<<l>>, H) = (IF l \in H THEN 1 ELSE 0) /\ Hits(<<l>>, L) = (IF l \in L THEN 1 ELSE 0)
      /\ Hits(<<>>, H) = 0 /\ Hits(<<>>, L) = 0
  BY HitsOne
<1> QED
  BY <1>2, <1>3, <1>4

-----------------------------------------------------------------------------
(* A line joined to another at the point they share.                       *)

LEMMA ConcatAt ==
  ASSUME NEW X, NEW s \in Seq(X), NEW t \in Seq(X), NEW a, NEW b, Len(s) = a, Len(t) = b
  PROVE  /\ s \o t \in Seq(X) /\ Len(s \o t) = a + b
         /\ \A i \in 1..a + b : (s \o t)[i] = IF i <= a THEN s[i] ELSE t[i - a]
BY ConcatProperties

\* The one begins where the other ends.
LEMMA JoinForward ==
  ASSUME NEW l \in Long, NEW m \in Long, Last(l) = Head(m)
  PROVE  /\ Tail(m) \in Some /\ l \o Tail(m) \in Long
         /\ Head(l \o Tail(m)) = Head(l) /\ Last(l \o Tail(m)) = Last(m)
         /\ Last(Tail(m)) = Last(m)
         /\ \A e : Times(<<l \o Tail(m)>>, e) = Times(<<l>>, e) + Times(<<m>>, e)
<1> DEFINE a == Len(l)
           b == Len(m)
           j == l \o Tail(m)
<1>1. /\ l \in Seq(Points) /\ m \in Seq(Points) /\ a \in Nat /\ b \in Nat /\ a >= 2 /\ b >= 2
  BY DEF Long
<1>2. /\ Tail(m) \in Seq(Points) /\ Len(Tail(m)) = b - 1
      /\ \A i \in 1..b - 1 : Tail(m)[i] = m[i + 1]
  BY <1>1
<1>3. /\ j \in Seq(Points) /\ Len(j) = a + b - 1
      /\ \A i \in 1..a : j[i] = l[i]
      /\ \A i \in a + 1..a + b - 1 : j[i] = Tail(m)[i - a]
  BY <1>1, <1>2
<1> HIDE DEF a, b, j
<1>4. Head(l) = l[1] /\ Last(l) = l[a] /\ Head(m) = m[1] /\ Last(m) = m[b]
  BY <1>1 DEF Last, a, b
<1>5. \A i \in a..a + b - 1 : j[i] = m[i - a + 1]
  <2>1. j[a] = m[1] /\ a - a + 1 = 1
    <3>1. a \in 1..a /\ a - a + 1 = 1
      BY <1>1
    <3>2. j[a] = l[a]
      BY <1>3, <3>1
    <3> QED
      BY <1>4, <3>1, <3>2
  <2>2. ASSUME NEW i \in a + 1..a + b - 1 PROVE j[i] = m[i - a + 1]
    <3>1. i - a \in 1..b - 1
      BY <1>1
    <3> QED
      BY <1>2, <1>3, <3>1
  <2>3. \A i \in a..a + b - 1 : i = a \/ i \in a + 1..a + b - 1
    BY <1>1
  <2> QED
    BY <2>1, <2>2, <2>3
<1>6. Head(j) = j[1] /\ Last(j) = j[a + b - 1] /\ j[1] = l[1] /\ j[a + b - 1] = m[b]
  <2>1. 1 \in 1..a /\ a + b - 1 \in a..a + b - 1 /\ (a + b - 1) - a + 1 = b
    BY <1>1
  <2>2. Head(j) = j[1] /\ Last(j) = j[a + b - 1]
    BY <1>1, <1>3 DEF Last
  <2> QED
    BY <1>3, <1>5, <2>1, <2>2
<1>7. Last(Tail(m)) = m[b]
  <2>1. b - 1 \in 1..b - 1 /\ (b - 1) + 1 = b
    BY <1>1
  <2> QED
    BY <1>2, <2>1 DEF Last
<1>8. Edges(j) = Edges(l) \o Edges(m)
  <2>1. /\ Edges(l) \in Seq(SUBSET Points) /\ Len(Edges(l)) = a - 1
        /\ \A k \in 1..a - 1 : Edges(l)[k] = {l[k], l[k + 1]}
    BY <1>1, EdgesTyped DEF a
  <2>2. /\ Edges(m) \in Seq(SUBSET Points) /\ Len(Edges(m)) = b - 1
        /\ \A k \in 1..b - 1 : Edges(m)[k] = {m[k], m[k + 1]}
    BY <1>1, EdgesTyped DEF b
  <2>3. /\ Edges(j) \in Seq(SUBSET Points) /\ Len(Edges(j)) = a + b - 2
        /\ \A k \in 1..a + b - 2 : Edges(j)[k] = {j[k], j[k + 1]}
    <3>1. Len(j) # 0 /\ (a + b - 1) - 1 = a + b - 2
      BY <1>1, <1>3
    <3> QED
      BY <1>3, <3>1, EdgesTyped
  <2>4. /\ Edges(l) \o Edges(m) \in Seq(SUBSET Points)
        /\ Len(Edges(l) \o Edges(m)) = (a - 1) + (b - 1)
        /\ \A k \in 1..(a - 1) + (b - 1) : (Edges(l) \o Edges(m))[k] =
             IF k <= a - 1 THEN Edges(l)[k] ELSE Edges(m)[k - (a - 1)]
    BY <2>1, <2>2, ConcatAt
  <2>5. (a - 1) + (b - 1) = a + b - 2
    BY <1>1
  <2>6. ASSUME NEW k \in 1..a + b - 2 PROVE Edges(j)[k] = (Edges(l) \o Edges(m))[k]
    <3>1. CASE k <= a - 1
      <4>1. k \in 1..a /\ k + 1 \in 1..a /\ k \in 1..a - 1
        BY <1>1, <3>1
      <4> QED
        BY <1>3, <2>1, <2>3, <2>4, <2>5, <3>1, <4>1
    <3>2. CASE ~(k <= a - 1)
      <4>1. /\ k \in a..a + b - 1 /\ k + 1 \in a..a + b - 1 /\ k - (a - 1) \in 1..b - 1
            /\ k - a + 1 = k - (a - 1) /\ (k + 1) - a + 1 = (k - (a - 1)) + 1
        BY <1>1, <3>2
      <4>2. j[k] = m[k - (a - 1)] /\ j[k + 1] = m[(k - (a - 1)) + 1]
        BY <1>5, <4>1
      <4>3. Edges(m)[k - (a - 1)] = {m[k - (a - 1)], m[(k - (a - 1)) + 1]}
        BY <2>2, <4>1
      <4> QED
        BY <2>3, <2>4, <2>5, <3>2, <4>2, <4>3
    <3> QED
      BY <3>1, <3>2
  <2> QED
    BY <2>3, <2>4, <2>5, <2>6, SeqEqual
<1>9. \A e : Times(<<j>>, e) = Times(<<l>>, e) + Times(<<m>>, e)
  <2> TAKE e
  <2>1. /\ Times(<<j>>, e) = Hits(Edges(j), {e}) /\ Times(<<l>>, e) = Hits(Edges(l), {e})
        /\ Times(<<m>>, e) = Hits(Edges(m), {e})
    BY <1>1, <1>3, TimesOne
  <2>2. Edges(l) \in Seq(SUBSET Points) /\ Edges(m) \in Seq(SUBSET Points)
    BY <1>1, EdgesTyped
  <2>3. Hits(Edges(l) \o Edges(m), {e}) = Hits(Edges(l), {e}) + Hits(Edges(m), {e})
    BY <2>2, HitsConcat
  <2> QED
    BY <1>8, <2>1, <2>3
<1>10. Tail(m) \in Some /\ j \in Long
  BY <1>1, <1>2, <1>3 DEF Some, Long
<1> QED
  BY <1>4, <1>6, <1>7, <1>9, <1>10 DEF j

\* The other way round.
LEMMA JoinBackward ==
  ASSUME NEW l \in Long, NEW m \in Long, Last(m) = Head(l)
  PROVE  /\ Front(m) \in Some /\ Front(m) \o l = m \o Tail(l)
         /\ Head(Front(m)) = Head(m)
<1> DEFINE a == Len(l)
           b == Len(m)
<1>1. /\ l \in Seq(Points) /\ m \in Seq(Points) /\ a \in Nat /\ b \in Nat /\ a >= 2 /\ b >= 2
  BY DEF Long
<1>2. /\ Front(m) \in Seq(Points) /\ Len(Front(m)) = b - 1
      /\ \A i \in 1..b - 1 : Front(m)[i] = m[i]
  BY <1>1 DEF Front
<1>3. /\ Tail(l) \in Seq(Points) /\ Len(Tail(l)) = a - 1
      /\ \A i \in 1..a - 1 : Tail(l)[i] = l[i + 1]
  BY <1>1
<1>4. Len(l) = a /\ Len(m) = b
  OBVIOUS
<1> HIDE DEF a, b
<1>5. m[b] = l[1] /\ Head(m) = m[1] /\ Head(Front(m)) = Front(m)[1]
  BY <1>1, <1>2 DEF Last, a, b
<1>6. /\ Front(m) \o l \in Seq(Points) /\ Len(Front(m) \o l) = (b - 1) + a
      /\ \A i \in 1..(b - 1) + a : (Front(m) \o l)[i] =
           IF i <= b - 1 THEN Front(m)[i] ELSE l[i - (b - 1)]
  BY <1>1, <1>2, <1>4, ConcatAt
<1>7. /\ m \o Tail(l) \in Seq(Points) /\ Len(m \o Tail(l)) = b + (a - 1)
      /\ \A i \in 1..b + (a - 1) : (m \o Tail(l))[i] = IF i <= b THEN m[i] ELSE Tail(l)[i - b]
  BY <1>1, <1>3, <1>4, ConcatAt
<1>8. (b - 1) + a = b + (a - 1)
  BY <1>1
<1>9. ASSUME NEW i \in 1..b + (a - 1) PROVE (Front(m) \o l)[i] = (m \o Tail(l))[i]
  <2>1. CASE i <= b - 1
    <3>1. i \in 1..b - 1 /\ i <= b
      BY <1>1, <2>1
    <3> QED
      BY <1>2, <1>6, <1>7, <1>8, <2>1, <3>1
  <2>2. CASE i = b
    <3>1. ~(b <= b - 1) /\ b - (b - 1) = 1 /\ b <= b /\ b \in 1..b + (a - 1)
      BY <1>1
    <3>2. (Front(m) \o l)[b] = l[1] /\ (m \o Tail(l))[b] = m[b]
      BY <1>6, <1>7, <1>8, <3>1
    <3> QED
      BY <1>5, <2>2, <3>2
  <2>3. CASE i > b
    <3>1. ~(i <= b - 1) /\ ~(i <= b) /\ i - b \in 1..a - 1 /\ i - (b - 1) = (i - b) + 1
      BY <1>1, <2>3
    <3>2. Tail(l)[i - b] = l[i - (b - 1)]
      BY <1>3, <3>1
    <3> QED
      BY <1>6, <1>7, <1>8, <3>1, <3>2
  <2> QED
    <3>1. i <= b - 1 \/ i = b \/ i > b
      BY <1>1
    <3> QED
      BY <2>1, <2>2, <2>3, <3>1
<1>10. Front(m) \o l = m \o Tail(l)
  BY <1>6, <1>7, <1>8, <1>9, SeqEqual
<1>11. Head(Front(m)) = Head(m)
  BY <1>1, <1>2, <1>5
<1> QED
  BY <1>1, <1>2, <1>10, <1>11 DEF Some

LEMMA Turning ==
  ASSUME NEW m \in Long
  PROVE  /\ Reverse(m) \in Long /\ Head(Reverse(m)) = Last(m) /\ Last(Reverse(m)) = Head(m)
         /\ \A e : Times(<<Reverse(m)>>, e) = Times(<<m>>, e)
<1> DEFINE n == Len(m)
           w == Reverse(m)
<1>1. m \in Seq(Points) /\ n \in Nat /\ n >= 2
  BY DEF Long
<1>2. w \in Seq(Points) /\ Len(w) = n /\ \A i \in 1..n : w[i] = m[n - i + 1]
  <2>1. w \in Seq(Points)
    BY <1>1, HitsReverse
  <2>2. w = [i \in 1..n |-> m[n - i + 1]]
    BY DEF Reverse
  <2> HIDE DEF w, n
  <2>3. DOMAIN w = 1..n /\ \A i \in 1..n : w[i] = m[n - i + 1]
    BY <2>2
  <2>4. Len(w) = n
    BY <1>1, <2>1, <2>3
  <2> QED
    BY <2>1, <2>3, <2>4
<1>3. DOMAIN m = 1..n /\ Last(m) = m[n] /\ Head(m) = m[1]
  BY <1>1 DEF Last
<1> HIDE DEF w, n
<1>4. Head(w) = m[n] /\ Last(w) = m[1]
  <2>1. 1 \in 1..n /\ n \in 1..n /\ n - 1 + 1 = n /\ n - n + 1 = 1
    BY <1>1
  <2>2. Head(w) = w[1] /\ Last(w) = w[n]
    BY <1>1, <1>2 DEF Last
  <2> QED
    BY <1>2, <2>1, <2>2
<1>5. Edges(w) = Reverse(Edges(m))
  <2>1. /\ Edges(m) \in Seq(SUBSET Points) /\ Len(Edges(m)) = n - 1
        /\ \A k \in 1..n - 1 : Edges(m)[k] = {m[k], m[k + 1]}
    BY <1>1, EdgesTyped DEF n
  <2>2. /\ Edges(w) \in Seq(SUBSET Points) /\ Len(Edges(w)) = n - 1
        /\ \A k \in 1..n - 1 : Edges(w)[k] = {w[k], w[k + 1]}
    <3>1. n # 0
      BY <1>1
    <3> QED
      BY <1>2, <3>1, EdgesTyped
  <2>3. DOMAIN Edges(w) = 1..n - 1
    BY <2>2
  <2>4. Reverse(Edges(m)) = [k \in 1..n - 1 |-> Edges(m)[(n - 1) - k + 1]]
    BY <2>1 DEF Reverse
  <2>5. ASSUME NEW k \in 1..n - 1 PROVE Edges(w)[k] = Edges(m)[(n - 1) - k + 1]
    <3>1. /\ (n - 1) - k + 1 \in 1..n - 1 /\ k \in 1..n /\ k + 1 \in 1..n
          /\ n - k + 1 = ((n - 1) - k + 1) + 1 /\ n - (k + 1) + 1 = (n - 1) - k + 1
      BY <1>1
    <3>2. w[k] = m[((n - 1) - k + 1) + 1] /\ w[k + 1] = m[(n - 1) - k + 1]
      BY <1>2, <3>1
    <3>3. Edges(m)[(n - 1) - k + 1] = {m[(n - 1) - k + 1], m[((n - 1) - k + 1) + 1]}
      BY <2>1, <3>1
    <3>4. Edges(w)[k] = {w[k], w[k + 1]}
      BY <2>2
    <3> QED
      BY <3>2, <3>3, <3>4
  <2>6. Edges(w) = [k \in 1..n - 1 |-> Edges(w)[k]]
    BY <2>2, <2>3
  <2> QED
    BY <2>4, <2>5, <2>6
<1>6. \A e : Times(<<w>>, e) = Times(<<m>>, e)
  <2> TAKE e
  <2>1. Times(<<w>>, e) = Hits(Edges(w), {e}) /\ Times(<<m>>, e) = Hits(Edges(m), {e})
    BY <1>1, <1>2, TimesOne
  <2>2. Hits(Reverse(Edges(m)), {e}) = Hits(Edges(m), {e})
    BY <1>1, EdgesTyped, HitsReverse
  <2> QED
    BY <1>5, <2>1, <2>2
<1>7. w \in Long
  BY <1>1, <1>2 DEF Long
<1> QED
  BY <1>3, <1>4, <1>6, <1>7 DEF w

\* Of two lines joined, the edges are those of both, and the ends but for the
\* point they share.
Both(j, l, m) ==
  /\ j \in Long
  /\ \A e : Times(<<j>>, e) = Times(<<l>>, e) + Times(<<m>>, e)
  /\ \A p : Ends(<<j>>, p) % 2 = (Ends(<<l>>, p) + Ends(<<m>>, p)) % 2

LEMMA LongIsSome ==
  ASSUME NEW l \in Long
  PROVE  l \in Some /\ l \in Seq(Points) /\ <<l>> \in Seq(Seq(Points)) /\ <<l>> \in Seq(Some)
<1>1. l \in Some /\ l \in Seq(Points)
  BY DEF Long, Some
<1> QED
  BY <1>1

LEMMA ForwardBoth ==
  ASSUME NEW l \in Long, NEW m \in Long, Last(l) = Head(m)
  PROVE  Both(l \o Tail(m), l, m)
<1> DEFINE j == l \o Tail(m)
<1>1. /\ j \in Long /\ Head(j) = Head(l) /\ Last(j) = Last(m)
      /\ \A e : Times(<<j>>, e) = Times(<<l>>, e) + Times(<<m>>, e)
  BY JoinForward
<1> HIDE DEF j
<1>2. ASSUME NEW p PROVE Ends(<<j>>, p) % 2 = (Ends(<<l>>, p) + Ends(<<m>>, p)) % 2
  <2> DEFINE h == IF Head(l) = p THEN 1 ELSE 0
             s == IF Last(l) = p THEN 1 ELSE 0
             t == IF Last(m) = p THEN 1 ELSE 0
  <2>1. l \in Some /\ m \in Some /\ j \in Some
    BY <1>1, LongIsSome
  <2>2. Ends(<<l>>, p) = h + s /\ Ends(<<m>>, p) = s + t /\ Ends(<<j>>, p) = h + t
    BY <1>1, <2>1, EndsOne
  <2>3. h \in {0, 1} /\ s \in {0, 1} /\ t \in {0, 1}
    OBVIOUS
  <2> HIDE DEF h, s, t
  <2>4. (h + t) % 2 = ((h + s) + (s + t)) % 2
    BY <2>3
  <2> QED
    BY <2>2, <2>4
<1> QED
  BY <1>1, <1>2 DEF Both, j

LEMMA TurnedBoth ==
  ASSUME NEW l \in Long, NEW m \in Long, NEW j, Both(j, l, Reverse(m))
  PROVE  Both(j, l, m)
<1>1. /\ Reverse(m) \in Long /\ Head(Reverse(m)) = Last(m) /\ Last(Reverse(m)) = Head(m)
      /\ \A e : Times(<<Reverse(m)>>, e) = Times(<<m>>, e)
  BY Turning
<1>2. ASSUME NEW p PROVE Ends(<<Reverse(m)>>, p) = Ends(<<m>>, p)
  <2>1. m \in Some /\ Reverse(m) \in Some
    BY <1>1, LongIsSome
  <2>2. /\ Ends(<<m>>, p) = (IF Head(m) = p THEN 1 ELSE 0) + (IF Last(m) = p THEN 1 ELSE 0)
        /\ Ends(<<Reverse(m)>>, p) =
             (IF Last(m) = p THEN 1 ELSE 0) + (IF Head(m) = p THEN 1 ELSE 0)
    BY <1>1, <2>1, EndsOne
  <2> QED
    BY <2>2
<1> QED
  BY <1>1, <1>2 DEF Both

LEMMA OrderOfBoth ==
  ASSUME NEW l \in Long, NEW m \in Long, NEW j, Both(j, l, m)
  PROVE  Both(j, m, l)
<1>1. <<l>> \in Seq(Seq(Points)) /\ <<m>> \in Seq(Seq(Points)) /\ <<l>> \in Seq(Some) /\ <<m>> \in Seq(Some)
  BY LongIsSome
<1>2. \A e : Times(<<l>>, e) \in Nat /\ Times(<<m>>, e) \in Nat
  BY <1>1, TimesNat
<1>3. \A p : Ends(<<l>>, p) \in Nat /\ Ends(<<m>>, p) \in Nat
  BY <1>1, EndsNat
<1>4. \A x, y \in Nat : x + y = y + x
  OBVIOUS
<1>5. \A e : Times(<<l>>, e) + Times(<<m>>, e) = Times(<<m>>, e) + Times(<<l>>, e)
  BY <1>2, <1>4
<1>6. \A p : Ends(<<l>>, p) + Ends(<<m>>, p) = Ends(<<m>>, p) + Ends(<<l>>, p)
  BY <1>3, <1>4
<1> QED
  BY <1>5, <1>6 DEF Both

\* A line taken from a list.
LEMMA Taken ==
  ASSUME NEW ls \in Seq(Long), NEW i \in 1..Len(ls)
  PROVE  /\ ls[i] \in Long /\ RemoveAt(ls, i) \in Seq(Long)
         /\ \A e : Times(ls, e) = Times(RemoveAt(ls, i), e) + Times(<<ls[i]>>, e)
         /\ \A p : Ends(ls, p) = Ends(RemoveAt(ls, i), p) + Ends(<<ls[i]>>, p)
<1> DEFINE n == Len(ls)
           A == SubSeq(ls, 1, i - 1)
           B == SubSeq(ls, i + 1, n)
           x == ls[i]
<1>1. n \in Nat /\ i \in Nat /\ 1 <= i /\ i <= n /\ x \in Long
  OBVIOUS
<1>2. A \in Seq(Long) /\ B \in Seq(Long) /\ <<x>> \in Seq(Long)
  BY <1>1
<1>3. ls = A \o (<<x>> \o B)
  <2>1. n \in i..n /\ 1 \in 1..n + 1 /\ i - 1 \in 1 - 1..n /\ n \in i - 1..n /\ (i - 1) + 1 = i
    BY <1>1
  <2>2. SubSeq(ls, i, n) = <<ls[i]>> \o SubSeq(ls, i + 1, n)
    BY <2>1, SubSeqRecursiveFirst
  <2>3. SubSeq(ls, 1, i - 1) \o SubSeq(ls, (i - 1) + 1, n) = SubSeq(ls, 1, n)
    BY <2>1, ConcatAdjacentSubSeq
  <2>4. SubSeq(ls, 1, n) = ls
    BY SubSeqFull
  <2> QED
    BY <2>1, <2>2, <2>3, <2>4
<1>4. RemoveAt(ls, i) = A \o B
  BY DEF RemoveAt
<1> HIDE DEF n, A, B, x
<1>5. Long \subseteq Seq(Points) /\ Long \subseteq Some
  BY LongIsSome
<1>6. Seq(Long) \subseteq Seq(Seq(Points)) /\ Seq(Long) \subseteq Seq(Some)
  BY <1>5, SeqMonotonic
<1>7. A \o B \in Seq(Long) /\ <<x>> \o B \in Seq(Long)
  BY <1>2, ConcatProperties
<1>8. \A e : Times(ls, e) = Times(A \o B, e) + Times(<<x>>, e)
  <2> TAKE e
  <2>1. /\ Times(A \o (<<x>> \o B), e) = Times(A, e) + Times(<<x>> \o B, e)
        /\ Times(<<x>> \o B, e) = Times(<<x>>, e) + Times(B, e)
        /\ Times(A \o B, e) = Times(A, e) + Times(B, e)
    BY <1>2, <1>6, <1>7, TimesConcat
  <2>2. Times(A, e) \in Nat /\ Times(B, e) \in Nat /\ Times(<<x>>, e) \in Nat
    BY <1>2, <1>6, TimesNat
  <2>3. Times(ls, e) = Times(A \o (<<x>> \o B), e)
    BY <1>3
  <2> QED
    BY <2>1, <2>2, <2>3
<1>9. \A p : Ends(ls, p) = Ends(A \o B, p) + Ends(<<x>>, p)
  <2> TAKE p
  <2>1. /\ Ends(A \o (<<x>> \o B), p) = Ends(A, p) + Ends(<<x>> \o B, p)
        /\ Ends(<<x>> \o B, p) = Ends(<<x>>, p) + Ends(B, p)
        /\ Ends(A \o B, p) = Ends(A, p) + Ends(B, p)
    BY <1>2, <1>6, <1>7, EndsConcat
  <2>2. Ends(A, p) \in Nat /\ Ends(B, p) \in Nat /\ Ends(<<x>>, p) \in Nat
    BY <1>2, <1>6, EndsNat
  <2>3. Ends(ls, p) = Ends(A \o (<<x>> \o B), p)
    BY <1>3
  <2> QED
    BY <2>1, <2>2, <2>3
<1> QED
  BY <1>1, <1>4, <1>7, <1>8, <1>9 DEF x

LEMMA TakenLast ==
  ASSUME NEW ls \in Seq(Long), ls # <<>>
  PROVE  /\ Last(ls) \in Long /\ Front(ls) \in Seq(Long)
         /\ \A e : Times(ls, e) = Times(Front(ls), e) + Times(<<Last(ls)>>, e)
         /\ \A p : Ends(ls, p) = Ends(Front(ls), p) + Ends(<<Last(ls)>>, p)
<1>1. Len(ls) \in 1..Len(ls) /\ Len(ls) \in Nat
  OBVIOUS
<1>2. RemoveAt(ls, Len(ls)) = Front(ls)
  <2>1. SubSeq(ls, Len(ls) + 1, Len(ls)) = <<>>
    BY <1>1
  <2>2. SubSeq(ls, 1, Len(ls) - 1) \in Seq(Long)
    BY <1>1
  <2> QED
    BY <2>1, <2>2, ConcatEmptySeq DEF RemoveAt, Front
<1>3. ls[Len(ls)] = Last(ls)
  BY DEF Last
<1> QED
  BY <1>1, <1>2, <1>3, Taken

-----------------------------------------------------------------------------
(* The lines of a relation.                                                *)

LEMMA LinesTyped ==
  ASSUME NEW ms \in Inputs, NEW role
  PROVE  Lines(ms, role) \in Seq(Seq(Points))
<1> DEFINE keep == {m \in Range(ms) : m.role = role /\ Known(m)}
           known == Kept(ms, keep)
<1>1. ms \in Seq(Range(ms)) /\ \A m \in Range(ms) : m.nodes = NoWay \/ m.nodes \in Seq(Range(m.nodes))
  BY RingsAssumption DEF RingsAssumption
<1>2. known \in Seq(Range(ms) \cap keep)
  BY <1>1, KeptTyped
<1>3. ASSUME NEW m \in keep PROVE Line(m.nodes) \in Seq(Points)
  <2>1. m \in Range(ms) /\ m.nodes # NoWay
    BY DEF Known
  <2>2. m.nodes \in Seq(Range(m.nodes))
    BY <1>1, <2>1
  <2>3. Range(m.nodes) \subseteq Points
    BY <2>1 DEF Points
  <2>4. Line(m.nodes) \in Seq(Range(m.nodes) \cap (Range(m.nodes) \ {NoNode}))
    BY <2>2, KeptTyped DEF Line
  <2> QED
    BY <2>3, <2>4, SeqMonotonic
<1>4. Lines(ms, role) = [i \in DOMAIN known |-> Line(known[i].nodes)]
  BY DEF Lines
<1> HIDE DEF known, keep
<1>5. Len(known) \in Nat /\ DOMAIN known = 1..Len(known) /\ \A i \in 1..Len(known) : known[i] \in keep
  BY <1>2
<1>6. Lines(ms, role) \in [1..Len(known) -> Seq(Points)]
  BY <1>3, <1>4, <1>5
<1> QED
  BY <1>5, <1>6

LEMMA CompactTyped ==
  ASSUME NEW ls \in Seq(Seq(Points))
  PROVE  Compact(ls) \in Seq(Long)
<1> DEFINE long == {l \in Range(ls) : Len(l) > 1}
<1>1. Compact(ls) \in Seq(Seq(Points) \cap long)
  BY KeptTyped DEF Compact
<1>2. Seq(Points) \cap long \subseteq Long
  BY DEF Long
<1> QED
  BY <1>1, <1>2, SeqMonotonic

LEMMA GivenTyped ==
  ASSUME members \in Inputs, NEW role
  PROVE  Given(role) \in Seq(Long)
BY LinesTyped, CompactTyped DEF Given

-----------------------------------------------------------------------------
(* Sections.                                                               *)

\* A section under construction.
Section == {c \in Seq(Some) : c # <<>> /\ FlattenSeq(c) \in Long}

LEMMA SectionOpens ==
  ASSUME NEW m \in Long
  PROVE  /\ <<m>> \in Section /\ FlattenSeq(<<m>>) = m
         /\ Head(Head(<<m>>)) = Head(m) /\ Last(Last(<<m>>)) = Last(m)
<1>1. m \in Seq(Points) /\ <<m>> \in Seq(Some)
  BY LongIsSome
<1>2. FlattenSeq(<<m>>) = m
  BY <1>1, FlattenOne
<1>3. Head(<<m>>) = m /\ Last(<<m>>) = m /\ <<m>> # <<>>
  BY DEF Last
<1> QED
  BY <1>1, <1>2, <1>3 DEF Section

LEMMA SectionGrows ==
  ASSUME NEW c \in Section, NEW x \in Some
  PROVE  /\ FlattenSeq(c) \o x \in Long =>
              /\ Append(c, x) \in Section /\ FlattenSeq(Append(c, x)) = FlattenSeq(c) \o x
              /\ Head(Head(Append(c, x))) = Head(Head(c)) /\ Last(Last(Append(c, x))) = Last(x)
         /\ x \o FlattenSeq(c) \in Long =>
              /\ <<x>> \o c \in Section /\ FlattenSeq(<<x>> \o c) = x \o FlattenSeq(c)
              /\ Head(Head(<<x>> \o c)) = Head(x) /\ Last(Last(<<x>> \o c)) = Last(Last(c))
<1>1. /\ c \in Seq(Some) /\ c # <<>> /\ x \in Seq(Points) /\ <<x>> \in Seq(Some)
      /\ Len(c) \in Nat /\ Len(c) >= 1
  BY DEF Section, Some
<1>2. Some \subseteq Seq(Points)
  BY DEF Some
<1>3. c \in Seq(Seq(Points)) /\ <<x>> \in Seq(Seq(Points))
  BY <1>1, <1>2, SeqMonotonic
<1>4. /\ FlattenSeq(c \o <<x>>) = FlattenSeq(c) \o FlattenSeq(<<x>>)
      /\ FlattenSeq(<<x>> \o c) = FlattenSeq(<<x>>) \o FlattenSeq(c)
      /\ FlattenSeq(<<x>>) = x
  BY <1>1, <1>3, FlattenConcat, FlattenOne
<1>5. Append(c, x) = c \o <<x>>
  BY <1>1, AppendIsConcat
<1>6. /\ Append(c, x) \in Seq(Some) /\ Append(c, x) # <<>>
      /\ Head(Append(c, x)) = Head(c) /\ Last(Append(c, x)) = x
  BY <1>1 DEF Last
<1>7. /\ <<x>> \o c \in Seq(Some) /\ <<x>> \o c # <<>>
      /\ Head(<<x>> \o c) = x /\ Last(<<x>> \o c) = Last(c)
  <2>1. Len(<<x>>) = 1 /\ <<x>>[1] = x
    OBVIOUS
  <2>2. /\ <<x>> \o c \in Seq(Some) /\ Len(<<x>> \o c) = 1 + Len(c)
        /\ \A i \in 1..1 + Len(c) : (<<x>> \o c)[i] = IF i <= 1 THEN <<x>>[i] ELSE c[i - 1]
    BY <1>1, <2>1, ConcatAt
  <2>3. 1 \in 1..1 + Len(c) /\ 1 + Len(c) \in 1..1 + Len(c) /\ ~(1 + Len(c) <= 1) /\ (1 + Len(c)) - 1 = Len(c)
    BY <1>1
  <2>4. (<<x>> \o c)[1] = x /\ (<<x>> \o c)[1 + Len(c)] = c[Len(c)]
    BY <2>1, <2>2, <2>3
  <2>5. <<x>> \o c # <<>>
    BY <1>1, <2>2
  <2> QED
    BY <2>2, <2>4, <2>5 DEF Last
<1> QED
  BY <1>4, <1>5, <1>6, <1>7 DEF Section

LEMMA FlatTyped ==
  ASSUME NEW secs \in Seq(Section)
  PROVE  Flat(secs) \in Seq(Long) /\ Len(Flat(secs)) = Len(secs)
<1>1. Len(secs) \in Nat /\ DOMAIN secs = 1..Len(secs) /\ \A i \in 1..Len(secs) : secs[i] \in Section
  OBVIOUS
<1>2. \A i \in 1..Len(secs) : FlattenSeq(secs[i]) \in Long
  BY <1>1 DEF Section
<1>3. Flat(secs) \in [1..Len(secs) -> Long]
  BY <1>1, <1>2 DEF Flat
<1> QED
  BY <1>1, <1>3

LEMMA FlatAppend ==
  ASSUME NEW secs \in Seq(Section), NEW c \in Section
  PROVE  /\ Append(secs, c) \in Seq(Section)
         /\ Flat(Append(secs, c)) = Flat(secs) \o <<FlattenSeq(c)>>
         /\ \A e : Times(Flat(Append(secs, c)), e) = Times(Flat(secs), e) + Times(<<FlattenSeq(c)>>, e)
         /\ \A p : Ends(Flat(Append(secs, c)), p) = Ends(Flat(secs), p) + Ends(<<FlattenSeq(c)>>, p)
<1> DEFINE n == Len(secs)
           all == Append(secs, c)
           l == FlattenSeq(c)
<1>1. /\ n \in Nat /\ DOMAIN secs = 1..n /\ all \in Seq(Section) /\ Len(all) = n + 1
      /\ \A i \in 1..n : all[i] = secs[i]
      /\ all[n + 1] = c
  OBVIOUS
<1>2. /\ Flat(secs) \in Seq(Long) /\ Len(Flat(secs)) = n
      /\ Flat(all) \in Seq(Long) /\ Len(Flat(all)) = n + 1
  BY <1>1, FlatTyped
<1>3. l \in Long
  BY DEF Section
<1> HIDE DEF n, all, l
<1>4. DOMAIN all = 1..n + 1
  BY <1>1
<1>5. /\ \A i \in 1..n : Flat(secs)[i] = FlattenSeq(secs[i])
      /\ \A i \in 1..n + 1 : Flat(all)[i] = FlattenSeq(all[i])
  BY <1>1, <1>4 DEF Flat
<1>6. /\ Append(Flat(secs), l) \in Seq(Long) /\ Len(Append(Flat(secs), l)) = n + 1
      /\ \A i \in 1..n : Append(Flat(secs), l)[i] = Flat(secs)[i]
      /\ Append(Flat(secs), l)[n + 1] = l
  BY <1>2, <1>3, AppendProperties
<1>7. ASSUME NEW i \in 1..n + 1 PROVE Flat(all)[i] = Append(Flat(secs), l)[i]
  <2>1. CASE i \in 1..n
    BY <1>1, <1>5, <1>6, <2>1
  <2>2. CASE i = n + 1
    BY <1>1, <1>5, <1>6, <2>2 DEF l
  <2>3. i \in 1..n \/ i = n + 1
    BY <1>1
  <2> QED
    BY <2>1, <2>2, <2>3
<1>8. Flat(all) = Append(Flat(secs), l)
  BY <1>2, <1>6, <1>7, SeqEqual
<1>9. Flat(all) = Flat(secs) \o <<l>>
  BY <1>2, <1>3, <1>8, AppendIsConcat
<1>10. Long \subseteq Seq(Points) /\ Long \subseteq Some
  BY LongIsSome
<1>11. /\ Flat(secs) \in Seq(Seq(Points)) /\ <<l>> \in Seq(Seq(Points))
       /\ Flat(secs) \in Seq(Some) /\ <<l>> \in Seq(Some)
  BY <1>2, <1>3, <1>10, SeqMonotonic, LongIsSome
<1>12. /\ \A e : Times(Flat(secs) \o <<l>>, e) = Times(Flat(secs), e) + Times(<<l>>, e)
       /\ \A p : Ends(Flat(secs) \o <<l>>, p) = Ends(Flat(secs), p) + Ends(<<l>>, p)
  BY <1>11, TimesConcat, EndsConcat
<1> QED
  BY <1>1, <1>9, <1>12 DEF all, l

\* A closed section has both ends or none at a point.
LEMMA ClosedEnds ==
  ASSUME NEW ls \in Seq(Long), \A i \in DOMAIN ls : Closed(ls[i]), NEW p
  PROVE  Ends(ls, p) % 2 = 0
<1>1. ASSUME NEW l \in Long PROVE Head(l) = l[1] /\ Last(l) = l[Len(l)]
  BY DEF Long, Last
<1>2. \A i \in DOMAIN ls : ls[i] \in Long
  OBVIOUS
<1>3. {i \in DOMAIN ls : Head(ls[i]) = p} = {i \in DOMAIN ls : Last(ls[i]) = p}
  BY <1>1, <1>2 DEF Closed
<1>4. ls \in Seq(Some)
  <2>1. Long \subseteq Some
    BY LongIsSome
  <2> QED
    BY <2>1, SeqMonotonic
<1> DEFINE n == Cardinality({i \in DOMAIN ls : Head(ls[i]) = p})
<1>5. n \in Nat
  <2>1. {i \in DOMAIN ls : Head(ls[i]) = p} = {i \in DOMAIN ls : ls[i] \in {l \in Long : Head(l) = p}}
    BY <1>2
  <2>2. Hits(ls, {l \in Long : Head(l) = p}) \in Nat
    BY HitsNat
  <2> QED
    BY <2>1, <2>2 DEF Hits
<1>6. Ends(ls, p) = n + n
  BY <1>3 DEF Ends
<1> HIDE DEF n
<1>7. (n + n) % 2 = 0
  BY <1>5
<1> QED
  BY <1>6, <1>7

-----------------------------------------------------------------------------
(* The invariant.                                                          *)

TypeInv ==
  /\ members \in Inputs
  /\ stage \in {"collect", "outer", "inner", "attach", "built", "failed", "panicked"}
  /\ stage = "collect" => current = <<>> /\ sections = <<>>
  /\ stage # "collect" => inner = Lines(members, "inner")
  /\ segments \in Seq(Long)
  /\ sections \in Seq(Section)
  /\ current # <<>> =>
       /\ current \in Section
       /\ First = Head(FlattenSeq(current))
       /\ Last1 = Last(FlattenSeq(current))

\* What is in hand are the edges that were given, and their ends but for those
\* that have been joined in pairs.
EdgeInv == \A e :
  Times(segments, e) + Times(Flat(sections), e) + Times(<<FlattenSeq(current)>>, e)
    = Times(Given(stage), e)

CurrentEnds(p) == IF current = <<>> THEN 0 ELSE Ends(<<FlattenSeq(current)>>, p)

EndInv == \A p :
  (Ends(segments, p) + Ends(Flat(sections), p) + CurrentEnds(p)) % 2 = Ends(Given(stage), p) % 2

\* If every point has an even number of ends, what has been built is closed.
CloseInv ==
  (\A p : Ends(Given(stage), p) % 2 = 0) =>
    \A i \in DOMAIN Flat(sections) : Closed(Flat(sections)[i])

Counted == EdgeInv /\ EndInv /\ CloseInv

IInv == TypeInv /\ (Joining => Counted)

\* A run of join begins: nothing is built and everything is in hand.
Begins == members \in Inputs /\ current = <<>> /\ sections = <<>> /\ segments = Given(stage)

\* What is counted, and that it is counted in numbers.
LEMMA Numbers ==
  ASSUME TypeInv
  PROVE  /\ \A e : /\ Times(segments, e) \in Nat /\ Times(Flat(sections), e) \in Nat
                   /\ Times(<<FlattenSeq(current)>>, e) \in Nat
         /\ \A p : /\ Ends(segments, p) \in Nat /\ Ends(Flat(sections), p) \in Nat
                   /\ CurrentEnds(p) \in Nat
         /\ Flat(sections) \in Seq(Long)
         /\ FlattenSeq(current) \in Seq(Points)
<1>1. Flat(sections) \in Seq(Long) /\ segments \in Seq(Long)
  BY FlatTyped DEF TypeInv
<1>2. Long \subseteq Seq(Points) /\ Long \subseteq Some
  BY LongIsSome
<1>3. /\ Flat(sections) \in Seq(Seq(Points)) /\ Flat(sections) \in Seq(Some)
      /\ segments \in Seq(Seq(Points)) /\ segments \in Seq(Some)
  BY <1>1, <1>2, SeqMonotonic
<1>4. CASE current = <<>>
  <2>1. FlattenSeq(<<>>) = <<>> /\ <<>> \in Seq(Points) /\ <<<<>>>> \in Seq(Seq(Points))
    BY FlattenNone
  <2>2. FlattenSeq(current) = <<>> /\ \A p : CurrentEnds(p) = 0
    BY <1>4, <2>1 DEF CurrentEnds
  <2>3. <<FlattenSeq(current)>> \in Seq(Seq(Points)) /\ FlattenSeq(current) \in Seq(Points)
    BY <2>1, <2>2
  <2>4. \A e : Times(<<FlattenSeq(current)>>, e) \in Nat
    BY <2>3, TimesNat
  <2> QED
    BY <1>1, <1>3, <2>2, <2>3, <2>4, TimesNat, EndsNat
<1>5. CASE current # <<>>
  <2>1. FlattenSeq(current) \in Long
    BY <1>5 DEF TypeInv, Section
  <2>2. /\ <<FlattenSeq(current)>> \in Seq(Seq(Points)) /\ <<FlattenSeq(current)>> \in Seq(Some)
        /\ FlattenSeq(current) \in Seq(Points)
    BY <2>1, LongIsSome
  <2>3. \A p : CurrentEnds(p) = Ends(<<FlattenSeq(current)>>, p)
    BY <1>5 DEF CurrentEnds
  <2> QED
    BY <1>1, <1>3, <2>2, <2>3, TimesNat, EndsNat
<1> QED
  BY <1>4, <1>5

LEMMA JoinBegins == Begins => Counted
<1> SUFFICES ASSUME Begins PROVE Counted
  OBVIOUS
<1>1. members \in Inputs /\ current = <<>> /\ sections = <<>> /\ segments = Given(stage)
  BY DEF Begins
<1>2. Flat(<<>>) = <<>> /\ FlattenSeq(<<>>) = <<>>
  <2>1. [i \in DOMAIN <<>> |-> FlattenSeq(<<>>[i])] = <<>>
    OBVIOUS
  <2> QED
    BY <2>1, FlattenNone DEF Flat
<1>3. \A e : Times(<<>>, e) = 0 /\ Times(<<<<>>>>, e) = 0
  <2> TAKE e
  <2>1. <<>> \in Seq(Points) /\ Edges(<<>>) = <<>>
    BY DEF Edges
  <2>2. Times(<<<<>>>>, e) = Hits(Edges(<<>>), {e}) /\ Times(<<>>, e) = 0
    BY <2>1, TimesOne
  <2> QED
    BY <2>1, <2>2, HitsOne
<1>4. \A p : Ends(<<>>, p) = 0
  <2> TAKE p
  <2>1. /\ {i \in DOMAIN <<>> : Head(<<>>[i]) = p} = {} /\ {i \in DOMAIN <<>> : Last(<<>>[i]) = p} = {}
        /\ Cardinality({}) = 0
    BY FS_EmptySet
  <2> QED
    BY <2>1 DEF Ends
<1>5. Given(stage) \in Seq(Seq(Points)) /\ Given(stage) \in Seq(Some)
  <2>1. Long \subseteq Seq(Points) /\ Long \subseteq Some
    BY LongIsSome
  <2>2. Given(stage) \in Seq(Long)
    BY <1>1, GivenTyped
  <2> QED
    BY <2>1, <2>2, SeqMonotonic
<1>6. EdgeInv
  <2>1. \A e : Times(Given(stage), e) \in Nat
    BY <1>5, TimesNat
  <2>2. \A n \in Nat : n + 0 + 0 = n
    OBVIOUS
  <2> QED
    BY <1>1, <1>2, <1>3, <2>1, <2>2 DEF EdgeInv
<1>7. EndInv
  <2>1. \A p : Ends(Given(stage), p) \in Nat
    BY <1>5, EndsNat
  <2>2. \A n \in Nat : n + 0 + 0 = n
    OBVIOUS
  <2> QED
    BY <1>1, <1>2, <1>4, <2>1, <2>2 DEF EndInv, CurrentEnds
<1>8. CloseInv
  BY <1>1, <1>2 DEF CloseInv
<1> QED
  BY <1>6, <1>7, <1>8 DEF Counted

LEMMA JoinBeginsNext == Begins' => Counted'
BY JoinBegins, PTL

LEMMA InitInv == Init => IInv
<1> SUFFICES ASSUME Init PROVE IInv
  OBVIOUS
<1>1. <<>> \in Seq(Long) /\ <<>> \in Seq(Section)
  OBVIOUS
<1> QED
  BY <1>1 DEF Init, IInv, TypeInv, Joining

LEMMA CollectInv == IInv /\ Collect => IInv'
<1> SUFFICES ASSUME IInv, Collect PROVE IInv'
  OBVIOUS
<1>1. /\ TypeInv /\ stage = "collect" /\ current = <<>> /\ sections = <<>>
      /\ members' = members /\ current' = current /\ sections' = sections
      /\ inner' = Lines(members, "inner")
  BY DEF IInv, TypeInv, Collect
<1>2. members \in Inputs
  BY <1>1 DEF TypeInv
<1>3. Given("inner") = Compact(inner') /\ Given("outer") = Compact(Outer)
  BY <1>1 DEF Given, Outer
<1>4. \/ stage' \in {"failed", "panicked"} /\ segments' = segments
      \/ stage' \in {"inner", "outer"} /\ segments' = Given(stage')
  BY <1>3 DEF Collect
<1>5. Given(stage)' = Given(stage') /\ Lines(members, "inner")' = Lines(members, "inner")
  BY <1>1 DEF Given, Lines, Compact
<1>6. TypeInv'
  <2>1. segments' \in Seq(Long)
    BY <1>1, <1>2, <1>4, GivenTyped DEF TypeInv
  <2> QED
    BY <1>1, <1>2, <1>4, <1>5, <2>1 DEF TypeInv
<1>7. ASSUME Joining' PROVE Counted'
  <2>1. segments' = Given(stage)'
    BY <1>4, <1>5, <1>7 DEF Joining
  <2>2. members' \in Inputs /\ current' = <<>> /\ sections' = <<>>
    BY <1>1, <1>2
  <2> QED
    BY <2>1, <2>2, JoinBeginsNext DEF Begins
<1> QED
  BY <1>6, <1>7 DEF IInv

\* What the steps of join leave alone.
LEMMA SameGiven ==
  ASSUME UNCHANGED <<members, stage>>
  PROVE  Given(stage)' = Given(stage) /\ Joining' = Joining
BY DEF Given, Lines, Compact, Joining

LEMMA StartSectionInv == IInv /\ StartSection => IInv'
<1> SUFFICES ASSUME IInv, StartSection PROVE IInv'
  OBVIOUS
<1> DEFINE m == Last(segments)
<1>1. /\ TypeInv /\ Joining /\ EdgeInv /\ EndInv /\ CloseInv
      /\ current = <<>> /\ segments # <<>>
      /\ current' = <<m>> /\ segments' = Front(segments)
      /\ UNCHANGED <<members, stage, inner, sections, polygons>>
  BY DEF IInv, Counted, StartSection
<1>2. segments \in Seq(Long) /\ stage # "collect"
  BY <1>1 DEF TypeInv, Joining
<1>3. /\ m \in Long /\ Front(segments) \in Seq(Long)
      /\ \A e : Times(segments, e) = Times(Front(segments), e) + Times(<<m>>, e)
      /\ \A p : Ends(segments, p) = Ends(Front(segments), p) + Ends(<<m>>, p)
  BY <1>1, <1>2, TakenLast
<1> HIDE DEF m
<1>4. /\ <<m>> \in Section /\ FlattenSeq(<<m>>) = m
      /\ Head(Head(<<m>>)) = Head(m) /\ Last(Last(<<m>>)) = Last(m)
  BY <1>3, SectionOpens
<1>5. TypeInv'
  <2>1. First' = Head(Head(<<m>>)) /\ Last1' = Last(Last(<<m>>)) /\ FlattenSeq(current') = m
    BY <1>1, <1>4 DEF First, Last1
  <2> QED
    BY <1>1, <1>2, <1>3, <1>4, <2>1 DEF TypeInv, Lines
<1>6. Given(stage)' = Given(stage) /\ Flat(sections)' = Flat(sections)
  BY <1>1, SameGiven DEF Flat
<1>7. <<m>> \in Seq(Seq(Points)) /\ <<m>> \in Seq(Some)
  BY <1>3, LongIsSome
<1>8. \A e : Times(<<FlattenSeq(current)>>, e) = 0
  <2>1. FlattenSeq(current) = <<>> /\ <<>> \in Seq(Points) /\ Edges(<<>>) = <<>>
    BY <1>1, FlattenNone DEF Edges
  <2>2. \A e : Times(<<<<>>>>, e) = Hits(Edges(<<>>), {e})
    BY <2>1, TimesOne
  <2> QED
    BY <2>1, <2>2, HitsOne
<1>9. EdgeInv'
  <2>1. ASSUME NEW e
        PROVE  Times(segments', e) + Times(Flat(sections'), e) + Times(<<FlattenSeq(current')>>, e)
                 = Times(Given(stage)', e)
    <3>1. Times(segments, e) + Times(Flat(sections), e) + Times(<<FlattenSeq(current)>>, e)
            = Times(Given(stage), e)
      BY <1>1 DEF EdgeInv
    <3>2. Times(Flat(sections), e) \in Nat /\ Times(<<m>>, e) \in Nat
      BY <1>1, <1>7, Numbers, TimesNat
    <3>3. Times(Front(segments), e) \in Nat
      <4>1. Front(segments) \in Seq(Seq(Points))
        BY <1>3, LongIsSome, SeqMonotonic
      <4> QED
        BY <4>1, TimesNat
    <3>4. Times(Front(segments), e) + Times(Flat(sections), e) + Times(<<m>>, e)
            = Times(segments, e) + Times(Flat(sections), e) + Times(<<FlattenSeq(current)>>, e)
      BY <1>3, <1>8, <3>2, <3>3
    <3> QED
      BY <1>1, <1>4, <1>6, <3>1, <3>4
  <2> QED
    BY <2>1 DEF EdgeInv
<1>10. EndInv'
  <2>1. ASSUME NEW p
        PROVE  (Ends(segments', p) + Ends(Flat(sections'), p) + Ends(<<FlattenSeq(current')>>, p)) % 2
                 = Ends(Given(stage)', p) % 2
    <3>1. (Ends(segments, p) + Ends(Flat(sections), p) + 0) % 2 = Ends(Given(stage), p) % 2
      BY <1>1 DEF EndInv, CurrentEnds
    <3>2. Ends(Flat(sections), p) \in Nat /\ Ends(<<m>>, p) \in Nat
      BY <1>1, <1>7, Numbers, EndsNat
    <3>3. Ends(Front(segments), p) \in Nat
      <4>1. Front(segments) \in Seq(Some)
        BY <1>3, LongIsSome, SeqMonotonic
      <4> QED
        BY <4>1, EndsNat
    <3>4. Ends(Front(segments), p) + Ends(Flat(sections), p) + Ends(<<m>>, p)
            = Ends(segments, p) + Ends(Flat(sections), p) + 0
      BY <1>3, <3>2, <3>3
    <3> QED
      BY <1>1, <1>4, <1>6, <3>1, <3>4
  <2>2. current' # <<>>
    BY <1>1
  <2> QED
    BY <2>1, <2>2 DEF EndInv, CurrentEnds
<1>11. CloseInv'
  BY <1>1, <1>6 DEF CloseInv, Ends, Closed
<1> QED
  BY <1>5, <1>9, <1>10, <1>11 DEF IInv, Counted

\* A section c that came from the current one by joining a line.
Longer(c, line) ==
  /\ c \in Section
  /\ Head(Head(c)) = Head(FlattenSeq(c)) /\ Last(Last(c)) = Last(FlattenSeq(c))
  /\ Both(FlattenSeq(c), FlattenSeq(current), line)

LEMMA JoinedAfter ==
  ASSUME TypeInv, current # <<>>, NEW line \in Long, Last1 = Head(line)
  PROVE  Longer(Append(current, Tail(line)), line)
<1> DEFINE l == FlattenSeq(current)
           c == Append(current, Tail(line))
<1>1. current \in Section /\ First = Head(l) /\ Last1 = Last(l) /\ l \in Long
  BY DEF TypeInv, Section
<1> HIDE DEF l
<1>2. Last(l) = Head(line)
  BY <1>1
<1>3. /\ Tail(line) \in Some /\ l \o Tail(line) \in Long
      /\ Head(l \o Tail(line)) = Head(l) /\ Last(l \o Tail(line)) = Last(line)
      /\ Last(Tail(line)) = Last(line)
  BY <1>1, <1>2, JoinForward
<1>4. Both(l \o Tail(line), l, line)
  BY <1>1, <1>2, ForwardBoth
<1>5. /\ c \in Section /\ FlattenSeq(c) = l \o Tail(line)
      /\ Head(Head(c)) = Head(Head(current)) /\ Last(Last(c)) = Last(Tail(line))
  BY <1>1, <1>3, SectionGrows DEF l
<1>6. Head(Head(c)) = Head(FlattenSeq(c)) /\ Last(Last(c)) = Last(FlattenSeq(c))
  BY <1>1, <1>3, <1>5 DEF First
<1> QED
  BY <1>4, <1>5, <1>6 DEF Longer, l

LEMMA JoinedBefore ==
  ASSUME TypeInv, current # <<>>, NEW line \in Long, First = Last(line)
  PROVE  Longer(<<Front(line)>> \o current, line)
<1> DEFINE l == FlattenSeq(current)
           c == <<Front(line)>> \o current
<1>1. current \in Section /\ First = Head(l) /\ Last1 = Last(l) /\ l \in Long
  BY DEF TypeInv, Section
<1> HIDE DEF l
<1>2. Last(line) = Head(l)
  BY <1>1
<1>3. /\ Front(line) \in Some /\ Front(line) \o l = line \o Tail(l)
      /\ Head(Front(line)) = Head(line)
  BY <1>1, <1>2, JoinBackward
<1>4. /\ line \o Tail(l) \in Long
      /\ Head(line \o Tail(l)) = Head(line) /\ Last(line \o Tail(l)) = Last(l)
  BY <1>1, <1>2, JoinForward
<1>5. Both(line \o Tail(l), l, line)
  BY <1>1, <1>2, ForwardBoth, OrderOfBoth
<1>6. /\ c \in Section /\ FlattenSeq(c) = Front(line) \o l
      /\ Head(Head(c)) = Head(Front(line)) /\ Last(Last(c)) = Last(Last(current))
  BY <1>1, <1>3, <1>4, SectionGrows DEF l
<1>7. Head(Head(c)) = Head(FlattenSeq(c)) /\ Last(Last(c)) = Last(FlattenSeq(c))
  BY <1>1, <1>3, <1>4, <1>6 DEF Last1
<1> QED
  BY <1>3, <1>5, <1>6, <1>7 DEF Longer, l

LEMMA JoinedLonger ==
  ASSUME TypeInv, current # <<>>, NEW line \in Long, Fits(line)
  PROVE  Longer(Joined(line), line)
<1> DEFINE turned == Reverse(line)
<1>1. turned \in Long /\ Head(turned) = Last(line) /\ Last(turned) = Head(line)
  BY Turning
<1>2. FlattenSeq(current) \in Long
  BY DEF TypeInv, Section
<1> HIDE DEF turned
<1>3. ASSUME NEW c, Longer(c, turned) PROVE Longer(c, line)
  BY <1>2, <1>3, TurnedBoth DEF Longer, turned
<1>4. CASE Last1 = Head(line)
  <2>1. Longer(Append(current, Tail(line)), line)
    BY <1>4, JoinedAfter
  <2> QED
    BY <1>4, <2>1 DEF Joined
<1>5. CASE Last1 # Head(line) /\ Last1 = Last(line)
  <2>1. Longer(Append(current, Tail(turned)), turned)
    BY <1>1, <1>5, JoinedAfter
  <2>2. Joined(line) = Append(current, Tail(turned))
    BY <1>5 DEF Joined, turned
  <2> QED
    BY <1>3, <2>1, <2>2
<1>6. CASE Last1 # Head(line) /\ Last1 # Last(line) /\ First = Last(line)
  <2>1. Longer(<<Front(line)>> \o current, line)
    BY <1>6, JoinedBefore
  <2> QED
    BY <1>6, <2>1 DEF Joined
<1>7. CASE Last1 # Head(line) /\ Last1 # Last(line) /\ First # Last(line) /\ First = Head(line)
  <2>1. Longer(<<Front(turned)>> \o current, turned)
    BY <1>1, <1>7, JoinedBefore
  <2>2. Joined(line) = <<Front(turned)>> \o current
    BY <1>7 DEF Joined, turned
  <2> QED
    BY <1>3, <2>1, <2>2
<1> QED
  BY <1>4, <1>5, <1>6, <1>7 DEF Fits

LEMMA ExtendInv == IInv /\ Extend => IInv'
<1> SUFFICES ASSUME IInv, Extend PROVE IInv'
  OBVIOUS
<1> DEFINE i == CHOOSE i \in Fitting : \A j \in Fitting : i <= j
           m == segments[i]
           c == Joined(m)
           l == FlattenSeq(current)
           rest == RemoveAt(segments, i)
<1>1. /\ TypeInv /\ Joining /\ EdgeInv /\ EndInv /\ CloseInv
      /\ current # <<>> /\ Fitting # {}
      /\ current' = c /\ segments' = rest
      /\ UNCHANGED <<members, stage, inner, sections, polygons>>
  BY DEF IInv, Counted, Extend, Extensible
<1>2. /\ segments \in Seq(Long) /\ stage # "collect"
      /\ current \in Section /\ l \in Long
  BY <1>1 DEF TypeInv, Joining, Section
<1>3. i \in 1..Len(segments) /\ Fits(m)
  <2>1. Fitting \in SUBSET Nat /\ DOMAIN segments = 1..Len(segments)
    BY <1>2 DEF Fitting
  <2>2. \E x \in Fitting : \A y \in Fitting : x <= y
    BY <1>1, <2>1, Least
  <2>3. i \in Fitting
    BY <2>2
  <2> HIDE DEF i
  <2> QED
    BY <2>1, <2>3 DEF Fitting
<1> HIDE DEF i, c, rest
<1>4. /\ m \in Long /\ rest \in Seq(Long)
      /\ \A e : Times(segments, e) = Times(rest, e) + Times(<<m>>, e)
      /\ \A p : Ends(segments, p) = Ends(rest, p) + Ends(<<m>>, p)
  BY <1>2, <1>3, Taken DEF rest
<1> HIDE DEF m
<1>5. Longer(c, m)
  BY <1>1, <1>3, <1>4, JoinedLonger DEF c
<1> DEFINE j == FlattenSeq(c)
<1>6. /\ c \in Section /\ c # <<>>
      /\ Head(Head(c)) = Head(j) /\ Last(Last(c)) = Last(j)
      /\ \A e : Times(<<j>>, e) = Times(<<l>>, e) + Times(<<m>>, e)
      /\ \A p : Ends(<<j>>, p) % 2 = (Ends(<<l>>, p) + Ends(<<m>>, p)) % 2
      /\ j \in Long
  BY <1>5 DEF Longer, Both, Section
<1> HIDE DEF j, l
<1>7. TypeInv'
  <2>1. First' = Head(Head(c)) /\ Last1' = Last(Last(c)) /\ FlattenSeq(current') = j
    BY <1>1 DEF First, Last1, j
  <2> QED
    BY <1>1, <1>2, <1>4, <1>6, <2>1 DEF TypeInv, Lines
<1>8. Given(stage)' = Given(stage) /\ Flat(sections)' = Flat(sections)
  BY <1>1, SameGiven DEF Flat
<1>9. /\ <<m>> \in Seq(Seq(Points)) /\ <<m>> \in Seq(Some)
      /\ <<l>> \in Seq(Seq(Points)) /\ <<l>> \in Seq(Some)
      /\ <<j>> \in Seq(Seq(Points)) /\ <<j>> \in Seq(Some)
      /\ rest \in Seq(Seq(Points)) /\ rest \in Seq(Some)
  BY <1>2, <1>4, <1>6, LongIsSome, SeqMonotonic
<1>10. EdgeInv'
  <2>1. ASSUME NEW e
        PROVE  Times(segments', e) + Times(Flat(sections'), e) + Times(<<FlattenSeq(current')>>, e)
                 = Times(Given(stage)', e)
    <3>1. Times(segments, e) + Times(Flat(sections), e) + Times(<<l>>, e) = Times(Given(stage), e)
      BY <1>1 DEF EdgeInv, l
    <3>2. /\ Times(Flat(sections), e) \in Nat /\ Times(<<m>>, e) \in Nat /\ Times(<<l>>, e) \in Nat
          /\ Times(rest, e) \in Nat
      BY <1>1, <1>9, Numbers, TimesNat
    <3>3. Times(rest, e) + Times(Flat(sections), e) + Times(<<j>>, e)
            = Times(segments, e) + Times(Flat(sections), e) + Times(<<l>>, e)
      BY <1>4, <1>6, <3>2
    <3> QED
      BY <1>1, <1>8, <3>1, <3>3 DEF j
  <2> QED
    BY <2>1 DEF EdgeInv
<1>11. EndInv'
  <2>1. ASSUME NEW p
        PROVE  (Ends(segments', p) + Ends(Flat(sections'), p) + Ends(<<FlattenSeq(current')>>, p)) % 2
                 = Ends(Given(stage)', p) % 2
    <3>1. (Ends(segments, p) + Ends(Flat(sections), p) + Ends(<<l>>, p)) % 2 = Ends(Given(stage), p) % 2
      BY <1>1 DEF EndInv, CurrentEnds, l
    <3>2. /\ Ends(Flat(sections), p) \in Nat /\ Ends(<<m>>, p) \in Nat /\ Ends(<<l>>, p) \in Nat
          /\ Ends(rest, p) \in Nat /\ Ends(<<j>>, p) \in Nat
      BY <1>1, <1>9, Numbers, EndsNat
    <3>3. /\ Ends(segments, p) = Ends(rest, p) + Ends(<<m>>, p)
          /\ Ends(<<j>>, p) % 2 = (Ends(<<l>>, p) + Ends(<<m>>, p)) % 2
      BY <1>4, <1>6
    <3>4. (Ends(rest, p) + Ends(Flat(sections), p) + Ends(<<j>>, p)) % 2
            = (Ends(segments, p) + Ends(Flat(sections), p) + Ends(<<l>>, p)) % 2
      <4> DEFINE r == Ends(rest, p)
                 f == Ends(Flat(sections), p)
                 x == Ends(<<j>>, p)
                 y == Ends(<<l>>, p)
                 z == Ends(<<m>>, p)
                 s == Ends(segments, p)
      <4>1. /\ r \in Nat /\ f \in Nat /\ x \in Nat /\ y \in Nat /\ z \in Nat
            /\ s = r + z /\ x % 2 = (y + z) % 2
        BY <3>2, <3>3
      <4> HIDE DEF r, f, x, y, z, s
      <4>2. (r + f + x) % 2 = (s + f + y) % 2
        BY <4>1
      <4> QED
        BY <4>2 DEF r, f, x, y, s
    <3> QED
      BY <1>1, <1>8, <3>1, <3>4 DEF j
  <2>2. current' # <<>>
    BY <1>1, <1>6
  <2> QED
    BY <2>1, <2>2 DEF EndInv, CurrentEnds
<1>12. CloseInv'
  BY <1>1, <1>8 DEF CloseInv, Ends, Closed
<1> QED
  BY <1>7, <1>10, <1>11, <1>12 DEF IInv, Counted

LEMMA EndSectionInv == IInv /\ EndSection => IInv'
<1> SUFFICES ASSUME IInv, EndSection PROVE IInv'
  OBVIOUS
<1> DEFINE l == FlattenSeq(current)
<1>1. /\ TypeInv /\ Joining /\ EdgeInv /\ EndInv /\ CloseInv
      /\ current # <<>> /\ (First = Last1 \/ Fitting = {})
      /\ current' = <<>> /\ sections' = Append(sections, current)
      /\ UNCHANGED <<members, stage, inner, segments, polygons>>
  BY DEF IInv, Counted, EndSection, Extensible
<1>2. /\ segments \in Seq(Long) /\ sections \in Seq(Section) /\ stage # "collect"
      /\ current \in Section /\ l \in Long
      /\ First = Head(l) /\ Last1 = Last(l)
  BY <1>1 DEF TypeInv, Joining, Section
<1>3. /\ sections' \in Seq(Section)
      /\ Flat(sections') = Flat(sections) \o <<l>>
      /\ \A e : Times(Flat(sections'), e) = Times(Flat(sections), e) + Times(<<l>>, e)
      /\ \A p : Ends(Flat(sections'), p) = Ends(Flat(sections), p) + Ends(<<l>>, p)
  BY <1>1, <1>2, FlatAppend
<1> HIDE DEF l
<1>4. TypeInv'
  BY <1>1, <1>2, <1>3 DEF TypeInv, Lines
<1>5. Given(stage)' = Given(stage)
  BY <1>1, SameGiven
<1>6. FlattenSeq(current') = <<>> /\ \A e : Times(<<<<>>>>, e) = 0
  <2>1. FlattenSeq(current') = <<>> /\ <<>> \in Seq(Points) /\ Edges(<<>>) = <<>>
    BY <1>1, FlattenNone DEF Edges
  <2>2. \A e : Times(<<<<>>>>, e) = Hits(Edges(<<>>), {e})
    BY <2>1, TimesOne
  <2> QED
    BY <2>1, <2>2, HitsOne
<1>7. /\ <<l>> \in Seq(Seq(Points)) /\ <<l>> \in Seq(Some) /\ l \in Some
  BY <1>2, LongIsSome
<1>8. EdgeInv'
  <2>1. ASSUME NEW e
        PROVE  Times(segments', e) + Times(Flat(sections'), e) + Times(<<FlattenSeq(current')>>, e)
                 = Times(Given(stage)', e)
    <3>1. Times(segments, e) + Times(Flat(sections), e) + Times(<<l>>, e) = Times(Given(stage), e)
      BY <1>1 DEF EdgeInv, l
    <3>2. Times(segments, e) \in Nat /\ Times(Flat(sections), e) \in Nat /\ Times(<<l>>, e) \in Nat
      BY <1>1, <1>7, Numbers, TimesNat
    <3>3. Times(segments, e) + Times(Flat(sections'), e) + 0
            = Times(segments, e) + Times(Flat(sections), e) + Times(<<l>>, e)
      BY <1>3, <3>2
    <3> QED
      BY <1>1, <1>5, <1>6, <3>1, <3>3
  <2> QED
    BY <2>1 DEF EdgeInv
<1>9. EndInv'
  <2>1. ASSUME NEW p
        PROVE  (Ends(segments', p) + Ends(Flat(sections'), p) + 0) % 2 = Ends(Given(stage)', p) % 2
    <3>1. (Ends(segments, p) + Ends(Flat(sections), p) + Ends(<<l>>, p)) % 2 = Ends(Given(stage), p) % 2
      BY <1>1 DEF EndInv, CurrentEnds, l
    <3>2. Ends(segments, p) \in Nat /\ Ends(Flat(sections), p) \in Nat /\ Ends(<<l>>, p) \in Nat
      BY <1>1, <1>7, Numbers, EndsNat
    <3>3. Ends(segments, p) + Ends(Flat(sections'), p) + 0
            = Ends(segments, p) + Ends(Flat(sections), p) + Ends(<<l>>, p)
      BY <1>3, <3>2
    <3> QED
      BY <1>1, <1>5, <3>1, <3>3
  <2> QED
    BY <1>1, <2>1 DEF EndInv, CurrentEnds
<1>10. CloseInv'
  <2> SUFFICES ASSUME \A p : Ends(Given(stage), p) % 2 = 0
               PROVE  \A i \in DOMAIN Flat(sections') : Closed(Flat(sections')[i])
    BY <1>5 DEF CloseInv
  <2>1. \A i \in DOMAIN Flat(sections) : Closed(Flat(sections)[i])
    BY <1>1 DEF CloseInv
  <2>2. Closed(l)
    <3> SUFFICES ASSUME ~Closed(l) PROVE FALSE
      OBVIOUS
    <3>1. Head(l) = l[1] /\ Last(l) = l[Len(l)]
      BY <1>2 DEF Long, Last
    <3>2. Head(l) # Last(l) /\ Fitting = {}
      BY <1>1, <1>2, <3>1 DEF Closed
    <3> DEFINE p == Head(l)
    <3>3. Ends(segments, p) = 0
      <4>1. \A i \in DOMAIN segments : Head(segments[i]) # p /\ Last(segments[i]) # p
        BY <1>2, <3>2 DEF Fitting, Fits
      <4> HIDE DEF p
      <4> DEFINE heads == {i \in DOMAIN segments : Head(segments[i]) = p}
                 lasts == {i \in DOMAIN segments : Last(segments[i]) = p}
      <4>2. Cardinality(heads) = 0 /\ Cardinality(lasts) = 0
        <5>1. heads = {} /\ lasts = {}
          BY <4>1
        <5> QED
          BY <5>1, FS_EmptySet
      <4>3. Ends(segments, p) = Cardinality(heads) + Cardinality(lasts)
        BY DEF Ends
      <4> HIDE DEF heads, lasts
      <4> QED
        BY <4>2, <4>3
    <3>4. Ends(<<l>>, p) = 1
      BY <1>7, <3>2, EndsOne
    <3> HIDE DEF p
    <3>5. Ends(Flat(sections), p) % 2 = 0 /\ Ends(Flat(sections), p) \in Nat
      BY <1>1, <2>1, Numbers, ClosedEnds
    <3>6. (Ends(segments, p) + Ends(Flat(sections), p) + Ends(<<l>>, p)) % 2 = Ends(Given(stage), p) % 2
      BY <1>1 DEF EndInv, CurrentEnds, l
    <3>7. Ends(Given(stage), p) % 2 = 0
      OBVIOUS
    <3>8. (0 + Ends(Flat(sections), p) + 1) % 2 = 0
      BY <3>3, <3>4, <3>6, <3>7
    <3> QED
      BY <3>5, <3>8
  <2>3. Flat(sections) \in Seq(Long)
    BY <1>1, Numbers
  <2> DEFINE n == Len(Flat(sections))
  <2>4. n \in Nat /\ DOMAIN Flat(sections) = 1..n
    BY <2>3
  <2>5. Flat(sections') = Append(Flat(sections), l)
    BY <1>2, <1>3, <2>3, AppendIsConcat
  <2>6. /\ Append(Flat(sections), l) \in Seq(Long) /\ Len(Append(Flat(sections), l)) = n + 1
        /\ \A i \in 1..n : Append(Flat(sections), l)[i] = Flat(sections)[i]
        /\ Append(Flat(sections), l)[n + 1] = l
    BY <1>2, <2>3, AppendProperties
  <2> HIDE DEF n
  <2>7. DOMAIN Append(Flat(sections), l) = 1..n + 1 /\ \A i \in 1..n + 1 : i \in 1..n \/ i = n + 1
    BY <2>4, <2>6
  <2> QED
    BY <2>1, <2>2, <2>4, <2>5, <2>6, <2>7
<1> QED
  BY <1>4, <1>8, <1>9, <1>10 DEF IInv, Counted

LEMMA OuterJoinedInv == IInv /\ OuterJoined => IInv'
<1> SUFFICES ASSUME IInv, OuterJoined PROVE IInv'
  OBVIOUS
<1>1. /\ TypeInv /\ stage = "outer" /\ current = <<>>
      /\ stage' \in {"failed", "inner"}
      /\ segments' = Compact(inner) /\ sections' = <<>>
      /\ UNCHANGED <<members, inner, current>>
  BY DEF IInv, OuterJoined, JoinEnds
<1>2. members \in Inputs /\ inner = Lines(members, "inner")
  BY <1>1 DEF TypeInv
<1>3. Compact(inner) = Given("inner") /\ Given(stage)' = Given(stage')
  BY <1>1, <1>2 DEF Given, Lines, Compact
<1>4. TypeInv'
  <2>1. segments' \in Seq(Long) /\ sections' \in Seq(Section)
    BY <1>1, <1>2, <1>3, GivenTyped
  <2> QED
    BY <1>1, <1>2, <2>1 DEF TypeInv, Lines
<1>5. ASSUME Joining' PROVE Counted'
  <2>1. segments' = Given(stage)' /\ members' \in Inputs /\ current' = <<>> /\ sections' = <<>>
    BY <1>1, <1>2, <1>3, <1>5 DEF Joining
  <2> QED
    BY <2>1, JoinBeginsNext DEF Begins
<1> QED
  BY <1>4, <1>5 DEF IInv

\* The steps after the joins.
LEMMA AfterInv == IInv /\ (InnerJoined \/ Attach \/ Build) => IInv'
<1> SUFFICES ASSUME IInv, InnerJoined \/ Attach \/ Build PROVE IInv'
  OBVIOUS
<1>1. /\ TypeInv /\ stage # "collect" /\ stage' \in {"attach", "built"}
      /\ UNCHANGED <<members, inner, segments, current>>
  <2>1. CASE InnerJoined
    BY <2>1 DEF IInv, InnerJoined
  <2>2. CASE Attach
    BY <2>2 DEF IInv, Attach
  <2>3. CASE Build
    BY <2>3 DEF IInv, Build
  <2> QED
    BY <2>1, <2>2, <2>3
<1>2. sections' \in Seq(Section)
  <2>1. sections \in Seq(Section)
    BY <1>1 DEF TypeInv
  <2>2. CASE InnerJoined \/ Build
    BY <2>1, <2>2 DEF InnerJoined, Build
  <2>3. CASE Attach
    <3>1. sections # <<>> /\ sections' = Tail(sections)
      BY <2>3 DEF Attach
    <3> QED
      BY <2>1, <3>1
  <2> QED
    BY <2>2, <2>3
<1>3. TypeInv'
  BY <1>1, <1>2 DEF TypeInv, Lines, First, Last1
<1>4. ~Joining'
  BY <1>1 DEF Joining
<1> QED
  BY <1>3, <1>4 DEF IInv

LEMMA StutterInv == IInv /\ UNCHANGED vars => IInv'
<1> SUFFICES ASSUME IInv, UNCHANGED vars PROVE IInv'
  OBVIOUS
<1>1. UNCHANGED <<members, stage, inner, segments, current, sections>>
  BY DEF vars
<1>2. /\ Given(stage)' = Given(stage) /\ Joining' = Joining
      /\ First' = First /\ Last1' = Last1 /\ Lines(members, "inner")' = Lines(members, "inner")
  BY <1>1, SameGiven DEF First, Last1, Lines
<1>3. TypeInv'
  BY <1>1, <1>2 DEF IInv, TypeInv
<1>4. ASSUME Joining PROVE Counted'
  <2>1. EdgeInv /\ EndInv /\ CloseInv
    BY <1>4 DEF IInv, Counted
  <2>2. Flat(sections)' = Flat(sections) /\ FlattenSeq(current)' = FlattenSeq(current)
    BY <1>1 DEF Flat
  <2>3. EdgeInv'
    BY <1>1, <1>2, <2>1, <2>2 DEF EdgeInv
  <2>4. EndInv'
    BY <1>1, <1>2, <2>1, <2>2 DEF EndInv, CurrentEnds
  <2>5. CloseInv'
    BY <1>1, <1>2, <2>1, <2>2 DEF CloseInv
  <2> QED
    BY <2>3, <2>4, <2>5 DEF Counted
<1> QED
  BY <1>2, <1>3, <1>4 DEF IInv

LEMMA StepInv == IInv /\ [Next]_vars => IInv'
BY CollectInv, StartSectionInv, ExtendInv, EndSectionInv, OuterJoinedInv, AfterInv, StutterInv
   DEF Next

\* The inductive invariant of both joins (geommaker.go:208).
THEOREM JoinInvariant == Spec => []IInv
BY InitInv, StepInv, PTL DEF Spec

-----------------------------------------------------------------------------
(* The properties.                                                         *)

LEMMA KeptEdges == IInv => EdgesKept
<1> SUFFICES ASSUME IInv, Joining
             PROVE  EdgeBag(segments \o Flat(sections) \o <<FlattenSeq(current)>>)
                      = EdgeBag(Given(stage))
  BY DEF EdgesKept
<1> DEFINE l == FlattenSeq(current)
           two == segments \o Flat(sections)
           all == two \o <<l>>
<1>1. TypeInv /\ EdgeInv
  BY DEF IInv, Counted
<1>2. members \in Inputs /\ segments \in Seq(Long) /\ Flat(sections) \in Seq(Long) /\ l \in Seq(Points)
  BY <1>1, Numbers DEF TypeInv
<1> HIDE DEF l
<1>3. Long \subseteq Seq(Points)
  BY LongIsSome
<1>4. /\ segments \in Seq(Seq(Points)) /\ Flat(sections) \in Seq(Seq(Points))
      /\ <<l>> \in Seq(Seq(Points)) /\ Given(stage) \in Seq(Seq(Points))
  BY <1>2, <1>3, GivenTyped, SeqMonotonic
<1>5. two \in Seq(Seq(Points)) /\ all \in Seq(Seq(Points))
  BY <1>4, ConcatProperties
<1>6. ASSUME NEW e PROVE Times(all, e) = Times(Given(stage), e)
  <2>1. Times(two, e) = Times(segments, e) + Times(Flat(sections), e)
    BY <1>4, TimesConcat
  <2>2. Times(all, e) = Times(two, e) + Times(<<l>>, e)
    <3> DEFINE one == <<l>>
    <3>1. two \in Seq(Seq(Points)) /\ one \in Seq(Seq(Points))
      BY <1>4, <1>5
    <3> HIDE DEF two, one
    <3>2. Times(two \o one, e) = Times(two, e) + Times(one, e)
      BY <3>1, TimesConcat
    <3> QED
      BY <3>2 DEF one
  <2>3. Times(segments, e) + Times(Flat(sections), e) + Times(<<l>>, e) = Times(Given(stage), e)
    BY <1>1 DEF EdgeInv, l
  <2> HIDE DEF all
  <2> QED
    BY <2>1, <2>2, <2>3
<1> HIDE DEF all
<1>7. EdgeBag(all) = EdgeBag(Given(stage))
  BY <1>4, <1>5, <1>6, SameBag
<1> QED
  BY <1>7 DEF all, two, l

(***************************************************************************)
(* join (geommaker.go:208) loses no edge of a way, takes none twice and    *)
(* makes none up, whatever it reverses, prepends and shifts, for any       *)
(* relation: closed ways, ways that cross themselves, that share a point   *)
(* of three or more, or that are given twice.                              *)
(***************************************************************************)
THEOREM EdgesAlwaysKept == Spec => []EdgesKept
BY JoinInvariant, KeptEdges, PTL

LEMMA ClosedSections == IInv => SectionsClose
<1> SUFFICES ASSUME IInv, Joining, JoinEnds,
                    \A p \in EndPoints(Given(stage)) : Ends(Given(stage), p) % 2 = 0
             PROVE  \A i \in DOMAIN sections : Closed(FlattenSeq(sections[i]))
  BY DEF SectionsClose
<1> DEFINE ls == Given(stage)
<1>1. TypeInv /\ CloseInv
  BY DEF IInv, Counted
<1>2. \A p : Ends(ls, p) % 2 = 0
  <2> TAKE p
  <2>1. CASE p \in EndPoints(ls)
    BY <2>1
  <2>2. CASE p \notin EndPoints(ls)
    <3> HIDE DEF ls
    <3>1. {i \in DOMAIN ls : Head(ls[i]) = p} = {} /\ {i \in DOMAIN ls : Last(ls[i]) = p} = {}
      BY <2>2 DEF EndPoints
    <3>2. Cardinality({}) = 0
      BY FS_EmptySet
    <3>3. (0 + 0) % 2 = 0
      OBVIOUS
    <3> QED
      BY <3>1, <3>2, <3>3 DEF Ends
  <2> QED
    BY <2>1, <2>2
<1>3. \A i \in DOMAIN Flat(sections) : Closed(Flat(sections)[i])
  BY <1>1, <1>2 DEF CloseInv
<1> QED
  BY <1>3 DEF Flat

(***************************************************************************)
(* If the ends of the ways match up, so that every point is the end of an  *)
(* even number of them, taking the first way that fits (geommaker.go:224)  *)
(* is as good as any choice: whatever is left out of a section can still   *)
(* be closed, and no section is given up as dangling (geommaker.go:260).   *)
(***************************************************************************)
THEOREM SectionsAlwaysClose == Spec => []SectionsClose
BY JoinInvariant, ClosedSections, PTL

-----------------------------------------------------------------------------
(* The multipolygon.                                                       *)

Polygon == {p \in Seq(Seq(Points)) : p # <<>>}

\* No outer ring of a multipolygon is open, and where one is missing the inner
\* rings are in none of them.
Outlined(mp) == \A i \in DOMAIN mp : mp[i][1] = <<>> \/ ValidRing(mp[i][1])
Unheld(mp) ==
  \A i \in DOMAIN mp : mp[i][1] = <<>> =>
    \A k \in 2..Len(mp[i]), j \in DOMAIN mp : ~PolygonContains(mp[j][1], mp[i][k])
Whole(mp) == mp \in Seq(Polygon) /\ Outlined(mp) /\ Unheld(mp)

LEMMA NothingContains == \A ring : ~PolygonContains(<<>>, ring)
<1> SUFFICES ASSUME NEW ring, PolygonContains(<<>>, ring) PROVE FALSE
  OBVIOUS
<1> DEFINE hit(k) == {i \in DOMAIN <<>> :
             Crosses(ring[k], (<<>>)[i], (<<>>)[IF i = 1 THEN Len(<<>>) ELSE i - 1])}
<1>1. PICK k \in DOMAIN ring : Cardinality(hit(k)) % 2 = 1
  BY DEF PolygonContains
<1>2. hit(k) = {}
  OBVIOUS
<1> HIDE DEF hit
<1>3. Cardinality(hit(k)) = 0
  BY <1>2, FS_EmptySet
<1> QED
  BY <1>1, <1>3

LEMMA RingTyped ==
  ASSUME NEW section, FlattenSeq(section) \in Seq(Points), NEW o
  PROVE  Ring(section, o) \in Seq(Points)
<1> DEFINE line == FlattenSeq(section)
<1>1. line \in Seq(Points) /\ Len(line) \in Nat /\ \A i \in 1..Len(line) : line[i] \in Points
  OBVIOUS
<1>2. Ring(section, o) = line \/ Ring(section, o) = Reverse(line)
  BY DEF Ring
<1> HIDE DEF line
<1>3. Reverse(line) \in Seq(Points)
  <2>1. Reverse(line) = [i \in 1..Len(line) |-> line[(Len(line) - i) + 1]]
    BY DEF Reverse
  <2>2. \A i \in 1..Len(line) : (Len(line) - i) + 1 \in 1..Len(line)
    BY <1>1
  <2> QED
    BY <1>1, <2>1, <2>2
<1> QED
  BY <1>1, <1>2, <1>3

LEMMA NonePolygon == Whole(<<>>)
<1>1. <<>> \in Seq(Polygon) /\ DOMAIN <<>> = {}
  OBVIOUS
<1> QED
  BY <1>1 DEF Whole, Outlined, Unheld

\* The multipolygon of rings alone.
LEMMA RingsWhole ==
  ASSUME NEW rings, rings \in Seq({r \in Seq(Points) : ValidRing(r)})
  PROVE  Whole([i \in DOMAIN rings |-> <<rings[i]>>])
<1> DEFINE mp == [i \in DOMAIN rings |-> <<rings[i]>>]
<1>1. /\ DOMAIN rings = 1..Len(rings) /\ Len(rings) \in Nat
      /\ \A i \in DOMAIN rings : rings[i] \in Seq(Points) /\ ValidRing(rings[i])
  OBVIOUS
<1>2. DOMAIN mp = 1..Len(rings) /\ \A i \in DOMAIN rings : mp[i] = <<rings[i]>>
  BY <1>1
<1>3. ASSUME NEW i \in DOMAIN rings
      PROVE  mp[i] \in Polygon /\ mp[i][1] = rings[i] /\ ValidRing(mp[i][1]) /\ Len(mp[i]) = 1
  <2> DEFINE r == rings[i]
  <2>1. mp[i] = <<r>> /\ r \in Seq(Points) /\ ValidRing(r)
    BY <1>1, <1>2
  <2> HIDE DEF r, mp
  <2>2. <<r>> \in Seq(Seq(Points)) /\ <<r>> # <<>> /\ <<r>>[1] = r /\ Len(<<r>>) = 1
    BY <2>1
  <2>3. mp[i] \in Polygon /\ mp[i][1] = r /\ ValidRing(mp[i][1]) /\ Len(mp[i]) = 1
    BY <2>1, <2>2 DEF Polygon
  <2> QED
    BY <2>3 DEF r
<1>4. mp \in Seq(Polygon)
  BY <1>1, <1>2, <1>3
<1> HIDE DEF mp
<1>5. Outlined(mp)
  BY <1>1, <1>2, <1>3 DEF Outlined
<1>6. Unheld(mp)
  <2>1. \A i \in DOMAIN mp : Len(mp[i]) = 1
    BY <1>1, <1>2, <1>3
  <2>2. 2..1 = {}
    OBVIOUS
  <2> QED
    BY <2>1, <2>2 DEF Unheld
<1>7. Whole(mp)
  BY <1>4, <1>5, <1>6 DEF Whole
<1> QED
  BY <1>7 DEF mp

\* A ring more in one polygon.
Added(mp, a, ring) == [mp EXCEPT ![a] = Append(@, ring)]

LEMMA AddedWhole ==
  ASSUME NEW mp, Whole(mp), NEW ring \in Seq(Points), NEW a \in DOMAIN mp,
         mp[a][1] = <<>> => \A j \in DOMAIN mp : ~PolygonContains(mp[j][1], ring)
  PROVE  /\ Whole(Added(mp, a, ring)) /\ DOMAIN Added(mp, a, ring) = DOMAIN mp
         /\ \A i \in DOMAIN mp : Added(mp, a, ring)[i][1] = mp[i][1]
<1> DEFINE new == Added(mp, a, ring)
<1>1. mp \in Seq(Polygon) /\ Outlined(mp) /\ Unheld(mp)
  BY DEF Whole
<1>2. /\ DOMAIN mp = 1..Len(mp) /\ Len(mp) \in Nat
      /\ \A i \in DOMAIN mp : mp[i] \in Polygon
  BY <1>1
<1>3. mp[a] \in Seq(Seq(Points)) /\ mp[a] # <<>>
  BY <1>2 DEF Polygon
<1>4. DOMAIN new = DOMAIN mp /\ new[a] = Append(mp[a], ring) /\ \A i \in DOMAIN mp : i # a => new[i] = mp[i]
  BY <1>1 DEF Added
<1> HIDE DEF new
<1> DEFINE p == mp[a]
           q == Append(p, ring)
<1>5. p \in Seq(Seq(Points)) /\ p # <<>>
  BY <1>3
<1>6. new[a] = q
  BY <1>4
<1> HIDE DEF p
<1>7. /\ q \in Polygon /\ q[1] = p[1] /\ Len(q) = Len(p) + 1 /\ Len(p) \in Nat
      /\ \A k \in 1..Len(p) : q[k] = p[k]
      /\ q[Len(p) + 1] = ring
  <2>1. /\ q \in Seq(Seq(Points)) /\ Len(q) = Len(p) + 1 /\ Len(p) \in Nat
        /\ \A k \in 1..Len(p) : q[k] = p[k]
        /\ q[Len(p) + 1] = ring
    BY <1>5, AppendProperties
  <2>2. 1 \in 1..Len(p)
    BY <1>5
  <2> HIDE DEF q
  <2>3. q # <<>>
    BY <2>1
  <2> QED
    BY <2>1, <2>2, <2>3 DEF Polygon
<1> HIDE DEF q
<1>8. \A i \in DOMAIN mp : new[i][1] = mp[i][1] /\ new[i] \in Polygon
  <2> TAKE i \in DOMAIN mp
  <2>1. CASE i = a
    BY <1>6, <1>7, <2>1 DEF p
  <2>2. CASE i # a
    BY <1>2, <1>4, <2>2
  <2> QED
    BY <2>1, <2>2
<1>9. new \in Seq(Polygon)
  <2>1. new = [i \in 1..Len(mp) |-> new[i]]
    BY <1>2, <1>4 DEF new, Added
  <2> QED
    BY <1>2, <1>8, <2>1
<1>10. Outlined(new)
  BY <1>1, <1>4, <1>8 DEF Outlined
<1>11. Unheld(new)
  <2> SUFFICES ASSUME NEW i \in DOMAIN mp, mp[i][1] = <<>>, NEW k \in 2..Len(new[i]),
                      NEW j \in DOMAIN mp
               PROVE  ~PolygonContains(mp[j][1], new[i][k])
    BY <1>4, <1>8 DEF Unheld
  <2>1. CASE i # a
    BY <1>1, <1>4, <2>1 DEF Unheld
  <2>2. CASE i = a
    <3>1. k \in 2..Len(p) \/ k = Len(p) + 1
      BY <1>6, <1>7, <2>2
    <3>2. CASE k = Len(p) + 1
      BY <1>6, <1>7, <2>2, <3>2
    <3>3. CASE k \in 2..Len(p)
      <4>1. new[i][k] = mp[i][k] /\ k \in 2..Len(mp[i])
        BY <1>6, <1>7, <2>2, <3>3 DEF p
      <4> QED
        BY <1>1, <4>1 DEF Unheld
    <3> QED
      BY <3>1, <3>2, <3>3
  <2> QED
    BY <2>1, <2>2
<1>12. Whole(new)
  BY <1>9, <1>10, <1>11 DEF Whole
<1> QED
  BY <1>4, <1>8, <1>12 DEF new

\* A polygon more, without an outer ring.
LEMMA BareWhole ==
  ASSUME NEW mp, Whole(mp), NEW ring \in Seq(Points),
         \A j \in DOMAIN mp : ~PolygonContains(mp[j][1], ring)
  PROVE  Whole(Append(mp, <<<<>>, ring>>))
<1> DEFINE p == <<<<>>, ring>>
           new == Append(mp, p)
           n == Len(mp)
<1>1. mp \in Seq(Polygon) /\ Outlined(mp) /\ Unheld(mp)
  BY DEF Whole
<1>2. p \in Polygon /\ p[1] = <<>> /\ p[2] = ring /\ Len(p) = 2
  BY DEF Polygon
<1>3. n \in Nat /\ DOMAIN mp = 1..n
  BY <1>1
<1> HIDE DEF p
<1>4. /\ new \in Seq(Polygon) /\ Len(new) = n + 1 /\ DOMAIN new = 1..n + 1
      /\ \A i \in 1..n : new[i] = mp[i]
      /\ new[n + 1] = p
  BY <1>1, <1>2
<1> HIDE DEF n, new
<1>5. \A i \in DOMAIN new : (i \in DOMAIN mp /\ new[i] = mp[i]) \/ new[i] = p
  BY <1>3, <1>4
<1>6. Outlined(new)
  BY <1>1, <1>2, <1>5 DEF Outlined
<1>7. Unheld(new)
  <2> SUFFICES ASSUME NEW i \in DOMAIN new, new[i][1] = <<>>, NEW k \in 2..Len(new[i]),
                      NEW j \in DOMAIN new
               PROVE  ~PolygonContains(new[j][1], new[i][k])
    BY DEF Unheld
  <2>1. CASE new[j] = p
    BY <1>2, <2>1, NothingContains
  <2>2. CASE j \in DOMAIN mp /\ new[j] = mp[j]
    <3>1. CASE i \in DOMAIN mp /\ new[i] = mp[i]
      BY <1>1, <2>2, <3>1 DEF Unheld
    <3>2. CASE new[i] = p
      <4>1. Len(new[i]) = 2
        BY <1>2, <3>2
      <4>2. k = 2
        BY <4>1
      <4> QED
        BY <1>2, <2>2, <3>2, <4>2
    <3> QED
      BY <1>5, <3>1, <3>2
  <2> QED
    BY <1>5, <2>1, <2>2
<1>8. Whole(new)
  BY <1>4, <1>6, <1>7 DEF Whole
<1> QED
  BY <1>8 DEF new, p

LEMMA AddToWhole ==
  ASSUME NEW mp, Whole(mp), NEW ring \in Seq(Points)
  PROVE  Whole(AddTo(mp, ring))
<1> DEFINE holders == {i \in DOMAIN mp : PolygonContains(mp[i][1], ring)}
           bare == {i \in DOMAIN mp : mp[i][1] = <<>>}
           first(S) == CHOOSE i \in S : \A j \in S : i <= j
           add(i) == Added(mp, i, ring)
<1>1. mp \in Seq(Polygon) /\ Outlined(mp)
  BY DEF Whole
<1>2. DOMAIN mp = 1..Len(mp) /\ Len(mp) \in Nat
  BY <1>1
<1>3. ASSUME NEW S \in SUBSET DOMAIN mp, S # {} PROVE first(S) \in S
  <2>1. S \in SUBSET Nat
    BY <1>2
  <2>2. \E i \in S : \A j \in S : i <= j
    BY <1>3, <2>1, Least
  <2> QED
    BY <2>2
<1>4. holders \in SUBSET DOMAIN mp /\ bare \in SUBSET DOMAIN mp
  OBVIOUS
<1>5. ~(mp # <<>> /\ mp[1][1] # <<>> /\ ~Closed(mp[1][1]))
  <2> SUFFICES ASSUME mp # <<>>, mp[1][1] # <<>> PROVE Closed(mp[1][1])
    OBVIOUS
  <2>1. 1 \in DOMAIN mp
    BY <1>1, <1>2
  <2> QED
    BY <1>1, <2>1 DEF Outlined, ValidRing
<1>6. AddTo(mp, ring) = IF holders # {} THEN add(first(holders))
                        ELSE IF bare # {} THEN add(first(bare))
                        ELSE Append(mp, <<<<>>, ring>>)
  BY <1>5 DEF AddTo, Added
<1>7. CASE holders # {}
  <2> DEFINE a == first(holders)
  <2>1. a \in holders
    BY <1>3, <1>4, <1>7
  <2>2. a \in DOMAIN mp /\ PolygonContains(mp[a][1], ring)
    BY <2>1
  <2>3. AddTo(mp, ring) = add(a)
    BY <1>6, <1>7
  <2> HIDE DEF a
  <2>4. mp[a][1] # <<>>
    BY <2>2, NothingContains
  <2>5. Whole(add(a))
    BY <2>2, <2>4, AddedWhole
  <2> QED
    BY <2>3, <2>5
<1>8. CASE holders = {} /\ bare # {}
  <2> DEFINE a == first(bare)
  <2>1. a \in DOMAIN mp
    BY <1>3, <1>4, <1>8
  <2>2. AddTo(mp, ring) = add(a)
    BY <1>6, <1>8
  <2>3. \A j \in DOMAIN mp : ~PolygonContains(mp[j][1], ring)
    BY <1>8
  <2> HIDE DEF a
  <2>4. Whole(add(a))
    BY <2>1, <2>3, AddedWhole
  <2> QED
    BY <2>2, <2>4
<1>9. CASE holders = {} /\ bare = {}
  <2>1. \A j \in DOMAIN mp : ~PolygonContains(mp[j][1], ring)
    BY <1>9
  <2>2. AddTo(mp, ring) = Append(mp, <<<<>>, ring>>)
    BY <1>6, <1>9
  <2> QED
    BY <2>1, <2>2, BareWhole
<1> QED
  BY <1>7, <1>8, <1>9

\* A relation of the old style has its one polygon before its inner rings.
OldInv ==
  OldStyle => /\ stage # "outer"
              /\ stage \in {"inner", "attach", "built"} =>
                   Len(polygons) = 1 /\ ValidRing(polygons[1][1])
PolyInv == Whole(polygons) /\ OldInv

LEMMA PolyInit == Init => PolyInv
BY NonePolygon DEF Init, PolyInv, OldInv

LEMMA CollectPoly == IInv /\ PolyInv /\ Collect => PolyInv'
<1> SUFFICES ASSUME IInv, PolyInv, Collect PROVE PolyInv'
  OBVIOUS
<1>1. members \in Inputs /\ UNCHANGED members /\ Whole(polygons)
  BY DEF IInv, TypeInv, PolyInv, Collect
<1>2. OldStyle' = OldStyle
  BY <1>1 DEF OldStyle, Outer, Lines
<1>3. CASE ~OldStyle
  BY <1>1, <1>2, <1>3 DEF Collect, PolyInv, OldInv
<1>4. CASE OldStyle
  <2> DEFINE ring == Ring(Outer, CCW)
  <2>1. CASE Len(ring) > 0 /\ ValidRing(ring)
    <3>1. Outer \in Seq(Seq(Points))
      BY <1>1, LinesTyped DEF Outer
    <3>2. ring \in Seq(Points)
      BY <3>1, FlattenTyped, RingTyped
    <3>3. polygons' = <<<<ring>>>> /\ stage' = "inner"
      BY <1>4, <2>1 DEF Collect
    <3>4. ValidRing(ring)
      BY <2>1
    <3> HIDE DEF ring
    <3> DEFINE rings == <<ring>>
    <3>5. rings \in Seq({r \in Seq(Points) : ValidRing(r)}) /\ DOMAIN rings = {1} /\ rings[1] = ring
      BY <3>2, <3>4
    <3>6. [i \in DOMAIN rings |-> <<rings[i]>>] = <<<<ring>>>>
      BY <3>5
    <3> HIDE DEF rings
    <3>7. Whole(<<<<ring>>>>)
      BY <3>5, <3>6, RingsWhole
    <3>8. Len(<<<<ring>>>>) = 1 /\ <<<<ring>>>>[1][1] = ring
      OBVIOUS
    <3> QED
      BY <3>3, <3>4, <3>7, <3>8 DEF PolyInv, OldInv
  <2>2. CASE ~(Len(ring) > 0 /\ ValidRing(ring))
    <3>1. stage' \in {"failed", "panicked"} /\ UNCHANGED polygons
      BY <1>4, <2>2 DEF Collect
    <3> QED
      BY <1>1, <3>1 DEF PolyInv, OldInv
  <2> QED
    BY <2>1, <2>2
<1> QED
  BY <1>3, <1>4

LEMMA OuterJoinedPoly == IInv /\ PolyInv /\ OuterJoined => PolyInv'
<1> SUFFICES ASSUME IInv, PolyInv, OuterJoined PROVE PolyInv'
  OBVIOUS
<1> DEFINE joined == [i \in DOMAIN sections |-> Ring(sections[i], CCW)]
           valid  == {ring \in Range(joined) : ValidRing(ring)}
           rings  == Kept(joined, valid)
<1>1. /\ sections \in Seq(Section) /\ stage = "outer" /\ UNCHANGED members
      /\ polygons' = [i \in DOMAIN rings |-> <<rings[i]>>]
      /\ OldInv
  BY DEF IInv, TypeInv, PolyInv, OuterJoined
<1>2. ~OldStyle /\ OldStyle' = OldStyle
  BY <1>1 DEF OldInv, OldStyle, Outer, Lines
<1>3. \A i \in DOMAIN sections : Ring(sections[i], CCW) \in Seq(Points)
  <2> TAKE i \in DOMAIN sections
  <2>1. FlattenSeq(sections[i]) \in Seq(Points)
    BY <1>1 DEF Section, Long
  <2> QED
    BY <2>1, RingTyped
<1>4. joined \in Seq(Seq(Points))
  <2>1. DOMAIN sections = 1..Len(sections) /\ Len(sections) \in Nat
    BY <1>1
  <2> QED
    BY <1>3, <2>1
<1> HIDE DEF joined
<1>5. rings \in Seq(Seq(Points) \cap valid)
  BY <1>4, KeptTyped
<1>6. Seq(Points) \cap valid \subseteq {r \in Seq(Points) : ValidRing(r)}
  OBVIOUS
<1> HIDE DEF valid, rings
<1>7. rings \in Seq({r \in Seq(Points) : ValidRing(r)})
  BY <1>5, <1>6, SeqMonotonic
<1>8. Whole(polygons')
  BY <1>1, <1>7, RingsWhole
<1> QED
  BY <1>2, <1>8 DEF PolyInv, OldInv

LEMMA AttachPoly == IInv /\ PolyInv /\ Attach => PolyInv'
<1> SUFFICES ASSUME IInv, PolyInv, Attach PROVE PolyInv'
  OBVIOUS
<1> DEFINE ring == Ring(Head(sections), CW)
<1>1. /\ sections \in Seq(Section) /\ sections # <<>> /\ stage = "attach" /\ stage' = stage
      /\ UNCHANGED members
      /\ polygons' = IF OldStyle THEN <<Append(polygons[1], ring)>> ELSE AddTo(polygons, ring)
      /\ Whole(polygons) /\ OldInv
  BY DEF IInv, TypeInv, PolyInv, Attach
<1>2. OldStyle' = OldStyle
  BY <1>1 DEF OldStyle, Outer, Lines
<1>3. ring \in Seq(Points)
  <2>1. Head(sections) \in Section
    BY <1>1
  <2>2. FlattenSeq(Head(sections)) \in Seq(Points)
    BY <2>1 DEF Section, Long
  <2> QED
    BY <2>2, RingTyped
<1> HIDE DEF ring
<1>4. CASE ~OldStyle
  <2>1. Whole(polygons')
    BY <1>1, <1>3, <1>4, AddToWhole
  <2> QED
    BY <1>2, <1>4, <2>1 DEF PolyInv, OldInv
<1>5. CASE OldStyle
  <2>1. Len(polygons) = 1 /\ ValidRing(polygons[1][1]) /\ polygons \in Seq(Polygon)
    BY <1>1, <1>5 DEF OldInv, Whole
  <2>2. DOMAIN polygons = {1} /\ polygons = <<polygons[1]>>
    BY <2>1
  <2>3. polygons[1][1] # <<>>
    BY <2>1 DEF ValidRing
  <2> DEFINE new == Added(polygons, 1, ring)
  <2>4. Whole(new) /\ DOMAIN new = {1} /\ new[1][1] = polygons[1][1]
    <3>1. 1 \in DOMAIN polygons
      BY <2>2
    <3> QED
      BY <1>1, <1>3, <2>2, <2>3, <3>1, AddedWhole
  <2>5. new = <<Append(polygons[1], ring)>>
    BY <2>2 DEF Added
  <2> HIDE DEF new
  <2>6. polygons' = new /\ Len(new) = 1
    BY <1>1, <1>5, <2>5
  <2> QED
    BY <1>1, <1>2, <2>1, <2>4, <2>6 DEF PolyInv, OldInv
<1> QED
  BY <1>4, <1>5

\* The steps that leave the polygons alone.
LEMMA OtherPoly ==
  ASSUME PolyInv, \/ StartSection \/ Extend \/ EndSection \/ InnerJoined \/ Build
                  \/ UNCHANGED vars
  PROVE  PolyInv'
<1>1. UNCHANGED <<members, polygons>>
  BY DEF StartSection, Extend, EndSection, InnerJoined, Build, vars
<1>2. OldStyle' = OldStyle /\ Whole(polygons)' = Whole(polygons)
  BY <1>1 DEF OldStyle, Outer, Lines
<1>3. \/ UNCHANGED stage
      \/ stage = "inner" /\ stage' = "attach"
      \/ stage = "attach" /\ stage' = "built"
  BY DEF StartSection, Extend, EndSection, InnerJoined, Build, vars
<1> QED
  BY <1>1, <1>2, <1>3 DEF PolyInv, OldInv

LEMMA PolyStep == IInv /\ PolyInv /\ [Next]_vars => PolyInv'
BY CollectPoly, OuterJoinedPoly, AttachPoly, OtherPoly DEF Next

\* In every state of buildPolygon (geommaker.go:35) the multipolygon is whole,
\* and a relation with one outer way has one polygon.
THEOREM PolygonInvariant == Spec => []PolyInv
BY JoinInvariant, PolyInit, PolyStep, PTL DEF Spec

LEMMA PolygonsWhole == PolyInv => OuterRingsWhole
<1> SUFFICES ASSUME PolyInv, NEW i \in DOMAIN polygons
             PROVE  \/ Len(polygons[i][1]) >= 4 /\ Head(polygons[i][1]) = Last(polygons[i][1])
                    \/ /\ polygons[i][1] = <<>>
                       /\ \A k \in 2..Len(polygons[i]), j \in DOMAIN polygons :
                            ~PolygonContains(polygons[j][1], polygons[i][k])
  BY DEF OuterRingsWhole
<1>1. polygons \in Seq(Polygon) /\ Outlined(polygons) /\ Unheld(polygons)
  BY DEF PolyInv, Whole
<1>2. CASE polygons[i][1] = <<>>
  BY <1>1, <1>2 DEF Unheld
<1>3. CASE polygons[i][1] # <<>>
  <2> DEFINE r == polygons[i][1]
  <2>1. Len(r) >= 4 /\ Closed(r)
    BY <1>1, <1>3 DEF Outlined, ValidRing
  <2>2. r \in Seq(Points)
    <3>1. polygons[i] \in Polygon
      BY <1>1
    <3>2. 1 \in DOMAIN polygons[i] /\ polygons[i] \in Seq(Seq(Points))
      BY <3>1 DEF Polygon
    <3> QED
      BY <3>2
  <2> HIDE DEF r
  <2>3. Head(r) = Last(r)
    BY <2>1, <2>2 DEF Closed, Last
  <2> QED
    BY <2>1, <2>3 DEF r
<1> QED
  BY <1>2, <1>3

(***************************************************************************)
(* Whatever ways or nodes are missing, and whatever the ways are, there is *)
(* no half a ring among the outer ones (geommaker.go:88, 110), and a       *)
(* polygon without an outer ring takes only inner rings that no outer ring *)
(* contains (geommaker.go:137): the branch for a first outer ring that is  *)
(* open (geommaker.go:150) is never taken.                                 *)
(***************************************************************************)
THEOREM OuterRingsAlwaysWhole == Spec => []OuterRingsWhole
BY PolygonInvariant, PolygonsWhole, PTL
=============================================================================
