--------------------------- MODULE GeocoderProofs ---------------------------
(***************************************************************************)
(* Theorems about Geocoder: for any points and zones, any order of sort    *)
(* and any end of a save, the three geocoders find what there is, agree,   *)
(* and are never misled by a part of a file.                               *)
(*                                                                         *)
(* The module goes up in steps: the folds and the table of strings; the    *)
(* ranges that sort splits; the one walk that is possible from a place and *)
(* what it finds; the borders; the layout of the file, and every read from *)
(* a part of it; and last that each geocoder walks that one walk until a   *)
(* read fails, which is the inductive invariant.                           *)
(***************************************************************************)
EXTENDS Geocoder, FiniteSetTheorems, SequenceTheorems, WellFoundedInduction, TLAPS

-----------------------------------------------------------------------------
(* Numbers.                                                                *)

LEMMA Least ==
  ASSUME NEW T \in SUBSET Nat, T # {}
  PROVE  \E x \in T : \A y \in T : x <= y
<1> DEFINE R == OpToRel(<, Nat)
<1>1. IsWellFoundedOn(R, Nat)
  BY NatLessThanWellFounded
<1>2. \A x, y \in Nat : y < x => <<y, x>> \in R
  BY DEF OpToRel
<1> HIDE DEF R
<1>3. PICK x \in T : \A y \in T : ~ (<<y, x>> \in R)
  BY <1>1, WFMin
<1>4. x \in Nat /\ \A y \in T : y \in Nat /\ ~(y < x)
  BY <1>2, <1>3
<1> QED
  BY <1>4

\* The library's induction takes an operator; this one takes a set.
LEMMA Induction ==
  ASSUME NEW S \in SUBSET Nat, 0 \in S, \A n \in S : n + 1 \in S
  PROVE  S = Nat
<1> SUFFICES ASSUME Nat \ S # {} PROVE FALSE
  OBVIOUS
<1>1. PICK x \in Nat \ S : \A y \in Nat \ S : x <= y
  BY Least
<1>2. x - 1 \in S /\ (x - 1) + 1 = x
  BY <1>1
<1> QED
  BY <1>1, <1>2

LEMMA MaxMember ==
  ASSUME NEW n \in Nat, NEW s \in SUBSET (1..n), s # {}
  PROVE  Max(s) \in s /\ \A y \in s : y <= Max(s)
<1> DEFINE D == {m \in Nat : \A t \in SUBSET (1..m) : t # {} => \E x \in t : \A y \in t : x >= y}
<1>1. 0 \in D
  <2>1. 1..0 = {}
    OBVIOUS
  <2> QED
    BY <2>1
<1>2. ASSUME NEW m \in D PROVE m + 1 \in D
  <2> SUFFICES ASSUME NEW t \in SUBSET (1..m + 1), t # {}
               PROVE  \E x \in t : \A y \in t : x >= y
    OBVIOUS
  <2>1. CASE m + 1 \in t
    BY <2>1
  <2>2. CASE m + 1 \notin t
    <3>1. t \in SUBSET (1..m)
      BY <2>2
    <3> QED
      BY <3>1
  <2> QED
    BY <2>1, <2>2
<1>3. D = Nat
  <2> HIDE DEF D
  <2>1. D \in SUBSET Nat
    BY DEF D
  <2> QED
    BY <1>1, <1>2, <2>1, Induction
<1>4. \E x \in s : \A y \in s : x >= y
  BY <1>3
<1> QED
  BY <1>4 DEF Max

-----------------------------------------------------------------------------
(* Folds, element by element.                                              *)

\* What the handler and the reads before it make of the point at a position.
Show(kept, i) ==
  IF kept = Err \/ Coord(i) = Err THEN Err
  ELSE IF ~InRadius(Coord(i)) THEN kept
  ELSE IF Data(i) = Err THEN Err
  ELSE Keep(kept, Data(i), DistanceSquared(Coord(i), place))

\* What the folds do with the next element: a table of strings takes it in, a list
\* or a border tree of one type takes it or not, the handler keeps it or not.
Grow(kind, type, acc, x) ==
  CASE kind = "table"   -> Add(acc, x)
    [] kind = "list"    -> IF x.type = type THEN Append(acc, x) ELSE acc
    [] kind = "borders" -> IF x.type = type THEN InsertBorder(acc, x.name, x.rect) ELSE acc
    [] kind = "shown"   -> Show(acc, x)

Folds(kind, type, base, seq, n, g) ==
  g = [s \in SUBSET (1..n) |->
         IF s = {} THEN base ELSE Grow(kind, type, g[s \ {Max(s)}], seq[Max(s)])]

\* A fold is a choice of a function on sets that is defined by itself; there is one.
LEMMA FoldExists ==
  \A kind, type, base, seq : \A n \in Nat : \E g : Folds(kind, type, base, seq, n, g)
<1> SUFFICES ASSUME NEW kind, NEW type, NEW base, NEW seq
             PROVE  \A n \in Nat : \E g : Folds(kind, type, base, seq, n, g)
  OBVIOUS
<1> DEFINE D == {n \in Nat : \E g : Folds(kind, type, base, seq, n, g)}
<1>1. 0 \in D
  <2>1. Folds(kind, type, base, seq, 0, [s \in SUBSET (1..0) |-> base])
    BY DEF Folds
  <2> QED
    BY <2>1
<1>2. ASSUME NEW n \in D PROVE n + 1 \in D
  <2>1. PICK g : Folds(kind, type, base, seq, n, g)
    OBVIOUS
  <2>2. n \in Nat /\ n + 1 \in Nat
    OBVIOUS
  <2> DEFINE e(s) == IF s = {} THEN base ELSE Grow(kind, type, g[s \ {Max(s)}], seq[Max(s)])
             h == [s \in SUBSET (1..n + 1) |-> e(s)]
  <2>3. g = [s \in SUBSET (1..n) |-> e(s)]
    BY <2>1 DEF Folds
  <2>4. ASSUME NEW s \in SUBSET (1..n + 1), s # {}
        PROVE  h[s \ {Max(s)}] = g[s \ {Max(s)}]
    <3>1. Max(s) \in s /\ \A y \in s : y <= Max(s)
      <4> HIDE DEF D, e, h
      <4> QED
        BY <2>2, <2>4, MaxMember
    <3>2. s \ {Max(s)} \in SUBSET (1..n) /\ s \ {Max(s)} \in SUBSET (1..n + 1)
      <4> DEFINE x == Max(s)
      <4> HIDE DEF x, D, e, h
      <4>1. x \in s /\ \A y \in s : y <= x
        BY <3>1 DEF x
      <4>2. \A y \in s : y # x => y \in 1..n
        BY <2>2, <4>1
      <4> QED
        BY <4>2 DEF x
    <3> DEFINE t == s \ {Max(s)}
    <3>3. t \in SUBSET (1..n) /\ t \in SUBSET (1..n + 1)
      BY <3>2
    <3> HIDE DEF t, e
    <3>4. g[t] = e(t) /\ h[t] = e(t)
      BY <2>3, <3>3
    <3> QED
      BY <3>4 DEF t
  <2>5. h = [s \in SUBSET (1..n + 1) |->
               IF s = {} THEN base ELSE Grow(kind, type, h[s \ {Max(s)}], seq[Max(s)])]
    <3> DEFINE f(s) == IF s = {} THEN base ELSE Grow(kind, type, h[s \ {Max(s)}], seq[Max(s)])
    <3>1. \A s \in SUBSET (1..n + 1) : e(s) = f(s)
      BY <2>4
    <3>2. h = [s \in SUBSET (1..n + 1) |-> e(s)]
      OBVIOUS
    <3> HIDE DEF e, f, h
    <3>3. h = [s \in SUBSET (1..n + 1) |-> f(s)]
      BY <3>1, <3>2
    <3> QED
      BY <3>3 DEF f
  <2> HIDE DEF h, e
  <2>6. Folds(kind, type, base, seq, n + 1, h)
    BY <2>5 DEF Folds
  <2> QED
    BY <2>6
<1>3. D = Nat
  <2> HIDE DEF D
  <2>1. D \in SUBSET Nat
    BY DEF D
  <2> QED
    BY <1>1, <1>2, <2>1, Induction
<1> QED
  BY <1>3

\* From left to right a fold goes through the results for the prefixes.
LEMMA FoldSteps ==
  ASSUME NEW kind, NEW type, NEW base, NEW seq, NEW n \in Nat, NEW g,
         Folds(kind, type, base, seq, n, g)
  PROVE  /\ g[1..0] = base
         /\ \A i \in 1..n : g[1..i] = Grow(kind, type, g[1..i - 1], seq[i])
<1>1. g[1..0] = base
  BY DEF Folds
<1>2. ASSUME NEW i \in 1..n PROVE g[1..i] = Grow(kind, type, g[1..i - 1], seq[i])
  <2>1. 1..i \in SUBSET (1..n) /\ 1..i # {} /\ i \in 1..i
    OBVIOUS
  <2>2. Max(1..i) = i
    <3>1. Max(1..i) \in 1..i /\ \A y \in 1..i : y <= Max(1..i)
      BY <2>1, MaxMember
    <3> QED
      BY <2>1, <3>1
  <2>3. (1..i) \ {i} = 1..i - 1
    OBVIOUS
  <2> QED
    BY <2>1, <2>2, <2>3 DEF Folds
<1> QED
  BY <1>1, <1>2

\* Each fold of the model goes through its sequence step by step.
LEMMA UniqueMapSteps ==
  ASSUME NEW S, NEW vals \in Seq(S)
  PROVE  \E t : /\ t[0] = [v \in {Empty} |-> 0]
                /\ \A i \in 1..Len(vals) : t[i] = Add(t[i - 1], vals[i])
                /\ t[Len(vals)] = UniqueMap(vals)
<1> DEFINE base == [v \in {Empty} |-> 0]
           n == Len(vals)
           P(g) == g = [s \in SUBSET DOMAIN vals |->
                          IF s = {} THEN base ELSE Add(g[s \ {Max(s)}], vals[Max(s)])]
           g == CHOOSE g : P(g)
<1>1. n \in Nat /\ DOMAIN vals = 1..n
  OBVIOUS
<1>2. \A f : P(f) <=> Folds("table", None, base, vals, n, f)
  BY <1>1 DEF Folds, Grow
<1>3. \E f : P(f)
  <2> HIDE DEF P, base, n
  <2> QED
    BY <1>1, <1>2, FoldExists
<1>4. P(g)
  <2> HIDE DEF P
  <2> QED
    BY <1>3
<1>5. UniqueMap(vals) = g[1..n]
  BY <1>1 DEF UniqueMap, FoldLeft, MapThenFoldSet
<1> HIDE DEF P, g, base, n
<1>6. Folds("table", None, base, vals, n, g)
  BY <1>2, <1>4
<1>7. /\ g[1..0] = base
      /\ \A i \in 1..n : g[1..i] = Grow("table", None, g[1..i - 1], vals[i])
  BY <1>1, <1>6, FoldSteps
<1> DEFINE t == [i \in 0..n |-> g[1..i]]
<1>8. /\ t[0] = base
      /\ \A i \in 1..n : t[i] = Add(t[i - 1], vals[i])
      /\ t[n] = UniqueMap(vals)
  BY <1>1, <1>5, <1>7 DEF Grow
<1> HIDE DEF t
<1> QED
  BY <1>8 DEF base, n

LEMMA OfTypeSteps ==
  ASSUME NEW S, NEW zones \in Seq(S), NEW type
  PROVE  \E t : /\ t[0] = <<>>
                /\ \A i \in 1..Len(zones) :
                     t[i] = IF zones[i].type = type THEN Append(t[i - 1], zones[i]) ELSE t[i - 1]
                /\ t[Len(zones)] = OfType(zones, type)
<1> DEFINE base == <<>>
           n == Len(zones)
           P(g) == g = [s \in SUBSET DOMAIN zones |->
                          IF s = {} THEN base ELSE IF zones[Max(s)].type = type
                               THEN Append(g[s \ {Max(s)}], zones[Max(s)])
                               ELSE g[s \ {Max(s)}]]
           g == CHOOSE g : P(g)
<1>1. n \in Nat /\ DOMAIN zones = 1..n
  OBVIOUS
<1>2. \A f : P(f) <=> Folds("list", type, base, zones, n, f)
  BY <1>1 DEF Folds, Grow
<1>3. \E f : P(f)
  <2> HIDE DEF P, base, n
  <2> QED
    BY <1>1, <1>2, FoldExists
<1>4. P(g)
  <2> HIDE DEF P
  <2> QED
    BY <1>3
<1>5. OfType(zones, type) = g[1..n]
  BY <1>1 DEF OfType, FoldLeft, MapThenFoldSet
<1> HIDE DEF P, g, base, n
<1>6. Folds("list", type, base, zones, n, g)
  BY <1>2, <1>4
<1>7. /\ g[1..0] = base
      /\ \A i \in 1..n : g[1..i] = Grow("list", type, g[1..i - 1], zones[i])
  BY <1>1, <1>6, FoldSteps
<1> DEFINE t == [i \in 0..n |-> g[1..i]]
<1>8. /\ t[0] = base
      /\ \A i \in 1..n :
           t[i] = IF zones[i].type = type THEN Append(t[i - 1], zones[i]) ELSE t[i - 1]
      /\ t[n] = OfType(zones, type)
  BY <1>1, <1>5, <1>7 DEF Grow
<1> HIDE DEF t
<1> QED
  BY <1>8 DEF base, n

LEMMA BorderTreeSteps ==
  ASSUME NEW S, NEW zones \in Seq(S), NEW type
  PROVE  \E t : /\ t[0] = <<>>
                /\ \A i \in 1..Len(zones) : t[i] = IF zones[i].type = type
                            THEN InsertBorder(t[i - 1], zones[i].name, zones[i].rect) ELSE t[i - 1]
                /\ t[Len(zones)] = BorderTree(type, zones)
<1> DEFINE base == <<>>
           n == Len(zones)
           P(g) == g = [s \in SUBSET DOMAIN zones |->
                          IF s = {} THEN base ELSE IF zones[Max(s)].type = type
                               THEN InsertBorder(g[s \ {Max(s)}], zones[Max(s)].name, zones[Max(s)].rect)
                               ELSE g[s \ {Max(s)}]]
           g == CHOOSE g : P(g)
<1>1. n \in Nat /\ DOMAIN zones = 1..n
  OBVIOUS
<1>2. \A f : P(f) <=> Folds("borders", type, base, zones, n, f)
  BY <1>1 DEF Folds, Grow
<1>3. \E f : P(f)
  <2> HIDE DEF P, base, n
  <2> QED
    BY <1>1, <1>2, FoldExists
<1>4. P(g)
  <2> HIDE DEF P
  <2> QED
    BY <1>3
<1>5. BorderTree(type, zones) = g[1..n]
  BY <1>1 DEF BorderTree, FoldLeft, MapThenFoldSet
<1> HIDE DEF P, g, base, n
<1>6. Folds("borders", type, base, zones, n, g)
  BY <1>2, <1>4
<1>7. /\ g[1..0] = base
      /\ \A i \in 1..n : g[1..i] = Grow("borders", type, g[1..i - 1], zones[i])
  BY <1>1, <1>6, FoldSteps
<1> DEFINE t == [i \in 0..n |-> g[1..i]]
<1>8. /\ t[0] = base
      /\ \A i \in 1..n : t[i] = IF zones[i].type = type
                            THEN InsertBorder(t[i - 1], zones[i].name, zones[i].rect) ELSE t[i - 1]
      /\ t[n] = BorderTree(type, zones)
  BY <1>1, <1>5, <1>7 DEF Grow
<1> HIDE DEF t
<1> QED
  BY <1>8 DEF base, n

LEMMA ShownSteps ==
  ASSUME NEW S, NEW positions \in Seq(S)
  PROVE  \E t : /\ t[0] = best
                /\ \A i \in 1..Len(positions) : t[i] = Show(t[i - 1], positions[i])
                /\ t[Len(positions)] = Shown(positions)
<1> DEFINE base == best
           n == Len(positions)
           P(g) == g = [s \in SUBSET DOMAIN positions |->
                          IF s = {} THEN base
                               ELSE IF g[s \ {Max(s)}] = Err \/ Coord(positions[Max(s)]) = Err THEN Err
                               ELSE IF ~InRadius(Coord(positions[Max(s)])) THEN g[s \ {Max(s)}]
                               ELSE IF Data(positions[Max(s)]) = Err THEN Err
                               ELSE Keep(g[s \ {Max(s)}], Data(positions[Max(s)]),
                                         DistanceSquared(Coord(positions[Max(s)]), place))]
           g == CHOOSE g : P(g)
<1>1. n \in Nat /\ DOMAIN positions = 1..n
  OBVIOUS
<1>2. \A f : P(f) <=> Folds("shown", None, base, positions, n, f)
  BY <1>1 DEF Folds, Grow, Show
<1>3. \E f : P(f)
  <2> HIDE DEF P, base, n
  <2> QED
    BY <1>1, <1>2, FoldExists
<1>4. P(g)
  <2> HIDE DEF P
  <2> QED
    BY <1>3
<1>5. Shown(positions) = g[1..n]
  BY <1>1 DEF Shown, FoldLeft, MapThenFoldSet
<1> HIDE DEF P, g, base, n
<1>6. Folds("shown", None, base, positions, n, g)
  BY <1>2, <1>4
<1>7. /\ g[1..0] = base
      /\ \A i \in 1..n : g[1..i] = Grow("shown", None, g[1..i - 1], positions[i])
  BY <1>1, <1>6, FoldSteps
<1> DEFINE t == [i \in 0..n |-> g[1..i]]
<1>8. /\ t[0] = base
      /\ \A i \in 1..n : t[i] = Show(t[i - 1], positions[i])
      /\ t[n] = Shown(positions)
  BY <1>1, <1>5, <1>7 DEF Grow
<1> HIDE DEF t
<1> QED
  BY <1>8 DEF base, n

-----------------------------------------------------------------------------
(* What is in a table of strings.                                          *)

\* A table gives every string that it has been given a number of its own, and the
\* numbers are those below the count of its strings.
Table(u) ==
  /\ IsFiniteSet(DOMAIN u)
  /\ u = [v \in DOMAIN u |-> u[v]]
  /\ \A v \in DOMAIN u : u[v] \in Nat /\ u[v] < Cardinality(DOMAIN u)
  /\ \A v, w \in DOMAIN u : u[v] = u[w] => v = w
  /\ \A i \in 0..Cardinality(DOMAIN u) - 1 : \E v \in DOMAIN u : u[v] = i
  /\ Empty \in DOMAIN u /\ u[Empty] = 0

\* Adding a string to a table makes a table.
LEMMA AddTable ==
  ASSUME NEW u, Table(u), NEW x
  PROVE  Table(Add(u, x)) /\ DOMAIN Add(u, x) = DOMAIN u \cup {x}
<1>1. CASE x \in DOMAIN u
  BY <1>1 DEF Add
<1>2. CASE x \notin DOMAIN u
  <2> DEFINE c == Cardinality(DOMAIN u)
             bigger == [v \in DOMAIN u \cup {x} |-> IF v = x THEN c ELSE u[v]]
  <2>1. Add(u, x) = bigger
    BY <1>2 DEF Add
  <2>2. /\ IsFiniteSet(DOMAIN u \cup {x}) /\ c \in Nat
        /\ Cardinality(DOMAIN u \cup {x}) = c + 1
    BY <1>2, FS_AddElement, FS_CardinalityType DEF Table
  <2>3. \A v \in DOMAIN u : u[v] \in Nat /\ u[v] < c
    BY DEF Table
  <2> HIDE DEF c
  <2>4. DOMAIN bigger = DOMAIN u \cup {x} /\ bigger[x] = c /\ \A v \in DOMAIN u : bigger[v] = u[v]
    BY <1>2
  <2>5. bigger = [v \in DOMAIN bigger |-> bigger[v]]
    OBVIOUS
  <2> HIDE DEF bigger
  <2>6. \A v \in DOMAIN bigger : bigger[v] \in Nat /\ bigger[v] < c + 1
    BY <2>2, <2>3, <2>4
  <2>7. \A v, w \in DOMAIN bigger : bigger[v] = bigger[w] => v = w
    BY <2>2, <2>3, <2>4 DEF Table
  <2>8. \A i \in 0..c + 1 - 1 : \E v \in DOMAIN bigger : bigger[v] = i
    <3> SUFFICES ASSUME NEW i \in 0..c + 1 - 1 PROVE \E v \in DOMAIN bigger : bigger[v] = i
      OBVIOUS
    <3>1. CASE i = c
      BY <2>4, <3>1
    <3>2. CASE i # c
      <4>1. i \in 0..c - 1
        BY <2>2, <3>2
      <4>2. \E v \in DOMAIN u : u[v] = i
        BY <4>1 DEF Table, c
      <4> QED
        BY <2>4, <4>2
    <3> QED
      BY <3>1, <3>2
  <2>9. Empty \in DOMAIN bigger /\ bigger[Empty] = 0
    BY <2>4 DEF Table
  <2> QED
    BY <2>1, <2>2, <2>4, <2>5, <2>6, <2>7, <2>8, <2>9 DEF Table
<1> QED
  BY <1>1, <1>2

LEMMA FirstTable == Table([v \in {Empty} |-> 0])
<1>1. IsFiniteSet({Empty}) /\ Cardinality({Empty}) = 1
  BY FS_Singleton
<1> QED
  BY <1>1 DEF Table

LEMMA UniqueMapTable ==
  ASSUME NEW S, NEW vals \in Seq(S)
  PROVE  /\ Table(UniqueMap(vals)) /\ DOMAIN UniqueMap(vals) \subseteq S \cup {Empty}
         /\ \A i \in 1..Len(vals) : vals[i] \in DOMAIN UniqueMap(vals)
<1>1. PICK t : /\ t[0] = [v \in {Empty} |-> 0]
               /\ \A i \in 1..Len(vals) : t[i] = Add(t[i - 1], vals[i])
               /\ t[Len(vals)] = UniqueMap(vals)
  BY UniqueMapSteps
<1> DEFINE P(i) == /\ Table(t[i]) /\ DOMAIN t[i] \subseteq S \cup {Empty}
                   /\ \A j \in 1..i : vals[j] \in DOMAIN t[i]
           D == {i \in Nat : i <= Len(vals) => P(i)}
<1>2. Len(vals) \in Nat
  OBVIOUS
<1>3. P(0)
  <2>1. 1..0 = {}
    OBVIOUS
  <2> QED
    BY <1>1, <2>1, FirstTable
<1>4. ASSUME NEW i \in Nat, i + 1 <= Len(vals), P(i) PROVE P(i + 1)
  <2>1. i + 1 \in 1..Len(vals) /\ i + 1 - 1 = i
    BY <1>2, <1>4
  <2>2. t[i + 1] = Add(t[i], vals[i + 1])
    BY <1>1, <2>1
  <2>3. Table(t[i + 1]) /\ DOMAIN t[i + 1] = DOMAIN t[i] \cup {vals[i + 1]}
    BY <1>4, <2>2, AddTable
  <2>4. 1..i + 1 = 1..i \cup {i + 1}
    OBVIOUS
  <2> QED
    BY <1>4, <2>3, <2>4
<1> HIDE DEF P
<1>5. D \in SUBSET Nat /\ 0 \in D /\ \A i \in D : i + 1 \in D
  BY <1>2, <1>3, <1>4
<1>6. D = Nat
  <2> HIDE DEF D
  <2> QED
    BY <1>5, Induction
<1>7. P(Len(vals))
  BY <1>2, <1>6
<1> QED
  BY <1>1, <1>7 DEF P

\* A number is turned back into the string it stands for.
LEMMA LookUp ==
  ASSUME NEW u, Table(u), NEW v \in DOMAIN u
  PROVE  Slice(u)[u[v] + 1] = v
<1> DEFINE c == Cardinality(DOMAIN u)
           found(i) == CHOOSE val \in DOMAIN u : u[val] = i - 1
           n == u[v] + 1
<1>1. c \in Nat /\ u[v] \in Nat /\ u[v] < c
  BY FS_CardinalityType DEF Table
<1>2. n \in 1..c /\ n - 1 = u[v]
  BY <1>1
<1>3. Slice(u) = [i \in 1..c |-> found(i)]
  BY DEF Slice
<1> HIDE DEF n, c
<1>4. found(n) \in DOMAIN u /\ u[found(n)] = u[v]
  BY <1>2
<1>5. found(n) = v
  BY <1>4 DEF Table
<1> HIDE DEF found
<1>6. Slice(u)[n] = found(n)
  BY <1>2, <1>3
<1> QED
  BY <1>5, <1>6 DEF n

-----------------------------------------------------------------------------
(* Lists of lists.                                                         *)

\* A list that is put together from left to right.
LEMMA GrowsExists ==
  ASSUME NEW add, NEW n \in Nat
  PROVE  \E f : f = [i \in 0..n |-> IF i = 0 THEN <<>> ELSE f[i - 1] \o add[i]]
<1> DEFINE Def(f, m) == f = [i \in 0..m |-> IF i = 0 THEN <<>> ELSE f[i - 1] \o add[i]]
           S == {m \in Nat : \E f : Def(f, m)}
<1>1. 0 \in S
  <2>1. Def([i \in 0..0 |-> <<>>], 0)
    OBVIOUS
  <2> QED
    BY <2>1
<1>2. ASSUME NEW m \in S PROVE m + 1 \in S
  <2>1. PICK f : Def(f, m)
    OBVIOUS
  <2> DEFINE g == [i \in 0..m + 1 |-> IF i = m + 1 THEN f[m] \o add[m + 1] ELSE f[i]]
  <2>2. m \in Nat
    OBVIOUS
  <2>3. \A i \in 0..m : f[i] = IF i = 0 THEN <<>> ELSE f[i - 1] \o add[i]
    BY <2>1
  <2>4. g[m + 1] = f[m] \o add[m + 1] /\ \A i \in 0..m : g[i] = f[i]
    <3>1. m + 1 \in 0..m + 1 /\ \A i \in 0..m : i # m + 1 /\ i \in 0..m + 1
      BY <2>2
    <3> QED
      BY <3>1
  <2>5. g = [i \in 0..m + 1 |-> g[i]]
    OBVIOUS
  <2> HIDE DEF g
  <2>6. ASSUME NEW i \in 0..m + 1
        PROVE  g[i] = IF i = 0 THEN <<>> ELSE g[i - 1] \o add[i]
    <3>1. CASE i = m + 1
      <4>1. i - 1 = m /\ i # 0 /\ m \in 0..m
        BY <2>2, <3>1
      <4> QED
        BY <2>4, <3>1, <4>1
    <3>2. CASE i \in 0..m /\ i # 0
      <4>1. i - 1 \in 0..m
        BY <2>2, <3>2
      <4> QED
        BY <2>3, <2>4, <3>2, <4>1
    <3>3. CASE i = 0
      BY <2>2, <2>3, <2>4, <3>3
    <3> QED
      BY <2>2, <3>1, <3>2, <3>3
  <2>7. Def(g, m + 1)
    BY <2>5, <2>6
  <2> HIDE DEF Def
  <2>8. \E h : Def(h, m + 1)
    BY <2>7
  <2> QED
    BY <2>2, <2>8
<1> HIDE DEF S
<1>3. S = Nat
  BY <1>1, <1>2, Induction DEF S
<1> QED
  BY <1>3 DEF S

\* The lists f goes through, when to nothing it appends the lists of add in turn.
Grown(f, add, n) == f[0] = <<>> /\ \A i \in 1..n : f[i] = f[i - 1] \o add[i]

LEMMA GrownSame ==
  ASSUME NEW add, NEW n \in Nat, NEW f, NEW g, Grown(f, add, n), Grown(g, add, n)
  PROVE  f[n] = g[n]
<1> DEFINE S == {i \in Nat : i <= n => f[i] = g[i]}
<1>1. 0 \in S
  BY DEF Grown
<1>2. ASSUME NEW i \in S PROVE i + 1 \in S
  <2> SUFFICES ASSUME i + 1 <= n PROVE f[i + 1] = g[i + 1]
    OBVIOUS
  <2>1. i + 1 \in 1..n /\ (i + 1) - 1 = i /\ f[i] = g[i]
    OBVIOUS
  <2> QED
    BY <2>1 DEF Grown
<1> HIDE DEF S
<1>3. n \in S
  BY <1>1, <1>2, Induction DEF S
<1> QED
  BY <1>3 DEF S

LEMMA GrownTyped ==
  ASSUME NEW X, NEW add, NEW n \in Nat, \A i \in 1..n : add[i] \in Seq(X),
         NEW f, Grown(f, add, n), NEW m \in 0..n
  PROVE  f[m] \in Seq(X)
<1> DEFINE S == {i \in Nat : i <= n => f[i] \in Seq(X)}
<1>1. 0 \in S
  <2>1. f[0] \in Seq(X)
    BY EmptySeq DEF Grown
  <2> QED
    BY <2>1
<1>2. ASSUME NEW i \in S PROVE i + 1 \in S
  <2> SUFFICES ASSUME i + 1 <= n PROVE f[i + 1] \in Seq(X)
    OBVIOUS
  <2>1. i + 1 \in 1..n /\ (i + 1) - 1 = i /\ f[i] \in Seq(X)
    OBVIOUS
  <2>2. f[i + 1] = f[i] \o add[i + 1] /\ add[i + 1] \in Seq(X)
    BY <2>1 DEF Grown
  <2> QED
    BY <2>1, <2>2, ConcatProperties
<1>3. S \subseteq Nat
  OBVIOUS
<1> HIDE DEF S
<1>4. S = Nat
  BY <1>1, <1>2, <1>3, Induction
<1>5. m \in Nat /\ m <= n
  OBVIOUS
<1> QED
  BY <1>4, <1>5 DEF S

\* A list of sequences is flattened one after the other.
LEMMA FlattenGrown ==
  ASSUME NEW X, NEW ls \in Seq(Seq(X))
  PROVE  \E f : Grown(f, ls, Len(ls)) /\ f[Len(ls)] = FlattenSeq(ls)
<1> DEFINE n == Len(ls)
<1>1. n \in Nat /\ \A i \in 1..n : ls[i] \in Seq(X)
  OBVIOUS
<1>2. PICK f : f = [i \in 0..n |-> IF i = 0 THEN <<>> ELSE f[i - 1] \o ls[i]]
  BY <1>1, GrowsExists
<1> HIDE DEF n
<1>3. Grown(f, ls, n)
  <2>1. \A i \in 0..n : f[i] = IF i = 0 THEN <<>> ELSE f[i - 1] \o ls[i]
    BY <1>2
  <2>2. 0 \in 0..n /\ \A i \in 1..n : i \in 0..n /\ i # 0
    BY <1>1
  <2> QED
    BY <2>1, <2>2 DEF Grown
<1>4. CASE n = 0
  <2>1. FlattenSeq(ls) = ls /\ ls = <<>>
    BY <1>4 DEF FlattenSeq, n
  <2> QED
    BY <1>3, <1>4, <2>1 DEF Grown, n
<1>5. CASE n # 0
  <2> DEFINE P(g) == g = [i \in 1..n |-> IF i = 1 THEN ls[i] ELSE g[i - 1] \o ls[i]]
             c == CHOOSE g : P(g)
  <2>1. FlattenSeq(ls) = c[n]
    BY <1>5 DEF FlattenSeq, n
  <2>2. P([i \in 1..n |-> f[i]])
    <3> DEFINE h == [i \in 1..n |-> f[i]]
    <3>1. h = [i \in 1..n |-> h[i]] /\ \A i \in 1..n : h[i] = f[i]
      OBVIOUS
    <3> HIDE DEF h
    <3>2. ASSUME NEW i \in 1..n PROVE h[i] = IF i = 1 THEN ls[i] ELSE h[i - 1] \o ls[i]
      <4>1. CASE i = 1
        <5>1. f[1] = f[1 - 1] \o ls[1] /\ f[0] = <<>> /\ ls[1] \in Seq(X)
          BY <1>1, <1>3, <4>1 DEF Grown
        <5>2. 1 - 1 = 0
          OBVIOUS
        <5>3. <<>> \o ls[1] = ls[1]
          BY <5>1, ConcatEmptySeq
        <5>4. f[1] = ls[1]
          BY <5>1, <5>2, <5>3, Zenon
        <5> QED
          BY <3>1, <4>1, <5>4
      <4>2. CASE i # 1
        <5>1. i - 1 \in 1..n
          BY <1>1, <4>2
        <5> QED
          BY <1>3, <3>1, <4>2, <5>1 DEF Grown
      <4> QED
        BY <4>1, <4>2
    <3>3. P(h)
      BY <3>1, <3>2
    <3> QED
      BY <3>3 DEF h
  <2> HIDE DEF P
  <2>3. P(c)
    BY <2>2
  <2> DEFINE g == [i \in 0..n |-> IF i = 0 THEN <<>> ELSE c[i]]
  <2> HIDE DEF c
  <2>4. \A i \in 1..n : c[i] = IF i = 1 THEN ls[i] ELSE c[i - 1] \o ls[i]
    BY <2>3 DEF P
  <2>5. g[0] = <<>> /\ \A i \in 1..n : g[i] = c[i]
    BY <1>1
  <2> HIDE DEF g
  <2>6. ASSUME NEW i \in 1..n PROVE g[i] = g[i - 1] \o ls[i]
    <3>1. CASE i = 1
      <4>1. g[1] = ls[1] /\ ls[1] \in Seq(X) /\ g[1 - 1] = <<>>
        BY <1>1, <2>4, <2>5, <3>1
      <4> QED
        BY <3>1, <4>1, ConcatEmptySeq
    <3>2. CASE i # 1
      <4>1. i - 1 \in 1..n
        BY <1>1, <3>2
      <4> QED
        BY <2>4, <2>5, <3>2, <4>1
    <3> QED
      BY <3>1, <3>2
  <2>7. n \in 1..n
    BY <1>1, <1>5
  <2>8. Grown(g, ls, n) /\ g[n] = c[n]
    BY <2>5, <2>6, <2>7 DEF Grown
  <2> QED
    BY <2>1, <2>8 DEF n
<1> QED
  BY <1>4, <1>5

LEMMA FlattenTyped ==
  ASSUME NEW X, NEW ls \in Seq(Seq(X))
  PROVE  FlattenSeq(ls) \in Seq(X)
<1>1. PICK f : Grown(f, ls, Len(ls)) /\ f[Len(ls)] = FlattenSeq(ls)
  BY FlattenGrown
<1>2. Len(ls) \in Nat /\ \A i \in 1..Len(ls) : ls[i] \in Seq(X)
  OBVIOUS
<1>3. Len(ls) \in 0..Len(ls)
  BY <1>2
<1> QED
  BY <1>1, <1>2, <1>3, GrownTyped

-----------------------------------------------------------------------------
(* The ranges that sort splits.                                            *)

Halves(ranges) ==
  UNION {{Tree!LeftHalf(range), Tree!RightHalf(range)} : range \in {r \in ranges : ~Tree!IsLeaf(r)}}

LEMMA SplitsSteps ==
  /\ Splits[0] = {Tree!Root}
  /\ \A depth \in 1..N : Splits[depth] = Halves(Splits[depth - 1])
<1> DEFINE Def(f, m) == f = [i \in 0..m |-> IF i = 0 THEN {Tree!Root} ELSE Halves(f[i - 1])]
           S == {m \in Nat : \E f : Def(f, m)}
<1>1. N \in Nat
  BY GeocoderAssumption DEF GeocoderAssumption
<1>2. 0 \in S
  <2>1. Def([i \in 0..0 |-> {Tree!Root}], 0)
    OBVIOUS
  <2> QED
    BY <2>1
<1>3. ASSUME NEW m \in S PROVE m + 1 \in S
  <2>1. PICK f : Def(f, m)
    OBVIOUS
  <2> DEFINE g == [i \in 0..m + 1 |-> IF i = m + 1 THEN Halves(f[m]) ELSE f[i]]
  <2>2. m \in Nat
    OBVIOUS
  <2>3. \A i \in 0..m : f[i] = IF i = 0 THEN {Tree!Root} ELSE Halves(f[i - 1])
    BY <2>1
  <2>4. g[m + 1] = Halves(f[m]) /\ \A i \in 0..m : g[i] = f[i]
    <3>1. m + 1 \in 0..m + 1 /\ \A i \in 0..m : i # m + 1 /\ i \in 0..m + 1
      BY <2>2
    <3> QED
      BY <3>1
  <2>5. g = [i \in 0..m + 1 |-> g[i]]
    OBVIOUS
  <2> HIDE DEF g
  <2>6. ASSUME NEW i \in 0..m + 1
        PROVE  g[i] = IF i = 0 THEN {Tree!Root} ELSE Halves(g[i - 1])
    <3>1. CASE i = m + 1
      <4>1. i - 1 = m /\ i # 0 /\ m \in 0..m
        BY <2>2, <3>1
      <4> QED
        BY <2>4, <3>1, <4>1
    <3>2. CASE i \in 0..m /\ i # 0
      <4>1. i - 1 \in 0..m
        BY <2>2, <3>2
      <4> QED
        BY <2>3, <2>4, <3>2, <4>1
    <3>3. CASE i = 0
      BY <2>2, <2>3, <2>4, <3>3
    <3> QED
      BY <2>2, <3>1, <3>2, <3>3
  <2>7. Def(g, m + 1)
    BY <2>5, <2>6
  <2> HIDE DEF Def
  <2>8. \E h : Def(h, m + 1)
    BY <2>7
  <2> QED
    BY <2>2, <2>8
<1>4. S = Nat
  <2> HIDE DEF S
  <2>1. S \in SUBSET Nat
    BY DEF S
  <2> QED
    BY <1>2, <1>3, <2>1, Induction
<1>5. \E f : Def(f, N)
  BY <1>1, <1>4
<1>6. Splits = CHOOSE f : Def(f, N)
  BY DEF Splits, Halves
<1> HIDE DEF Def, S
<1>7. Def(Splits, N)
  BY <1>5, <1>6
<1>8. \A i \in 0..N : Splits[i] = IF i = 0 THEN {Tree!Root} ELSE Halves(Splits[i - 1])
  <2> DEFINE f == Splits
  <2> HIDE DEF f
  <2>1. Def(f, N)
    BY <1>7 DEF f
  <2>2. \A i \in 0..N : f[i] = IF i = 0 THEN {Tree!Root} ELSE Halves(f[i - 1])
    BY <2>1 DEF Def
  <2> QED
    BY <2>2 DEF f
<1>9. 0 \in 0..N /\ \A depth \in 1..N : depth \in 0..N /\ depth # 0
  BY <1>1
<1> QED
  BY <1>8, <1>9

\* The ranges at a depth; each level takes one point at least.
Ranges(depth) ==
  {r \in [left : Int, right : Int, axis : 0..1] :
     /\ 0 <= r.left /\ r.left <= r.right + 1 /\ r.right < N
     /\ r.right - r.left + 1 <= N - depth}

\* Halves stay in the array and become smaller with the depth.
LEMMA HalvesRanges ==
  ASSUME NEW depth \in Nat, NEW range \in Ranges(depth), ~Tree!IsLeaf(range)
  PROVE  /\ Tree!Mid(range) \in range.left..range.right
         /\ Tree!LeftHalf(range) \in Ranges(depth + 1)
         /\ Tree!RightHalf(range) \in Ranges(depth + 1)
         /\ Tree!LeftHalf(range).left = range.left
         /\ Tree!LeftHalf(range).right = Tree!Mid(range) - 1
         /\ Tree!RightHalf(range).left = Tree!Mid(range) + 1
         /\ Tree!RightHalf(range).right = range.right
         /\ depth < N
<1> DEFINE l == range.left
           r == range.right
           m == Tree!Mid(range)
           x == (range.axis + 1) % 2
<1>1. /\ l \in Int /\ r \in Int /\ range.axis \in 0..1 /\ 0 <= l /\ r < N /\ N \in Nat
      /\ r - l + 1 <= N - depth /\ depth \in Nat
  BY GeocoderAssumption DEF GeocoderAssumption, Ranges
<1>2. r - l > 0
  BY <1>1, GeocoderAssumption DEF GeocoderAssumption, Tree!IsLeaf
<1>3. m = (l + r) \div 2
  BY DEF Tree!Mid
<1>4. x \in 0..1
  BY <1>1
<1>5. /\ Tree!LeftHalf(range) = [left |-> l, right |-> m - 1, axis |-> x]
      /\ Tree!RightHalf(range) = [left |-> m + 1, right |-> r, axis |-> x]
  BY DEF Tree!LeftHalf, Tree!RightHalf, Tree!Span
<1> HIDE DEF l, r, m, x
<1>6. m \in Int /\ l <= m /\ m < r
  BY <1>1, <1>2, <1>3
<1>7. /\ [left |-> l, right |-> m - 1, axis |-> x] \in Ranges(depth + 1)
      /\ [left |-> m + 1, right |-> r, axis |-> x] \in Ranges(depth + 1)
  BY <1>1, <1>4, <1>6 DEF Ranges
<1>8. depth < N
  BY <1>1, <1>2
<1> QED
  BY <1>1, <1>5, <1>6, <1>7, <1>8 DEF l, r, m

LEMMA SplitsRanges ==
  ASSUME NEW depth \in 0..N
  PROVE  Splits[depth] \subseteq Ranges(depth)
<1> DEFINE S == {d \in Nat : d <= N => Splits[d] \subseteq Ranges(d)}
<1>1. N \in Nat
  BY GeocoderAssumption DEF GeocoderAssumption
<1>2. 0 \in S
  <2>1. Tree!Root \in Ranges(0)
    BY <1>1 DEF Ranges, Tree!Root, Tree!Span
  <2> QED
    BY <2>1, SplitsSteps
<1>3. ASSUME NEW d \in S PROVE d + 1 \in S
  <2> SUFFICES ASSUME d + 1 <= N, NEW half \in Splits[d + 1] PROVE half \in Ranges(d + 1)
    OBVIOUS
  <2>1. d \in Nat /\ d + 1 \in 1..N /\ (d + 1) - 1 = d /\ Splits[d] \subseteq Ranges(d)
    BY <1>1
  <2>2. half \in Halves(Splits[d])
    BY <2>1, SplitsSteps
  <2>3. PICK range \in Splits[d] :
          ~Tree!IsLeaf(range) /\ half \in {Tree!LeftHalf(range), Tree!RightHalf(range)}
    BY <2>2 DEF Halves
  <2> QED
    BY <2>1, <2>3, HalvesRanges
<1> HIDE DEF S
<1>4. S \in SUBSET Nat
  BY DEF S
<1>5. depth \in S
  BY <1>1, <1>2, <1>3, <1>4, Induction
<1> QED
  BY <1>1, <1>5 DEF S

AllRanges == UNION {Splits[depth] : depth \in 0..N}

\* The halves of a range that sort splits are ranges that it comes to.
LEMMA RangesSplit ==
  /\ Tree!Root \in AllRanges
  /\ \A range \in AllRanges :
       /\ range.left \in Int /\ range.right \in Int /\ range.axis \in 0..1
       /\ 0 <= range.left /\ range.left <= range.right + 1 /\ range.right < N
       /\ ~Tree!IsLeaf(range) =>
            /\ Tree!Mid(range) \in range.left..range.right
            /\ Tree!LeftHalf(range) \in AllRanges /\ Tree!RightHalf(range) \in AllRanges
            /\ Tree!LeftHalf(range).left = range.left
            /\ Tree!LeftHalf(range).right = Tree!Mid(range) - 1
            /\ Tree!RightHalf(range).left = Tree!Mid(range) + 1
            /\ Tree!RightHalf(range).right = range.right
<1>1. N \in Nat
  BY GeocoderAssumption DEF GeocoderAssumption
<1>2. Tree!Root \in AllRanges
  BY <1>1, SplitsSteps DEF AllRanges
<1>3. ASSUME NEW range \in AllRanges
      PROVE  /\ range.left \in Int /\ range.right \in Int /\ range.axis \in 0..1
             /\ 0 <= range.left /\ range.left <= range.right + 1 /\ range.right < N
  <2>1. PICK depth \in 0..N : range \in Splits[depth]
    BY DEF AllRanges
  <2> QED
    BY <2>1, SplitsRanges DEF Ranges
<1>4. ASSUME NEW range \in AllRanges, ~Tree!IsLeaf(range)
      PROVE  /\ Tree!Mid(range) \in range.left..range.right
             /\ Tree!LeftHalf(range) \in AllRanges /\ Tree!RightHalf(range) \in AllRanges
             /\ Tree!LeftHalf(range).left = range.left
             /\ Tree!LeftHalf(range).right = Tree!Mid(range) - 1
             /\ Tree!RightHalf(range).left = Tree!Mid(range) + 1
             /\ Tree!RightHalf(range).right = range.right
  <2>1. PICK depth \in 0..N : range \in Splits[depth]
    BY DEF AllRanges
  <2>2. range \in Ranges(depth)
    BY <2>1, SplitsRanges
  <2>3. depth + 1 \in 1..N /\ depth + 1 \in 0..N /\ (depth + 1) - 1 = depth
    BY <1>1, <1>4, <2>2, HalvesRanges
  <2>4. Tree!LeftHalf(range) \in Splits[depth + 1] /\ Tree!RightHalf(range) \in Splits[depth + 1]
    BY <1>4, <2>1, <2>3, SplitsSteps DEF Halves
  <2>5. Tree!LeftHalf(range) \in AllRanges /\ Tree!RightHalf(range) \in AllRanges
    BY <2>3, <2>4 DEF AllRanges
  <2> QED
    BY <1>4, <2>2, <2>5, HalvesRanges
<1> QED
  BY <1>2, <1>3, <1>4

-----------------------------------------------------------------------------
(* The walk of the geocoder in memory: in the order ord of the points of   *)
(* inp, asked at the place at.                                             *)

PointAt(inp, ord, i) == inp.points[ord[i] + 1]

Dist(inp, ord, at, i) == DistanceSquared(PointAt(inp, ord, i).c, at)

Close(inp, ord, at, i) == Dist(inp, ord, at, i) <= Radius * Radius

\* What is kept when the point at a position has been looked at, and after the
\* points at some positions in a row.
See(inp, ord, at, kept, i) ==
  IF Close(inp, ord, at, i) THEN Keep(kept, PointAt(inp, ord, i), Dist(inp, ord, at, i)) ELSE kept

SeesBy(f, inp, ord, at, kept, first, size) ==
  /\ f[0] = kept
  /\ \A j \in 1..size : f[j] = See(inp, ord, at, f[j - 1], first + j - 1)

Sees(inp, ord, at, kept, first, size, after) ==
  \E f : SeesBy(f, inp, ord, at, kept, first, size) /\ f[size] = after

Meeting(inp, ord, at, range) ==
  LET x == PointAt(inp, ord, Tree!Mid(range)).c[range.axis]
  IN  (IF at[range.axis] + Radius >= x THEN <<Tree!RightHalf(range)>> ELSE <<>>)
        \o (IF at[range.axis] - Radius <= x THEN <<Tree!LeftHalf(range)>> ELSE <<>>)

Nowhere == [found |-> FALSE]

\* The walk from one configuration, the ranges to visit and the point kept, to the next.
Steps(inp, ord, at, a, b) ==
  /\ a.stack # <<>>
  /\ IF Tree!IsLeaf(Head(a.stack))
     THEN /\ Sees(inp, ord, at, a.best, Head(a.stack).left,
                  Head(a.stack).right - Head(a.stack).left + 1, b.best)
          /\ b.stack = Tail(a.stack)
     ELSE /\ Sees(inp, ord, at, a.best, Tree!Mid(Head(a.stack)), 1, b.best)
          /\ b.stack = Meeting(inp, ord, at, Head(a.stack)) \o Tail(a.stack)

Walk(inp, ord, at, w, k) ==
  /\ w[0] = [stack |-> <<Tree!Root>>, best |-> Nowhere]
  /\ \A i \in 1..k : Steps(inp, ord, at, w[i - 1], w[i])

\* What a walk that has come to its end has kept.
Keeps(inp, ord, at, kept) ==
  \E w : \E k \in Nat : Walk(inp, ord, at, w, k) /\ w[k].stack = <<>> /\ w[k].best = kept

-----------------------------------------------------------------------------
(* There is one walk.                                                      *)

\* What is kept after some positions is determined.
LEMMA SeesSame ==
  ASSUME NEW inp, NEW ord, NEW at, NEW kept, NEW first, NEW size \in Nat, NEW a, NEW b,
         Sees(inp, ord, at, kept, first, size, a), Sees(inp, ord, at, kept, first, size, b)
  PROVE  a = b
<1>1. PICK f : SeesBy(f, inp, ord, at, kept, first, size) /\ f[size] = a
  BY DEF Sees
<1>2. PICK g : SeesBy(g, inp, ord, at, kept, first, size) /\ g[size] = b
  BY DEF Sees
<1> DEFINE S == {i \in Nat : i <= size => f[i] = g[i]}
<1>3. 0 \in S
  BY <1>1, <1>2 DEF SeesBy
<1>4. ASSUME NEW i \in S PROVE i + 1 \in S
  <2> SUFFICES ASSUME i + 1 <= size PROVE f[i + 1] = g[i + 1]
    OBVIOUS
  <2>1. i + 1 \in 1..size /\ (i + 1) - 1 = i /\ f[i] = g[i]
    OBVIOUS
  <2>2. /\ f[i + 1] = See(inp, ord, at, f[i], first + (i + 1) - 1)
        /\ g[i + 1] = See(inp, ord, at, g[i], first + (i + 1) - 1)
    BY <1>1, <1>2, <2>1 DEF SeesBy
  <2> QED
    BY <2>1, <2>2
<1> HIDE DEF S
<1>5. S \in SUBSET Nat
  BY DEF S
<1>6. size \in S
  BY <1>3, <1>4, <1>5, Induction
<1> QED
  BY <1>1, <1>2, <1>6 DEF S

\* Every range of a walk is one that sort has split, or a leaf.
LEMMA StepRanges ==
  ASSUME NEW inp, NEW ord, NEW at, NEW a, NEW b, a.stack \in Seq(AllRanges),
         Steps(inp, ord, at, a, b)
  PROVE  b.stack \in Seq(AllRanges)
<1>1. a.stack # <<>> /\ Head(a.stack) \in AllRanges /\ Tail(a.stack) \in Seq(AllRanges)
  BY HeadTailProperties DEF Steps
<1>2. CASE Tree!IsLeaf(Head(a.stack))
  BY <1>1, <1>2 DEF Steps
<1>3. CASE ~Tree!IsLeaf(Head(a.stack))
  <2> DEFINE range == Head(a.stack)
             right == Tree!RightHalf(range)
             left == Tree!LeftHalf(range)
  <2>1. right \in AllRanges /\ left \in AllRanges
    BY <1>1, <1>3, RangesSplit
  <2> HIDE DEF right, left
  <2>2. /\ <<right>> \in Seq(AllRanges) /\ <<left>> \in Seq(AllRanges)
        /\ <<>> \in Seq(AllRanges)
    BY <2>1
  <2>3. Meeting(inp, ord, at, range) \in Seq(AllRanges)
    BY <2>2, ConcatProperties DEF Meeting, right, left
  <2> QED
    BY <1>1, <1>3, <2>3, ConcatProperties DEF Steps
<1> QED
  BY <1>2, <1>3

\* Every range that a walk has still to visit is one of the tree.
LEMMA WalkRanges ==
  ASSUME NEW inp, NEW ord, NEW at, NEW w, NEW k \in Nat, Walk(inp, ord, at, w, k), NEW i \in 0..k
  PROVE  w[i].stack \in Seq(AllRanges)
<1> DEFINE S == {j \in Nat : j <= k => w[j].stack \in Seq(AllRanges)}
<1>1. 0 \in S
  <2>1. w[0].stack = <<Tree!Root>>
    BY DEF Walk
  <2>2. Tree!Root \in AllRanges
    BY RangesSplit
  <2>3. w[0].stack \in Seq(AllRanges)
    BY <2>1, <2>2
  <2> QED
    BY <2>3
<1>2. ASSUME NEW j \in S PROVE j + 1 \in S
  <2> SUFFICES ASSUME j + 1 <= k PROVE w[j + 1].stack \in Seq(AllRanges)
    OBVIOUS
  <2>1. j + 1 \in 1..k /\ (j + 1) - 1 = j /\ w[j].stack \in Seq(AllRanges)
    OBVIOUS
  <2>2. Steps(inp, ord, at, w[j], w[j + 1])
    BY <2>1 DEF Walk
  <2> QED
    BY <2>1, <2>2, StepRanges
<1> HIDE DEF S
<1>3. S \in SUBSET Nat
  BY DEF S
<1>4. i \in S
  BY <1>1, <1>2, <1>3, Induction
<1> QED
  BY <1>4 DEF S

\* A step is determined by the ranges and the point kept.
LEMMA StepsSame ==
  ASSUME NEW inp, NEW ord, NEW at, NEW a, NEW b, NEW c, NEW d, a.stack \in Seq(AllRanges),
         a.stack = c.stack, a.best = c.best,
         Steps(inp, ord, at, a, b), Steps(inp, ord, at, c, d)
  PROVE  b.stack = d.stack /\ b.best = d.best
<1> DEFINE range == Head(a.stack)
           size == range.right - range.left + 1
<1>1. range \in AllRanges
  BY HeadTailProperties DEF Steps
<1>2. size \in Nat /\ 1 \in Nat
  BY <1>1, RangesSplit
<1>3. CASE Tree!IsLeaf(range)
  <2>1. /\ Sees(inp, ord, at, a.best, range.left, size, b.best)
        /\ Sees(inp, ord, at, a.best, range.left, size, d.best)
        /\ b.stack = Tail(a.stack) /\ d.stack = Tail(a.stack)
    BY <1>3 DEF Steps
  <2> HIDE DEF size, range
  <2> QED
    BY <1>2, <2>1, SeesSame
<1>4. CASE ~Tree!IsLeaf(range)
  <2>1. /\ Sees(inp, ord, at, a.best, Tree!Mid(range), 1, b.best)
        /\ Sees(inp, ord, at, a.best, Tree!Mid(range), 1, d.best)
        /\ b.stack = Meeting(inp, ord, at, range) \o Tail(a.stack)
        /\ d.stack = Meeting(inp, ord, at, range) \o Tail(a.stack)
    BY <1>4 DEF Steps
  <2> HIDE DEF size, range
  <2> QED
    BY <1>2, <2>1, SeesSame
<1> QED
  BY <1>3, <1>4

\* Two walks are the same as far as both go.
LEMMA WalksSame ==
  ASSUME NEW inp, NEW ord, NEW at, NEW v, NEW w, NEW k \in Nat, NEW m \in Nat,
         Walk(inp, ord, at, v, k), Walk(inp, ord, at, w, m), NEW i \in Nat, i <= k, i <= m
  PROVE  v[i].stack = w[i].stack /\ v[i].best = w[i].best
<1> DEFINE P(j) == v[j].stack = w[j].stack /\ v[j].best = w[j].best
           S == {j \in Nat : j <= k /\ j <= m => P(j)}
<1>1. 0 \in S
  BY DEF Walk
<1>2. ASSUME NEW j \in S PROVE j + 1 \in S
  <2> SUFFICES ASSUME j + 1 <= k, j + 1 <= m PROVE P(j + 1)
    OBVIOUS
  <2>1. j + 1 \in 1..k /\ j + 1 \in 1..m /\ (j + 1) - 1 = j /\ P(j) /\ j \in 0..k
    OBVIOUS
  <2>2. Steps(inp, ord, at, v[j], v[j + 1]) /\ Steps(inp, ord, at, w[j], w[j + 1])
    BY <2>1 DEF Walk
  <2>3. v[j].stack \in Seq(AllRanges)
    BY <2>1, WalkRanges
  <2> QED
    BY <2>1, <2>2, <2>3, StepsSame
<1> HIDE DEF S
<1>3. S \in SUBSET Nat
  BY DEF S
<1>4. i \in S
  BY <1>1, <1>2, <1>3, Induction
<1> QED
  BY <1>4 DEF S

\* Two walks that have come to their end have kept the same.
LEMMA KeepsSame ==
  ASSUME NEW inp, NEW ord, NEW at, NEW a, NEW b,
         Keeps(inp, ord, at, a), Keeps(inp, ord, at, b)
  PROVE  a = b
<1>1. PICK v : \E k \in Nat : Walk(inp, ord, at, v, k) /\ v[k].stack = <<>> /\ v[k].best = a
  BY DEF Keeps
<1>2. PICK k \in Nat : Walk(inp, ord, at, v, k) /\ v[k].stack = <<>> /\ v[k].best = a
  BY <1>1
<1>3. PICK w : \E m \in Nat : Walk(inp, ord, at, w, m) /\ w[m].stack = <<>> /\ w[m].best = b
  BY DEF Keeps
<1>4. PICK m \in Nat : Walk(inp, ord, at, w, m) /\ w[m].stack = <<>> /\ w[m].best = b
  BY <1>3
<1>5. CASE k < m
  <2>1. w[k].stack = <<>>
    BY <1>2, <1>4, <1>5, WalksSame
  <2>2. k + 1 \in 1..m /\ (k + 1) - 1 = k
    BY <1>5
  <2>3. Steps(inp, ord, at, w[k], w[k + 1])
    BY <1>4, <2>2 DEF Walk
  <2> QED
    BY <2>1, <2>3 DEF Steps
<1>6. CASE m < k
  <2>1. v[m].stack = <<>>
    BY <1>2, <1>4, <1>6, WalksSame
  <2>2. m + 1 \in 1..k /\ (m + 1) - 1 = m
    BY <1>6
  <2>3. Steps(inp, ord, at, v[m], v[m + 1])
    BY <1>2, <2>2 DEF Walk
  <2> QED
    BY <2>1, <2>3 DEF Steps
<1>7. CASE k = m
  BY <1>2, <1>4, <1>7, WalksSame
<1> QED
  BY <1>5, <1>6, <1>7

-----------------------------------------------------------------------------
(* What a walk finds.                                                      *)

\* What sort guarantees of the points in its order.
SplitAll(inp, ord) ==
  \A range \in AllRanges : ~Tree!IsLeaf(range) =>
    /\ \A i \in range.left..Tree!Mid(range) - 1 :
         PointAt(inp, ord, i).c[range.axis] <= PointAt(inp, ord, Tree!Mid(range)).c[range.axis]
    /\ \A i \in Tree!Mid(range) + 1..range.right :
         PointAt(inp, ord, i).c[range.axis] >= PointAt(inp, ord, Tree!Mid(range)).c[range.axis]

KeptFits(inp, ord, at, kept) ==
  \/ kept = Nowhere
  \/ \E i \in 0..N-1 :
       /\ Close(inp, ord, at, i)
       /\ kept = [found |-> TRUE, data |-> PointAt(inp, ord, i), dist |-> Dist(inp, ord, at, i)]

EquallyHeavy(inp, ord, at) ==
  \A i, j \in 0..N-1 : Close(inp, ord, at, i) /\ Close(inp, ord, at, j) =>
    PointAt(inp, ord, i).weight = PointAt(inp, ord, j).weight

\* A point is kept that is not farther than the one at a position.
Beats(inp, ord, at, kept, i) ==
  kept.found /\ (EquallyHeavy(inp, ord, at) => kept.dist <= Dist(inp, ord, at, i))

\* Every point in the radius is still to be visited, or one as good is kept.
Covers(inp, ord, at, c) ==
  /\ c.stack \in Seq(AllRanges)
  /\ KeptFits(inp, ord, at, c.best)
  /\ \A i \in 0..N-1 : Close(inp, ord, at, i) =>
       \/ \E j \in 1..Len(c.stack) : i \in c.stack[j].left..c.stack[j].right
       \/ Beats(inp, ord, at, c.best, i)

LEMMA InputTyped ==
  ASSUME NEW inp \in Inputs
  PROVE  /\ inp.points \in Seq(Point) /\ Len(inp.points) = N /\ inp.zones \in Seq(Zone)
         /\ N \in Nat /\ \A i \in 1..N : inp.points[i] \in Point
<1>1. /\ inp \in [points: {points \in Seq(Point) : Len(points) = N}, zones: Seq(Zone)]
      /\ N \in Nat
  BY GeocoderAssumption DEF GeocoderAssumption
<1> QED
  BY <1>1

LEMMA PointTyped ==
  ASSUME NEW inp \in Inputs, NEW ord \in Permutations0, NEW i \in 0..N-1
  PROVE  /\ ord[i] \in 0..N-1 /\ ord[i] + 1 \in 1..N
         /\ PointAt(inp, ord, i) \in Point
         /\ PointAt(inp, ord, i).weight \in Int
         /\ \A axis \in 0..1 : PointAt(inp, ord, i).c[axis] \in Int
<1>1. ord \in [0..N-1 -> 0..N-1] /\ N \in Nat
  BY GeocoderAssumption DEF GeocoderAssumption, Permutations0
<1>2. ord[i] \in 0..N-1 /\ ord[i] + 1 \in 1..N
  BY <1>1
<1>3. PointAt(inp, ord, i) \in Point
  BY <1>2, InputTyped DEF PointAt
<1>4. \A p \in Point : p.weight \in Int /\ \A axis \in 0..1 : p.c[axis] \in Int
  BY DEF Point, Coordinates
<1> QED
  BY <1>2, <1>3, <1>4

LEMMA DistanceInt ==
  ASSUME NEW a \in Coordinates, NEW b \in Coordinates
  PROVE  DistanceSquared(a, b) \in Int
<1>1. a[0] \in Int /\ a[1] \in Int /\ b[0] \in Int /\ b[1] \in Int
  BY DEF Coordinates
<1> QED
  BY <1>1 DEF DistanceSquared

LEMMA DistTyped ==
  ASSUME NEW inp \in Inputs, NEW ord \in Permutations0, NEW at \in Coordinates, NEW i \in 0..N-1
  PROVE  Dist(inp, ord, at, i) \in Int
<1>1. PointAt(inp, ord, i).c \in Coordinates
  BY PointTyped DEF Point
<1> QED
  BY <1>1, DistanceInt DEF Dist

LEMMA Square == ASSUME NEW a \in Int PROVE a * a \in Int /\ a * a >= 0
<1>1. CASE a >= 0
  BY <1>1
<1>2. CASE a <= 0
  BY <1>2
<1> QED
  BY <1>1, <1>2

\* A square is no larger than another only if its root is not.
LEMMA SquareBound ==
  ASSUME NEW a \in Int, NEW r \in Nat, a * a <= r * r
  PROVE  -r <= a /\ a <= r
<1>1. CASE a > r
  <2>1. a * a = r * r + (a - r) * (a + r)
    BY <1>1
  <2>2. (a - r) * (a + r) > 0
    BY <1>1
  <2> QED
    BY <2>1, <2>2
<1>2. CASE -r > a
  <2> DEFINE b == -a
  <2>1. b \in Int /\ b > r /\ a * a = b * b
    BY <1>2
  <2>2. b * b = r * r + (b - r) * (b + r)
    BY <2>1
  <2>3. (b - r) * (b + r) > 0
    BY <2>1
  <2> QED
    BY <2>1, <2>2, <2>3
<1> QED
  BY <1>1, <1>2

\* A point in the radius lies in the square around the place.
LEMMA InSquare ==
  ASSUME NEW inp \in Inputs, NEW ord \in Permutations0, NEW at \in Coordinates, NEW i \in 0..N-1,
         Close(inp, ord, at, i), NEW axis \in 0..1
  PROVE  /\ PointAt(inp, ord, i).c[axis] <= at[axis] + Radius
         /\ at[axis] - Radius <= PointAt(inp, ord, i).c[axis]
<1> DEFINE c == PointAt(inp, ord, i).c
           dx == c[0] - at[0]
           dy == c[1] - at[1]
<1>1. c[0] \in Int /\ c[1] \in Int /\ at[0] \in Int /\ at[1] \in Int
  BY PointTyped DEF Coordinates
<1>2. Radius \in Nat
  BY GeocoderAssumption DEF GeocoderAssumption
<1>3. dx * dx + dy * dy <= Radius * Radius
  BY DEF Close, Dist, DistanceSquared
<1>4. dx \in Int /\ dy \in Int
  BY <1>1
<1>5. /\ dx * dx \in Int /\ dx * dx >= 0 /\ dy * dy \in Int /\ dy * dy >= 0
      /\ Radius * Radius \in Int
  <2> HIDE DEF dx, dy
  <2> QED
    BY <1>2, <1>4, Square
<1>6. dx * dx <= Radius * Radius /\ dy * dy <= Radius * Radius
  <2> DEFINE p == dx * dx
             q == dy * dy
             r == Radius * Radius
  <2>1. p \in Int /\ q \in Int /\ p >= 0 /\ q >= 0 /\ r \in Int /\ p + q <= r
    BY <1>3, <1>5
  <2> HIDE DEF p, q, r
  <2>2. p <= r /\ q <= r
    BY <2>1
  <2> QED
    BY <2>2 DEF p, q, r
<1>7. -Radius <= dx /\ dx <= Radius /\ -Radius <= dy /\ dy <= Radius
  <2> HIDE DEF dx, dy
  <2> QED
    BY <1>2, <1>4, <1>6, SquareBound
<1>8. CASE axis = 0
  BY <1>1, <1>2, <1>7, <1>8
<1>9. CASE axis = 1
  BY <1>1, <1>2, <1>7, <1>9
<1> QED
  BY <1>8, <1>9

\* Looking at one position keeps a point of the radius, and nothing worse.
LEMMA SeeFits ==
  ASSUME NEW inp \in Inputs, NEW ord \in Permutations0, NEW at \in Coordinates,
         NEW kept, KeptFits(inp, ord, at, kept), NEW i \in 0..N-1
  PROVE  /\ KeptFits(inp, ord, at, See(inp, ord, at, kept, i))
         /\ Close(inp, ord, at, i) => Beats(inp, ord, at, See(inp, ord, at, kept, i), i)
         /\ \A p \in 0..N-1 :
              Close(inp, ord, at, p) /\ Beats(inp, ord, at, kept, p) =>
                Beats(inp, ord, at, See(inp, ord, at, kept, i), p)
<1> DEFINE d(p) == Dist(inp, ord, at, p)
           pt(p) == PointAt(inp, ord, p)
           new == [found |-> TRUE, data |-> pt(i), dist |-> d(i)]
           after == See(inp, ord, at, kept, i)
<1>1. \A p \in 0..N-1 : d(p) \in Int /\ pt(p).weight \in Int
  BY DistTyped, PointTyped
<1>2. CASE ~Close(inp, ord, at, i)
  BY <1>2 DEF See
<1>3. CASE Close(inp, ord, at, i)
  <2>1. after = IF ~kept.found \/ d(i) < kept.dist \/ pt(i).weight > kept.data.weight
                THEN new ELSE kept
    BY <1>3 DEF See, Keep
  <2>2. new.found /\ new.dist = d(i) /\ new.data = pt(i) /\ KeptFits(inp, ord, at, new)
    BY <1>3 DEF KeptFits
  <2>3. CASE kept = Nowhere
    <3>1. ~kept.found
      BY <2>3 DEF Nowhere
    <3>2. after = new
      BY <2>1, <3>1
    <3> QED
      BY <1>1, <2>2, <3>1, <3>2 DEF Beats
  <2>4. CASE \E q \in 0..N-1 : /\ Close(inp, ord, at, q)
                               /\ kept = [found |-> TRUE, data |-> pt(q), dist |-> d(q)]
    <3>1. PICK q \in 0..N-1 : /\ Close(inp, ord, at, q)
                              /\ kept = [found |-> TRUE, data |-> pt(q), dist |-> d(q)]
      BY <2>4
    <3>2. kept.found /\ kept.dist = d(q) /\ kept.data = pt(q)
      BY <3>1
    <3>3. KeptFits(inp, ord, at, after)
      BY <2>1, <2>2
    <3> HIDE DEF d, pt, new, after
    <3>4. EquallyHeavy(inp, ord, at) => pt(i).weight = pt(q).weight
      BY <1>3, <3>1 DEF EquallyHeavy, pt
    <3>5. after.found
      BY <2>1, <2>2, <3>2
    <3>6. EquallyHeavy(inp, ord, at) => after.dist <= d(i) /\ after.dist <= d(q)
      <4> SUFFICES ASSUME EquallyHeavy(inp, ord, at) PROVE after.dist <= d(i) /\ after.dist <= d(q)
        OBVIOUS
      <4>1. ~(pt(i).weight > kept.data.weight)
        BY <1>1, <3>2, <3>4
      <4>2. CASE d(i) < d(q)
        BY <1>1, <2>1, <2>2, <3>2, <4>2
      <4>3. CASE ~(d(i) < d(q))
        BY <1>1, <2>1, <3>2, <4>1, <4>3
      <4> QED
        BY <4>2, <4>3
    <3>7. EquallyHeavy(inp, ord, at) => after.dist \in Int
      BY <1>1, <2>1, <2>2, <3>2
    <3>8. Beats(inp, ord, at, after, i)
      BY <3>5, <3>6 DEF Beats, d
    <3>9. \A p \in 0..N-1 : Beats(inp, ord, at, kept, p) => Beats(inp, ord, at, after, p)
      BY <1>1, <3>2, <3>5, <3>6, <3>7 DEF Beats, d
    <3> QED
      BY <3>3, <3>8, <3>9 DEF after
  <2> QED
    BY <2>3, <2>4 DEF KeptFits
<1> QED
  BY <1>2, <1>3

\* Looking at the points of some positions keeps one as good as each of them.
LEMMA SeesFits ==
  ASSUME NEW inp \in Inputs, NEW ord \in Permutations0, NEW at \in Coordinates,
         NEW kept, KeptFits(inp, ord, at, kept), NEW first \in Int, NEW size \in Nat,
         \A j \in 1..size : first + j - 1 \in 0..N-1,
         NEW after, Sees(inp, ord, at, kept, first, size, after)
  PROVE  /\ KeptFits(inp, ord, at, after)
         /\ \A p \in 0..N-1 :
              Close(inp, ord, at, p) /\
              (p \in first..first + size - 1 \/ Beats(inp, ord, at, kept, p)) =>
                Beats(inp, ord, at, after, p)
<1>1. PICK f : SeesBy(f, inp, ord, at, kept, first, size) /\ f[size] = after
  BY DEF Sees
<1> DEFINE P(j) == /\ KeptFits(inp, ord, at, f[j])
                   /\ \A p \in 0..N-1 : Close(inp, ord, at, p) /\
                        (p \in first..first + j - 1 \/ Beats(inp, ord, at, kept, p)) =>
                          Beats(inp, ord, at, f[j], p)
           S == {j \in Nat : j <= size => P(j)}
<1>2. 0 \in S
  <2>1. f[0] = kept
    BY <1>1 DEF SeesBy
  <2>2. P(0)
    BY <2>1
  <2> QED
    BY <2>2
<1>3. ASSUME NEW j \in S PROVE j + 1 \in S
  <2> SUFFICES ASSUME j + 1 <= size PROVE P(j + 1)
    OBVIOUS
  <2>1. j \in Nat /\ j + 1 \in 1..size /\ (j + 1) - 1 = j /\ first + (j + 1) - 1 = first + j /\ P(j)
    OBVIOUS
  <2>2. f[j + 1] = See(inp, ord, at, f[j], first + j) /\ first + j \in 0..N-1
    <3>1. f[j + 1] = See(inp, ord, at, f[(j + 1) - 1], first + (j + 1) - 1)
      BY <1>1, <2>1 DEF SeesBy
    <3> QED
      BY <2>1, <3>1
  <2>3. KeptFits(inp, ord, at, f[j])
    BY <2>1
  <2>4. /\ KeptFits(inp, ord, at, f[j + 1])
        /\ Close(inp, ord, at, first + j) => Beats(inp, ord, at, f[j + 1], first + j)
        /\ \A p \in 0..N-1 : Close(inp, ord, at, p) /\ Beats(inp, ord, at, f[j], p) =>
             Beats(inp, ord, at, f[j + 1], p)
    BY <2>2, <2>3, SeeFits
  <2>5. ASSUME NEW p \in 0..N-1, Close(inp, ord, at, p),
               p \in first..first + (j + 1) - 1 \/ Beats(inp, ord, at, kept, p)
        PROVE  Beats(inp, ord, at, f[j + 1], p)
    <3>1. CASE p = first + j
      BY <2>4, <2>5, <3>1
    <3>2. CASE p # first + j
      <4>1. p \in first..first + j - 1 \/ Beats(inp, ord, at, kept, p)
        BY <2>1, <2>5, <3>2
      <4>2. Beats(inp, ord, at, f[j], p)
        BY <2>1, <2>5, <4>1
      <4> QED
        BY <2>4, <2>5, <4>2
    <3> QED
      BY <3>1, <3>2
  <2> QED
    BY <2>4, <2>5
<1> HIDE DEF S
<1>4. S \in SUBSET Nat
  BY DEF S
<1>5. size \in S
  BY <1>2, <1>3, <1>4, Induction
<1>6. P(size)
  BY <1>5 DEF S
<1> QED
  BY <1>1, <1>6

\* What is in the first or in the rest of a sequence of ranges.
LEMMA InHeadOrTail ==
  ASSUME NEW s \in Seq(AllRanges), s # <<>>, NEW i
  PROVE  (\E j \in 1..Len(s) : i \in s[j].left..s[j].right) <=>
           \/ i \in Head(s).left..Head(s).right
           \/ \E j \in 1..Len(Tail(s)) : i \in Tail(s)[j].left..Tail(s)[j].right
<1>1. /\ Len(s) \in Nat /\ Len(s) >= 1 /\ Head(s) = s[1] /\ Len(Tail(s)) = Len(s) - 1
      /\ \A j \in 1..Len(s) - 1 : Tail(s)[j] = s[j + 1]
  BY EmptySeq, HeadTailProperties
<1>2. \A j \in 1..Len(s) : j = 1 \/ (j - 1 \in 1..Len(s) - 1 /\ (j - 1) + 1 = j)
  BY <1>1
<1>3. \A j \in 1..Len(s) - 1 : j + 1 \in 1..Len(s)
  BY <1>1
<1> QED
  BY <1>1, <1>2, <1>3

LEMMA InBoth ==
  ASSUME NEW s \in Seq(AllRanges), NEW t \in Seq(AllRanges), NEW i,
         \/ \E j \in 1..Len(s) : i \in s[j].left..s[j].right
         \/ \E j \in 1..Len(t) : i \in t[j].left..t[j].right
  PROVE  \E j \in 1..Len(s \o t) : i \in (s \o t)[j].left..(s \o t)[j].right
<1>1. /\ Len(s) \in Nat /\ Len(t) \in Nat /\ Len(s \o t) = Len(s) + Len(t)
      /\ \A j \in 1..Len(s) : (s \o t)[j] = s[j]
      /\ \A j \in 1..Len(t) : (s \o t)[Len(s) + j] = t[j]
  BY ConcatProperties
<1> DEFINE st == s \o t
<1> HIDE DEF st
<1>2. CASE \E j \in 1..Len(s) : i \in s[j].left..s[j].right
  <2>1. PICK j \in 1..Len(s) : i \in s[j].left..s[j].right
    BY <1>2
  <2>2. j \in 1..Len(st) /\ st[j] = s[j]
    BY <1>1 DEF st
  <2> QED
    BY <2>1, <2>2 DEF st
<1>3. CASE \E j \in 1..Len(t) : i \in t[j].left..t[j].right
  <2>1. PICK j \in 1..Len(t) : i \in t[j].left..t[j].right
    BY <1>3
  <2>2. Len(s) + j \in 1..Len(st) /\ st[Len(s) + j] = t[j]
    BY <1>1 DEF st
  <2> QED
    BY <2>1, <2>2 DEF st
<1> QED
  BY <1>2, <1>3

\* A half that is not visited holds no point in the radius.
LEMMA MeetingCovers ==
  ASSUME NEW inp \in Inputs, NEW ord \in Permutations0, NEW at \in Coordinates,
         SplitAll(inp, ord), NEW range \in AllRanges, ~Tree!IsLeaf(range),
         NEW i \in 0..N-1, Close(inp, ord, at, i), i \in range.left..range.right,
         i # Tree!Mid(range)
  PROVE  \E j \in 1..Len(Meeting(inp, ord, at, range)) :
           i \in Meeting(inp, ord, at, range)[j].left..Meeting(inp, ord, at, range)[j].right
<1> DEFINE m == Tree!Mid(range)
           left == Tree!LeftHalf(range)
           right == Tree!RightHalf(range)
           axis == range.axis
           x == PointAt(inp, ord, m).c[axis]
           y == PointAt(inp, ord, i).c[axis]
           meeting == Meeting(inp, ord, at, range)
<1>1. /\ range.left \in Int /\ range.right \in Int /\ axis \in 0..1
      /\ 0 <= range.left /\ range.right < N
      /\ m \in range.left..range.right /\ left \in AllRanges /\ right \in AllRanges
      /\ left.left = range.left /\ left.right = m - 1
      /\ right.left = m + 1 /\ right.right = range.right
  BY RangesSplit
<1>2. m \in 0..N-1 /\ at[axis] \in Int /\ Radius \in Nat /\ N \in Nat
  BY <1>1, GeocoderAssumption DEF GeocoderAssumption, Coordinates
<1>3. x \in Int /\ y \in Int
  BY <1>1, <1>2, PointTyped
<1>4. y <= at[axis] + Radius /\ at[axis] - Radius <= y
  BY <1>1, InSquare
<1>5. /\ i \in range.left..m - 1 => y <= x
      /\ i \in m + 1..range.right => x <= y
  BY <1>3 DEF SplitAll
<1>6. meeting = (IF at[axis] + Radius >= x THEN <<right>> ELSE <<>>)
                  \o (IF at[axis] - Radius <= x THEN <<left>> ELSE <<>>)
  BY DEF Meeting
<1> HIDE DEF x, y, m, left, right, axis, meeting
<1>7. <<right>> \in Seq(AllRanges) /\ <<left>> \in Seq(AllRanges) /\ <<>> \in Seq(AllRanges)
  BY <1>1
<1>8. Len(<<right>>) = 1 /\ <<right>>[1] = right /\ Len(<<left>>) = 1 /\ <<left>>[1] = left
  OBVIOUS
<1>9. CASE i \in range.left..m - 1
  <2>1. at[axis] - Radius <= x
    BY <1>2, <1>3, <1>4, <1>5, <1>9
  <2>2. i \in left.left..left.right
    BY <1>1, <1>9
  <2>3. \E j \in 1..Len(<<left>>) : i \in <<left>>[j].left..<<left>>[j].right
    BY <1>8, <2>2
  <2>4. CASE at[axis] + Radius >= x
    <3>1. meeting = <<right>> \o <<left>>
      BY <1>6, <2>1, <2>4
    <3> QED
      BY <1>7, <2>3, <3>1, InBoth DEF meeting
  <2>5. CASE ~(at[axis] + Radius >= x)
    <3>1. meeting = <<>> \o <<left>>
      BY <1>6, <2>1, <2>5
    <3> QED
      BY <1>7, <2>3, <3>1, InBoth DEF meeting
  <2> QED
    BY <2>4, <2>5
<1>10. CASE i \in m + 1..range.right
  <2>1. at[axis] + Radius >= x
    BY <1>2, <1>3, <1>4, <1>5, <1>10
  <2>2. i \in right.left..right.right
    BY <1>1, <1>10
  <2>3. \E j \in 1..Len(<<right>>) : i \in <<right>>[j].left..<<right>>[j].right
    BY <1>8, <2>2
  <2>4. CASE at[axis] - Radius <= x
    <3>1. meeting = <<right>> \o <<left>>
      BY <1>6, <2>1, <2>4
    <3> QED
      BY <1>7, <2>3, <3>1, InBoth DEF meeting
  <2>5. CASE ~(at[axis] - Radius <= x)
    <3>1. meeting = <<right>> \o <<>>
      BY <1>6, <2>1, <2>5
    <3> QED
      BY <1>7, <2>3, <3>1, InBoth DEF meeting
  <2> QED
    BY <2>4, <2>5
<1>11. i \in range.left..m - 1 \/ i \in m + 1..range.right
  BY <1>1, <1>2 DEF m
<1> QED
  BY <1>9, <1>10, <1>11 DEF meeting

\* A step of the walk loses no point in the radius.
LEMMA StepCovers ==
  ASSUME NEW inp \in Inputs, NEW ord \in Permutations0, NEW at \in Coordinates,
         SplitAll(inp, ord), NEW a, Covers(inp, ord, at, a), NEW b, Steps(inp, ord, at, a, b)
  PROVE  Covers(inp, ord, at, b)
<1> DEFINE range == Head(a.stack)
<1>1. /\ a.stack \in Seq(AllRanges) /\ a.stack # <<>> /\ range \in AllRanges
      /\ Tail(a.stack) \in Seq(AllRanges) /\ KeptFits(inp, ord, at, a.best)
  BY HeadTailProperties DEF Covers, Steps
<1>2. /\ range.left \in Int /\ range.right \in Int /\ 0 <= range.left /\ range.right < N
      /\ range.left <= range.right + 1 /\ N \in Nat
  BY <1>1, RangesSplit, GeocoderAssumption DEF GeocoderAssumption
<1>3. b.stack \in Seq(AllRanges)
  BY <1>1, StepRanges
<1>4. ASSUME NEW i \in 0..N-1, Close(inp, ord, at, i)
      PROVE  \/ i \in range.left..range.right
             \/ \E j \in 1..Len(Tail(a.stack)) : i \in Tail(a.stack)[j].left..Tail(a.stack)[j].right
             \/ Beats(inp, ord, at, a.best, i)
  <2>1. \/ \E j \in 1..Len(a.stack) : i \in a.stack[j].left..a.stack[j].right
        \/ Beats(inp, ord, at, a.best, i)
    BY <1>4 DEF Covers
  <2> QED
    BY <1>1, <2>1, InHeadOrTail
<1>5. CASE Tree!IsLeaf(range)
  <2> DEFINE first == range.left
             size == range.right - range.left + 1
  <2>1. Sees(inp, ord, at, a.best, first, size, b.best) /\ b.stack = Tail(a.stack)
    BY <1>5 DEF Steps
  <2>2. /\ first \in Int /\ size \in Nat /\ first + size - 1 = range.right
        /\ \A j \in 1..size : first + j - 1 \in 0..N-1
    BY <1>2
  <2> HIDE DEF first, size
  <2>3. /\ KeptFits(inp, ord, at, b.best)
        /\ \A p \in 0..N-1 :
             Close(inp, ord, at, p) /\
             (p \in first..first + size - 1 \/ Beats(inp, ord, at, a.best, p)) =>
               Beats(inp, ord, at, b.best, p)
    BY <1>1, <2>1, <2>2, SeesFits
  <2>4. \A p \in 0..N-1 : Close(inp, ord, at, p) =>
          \/ \E j \in 1..Len(b.stack) : p \in b.stack[j].left..b.stack[j].right
          \/ Beats(inp, ord, at, b.best, p)
    BY <1>4, <2>1, <2>2, <2>3 DEF first
  <2> QED
    BY <1>3, <2>3, <2>4 DEF Covers
<1>6. CASE ~Tree!IsLeaf(range)
  <2> DEFINE m == Tree!Mid(range)
             meeting == Meeting(inp, ord, at, range)
             rest == Tail(a.stack)
  <2>1. Sees(inp, ord, at, a.best, m, 1, b.best) /\ b.stack = meeting \o rest
    BY <1>6 DEF Steps
  <2>2. m \in range.left..range.right
    BY <1>1, <1>6, RangesSplit
  <2>3. meeting \in Seq(AllRanges)
    <3> DEFINE right == Tree!RightHalf(range)
               left == Tree!LeftHalf(range)
    <3>1. right \in AllRanges /\ left \in AllRanges
      BY <1>1, <1>6, RangesSplit
    <3> HIDE DEF right, left
    <3>2. <<right>> \in Seq(AllRanges) /\ <<left>> \in Seq(AllRanges) /\ <<>> \in Seq(AllRanges)
      BY <3>1
    <3> QED
      BY <3>2, ConcatProperties DEF Meeting, right, left
  <2> HIDE DEF m
  <2>4. /\ m \in Int /\ 1 \in Nat /\ m \in m..m + 1 - 1
        /\ \A j \in 1..1 : m + j - 1 \in 0..N-1
    BY <1>2, <2>2
  <2>5. /\ KeptFits(inp, ord, at, b.best)
        /\ \A p \in 0..N-1 :
             Close(inp, ord, at, p) /\ (p \in m..m + 1 - 1 \/ Beats(inp, ord, at, a.best, p)) =>
               Beats(inp, ord, at, b.best, p)
    BY <1>1, <2>1, <2>4, SeesFits
  <2>6. ASSUME NEW p \in 0..N-1, Close(inp, ord, at, p)
        PROVE  \/ \E j \in 1..Len(b.stack) : p \in b.stack[j].left..b.stack[j].right
               \/ Beats(inp, ord, at, b.best, p)
    <3>1. CASE p = m \/ Beats(inp, ord, at, a.best, p)
      BY <2>4, <2>5, <2>6, <3>1
    <3>2. CASE p # m /\ p \in range.left..range.right
      <4>1. \E j \in 1..Len(meeting) : p \in meeting[j].left..meeting[j].right
        BY <1>1, <1>6, <2>6, <3>2, MeetingCovers DEF m
      <4> HIDE DEF meeting, rest
      <4>2. rest \in Seq(AllRanges)
        BY <1>1 DEF rest
      <4>3. \E j \in 1..Len(meeting \o rest) : p \in (meeting \o rest)[j].left..(meeting \o rest)[j].right
        BY <2>3, <4>1, <4>2, InBoth
      <4> QED
        BY <2>1, <4>3
    <3>3. CASE \E j \in 1..Len(rest) : p \in rest[j].left..rest[j].right
      <4> HIDE DEF meeting
      <4>1. rest \in Seq(AllRanges)
        BY <1>1
      <4> HIDE DEF rest
      <4>2. \E j \in 1..Len(meeting \o rest) : p \in (meeting \o rest)[j].left..(meeting \o rest)[j].right
        BY <2>3, <3>3, <4>1, InBoth
      <4> QED
        BY <2>1, <4>2
    <3> QED
      BY <1>4, <2>6, <3>1, <3>2, <3>3
  <2> QED
    BY <1>3, <2>5, <2>6 DEF Covers
<1> QED
  BY <1>5, <1>6

\* No walk does, however long.
LEMMA WalkCovers ==
  ASSUME NEW inp \in Inputs, NEW ord \in Permutations0, NEW at \in Coordinates,
         SplitAll(inp, ord), NEW w, NEW k \in Nat, Walk(inp, ord, at, w, k)
  PROVE  Covers(inp, ord, at, w[k])
<1> DEFINE S == {j \in Nat : j <= k => Covers(inp, ord, at, w[j])}
<1>1. 0 \in S
  <2>1. w[0].stack = <<Tree!Root>> /\ w[0].best = Nowhere
    BY DEF Walk
  <2>2. Tree!Root \in AllRanges
    BY RangesSplit
  <2>3. w[0].stack \in Seq(AllRanges) /\ Len(w[0].stack) = 1 /\ w[0].stack[1] = Tree!Root
    BY <2>1, <2>2
  <2>4. Tree!Root.left = 0 /\ Tree!Root.right = N - 1
    BY DEF Tree!Root, Tree!Span
  <2>5. \A i \in 0..N-1 : i \in Tree!Root.left..Tree!Root.right
    BY <2>4
  <2>6. 1 \in 1..Len(w[0].stack)
    BY <2>3
  <2>7. Covers(inp, ord, at, w[0])
    BY <2>1, <2>3, <2>5, <2>6 DEF Covers, KeptFits
  <2> QED
    BY <2>7
<1>2. ASSUME NEW j \in S PROVE j + 1 \in S
  <2> SUFFICES ASSUME j + 1 <= k PROVE Covers(inp, ord, at, w[j + 1])
    OBVIOUS
  <2>1. j + 1 \in 1..k /\ (j + 1) - 1 = j /\ Covers(inp, ord, at, w[j])
    OBVIOUS
  <2>2. Steps(inp, ord, at, w[j], w[j + 1])
    BY <2>1 DEF Walk
  <2> QED
    BY <2>1, <2>2, StepCovers
<1> HIDE DEF S
<1>3. S \in SUBSET Nat
  BY DEF S
<1>4. k \in S
  BY <1>1, <1>2, <1>3, Induction
<1> QED
  BY <1>4 DEF S

\* What a walk has kept at its end is a point in the radius, if there is one, and
\* the nearest if they are equally heavy.
LEMMA KeepsRight ==
  ASSUME NEW inp \in Inputs, NEW ord \in Permutations0, NEW at \in Coordinates,
         SplitAll(inp, ord), NEW kept, Keeps(inp, ord, at, kept)
  PROVE  /\ KeptFits(inp, ord, at, kept)
         /\ \A i \in 0..N-1 : Close(inp, ord, at, i) => Beats(inp, ord, at, kept, i)
<1>1. PICK w : \E k \in Nat : Walk(inp, ord, at, w, k) /\ w[k].stack = <<>> /\ w[k].best = kept
  BY DEF Keeps
<1>2. PICK k \in Nat : Walk(inp, ord, at, w, k) /\ w[k].stack = <<>> /\ w[k].best = kept
  BY <1>1
<1>3. Covers(inp, ord, at, w[k])
  BY <1>2, WalkCovers
<1>4. Len(w[k].stack) = 0 /\ 1..0 = {}
  BY <1>2
<1> QED
  BY <1>2, <1>3, <1>4 DEF Covers

-----------------------------------------------------------------------------
(* Zones and border trees.                                                 *)

In(x, seq) == \E i \in 1..Len(seq) : seq[i] = x

LEMMA InAppend ==
  ASSUME NEW S, NEW seq \in Seq(S), NEW y \in S, NEW x
  PROVE  In(x, Append(seq, y)) <=> In(x, seq) \/ x = y
<1>1. /\ Len(seq) \in Nat /\ Len(Append(seq, y)) = Len(seq) + 1
      /\ \A i \in 1..Len(seq) : Append(seq, y)[i] = seq[i]
      /\ Append(seq, y)[Len(seq) + 1] = y
  BY AppendProperties
<1>2. \A i \in 1..Len(seq) + 1 : i \in 1..Len(seq) \/ i = Len(seq) + 1
  BY <1>1
<1>3. 1..Len(seq) \subseteq 1..Len(seq) + 1 /\ Len(seq) + 1 \in 1..Len(seq) + 1
  BY <1>1
<1> DEFINE t == Append(seq, y)
<1> HIDE DEF t
<1>4. (\E i \in 1..Len(t) : t[i] = x) <=> (\E i \in 1..Len(seq) : seq[i] = x) \/ x = y
  BY <1>1, <1>2, <1>3 DEF t
<1> QED
  BY <1>4 DEF t, In

LEMMA InConcat ==
  ASSUME NEW S, NEW s \in Seq(S), NEW t \in Seq(S), NEW x
  PROVE  In(x, s \o t) <=> In(x, s) \/ In(x, t)
<1>1. /\ Len(s) \in Nat /\ Len(t) \in Nat /\ Len(s \o t) = Len(s) + Len(t)
      /\ \A j \in 1..Len(s) : (s \o t)[j] = s[j]
      /\ \A j \in 1..Len(t) : (s \o t)[Len(s) + j] = t[j]
  BY ConcatProperties
<1> DEFINE st == s \o t
<1> HIDE DEF st
<1>2. \A j \in 1..Len(s) + Len(t) :
        j \in 1..Len(s) \/ (j - Len(s) \in 1..Len(t) /\ Len(s) + (j - Len(s)) = j)
  BY <1>1
<1>3. /\ \A j \in 1..Len(s) : j \in 1..Len(st) /\ st[j] = s[j]
      /\ \A j \in 1..Len(t) : Len(s) + j \in 1..Len(st) /\ st[Len(s) + j] = t[j]
  BY <1>1 DEF st
<1>4. ASSUME NEW j \in 1..Len(st), st[j] = x PROVE In(x, s) \/ In(x, t)
  <2>1. j \in 1..Len(s) \/ (j - Len(s) \in 1..Len(t) /\ Len(s) + (j - Len(s)) = j)
    BY <1>1, <1>2 DEF st
  <2> QED
    BY <1>3, <1>4, <2>1 DEF In
<1>5. In(x, st) <=> In(x, s) \/ In(x, t)
  BY <1>3, <1>4 DEF In
<1> QED
  BY <1>5 DEF st

LEMMA InNone == \A x : ~In(x, <<>>)
<1>1. Len(<<>>) = 0 /\ 1..0 = {}
  OBVIOUS
<1> QED
  BY <1>1 DEF In

\* The first elements of a sequence.
LEMMA FirstOnes ==
  ASSUME NEW S, NEW seq \in Seq(S), NEW n \in Nat, n + 1 <= Len(seq), NEW x
  PROVE  (\E i \in 1..n + 1 : seq[i] = x) <=> (\E i \in 1..n : seq[i] = x) \/ seq[n + 1] = x
<1>1. 1..n + 1 = 1..n \cup {n + 1}
  OBVIOUS
<1> QED
  BY <1>1

\* The zones of a type, and both types in a section, are those that were saved.
LEMMA OfTypeRange ==
  ASSUME NEW zones \in Seq(Zone), NEW type
  PROVE  /\ OfType(zones, type) \in Seq(Zone)
         /\ \A z : In(z, OfType(zones, type)) <=> In(z, zones) /\ z.type = type
<1>1. PICK t : /\ t[0] = <<>>
               /\ \A i \in 1..Len(zones) :
                    t[i] = IF zones[i].type = type THEN Append(t[i - 1], zones[i]) ELSE t[i - 1]
               /\ t[Len(zones)] = OfType(zones, type)
  BY OfTypeSteps
<1> DEFINE P(n) == /\ t[n] \in Seq(Zone)
                   /\ \A z : In(z, t[n]) <=> (\E i \in 1..n : zones[i] = z) /\ z.type = type
           D == {n \in Nat : n <= Len(zones) => P(n)}
<1>2. Len(zones) \in Nat
  OBVIOUS
<1>3. P(0)
  <2>1. 1..0 = {} /\ <<>> \in Seq(Zone)
    OBVIOUS
  <2> QED
    BY <1>1, <2>1, InNone
<1>4. ASSUME NEW n \in Nat, n + 1 <= Len(zones), P(n) PROVE P(n + 1)
  <2>1. n + 1 \in 1..Len(zones) /\ n + 1 - 1 = n
    BY <1>2, <1>4
  <2>2. t[n + 1] = IF zones[n + 1].type = type THEN Append(t[n], zones[n + 1]) ELSE t[n]
    BY <1>1, <2>1
  <2>3. zones[n + 1] \in Zone /\ t[n] \in Seq(Zone)
    BY <1>4, <2>1
  <2>4. \A z : (\E i \in 1..n + 1 : zones[i] = z) <=> (\E i \in 1..n : zones[i] = z) \/ zones[n + 1] = z
    BY <1>4, FirstOnes
  <2>5. CASE zones[n + 1].type = type
    <3>1. t[n + 1] \in Seq(Zone) /\ \A z : In(z, t[n + 1]) <=> In(z, t[n]) \/ z = zones[n + 1]
      BY <2>2, <2>3, <2>5, InAppend
    <3> QED
      BY <1>4, <2>4, <2>5, <3>1
  <2>6. CASE zones[n + 1].type # type
    BY <1>4, <2>2, <2>4, <2>6
  <2> QED
    BY <2>5, <2>6
<1> HIDE DEF P
<1>5. D \in SUBSET Nat /\ 0 \in D /\ \A n \in D : n + 1 \in D
  BY <1>2, <1>3, <1>4
<1> HIDE DEF D
<1>6. D = Nat
  BY <1>5, Induction
<1>7. P(Len(zones))
  BY <1>2, <1>6 DEF D
<1> QED
  BY <1>1, <1>7 DEF P, In

\* The file has the zones of both types, in another order.
LEMMA SectionRange ==
  ASSUME NEW zones \in Seq(Zone)
  PROVE  ZonesSection(zones) \in Seq(Zone) /\ \A z : In(z, ZonesSection(zones)) <=> In(z, zones)
<1> DEFINE regions == OfType(zones, "region")
           countries == OfType(zones, "country")
<1>1. /\ regions \in Seq(Zone) /\ countries \in Seq(Zone)
      /\ \A z : In(z, regions) <=> In(z, zones) /\ z.type = "region"
      /\ \A z : In(z, countries) <=> In(z, zones) /\ z.type = "country"
  BY OfTypeRange
<1>2. \A z : In(z, zones) => z.type = "region" \/ z.type = "country"
  <2>1. \A z : In(z, zones) => z \in Zone
    BY DEF In
  <2>2. \A z \in Zone : z.type = "region" \/ z.type = "country"
    BY DEF Zone
  <2> QED
    BY <2>1, <2>2
<1> HIDE DEF regions, countries
<1>3. /\ regions \o countries \in Seq(Zone)
      /\ \A z : In(z, regions \o countries) <=> In(z, regions) \/ In(z, countries)
  BY <1>1, InConcat, ConcatProperties
<1> QED
  BY <1>1, <1>2, <1>3 DEF ZonesSection, regions, countries

BorderOf(z) == [data |-> z.name, bound |-> z.rect, polygon |-> Simplify(z.rect)]
BordersOf(zones, type) == {BorderOf(z) : z \in {z \in Zone : In(z, zones) /\ z.type = type}}

\* A border tree holds the borders of its type.
LEMMA BorderTreeRange ==
  ASSUME NEW zones \in Seq(Zone), NEW type
  PROVE  /\ BorderTree(type, zones) \in Seq(BordersOf(zones, type))
         /\ \A b : In(b, BorderTree(type, zones)) <=> b \in BordersOf(zones, type)
<1>1. PICK t : /\ t[0] = <<>>
               /\ \A i \in 1..Len(zones) :
                    t[i] = IF zones[i].type = type
                           THEN InsertBorder(t[i - 1], zones[i].name, zones[i].rect) ELSE t[i - 1]
               /\ t[Len(zones)] = BorderTree(type, zones)
  BY BorderTreeSteps
<1> DEFINE B == BordersOf(zones, type)
           P(n) == /\ t[n] \in Seq(B)
                   /\ \A b : In(b, t[n]) <=>
                           \E i \in 1..n : zones[i].type = type /\ b = BorderOf(zones[i])
           D == {n \in Nat : n <= Len(zones) => P(n)}
<1>2. Len(zones) \in Nat
  OBVIOUS
<1>3. P(0)
  <2>1. 1..0 = {} /\ <<>> \in Seq(B)
    OBVIOUS
  <2> QED
    BY <1>1, <2>1, InNone
<1>4. ASSUME NEW n \in Nat, n + 1 <= Len(zones), P(n) PROVE P(n + 1)
  <2>1. n + 1 \in 1..Len(zones) /\ n + 1 - 1 = n
    BY <1>2, <1>4
  <2> DEFINE z == zones[n + 1]
  <2>2. t[n + 1] = IF z.type = type THEN Append(t[n], BorderOf(z)) ELSE t[n]
    BY <1>1, <2>1 DEF InsertBorder, BorderOf
  <2>3. z \in Zone /\ t[n] \in Seq(B) /\ In(z, zones)
    BY <1>4, <2>1 DEF In
  <2>4. z.type = type => BorderOf(z) \in B
    BY <2>3 DEF BordersOf
  <2>5. 1..n + 1 = 1..n \cup {n + 1}
    BY <1>4
  <2>6. \A b : In(b, t[n]) <=>
                           \E i \in 1..n : zones[i].type = type /\ b = BorderOf(zones[i])
    BY <1>4
  <2>7. CASE z.type = type
    <3> HIDE DEF B, z
    <3>1. t[n + 1] \in Seq(B) /\ \A b : In(b, t[n + 1]) <=> In(b, t[n]) \/ b = BorderOf(z)
      BY <2>2, <2>3, <2>4, <2>7, InAppend, AppendProperties
    <3>2. \A b : In(b, t[n + 1]) <=> \E i \in 1..n + 1 : zones[i].type = type /\ b = BorderOf(zones[i])
      BY <2>5, <2>6, <2>7, <3>1 DEF z
    <3> QED
      BY <3>1, <3>2
  <2>8. CASE z.type # type
    BY <1>4, <2>2, <2>5, <2>8
  <2> QED
    BY <2>7, <2>8
<1> HIDE DEF P
<1>5. D \in SUBSET Nat /\ 0 \in D /\ \A n \in D : n + 1 \in D
  BY <1>2, <1>3, <1>4
<1> HIDE DEF D
<1>6. D = Nat
  BY <1>5, Induction
<1>7. P(Len(zones))
  BY <1>2, <1>6 DEF D
<1>8. \A b : b \in B <=> \E i \in 1..Len(zones) : zones[i].type = type /\ b = BorderOf(zones[i])
  BY DEF BordersOf, In
<1> QED
  BY <1>1, <1>7, <1>8 DEF P

\* What the queries of a tree find, by its zones.
LEMMA QueriesFind ==
  ASSUME NEW zones \in Seq(Zone), NEW type, NEW at
  PROVE  /\ \A name \in QueryPoint(BorderTree(type, zones), at) :
              \/ /\ name = NotFound
                 /\ ~\E z : /\ In(z, zones) /\ z.type = type /\ InRect(at, z.rect)
                            /\ MultiPolygonContains(Simplify(z.rect), z.rect, at)
              \/ \E z : /\ In(z, zones) /\ z.type = type /\ InRect(at, z.rect)
                        /\ name = z.name
         /\ \A name \in QueryPointRust(BorderTree(type, zones), at) :
              \/ /\ name = NotFound
                 /\ ~\E z : In(z, zones) /\ z.type = type /\ Inside(at, z.rect)
              \/ \E z : In(z, zones) /\ z.type = type /\ Inside(at, z.rect) /\ name = z.name
<1> DEFINE bt == BorderTree(type, zones)
           hits == {i \in DOMAIN bt : /\ InRect(at, bt[i].bound)
                                      /\ MultiPolygonContains(bt[i].polygon, bt[i].bound, at)}
           rusts == {i \in DOMAIN bt : Inside(at, bt[i].bound)}
<1>1. bt \in Seq(BordersOf(zones, type)) /\ \A b : In(b, bt) <=> b \in BordersOf(zones, type)
  BY BorderTreeRange
<1>2. DOMAIN bt = 1..Len(bt)
  BY <1>1
<1>3. ASSUME NEW i \in DOMAIN bt PROVE \E z : In(z, zones) /\ z.type = type /\ bt[i] = BorderOf(z)
  BY <1>1, <1>2, <1>3 DEF In, BordersOf
<1>4. ASSUME NEW z, In(z, zones), z.type = type PROVE \E i \in DOMAIN bt : bt[i] = BorderOf(z)
  <2>1. z \in Zone
    BY <1>4 DEF In
  <2>2. BorderOf(z) \in BordersOf(zones, type)
    BY <1>4, <2>1 DEF BordersOf
  <2> QED
    BY <1>1, <1>2, <2>2 DEF In
<1>5. \A z : /\ BorderOf(z).data = z.name /\ BorderOf(z).bound = z.rect
             /\ BorderOf(z).polygon = Simplify(z.rect)
  BY DEF BorderOf
<1>6. /\ QueryPoint(bt, at) = IF hits = {} THEN {NotFound} ELSE {bt[i].data : i \in hits}
      /\ QueryPointRust(bt, at) = IF rusts = {} THEN {NotFound} ELSE {bt[i].data : i \in rusts}
  BY DEF QueryPoint, QueryPointRust
<1> HIDE DEF bt
<1>7. ASSUME NEW name \in QueryPoint(bt, at)
      PROVE  \/ /\ name = NotFound
                /\ ~\E z : /\ In(z, zones) /\ z.type = type /\ InRect(at, z.rect)
                           /\ MultiPolygonContains(Simplify(z.rect), z.rect, at)
             \/ \E z : In(z, zones) /\ z.type = type /\ InRect(at, z.rect) /\ name = z.name
  <2>1. CASE hits = {}
    <3>1. ASSUME NEW z, In(z, zones), z.type = type, InRect(at, z.rect),
                 MultiPolygonContains(Simplify(z.rect), z.rect, at)
          PROVE  FALSE
      <4>1. PICK i \in DOMAIN bt : bt[i] = BorderOf(z)
        BY <1>4, <3>1
      <4>2. bt[i].bound = z.rect /\ bt[i].polygon = Simplify(z.rect)
        BY <1>5, <4>1
      <4>3. i \in hits
        BY <3>1, <4>2
      <4> QED
        BY <2>1, <4>3
    <3> QED
      BY <1>6, <1>7, <2>1, <3>1
  <2>2. CASE hits # {}
    <3>1. PICK i \in hits : name = bt[i].data
      BY <1>6, <1>7, <2>2
    <3>2. PICK z : In(z, zones) /\ z.type = type /\ bt[i] = BorderOf(z)
      BY <1>3
    <3> QED
      BY <1>5, <3>1, <3>2
  <2> QED
    BY <2>1, <2>2
<1>8. ASSUME NEW name \in QueryPointRust(bt, at)
      PROVE  \/ /\ name = NotFound
                /\ ~\E z : In(z, zones) /\ z.type = type /\ Inside(at, z.rect)
             \/ \E z : In(z, zones) /\ z.type = type /\ Inside(at, z.rect) /\ name = z.name
  <2>1. CASE rusts = {}
    <3>1. ASSUME NEW z, In(z, zones), z.type = type, Inside(at, z.rect) PROVE FALSE
      <4>1. PICK i \in DOMAIN bt : bt[i] = BorderOf(z)
        BY <1>4, <3>1
      <4>2. bt[i].bound = z.rect
        BY <1>5, <4>1
      <4>3. i \in rusts
        BY <3>1, <4>2
      <4> QED
        BY <2>1, <4>3
    <3> QED
      BY <1>6, <1>8, <2>1, <3>1
  <2>2. CASE rusts # {}
    <3>1. PICK i \in rusts : name = bt[i].data
      BY <1>6, <1>8, <2>2
    <3>2. PICK z : In(z, zones) /\ z.type = type /\ bt[i] = BorderOf(z)
      BY <1>3
    <3> QED
      BY <1>5, <3>1, <3>2
  <2> QED
    BY <2>1, <2>2
<1> QED
  BY <1>7, <1>8 DEF bt

-----------------------------------------------------------------------------
(* Borders that do not overlap, seen by every geocoder.                    *)

FoundBy(g, inp, at, type) ==
  IF g = "memory" THEN QueryPoint(BorderTree(type, inp.zones), at)
  ELSE IF g = "disk" THEN QueryPoint(BorderTree(type, ZonesSection(inp.zones)), at)
  ELSE QueryPointRust(BorderTree(type, ZonesSection(inp.zones)), at)

Plain(inp, at) ==
  \A type \in {"region", "country"} :
    /\ \A y, z : /\ In(y, inp.zones) /\ y.type = type /\ InRect(at, y.rect)
                 /\ In(z, inp.zones) /\ z.type = type /\ InRect(at, z.rect)
                 => y = z
    /\ \A z : In(z, inp.zones) /\ z.type = type /\ InRect(at, z.rect) =>
         Simplify(z.rect) = "rectangle" /\ Inside(at, z.rect)

\* What a query finds is a name, and not an empty one.
LEMMA NamesFound ==
  ASSUME NEW inp \in Inputs, NEW at, NEW g \in Geocoders, NEW type,
         NEW name \in FoundBy(g, inp, at, type)
  PROVE  name = NotFound \/ name \in Seq(Chars) \ {Empty}
<1>1. inp.zones \in Seq(Zone)
  BY InputTyped
<1>2. ZonesSection(inp.zones) \in Seq(Zone)
  BY <1>1, SectionRange
<1>3. name = NotFound \/ \E zones \in Seq(Zone) : \E z : In(z, zones) /\ name = z.name
  BY <1>1, <1>2, QueriesFind DEF FoundBy
<1>4. \A zones \in Seq(Zone) : \A z : In(z, zones) => z \in Zone
  BY DEF In
<1>5. \A z \in Zone : z.name \in Seq(Chars) \ {Empty}
  BY DEF Zone
<1> QED
  BY <1>3, <1>4, <1>5

\* It is the name of the one border that holds the place, if one does.
LEMMA PlainNames ==
  ASSUME NEW inp \in Inputs, NEW at \in Coordinates, Plain(inp, at), NEW g \in Geocoders,
         NEW type \in {"region", "country"}, NEW name \in FoundBy(g, inp, at, type)
  PROVE  \/ name = NotFound /\ ~\E z : In(z, inp.zones) /\ z.type = type /\ InRect(at, z.rect)
         \/ \E z : In(z, inp.zones) /\ z.type = type /\ InRect(at, z.rect) /\ name = z.name
<1>1. inp.zones \in Seq(Zone)
  BY InputTyped
<1>2. /\ ZonesSection(inp.zones) \in Seq(Zone)
      /\ \A z : In(z, ZonesSection(inp.zones)) <=> In(z, inp.zones)
  BY <1>1, SectionRange
<1>3. \A z : In(z, inp.zones) /\ z.type = type /\ InRect(at, z.rect) =>
        MultiPolygonContains(Simplify(z.rect), z.rect, at) /\ Inside(at, z.rect)
  BY DEF Plain, MultiPolygonContains
<1>4. \A z : In(z, inp.zones) /\ Inside(at, z.rect) => InRect(at, z.rect)
  <2> SUFFICES ASSUME NEW z, In(z, inp.zones), Inside(at, z.rect), NEW axis \in 0..1
               PROVE  z.rect.min[axis] <= at[axis] /\ at[axis] <= z.rect.max[axis]
    BY DEF InRect
  <2>1. z \in Zone
    BY <1>1 DEF In
  <2>2. z.rect.min[axis] \in Int /\ z.rect.max[axis] \in Int /\ at[axis] \in Int
    BY <2>1 DEF Zone, Coordinates
  <2>3. z.rect.min[axis] < at[axis] /\ at[axis] < z.rect.max[axis]
    BY DEF Inside
  <2> QED
    BY <2>2, <2>3
<1>5. CASE g = "memory"
  <2>1. name \in QueryPoint(BorderTree(type, inp.zones), at)
    BY <1>5 DEF FoundBy
  <2> QED
    BY <1>1, <1>3, <2>1, QueriesFind
<1>6. CASE g = "disk"
  <2>1. name \in QueryPoint(BorderTree(type, ZonesSection(inp.zones)), at)
    BY <1>6 DEF FoundBy
  <2> QED
    BY <1>2, <1>3, <2>1, QueriesFind
<1>7. CASE g = "rust"
  <2>1. name \in QueryPointRust(BorderTree(type, ZonesSection(inp.zones)), at)
    BY <1>7 DEF FoundBy
  <2> QED
    BY <1>2, <1>3, <1>4, <2>1, QueriesFind
<1> QED
  BY <1>5, <1>6, <1>7 DEF Geocoders

\* All geocoders find the same border.
LEMMA PlainSame ==
  ASSUME NEW inp \in Inputs, NEW at \in Coordinates, Plain(inp, at),
         NEW g \in Geocoders, NEW h \in Geocoders, NEW type \in {"region", "country"},
         NEW a \in FoundBy(g, inp, at, type), NEW b \in FoundBy(h, inp, at, type)
  PROVE  a = b
<1>1. \/ a = NotFound /\ ~\E z : In(z, inp.zones) /\ z.type = type /\ InRect(at, z.rect)
      \/ \E z : In(z, inp.zones) /\ z.type = type /\ InRect(at, z.rect) /\ a = z.name
  BY PlainNames
<1>2. \/ b = NotFound /\ ~\E z : In(z, inp.zones) /\ z.type = type /\ InRect(at, z.rect)
      \/ \E z : In(z, inp.zones) /\ z.type = type /\ InRect(at, z.rect) /\ b = z.name
  BY PlainNames
<1> QED
  BY <1>1, <1>2 DEF Plain

-----------------------------------------------------------------------------
(* Sequences put together.                                                 *)

\* s lies in c behind the first off elements.
Section(c, off, s) ==
  off \in Nat /\ off + Len(s) <= Len(c) /\ \A j \in 1..Len(s) : c[off + j] = s[j]

\* The parts of a concatenation are sections of it.
LEMMA Joined ==
  ASSUME NEW A, NEW B, NEW a \in Seq(A), NEW b \in Seq(B)
  PROVE  /\ a \o b \in Seq(A \cup B) /\ Len(a \o b) = Len(a) + Len(b)
         /\ Section(a \o b, 0, a) /\ Section(a \o b, Len(a), b)
<1>1. a \in Seq(A \cup B) /\ b \in Seq(A \cup B)
  BY SeqMonotonic
<1>2. /\ a \o b \in Seq(A \cup B)
      /\ Len(a \o b) = Len(a) + Len(b)
      /\ \A i \in 1..Len(a) + Len(b) : (a \o b)[i] = IF i <= Len(a) THEN a[i] ELSE b[i - Len(a)]
  BY <1>1, ConcatProperties
<1> DEFINE ab == a \o b
<1> HIDE DEF ab
<1>3. Len(a) \in Nat /\ Len(b) \in Nat
  BY <1>1, LenProperties
<1>4. ASSUME NEW j \in 1..Len(a) PROVE ab[0 + j] = a[j]
  <2>1. 0 + j = j /\ j \in 1..Len(a) + Len(b) /\ j <= Len(a)
    BY <1>3
  <2> QED
    BY <1>2, <2>1 DEF ab
<1>5. ASSUME NEW j \in 1..Len(b) PROVE ab[Len(a) + j] = b[j]
  <2>1. Len(a) + j \in 1..Len(a) + Len(b) /\ ~(Len(a) + j <= Len(a)) /\ (Len(a) + j) - Len(a) = j
    BY <1>3
  <2> QED
    BY <1>2, <2>1 DEF ab
<1>6. Section(ab, 0, a) /\ Section(ab, Len(a), b)
  <2>1. Len(ab) = Len(a) + Len(b)
    BY <1>2 DEF ab
  <2> QED
    BY <1>3, <1>4, <1>5, <2>1 DEF Section
<1> QED
  BY <1>2, <1>6 DEF ab

\* A section of a section is a section.
LEMMA SectionOfSection ==
  ASSUME NEW c, NEW off \in Nat, NEW s, Section(c, off, s),
         NEW at \in Nat, NEW t, Len(t) \in Nat, Len(s) \in Nat, Len(c) \in Nat, Section(s, at, t)
  PROVE  Section(c, off + at, t)
<1>1. ASSUME NEW j \in 1..Len(t) PROVE c[(off + at) + j] = t[j]
  <2>1. at + j \in 1..Len(s) /\ (off + at) + j = off + (at + j)
    BY DEF Section
  <2> QED
    BY <2>1 DEF Section
<1>2. off + at \in Nat /\ (off + at) + Len(t) <= Len(c)
  BY DEF Section
<1> QED
  BY <1>1, <1>2 DEF Section

\* A list that grows keeps what it has.
LEMMA GrownKeeps ==
  ASSUME NEW X, NEW add, NEW n \in Nat, \A i \in 1..n : add[i] \in Seq(X),
         NEW f, Grown(f, add, n), NEW i \in 1..n
  PROVE  /\ f[i - 1] \in Seq(X) /\ f[n] \in Seq(X) /\ Section(f[n], Len(f[i - 1]), add[i])
<1>1. \A m \in 0..n : f[m] \in Seq(X)
  BY GrownTyped
<1>2. i - 1 \in 0..n /\ i \in 0..n /\ n \in 0..n
  OBVIOUS
<1>3. f[i - 1] \in Seq(X) /\ f[i] \in Seq(X) /\ f[n] \in Seq(X) /\ add[i] \in Seq(X)
  BY <1>1, <1>2
<1>4. f[i] = f[i - 1] \o add[i]
  BY DEF Grown
<1>5. Section(f[i], Len(f[i - 1]), add[i])
  BY <1>3, <1>4, Joined
<1> DEFINE S == {m \in Nat : i + m <= n => Section(f[i + m], Len(f[i - 1]), add[i])}
<1>6. 0 \in S
  <2>1. i + 0 = i
    OBVIOUS
  <2> QED
    BY <1>5, <2>1
<1>7. ASSUME NEW m \in S PROVE m + 1 \in S
  <2> SUFFICES ASSUME i + (m + 1) <= n PROVE Section(f[i + (m + 1)], Len(f[i - 1]), add[i])
    OBVIOUS
  <2>1. /\ i + (m + 1) \in 1..n /\ (i + (m + 1)) - 1 = i + m /\ i + m \in 0..n
        /\ Section(f[i + m], Len(f[i - 1]), add[i])
    OBVIOUS
  <2> DEFINE long == f[i + (m + 1)]
             old == f[i + m]
  <2>2. long = old \o add[i + (m + 1)] /\ old \in Seq(X) /\ add[i + (m + 1)] \in Seq(X)
    BY <1>1, <2>1 DEF Grown
  <2>3. Section(old, Len(f[i - 1]), add[i])
    BY <2>1
  <2> HIDE DEF old, long, S
  <2>4. Section(long, 0, old) /\ long \in Seq(X \cup X)
    BY <2>2, Joined
  <2>5. Len(old) \in Nat /\ Len(long) \in Nat /\ Len(add[i]) \in Nat /\ Len(f[i - 1]) \in Nat
    BY <1>3, <2>2, <2>4, LenProperties
  <2>6. Section(long, 0 + Len(f[i - 1]), add[i])
    BY <2>3, <2>4, <2>5, SectionOfSection
  <2>7. 0 + Len(f[i - 1]) = Len(f[i - 1])
    BY <2>5
  <2> QED
    BY <2>6, <2>7 DEF long
<1> HIDE DEF S
<1>8. S \in SUBSET Nat
  BY DEF S
<1>9. S = Nat
  BY <1>6, <1>7, <1>8, Induction
<1>10. PICK m \in Nat : i + m = n
  <2>1. n - i \in Nat /\ i + (n - i) = n
    OBVIOUS
  <2> QED
    BY <2>1
<1>11. Section(f[n], Len(f[i - 1]), add[i])
  <2>1. m \in S
    BY <1>9
  <2>2. i + m <= n => Section(f[i + m], Len(f[i - 1]), add[i])
    BY <2>1 DEF S
  <2>3. i + m <= n
    BY <1>10
  <2>4. Section(f[i + m], Len(f[i - 1]), add[i])
    BY <2>2, <2>3
  <2> QED
    BY <1>10, <2>4
<1> QED
  BY <1>3, <1>11

\* A list lies in a list of lists behind the lists before it.
LEMMA Placement ==
  ASSUME NEW X, NEW ls \in Seq(Seq(X)), NEW i \in 1..Len(ls)
  PROVE  /\ FlattenSeq(SubSeq(ls, 1, i - 1)) \in Seq(X)
         /\ Section(FlattenSeq(ls), Len(FlattenSeq(SubSeq(ls, 1, i - 1))), ls[i])
<1> DEFINE n == Len(ls)
           init == SubSeq(ls, 1, i - 1)
<1>1. n \in Nat /\ \A j \in 1..n : ls[j] \in Seq(X)
  OBVIOUS
<1>2. init \in Seq(Seq(X)) /\ Len(init) = i - 1 /\ \A j \in 1..i - 1 : init[j] = ls[j]
  <2>1. i - 1 \in Int /\ 1 \in Int /\ \A j \in 1..i - 1 : ls[j] \in Seq(X)
    BY <1>1
  <2> QED
    BY <2>1, SubSeqProperties
<1> HIDE DEF init, n
<1>3. PICK f : Grown(f, ls, n) /\ f[n] = FlattenSeq(ls)
  BY FlattenGrown DEF n
<1>4. PICK h : Grown(h, init, i - 1) /\ h[i - 1] = FlattenSeq(init)
  BY <1>2, FlattenGrown
<1>5. i - 1 \in Nat /\ \A j \in 1..i - 1 : j \in 1..n
  BY <1>1 DEF n
<1>6. Grown(f, init, i - 1)
  BY <1>2, <1>3, <1>5 DEF Grown
<1>7. f[i - 1] = FlattenSeq(init)
  BY <1>4, <1>5, <1>6, GrownSame
<1>8. i \in 1..n
  BY DEF n
<1>9. f[i - 1] \in Seq(X) /\ Section(f[n], Len(f[i - 1]), ls[i])
  BY <1>1, <1>3, <1>8, GrownKeeps
<1> QED
  BY <1>3, <1>7, <1>9 DEF init

LEMMA TriplesLen ==
  ASSUME NEW X, NEW ls \in Seq(Seq(X)), \A i \in 1..Len(ls) : Len(ls[i]) = 3
  PROVE  Len(FlattenSeq(ls)) = 3 * Len(ls)
<1> DEFINE n == Len(ls)
<1>1. n \in Nat /\ \A j \in 1..n : ls[j] \in Seq(X)
  OBVIOUS
<1>2. PICK f : Grown(f, ls, n) /\ f[n] = FlattenSeq(ls)
  BY FlattenGrown
<1>3. \A j \in 1..n : Len(ls[j]) = 3
  OBVIOUS
<1> HIDE DEF n
<1>4. \A m \in 0..n : f[m] \in Seq(X)
  BY <1>1, <1>2, GrownTyped
<1> DEFINE S == {m \in Nat : m <= n => Len(f[m]) = 3 * m}
<1>5. 0 \in S
  <2>1. Len(f[0]) = 3 * 0
    BY <1>2, EmptySeq DEF Grown
  <2> QED
    BY <2>1
<1>6. ASSUME NEW m \in S PROVE m + 1 \in S
  <2> SUFFICES ASSUME m + 1 <= n PROVE Len(f[m + 1]) = 3 * (m + 1)
    OBVIOUS
  <2>1. m + 1 \in 1..n /\ (m + 1) - 1 = m /\ m \in 0..n /\ m \in Nat /\ Len(f[m]) = 3 * m
    BY <1>1
  <2>2. f[m + 1] = f[m] \o ls[m + 1] /\ f[m] \in Seq(X) /\ ls[m + 1] \in Seq(X)
    BY <1>1, <1>2, <1>4, <2>1 DEF Grown
  <2>3. Len(f[m + 1]) = Len(f[m]) + Len(ls[m + 1])
    BY <2>2, ConcatProperties
  <2>4. Len(ls[m + 1]) = 3
    BY <1>3, <2>1
  <2> QED
    BY <2>1, <2>3, <2>4
<1> HIDE DEF S
<1>7. S \in SUBSET Nat
  BY DEF S
<1>8. n \in S
  BY <1>1, <1>5, <1>6, <1>7, Induction
<1> QED
  BY <1>1, <1>2, <1>8 DEF S, n

-----------------------------------------------------------------------------
(* The strings of a file.                                                  *)

Pairs(inp) == [i \in DOMAIN inp.points |-> <<inp.points[i].name, inp.points[i].region>>]

Ids(inp) == UniqueMap(FlattenSeq(Pairs(inp)))

Strings(inp) == Slice(Ids(inp))

\* A point as the file has it.
DataOf(inp, p) == [name |-> Ids(inp)[p.name], region |-> Ids(inp)[p.region], weight |-> p.weight]

LEMMA PointsTyped ==
  ASSUME NEW inp \in Inputs, NEW i \in 1..N
  PROVE  /\ inp.points[i] \in Point /\ inp.points[i].name \in Seq(Chars)
         /\ inp.points[i].region \in Seq(Chars) /\ inp.points[i].weight \in Int
         /\ inp.points[i].c \in Coordinates
<1>1. inp.points[i] \in Point
  BY InputTyped
<1> QED
  BY <1>1 DEF Point

\* The table of strings of an input has the names and regions of its points.
LEMMA IdsTyped ==
  ASSUME NEW inp \in Inputs
  PROVE  /\ Table(Ids(inp)) /\ DOMAIN Ids(inp) \subseteq Seq(Chars)
         /\ \A i \in 1..N : /\ inp.points[i].name \in DOMAIN Ids(inp)
                            /\ inp.points[i].region \in DOMAIN Ids(inp)
<1> DEFINE pairs == Pairs(inp)
           flat == FlattenSeq(pairs)
<1>1. N \in Nat /\ Len(inp.points) = N /\ DOMAIN inp.points = 1..N
  BY InputTyped, GeocoderAssumption
<1>2. \A i \in 1..N : /\ inp.points[i].name \in Seq(Chars) /\ inp.points[i].region \in Seq(Chars)
                      /\ <<inp.points[i].name, inp.points[i].region>> \in Seq(Seq(Chars))
  BY PointsTyped
<1>3. pairs \in Seq(Seq(Seq(Chars))) /\ Len(pairs) = N
      /\ \A i \in 1..N : pairs[i] = <<inp.points[i].name, inp.points[i].region>>
  BY <1>1, <1>2 DEF Pairs
<1> HIDE DEF pairs
<1>4. flat \in Seq(Seq(Chars))
  BY <1>3, FlattenTyped
<1>5. ASSUME NEW i \in 1..N, NEW j \in 1..2 PROVE \E m \in 1..Len(flat) : flat[m] = pairs[i][j]
  <2> DEFINE off == Len(FlattenSeq(SubSeq(pairs, 1, i - 1)))
  <2>1. i \in 1..Len(pairs)
    BY <1>3
  <2>2. Section(flat, off, pairs[i])
    BY <1>3, <2>1, Placement
  <2>3. Len(pairs[i]) = 2 /\ Len(flat) \in Nat
    <3>1. pairs[i] = <<inp.points[i].name, inp.points[i].region>>
      BY <1>3
    <3>2. Len(pairs[i]) = 2
      BY <3>1
    <3>3. Len(flat) \in Nat
      BY <1>4, LenProperties
    <3> QED
      BY <3>2, <3>3
  <2> HIDE DEF off, flat
  <2>4. flat[off + j] = pairs[i][j] /\ off \in Nat /\ off + 2 <= Len(flat)
    BY <2>2, <2>3 DEF Section
  <2>5. off + j \in 1..Len(flat)
    BY <2>3, <2>4
  <2> QED
    BY <2>4, <2>5
<1>6. /\ Table(Ids(inp)) /\ DOMAIN Ids(inp) \subseteq Seq(Chars) \cup {Empty}
      /\ \A m \in 1..Len(flat) : flat[m] \in DOMAIN Ids(inp)
  BY <1>4, UniqueMapTable DEF Ids, pairs
<1>7. Empty \in Seq(Chars)
  BY GeocoderAssumption
<1>8. ASSUME NEW i \in 1..N
      PROVE  inp.points[i].name \in DOMAIN Ids(inp) /\ inp.points[i].region \in DOMAIN Ids(inp)
  <2>1. pairs[i][1] = inp.points[i].name /\ pairs[i][2] = inp.points[i].region
    BY <1>3
  <2>2. 1 \in 1..2 /\ 2 \in 1..2
    OBVIOUS
  <2> HIDE DEF flat
  <2> QED
    BY <1>5, <1>6, <2>1, <2>2
<1> QED
  BY <1>6, <1>7, <1>8

\* A string is found under its number.
LEMMA StringsTyped ==
  ASSUME NEW inp \in Inputs
  PROVE  /\ Strings(inp) \in Seq(Seq(Chars))
         /\ \A v \in DOMAIN Ids(inp) :
              /\ Ids(inp)[v] \in Nat /\ Ids(inp)[v] + 1 \in 1..Len(Strings(inp))
              /\ Strings(inp)[Ids(inp)[v] + 1] = v
              /\ Ids(inp)[v] = 0 <=> v = Empty
<1> DEFINE u == Ids(inp)
           c == Cardinality(DOMAIN u)
           found(i) == CHOOSE val \in DOMAIN u : u[val] = i - 1
<1>1. Table(u) /\ DOMAIN u \subseteq Seq(Chars)
  BY IdsTyped
<1>2. Slice(u) = [i \in 1..c |-> found(i)] /\ c \in Nat
  BY <1>1, FS_CardinalityType DEF Slice, Table
<1>3. \A v \in DOMAIN u : Slice(u)[u[v] + 1] = v
  BY <1>1, LookUp
<1>4. \A v \in DOMAIN u : u[v] \in Nat /\ u[v] < c /\ (u[v] = 0 <=> v = Empty)
  BY <1>1 DEF Table
<1> HIDE DEF u
<1>5. ASSUME NEW i \in 1..c PROVE found(i) \in Seq(Chars)
  <2>1. i - 1 \in 0..c - 1
    BY <1>2
  <2>2. \E v \in DOMAIN u : u[v] = i - 1
    BY <1>1, <2>1 DEF Table
  <2>3. found(i) \in DOMAIN u
    BY <2>2
  <2> QED
    BY <1>1, <2>3
<1> HIDE DEF c, found
<1>6. Slice(u) \in Seq(Seq(Chars)) /\ Len(Slice(u)) = c
  BY <1>2, <1>5
<1>7. \A v \in DOMAIN u : u[v] + 1 \in 1..c
  BY <1>2, <1>4
<1> QED
  BY <1>3, <1>4, <1>6, <1>7 DEF Strings, u

\* Where a string of the table begins in the block of strings.
LEMMA TextTyped ==
  ASSUME NEW strings \in Seq(Seq(Chars))
  PROVE  /\ StringsData(strings) \in Seq(Chars \cup {Nul})
         /\ StringsIndex(strings) \in Seq(Nat) /\ Len(StringsIndex(strings)) = Len(strings)
         /\ \A i \in 1..Len(strings) :
              Section(StringsData(strings), StringsIndex(strings)[i], strings[i] \o <<Nul>>)
<1> DEFINE X == Chars \cup {Nul}
           n == Len(strings)
           ended == [i \in 1..n |-> strings[i] \o <<Nul>>]
<1>1. n \in Nat /\ DOMAIN strings = 1..n /\ \A i \in 1..n : strings[i] \in Seq(Chars)
  OBVIOUS
<1>2. \A i \in 1..n : strings[i] \o <<Nul>> \in Seq(X)
  <2>1. <<Nul>> \in Seq({Nul})
    OBVIOUS
  <2> QED
    BY <1>1, <2>1, Joined
<1>3. ended \in Seq(Seq(X)) /\ Len(ended) = n /\ \A i \in 1..n : ended[i] = strings[i] \o <<Nul>>
  BY <1>1, <1>2
<1>4. StringsData(strings) = FlattenSeq(ended)
  BY <1>1 DEF StringsData
<1> HIDE DEF n, ended, X
<1>5. StringsData(strings) \in Seq(X)
  BY <1>3, <1>4, FlattenTyped
<1>6. ASSUME NEW i \in 1..n
      PROVE  StringsData(SubSeq(strings, 1, i - 1)) = FlattenSeq(SubSeq(ended, 1, i - 1))
  <2>1. \A j \in 1..i - 1 : j \in 1..n
    BY <1>1
  <2> DEFINE s == SubSeq(strings, 1, i - 1)
             e == SubSeq(ended, 1, i - 1)
  <2>2. /\ s \in Seq(Seq(Chars)) /\ Len(s) = i - 1
        /\ \A j \in 1..i - 1 : s[j] = strings[j]
    <3>1. \A j \in 1..i - 1 : strings[j] \in Seq(Chars)
      BY <1>1, <2>1
    <3>2. i - 1 \in Int /\ 1 \in Int
      BY <1>1
    <3> QED
      BY <3>1, <3>2, SubSeqProperties
  <2>3. /\ e \in Seq(Seq(X)) /\ Len(e) = i - 1
        /\ \A j \in 1..i - 1 : e[j] = ended[j]
    <3>1. \A j \in 1..i - 1 : ended[j] \in Seq(X)
      BY <1>2, <1>3, <2>1
    <3>2. i - 1 \in Int /\ 1 \in Int
      BY <1>1
    <3> QED
      BY <3>1, <3>2, SubSeqProperties
  <2> HIDE DEF s, e
  <2>4. DOMAIN s = 1..i - 1 /\ DOMAIN e = 1..i - 1
    BY <2>2, <2>3
  <2>5. e = [j \in 1..i - 1 |-> e[j]]
    BY <2>3, <2>4
  <2>6. \A j \in 1..i - 1 : e[j] = s[j] \o <<Nul>>
    BY <1>3, <2>1, <2>2, <2>3
  <2>7. e = [j \in DOMAIN s |-> s[j] \o <<Nul>>]
    BY <2>4, <2>5, <2>6
  <2> QED
    BY <2>7 DEF StringsData, s, e
<1>7. ASSUME NEW i \in 1..n
      PROVE  /\ Len(StringsData(SubSeq(strings, 1, i - 1))) \in Nat
             /\ Section(StringsData(strings), Len(StringsData(SubSeq(strings, 1, i - 1))), ended[i])
  <2>1. i \in 1..Len(ended)
    BY <1>3
  <2>2. /\ FlattenSeq(SubSeq(ended, 1, i - 1)) \in Seq(X)
        /\ Section(FlattenSeq(ended), Len(FlattenSeq(SubSeq(ended, 1, i - 1))), ended[i])
    BY <1>3, <2>1, Placement
  <2> QED
    BY <1>4, <1>6, <2>2, LenProperties
<1> DEFINE at(i) == Len(StringsData(SubSeq(strings, 1, i - 1)))
<1>8. StringsIndex(strings) = [i \in 1..n |-> at(i)]
  BY <1>1 DEF StringsIndex
<1>9. \A i \in 1..n : at(i) \in Nat /\ Section(StringsData(strings), at(i), ended[i])
  BY <1>7
<1> HIDE DEF at
<1>10. /\ StringsIndex(strings) \in Seq(Nat) /\ Len(StringsIndex(strings)) = n
       /\ \A i \in 1..n : StringsIndex(strings)[i] = at(i)
  BY <1>1, <1>8, <1>9
<1> QED
  BY <1>3, <1>5, <1>9, <1>10 DEF n, X

-----------------------------------------------------------------------------
(* Where the sections of a file are.                                       *)

Text(inp) == StringsData(Strings(inp))

Saved(inp, ord) == SavedV2(inp.points, inp.zones, ord)

TextAt(inp)    == 5 + Len(Strings(inp))
ZonesAt(inp)   == TextAt(inp) + Len(Text(inp))
IdxsAt(inp)    == ZonesAt(inp) + 2
CoordsAt(inp)  == IdxsAt(inp) + N
OffsetsAt(inp) == CoordsAt(inp) + N
BlobsAt(inp)   == OffsetsAt(inp) + N + 1

Header(inp) ==
  [metadata |-> 1, stringsIndex |-> Len(Strings(inp)), stringsData |-> Len(Text(inp)), zones |-> 1]

Datas(inp) == [i \in DOMAIN inp.points |-> DataOf(inp, inp.points[i])]

Blobs(inp) == FlattenSeq([i \in 1..N |-> MarshalBinary(Datas(inp)[i])])

\* The blobs of the points are three cells each.
LEMMA BlobsTyped ==
  ASSUME NEW inp \in Inputs
  PROVE  /\ Blobs(inp) \in Seq(Int) /\ Len(Blobs(inp)) = 3 * N
         /\ \A i \in 0..N - 1 :
              LET data == DataOf(inp, inp.points[i + 1])
              IN  /\ data \in PointData /\ 3 * i + 3 <= 3 * N
                  /\ Blobs(inp)[3 * i + 1] = data.name
                  /\ Blobs(inp)[3 * i + 2] = data.region
                  /\ Blobs(inp)[3 * i + 3] = data.weight
<1> DEFINE m == [i \in 1..N |-> MarshalBinary(Datas(inp)[i])]
           d(i) == DataOf(inp, inp.points[i])
<1>1. N \in Nat /\ DOMAIN inp.points = 1..N
  BY InputTyped, GeocoderAssumption
<1>2. ASSUME NEW i \in 1..N
      PROVE  /\ d(i) \in PointData /\ Datas(inp)[i] = d(i)
             /\ m[i] = <<d(i).name, d(i).region, d(i).weight>> /\ m[i] \in Seq(Int)
  <2>1. /\ inp.points[i].name \in DOMAIN Ids(inp) /\ inp.points[i].region \in DOMAIN Ids(inp)
        /\ inp.points[i].weight \in Int
    BY IdsTyped, PointsTyped
  <2>2. Ids(inp)[inp.points[i].name] \in Nat /\ Ids(inp)[inp.points[i].region] \in Nat
    BY <2>1, StringsTyped
  <2>3. d(i) \in PointData
    BY <2>1, <2>2 DEF DataOf, PointData
  <2>4. Datas(inp)[i] = d(i)
    BY <1>1 DEF Datas
  <2>5. m[i] = <<d(i).name, d(i).region, d(i).weight>>
    BY <2>4 DEF MarshalBinary
  <2>6. d(i).name \in Int /\ d(i).region \in Int /\ d(i).weight \in Int
    BY <2>3 DEF PointData
  <2> HIDE DEF d, m
  <2> QED
    BY <2>3, <2>4, <2>5, <2>6
<1>3. m \in Seq(Seq(Int)) /\ Len(m) = N
  <2>1. m = [i \in 1..N |-> m[i]]
    OBVIOUS
  <2>2. \A i \in 1..N : m[i] \in Seq(Int)
    BY <1>2
  <2> HIDE DEF m
  <2> QED
    BY <1>1, <2>1, <2>2
<1>4. Blobs(inp) = FlattenSeq(m)
  BY DEF Blobs
<1> HIDE DEF m, d
<1>5. ASSUME NEW i \in 1..N PROVE Len(m[i]) = 3
  <2>1. m[i] = <<d(i).name, d(i).region, d(i).weight>>
    BY <1>2
  <2> QED
    BY <2>1
<1>6. Blobs(inp) \in Seq(Int) /\ Len(Blobs(inp)) = 3 * N
  BY <1>3, <1>4, <1>5, FlattenTyped, TriplesLen
<1>7. ASSUME NEW i \in 0..N - 1
      PROVE  /\ d(i + 1) \in PointData /\ 3 * i + 3 <= 3 * N
             /\ Blobs(inp)[3 * i + 1] = d(i + 1).name
             /\ Blobs(inp)[3 * i + 2] = d(i + 1).region
             /\ Blobs(inp)[3 * i + 3] = d(i + 1).weight
  <2> DEFINE first == SubSeq(m, 1, i)
  <2>1. i + 1 \in 1..N /\ (i + 1) - 1 = i /\ i \in Nat /\ \A j \in 1..i : j \in 1..N
    BY <1>1
  <2>2. /\ FlattenSeq(first) \in Seq(Int)
        /\ Section(Blobs(inp), Len(FlattenSeq(first)), m[i + 1])
    <3>1. i + 1 \in 1..Len(m)
      BY <1>3, <2>1
    <3>2. /\ FlattenSeq(SubSeq(m, 1, (i + 1) - 1)) \in Seq(Int)
          /\ Section(FlattenSeq(m), Len(FlattenSeq(SubSeq(m, 1, (i + 1) - 1))), m[i + 1])
      BY <1>3, <3>1, Placement
    <3> QED
      BY <1>4, <2>1, <3>2, Zenon
  <2>3. first \in Seq(Seq(Int)) /\ Len(first) = i /\ \A j \in 1..i : first[j] = m[j]
    <3>1. \A j \in 1..i : m[j] \in Seq(Int)
      BY <1>2, <2>1
    <3>2. i \in Int /\ 1 \in Int
      BY <2>1
    <3> QED
      BY <2>1, <3>1, <3>2, SubSeqProperties
  <2> HIDE DEF first
  <2>4. \A j \in 1..Len(first) : Len(first[j]) = 3
    BY <1>5, <2>1, <2>3
  <2>5. Len(FlattenSeq(first)) = 3 * i
    BY <2>3, <2>4, TriplesLen
  <2>6. \A j \in 1..3 : Blobs(inp)[3 * i + j] = m[i + 1][j]
    BY <1>5, <2>1, <2>2, <2>5 DEF Section
  <2>7. m[i + 1] = <<d(i + 1).name, d(i + 1).region, d(i + 1).weight>> /\ d(i + 1) \in PointData
    BY <1>2, <2>1
  <2>8. /\ m[i + 1][1] = d(i + 1).name /\ m[i + 1][2] = d(i + 1).region
        /\ m[i + 1][3] = d(i + 1).weight
    BY <2>7
  <2>9. 1 \in 1..3 /\ 2 \in 1..3 /\ 3 \in 1..3 /\ 3 * i + 3 <= 3 * N
    <3>1. i \in Nat /\ N \in Nat /\ i + 1 <= N
      BY <1>1, <2>1
    <3> QED
      BY <3>1
  <2> QED
    BY <2>6, <2>7, <2>8, <2>9
<1> QED
  BY <1>6, <1>7 DEF d

Join(ab, a, b) == ab = a \o b

Sum(n, k, m) == n = k + m

LEMMA JoinedSections ==
  ASSUME NEW A, NEW B, NEW a \in Seq(A), NEW b \in Seq(B), NEW ab, Join(ab, a, b)
  PROVE  /\ ab \in Seq(A \cup B) /\ Sum(Len(ab), Len(a), Len(b))
         /\ Section(ab, 0, a) /\ Section(ab, Len(a), b)
         /\ \A C : \A t \in Seq(C) : \A at \in Nat :
              /\ Section(a, at, t) => Section(ab, at, t)
              /\ Section(b, at, t) => Section(ab, Len(a) + at, t)
<1>1. Len(a \o b) = Len(a) + Len(b)
  BY Joined
<1>2. /\ ab \in Seq(A \cup B) /\ Sum(Len(ab), Len(a), Len(b))
      /\ Section(ab, 0, a) /\ Section(ab, Len(a), b)
  <2>1. ab \in Seq(A \cup B) /\ Section(ab, 0, a) /\ Section(ab, Len(a), b)
    BY Joined DEF Join
  <2> QED
    BY <1>1, <2>1 DEF Join, Sum
<1>3. Len(a) \in Nat /\ Len(b) \in Nat /\ Len(ab) \in Nat
  BY <1>2, LenProperties
<1>4. ASSUME NEW C, NEW t \in Seq(C), NEW at \in Nat
      PROVE  /\ Section(a, at, t) => Section(ab, at, t)
             /\ Section(b, at, t) => Section(ab, Len(a) + at, t)
  <2>1. Len(t) \in Nat
    BY LenProperties
  <2>2. ASSUME Section(a, at, t) PROVE Section(ab, at, t)
    <3>1. Section(ab, 0 + at, t)
      BY <1>2, <1>3, <2>1, <2>2, SectionOfSection
    <3>2. 0 + at = at
      OBVIOUS
    <3> QED
      BY <3>1, <3>2, Zenon
  <2>3. ASSUME Section(b, at, t) PROVE Section(ab, Len(a) + at, t)
    BY <1>2, <1>3, <2>1, <2>3, SectionOfSection
  <2> QED
    BY <2>2, <2>3
<1> QED
  BY <1>2, <1>4

DiskHead == [magic |-> "KDBH", nodeSize |-> NodeSize, numPoints |-> N]

\* Where each section of a saved file begins.
LEMMA SavedSections ==
  ASSUME NEW inp \in Inputs, NEW ord \in Permutations0
  PROVE  /\ \E X : Saved(inp, ord) \in Seq(X)
         /\ Len(Strings(inp)) \in Nat /\ Len(Text(inp)) \in Nat
         /\ Len(Saved(inp, ord)) = BlobsAt(inp) + 3 * N
         /\ Section(Saved(inp, ord), 0, <<"RGEO", 2, 1, Header(inp), "metadata">>)
         /\ Section(Saved(inp, ord), 5, StringsIndex(Strings(inp)))
         /\ Section(Saved(inp, ord), TextAt(inp), Text(inp))
         /\ Section(Saved(inp, ord), ZonesAt(inp), <<ZonesSection(inp.zones)>>)
         /\ Section(Saved(inp, ord), ZonesAt(inp) + 1, <<DiskHead>>)
         /\ Section(Saved(inp, ord), IdxsAt(inp), [i \in 1..N |-> ord[i - 1]])
         /\ Section(Saved(inp, ord), CoordsAt(inp), [i \in 1..N |-> PointAt(inp, ord, i - 1).c])
         /\ Section(Saved(inp, ord), OffsetsAt(inp), [i \in 1..N + 1 |-> (i - 1) * 3])
         /\ Section(Saved(inp, ord), BlobsAt(inp), Blobs(inp))
<1> DEFINE start == <<"RGEO", 2, 1, Header(inp), "metadata">>
           index == StringsIndex(Strings(inp))
           text == Text(inp)
           zones == <<ZonesSection(inp.zones)>>
           head == <<DiskHead>>
           orders == [i \in 1..N |-> ord[i - 1]]
           places == [i \in 1..N |-> PointAt(inp, ord, i - 1).c]
           offsets == [i \in 1..N + 1 |-> (i - 1) * 3]
           blobs == Blobs(inp)
           a2 == start \o index
           a3 == a2 \o text
           a4 == a3 \o zones
           b2 == head \o orders
           b3 == b2 \o places
           b4 == b3 \o offsets
           b5 == b4 \o blobs
           all == a4 \o b5
<1>1. N \in Nat /\ Len(inp.points) = N
  BY InputTyped, GeocoderAssumption
<1>2. Saved(inp, ord) = all
  BY <1>1 DEF Saved, SavedV2, BuildDisk, Text, Strings, Ids, Pairs, Header, DataOf, Datas, Blobs,
              PointAt, PointDataSize, DiskHead
<1>3. PICK A : start \in Seq(A) /\ Len(start) = 5
  <2>1. start \in Seq({"RGEO", 2, 1, Header(inp), "metadata"}) /\ Len(start) = 5
    OBVIOUS
  <2> QED
    BY <2>1
<1>4. /\ Strings(inp) \in Seq(Seq(Chars)) /\ Len(Strings(inp)) \in Nat
      /\ text \in Seq(Chars \cup {Nul}) /\ Len(text) \in Nat
      /\ index \in Seq(Nat) /\ Len(index) = Len(Strings(inp))
  BY StringsTyped, TextTyped, LenProperties DEF Text
<1>5. PICK Z : zones \in Seq(Z) /\ Len(zones) = 1
  <2>1. zones \in Seq({ZonesSection(inp.zones)}) /\ Len(zones) = 1
    OBVIOUS
  <2> QED
    BY <2>1
<1>6. PICK D : head \in Seq(D) /\ Len(head) = 1
  <2>1. head \in Seq({DiskHead}) /\ Len(head) = 1
    OBVIOUS
  <2> QED
    BY <2>1
<1>7. orders \in Seq(Int) /\ Len(orders) = N
  <2>1. \A i \in 1..N : ord[i - 1] \in Int
    <3>1. \A i \in 1..N : i - 1 \in 0..N - 1
      BY <1>1
    <3> QED
      BY <3>1, PointTyped
  <2> QED
    BY <1>1, <2>1
<1>8. places \in Seq(Coordinates) /\ Len(places) = N
  <2>1. \A i \in 1..N : PointAt(inp, ord, i - 1).c \in Coordinates
    <3>1. \A i \in 1..N : i - 1 \in 0..N - 1
      BY <1>1
    <3>2. \A i \in 0..N - 1 : PointAt(inp, ord, i).c \in Coordinates
      BY PointTyped DEF Point
    <3> QED
      BY <3>1, <3>2
  <2> QED
    BY <1>1, <2>1
<1>9. offsets \in Seq(Int) /\ Len(offsets) = N + 1
  <2>1. \A i \in 1..N + 1 : (i - 1) * 3 \in Int
    BY <1>1
  <2>2. N + 1 \in Nat
    BY <1>1
  <2> QED
    BY <2>1, <2>2
<1>10. blobs \in Seq(Int) /\ Len(blobs) = 3 * N
  BY BlobsTyped
<1>11. /\ Join(a2, start, index) /\ Join(a3, a2, text) /\ Join(a4, a3, zones)
      /\ Join(b2, head, orders) /\ Join(b3, b2, places) /\ Join(b4, b3, offsets)
      /\ Join(b5, b4, blobs) /\ Join(all, a4, b5)
  BY DEF Join
<1> HIDE DEF start, index, text, zones, head, orders, places, offsets, blobs,
             a2, a3, a4, b2, b3, b4, b5, all
<1>12. PICK A2 : /\ a2 \in Seq(A2) /\ Len(a2) = TextAt(inp)
                 /\ Section(a2, 0, start) /\ Section(a2, 5, index)
  <2>1. start \in Seq(A) /\ index \in Seq(Nat) /\ Len(start) = 5
    BY <1>3, <1>4
  <2>2. a2 \in Seq(A \cup Nat) /\ Sum(Len(a2), Len(start), Len(index))
        /\ Section(a2, 0, start) /\ Section(a2, Len(start), index)
    BY <1>11, <2>1, JoinedSections
  <2> QED
    BY <1>3, <1>4, <2>2 DEF Sum, TextAt
<1>13. TextAt(inp) \in Nat /\ ZonesAt(inp) \in Nat /\ ZonesAt(inp) = TextAt(inp) + Len(text)
  BY <1>4 DEF TextAt, ZonesAt, text
<1>14. PICK A3 : /\ a3 \in Seq(A3) /\ Len(a3) = ZonesAt(inp)
                 /\ Section(a3, 0, start) /\ Section(a3, 5, index)
                 /\ Section(a3, TextAt(inp), text)
  <2>1. a2 \in Seq(A2) /\ text \in Seq(Chars \cup {Nul})
    BY <1>4, <1>12
  <2>2. /\ a3 \in Seq(A2 \cup (Chars \cup {Nul})) /\ Sum(Len(a3), Len(a2), Len(text))
        /\ Section(a3, Len(a2), text)
        /\ \A C : \A t \in Seq(C) : \A at \in Nat : Section(a2, at, t) => Section(a3, at, t)
    BY <1>11, <2>1, JoinedSections
  <2>3. Section(a3, 0, start) /\ Section(a3, 5, index)
    BY <1>3, <1>4, <1>12, <2>2
  <2>4. Len(a3) = ZonesAt(inp) /\ Section(a3, TextAt(inp), text)
    BY <1>4, <1>12, <1>13, <2>2 DEF Sum
  <2> QED
    BY <2>2, <2>3, <2>4
<1>15. PICK A4 : /\ a4 \in Seq(A4) /\ Len(a4) = ZonesAt(inp) + 1
                 /\ Section(a4, 0, start) /\ Section(a4, 5, index)
                 /\ Section(a4, TextAt(inp), text) /\ Section(a4, ZonesAt(inp), zones)
  <2>1. a3 \in Seq(A3) /\ zones \in Seq(Z)
    BY <1>5, <1>14
  <2>2. /\ a4 \in Seq(A3 \cup Z) /\ Sum(Len(a4), Len(a3), Len(zones))
        /\ Section(a4, Len(a3), zones)
        /\ \A C : \A t \in Seq(C) : \A at \in Nat : Section(a3, at, t) => Section(a4, at, t)
    BY <1>11, <2>1, JoinedSections
  <2>3. Section(a4, 0, start) /\ Section(a4, 5, index) /\ Section(a4, TextAt(inp), text)
    BY <1>3, <1>4, <1>13, <1>14, <2>2
  <2>4. Len(a4) = ZonesAt(inp) + 1 /\ Section(a4, ZonesAt(inp), zones)
    BY <1>1, <1>5, <1>13, <1>14, <2>2 DEF Sum
  <2> QED
    BY <2>2, <2>3, <2>4
<1>16. PICK B2 : /\ b2 \in Seq(B2) /\ Len(b2) = 1 + N
                 /\ Section(b2, 0, head) /\ Section(b2, 1, orders)
  <2>1. head \in Seq(D) /\ orders \in Seq(Int)
    BY <1>6, <1>7
  <2>2. b2 \in Seq(D \cup Int) /\ Sum(Len(b2), Len(head), Len(orders))
        /\ Section(b2, 0, head) /\ Section(b2, Len(head), orders)
    BY <1>11, <2>1, JoinedSections
  <2> QED
    BY <1>1, <1>6, <1>7, <2>2 DEF Sum
<1>17. PICK B3 : /\ b3 \in Seq(B3) /\ Len(b3) = 1 + N + N
                 /\ Section(b3, 0, head) /\ Section(b3, 1, orders)
                 /\ Section(b3, 1 + N, places)
  <2>1. b2 \in Seq(B2) /\ places \in Seq(Coordinates)
    BY <1>8, <1>16
  <2>2. /\ b3 \in Seq(B2 \cup Coordinates) /\ Sum(Len(b3), Len(b2), Len(places))
        /\ Section(b3, Len(b2), places)
        /\ \A C : \A t \in Seq(C) : \A at \in Nat : Section(b2, at, t) => Section(b3, at, t)
    BY <1>11, <2>1, JoinedSections
  <2>3. Section(b3, 0, head) /\ Section(b3, 1, orders)
    BY <1>6, <1>7, <1>16, <2>2
  <2>4. Len(b3) = 1 + N + N /\ Section(b3, 1 + N, places)
    BY <1>1, <1>8, <1>16, <2>2 DEF Sum
  <2> QED
    BY <2>2, <2>3, <2>4
<1>18. PICK B4 : /\ b4 \in Seq(B4) /\ Len(b4) = 1 + N + N + (N + 1)
                 /\ Section(b4, 0, head) /\ Section(b4, 1, orders)
                 /\ Section(b4, 1 + N, places) /\ Section(b4, 1 + N + N, offsets)
  <2>1. b3 \in Seq(B3) /\ offsets \in Seq(Int)
    BY <1>9, <1>17
  <2>2. /\ b4 \in Seq(B3 \cup Int) /\ Sum(Len(b4), Len(b3), Len(offsets))
        /\ Section(b4, Len(b3), offsets)
        /\ \A C : \A t \in Seq(C) : \A at \in Nat : Section(b3, at, t) => Section(b4, at, t)
    BY <1>11, <2>1, JoinedSections
  <2>3. Section(b4, 0, head) /\ Section(b4, 1, orders) /\ Section(b4, 1 + N, places)
    BY <1>1, <1>6, <1>7, <1>8, <1>17, <2>2
  <2>4. Len(b4) = 1 + N + N + (N + 1) /\ Section(b4, 1 + N + N, offsets)
    BY <1>1, <1>9, <1>17, <2>2 DEF Sum
  <2> QED
    BY <2>2, <2>3, <2>4
<1>19. PICK B5 : /\ b5 \in Seq(B5) /\ Len(b5) = 1 + N + N + (N + 1) + 3 * N
                 /\ Section(b5, 0, head) /\ Section(b5, 1, orders)
                 /\ Section(b5, 1 + N, places) /\ Section(b5, 1 + N + N, offsets)
                 /\ Section(b5, 1 + N + N + (N + 1), blobs)
  <2>1. b4 \in Seq(B4) /\ blobs \in Seq(Int)
    BY <1>10, <1>18
  <2>2. /\ b5 \in Seq(B4 \cup Int) /\ Sum(Len(b5), Len(b4), Len(blobs))
        /\ Section(b5, Len(b4), blobs)
        /\ \A C : \A t \in Seq(C) : \A at \in Nat : Section(b4, at, t) => Section(b5, at, t)
    BY <1>11, <2>1, JoinedSections
  <2>3. /\ Section(b5, 0, head) /\ Section(b5, 1, orders)
        /\ Section(b5, 1 + N, places) /\ Section(b5, 1 + N + N, offsets)
    BY <1>1, <1>6, <1>7, <1>8, <1>9, <1>18, <2>2
  <2>4. Len(b5) = 1 + N + N + (N + 1) + 3 * N /\ Section(b5, 1 + N + N + (N + 1), blobs)
    BY <1>1, <1>10, <1>18, <2>2 DEF Sum
  <2> QED
    BY <2>2, <2>3, <2>4
<1>20. /\ all \in Seq(A4 \cup B5) /\ Sum(Len(all), Len(a4), Len(b5))
       /\ \A C : \A t \in Seq(C) : \A at \in Nat :
            /\ Section(a4, at, t) => Section(all, at, t)
            /\ Section(b5, at, t) => Section(all, Len(a4) + at, t)
  <2>1. a4 \in Seq(A4) /\ b5 \in Seq(B5)
    BY <1>15, <1>19
  <2> QED
    BY <1>11, <2>1, JoinedSections
<1>21. /\ Section(all, 0, start) /\ Section(all, 5, index)
       /\ Section(all, TextAt(inp), text) /\ Section(all, ZonesAt(inp), zones)
  BY <1>3, <1>4, <1>5, <1>13, <1>15, <1>20
<1> DEFINE z == ZonesAt(inp) + 1
<1>22. /\ Section(all, z + 0, head) /\ Section(all, z + 1, orders)
       /\ Section(all, z + (1 + N), places) /\ Section(all, z + (1 + N + N), offsets)
       /\ Section(all, z + (1 + N + N + (N + 1)), blobs)
  BY <1>1, <1>6, <1>7, <1>8, <1>9, <1>10, <1>15, <1>19, <1>20
<1>23. /\ z + 0 = ZonesAt(inp) + 1 /\ z + 1 = IdxsAt(inp) /\ z + (1 + N) = CoordsAt(inp)
       /\ z + (1 + N + N) = OffsetsAt(inp) /\ z + (1 + N + N + (N + 1)) = BlobsAt(inp)
       /\ Len(all) = BlobsAt(inp) + 3 * N
  <2>1. z \in Nat /\ ZonesAt(inp) \in Nat /\ z = ZonesAt(inp) + 1 /\ N \in Nat
    BY <1>1, <1>13
  <2>2. Sum(Len(all), z, 1 + N + N + (N + 1) + 3 * N)
    BY <1>15, <1>19, <1>20
  <2> HIDE DEF z
  <2>3. /\ IdxsAt(inp) = ZonesAt(inp) + 2 /\ CoordsAt(inp) = IdxsAt(inp) + N
        /\ OffsetsAt(inp) = CoordsAt(inp) + N /\ BlobsAt(inp) = OffsetsAt(inp) + N + 1
    BY DEF IdxsAt, CoordsAt, OffsetsAt, BlobsAt
  <2>4. Len(all) = z + (1 + N + N + (N + 1) + 3 * N)
    BY <2>1, <2>2 DEF Sum
  <2>5. /\ IdxsAt(inp) = z + 1 /\ CoordsAt(inp) = z + (1 + N) /\ OffsetsAt(inp) = z + (1 + N + N)
        /\ BlobsAt(inp) = z + (1 + N + N + (N + 1))
    <3>1. IdxsAt(inp) = z + 1
      BY <2>1, <2>3
    <3>2. CoordsAt(inp) = z + (1 + N)
      BY <2>1, <2>3, <3>1
    <3>3. OffsetsAt(inp) = z + (1 + N + N)
      BY <2>1, <2>3, <3>2
    <3> QED
      BY <2>1, <2>3, <3>1, <3>2, <3>3
  <2>6. z + (1 + N + N + (N + 1) + 3 * N) = z + (1 + N + N + (N + 1)) + 3 * N
    BY <2>1
  <2> QED
    BY <2>1, <2>4, <2>5, <2>6
<1> HIDE DEF z
<1>24. /\ Section(all, ZonesAt(inp) + 1, head) /\ Section(all, IdxsAt(inp), orders)
       /\ Section(all, CoordsAt(inp), places) /\ Section(all, OffsetsAt(inp), offsets)
       /\ Section(all, BlobsAt(inp), blobs)
  BY <1>22, <1>23, Zenon
<1> QED
  BY <1>2, <1>4, <1>20, <1>21, <1>23, <1>24
     DEF start, index, text, zones, head, orders, places, offsets, blobs

-----------------------------------------------------------------------------
(* The cells of a file.                                                    *)

\* The offsets are numbers, each the one before and the length of its section.
LEMMA Offsets ==
  ASSUME NEW inp \in Inputs
  PROVE  /\ N \in Nat /\ Len(Strings(inp)) \in Nat /\ Len(Text(inp)) \in Nat
         /\ TextAt(inp) \in Nat /\ TextAt(inp) = 5 + Len(Strings(inp))
         /\ ZonesAt(inp) \in Nat /\ ZonesAt(inp) = TextAt(inp) + Len(Text(inp))
         /\ IdxsAt(inp) \in Nat /\ IdxsAt(inp) = ZonesAt(inp) + 2
         /\ CoordsAt(inp) \in Nat /\ CoordsAt(inp) = IdxsAt(inp) + N
         /\ OffsetsAt(inp) \in Nat /\ OffsetsAt(inp) = CoordsAt(inp) + N
         /\ BlobsAt(inp) \in Nat /\ BlobsAt(inp) = OffsetsAt(inp) + N + 1
<1>1. N \in Nat
  BY GeocoderAssumption
<1>2. Len(Strings(inp)) \in Nat /\ Len(Text(inp)) \in Nat
  BY StringsTyped, TextTyped, LenProperties DEF Text
<1>3. TextAt(inp) \in Nat /\ TextAt(inp) = 5 + Len(Strings(inp))
  BY <1>2 DEF TextAt
<1>4. ZonesAt(inp) \in Nat /\ ZonesAt(inp) = TextAt(inp) + Len(Text(inp))
  BY <1>2, <1>3 DEF ZonesAt
<1>5. IdxsAt(inp) \in Nat /\ IdxsAt(inp) = ZonesAt(inp) + 2
  BY <1>4 DEF IdxsAt
<1>6. CoordsAt(inp) \in Nat /\ CoordsAt(inp) = IdxsAt(inp) + N
  BY <1>1, <1>5 DEF CoordsAt
<1>7. OffsetsAt(inp) \in Nat /\ OffsetsAt(inp) = CoordsAt(inp) + N
  BY <1>1, <1>6 DEF OffsetsAt
<1>8. BlobsAt(inp) \in Nat /\ BlobsAt(inp) = OffsetsAt(inp) + N + 1
  BY <1>1, <1>7 DEF BlobsAt
<1> QED
  BY <1>1, <1>2, <1>3, <1>4, <1>5, <1>6, <1>7, <1>8

\* What each cell of a saved file is.
LEMMA Layout ==
  ASSUME NEW inp \in Inputs, NEW ord \in Permutations0
  PROVE  LET cells == Saved(inp, ord)
         IN  /\ Len(cells) = BlobsAt(inp) + 3 * N
             /\ cells[1] = "RGEO" /\ cells[2] = 2 /\ cells[4] = Header(inp)
             /\ \A i \in 1..Len(Strings(inp)) : cells[5 + i] = StringsIndex(Strings(inp))[i]
             /\ \A i \in 1..Len(Text(inp)) : cells[TextAt(inp) + i] = Text(inp)[i]
             /\ cells[ZonesAt(inp) + 1] = ZonesSection(inp.zones)
             /\ cells[ZonesAt(inp) + 2] = DiskHead
             /\ \A i \in 0..N - 1 :
                  /\ cells[IdxsAt(inp) + i + 1] = ord[i]
                  /\ cells[CoordsAt(inp) + i + 1] = PointAt(inp, ord, i).c
             /\ \A i \in 0..N : cells[OffsetsAt(inp) + i + 1] = 3 * i
             /\ \A i \in 1..3 * N : cells[BlobsAt(inp) + i] = Blobs(inp)[i]
<1> DEFINE cells == Saved(inp, ord)
           start == <<"RGEO", 2, 1, Header(inp), "metadata">>
           orders == [i \in 1..N |-> ord[i - 1]]
           places == [i \in 1..N |-> PointAt(inp, ord, i - 1).c]
           offsets == [i \in 1..N + 1 |-> (i - 1) * 3]
<1>1. N \in Nat /\ ZonesAt(inp) \in Nat /\ IdxsAt(inp) \in Nat /\ CoordsAt(inp) \in Nat
      /\ OffsetsAt(inp) \in Nat
  BY Offsets
<1>2. /\ Len(cells) = BlobsAt(inp) + 3 * N
      /\ Section(cells, 0, start)
      /\ Section(cells, 5, StringsIndex(Strings(inp)))
      /\ Section(cells, TextAt(inp), Text(inp))
      /\ Section(cells, ZonesAt(inp), <<ZonesSection(inp.zones)>>)
      /\ Section(cells, ZonesAt(inp) + 1, <<DiskHead>>)
      /\ Section(cells, IdxsAt(inp), orders)
      /\ Section(cells, CoordsAt(inp), places)
      /\ Section(cells, OffsetsAt(inp), offsets)
      /\ Section(cells, BlobsAt(inp), Blobs(inp))
  BY SavedSections
<1>3. Len(StringsIndex(Strings(inp))) = Len(Strings(inp)) /\ Len(Blobs(inp)) = 3 * N
  BY StringsTyped, TextTyped, BlobsTyped
<1>4. Len(start) = 5 /\ start[1] = "RGEO" /\ start[2] = 2 /\ start[4] = Header(inp)
  OBVIOUS
<1>5. Len(orders) = N /\ \A i \in 0..N - 1 : i + 1 \in 1..N /\ orders[i + 1] = ord[i]
  <2>1. \A i \in 0..N - 1 : i + 1 \in 1..N /\ (i + 1) - 1 = i
    BY <1>1
  <2> QED
    BY <1>1, <2>1
<1>6. Len(places) = N /\ \A i \in 0..N - 1 : i + 1 \in 1..N /\ places[i + 1] = PointAt(inp, ord, i).c
  <2>1. \A i \in 0..N - 1 : i + 1 \in 1..N /\ (i + 1) - 1 = i
    BY <1>1
  <2> QED
    BY <1>1, <2>1
<1>7. Len(offsets) = N + 1 /\ \A i \in 0..N : i + 1 \in 1..N + 1 /\ offsets[i + 1] = 3 * i
  <2>1. \A i \in 0..N : i + 1 \in 1..N + 1 /\ ((i + 1) - 1) * 3 = 3 * i
    BY <1>1
  <2>2. N + 1 \in Nat
    BY <1>1
  <2> QED
    BY <2>1, <2>2
<1> HIDE DEF cells, start, orders, places, offsets
<1>8. cells[1] = "RGEO" /\ cells[2] = 2 /\ cells[4] = Header(inp)
  <2>1. 1 \in 1..5 /\ 2 \in 1..5 /\ 4 \in 1..5 /\ 0 + 1 = 1 /\ 0 + 2 = 2 /\ 0 + 4 = 4
    OBVIOUS
  <2>2. \A j \in 1..5 : cells[0 + j] = start[j]
    BY <1>2, <1>4 DEF Section
  <2>3. cells[0 + 1] = start[1] /\ cells[0 + 2] = start[2] /\ cells[0 + 4] = start[4]
    BY <2>1, <2>2
  <2> QED
    BY <1>4, <2>1, <2>3
<1>9. \A i \in 1..Len(Strings(inp)) : cells[5 + i] = StringsIndex(Strings(inp))[i]
  BY <1>2, <1>3 DEF Section
<1>10. \A i \in 1..Len(Text(inp)) : cells[TextAt(inp) + i] = Text(inp)[i]
  BY <1>2 DEF Section
<1>11. cells[ZonesAt(inp) + 1] = ZonesSection(inp.zones)
  BY <1>2 DEF Section
<1>12. cells[ZonesAt(inp) + 2] = DiskHead
  <2> DEFINE z == ZonesAt(inp) + 1
  <2>1. Section(cells, z, <<DiskHead>>)
    BY <1>2
  <2> HIDE DEF z
  <2>2. cells[z + 1] = DiskHead
    BY <2>1 DEF Section
  <2>3. z + 1 = ZonesAt(inp) + 2
    BY <1>1 DEF z
  <2> QED
    BY <2>2, <2>3
<1>13. ASSUME NEW i \in 0..N - 1
       PROVE  /\ cells[IdxsAt(inp) + i + 1] = ord[i]
              /\ cells[CoordsAt(inp) + i + 1] = PointAt(inp, ord, i).c
  <2>1. cells[IdxsAt(inp) + (i + 1)] = ord[i]
    BY <1>2, <1>5 DEF Section
  <2>2. cells[CoordsAt(inp) + (i + 1)] = PointAt(inp, ord, i).c
    BY <1>2, <1>6 DEF Section
  <2>3. IdxsAt(inp) + (i + 1) = IdxsAt(inp) + i + 1 /\ CoordsAt(inp) + (i + 1) = CoordsAt(inp) + i + 1
    BY <1>1
  <2> QED
    BY <2>1, <2>2, <2>3
<1>14. ASSUME NEW i \in 0..N PROVE cells[OffsetsAt(inp) + i + 1] = 3 * i
  <2>1. cells[OffsetsAt(inp) + (i + 1)] = 3 * i
    BY <1>2, <1>7 DEF Section
  <2>2. OffsetsAt(inp) + (i + 1) = OffsetsAt(inp) + i + 1
    BY <1>1
  <2> QED
    BY <2>1, <2>2
<1>15. \A i \in 1..3 * N : cells[BlobsAt(inp) + i] = Blobs(inp)[i]
  BY <1>2, <1>3 DEF Section
<1> QED
  BY <1>2, <1>8, <1>9, <1>10, <1>11, <1>12, <1>13, <1>14, <1>15 DEF cells

\* A file whose saving was cut short, or was not.
Torn(f, inp, ord) == \E end \in 1..Len(Saved(inp, ord)) : f = SubSeq(Saved(inp, ord), 1, end)

\* A part of a file agrees with the whole.
LEMMA TornTyped ==
  ASSUME NEW inp \in Inputs, NEW ord \in Permutations0, NEW f, Torn(f, inp, ord)
  PROVE  /\ Len(f) \in 1..Len(Saved(inp, ord)) /\ Len(Saved(inp, ord)) \in Nat
         /\ f = SubSeq(Saved(inp, ord), 1, Len(f))
         /\ \A i \in 1..Len(f) : f[i] = Saved(inp, ord)[i]
<1> DEFINE cells == Saved(inp, ord)
<1>1. PICK X : cells \in Seq(X)
  BY SavedSections
<1>2. PICK end \in 1..Len(cells) : f = SubSeq(cells, 1, end)
  BY DEF Torn
<1> HIDE DEF cells
<1>3. Len(cells) \in Nat /\ \A i \in 1..Len(cells) : cells[i] \in X
  BY <1>1, LenProperties, ElementOfSeq
<1>4. end \in Int /\ 1 \in Int /\ end >= 1 /\ \A i \in 1..end : cells[i] \in X
  BY <1>3
<1>5. /\ Len(f) = IF 1 <= end THEN end - 1 + 1 ELSE 0
      /\ \A i \in 1..end - 1 + 1 : f[i] = cells[1 + i - 1]
  BY <1>2, <1>4, SubSeqProperties
<1>6. Len(f) = end /\ \A i \in 1..end : f[i] = cells[i]
  <2>1. end - 1 + 1 = end /\ \A i \in 1..end : 1 + i - 1 = i
    BY <1>4
  <2> QED
    BY <1>4, <1>5, <2>1
<1> QED
  BY <1>2, <1>3, <1>6 DEF cells

\* A read of a part of a file fails, or reads what the whole file has there.
LEMMA CellRead ==
  ASSUME NEW inp \in Inputs, NEW ord \in Permutations0, NEW f, Torn(f, inp, ord), NEW off \in Nat
  PROVE  Cell(f, off) = IF off >= Len(f) THEN Err ELSE Saved(inp, ord)[off + 1]
<1>1. Len(f) \in Nat /\ \A i \in 1..Len(f) : f[i] = Saved(inp, ord)[i]
  BY TornTyped
<1>2. CASE off >= Len(f)
  BY <1>2 DEF Cell
<1>3. CASE ~(off >= Len(f))
  <2>1. off + 1 \in 1..Len(f)
    BY <1>1, <1>3
  <2> QED
    BY <1>1, <1>3, <2>1 DEF Cell
<1> QED
  BY <1>2, <1>3

Fits(f, off, n) == off + n <= Len(f)

Holds(cells, off, n, X) == \A i \in 1..n : cells[off + i] \in X

Reads(r, cells, off, n, X) == r \in Seq(X) /\ Len(r) = n /\ \A i \in 1..n : r[i] = cells[off + i]

LEMMA RangeRead ==
  ASSUME NEW inp \in Inputs, NEW ord \in Permutations0, NEW f, Torn(f, inp, ord),
         NEW off \in Nat, NEW n \in Nat
  PROVE  /\ ~Fits(f, off, n) => ReadAt(f, off, n) = Err
         /\ Fits(f, off, n) => \A X : Holds(Saved(inp, ord), off, n, X) =>
              Reads(ReadAt(f, off, n), Saved(inp, ord), off, n, X)
<1> DEFINE cells == Saved(inp, ord)
<1>1. Len(f) \in Nat /\ \A i \in 1..Len(f) : f[i] = cells[i]
  BY TornTyped
<1> HIDE DEF cells
<1>2. CASE off + n > Len(f)
  <2>1. ~(off + n <= Len(f))
    BY <1>1, <1>2
  <2> QED
    BY <1>2, <2>1 DEF ReadAt, Fits
<1>3. CASE ~(off + n > Len(f))
  <2> SUFFICES ASSUME NEW X, \A i \in 1..n : cells[off + i] \in X
               PROVE  /\ ReadAt(f, off, n) \in Seq(X) /\ Len(ReadAt(f, off, n)) = n
                      /\ \A i \in 1..n : ReadAt(f, off, n)[i] = cells[off + i]
    BY <1>1, <1>3 DEF cells, Fits, Holds, Reads
  <2> DEFINE r == SubSeq(f, off + 1, off + n)
  <2>1. ReadAt(f, off, n) = r
    BY <1>3 DEF ReadAt
  <2>2. \A i \in 1..n : off + i \in 1..Len(f) /\ f[off + i] = cells[off + i]
    BY <1>1, <1>3
  <2>3. \A i \in off + 1..off + n : f[i] \in X
    <3>1. \A i \in off + 1..off + n : i - off \in 1..n /\ off + (i - off) = i
      OBVIOUS
    <3> QED
      BY <2>2, <3>1
  <2>4. off + 1 \in Int /\ off + n \in Int
    OBVIOUS
  <2>5. /\ r \in Seq(X) /\ Len(r) = IF off + 1 <= off + n THEN off + n - (off + 1) + 1 ELSE 0
        /\ \A i \in 1..off + n - (off + 1) + 1 : r[i] = f[off + 1 + i - 1]
    BY <2>3, <2>4, SubSeqProperties
  <2>6. off + n - (off + 1) + 1 = n /\ (off + 1 <= off + n <=> n # 0)
    OBVIOUS
  <2>7. \A i \in 1..n : off + 1 + i - 1 = off + i
    OBVIOUS
  <2> HIDE DEF r
  <2>8. Len(r) = n /\ \A i \in 1..n : r[i] = f[off + i]
    <3>1. Len(r) = n
      BY <2>5, <2>6
    <3>2. \A i \in 1..n : r[i] = f[off + 1 + i - 1]
      BY <2>5, <2>6
    <3> QED
      BY <2>7, <3>1, <3>2
  <2> QED
    BY <2>1, <2>2, <2>5, <2>8
<1> QED
  BY <1>2, <1>3

-----------------------------------------------------------------------------
(* Reading a file back.                                                    *)

\* What opening a file finds out.
HandleOf(inp) ==
  [stringsIndex |-> StringsIndex(Strings(inp)), stringsData |-> TextAt(inp),
   zones |-> ZonesSection(inp.zones),
   bush |-> [numPoints |-> N, nodeSize |-> NodeSize, idxs |-> IdxsAt(inp), coords |-> CoordsAt(inp),
             dataOffsets |-> OffsetsAt(inp), dataBlobs |-> BlobsAt(inp)]]

LEMMA HandleTyped == ASSUME NEW inp \in Inputs PROVE HandleOf(inp) \in Handle
<1>1. StringsIndex(Strings(inp)) \in Seq(Nat)
  BY StringsTyped, TextTyped
<1>2. ZonesSection(inp.zones) \in Seq(Zone)
  BY InputTyped, SectionRange
<1>3. HandleOf(inp).bush \in Bush
  BY Offsets, GeocoderAssumption DEF HandleOf, Bush
<1> QED
  BY <1>1, <1>2, <1>3, Offsets DEF HandleOf, Handle

\* A file that does not reach the points is refused, another is opened.
LEMMA Opens ==
  ASSUME NEW inp \in Inputs, NEW ord \in Permutations0, NEW f, Torn(f, inp, ord)
  PROVE  LoadMmap(f) = IF Len(f) < ZonesAt(inp) + 2 THEN Err ELSE HandleOf(inp)
<1> DEFINE cells == Saved(inp, ord)
           ns == Len(Strings(inp))
           h == HandleOf(inp)
           disk == OpenDisk(f, ZonesAt(inp) + 1)
           bush == [numPoints |-> N, nodeSize |-> NodeSize, idxs |-> IdxsAt(inp),
                    coords |-> CoordsAt(inp), dataOffsets |-> OffsetsAt(inp),
                    dataBlobs |-> BlobsAt(inp)]
<1>1. /\ Len(f) \in Nat /\ Len(f) >= 1 /\ Len(f) <= Len(cells)
      /\ \A i \in 1..Len(f) : f[i] = cells[i]
  BY TornTyped
<1>2. /\ cells[1] = "RGEO" /\ cells[2] = 2 /\ cells[4] = Header(inp)
      /\ \A i \in 1..ns : cells[5 + i] = StringsIndex(Strings(inp))[i]
      /\ cells[ZonesAt(inp) + 1] = ZonesSection(inp.zones)
      /\ cells[ZonesAt(inp) + 2] = DiskHead
  BY Layout
<1>3. /\ ns \in Nat /\ N \in Nat /\ TextAt(inp) \in Nat /\ TextAt(inp) = 5 + ns
      /\ ZonesAt(inp) \in Nat /\ ZonesAt(inp) >= TextAt(inp)
      /\ ZonesAt(inp) = TextAt(inp) + Len(Text(inp)) /\ Len(Text(inp)) \in Nat
  BY Offsets
<1>4. disk = IF ZonesAt(inp) + 1 >= Len(f) THEN Err ELSE bush
  <2>1. ZonesAt(inp) + 1 \in Nat /\ (ZonesAt(inp) + 1) + 1 = ZonesAt(inp) + 2
    BY <1>3
  <2>2. Cell(f, ZonesAt(inp) + 1) = IF ZonesAt(inp) + 1 >= Len(f) THEN Err ELSE DiskHead
    BY <1>2, <2>1, CellRead
  <2>3. DiskHead # Err
    <3>1. DiskHead \in DiskHeader
      BY GeocoderAssumption DEF DiskHead, DiskHeader
    <3> QED
      BY <3>1, GeocoderAssumption
  <2>4. DiskHead.numPoints = N /\ DiskHead.nodeSize = NodeSize
    BY DEF DiskHead
  <2>5. /\ IdxsAt(inp) = ZonesAt(inp) + 1 + 1 /\ CoordsAt(inp) = ZonesAt(inp) + 1 + 1 + N
        /\ OffsetsAt(inp) = ZonesAt(inp) + 1 + 1 + N + N
        /\ BlobsAt(inp) = ZonesAt(inp) + 1 + 1 + N + N + N + 1
    <3>1. /\ IdxsAt(inp) \in Nat /\ CoordsAt(inp) \in Nat /\ OffsetsAt(inp) \in Nat
          /\ IdxsAt(inp) = ZonesAt(inp) + 2 /\ CoordsAt(inp) = IdxsAt(inp) + N
          /\ OffsetsAt(inp) = CoordsAt(inp) + N /\ BlobsAt(inp) = OffsetsAt(inp) + N + 1
      BY Offsets
    <3>2. IdxsAt(inp) = ZonesAt(inp) + 1 + 1
      BY <1>3, <3>1
    <3>3. CoordsAt(inp) = ZonesAt(inp) + 1 + 1 + N
      BY <3>1, <3>2
    <3>4. OffsetsAt(inp) = ZonesAt(inp) + 1 + 1 + N + N
      BY <3>1, <3>3
    <3>5. BlobsAt(inp) = ZonesAt(inp) + 1 + 1 + N + N + N + 1
      BY <3>1, <3>4
    <3> QED
      BY <3>2, <3>3, <3>4, <3>5
  <2> HIDE DEF cells, h
  <2>6. CASE ZonesAt(inp) + 1 >= Len(f)
    BY <2>2, <2>6 DEF OpenDisk
  <2>7. CASE ~(ZonesAt(inp) + 1 >= Len(f))
    <3>1. Cell(f, ZonesAt(inp) + 1) = DiskHead
      BY <2>2, <2>7
    <3>2. disk = [numPoints |-> DiskHead.numPoints, nodeSize |-> DiskHead.nodeSize,
                  idxs |-> ZonesAt(inp) + 1 + 1,
                  coords |-> ZonesAt(inp) + 1 + 1 + DiskHead.numPoints,
                  dataOffsets |-> ZonesAt(inp) + 1 + 1 + DiskHead.numPoints + DiskHead.numPoints,
                  dataBlobs |-> ZonesAt(inp) + 1 + 1 + DiskHead.numPoints + DiskHead.numPoints
                                  + DiskHead.numPoints + 1]
      BY <2>3, <3>1 DEF OpenDisk
    <3> QED
      BY <2>4, <2>5, <2>7, <3>2
  <2> QED
    BY <2>6, <2>7
<1>5. bush # Err
  <2>1. bush \in Bush
    BY Offsets, GeocoderAssumption DEF Bush
  <2> QED
    BY <2>1, GeocoderAssumption
<1> HIDE DEF cells, disk, bush, ns, h
<1>6. ASSUME ~(Len(f) <= 3)
      PROVE  /\ f[1] = "RGEO" /\ f[2] = 2 /\ f[4] = Header(inp)
  <2>1. 1 \in 1..Len(f) /\ 2 \in 1..Len(f) /\ 4 \in 1..Len(f)
    BY <1>1, <1>6
  <2> QED
    BY <1>1, <1>2, <2>1
<1>7. /\ Header(inp).metadata = 1 /\ Header(inp).stringsIndex = ns
      /\ Header(inp).stringsData = Len(Text(inp)) /\ Header(inp).zones = 1
  BY DEF Header, ns
<1>8. CASE Len(f) <= 3
  <2>1. Len(f) < ZonesAt(inp) + 2
    BY <1>1, <1>3, <1>8
  <2> QED
    BY <1>8, <2>1 DEF LoadMmap, HeaderOffset
<1>9. CASE ~(Len(f) <= 3)
  <2>1. /\ HeaderOffset + 1 = 4 /\ 4 + 1 = 5 /\ 5 + ns = TextAt(inp)
        /\ TextAt(inp) + Len(Text(inp)) = ZonesAt(inp)
    BY <1>3 DEF HeaderOffset
  <2> DEFINE header == f[HeaderOffset + 1]
             index == HeaderOffset + 1 + header.metadata
             data == index + header.stringsIndex
             zones == data + header.stringsData
             opened == OpenDisk(f, zones + header.zones)
  <2>2. LoadMmap(f) = IF opened = Err THEN Err
                      ELSE [stringsIndex |-> ReadAt(f, index, header.stringsIndex),
                            stringsData |-> data, zones |-> Cell(f, zones), bush |-> opened]
    BY <1>6, <1>9 DEF LoadMmap, HeaderOffset
  <2>3. header = Header(inp)
    BY <1>6, <1>9, <2>1
  <2>4. index = 5
    BY <1>7, <2>1, <2>3
  <2>5. data = TextAt(inp)
    BY <1>7, <2>1, <2>3, <2>4
  <2>6. zones = ZonesAt(inp)
    BY <1>7, <2>1, <2>3, <2>5
  <2>7. opened = disk
    BY <1>7, <2>3, <2>6 DEF disk
  <2> HIDE DEF header, index, data, zones, opened
  <2>8. CASE ZonesAt(inp) + 1 >= Len(f)
    <3>1. opened = Err /\ Len(f) < ZonesAt(inp) + 2
      BY <1>1, <1>3, <1>4, <2>7, <2>8
    <3> QED
      BY <2>2, <3>1
  <2>9. CASE ~(ZonesAt(inp) + 1 >= Len(f))
    <3>1. opened = bush /\ opened # Err /\ ~(Len(f) < ZonesAt(inp) + 2)
      BY <1>1, <1>3, <1>4, <1>5, <2>7, <2>9
    <3>2. ReadAt(f, index, header.stringsIndex) = StringsIndex(Strings(inp))
      <4>1. ReadAt(f, index, header.stringsIndex) = ReadAt(f, index, ns)
        BY <1>7, <2>3
      <4>2. /\ StringsIndex(Strings(inp)) \in Seq(Nat) /\ Len(StringsIndex(Strings(inp))) = ns
        BY StringsTyped, TextTyped DEF ns
      <4>3. index + ns <= Len(f) /\ index \in Nat
        BY <1>1, <1>3, <2>4, <2>9
      <4>4. \A i \in 1..ns : /\ Saved(inp, ord)[index + i] \in Nat
                            /\ Saved(inp, ord)[index + i] = StringsIndex(Strings(inp))[i]
        BY <1>2, <2>4, <4>2 DEF cells
      <4>5. /\ ReadAt(f, index, ns) \in Seq(Nat) /\ Len(ReadAt(f, index, ns)) = ns
            /\ \A i \in 1..ns : ReadAt(f, index, ns)[i] = Saved(inp, ord)[index + i]
        <5>1. Fits(f, index, ns) /\ Holds(Saved(inp, ord), index, ns, Nat)
          BY <4>3, <4>4 DEF Fits, Holds
        <5>2. Reads(ReadAt(f, index, ns), Saved(inp, ord), index, ns, Nat)
          BY <1>3, <4>3, <5>1, RangeRead
        <5> QED
          BY <5>2 DEF Reads
      <4> DEFINE r == ReadAt(f, index, ns)
                 s == StringsIndex(Strings(inp))
      <4>6. r \in Seq(Nat) /\ s \in Seq(Nat) /\ Len(r) = Len(s) /\ \A i \in 1..Len(r) : r[i] = s[i]
        BY <4>2, <4>4, <4>5
      <4> HIDE DEF r, s
      <4>7. r = s
        BY <4>6, SeqEqual
      <4> QED
        BY <4>1, <4>7 DEF r, s
    <3>3. Cell(f, zones) = ZonesSection(inp.zones)
      <4>1. ~(ZonesAt(inp) >= Len(f))
        BY <1>1, <1>3, <2>9
      <4> QED
        BY <1>2, <1>3, <2>6, <4>1, CellRead DEF cells
    <3>4. LoadMmap(f) = [stringsIndex |-> StringsIndex(Strings(inp)), stringsData |-> TextAt(inp),
                         zones |-> ZonesSection(inp.zones), bush |-> bush]
      BY <2>2, <2>5, <3>1, <3>2, <3>3
    <3> QED
      BY <3>1, <3>4 DEF HandleOf, bush
  <2> QED
    BY <2>8, <2>9
<1> QED
  BY <1>8, <1>9

-----------------------------------------------------------------------------
(* The reads of a query.                                                   *)

\* The file reaches to the data of a point.
Reaches(f, inp, i) == BlobsAt(inp) + 3 * i + 3 <= Len(f)

\* The indexes and coordinates that are read are those sort has put in order.
LEMMA ReadsOfPoints ==
  ASSUME NEW inp \in Inputs, NEW ord \in Permutations0, NEW f, Torn(f, inp, ord), NEW i \in 0..N-1
  PROVE  /\ ReadIdx(f, HandleOf(inp), i) = IF IdxsAt(inp) + i >= Len(f) THEN Err ELSE ord[i]
         /\ ReadCoord(f, HandleOf(inp), i)
              = IF CoordsAt(inp) + i >= Len(f) THEN Err ELSE PointAt(inp, ord, i).c
<1>1. /\ HandleOf(inp).bush.idxs = IdxsAt(inp) /\ HandleOf(inp).bush.coords = CoordsAt(inp)
  BY DEF HandleOf
<1>2. /\ Saved(inp, ord)[IdxsAt(inp) + i + 1] = ord[i]
      /\ Saved(inp, ord)[CoordsAt(inp) + i + 1] = PointAt(inp, ord, i).c
  BY Layout
<1>3. IdxsAt(inp) + i \in Nat /\ CoordsAt(inp) + i \in Nat
  <2>1. IdxsAt(inp) \in Nat /\ CoordsAt(inp) \in Nat /\ i \in Nat
    BY Offsets
  <2> QED
    BY <2>1
<1>4. Cell(f, IdxsAt(inp) + i) = IF IdxsAt(inp) + i >= Len(f) THEN Err ELSE ord[i]
  BY <1>2, <1>3, CellRead
<1>5. Cell(f, CoordsAt(inp) + i)
        = IF CoordsAt(inp) + i >= Len(f) THEN Err ELSE PointAt(inp, ord, i).c
  BY <1>2, <1>3, CellRead
<1> QED
  BY <1>1, <1>4, <1>5 DEF ReadIdx, ReadCoord

\* The data of a point are read whole or not at all.
LEMMA ReadOfData ==
  ASSUME NEW inp \in Inputs, NEW ord \in Permutations0, NEW f, Torn(f, inp, ord), NEW i \in 0..N-1
  PROVE  ReadPointData(f, HandleOf(inp), i)
           = IF Reaches(f, inp, i) THEN DataOf(inp, inp.points[i + 1]) ELSE Err
<1> DEFINE h == HandleOf(inp)
           cells == Saved(inp, ord)
           o == OffsetsAt(inp)
           b == BlobsAt(inp)
           at == o + i
           offsets == ReadAt(f, at, 2)
           data == DataOf(inp, inp.points[i + 1])
<1>1. h.bush.dataOffsets = o /\ h.bush.dataBlobs = b
  BY DEF HandleOf
<1>2. o \in Nat /\ b \in Nat /\ b = o + N + 1 /\ N \in Nat /\ i \in Nat /\ i + 1 <= N
  BY Offsets
<1>3. Len(f) \in Nat
  BY TornTyped
<1>4. /\ \A j \in 0..N : cells[o + j + 1] = 3 * j
      /\ \A j \in 1..3 * N : cells[b + j] = Blobs(inp)[j]
  BY Layout
<1>5. /\ data \in PointData
      /\ Blobs(inp)[3 * i + 1] = data.name
      /\ Blobs(inp)[3 * i + 2] = data.region
      /\ Blobs(inp)[3 * i + 3] = data.weight
  BY BlobsTyped
<1>6. Blobs(inp) \in Seq(Int) /\ Len(Blobs(inp)) = 3 * N
  BY BlobsTyped
<1> DEFINE blob(first, last) == ReadAt(f, b + first, last - first)
<1>7. ReadPointData(f, h, i)
        = IF offsets = Err \/ blob(offsets[1], offsets[2]) = Err THEN Err
          ELSE UnmarshalBinary(blob(offsets[1], offsets[2]))
  BY <1>1 DEF ReadPointData
<1>8. at \in Nat /\ 2 \in Nat
  BY <1>2
<1>9. ASSUME Fits(f, at, 2)
      PROVE  offsets # Err /\ offsets[1] = 3 * i /\ offsets[2] = 3 * i + 3
  <2>1. cells[at + 1] = 3 * i /\ cells[at + 2] = 3 * i + 3
    <3>1. i \in 0..N /\ i + 1 \in 0..N /\ o + (i + 1) + 1 = at + 2 /\ 3 * (i + 1) = 3 * i + 3
      BY <1>2
    <3> HIDE DEF cells, o, at
    <3>2. cells[o + i + 1] = 3 * i /\ cells[o + (i + 1) + 1] = 3 * (i + 1)
      BY <1>4, <3>1
    <3> QED
      BY <3>1, <3>2 DEF at
  <2>2. Holds(cells, at, 2, Int)
    <3>1. \A j \in 1..2 : j = 1 \/ j = 2
      OBVIOUS
    <3>2. 3 * i \in Int /\ 3 * i + 3 \in Int
      BY <1>2
    <3> HIDE DEF cells, at
    <3> QED
      BY <2>1, <3>1, <3>2 DEF Holds
  <2>3. Reads(offsets, cells, at, 2, Int)
    BY <1>8, <1>9, <2>2, RangeRead
  <2> HIDE DEF offsets, cells, at
  <2>4. offsets \in Seq(Int) /\ offsets[1] = cells[at + 1] /\ offsets[2] = cells[at + 2]
    BY <2>3 DEF Reads
  <2>5. offsets # Err
    BY <2>4, GeocoderAssumption
  <2> QED
    BY <2>1, <2>4, <2>5
<1>10. ASSUME ~Fits(f, at, 2) PROVE offsets = Err
  BY <1>8, <1>10, RangeRead
<1> DEFINE from == b + 3 * i
           r == ReadAt(f, from, 3)
<1>11. from \in Nat /\ 3 \in Nat
  BY <1>2
<1>12. ASSUME Fits(f, from, 3) PROVE r # Err /\ UnmarshalBinary(r) = data
  <2>1. /\ cells[from + 1] = data.name /\ cells[from + 2] = data.region
        /\ cells[from + 3] = data.weight
    <3>1. /\ 3 * i + 1 \in 1..3 * N /\ 3 * i + 2 \in 1..3 * N /\ 3 * i + 3 \in 1..3 * N
          /\ from + 1 = b + (3 * i + 1) /\ from + 2 = b + (3 * i + 2) /\ from + 3 = b + (3 * i + 3)
      BY <1>2
    <3> HIDE DEF cells, b, data, from
    <3>2. /\ cells[b + (3 * i + 1)] = data.name /\ cells[b + (3 * i + 2)] = data.region
          /\ cells[b + (3 * i + 3)] = data.weight
      BY <1>4, <1>5, <3>1
    <3> QED
      BY <3>1, <3>2
  <2> HIDE DEF cells, data, from, r
  <2>2. Holds(cells, from, 3, Int)
    <3>1. \A j \in 1..3 : j = 1 \/ j = 2 \/ j = 3
      OBVIOUS
    <3>2. data.name \in Int /\ data.region \in Int /\ data.weight \in Int
      BY <1>5 DEF PointData
    <3> QED
      BY <2>1, <3>1, <3>2 DEF Holds
  <2>3. Reads(r, cells, from, 3, Int)
    BY <1>11, <1>12, <2>2, RangeRead DEF r, cells
  <2>4. /\ r \in Seq(Int) /\ r[1] = cells[from + 1] /\ r[2] = cells[from + 2]
        /\ r[3] = cells[from + 3]
    BY <2>3 DEF Reads
  <2>5. r # Err
    BY <2>4, GeocoderAssumption
  <2>6. data = [name |-> data.name, region |-> data.region, weight |-> data.weight]
    BY <1>5 DEF PointData
  <2> QED
    BY <2>1, <2>4, <2>5, <2>6 DEF UnmarshalBinary
<1>13. ASSUME ~Fits(f, from, 3) PROVE r = Err
  BY <1>11, <1>13, RangeRead
<1>14. /\ Fits(f, from, 3) <=> Reaches(f, inp, i)
       /\ Fits(f, from, 3) => Fits(f, at, 2)
  BY <1>2, <1>3 DEF Fits, Reaches
<1>15. blob(3 * i, 3 * i + 3) = r
  <2>1. (3 * i + 3) - 3 * i = 3
    BY <1>2
  <2> QED
    BY <2>1
<1> HIDE DEF h, r, blob, offsets, data, at, from
<1>16. CASE Fits(f, at, 2)
  <2>1. blob(offsets[1], offsets[2]) = r
    BY <1>9, <1>15, <1>16
  <2> QED
    BY <1>7, <1>9, <1>12, <1>13, <1>14, <1>16, <2>1 DEF h, data
<1>17. CASE ~Fits(f, at, 2)
  BY <1>7, <1>10, <1>14, <1>17 DEF h
<1> QED
  BY <1>16, <1>17

-----------------------------------------------------------------------------
(* Strings that are read back.                                             *)

\* A string is cut at its first end mark.
LEMMA FirstNul ==
  ASSUME NEW X, NEW s \in Seq(X), NEW m \in Nat, m < Len(s), s[m + 1] = Nul,
         \A j \in 1..m : s[j] # Nul
  PROVE  CutAtNul(s) = SubSeq(s, 1, m)
<1> DEFINE I == {i \in 1..Len(s) : s[i] = Nul}
           end == IF I # {} THEN Min(I) ELSE 0
<1>1. Len(s) \in Nat /\ m + 1 \in 1..Len(s)
  <2>1. Len(s) \in Nat
    BY LenProperties
  <2> QED
    BY <2>1
<1>2. m + 1 \in I /\ \A y \in I : m + 1 <= y
  BY <1>1
<1>3. CutAtNul(s) = IF end = 0 THEN s ELSE SubSeq(s, 1, end - 1)
  BY DEF CutAtNul, SelectInSeq
<1>4. I \subseteq Int
  OBVIOUS
<1> HIDE DEF I
<1>5. Min(I) = m + 1
  <2>1. Min(I) \in I /\ \A y \in I : Min(I) <= y
    BY <1>2 DEF Min
  <2>2. Min(I) <= m + 1 /\ m + 1 <= Min(I) /\ Min(I) \in Int
    BY <1>2, <1>4, <2>1
  <2> HIDE DEF I
  <2> QED
    BY <2>2
<1>6. end = m + 1 /\ end # 0 /\ end - 1 = m
  BY <1>1, <1>2, <1>5
<1> HIDE DEF end
<1> QED
  BY <1>3, <1>6

LEMMA NoNul ==
  ASSUME NEW X, NEW s \in Seq(X), \A j \in 1..Len(s) : s[j] # Nul
  PROVE  CutAtNul(s) = s
<1> DEFINE I == {i \in 1..Len(s) : s[i] = Nul}
           end == IF I # {} THEN Min(I) ELSE 0
<1>1. end = 0
  OBVIOUS
<1>2. CutAtNul(s) = IF end = 0 THEN s ELSE SubSeq(s, 1, end - 1)
  BY DEF CutAtNul, SelectInSeq
<1> HIDE DEF end
<1> QED
  BY <1>1, <1>2

\* A string that is read from where it begins, up to some end behind it or in it.
LEMMA CutText ==
  ASSUME NEW c, NEW v \in Seq(Chars), NEW start \in Nat, Section(c, start, v \o <<Nul>>),
         NEW end \in Nat, start <= end, end <= Len(c), Len(c) \in Nat
  PROVE  /\ CutAtNul(SubSeq(c, start + 1, end)) \in Seq(Chars)
         /\ end - start >= Len(v) => CutAtNul(SubSeq(c, start + 1, end)) = v
<1> DEFINE m == Len(v)
           s == SubSeq(c, start + 1, end)
           ended == v \o <<Nul>>
           X == {c[j] : j \in 1..Len(c)}
<1>1. m \in Nat /\ \A j \in 1..m : v[j] \in Chars /\ v[j] # Nul
  BY LenProperties, ElementOfSeq, GeocoderAssumption
<1>2. Len(ended) = m + 1 /\ ended[m + 1] = Nul /\ \A j \in 1..m : ended[j] = v[j]
  OBVIOUS
<1>3. /\ start + m + 1 <= Len(c) /\ c[start + (m + 1)] = Nul
      /\ \A j \in 1..m : c[start + j] = v[j]
  <2> HIDE DEF ended
  <2>1. \A j \in 1..Len(ended) : c[start + j] = ended[j]
    BY DEF Section, ended
  <2>2. start + Len(ended) <= Len(c)
    BY DEF Section, ended
  <2>3. m + 1 \in 1..m + 1 /\ \A j \in 1..m : j \in 1..m + 1
    BY <1>1
  <2> HIDE DEF m
  <2> QED
    BY <1>1, <1>2, <2>1, <2>2, <2>3
<1> HIDE DEF m
<1>4. /\ s \in Seq(X) /\ Len(s) = end - start /\ \A j \in 1..end - start : s[j] = c[start + j]
  <2>1. \A j \in start + 1..end : c[j] \in X
    OBVIOUS
  <2>2. start + 1 \in Int /\ end \in Int
    OBVIOUS
  <2>3. /\ s \in Seq(X) /\ Len(s) = IF start + 1 <= end THEN end - (start + 1) + 1 ELSE 0
        /\ \A j \in 1..end - (start + 1) + 1 : s[j] = c[start + 1 + j - 1]
    <3> HIDE DEF X
    <3> QED
      BY <2>1, <2>2, SubSeqProperties
  <2>4. end - (start + 1) + 1 = end - start /\ \A j \in 1..end - start : start + 1 + j - 1 = start + j
    OBVIOUS
  <2> HIDE DEF s, X
  <2>5. Len(s) = end - start
    BY <2>3, <2>4
  <2>6. \A j \in 1..end - start : s[j] = c[start + j]
    BY <2>3, <2>4
  <2> QED
    BY <2>3, <2>5, <2>6
<1> HIDE DEF s, X, ended
<1>5. CASE end - start > m
  <2>1. m < Len(s) /\ m + 1 \in 1..end - start /\ \A j \in 1..m : j \in 1..end - start
    BY <1>1, <1>4, <1>5
  <2>2. s[m + 1] = Nul /\ \A j \in 1..m : s[j] = v[j]
    BY <1>3, <1>4, <2>1
  <2>3. CutAtNul(s) = SubSeq(s, 1, m)
    BY <1>1, <1>4, <2>1, <2>2, FirstNul
  <2>4. SubSeq(s, 1, m) = v
    <3> DEFINE t == SubSeq(s, 1, m)
    <3>1. \A j \in 1..m : s[j] \in Chars
      BY <1>1, <2>2
    <3>2. 1 \in Int /\ m \in Int
      BY <1>1
    <3>3. /\ t \in Seq(Chars) /\ Len(t) = IF 1 <= m THEN m - 1 + 1 ELSE 0
          /\ \A j \in 1..m - 1 + 1 : t[j] = s[1 + j - 1]
      BY <3>1, <3>2, SubSeqProperties
    <3>4. m - 1 + 1 = m /\ \A j \in 1..m : 1 + j - 1 = j
      BY <1>1
    <3> HIDE DEF t
    <3>5. Len(t) = m /\ \A j \in 1..m : t[j] = v[j]
      BY <1>1, <2>2, <3>3, <3>4
    <3>6. Len(t) = Len(v) /\ \A j \in 1..Len(t) : t[j] = v[j]
      BY <3>5 DEF m
    <3>7. t = v
      BY <3>3, <3>6, SeqEqual
    <3> QED
      BY <3>7 DEF t
  <2> QED
    BY <2>3, <2>4 DEF s
<1>6. CASE ~(end - start > m)
  <2>1. Len(s) <= m /\ Len(s) \in Nat /\ \A j \in 1..Len(s) : j \in 1..m /\ j \in 1..end - start
    BY <1>1, <1>4, <1>6
  <2>2. \A j \in 1..Len(s) : s[j] = v[j] /\ s[j] \in Chars /\ s[j] # Nul
    BY <1>1, <1>3, <1>4, <2>1
  <2>3. CutAtNul(s) = s
    BY <1>4, <2>2, NoNul
  <2>4. s \in Seq(Chars)
    BY <1>4, <2>2
  <2>5. ASSUME end - start >= m PROVE s = v
    <3>1. Len(s) = Len(v) /\ \A j \in 1..Len(s) : s[j] = v[j]
      BY <1>1, <1>4, <1>6, <2>2, <2>5 DEF m
    <3> QED
      BY <2>4, <3>1, SeqEqual
  <2> QED
    BY <2>3, <2>4, <2>5 DEF s, m
<1> QED
  BY <1>5, <1>6

\* Where a string of the table begins in the block of strings, and in an opened file.
LEMMA InText ==
  ASSUME NEW inp \in Inputs, NEW v \in DOMAIN Ids(inp)
  PROVE  LET off == StringsIndex(Strings(inp))[Ids(inp)[v] + 1]
         IN  /\ off \in Nat /\ Len(Text(inp)) \in Nat /\ off <= Len(Text(inp)) - Len(v)
             /\ v \in Seq(Chars) /\ Section(Text(inp), off, v \o <<Nul>>)
<1> DEFINE i == Ids(inp)[v] + 1
           off == StringsIndex(Strings(inp))[i]
<1>1. v \in Seq(Chars)
  BY IdsTyped
<1>2. i \in 1..Len(Strings(inp)) /\ Strings(inp)[i] = v /\ Strings(inp) \in Seq(Seq(Chars))
  BY StringsTyped
<1> HIDE DEF i
<1>3. Section(Text(inp), off, Strings(inp)[i] \o <<Nul>>) /\ Len(Text(inp)) \in Nat
  BY <1>2, TextTyped, LenProperties DEF Text
<1>4. Section(Text(inp), off, v \o <<Nul>>)
  BY <1>2, <1>3
<1>5. Len(v \o <<Nul>>) = Len(v) + 1 /\ Len(v) \in Nat
  BY <1>1
<1>6. off \in Nat /\ off + Len(v \o <<Nul>>) <= Len(Text(inp))
  BY <1>4 DEF Section
<1> HIDE DEF off
<1>7. off <= Len(Text(inp)) - Len(v)
  BY <1>3, <1>5, <1>6
<1> QED
  BY <1>1, <1>3, <1>4, <1>6, <1>7 DEF i, off

\* Every string lies in a file that was opened.
LEMMA InFile ==
  ASSUME NEW inp \in Inputs, NEW ord \in Permutations0, NEW f, Torn(f, inp, ord),
         Len(f) >= ZonesAt(inp) + 2, NEW v \in DOMAIN Ids(inp)
  PROVE  LET off == TextAt(inp) + StringsIndex(Strings(inp))[Ids(inp)[v] + 1]
         IN  /\ off \in Nat /\ Len(f) \in Nat /\ Section(f, off, v \o <<Nul>>)
<1> DEFINE off == StringsIndex(Strings(inp))[Ids(inp)[v] + 1]
           ended == v \o <<Nul>>
<1>1. /\ Len(f) \in Nat /\ \A i \in 1..Len(f) : f[i] = Saved(inp, ord)[i]
  BY TornTyped
<1>2. /\ TextAt(inp) \in Nat /\ Len(Text(inp)) \in Nat /\ ZonesAt(inp) \in Nat
      /\ ZonesAt(inp) = TextAt(inp) + Len(Text(inp))
  BY Offsets
<1>3. \A i \in 1..Len(Text(inp)) : Saved(inp, ord)[TextAt(inp) + i] = Text(inp)[i]
  BY Layout
<1>4. Section(f, TextAt(inp), Text(inp))
  <2>1. \A i \in 1..Len(Text(inp)) : TextAt(inp) + i \in 1..Len(f)
    BY <1>1, <1>2
  <2>2. \A i \in 1..Len(Text(inp)) : f[TextAt(inp) + i] = Text(inp)[i]
    BY <1>1, <1>3, <2>1
  <2>3. TextAt(inp) \in Nat /\ TextAt(inp) + Len(Text(inp)) <= Len(f)
    BY <1>1, <1>2
  <2> QED
    BY <2>2, <2>3 DEF Section
<1>5. off \in Nat /\ v \in Seq(Chars) /\ Section(Text(inp), off, ended)
  BY InText
<1>6. Len(ended) \in Nat
  BY <1>5
<1> HIDE DEF off, ended
<1>7. Section(f, TextAt(inp) + off, ended)
  BY <1>1, <1>2, <1>4, <1>5, <1>6, SectionOfSection
<1>8. TextAt(inp) + off \in Nat
  BY <1>2, <1>5
<1> QED
  BY <1>1, <1>7, <1>8 DEF off, ended

\* A number is turned back into its string, by three readers.
LEMMA ReadsOfStrings ==
  ASSUME NEW inp \in Inputs, NEW ord \in Permutations0, NEW f, Torn(f, inp, ord),
         Len(f) >= ZonesAt(inp) + 2, NEW v \in DOMAIN Ids(inp)
  PROVE  /\ ReadString(f, HandleOf(inp), Ids(inp)[v]) = v
         /\ ReadStr(f, HandleOf(inp), Ids(inp)[v]) \in Seq(Chars)
         /\ Len(v) <= BufLen => ReadStr(f, HandleOf(inp), Ids(inp)[v]) = v
         /\ ReadStrByID(StringsIndex(Strings(inp)), Text(inp), Ids(inp)[v]) = v
<1> DEFINE id == Ids(inp)[v]
           off == StringsIndex(Strings(inp))[id + 1]
           start == TextAt(inp) + off
           h == HandleOf(inp)
<1>1. /\ v \in Seq(Chars) /\ off \in Nat /\ Len(Text(inp)) \in Nat
      /\ off <= Len(Text(inp)) - Len(v) /\ Section(Text(inp), off, v \o <<Nul>>)
  BY InText
<1>2. start \in Nat /\ Len(f) \in Nat /\ Section(f, start, v \o <<Nul>>)
  BY InFile
<1>3. id = 0 <=> v = Empty
  BY StringsTyped
<1>4. h.stringsData + h.stringsIndex[id + 1] = start
  BY DEF HandleOf
<1>5. Len(v) \in Nat /\ BufLen \in Nat /\ Len(v \o <<Nul>>) = Len(v) + 1
  BY <1>1, GeocoderAssumption
<1>6. start + Len(v) + 1 <= Len(f)
  <2> HIDE DEF start
  <2> QED
    BY <1>2, <1>5 DEF Section
<1>7. Empty \in Seq(Chars)
  BY GeocoderAssumption
<1>8. CASE id = 0
  <2>1. v = Empty
    BY <1>3, <1>8
  <2> QED
    BY <1>7, <1>8, <2>1 DEF ReadString, ReadStr, ReadStrByID
<1>9. CASE id # 0
  <2> HIDE DEF start, off, h
  <2>1. ReadString(f, h, id) = v
    <3>1. ReadString(f, h, id) = CutAtNul(SubSeq(f, start + 1, Len(f)))
      BY <1>4, <1>9 DEF ReadString
    <3>2. start <= Len(f) /\ Len(f) - start >= Len(v)
      BY <1>2, <1>5, <1>6
    <3> HIDE DEF id
    <3>3. CutAtNul(SubSeq(f, start + 1, Len(f))) = v
      BY <1>1, <1>2, <3>2, CutText
    <3> QED
      BY <3>1, <3>3
  <2>2. /\ ReadStr(f, h, id) \in Seq(Chars)
        /\ Len(v) <= BufLen => ReadStr(f, h, id) = v
    <3> DEFINE end == Min({start + BufLen, Len(f)})
    <3>1. ReadStr(f, h, id) = CutAtNul(SubSeq(f, start + 1, end))
      BY <1>4, <1>9 DEF ReadStr
    <3>2. /\ end \in {start + BufLen, Len(f)} /\ end <= start + BufLen /\ end <= Len(f)
      <4> DEFINE two == {start + BufLen, Len(f)}
      <4>1. \A a, b \in Int : \E x \in {a, b} : \A y \in {a, b} : x <= y
        OBVIOUS
      <4>2. start + BufLen \in Int /\ Len(f) \in Int
        BY <1>2, <1>5
      <4>3. \E x \in two : \A y \in two : x <= y
        BY <4>1, <4>2
      <4>4. Min(two) \in two /\ \A y \in two : Min(two) <= y
        BY <4>3 DEF Min
      <4> QED
        BY <4>4
    <3> HIDE DEF end, id
    <3>3. end \in Nat /\ start <= end
      BY <1>2, <1>5, <1>6, <3>2
    <3>4. Len(v) <= BufLen => end - start >= Len(v)
      BY <1>2, <1>5, <1>6, <3>2
    <3>5. /\ CutAtNul(SubSeq(f, start + 1, end)) \in Seq(Chars)
          /\ end - start >= Len(v) => CutAtNul(SubSeq(f, start + 1, end)) = v
      BY <1>1, <1>2, <3>2, <3>3, CutText
    <3> QED
      BY <3>1, <3>4, <3>5
  <2>3. ReadStrByID(StringsIndex(Strings(inp)), Text(inp), id) = v
    <3>1. ReadStrByID(StringsIndex(Strings(inp)), Text(inp), id)
            = CutAtNul(SubSeq(Text(inp), off + 1, Len(Text(inp))))
      BY <1>9 DEF ReadStrByID, off
    <3>2. off <= Len(Text(inp)) /\ Len(Text(inp)) - off >= Len(v)
      BY <1>1, <1>5
    <3> HIDE DEF id
    <3>3. CutAtNul(SubSeq(Text(inp), off + 1, Len(Text(inp)))) = v
      BY <1>1, <3>2, CutText
    <3> QED
      BY <3>1, <3>3
  <2> QED
    BY <2>1, <2>2, <2>3 DEF h
<1> QED
  BY <1>8, <1>9

-----------------------------------------------------------------------------
(* The file loaded as a stream.                                            *)

\* The points of the input, without their coordinates.
Bare(inp) == [i \in 1..N |-> [inp.points[i] EXCEPT !.c = [axis \in 0..1 |-> 0]]]

\* A stream reads the strings and the table of offsets.
LEMMA BlockRead ==
  ASSUME NEW inp \in Inputs, NEW ord \in Permutations0, NEW f, Torn(f, inp, ord),
         Len(f) >= ZonesAt(inp) + 2
  PROVE  ReadAt(f, TextAt(inp), Len(Text(inp))) = Text(inp)
<1> DEFINE at == TextAt(inp)
           n == Len(Text(inp))
           r == ReadAt(f, at, n)
           X == Chars \cup {Nul}
           text == Text(inp)
<1>1. at \in Nat /\ n \in Nat /\ ZonesAt(inp) = at + n
  BY Offsets
<1>2. \A i \in 1..n : Saved(inp, ord)[at + i] = text[i]
  BY Layout
<1>3. text \in Seq(X) /\ \A i \in 1..n : text[i] \in X
  BY StringsTyped, TextTyped, ElementOfSeq DEF Text
<1>4. Fits(f, at, n)
  <2>1. Len(f) \in Nat /\ ZonesAt(inp) \in Nat
    BY TornTyped, Offsets
  <2> QED
    BY <1>1, <2>1 DEF Fits
<1> HIDE DEF X
<1>5. Holds(Saved(inp, ord), at, n, X)
  BY <1>2, <1>3 DEF Holds
<1>6. Reads(r, Saved(inp, ord), at, n, X)
  BY <1>1, <1>4, <1>5, RangeRead
<1> HIDE DEF r, at
<1>7. r \in Seq(X) /\ Len(r) = Len(text) /\ \A i \in 1..Len(r) : r[i] = text[i]
  BY <1>2, <1>6 DEF Reads
<1> HIDE DEF n, text
<1>8. r = text
  BY <1>3, <1>7, SeqEqual
<1> QED
  BY <1>8 DEF r, at, n, text

LEMMA TableRead ==
  ASSUME NEW inp \in Inputs, NEW ord \in Permutations0, NEW f, Torn(f, inp, ord)
  PROVE  ReadAt(f, OffsetsAt(inp), N + 1) = Err <=> Len(f) < BlobsAt(inp)
<1> DEFINE at == OffsetsAt(inp)
           n == N + 1
           r == ReadAt(f, at, n)
<1>1. /\ at \in Nat /\ n \in Nat /\ BlobsAt(inp) = at + n /\ N \in Nat /\ Len(f) \in Nat
  <2>1. at \in Nat /\ N \in Nat /\ BlobsAt(inp) = at + N + 1 /\ Len(f) \in Nat
    BY Offsets, TornTyped
  <2> HIDE DEF at
  <2> QED
    BY <2>1
<1>2. \A i \in 0..N : Saved(inp, ord)[at + i + 1] = 3 * i
  BY Layout
<1> HIDE DEF at
<1>3. ASSUME NEW i \in 1..n PROVE Saved(inp, ord)[at + i] \in Int
  <2>1. i - 1 \in 0..N /\ at + (i - 1) + 1 = at + i /\ 3 * (i - 1) \in Int
    BY <1>1
  <2> QED
    BY <1>2, <2>1
<1> HIDE DEF n
<1>4. Holds(Saved(inp, ord), at, n, Int)
  BY <1>3 DEF Holds
<1>5. CASE Fits(f, at, n)
  <2>1. Reads(r, Saved(inp, ord), at, n, Int)
    BY <1>1, <1>4, <1>5, RangeRead
  <2>2. r # Err
    BY <2>1, GeocoderAssumption DEF Reads
  <2>3. ~(Len(f) < BlobsAt(inp))
    BY <1>1, <1>5 DEF Fits
  <2> QED
    BY <2>2, <2>3 DEF at, n
<1>6. CASE ~Fits(f, at, n)
  <2>1. r = Err
    BY <1>1, <1>6, RangeRead
  <2>2. Len(f) < BlobsAt(inp)
    BY <1>1, <1>6 DEF Fits
  <2> QED
    BY <2>1, <2>2 DEF at, n
<1> QED
  BY <1>5, <1>6

\* A file loaded as a stream is whole, or it is refused.
LEMMA Streams ==
  ASSUME NEW inp \in Inputs, NEW ord \in Permutations0, NEW f, Torn(f, inp, ord)
  PROVE  LoadStream(f) = IF Len(f) = Len(Saved(inp, ord)) THEN Bare(inp) ELSE Err
<1> DEFINE h == HandleOf(inp)
           d(i) == ReadPointData(f, h, i)
           index == StringsIndex(Strings(inp))
           text == Text(inp)
           b == BlobsAt(inp)
<1>1. /\ Len(f) \in Nat /\ Len(f) <= Len(Saved(inp, ord)) /\ N \in Nat /\ b \in Nat
      /\ Len(Saved(inp, ord)) = b + 3 * N /\ ZonesAt(inp) \in Nat /\ b >= ZonesAt(inp) + 2
      /\ \A i \in 1..Len(f) : f[i] = Saved(inp, ord)[i]
  <2>1. Len(f) \in 1..Len(Saved(inp, ord)) /\ Len(Saved(inp, ord)) \in Nat
        /\ \A i \in 1..Len(f) : f[i] = Saved(inp, ord)[i]
    BY TornTyped
  <2>2. Len(Saved(inp, ord)) = b + 3 * N
    BY Layout
  <2>3. /\ N \in Nat /\ ZonesAt(inp) \in Nat /\ IdxsAt(inp) \in Nat /\ IdxsAt(inp) = ZonesAt(inp) + 2
        /\ CoordsAt(inp) \in Nat /\ CoordsAt(inp) = IdxsAt(inp) + N
        /\ OffsetsAt(inp) \in Nat /\ OffsetsAt(inp) = CoordsAt(inp) + N
        /\ b \in Nat /\ b = OffsetsAt(inp) + N + 1
    BY Offsets
  <2>4. OffsetsAt(inp) >= ZonesAt(inp) + 2
    BY <2>3
  <2>5. b >= ZonesAt(inp) + 2
    BY <2>3, <2>4
  <2> HIDE DEF b
  <2> QED
    BY <2>1, <2>2, <2>3, <2>5
<1> HIDE DEF b
<1>2. LoadMmap(f) = IF Len(f) < ZonesAt(inp) + 2 THEN Err ELSE h
  BY Opens
<1>3. h # Err
  BY HandleTyped, GeocoderAssumption
<1>4. CASE Len(f) < ZonesAt(inp) + 2
  <2>1. LoadMmap(f) = Err /\ Len(f) # Len(Saved(inp, ord))
    BY <1>1, <1>2, <1>4
  <2> QED
    BY <2>1 DEF LoadStream
<1>5. CASE ~(Len(f) < ZonesAt(inp) + 2)
  <2>1. LoadMmap(f) = h
    BY <1>2, <1>5
  <2>2. /\ h.bush.numPoints = N /\ h.bush.dataOffsets = OffsetsAt(inp)
        /\ h.stringsData = TextAt(inp) /\ h.stringsIndex = index
    BY DEF HandleOf
  <2>3. f[HeaderOffset + 1].stringsData = Len(text)
    <3>1. 4 \in 1..Len(f) /\ HeaderOffset + 1 = 4
      <4>1. ZonesAt(inp) >= 5
        <5>1. /\ TextAt(inp) = 5 + Len(Strings(inp)) /\ Len(Strings(inp)) \in Nat
              /\ ZonesAt(inp) = TextAt(inp) + Len(Text(inp)) /\ Len(Text(inp)) \in Nat
          BY Offsets
        <5> QED
          BY <5>1
      <4> QED
        BY <1>1, <1>5, <4>1 DEF HeaderOffset
    <3>2. Saved(inp, ord)[4] = Header(inp)
      BY Layout
    <3>3. f[4] = Header(inp)
      BY <1>1, <3>1, <3>2
    <3> QED
      BY <3>1, <3>3 DEF Header
  <2>4. ReadAt(f, h.stringsData, f[HeaderOffset + 1].stringsData) = text
    <3>1. Len(f) >= ZonesAt(inp) + 2
      BY <1>1, <1>5
    <3>2. ReadAt(f, TextAt(inp), Len(Text(inp))) = Text(inp)
      BY <3>1, BlockRead
    <3> QED
      BY <2>2, <2>3, <3>2
  <2> HIDE DEF h, text, index
  <2>5. LoadStream(f)
          = IF ReadAt(f, OffsetsAt(inp), N + 1) = Err THEN Err
            ELSE IF \E i \in 0..N - 1 : d(i) = Err THEN Err
            ELSE [i \in 1..N |-> ResolvePoint(index, text, d(i - 1))]
    BY <1>3, <2>1, <2>2, <2>4 DEF LoadStream
  <2>6. \A i \in 0..N - 1 : d(i) = IF Reaches(f, inp, i) THEN DataOf(inp, inp.points[i + 1]) ELSE Err
    BY ReadOfData DEF h
  <2>7. CASE Len(f) < b
    <3>1. ReadAt(f, OffsetsAt(inp), N + 1) = Err
      BY <2>7, TableRead DEF b
    <3>2. Len(f) # Len(Saved(inp, ord))
      BY <1>1, <2>7
    <3> QED
      BY <2>5, <3>1, <3>2
  <2>8. CASE ~(Len(f) < b) /\ Len(f) # Len(Saved(inp, ord))
    <3>1. N - 1 \in 0..N - 1 /\ b + 3 * (N - 1) + 3 > Len(f)
      <4>1. Len(f) < b + 3 * N /\ Len(f) >= b
        BY <1>1, <2>8
      <4>2. N >= 1
        BY <1>1, <4>1
      <4>3. b + 3 * (N - 1) + 3 = b + 3 * N
        BY <1>1
      <4> QED
        BY <1>1, <4>1, <4>2, <4>3
    <3>2. ~Reaches(f, inp, N - 1)
      BY <1>1, <3>1 DEF Reaches, b
    <3>3. d(N - 1) = Err
      BY <2>6, <3>1, <3>2
    <3> HIDE DEF d
    <3>4. LoadStream(f) = Err
      BY <2>5, <3>1, <3>3
    <3> QED
      BY <2>8, <3>4
  <2>9. CASE ~(Len(f) < b) /\ Len(f) = Len(Saved(inp, ord))
    <3>1. ReadAt(f, OffsetsAt(inp), N + 1) # Err
      BY <2>9, TableRead DEF b
    <3>2. ASSUME NEW i \in 1..N
          PROVE  /\ d(i - 1) # Err
                 /\ ResolvePoint(index, text, d(i - 1))
                      = [inp.points[i] EXCEPT !.c = [axis \in 0..1 |-> 0]]
      <4> DEFINE p == inp.points[i]
                 u == Ids(inp)
      <4>1. i - 1 \in 0..N - 1 /\ (i - 1) + 1 = i
        BY <1>1
      <4>2. Reaches(f, inp, i - 1)
        <5>1. b + 3 * (i - 1) + 3 <= Len(f)
          BY <1>1, <2>9
        <5> QED
          BY <5>1 DEF Reaches, b
      <4> HIDE DEF d
      <4>3. d(i - 1) = DataOf(inp, p)
        BY <2>6, <4>1, <4>2
      <4>4. DataOf(inp, inp.points[(i - 1) + 1]) \in PointData
        BY <4>1, BlobsTyped
      <4>5. DataOf(inp, p) # Err
        BY <4>1, <4>4, GeocoderAssumption
      <4>6. p.name \in DOMAIN u /\ p.region \in DOMAIN u
        BY IdsTyped
      <4>7. Len(f) >= ZonesAt(inp) + 2
        BY <1>1, <1>5
      <4> HIDE DEF u, p
      <4>8. /\ ReadStrByID(index, text, u[p.name]) = p.name
            /\ ReadStrByID(index, text, u[p.region]) = p.region
        BY <4>6, <4>7, ReadsOfStrings DEF u, index, text
      <4>9. /\ DataOf(inp, p).name = u[p.name] /\ DataOf(inp, p).region = u[p.region]
            /\ DataOf(inp, p).weight = p.weight
        BY DEF DataOf, u
      <4>10. ResolvePoint(index, text, DataOf(inp, p))
               = [name |-> p.name, region |-> p.region, weight |-> p.weight,
                  c |-> [axis \in 0..1 |-> 0]]
        BY <4>8, <4>9 DEF ResolvePoint
      <4>11. p \in Point
        BY PointsTyped DEF p
      <4>12. [p EXCEPT !.c = [axis \in 0..1 |-> 0]]
               = [name |-> p.name, region |-> p.region, weight |-> p.weight,
                  c |-> [axis \in 0..1 |-> 0]]
        <5>1. p = [c |-> p.c, name |-> p.name, region |-> p.region, weight |-> p.weight]
          BY <4>11 DEF Point
        <5>2. \A a, n, r, w, z : [[c |-> a, name |-> n, region |-> r, weight |-> w] EXCEPT !.c = z]
                                = [name |-> n, region |-> r, weight |-> w, c |-> z]
          OBVIOUS
        <5> DEFINE z == [axis \in 0..1 |-> 0]
        <5> HIDE DEF z
        <5>3. [p EXCEPT !.c = z] = [name |-> p.name, region |-> p.region, weight |-> p.weight, c |-> z]
          <6> DEFINE q == [c |-> p.c, name |-> p.name, region |-> p.region, weight |-> p.weight]
          <6>1. [q EXCEPT !.c = z] = [name |-> p.name, region |-> p.region, weight |-> p.weight, c |-> z]
            BY <5>2
          <6>2. p = q
            BY <5>1
          <6> HIDE DEF q
          <6> QED
            BY <6>1, <6>2, Zenon
        <5> QED
          BY <5>3 DEF z
      <4> QED
        BY <4>3, <4>5, <4>10, <4>12 DEF p
    <3> HIDE DEF d
    <3>3. ~\E i \in 0..N - 1 : d(i) = Err
      <4>1. \A i \in 0..N - 1 : i + 1 \in 1..N /\ (i + 1) - 1 = i
        BY <1>1
      <4> QED
        BY <3>2, <4>1
    <3>4. LoadStream(f) = [i \in 1..N |-> ResolvePoint(index, text, d(i - 1))]
      BY <2>5, <3>1, <3>3
    <3>5. LoadStream(f) = Bare(inp)
      BY <3>2, <3>4 DEF Bare
    <3> QED
      BY <2>9, <3>5
  <2> QED
    BY <2>7, <2>8, <2>9
<1> QED
  BY <1>4, <1>5

-----------------------------------------------------------------------------
(* A geocoder walks as the one in memory does, or its file ends too early. *)

\* What a geocoder keeps where the one in memory keeps a point.
Image(g, inp, kept) ==
  IF g = "memory" \/ ~kept.found THEN kept
  ELSE [found |-> TRUE, data |-> DataOf(inp, kept.data), dist |-> kept.dist]

\* The file has been opened, as a geocoder on it requires.
Opened == Torn(file, input, idxs) /\ Len(file) >= ZonesAt(input) + 2 /\ handle = HandleOf(input)

\* The save did not come to its end.
CutShort == asked # "memory" /\ Len(file) # Len(Saved(input, idxs))

Asking ==
  /\ input \in Inputs /\ idxs \in Permutations0 /\ place \in Coordinates /\ asked \in Geocoders
  /\ asked # "memory" => Opened

\* A file that is whole reaches every point.
LEMMA Reached ==
  ASSUME Asking, asked # "memory", ~CutShort, NEW i \in 0..N-1
  PROVE  Reaches(file, input, i) /\ IdxsAt(input) + i < Len(file) /\ CoordsAt(input) + i < Len(file)
<1>1. Len(file) = BlobsAt(input) + 3 * N
  BY Layout DEF Asking, CutShort
<1>2. /\ N \in Nat /\ IdxsAt(input) \in Nat
      /\ CoordsAt(input) \in Nat /\ CoordsAt(input) = IdxsAt(input) + N
      /\ OffsetsAt(input) \in Nat /\ OffsetsAt(input) = CoordsAt(input) + N
      /\ BlobsAt(input) \in Nat /\ BlobsAt(input) = OffsetsAt(input) + N + 1
  BY Offsets DEF Asking
<1>3. i \in Nat /\ i + 1 <= N /\ i < N
  BY <1>2
<1> DEFINE l == Len(file)
           x == IdxsAt(input)
           c == CoordsAt(input)
           o == OffsetsAt(input)
           b == BlobsAt(input)
<1>4. /\ x \in Nat /\ c \in Nat /\ o \in Nat /\ b \in Nat
      /\ c = x + N /\ o = c + N /\ b = o + N + 1 /\ l = b + 3 * N
  BY <1>1, <1>2
<1> HIDE DEF l, x, c, o, b
<1>5. b + 3 * i + 3 <= l /\ x + i < l /\ c + i < l
  BY <1>2, <1>3, <1>4
<1> QED
  BY <1>5 DEF Reaches, l, x, c, b

\* What is read of the point at a position.
LEMMA PointRead ==
  ASSUME Asking, NEW i \in 0..N-1
  PROVE  /\ Coord(i) = PointAt(input, idxs, i).c \/ (Coord(i) = Err /\ CutShort)
         /\ Idx(i) # Err \/ CutShort
         /\ \/ Data(i) = IF asked = "memory" THEN PointAt(input, idxs, i)
                         ELSE DataOf(input, PointAt(input, idxs, i))
            \/ Data(i) = Err /\ CutShort
<1>1. input \in Inputs /\ idxs \in Permutations0
  BY DEF Asking
<1>2. idxs[i] \in 0..N-1 /\ PointAt(input, idxs, i) \in Point /\ idxs[i] # Err
  <2>1. idxs[i] \in 0..N-1 /\ PointAt(input, idxs, i) \in Point
    BY <1>1, PointTyped
  <2>2. idxs[i] \in Nat
    BY <2>1, GeocoderAssumption
  <2> QED
    BY <2>1, <2>2, GeocoderAssumption
<1>3. CASE asked = "memory"
  <2>1. Coord(i) = PointAt(input, idxs, i).c
    BY <1>3 DEF Coord, PointAt
  <2>2. Idx(i) = idxs[i]
    BY <1>3 DEF Idx
  <2>3. Data(i) = PointAt(input, idxs, i)
    BY <1>3 DEF Data, PointAt
  <2> QED
    BY <1>2, <1>3, <2>1, <2>2, <2>3
<1>4. CASE asked # "memory"
  <2>1. Torn(file, input, idxs) /\ handle = HandleOf(input)
    BY <1>4 DEF Asking, Opened
  <2> DEFINE p == PointAt(input, idxs, i)
  <2>2. Coord(i) = IF CoordsAt(input) + i >= Len(file) THEN Err ELSE p.c
    BY <1>1, <1>4, <2>1, ReadsOfPoints DEF Coord
  <2>3. Idx(i) = IF IdxsAt(input) + i >= Len(file) THEN Err ELSE idxs[i]
    BY <1>1, <1>4, <2>1, ReadsOfPoints DEF Idx
  <2>4. ReadPointData(file, HandleOf(input), idxs[i])
          = IF Reaches(file, input, idxs[i]) THEN DataOf(input, p) ELSE Err
    BY <1>1, <1>2, <2>1, ReadOfData DEF PointAt
  <2>5. Data(i) = IF Idx(i) = Err THEN Err ELSE ReadPointData(file, HandleOf(input), idxs[i])
    <3>1. Data(i) = IF Idx(i) = Err THEN Err ELSE ReadPointData(file, HandleOf(input), Idx(i))
      BY <1>4, <2>1 DEF Data
    <3> QED
      BY <1>2, <2>3, <3>1
  <2>6. /\ CoordsAt(input) \in Nat /\ IdxsAt(input) \in Nat /\ i \in Nat /\ Len(file) \in Nat
    BY <1>1, <2>1, Offsets, TornTyped
  <2>7. CASE ~CutShort
    <3>1. /\ ~(CoordsAt(input) + i >= Len(file)) /\ ~(IdxsAt(input) + i >= Len(file))
          /\ Reaches(file, input, idxs[i])
      BY <1>2, <1>4, <2>6, <2>7, Reached
    <3> QED
      BY <1>2, <1>4, <2>2, <2>3, <2>4, <2>5, <3>1
  <2>8. CASE CutShort
    BY <1>4, <2>2, <2>4, <2>5, <2>8
  <2> QED
    BY <2>7, <2>8
<1> QED
  BY <1>3, <1>4

\* The handler keeps the same point for every geocoder.
LEMMA KeepImage ==
  ASSUME NEW g, NEW inp, NEW kept, kept.found \in BOOLEAN, NEW p, NEW dist
  PROVE  Keep(Image(g, inp, kept), IF g = "memory" THEN p ELSE DataOf(inp, p), dist)
           = Image(g, inp, Keep(kept, p, dist))
<1> DEFINE new == [found |-> TRUE, data |-> p, dist |-> dist]
           d == IF g = "memory" THEN p ELSE DataOf(inp, p)
           img == Image(g, inp, kept)
<1>1. Image(g, inp, new) = [found |-> TRUE, data |-> d, dist |-> dist]
  BY DEF Image
<1>2. img.found = kept.found
  BY DEF Image
<1>3. d.weight = p.weight
  BY DEF DataOf
<1>4. kept.found => img.dist = kept.dist /\ img.data.weight = kept.data.weight
  BY DEF Image, DataOf
<1> HIDE DEF img, d, new
<1>5. Keep(img, d, dist) = IF ~kept.found \/ dist < kept.dist \/ p.weight > kept.data.weight
                           THEN [found |-> TRUE, data |-> d, dist |-> dist] ELSE img
  BY <1>2, <1>3, <1>4 DEF Keep
<1>6. Keep(kept, p, dist) = IF ~kept.found \/ dist < kept.dist \/ p.weight > kept.data.weight
                            THEN new ELSE kept
  BY DEF Keep, new
<1> DEFINE c == ~kept.found \/ dist < kept.dist \/ p.weight > kept.data.weight
<1> HIDE DEF c
<1>7. Keep(img, d, dist) = IF c THEN Image(g, inp, new) ELSE img
  BY <1>1, <1>5 DEF c
<1>8. Keep(kept, p, dist) = IF c THEN new ELSE kept
  BY <1>6 DEF c
<1> QED
  BY <1>7, <1>8 DEF img, d

\* A point is shown as in memory, or a read fails.
LEMMA ShowSees ==
  ASSUME Asking, NEW kept, kept.found \in BOOLEAN, NEW i \in 0..N-1,
         Image(asked, input, kept) # Err
  PROVE  \/ Show(Image(asked, input, kept), i)
              = Image(asked, input, See(input, idxs, place, kept, i))
         \/ Show(Image(asked, input, kept), i) = Err /\ CutShort
<1> DEFINE p == PointAt(input, idxs, i)
           d == IF asked = "memory" THEN p ELSE DataOf(input, p)
           img == Image(asked, input, kept)
<1>1. /\ Coord(i) = p.c \/ (Coord(i) = Err /\ CutShort)
      /\ Data(i) = d \/ (Data(i) = Err /\ CutShort)
  BY PointRead
<1>2. p.c # Err /\ d # Err
  <2>1. /\ idxs[i] \in 0..N-1 /\ p \in Point
    BY PointTyped DEF Asking
  <2>2. p.c \in Coordinates
    BY <2>1 DEF Point
  <2>3. DataOf(input, p) \in PointData
    BY <2>1, BlobsTyped DEF Asking, PointAt
  <2> QED
    BY <2>1, <2>2, <2>3, GeocoderAssumption
<1>3. InRadius(p.c) <=> Close(input, idxs, place, i)
  BY DEF InRadius, Close, Dist
<1>4. DistanceSquared(p.c, place) = Dist(input, idxs, place, i)
  BY DEF Dist
<1>5. Keep(img, d, Dist(input, idxs, place, i))
        = Image(asked, input, Keep(kept, p, Dist(input, idxs, place, i)))
  BY KeepImage
<1> HIDE DEF p, d, img
<1>6. CASE Coord(i) = Err
  BY <1>1, <1>2, <1>6 DEF Show, img
<1>7. CASE Coord(i) # Err
  <2>1. Coord(i) = p.c
    BY <1>1, <1>7
  <2>2. CASE ~Close(input, idxs, place, i)
    <3>1. Show(img, i) = img
      BY <1>2, <1>3, <2>1, <2>2 DEF Show, img
    <3>2. See(input, idxs, place, kept, i) = kept
      BY <2>2 DEF See
    <3> QED
      BY <3>1, <3>2 DEF img
  <2>3. CASE Close(input, idxs, place, i)
    <3>1. See(input, idxs, place, kept, i) = Keep(kept, p, Dist(input, idxs, place, i))
      BY <2>3 DEF See, p
    <3>2. CASE Data(i) = Err
      BY <1>1, <1>2, <1>3, <2>1, <2>3, <3>2 DEF Show, img
    <3>3. CASE Data(i) # Err
      <4>1. Data(i) = d
        BY <1>1, <3>3
      <4>2. Show(img, i) = Keep(img, d, Dist(input, idxs, place, i))
        BY <1>2, <1>3, <1>4, <2>1, <2>3, <4>1 DEF Show, img
      <4> QED
        BY <1>5, <3>1, <4>2 DEF img
    <3> QED
      BY <3>2, <3>3
  <2> QED
    BY <2>2, <2>3
<1> QED
  BY <1>6, <1>7

\* There is something kept after any positions.
LEMMA SeesExist ==
  ASSUME NEW inp, NEW ord, NEW at, NEW kept, NEW first, NEW size \in Nat
  PROVE  \E f : SeesBy(f, inp, ord, at, kept, first, size)
<1> DEFINE S == {n \in Nat : \E f : SeesBy(f, inp, ord, at, kept, first, n)}
<1>1. 0 \in S
  <2> DEFINE f == [j \in 0..0 |-> kept]
  <2>1. f[0] = kept
    OBVIOUS
  <2>2. SeesBy(f, inp, ord, at, kept, first, 0)
    BY <2>1 DEF SeesBy
  <2> QED
    BY <2>2
<1>2. ASSUME NEW n \in S PROVE n + 1 \in S
  <2>1. n \in Nat /\ \E f : SeesBy(f, inp, ord, at, kept, first, n)
    OBVIOUS
  <2>2. PICK f : SeesBy(f, inp, ord, at, kept, first, n)
    BY <2>1
  <2> DEFINE new == See(inp, ord, at, f[n], first + (n + 1) - 1)
             h == [j \in 0..n + 1 |-> IF j = n + 1 THEN new ELSE f[j]]
  <2>3. h[n + 1] = new /\ \A j \in 0..n : h[j] = f[j]
    BY <2>1
  <2>4. ASSUME NEW j \in 1..n + 1
        PROVE  h[j] = See(inp, ord, at, h[j - 1], first + j - 1)
    <3>1. CASE j = n + 1
      <4>1. j - 1 = n /\ n \in 0..n
        BY <2>1, <3>1
      <4>2. h[j - 1] = f[n]
        BY <2>3, <4>1
      <4>3. h[j] = new
        BY <2>3, <3>1
      <4> HIDE DEF h
      <4> QED
        BY <3>1, <4>2, <4>3
    <3>2. CASE j # n + 1
      <4>1. j \in 1..n /\ j \in 0..n /\ j - 1 \in 0..n
        BY <2>1, <3>2
      <4>2. f[j] = See(inp, ord, at, f[j - 1], first + j - 1)
        BY <2>2, <4>1 DEF SeesBy
      <4>3. h[j] = f[j] /\ h[j - 1] = f[j - 1]
        BY <2>3, <4>1
      <4> HIDE DEF h
      <4> QED
        BY <4>2, <4>3
    <3> QED
      BY <3>1, <3>2
  <2>5. h[0] = kept
    BY <2>1, <2>2, <2>3 DEF SeesBy
  <2> HIDE DEF h
  <2>6. SeesBy(h, inp, ord, at, kept, first, n + 1)
    BY <2>4, <2>5 DEF SeesBy
  <2> QED
    BY <2>1, <2>6
<1> HIDE DEF S
<1>3. S \in SUBSET Nat
  BY DEF S
<1>4. size \in S
  BY <1>1, <1>2, <1>3, Induction
<1> QED
  BY <1>4 DEF S

\* What is kept is not a failed read.
LEMMA ImageKept ==
  ASSUME NEW g, NEW inp \in Inputs, NEW ord \in Permutations0, NEW at \in Coordinates,
         NEW kept, KeptFits(inp, ord, at, kept)
  PROVE  /\ kept.found \in BOOLEAN
         /\ kept.found = Image(g, inp, kept).found
         /\ Image(g, inp, kept) # Err
<1>1. CASE kept = Nowhere
  <2>1. Image(g, inp, kept) = Nowhere /\ kept.found = FALSE
    BY <1>1 DEF Image, Nowhere
  <2>2. Nowhere \in Kept
    BY DEF Nowhere, Kept
  <2> QED
    BY <1>1, <2>1, <2>2, GeocoderAssumption
<1>2. CASE kept # Nowhere
  <2>1. PICK i \in 0..N-1 :
          kept = [found |-> TRUE, data |-> PointAt(inp, ord, i), dist |-> Dist(inp, ord, at, i)]
    BY <1>2 DEF KeptFits
  <2> DEFINE p == PointAt(inp, ord, i)
             d == Dist(inp, ord, at, i)
  <2>2. ord[i] \in 0..N-1 /\ p \in Point /\ d \in Int
    BY PointTyped, DistTyped
  <2>3. DataOf(inp, p) \in PointData
    BY <2>2, BlobsTyped DEF PointAt
  <2> HIDE DEF p, d
  <2>4. /\ [found |-> TRUE, data |-> p, dist |-> d] \in Kept
        /\ [found |-> TRUE, data |-> DataOf(inp, p), dist |-> d] \in Kept
    BY <2>2, <2>3 DEF Kept
  <2>5. /\ kept = [found |-> TRUE, data |-> p, dist |-> d]
        /\ kept.found = TRUE /\ kept.data = p /\ kept.dist = d
    BY <2>1 DEF p, d
  <2>6. Image(g, inp, kept) \in Kept /\ Image(g, inp, kept).found = TRUE
    BY <2>4, <2>5 DEF Image
  <2> QED
    BY <2>5, <2>6, GeocoderAssumption
<1> QED
  BY <1>1, <1>2

\* The points at some positions in a row are shown as they are in memory, or a
\* read fails.
LEMMA ShownSees ==
  ASSUME Asking, NEW kept, KeptFits(input, idxs, place, kept), best = Image(asked, input, kept),
         NEW first \in Int, NEW size \in Nat, \A j \in 1..size : first + j - 1 \in 0..N-1,
         NEW positions \in Seq(Int), Len(positions) = size,
         \A j \in 1..size : positions[j] = first + j - 1
  PROVE  \/ \E after : Sees(input, idxs, place, kept, first, size, after)
                       /\ Shown(positions) = Image(asked, input, after)
         \/ Shown(positions) = Err /\ CutShort
<1>1. PICK f : SeesBy(f, input, idxs, place, kept, first, size)
  BY SeesExist
<1>2. PICK t : /\ t[0] = best
               /\ \A i \in 1..Len(positions) : t[i] = Show(t[i - 1], positions[i])
               /\ t[Len(positions)] = Shown(positions)
  BY ShownSteps
<1>3. t[0] = best /\ t[size] = Shown(positions)
      /\ \A i \in 1..size : t[i] = Show(t[i - 1], first + i - 1)
  BY <1>2
<1>4. input \in Inputs /\ idxs \in Permutations0 /\ place \in Coordinates
  BY DEF Asking
<1> DEFINE P(j) == /\ KeptFits(input, idxs, place, f[j])
                   /\ t[j] = Image(asked, input, f[j]) \/ (t[j] = Err /\ CutShort)
           S == {j \in Nat : j <= size => P(j)}
<1>5. 0 \in S
  <2>1. P(0)
    BY <1>1, <1>3 DEF SeesBy
  <2> QED
    BY <2>1
<1>6. ASSUME NEW j \in S PROVE j + 1 \in S
  <2> SUFFICES ASSUME j + 1 <= size PROVE P(j + 1)
    OBVIOUS
  <2>1. j + 1 \in 1..size /\ (j + 1) - 1 = j /\ P(j)
    OBVIOUS
  <2> DEFINE i == first + (j + 1) - 1
  <2>2. /\ f[j + 1] = See(input, idxs, place, f[j], i)
        /\ t[j + 1] = Show(t[j], i) /\ i \in 0..N-1
    BY <1>1, <1>3, <2>1 DEF SeesBy
  <2> HIDE DEF i
  <2>3. KeptFits(input, idxs, place, f[j + 1])
    BY <1>4, <2>1, <2>2, SeeFits
  <2>4. CASE t[j] = Err /\ CutShort
    BY <2>2, <2>3, <2>4 DEF Show
  <2>5. CASE t[j] = Image(asked, input, f[j])
    <3>1. f[j].found \in BOOLEAN /\ Image(asked, input, f[j]) # Err
      <4>1. KeptFits(input, idxs, place, f[j])
        BY <2>1
      <4> DEFINE kj == f[j]
      <4>2. KeptFits(input, idxs, place, kj)
        BY <4>1
      <4> HIDE DEF P, S, kj
      <4>3. kj.found \in BOOLEAN
        BY <1>4, <4>2, ImageKept
      <4>4. Image(asked, input, kj) # Err
        BY <1>4, <4>2, ImageKept
      <4> QED
        BY <4>3, <4>4 DEF kj
    <3>2. \/ Show(Image(asked, input, f[j]), i)
                = Image(asked, input, See(input, idxs, place, f[j], i))
          \/ Show(Image(asked, input, f[j]), i) = Err /\ CutShort
      BY <2>2, <3>1, ShowSees
    <3> QED
      BY <2>2, <2>3, <2>5, <3>2
  <2> QED
    BY <2>1, <2>4, <2>5
<1> HIDE DEF S
<1>7. S \in SUBSET Nat
  BY DEF S
<1>8. size \in S
  BY <1>5, <1>6, <1>7, Induction
<1>9. t[size] = Image(asked, input, f[size]) \/ (t[size] = Err /\ CutShort)
  BY <1>8 DEF S
<1>10. Sees(input, idxs, place, kept, first, size, f[size])
  BY <1>1 DEF Sees
<1> QED
  BY <1>3, <1>9, <1>10

-----------------------------------------------------------------------------
(* A step of the walk.                                                     *)

\* A walk goes on by a step.
LEMMA WalkGrows ==
  ASSUME NEW inp, NEW ord, NEW at, NEW w, NEW k \in Nat, Walk(inp, ord, at, w, k),
         NEW b, Steps(inp, ord, at, w[k], b)
  PROVE  \E v : Walk(inp, ord, at, v, k + 1) /\ v[k + 1] = b
<1> DEFINE v == [i \in 0..k + 1 |-> IF i = k + 1 THEN b ELSE w[i]]
<1>1. v[k + 1] = b /\ \A i \in 0..k : v[i] = w[i]
  OBVIOUS
<1>2. ASSUME NEW i \in 1..k + 1 PROVE Steps(inp, ord, at, v[i - 1], v[i])
  <2>1. CASE i = k + 1
    <3>1. i - 1 = k /\ k \in 0..k
      BY <2>1
    <3>2. v[i - 1] = w[k] /\ v[i] = b
      BY <1>1, <2>1, <3>1
    <3> HIDE DEF v
    <3> QED
      BY <3>2
  <2>2. CASE i # k + 1
    <3>1. i \in 1..k /\ i \in 0..k /\ i - 1 \in 0..k
      BY <2>2
    <3>2. Steps(inp, ord, at, w[i - 1], w[i])
      BY <3>1 DEF Walk
    <3>3. v[i - 1] = w[i - 1] /\ v[i] = w[i]
      BY <1>1, <3>1
    <3> HIDE DEF v
    <3> QED
      BY <3>2, <3>3
  <2> QED
    BY <2>1, <2>2
<1>3. v[0] = w[0]
  BY <1>1
<1> HIDE DEF v
<1>4. Walk(inp, ord, at, v, k + 1)
  BY <1>2, <1>3 DEF Walk
<1> QED
  BY <1>1, <1>4

\* A read fails only if the save did not come to its end.
LEMMA ReadsFail ==
  ASSUME Asking, NEW range \in AllRanges
  PROVE  /\ Unreadable(range) => CutShort
         /\ ~Unreadable(range) /\ ~Tree!IsLeaf(range) =>
              Meets(range) = Meeting(input, idxs, place, range)
<1>1. \A i \in 0..N-1 : /\ Coord(i) = PointAt(input, idxs, i).c \/ (Coord(i) = Err /\ CutShort)
                        /\ Idx(i) # Err \/ CutShort
  BY PointRead
<1>2. \A i \in 0..N-1 : PointAt(input, idxs, i).c # Err
  <2> TAKE i \in 0..N-1
  <2>1. PointAt(input, idxs, i) \in Point
    BY PointTyped DEF Asking
  <2> QED
    BY <2>1, GeocoderAssumption DEF Point
<1>3. /\ range.left \in Int /\ range.right \in Int /\ 0 <= range.left /\ range.right < N
      /\ ~Tree!IsLeaf(range) => Tree!Mid(range) \in range.left..range.right
  BY RangesSplit
<1>4. N \in Nat
  BY GeocoderAssumption
<1>5. \A i \in range.left..range.right : i \in 0..N-1
  BY <1>3, <1>4
<1>6. CASE Tree!IsLeaf(range)
  BY <1>1, <1>2, <1>5, <1>6 DEF Unreadable
<1>7. CASE ~Tree!IsLeaf(range)
  <2> DEFINE m == Tree!Mid(range)
  <2>1. m \in 0..N-1
    BY <1>3, <1>5, <1>7
  <2>2. Coord(m) = PointAt(input, idxs, m).c \/ (Coord(m) = Err /\ CutShort)
    BY <1>1, <2>1
  <2>3. Unreadable(range) <=> Coord(m) = Err
    BY <1>7 DEF Unreadable
  <2>4. Coord(m) = PointAt(input, idxs, m).c =>
          Meets(range) = Meeting(input, idxs, place, range)
    BY DEF Meets, Meeting
  <2> HIDE DEF m
  <2> QED
    BY <1>2, <1>7, <2>1, <2>2, <2>3, <2>4
<1> QED
  BY <1>6, <1>7

\* The geocoder that is asked has walked as the one in memory walks.
Walked ==
  \E w : \E k \in Nat : /\ Walk(input, idxs, place, w, k)
                        /\ stack = w[k].stack
                        /\ best = Image(asked, input, w[k].best)

\* Whatever geocoder takes a step, it takes the step of the one in memory.
LEMMA WithinWalks ==
  ASSUME Asking, SplitAll(input, idxs), Walked, Within
  PROVE  Walked' \/ (best' = Err /\ CutShort)
<1>1. input \in Inputs /\ idxs \in Permutations0 /\ place \in Coordinates
  BY DEF Asking
<1>2. PICK w : \E k \in Nat : /\ Walk(input, idxs, place, w, k)
                              /\ stack = w[k].stack
                              /\ best = Image(asked, input, w[k].best)
  BY DEF Walked
<1>3. PICK k \in Nat : /\ Walk(input, idxs, place, w, k)
                       /\ stack = w[k].stack
                       /\ best = Image(asked, input, w[k].best)
  BY <1>2
<1>4. Covers(input, idxs, place, w[k])
  BY <1>1, <1>3, WalkCovers
<1> DEFINE range == Head(stack)
           kept == w[k].best
           size == range.right - range.left + 1
           positions == [j \in 1..size |-> range.left + j - 1]
<1>5. /\ stack \in Seq(AllRanges) /\ stack # <<>> /\ range \in AllRanges
      /\ KeptFits(input, idxs, place, kept)
  <2>1. stack \in Seq(AllRanges) /\ stack # <<>> /\ KeptFits(input, idxs, place, kept)
    BY <1>3, <1>4 DEF Within, Covers
  <2> QED
    BY <2>1, HeadTailProperties
<1>6. /\ range.left \in Int /\ range.right \in Int /\ 0 <= range.left /\ range.right < N
      /\ range.left <= range.right + 1 /\ N \in Nat
      /\ ~Tree!IsLeaf(range) => Tree!Mid(range) \in range.left..range.right
  BY <1>5, RangesSplit, GeocoderAssumption
<1>7. /\ Unreadable(range) => CutShort
      /\ ~Unreadable(range) /\ ~Tree!IsLeaf(range) =>
           Meets(range) = Meeting(input, idxs, place, range)
  BY <1>5, ReadsFail
<1>8. IF Unreadable(range) THEN best' = Err /\ stack' = <<>>
      ELSE IF Tree!IsLeaf(range) THEN best' = Shown(positions) /\ stack' = Tail(stack)
      ELSE best' = Shown(<<Tree!Mid(range)>>) /\ stack' = Meets(range) \o Tail(stack)
  BY DEF Within
<1>9. UNCHANGED <<input, idxs, place, asked>>
  BY DEF Within
<1>10. SUFFICES \/ \E b : /\ Steps(input, idxs, place, w[k], b)
                          /\ stack' = b.stack /\ best' = Image(asked, input, b.best)
                \/ best' = Err /\ CutShort
  <2>1. CASE best' = Err /\ CutShort
    BY <2>1
  <2>2. ASSUME NEW b, Steps(input, idxs, place, w[k], b),
               stack' = b.stack, best' = Image(asked, input, b.best)
        PROVE  Walked'
    <3>1. PICK v : Walk(input, idxs, place, v, k + 1) /\ v[k + 1] = b
      BY <1>3, <2>2, WalkGrows
    <3>2. k + 1 \in Nat
      OBVIOUS
    <3> QED
      BY <1>9, <2>2, <3>1, <3>2 DEF Walked
  <2> QED
    BY <2>1, <2>2
<1>11. CASE Unreadable(range)
  BY <1>7, <1>8, <1>11
<1>12. CASE ~Unreadable(range) /\ Tree!IsLeaf(range)
  <2>1. size \in Nat /\ positions \in Seq(Int) /\ Len(positions) = size
        /\ \A j \in 1..size : positions[j] = range.left + j - 1
    BY <1>6
  <2>2. \A j \in 1..size : range.left + j - 1 \in 0..N-1
    BY <1>6
  <2>3. /\ w[k].stack = stack /\ Head(w[k].stack) = range
        /\ best' = Shown(positions) /\ stack' = Tail(stack)
    BY <1>3, <1>8, <1>12
  <2> HIDE DEF positions
  <2>4. \/ \E after : Sees(input, idxs, place, kept, range.left, size, after)
                      /\ Shown(positions) = Image(asked, input, after)
        \/ Shown(positions) = Err /\ CutShort
    <3> HIDE DEF size, range, kept
    <3> QED
      BY <1>3, <1>5, <1>6, <2>1, <2>2, ShownSees DEF kept
  <2>5. ASSUME NEW after, Sees(input, idxs, place, kept, range.left, size, after),
               Shown(positions) = Image(asked, input, after)
        PROVE  \E b : /\ Steps(input, idxs, place, w[k], b)
                      /\ stack' = b.stack /\ best' = Image(asked, input, b.best)
    <3> DEFINE b == [stack |-> Tail(stack), best |-> after]
    <3>1. b.stack = Tail(stack) /\ b.best = after
      OBVIOUS
    <3> HIDE DEF b
    <3>2. Steps(input, idxs, place, w[k], b)
      BY <1>3, <1>5, <1>12, <2>5, <3>1 DEF Steps
    <3> QED
      BY <2>3, <2>5, <3>1, <3>2
  <2> QED
    BY <2>3, <2>4, <2>5
<1>13. CASE ~Unreadable(range) /\ ~Tree!IsLeaf(range)
  <2> DEFINE m == Tree!Mid(range)
             one == <<m>>
  <2>1. m \in 0..N-1 /\ m \in Int
    BY <1>6, <1>13
  <2>2. /\ best' = Shown(one) /\ stack' = Meeting(input, idxs, place, range) \o Tail(stack)
    BY <1>7, <1>8, <1>13
  <2>3. /\ one \in Seq(Int) /\ Len(one) = 1
        /\ \A j \in 1..1 : one[j] = m + j - 1 /\ m + j - 1 \in 0..N-1
    BY <2>1
  <2> HIDE DEF m, one
  <2>4. \/ \E after : Sees(input, idxs, place, kept, m, 1, after)
                      /\ Shown(one) = Image(asked, input, after)
        \/ Shown(one) = Err /\ CutShort
    <3> HIDE DEF size, range, kept
    <3> QED
      BY <1>3, <1>5, <2>1, <2>3, ShownSees DEF kept
  <2>5. ASSUME NEW after, Sees(input, idxs, place, kept, m, 1, after),
               Shown(one) = Image(asked, input, after)
        PROVE  \E b : /\ Steps(input, idxs, place, w[k], b)
                      /\ stack' = b.stack /\ best' = Image(asked, input, b.best)
    <3> DEFINE b == [stack |-> Meeting(input, idxs, place, range) \o Tail(stack), best |-> after]
    <3>1. b.stack = Meeting(input, idxs, place, range) \o Tail(stack) /\ b.best = after
      OBVIOUS
    <3> HIDE DEF b
    <3>2. Steps(input, idxs, place, w[k], b)
      BY <1>3, <1>5, <1>13, <2>5, <3>1 DEF Steps, m
    <3> QED
      BY <2>2, <2>5, <3>1, <3>2
  <2> QED
    BY <2>2, <2>4, <2>5
<1> QED
  BY <1>11, <1>12, <1>13

-----------------------------------------------------------------------------
(* The answer.                                                             *)

InfoOf(p, region, country) ==
  Answer(p.name, IF p.region = Empty THEN OrEmpty(region) ELSE p.region, OrEmpty(country), p.weight)

BorderInfo(region, country) ==
  IF region = NotFound /\ country = NotFound THEN NotFound
  ELSE Answer(Empty, OrEmpty(region), OrEmpty(country), 0)

\* The buffer holds the strings of a point.
Buffered(g, p) == g = "disk" => Len(p.name) <= BufLen /\ Len(p.region) <= BufLen

\* The answer of a geocoder that found names of a region and of a country.
AnswerWith(g, kept, region, country, answer) ==
  IF kept.found
  THEN answer \in InfoModel /\ (Buffered(g, kept.data) => answer = InfoOf(kept.data, region, country))
  ELSE answer = BorderInfo(region, country)

RightAnswer(g, inp, at, kept, answer) ==
  \E region \in FoundBy(g, inp, at, "region"), country \in FoundBy(g, inp, at, "country") :
    AnswerWith(g, kept, region, country, answer)

\* The borders are asked in the order of the input or of the file.
LEMMA FoundIs ==
  ASSUME Asking, NEW type
  PROVE  Found(type) = FoundBy(asked, input, place, type)
<1>1. CASE asked = "memory"
  BY <1>1 DEF Found, FoundBy, Zones
<1>2. CASE asked # "memory"
  <2>1. handle = HandleOf(input)
    BY <1>2 DEF Asking, Opened
  <2>2. Zones = ZonesSection(input.zones)
    BY <1>2, <2>1 DEF Zones, HandleOf
  <2>3. CASE asked = "disk"
    BY <2>2, <2>3 DEF Found, FoundBy
  <2>4. CASE asked = "rust"
    BY <2>2, <2>4 DEF Found, FoundBy
  <2> QED
    BY <1>2, <2>3, <2>4 DEF Asking, Geocoders
<1> QED
  BY <1>1, <1>2

LEMMA InfosTyped ==
  /\ \A name \in Seq(Chars), region \in Seq(Chars), country \in Seq(Chars), weight \in Int :
       Answer(name, region, country, weight) \in InfoModel
  /\ \A name : name = NotFound \/ name \in Seq(Chars) => OrEmpty(name) \in Seq(Chars)
<1>1. Empty \in Seq(Chars)
  BY GeocoderAssumption
<1> QED
  BY <1>1 DEF Answer, InfoModel, OrEmpty

\* The strings of a point are found again.
LEMMA ResolvesPoint ==
  ASSUME Asking, NEW n \in 1..N
  PROVE  LET p    == input.points[n]
             info == Resolve(IF asked = "memory" THEN p ELSE DataOf(input, p))
         IN  /\ info.name \in Seq(Chars) /\ info.region \in Seq(Chars) /\ info.weight = p.weight
             /\ Buffered(asked, p) => info.name = p.name /\ info.region = p.region
<1> DEFINE p == input.points[n]
           d == DataOf(input, p)
           info == Resolve(IF asked = "memory" THEN p ELSE d)
           Q(i) == /\ i.name \in Seq(Chars) /\ i.region \in Seq(Chars) /\ i.weight = p.weight
                   /\ Buffered(asked, p) => i.name = p.name /\ i.region = p.region
<1>1. input \in Inputs /\ idxs \in Permutations0
  BY DEF Asking
<1>2. p.name \in Seq(Chars) /\ p.region \in Seq(Chars)
  BY <1>1, PointsTyped
<1>3. p.name \in DOMAIN Ids(input) /\ p.region \in DOMAIN Ids(input)
  BY <1>1, IdsTyped
<1>4. d.name = Ids(input)[p.name] /\ d.region = Ids(input)[p.region] /\ d.weight = p.weight
  BY DEF DataOf
<1> HIDE DEF p, d
<1>5. ASSUME asked = "memory" PROVE Q(info)
  <2>1. info = [name |-> p.name, region |-> p.region, weight |-> p.weight]
    BY <1>5 DEF Resolve
  <2> QED
    BY <1>2, <2>1
<1>6. ASSUME asked # "memory", NEW v \in DOMAIN Ids(input)
      PROVE  /\ ReadString(file, handle, Ids(input)[v]) = v
             /\ ReadStr(file, handle, Ids(input)[v]) \in Seq(Chars)
             /\ Len(v) <= BufLen => ReadStr(file, handle, Ids(input)[v]) = v
  <2>1. Torn(file, input, idxs) /\ Len(file) >= ZonesAt(input) + 2 /\ handle = HandleOf(input)
    BY <1>6 DEF Asking, Opened
  <2> QED
    BY <1>1, <1>6, <2>1, ReadsOfStrings
<1>7. ASSUME asked = "disk" PROVE Q(info)
  <2>1. info = [name |-> ReadStr(file, handle, d.name), region |-> ReadStr(file, handle, d.region),
                weight |-> d.weight]
    BY <1>7 DEF Resolve
  <2> QED
    BY <1>3, <1>4, <1>6, <1>7, <2>1 DEF Buffered
<1>8. ASSUME asked = "rust" PROVE Q(info)
  <2>1. info = [name |-> ReadString(file, handle, d.name),
                region |-> ReadString(file, handle, d.region), weight |-> d.weight]
    BY <1>8 DEF Resolve
  <2> QED
    BY <1>2, <1>3, <1>4, <1>6, <1>8, <2>1
<1>9. asked \in {"memory", "disk", "rust"}
  BY DEF Asking, Geocoders
<1>10. Q(info)
  <2> HIDE DEF Q, info
  <2> QED
    BY <1>5, <1>7, <1>8, <1>9
<1> QED
  BY <1>10 DEF p, d

\* The answer that is made of a point and of borders is right.
LEMMA AnswersRight ==
  ASSUME Asking, NEW kept, KeptFits(input, idxs, place, kept), best = Image(asked, input, kept),
         NEW region \in Found("region"), NEW country \in Found("country")
  PROVE  AnswerWith(asked, kept, region, country,
                    IF best.found THEN Happy(region, country) ELSE Unhappy(region, country))
<1>1. input \in Inputs /\ idxs \in Permutations0 /\ place \in Coordinates /\ asked \in Geocoders
  BY DEF Asking
<1>2. kept.found \in BOOLEAN /\ best.found = kept.found
  BY <1>1, ImageKept
<1>3. /\ region = NotFound \/ region \in Seq(Chars) \ {Empty}
      /\ country = NotFound \/ country \in Seq(Chars) \ {Empty}
  <2>1. region \in FoundBy(asked, input, place, "region")
    BY FoundIs
  <2>2. country \in FoundBy(asked, input, place, "country")
    BY FoundIs
  <2> QED
    BY <1>1, <2>1, <2>2, NamesFound
<1>4. OrEmpty(region) \in Seq(Chars) /\ OrEmpty(country) \in Seq(Chars)
  BY <1>3, InfosTyped
<1>5. CASE kept.found
  <2>1. PICK i \in 0..N-1 : kept.data = PointAt(input, idxs, i)
    BY <1>5 DEF KeptFits, Nowhere
  <2> DEFINE p == kept.data
             info == Resolve(best.data)
  <2>2. idxs[i] + 1 \in 1..N /\ p = input.points[idxs[i] + 1] /\ p.weight \in Int
    BY <1>1, <2>1, PointTyped DEF PointAt
  <2>3. best.data = IF asked = "memory" THEN p ELSE DataOf(input, p)
    BY <1>5 DEF Image
  <2>4. /\ info.name \in Seq(Chars) /\ info.region \in Seq(Chars) /\ info.weight = p.weight
        /\ Buffered(asked, p) => info.name = p.name /\ info.region = p.region
    <3> HIDE DEF p
    <3> QED
      BY <2>2, <2>3, ResolvesPoint
  <2>5. Happy(region, country)
          = Answer(info.name, IF info.region = Empty THEN OrEmpty(region) ELSE info.region,
                   OrEmpty(country), info.weight)
    BY DEF Happy
  <2> HIDE DEF info
  <2>6. Happy(region, country) \in InfoModel
    BY <1>4, <2>2, <2>4, <2>5, InfosTyped
  <2>7. Buffered(asked, p) => Happy(region, country) = InfoOf(p, region, country)
    BY <2>4, <2>5 DEF InfoOf
  <2> QED
    BY <1>2, <1>5, <2>6, <2>7 DEF AnswerWith
<1>6. CASE ~kept.found
  <2>1. region # Empty /\ country # Empty
    <3>1. Empty \in Seq(Chars) /\ NotFound \notin Seq(Chars)
      BY GeocoderAssumption
    <3> QED
      BY <1>3, <3>1
  <2>2. OrEmpty(region) = Empty /\ OrEmpty(country) = Empty
          <=> region = NotFound /\ country = NotFound
    BY <2>1 DEF OrEmpty
  <2>3. Unhappy(region, country) = BorderInfo(region, country)
    BY <2>2 DEF Unhappy, BorderInfo
  <2> QED
    BY <1>2, <1>6, <2>3 DEF AnswerWith
<1> QED
  BY <1>2, <1>5, <1>6

-----------------------------------------------------------------------------
(* The inductive invariant.                                                *)

InputInv ==
  input \in Inputs /\ idxs \in Permutations0 /\ SplitAll(input, idxs)

\* The file is a part of what is saved from the beginning, the whole of it if the
\* save came to its end, and what is opened and loaded is of that file.
FileInv ==
  /\ complete \in BOOLEAN
  /\ \/ file = <<>> /\ ~complete /\ handle = None /\ streamed = None
     \/ /\ Torn(file, input, idxs)
        /\ complete <=> Len(file) = Len(Saved(input, idxs))
        /\ \/ handle = None /\ streamed = None
           \/ handle = LoadMmap(file) /\ streamed = LoadStream(file)

Failed == asked # "memory" /\ best = Err /\ ~complete

\* The geocoder that is asked walks as the one in memory walks until a read fails.
AskedInv ==
  asked # None =>
    /\ asked \in Geocoders /\ place \in Places /\ handle # None
    /\ asked # "memory" => handle # Err
    /\ Failed \/ Walked

\* A geocoder fails on a file that was cut short, or has answered right.
Settled(g, inp, ord, at, whole, answer) ==
  \/ g # "memory" /\ ~whole /\ answer = IF g = "disk" THEN NotFound ELSE Err
  \/ \E kept : Keeps(inp, ord, at, kept) /\ RightAnswer(g, inp, at, kept, answer)

AnswersInv ==
  /\ answers = [g \in Geocoders |-> answers[g]]
  /\ \A g \in Geocoders : answers[g] # None =>
       place \in Places /\ handle # None /\ Settled(g, input, idxs, place, complete, answers[g])

GeocoderInv == InputInv /\ FileInv /\ AskedInv /\ AnswersInv

\* A file that was opened is a part of the saved one.
LEMMA FileOpened ==
  ASSUME InputInv, FileInv, handle # None
  PROVE  /\ Torn(file, input, idxs) /\ file # <<>>
         /\ complete <=> Len(file) = Len(Saved(input, idxs))
         /\ handle = LoadMmap(file) /\ streamed = LoadStream(file)
         /\ handle # Err => Opened
<1>1. /\ Torn(file, input, idxs)
      /\ complete <=> Len(file) = Len(Saved(input, idxs))
      /\ handle = LoadMmap(file) /\ streamed = LoadStream(file)
  BY DEF FileInv
<1>2. /\ Len(file) \in 1..Len(Saved(input, idxs)) /\ ZonesAt(input) \in Nat
      /\ Len(Saved(input, idxs)) \in Nat
      /\ LoadMmap(file) = IF Len(file) < ZonesAt(input) + 2 THEN Err ELSE HandleOf(input)
  BY <1>1, TornTyped, Opens, Offsets DEF InputInv
<1>3. handle # Err => Opened
  BY <1>1, <1>2 DEF Opened
<1>4. file # <<>>
  BY <1>2
<1> QED
  BY <1>1, <1>3, <1>4

\* A geocoder that is asked stands on an opened file, or on the points in memory.
LEMMA WhoAsks ==
  ASSUME InputInv, FileInv, AskedInv, asked # None
  PROVE  /\ Asking /\ (CutShort <=> asked # "memory" /\ ~complete)
         /\ Failed \/ Walked
<1>1. /\ asked \in Geocoders /\ place \in Places /\ handle # None
      /\ asked # "memory" => handle # Err
      /\ Failed \/ Walked
  BY DEF AskedInv
<1>2. /\ complete <=> Len(file) = Len(Saved(input, idxs))
      /\ handle # Err => Opened
  BY <1>1, FileOpened
<1>3. place \in Coordinates
  BY <1>1, GeocoderAssumption
<1> QED
  BY <1>1, <1>2, <1>3 DEF Asking, CutShort, InputInv

-----------------------------------------------------------------------------
\* The initial states have the invariant, and every action keeps it.
LEMMA InitInv == Init => GeocoderInv
<1> SUFFICES ASSUME Init PROVE GeocoderInv
  OBVIOUS
<1>1. InputInv
  <2>1. input \in Inputs /\ idxs \in Permutations0 /\ Sorted
    BY DEF Init
  <2>2. ASSUME NEW range \in AllRanges, ~Tree!IsLeaf(range)
        PROVE  /\ \A i \in range.left..Tree!Mid(range) - 1 :
                    PointAt(input, idxs, i).c[range.axis]
                      <= PointAt(input, idxs, Tree!Mid(range)).c[range.axis]
               /\ \A i \in Tree!Mid(range) + 1..range.right :
                    PointAt(input, idxs, i).c[range.axis]
                      >= PointAt(input, idxs, Tree!Mid(range)).c[range.axis]
    <3>1. Tree!Split(range)
      BY <2>1, <2>2 DEF Sorted, AllRanges
    <3> DEFINE m == Tree!Mid(range)
               coords == [i \in 0..N-1 |-> input.points[idxs[i] + 1].c]
    <3>2. /\ range.left \in Int /\ range.right \in Int /\ 0 <= range.left /\ range.right < N
          /\ m \in range.left..range.right /\ N \in Nat
      BY <2>2, RangesSplit, GeocoderAssumption
    <3>3. /\ \A i \in range.left..m - 1 : coords[i][range.axis] <= coords[m][range.axis]
          /\ \A i \in m + 1..range.right : coords[i][range.axis] >= coords[m][range.axis]
      BY <3>1 DEF Tree!Split
    <3>4. \A i \in 0..N-1 : coords[i] = PointAt(input, idxs, i).c
      BY DEF PointAt
    <3> HIDE DEF m, coords
    <3>5. /\ \A i \in range.left..m - 1 : i \in 0..N-1
          /\ \A i \in m + 1..range.right : i \in 0..N-1
          /\ m \in 0..N-1
      BY <3>2
    <3>6. /\ \A i \in range.left..m - 1 :
               PointAt(input, idxs, i).c[range.axis] <= PointAt(input, idxs, m).c[range.axis]
          /\ \A i \in m + 1..range.right :
               PointAt(input, idxs, i).c[range.axis] >= PointAt(input, idxs, m).c[range.axis]
      BY <3>3, <3>4, <3>5
    <3> QED
      BY <3>6 DEF m
  <2> QED
    BY <2>1, <2>2 DEF InputInv, SplitAll
<1>2. FileInv
  BY DEF Init, FileInv
<1>3. AskedInv
  BY DEF Init, AskedInv
<1>4. AnswersInv
  BY DEF Init, AnswersInv
<1> QED
  BY <1>1, <1>2, <1>3, <1>4 DEF GeocoderInv

LEMMA SaveInv == GeocoderInv /\ Save => GeocoderInv'
<1> SUFFICES ASSUME GeocoderInv, Save PROVE GeocoderInv'
  OBVIOUS
<1>1. InputInv /\ FileInv /\ AskedInv /\ AnswersInv
  BY DEF GeocoderInv
<1>2. UNCHANGED <<input, idxs, handle, streamed, place, asked, stack, best, answers>> /\ file = <<>>
  BY DEF Save
<1>3. handle = None /\ streamed = None
  <2>1. handle = None
    BY <1>1, <1>2, FileOpened
  <2>2. ASSUME Torn(file, input, idxs) PROVE FALSE
    <3>1. Len(file) \in 1..Len(Saved(input, idxs)) /\ Len(Saved(input, idxs)) \in Nat
      BY <1>1, <2>2, TornTyped DEF InputInv
    <3> QED
      BY <1>2, <3>1
  <2> QED
    BY <1>1, <2>1, <2>2 DEF FileInv
<1>4. asked = None /\ \A g \in Geocoders : answers[g] = None
  BY <1>1, <1>3 DEF AskedInv, AnswersInv
<1>5. FileInv'
  <2> DEFINE cells == Saved(input, idxs)
  <2>1. PICK end \in 1..Len(cells) : file' = SubSeq(cells, 1, end) /\ complete' = (end = Len(cells))
    BY DEF Save, Saved
  <2>2. PICK X : cells \in Seq(X)
    BY <1>1, SavedSections DEF InputInv
  <2> HIDE DEF cells
  <2>3. Len(file') = end
    BY <2>1, <2>2
  <2>4. Torn(file', input, idxs)
    BY <2>1 DEF Torn, cells
  <2>5. complete' \in BOOLEAN /\ (complete' <=> Len(file') = Len(cells))
    BY <2>1, <2>3
  <2> QED
    BY <1>2, <1>3, <2>4, <2>5 DEF FileInv, cells
<1>6. InputInv'
  BY <1>1, <1>2 DEF InputInv
<1>7. AskedInv' /\ AnswersInv'
  BY <1>1, <1>2, <1>4 DEF AskedInv, AnswersInv
<1> QED
  BY <1>5, <1>6, <1>7 DEF GeocoderInv

LEMMA OpenInv == GeocoderInv /\ Open => GeocoderInv'
<1> SUFFICES ASSUME GeocoderInv, Open PROVE GeocoderInv'
  OBVIOUS
<1>1. InputInv /\ FileInv /\ AskedInv /\ AnswersInv
  BY DEF GeocoderInv
<1>2. /\ UNCHANGED <<input, idxs, file, complete, place, asked, stack, best, answers>>
      /\ file # <<>> /\ handle = None
      /\ handle' = LoadMmap(file) /\ streamed' = LoadStream(file)
  BY DEF Open
<1>3. asked = None /\ \A g \in Geocoders : answers[g] = None
  BY <1>1, <1>2 DEF AskedInv, AnswersInv
<1>4. FileInv'
  <2>1. /\ Torn(file, input, idxs) /\ (complete <=> Len(file) = Len(Saved(input, idxs)))
        /\ complete \in BOOLEAN
    BY <1>1, <1>2 DEF FileInv
  <2>2. handle' = LoadMmap(file') /\ streamed' = LoadStream(file')
    BY <1>2
  <2>3. /\ Torn(file', input', idxs') /\ (complete' <=> Len(file') = Len(Saved(input', idxs')))
        /\ complete' \in BOOLEAN
    BY <1>2, <2>1
  <2> QED
    BY <2>2, <2>3 DEF FileInv
<1>5. InputInv'
  BY <1>1, <1>2 DEF InputInv
<1>6. AskedInv' /\ AnswersInv'
  BY <1>1, <1>2, <1>3 DEF AskedInv, AnswersInv
<1> QED
  BY <1>4, <1>5, <1>6 DEF GeocoderInv

LEMMA AskInv ==
  ASSUME GeocoderInv, NEW geocoder \in Geocoders, NEW at \in Places, Ask(geocoder, at)
  PROVE  GeocoderInv'
<1>1. InputInv /\ FileInv /\ AskedInv /\ AnswersInv
  BY DEF GeocoderInv
<1>2. /\ UNCHANGED <<input, idxs, file, complete, handle, streamed, answers>>
      /\ handle # None /\ asked = None /\ place \in {None, at}
      /\ geocoder # "memory" => handle # Err
      /\ place' = at /\ asked' = geocoder
      /\ stack' = <<Tree!Root>> /\ best' = [found |-> FALSE]
  BY DEF Ask
<1>3. InputInv' /\ FileInv'
  BY <1>1, <1>2 DEF InputInv, FileInv
<1>4. AskedInv'
  <2> DEFINE w == [i \in 0..0 |-> [stack |-> <<Tree!Root>>, best |-> Nowhere]]
  <2>1. w[0] = [stack |-> <<Tree!Root>>, best |-> Nowhere]
    OBVIOUS
  <2> HIDE DEF w
  <2>2. Walk(input', idxs', place', w, 0)
    BY <2>1 DEF Walk
  <2>3. w[0].stack = <<Tree!Root>> /\ w[0].best = Nowhere
    BY <2>1
  <2>4. best' = Image(asked', input', w[0].best)
    BY <1>2, <2>3 DEF Image, Nowhere
  <2>5. Walked'
    BY <1>2, <2>2, <2>3, <2>4 DEF Walked
  <2> QED
    BY <1>2, <2>5 DEF AskedInv
<1>5. AnswersInv'
  <2>1. ASSUME NEW g \in Geocoders, answers[g] # None PROVE place' = place
    <3>1. place \in Places
      BY <1>1, <2>1 DEF AnswersInv
    <3>2. place # None
      BY <3>1, GeocoderAssumption
    <3> QED
      BY <1>2, <3>2
  <2> QED
    BY <1>1, <1>2, <2>1 DEF AnswersInv
<1> QED
  BY <1>3, <1>4, <1>5 DEF GeocoderInv

LEMMA WithinInv == GeocoderInv /\ Within => GeocoderInv'
<1> SUFFICES ASSUME GeocoderInv, Within PROVE GeocoderInv'
  OBVIOUS
<1>1. InputInv /\ FileInv /\ AskedInv /\ AnswersInv
  BY DEF GeocoderInv
<1>2. /\ UNCHANGED <<input, idxs, file, complete, handle, streamed, place, asked, answers>>
      /\ asked # None /\ best # Err
  BY DEF Within
<1>3. Asking /\ (CutShort <=> asked # "memory" /\ ~complete) /\ (Failed \/ Walked)
  BY <1>1, <1>2, WhoAsks
<1>4. Walked
  BY <1>2, <1>3 DEF Failed
<1>5. Walked' \/ (best' = Err /\ CutShort)
  BY <1>1, <1>3, <1>4, WithinWalks DEF InputInv
<1>6. Walked' \/ Failed'
  BY <1>2, <1>3, <1>5 DEF Failed
<1>7. InputInv' /\ FileInv' /\ AnswersInv'
  BY <1>1, <1>2 DEF InputInv, FileInv, AnswersInv
<1>8. AskedInv'
  BY <1>1, <1>2, <1>6 DEF AskedInv
<1> QED
  BY <1>7, <1>8 DEF GeocoderInv

\* The answer that is given is right, or stands for a failed read.
LEMMA Returns ==
  ASSUME GeocoderInv, Return
  PROVE  /\ asked \in Geocoders
         /\ \E answer : /\ Settled(asked, input, idxs, place, complete, answer)
                        /\ answers' = [answers EXCEPT ![asked] = answer]
<1>1. InputInv /\ FileInv /\ AskedInv
  BY DEF GeocoderInv
<1>2. asked # None /\ (stack = <<>> \/ best = Err)
  BY DEF Return
<1>3. Asking /\ (Failed \/ Walked) /\ asked \in Geocoders
  BY <1>1, <1>2, WhoAsks DEF Asking
<1>4. PICK region \in Found("region"), country \in Found("country") :
        answers' = [answers EXCEPT ![asked] =
                      CASE best = Err /\ asked = "disk" -> NotFound
                        [] best = Err /\ asked = "rust" -> Err
                        [] best # Err /\ best.found     -> Happy(region, country)
                        [] best # Err /\ ~best.found    -> Unhappy(region, country)]
  BY DEF Return
<1>5. CASE Failed
  <2>1. asked \in {"disk", "rust"} /\ best = Err /\ ~complete
    BY <1>3, <1>5 DEF Failed, Geocoders
  <2> DEFINE answer == IF asked = "disk" THEN NotFound ELSE Err
  <2>2. answers' = [answers EXCEPT ![asked] = answer]
    BY <1>4, <2>1
  <2>3. Settled(asked, input, idxs, place, complete, answer)
    BY <2>1 DEF Settled
  <2> QED
    BY <1>3, <2>2, <2>3
<1>6. CASE Walked
  <2>1. PICK w : \E k \in Nat : /\ Walk(input, idxs, place, w, k)
                                /\ stack = w[k].stack
                                /\ best = Image(asked, input, w[k].best)
    BY <1>6 DEF Walked
  <2>2. PICK k \in Nat : /\ Walk(input, idxs, place, w, k)
                         /\ stack = w[k].stack
                         /\ best = Image(asked, input, w[k].best)
    BY <2>1
  <2> DEFINE kept == w[k].best
  <2>3. Covers(input, idxs, place, w[k])
    BY <1>1, <1>3, <2>2, WalkCovers DEF Asking, InputInv
  <2>4. KeptFits(input, idxs, place, kept) /\ best = Image(asked, input, kept)
    BY <2>2, <2>3 DEF Covers
  <2> HIDE DEF kept
  <2>5. best # Err /\ kept.found \in BOOLEAN /\ best.found = kept.found
    BY <1>3, <2>4, ImageKept DEF Asking
  <2>6. stack = <<>>
    BY <1>2, <2>5
  <2>7. Keeps(input, idxs, place, kept)
    BY <2>2, <2>6 DEF Keeps, kept
  <2> DEFINE answer == IF best.found THEN Happy(region, country) ELSE Unhappy(region, country)
  <2>8. AnswerWith(asked, kept, region, country, answer)
    BY <1>3, <2>4, AnswersRight
  <2>9. answers' = [answers EXCEPT ![asked] = answer]
    BY <1>4, <2>5
  <2>10. /\ region \in FoundBy(asked, input, place, "region")
         /\ country \in FoundBy(asked, input, place, "country")
    BY <1>3, FoundIs
  <2> HIDE DEF answer
  <2>11. RightAnswer(asked, input, place, kept, answer)
    BY <2>8, <2>10 DEF RightAnswer
  <2>12. Settled(asked, input, idxs, place, complete, answer)
    BY <2>7, <2>11 DEF Settled
  <2> QED
    BY <1>3, <2>9, <2>12
<1> QED
  BY <1>3, <1>5, <1>6

LEMMA ReturnInv == GeocoderInv /\ Return => GeocoderInv'
<1> SUFFICES ASSUME GeocoderInv, Return PROVE GeocoderInv'
  OBVIOUS
<1>1. InputInv /\ FileInv /\ AskedInv /\ AnswersInv
  BY DEF GeocoderInv
<1>2. /\ UNCHANGED <<input, idxs, file, complete, handle, streamed, place>>
      /\ asked # None /\ asked' = None
  BY DEF Return
<1>3. InputInv' /\ FileInv' /\ AskedInv'
  BY <1>1, <1>2 DEF InputInv, FileInv, AskedInv
<1>4. AnswersInv'
  <2>1. asked \in Geocoders
    BY Returns
  <2>2. PICK answer : /\ Settled(asked, input, idxs, place, complete, answer)
                      /\ answers' = [answers EXCEPT ![asked] = answer]
    BY Returns
  <2>3. answers = [g \in Geocoders |-> answers[g]]
    BY <1>1 DEF AnswersInv
  <2>4. /\ answers' = [g \in Geocoders |-> answers'[g]]
        /\ answers'[asked] = answer
        /\ \A g \in Geocoders : g # asked => answers'[g] = answers[g]
    BY <2>1, <2>2, <2>3
  <2>5. place \in Places /\ handle # None
    BY <1>1, <1>2 DEF AskedInv
  <2>6. ASSUME NEW g \in Geocoders, answers'[g] # None
        PROVE  Settled(g, input, idxs, place, complete, answers'[g])
    <3>1. CASE g = asked
      BY <2>2, <2>4, <3>1
    <3>2. CASE g # asked
      BY <1>1, <2>4, <2>6, <3>2 DEF AnswersInv
    <3> QED
      BY <3>1, <3>2
  <2> QED
    BY <1>2, <2>4, <2>5, <2>6 DEF AnswersInv
<1> QED
  BY <1>3, <1>4 DEF GeocoderInv

\* The inductive invariant: whatever is saved, wherever the save ends and whoever
\* is asked, the geocoder that is asked has made the one walk of the tree that is
\* possible, unless a read behind the end of a part of a file has failed.
THEOREM GeocoderInvAlways == Spec => []GeocoderInv
<1>1. GeocoderInv /\ [Next]_vars => GeocoderInv'
  <2> SUFFICES ASSUME GeocoderInv, [Next]_vars PROVE GeocoderInv'
    OBVIOUS
  <2>1. CASE Save
    BY <2>1, SaveInv
  <2>2. CASE Open
    BY <2>2, OpenInv
  <2>3. ASSUME NEW geocoder \in Geocoders, NEW at \in Places, Ask(geocoder, at)
        PROVE  GeocoderInv'
    BY <2>3, AskInv
  <2>4. CASE Within
    BY <2>4, WithinInv
  <2>5. CASE Return
    BY <2>5, ReturnInv
  <2>6. CASE UNCHANGED vars
    BY <2>6 DEF vars, GeocoderInv, InputInv, FileInv, AskedInv, Failed, Walked, AnswersInv
  <2> QED
    BY <2>1, <2>2, <2>3, <2>4, <2>5, <2>6 DEF Next
<1> QED
  BY <1>1, InitInv, PTL DEF Spec

-----------------------------------------------------------------------------
(* What the invariant says of the answers.                                 *)

\* Every point has a position.
LEMMA PositionsReach ==
  ASSUME InputInv, NEW p
  PROVE  p \in Range(input.points) <=> \E i \in 0..N-1 : p = PointAt(input, idxs, i)
<1>1. /\ input \in Inputs /\ idxs \in Permutations0 /\ N \in Nat
      /\ input.points \in Seq(Point) /\ Len(input.points) = N
  BY InputTyped DEF InputInv
<1>2. DOMAIN input.points = 1..N
  BY <1>1
<1>3. IsFiniteSet(0..N-1)
  BY <1>1, FS_Interval
<1>4. idxs \in Injection(0..N-1, 0..N-1)
  BY <1>1 DEF Permutations0, Injection, IsInjective
<1>5. idxs \in Surjection(0..N-1, 0..N-1)
  BY <1>3, <1>4, FS_Injection
<1>6. \A n \in 0..N-1 : \E i \in 0..N-1 : idxs[i] = n
  BY <1>5 DEF Surjection
<1>7. ASSUME NEW i \in 0..N-1 PROVE PointAt(input, idxs, i) \in Range(input.points)
  <2>1. idxs[i] + 1 \in 1..N
    BY <1>1, PointTyped
  <2> QED
    BY <1>2, <2>1 DEF PointAt, Range
<1>8. ASSUME NEW n \in 1..N PROVE \E i \in 0..N-1 : input.points[n] = PointAt(input, idxs, i)
  <2>1. n - 1 \in 0..N-1 /\ (n - 1) + 1 = n
    BY <1>1
  <2>2. PICK i \in 0..N-1 : idxs[i] = n - 1
    BY <1>6, <2>1
  <2> QED
    BY <2>1, <2>2 DEF PointAt
<1> QED
  BY <1>2, <1>7, <1>8 DEF Range

\* The points in the radius are those at the positions in the radius.
LEMMA NearIs ==
  ASSUME InputInv, NEW p
  PROVE  p \in Near
           <=> \E i \in 0..N-1 : p = PointAt(input, idxs, i) /\ Close(input, idxs, place, i)
<1>1. p \in Range(input.points) <=> \E i \in 0..N-1 : p = PointAt(input, idxs, i)
  BY PositionsReach
<1>2. \A i : Close(input, idxs, place, i) <=> InRadius(PointAt(input, idxs, i).c)
  BY DEF Close, Dist, InRadius
<1> QED
  BY <1>1, <1>2 DEF Near

\* Borders are plain as the properties state it.
LEMMA PlainBorders == InputInv /\ BordersPlain => Plain(input, place)
<1> SUFFICES ASSUME InputInv, BordersPlain PROVE Plain(input, place)
  OBVIOUS
<1>1. input.zones \in Seq(Zone)
  BY InputTyped DEF InputInv
<1> DEFINE zones == input.zones
           n == Len(zones)
<1>2. DOMAIN zones = 1..n /\ n \in Nat
  BY <1>1
<1>3. \A z : z \in Range(zones) <=> In(z, zones)
  BY <1>2 DEF Range, In
<1>4. IsFiniteSet(Range(zones))
  <2>1. zones \in Surjection(1..n, Range(zones))
    <3>1. zones \in [1..n -> Zone]
      BY <1>1
    <3> HIDE DEF zones, n
    <3>2. zones \in [1..n -> Range(zones)]
      BY <1>2, <3>1 DEF Range
    <3>3. \A y \in Range(zones) : \E i \in 1..n : zones[i] = y
      BY <1>2 DEF Range
    <3> QED
      BY <3>2, <3>3 DEF Surjection
  <2>2. IsFiniteSet(1..n)
    BY <1>2, FS_Interval
  <2> QED
    BY <2>1, <2>2, FS_Surjection
<1> HIDE DEF zones, n
<1>5. ASSUME NEW type \in {"region", "country"}, NEW y, NEW z,
             In(y, zones), y.type = type, InRect(place, y.rect),
             In(z, zones), z.type = type, InRect(place, z.rect), y # z
      PROVE  FALSE
  <2> DEFINE s == {x \in ZonesOf(type) : InRect(place, x.rect)}
             two == {y} \cup {z}
  <2>1. two \in SUBSET s
    BY <1>3, <1>5 DEF ZonesOf, zones
  <2>2. s \in SUBSET Range(zones)
    BY DEF ZonesOf, zones
  <2>3. Cardinality(s) <= 1
    BY <1>5 DEF BordersPlain
  <2> HIDE DEF s
  <2>4. IsFiniteSet(s)
    BY <1>4, <2>2, FS_Subset
  <2>5. Cardinality(two) <= Cardinality(s)
    BY <2>1, <2>4, FS_Subset
  <2>6. IsFiniteSet({y}) /\ Cardinality({y}) = 1
    BY FS_Singleton
  <2>7. Cardinality(two) = 2
    BY <1>5, <2>6, FS_AddElement
  <2>8. Cardinality(s) \in Nat
    BY <2>4, FS_CardinalityType
  <2> HIDE DEF two
  <2> QED
    BY <2>3, <2>5, <2>7, <2>8
<1>6. ASSUME NEW type \in {"region", "country"}, NEW z,
             In(z, zones), z.type = type, InRect(place, z.rect)
      PROVE  Simplify(z.rect) = "rectangle" /\ Inside(place, z.rect)
  <2>1. z \in ZonesOf(type)
    BY <1>3, <1>6 DEF ZonesOf, zones
  <2> QED
    BY <1>6, <2>1 DEF BordersPlain
<1> QED
  BY <1>5, <1>6 DEF Plain, zones

\* What an answer is that no failed read has brought.
Answers(g, kept) ==
  /\ Keeps(input, idxs, place, kept)
  /\ KeptFits(input, idxs, place, kept)
  /\ \A i \in 0..N-1 : Close(input, idxs, place, i) => Beats(input, idxs, place, kept, i)
  /\ RightAnswer(g, input, place, kept, answers[g])

\* Every answer is a right one, or that of a failed read on a part of a file.
LEMMA AnswerIs ==
  ASSUME GeocoderInv, NEW g \in Geocoders, answers[g] # None
  PROVE  /\ place \in Coordinates
         /\ \/ g # "memory" /\ ~complete /\ answers[g] = IF g = "disk" THEN NotFound ELSE Err
            \/ \E kept : Answers(g, kept)
<1>1. place \in Places /\ Settled(g, input, idxs, place, complete, answers[g])
  BY DEF GeocoderInv, AnswersInv
<1>2. input \in Inputs /\ idxs \in Permutations0 /\ SplitAll(input, idxs) /\ place \in Coordinates
  BY <1>1, GeocoderAssumption DEF GeocoderInv, InputInv
<1>3. ASSUME NEW kept, Keeps(input, idxs, place, kept),
             RightAnswer(g, input, place, kept, answers[g])
      PROVE  Answers(g, kept)
  BY <1>2, <1>3, KeepsRight DEF Answers
<1> QED
  BY <1>1, <1>2, <1>3 DEF Settled

\* A point is kept exactly if one lies in the radius.
LEMMA KeptIffNear ==
  ASSUME GeocoderInv, NEW g, NEW kept, Answers(g, kept)
  PROVE  /\ kept.found \in BOOLEAN
         /\ kept.found <=> Near # {}
         /\ kept.found => kept.data \in Near /\ kept.data \in Range(input.points)
<1>1. InputInv
  BY DEF GeocoderInv
<1>2. CASE kept = Nowhere
  <2>1. kept.found = FALSE
    BY <1>2 DEF Nowhere
  <2>2. \A i \in 0..N-1 : ~Close(input, idxs, place, i)
    BY <2>1 DEF Answers, Beats
  <2>3. Near = {}
    BY <1>1, <2>2, NearIs
  <2> QED
    BY <2>1, <2>3
<1>3. CASE kept # Nowhere
  <2>1. PICK i \in 0..N-1 :
          /\ Close(input, idxs, place, i)
          /\ kept = [found |-> TRUE, data |-> PointAt(input, idxs, i),
                     dist |-> Dist(input, idxs, place, i)]
    BY <1>3 DEF Answers, KeptFits
  <2>2. kept.found = TRUE /\ kept.data = PointAt(input, idxs, i)
    BY <2>1
  <2>3. kept.data \in Near
    BY <1>1, <2>1, <2>2, NearIs
  <2>4. kept.data \in Range(input.points)
    BY <2>3 DEF Near
  <2> QED
    BY <2>2, <2>3, <2>4
<1> QED
  BY <1>2, <1>3

\* Two geocoders that read nothing wrong agree.
LEMMA TwoAgree ==
  ASSUME GeocoderInv, BordersPlain, StringsFit, NEW g \in Geocoders, NEW h \in Geocoders,
         answers[g] # None, NEW a, Answers(g, a), NEW b, Answers(h, b)
  PROVE  answers[g] = answers[h]
<1>1. input \in Inputs /\ InputInv /\ place \in Coordinates /\ Plain(input, place)
  BY AnswerIs, PlainBorders DEF GeocoderInv, InputInv
<1>2. a = b
  BY KeepsSame DEF Answers
<1>3. PICK r \in FoundBy(g, input, place, "region"), c \in FoundBy(g, input, place, "country") :
        AnswerWith(g, a, r, c, answers[g])
  BY DEF Answers, RightAnswer
<1>4. PICK s \in FoundBy(h, input, place, "region"), d \in FoundBy(h, input, place, "country") :
        AnswerWith(h, b, s, d, answers[h])
  BY DEF Answers, RightAnswer
<1>5. r = s
  BY <1>1, PlainSame
<1>6. c = d
  BY <1>1, PlainSame
<1>7. a.found => Buffered(g, a.data) /\ Buffered(h, a.data)
  <2>1. a.found => a.data \in Range(input.points)
    BY KeptIffNear
  <2> QED
    BY <2>1 DEF StringsFit, Buffered
<1> QED
  BY <1>2, <1>3, <1>4, <1>5, <1>6, <1>7 DEF AnswerWith

\* For any number of points, any names, any zones and every order that sort may
\* leave: the geocoder in memory, the one on a mapped file and the one in Rust give
\* the same answer when borders do not overlap and the strings fit the buffer
\* (locator.go:56-112, locator_disk.go:35-90, geocoder.rs:54-180).
THEOREM AnswersAgreeAlways == Spec => []AnswersAgree
<1>1. GeocoderInv => AnswersAgree
  <2> SUFFICES ASSUME GeocoderInv, complete, Answered(Geocoders), BordersPlain, StringsFit,
                      NEW g \in Geocoders
               PROVE  answers[g] = answers["memory"]
    BY DEF AnswersAgree
  <2>1. "memory" \in Geocoders /\ answers[g] # None /\ answers["memory"] # None
    BY DEF Answered, Geocoders
  <2>2. PICK a : Answers(g, a)
    BY <2>1, AnswerIs
  <2>3. PICK b : Answers("memory", b)
    BY <2>1, AnswerIs
  <2> QED
    BY <2>1, <2>2, <2>3, TwoAgree
<1> QED
  BY <1>1, GeocoderInvAlways, PTL

\* Wherever the save ends, the part of the file is refused as a stream, and mapped
\* it is refused, or a query on it answers like one on the whole file or not at all
\* (locator_disk.go:49-52, load.go:158-244, kdbush_disk.go:206-246 and 484-527).
THEOREM TornFileNeverMisleadsAlways == Spec => []TornFileNeverMisleads
<1>1. GeocoderInv => TornFileNeverMisleads
  <2> SUFFICES ASSUME GeocoderInv PROVE TornFileNeverMisleads
    OBVIOUS
  <2>1. ASSUME streamed # None
        PROVE  IF complete
               THEN streamed = [i \in 1..N |-> [input.points[i] EXCEPT !.c = [axis \in 0..1 |-> 0]]]
               ELSE streamed = Err
    <3>1. /\ Torn(file, input, idxs) /\ streamed = LoadStream(file)
          /\ complete <=> Len(file) = Len(Saved(input, idxs))
      BY <2>1 DEF GeocoderInv, FileInv
    <3>2. LoadStream(file) = IF Len(file) = Len(Saved(input, idxs)) THEN Bare(input) ELSE Err
      BY <3>1, Streams DEF GeocoderInv, InputInv
    <3> QED
      BY <3>1, <3>2 DEF Bare
  <2>2. ASSUME answers["memory"] # None, BordersPlain, StringsFit,
               NEW g \in {"disk", "rust"}, answers[g] # None
        PROVE  answers[g] = answers["memory"] \/ answers[g] = IF g = "disk" THEN NotFound ELSE Err
    <3>1. "memory" \in Geocoders /\ g \in Geocoders
      BY DEF Geocoders
    <3>2. PICK b : Answers("memory", b)
      BY <2>2, <3>1, AnswerIs
    <3>3. ASSUME NEW a, Answers(g, a) PROVE answers[g] = answers["memory"]
      BY <2>2, <3>1, <3>2, <3>3, TwoAgree
    <3> QED
      BY <2>2, <3>1, <3>3, AnswerIs
  <2>3. ASSUME answers["memory"] # None, BordersPlain, StringsFit
        PROVE  /\ answers["disk"] \in {None, NotFound, answers["memory"]}
               /\ answers["rust"] \in {None, Err, answers["memory"]}
    BY <2>2, <2>3
  <2> QED
    BY <2>1, <2>3 DEF TornFileNeverMisleads
<1> QED
  BY <1>1, GeocoderInvAlways, PTL

\* A query finds something exactly if a point lies in the radius or a border holds
\* the place: no half of a range that is left out holds a point in the radius
\* (locator.go:73-111, locator_disk.go:54-89, kdbush.go:81-127).
THEOREM FoundIffThereAlways == Spec => []FoundIffThere
<1>1. GeocoderInv => FoundIffThere
  <2> SUFFICES ASSUME GeocoderInv, NEW g \in {"memory", "disk"}, answers[g] # None,
                      g = "memory" \/ complete, BordersPlain
               PROVE  answers[g] # NotFound <=> \/ Near # {}
                                                \/ \E z \in Range(input.zones) : InRect(place, z.rect)
    BY DEF FoundIffThere
  <2>1. g \in Geocoders
    BY DEF Geocoders
  <2>2. input \in Inputs /\ InputInv /\ place \in Coordinates /\ Plain(input, place)
    BY <2>1, AnswerIs, PlainBorders DEF GeocoderInv, InputInv
  <2>3. PICK kept : Answers(g, kept)
    BY <2>1, AnswerIs
  <2>4. PICK r \in FoundBy(g, input, place, "region"), c \in FoundBy(g, input, place, "country") :
          AnswerWith(g, kept, r, c, answers[g])
    BY <2>3 DEF Answers, RightAnswer
  <2>5. kept.found \in BOOLEAN /\ (kept.found <=> Near # {})
    BY <2>3, KeptIffNear
  <2>6. \A v \in InfoModel : v # NotFound
    BY GeocoderAssumption
  <2>7. CASE kept.found
    BY <2>4, <2>5, <2>6, <2>7 DEF AnswerWith
  <2>8. CASE ~kept.found
    <3>1. answers[g] = BorderInfo(r, c)
      BY <2>4, <2>8 DEF AnswerWith
    <3>2. /\ r = NotFound \/ r \in Seq(Chars) \ {Empty}
          /\ c = NotFound \/ c \in Seq(Chars) \ {Empty}
      BY <2>1, <2>2, NamesFound
    <3>3. OrEmpty(r) \in Seq(Chars) /\ OrEmpty(c) \in Seq(Chars) /\ Empty \in Seq(Chars) /\ 0 \in Int
      BY <3>2, InfosTyped, GeocoderAssumption
    <3>4. Answer(Empty, OrEmpty(r), OrEmpty(c), 0) \in InfoModel
      BY <3>3, InfosTyped
    <3>5. answers[g] = NotFound <=> r = NotFound /\ c = NotFound
      BY <2>6, <3>1, <3>4 DEF BorderInfo
    <3> DEFINE there(type, z) == In(z, input.zones) /\ z.type = type /\ InRect(place, z.rect)
    <3>6. input.zones \in Seq(Zone)
      BY <2>2, InputTyped
    <3>7. \A z : In(z, input.zones) =>
            z.type \in {"region", "country"} /\ z.name \in Seq(Chars)
      <4>1. \A z : In(z, input.zones) => z \in Zone
        BY <3>6 DEF In
      <4>2. \A z \in Zone : z.type \in {"region", "country"} /\ z.name \in Seq(Chars)
        BY DEF Zone
      <4> QED
        BY <4>1, <4>2
    <3>8. NotFound \notin Seq(Chars)
      BY GeocoderAssumption
    <3>9. r = NotFound <=> ~\E z : there("region", z)
      <4>1. \/ r = NotFound /\ ~\E z : there("region", z)
            \/ \E z : there("region", z) /\ r = z.name
        BY <2>1, <2>2, PlainNames
      <4> QED
        BY <3>7, <3>8, <4>1
    <3>10. c = NotFound <=> ~\E z : there("country", z)
      <4>1. \/ c = NotFound /\ ~\E z : there("country", z)
            \/ \E z : there("country", z) /\ c = z.name
        BY <2>1, <2>2, PlainNames
      <4> QED
        BY <3>7, <3>8, <4>1
    <3>11. \A z : z \in Range(input.zones) <=> In(z, input.zones)
      BY <3>6 DEF Range, In
    <3>12. (\E z \in Range(input.zones) : InRect(place, z.rect))
             <=> (\E z : there("region", z)) \/ (\E z : there("country", z))
      BY <3>7, <3>11
    <3> HIDE DEF there
    <3> QED
      BY <2>5, <2>8, <3>5, <3>9, <3>10, <3>12
  <2> QED
    BY <2>5, <2>7, <2>8
<1> QED
  BY <1>1, GeocoderInvAlways, PTL

\* When the points in the radius are equally heavy, the one that is kept is the
\* nearest, in whatever order the walk meets them (locator.go:61).
THEOREM NearestOfEqualsAlways == Spec => []NearestOfEquals
<1>1. GeocoderInv => NearestOfEquals
  <2> SUFFICES ASSUME GeocoderInv, answers["memory"] # None, Near # {},
                      \A p, q \in Near : p.weight = q.weight
               PROVE  answers["memory"].name \in {p.name : p \in Nearest(Near)}
    BY DEF NearestOfEquals
  <2>1. "memory" \in Geocoders /\ InputInv
    BY DEF Geocoders, GeocoderInv
  <2>2. PICK kept : Answers("memory", kept)
    BY <2>1, AnswerIs
  <2>3. kept.found /\ kept.data \in Near
    BY <2>2, KeptIffNear
  <2>4. answers["memory"].name = kept.data.name
    <3>1. PICK r \in FoundBy("memory", input, place, "region"),
               c \in FoundBy("memory", input, place, "country") :
            AnswerWith("memory", kept, r, c, answers["memory"])
      BY <2>2 DEF Answers, RightAnswer
    <3>2. answers["memory"] = InfoOf(kept.data, r, c)
      BY <2>3, <3>1 DEF AnswerWith, Buffered
    <3> QED
      BY <3>2 DEF InfoOf, Answer
  <2>5. EquallyHeavy(input, idxs, place)
    BY <2>1, NearIs DEF EquallyHeavy
  <2>6. kept.dist = DistanceSquared(kept.data.c, place)
    BY <2>2, <2>3 DEF Answers, KeptFits, Nowhere, Dist
  <2>7. ASSUME NEW q \in Near
        PROVE  DistanceSquared(kept.data.c, place) <= DistanceSquared(q.c, place)
    <3>1. PICK i \in 0..N-1 : q = PointAt(input, idxs, i) /\ Close(input, idxs, place, i)
      BY <2>1, NearIs
    <3>2. kept.dist <= Dist(input, idxs, place, i)
      BY <2>2, <2>5, <3>1 DEF Answers, Beats
    <3> QED
      BY <2>6, <3>1, <3>2 DEF Dist
  <2>8. kept.data \in Nearest(Near)
    BY <2>3, <2>7 DEF Nearest
  <2> QED
    BY <2>4, <2>8
<1> QED
  BY <1>1, GeocoderInvAlways, PTL
=============================================================================
