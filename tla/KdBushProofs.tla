---------------------------- MODULE KdBushProofs ----------------------------
(***************************************************************************)
(* Theorems about KdQuery and KdBush.  On every tree that has been built,  *)
(* whatever the points and the query, a walk skips no match and reports    *)
(* nothing twice; and for any slice of points, sort leaves a tree that     *)
(* stands and its scans never leave their range, so a query of what        *)
(* NewBush or BuildDisk made answers exactly.                              *)
(***************************************************************************)
EXTENDS KdBush, FiniteSetTheorems, SequenceTheorems, WellFoundedInduction, TLAPS

-----------------------------------------------------------------------------
(* The geometry: what matches a query lies in its box.                     *)

\* A leg is not longer than the hypotenuse.
LEMMA SquareBound ==
  ASSUME NEW a \in Int, NEW b \in Int, NEW r \in Nat,
         Square(a) + Square(b) <= Square(r)
  PROVE  -r <= a /\ a <= r
<1>1. Square(b) >= 0 BY DEF Square
<1>2. Square(a) <= Square(r) BY <1>1 DEF Square
<1>3. a > r => Square(a) > Square(r) BY DEF Square
<1>4. -a > r => Square(a) > Square(r) BY DEF Square
<1> QED BY <1>2, <1>3, <1>4 DEF Square

Query == Boxes \union Disks

\* A point that matches a query lies between its bounds on both axes: what makes it
\* safe for Within to walk by qx-radius and qx+radius (kdbush.go:117).
LEMMA MatchInBox ==
  ASSUME NEW q \in Query, NEW c \in [0..1 -> Int], Matches(q, c), NEW axis \in 0..1
  PROVE  Low(q, axis) <= c[axis] /\ c[axis] <= High(q, axis)
<1>1. CASE q \in Boxes
  BY <1>1 DEF Boxes, Matches, Low, High
<1>2. CASE q \in Disks
  <2> DEFINE dx == c[0] - q.center[0]
             dy == c[1] - q.center[1]
  <2>1. dx \in Int /\ dy \in Int /\ q.radius \in Nat /\ q.kind = "within"
    BY <1>2 DEF Disks
  <2>2. Square(dx) + Square(dy) <= Square(q.radius)
    BY <2>1 DEF Matches
  <2>3. Square(dx) \in Int /\ Square(dy) \in Int
    BY <2>1 DEF Square
  <2>4. -q.radius <= dx /\ dx <= q.radius
    <3> HIDE DEF dx, dy
    <3> QED BY <2>1, <2>2, SquareBound
  <2>5. -q.radius <= dy /\ dy <= q.radius
    <3> HIDE DEF dx, dy
    <3>1. Square(dy) + Square(dx) <= Square(q.radius) BY <2>2, <2>3
    <3> QED BY <2>1, <3>1, SquareBound
  <2>6. q.center[0] \in Int /\ q.center[1] \in Int /\ c[0] \in Int /\ c[1] \in Int
    BY <1>2 DEF Disks
  <2>7. axis = 0 \/ axis = 1
    OBVIOUS
  <2> QED BY <2>1, <2>4, <2>5, <2>6, <2>7 DEF Low, High
<1> QED BY <1>1, <1>2 DEF Query

\* The bounds of a query are integers.
LEMMA BoxType ==
  ASSUME NEW q \in Query, NEW axis \in 0..1
  PROVE  Low(q, axis) \in Int /\ High(q, axis) \in Int
<1>1. CASE q \in Boxes
  BY <1>1 DEF Boxes, Low, High
<1>2. CASE q \in Disks
  BY <1>2 DEF Disks, Low, High
<1> QED BY <1>1, <1>2 DEF Query

-----------------------------------------------------------------------------
(* Ranges and sequences of ranges.                                         *)

Ranges == [left : 0..N, right : -1..N-1, axis : 0..1]

\* The first range on the stack, [0, n-1].
LEMMA RootIsRange == Root \in Ranges
BY TreeAssumption DEF Root, Span, Ranges

\* The median of a range that is not a leaf lies inside it, and the halves are ranges.
LEMMA MidInside ==
  ASSUME NEW r \in Ranges, ~IsLeaf(r)
  PROVE  /\ Mid(r) \in Pos
         /\ r.left <= Mid(r) /\ Mid(r) < r.right
         /\ LeftHalf(r) \in Ranges /\ RightHalf(r) \in Ranges
<1>1. /\ r.left \in 0..N /\ r.right \in -1..N-1 /\ r.axis \in 0..1
      /\ r.left < r.right
  BY TreeAssumption DEF Ranges, IsLeaf
<1>2. Mid(r) \in Int /\ r.left <= Mid(r) /\ Mid(r) < r.right
  BY <1>1, TreeAssumption DEF Mid
<1>3. (r.axis + 1) % 2 \in 0..1
  BY <1>1
<1> QED BY <1>1, <1>2, <1>3, TreeAssumption DEF LeftHalf, RightHalf, Span, Ranges, Pos

\* No position is in two ranges of the sequence.
Disjoint(s) ==
  \A m, n \in DOMAIN s : m # n => Points(s[m]) \cap Points(s[n]) = {}

\* Pushing ranges on the stack adds their positions, and disjoint ranges stay so.
LEMMA ConcatCovers ==
  ASSUME NEW S, NEW s \in Seq(S), NEW t \in Seq(S)
  PROVE  /\ Covered(s \o t) = Covered(s) \union Covered(t)
         /\ Disjoint(s) /\ Disjoint(t) /\ Covered(s) \cap Covered(t) = {}
              => Disjoint(s \o t)
<1> DEFINE u == s \o t
<1>1. /\ u \in Seq(S) /\ Len(u) = Len(s) + Len(t)
      /\ \A i \in 1..Len(s) + Len(t) : u[i] = IF i <= Len(s) THEN s[i] ELSE t[i - Len(s)]
  BY ConcatProperties
<1> HIDE DEF u
<1>2. DOMAIN s = 1..Len(s) /\ DOMAIN t = 1..Len(t) /\ DOMAIN u = 1..Len(s) + Len(t)
      /\ Len(s) \in Nat /\ Len(t) \in Nat
  BY <1>1
<1>3. \A i \in DOMAIN s : i \in DOMAIN u /\ u[i] = s[i]
  BY <1>1, <1>2
<1>4. \A i \in DOMAIN t : i + Len(s) \in DOMAIN u /\ u[i + Len(s)] = t[i]
  BY <1>1, <1>2
<1>5. \A i \in DOMAIN u : \/ i \in DOMAIN s /\ u[i] = s[i]
                          \/ i - Len(s) \in DOMAIN t /\ u[i] = t[i - Len(s)]
  BY <1>1, <1>2
<1>6. Covered(u) = Covered(s) \union Covered(t)
  BY <1>3, <1>4, <1>5 DEF Covered
<1>7. ASSUME Disjoint(s), Disjoint(t), Covered(s) \cap Covered(t) = {}
      PROVE  Disjoint(u)
  <2> SUFFICES ASSUME NEW m \in DOMAIN u, NEW n \in DOMAIN u, m # n
               PROVE  Points(u[m]) \cap Points(u[n]) = {}
    BY DEF Disjoint
  <2>1. \A i \in DOMAIN s, j \in DOMAIN t : Points(s[i]) \cap Points(t[j]) = {}
    BY <1>7 DEF Covered
  <2>2. CASE m \in DOMAIN s /\ u[m] = s[m]
    <3>1. CASE n \in DOMAIN s /\ u[n] = s[n]
      BY <1>7, <2>2, <3>1 DEF Disjoint
    <3>2. CASE n - Len(s) \in DOMAIN t /\ u[n] = t[n - Len(s)]
      BY <2>1, <2>2, <3>2
    <3> QED BY <1>5, <3>1, <3>2
  <2>3. CASE m - Len(s) \in DOMAIN t /\ u[m] = t[m - Len(s)]
    <3>1. CASE n \in DOMAIN s /\ u[n] = s[n]
      BY <2>1, <2>3, <3>1
    <3>2. CASE n - Len(s) \in DOMAIN t /\ u[n] = t[n - Len(s)]
      <4>1. m - Len(s) # n - Len(s)
        BY <1>2
      <4> QED BY <1>7, <2>3, <3>2, <4>1 DEF Disjoint
    <3> QED BY <1>5, <3>1, <3>2
  <2> QED BY <1>5, <2>2, <2>3
<1> QED BY <1>6, <1>7 DEF u

\* Popping the first range leaves the others.
LEMMA TailCovers ==
  ASSUME NEW S, NEW s \in Seq(S), s # <<>>
  PROVE  /\ Covered(s) = Points(Head(s)) \union Covered(Tail(s))
         /\ Disjoint(s) => Disjoint(Tail(s)) /\ Points(Head(s)) \cap Covered(Tail(s)) = {}
<1>1. /\ Tail(s) \in Seq(S) /\ Len(Tail(s)) = Len(s) - 1
      /\ \A i \in 1..Len(Tail(s)) : Tail(s)[i] = s[i + 1]
  BY HeadTailProperties
<1> DEFINE t == Tail(s)
<1>2. /\ DOMAIN s = 1..Len(s) /\ DOMAIN t = 1..Len(s) - 1
      /\ Len(s) \in Nat /\ 1 \in DOMAIN s /\ Head(s) = s[1]
  BY <1>1
<1>3. \A i \in DOMAIN t : i + 1 \in DOMAIN s /\ i + 1 # 1 /\ t[i] = s[i + 1]
  BY <1>1, <1>2
<1>4. \A i \in DOMAIN s : \/ i = 1
                          \/ i - 1 \in DOMAIN t /\ s[i] = t[i - 1]
  BY <1>1, <1>2
<1> HIDE DEF t
<1>5. Covered(s) = Points(Head(s)) \union Covered(t)
  <2>1. ASSUME NEW p \in Covered(s) PROVE p \in Points(Head(s)) \union Covered(t)
    <3>1. PICK i \in DOMAIN s : p \in Points(s[i]) BY <2>1 DEF Covered
    <3> QED BY <1>2, <1>4, <3>1 DEF Covered
  <2>2. Points(Head(s)) \subseteq Covered(s) BY <1>2 DEF Covered
  <2>3. Covered(t) \subseteq Covered(s) BY <1>3 DEF Covered
  <2> QED BY <2>1, <2>2, <2>3
<1>6. ASSUME Disjoint(s)
      PROVE  Disjoint(t) /\ Points(Head(s)) \cap Covered(t) = {}
  <2>1. Points(Head(s)) \cap Covered(t) = {}
    BY <1>2, <1>3, <1>6 DEF Disjoint, Covered
  <2>2. \A i, j \in DOMAIN t : i # j => i + 1 # j + 1
    BY <1>2
  <2> QED BY <1>3, <1>6, <2>1, <2>2 DEF Disjoint
<1> QED BY <1>5, <1>6 DEF t

\* A stack of one range, and an empty one.
LEMMA OneCovers ==
  ASSUME NEW S, NEW r \in S
  PROVE  /\ <<r>> \in Seq(S) /\ <<>> \in Seq(S)
         /\ Covered(<<r>>) = Points(r) /\ Disjoint(<<r>>)
         /\ Covered(<<>>) = {} /\ Disjoint(<<>>)
BY DEF Covered, Disjoint

\* What one iteration leaves to be done of a range that is not a leaf.
LEMMA MeetsCovers ==
  ASSUME NEW r \in Ranges, ~IsLeaf(r)
  PROVE  /\ Meets(r) \in Seq({LeftHalf(r), RightHalf(r)})
         /\ Disjoint(Meets(r))
         /\ Covered(Meets(r)) \subseteq Points(r) \ {Mid(r)}
         /\ High(query, r.axis) >= coords[Mid(r)][r.axis]
              => Mid(r) + 1..r.right \subseteq Covered(Meets(r))
         /\ Low(query, r.axis) <= coords[Mid(r)][r.axis]
              => r.left..Mid(r) - 1 \subseteq Covered(Meets(r))
<1> DEFINE x == coords[Mid(r)][r.axis]
           S  == {LeftHalf(r), RightHalf(r)}
           up == IF High(query, r.axis) >= x THEN <<RightHalf(r)>> ELSE <<>>
           lo == IF Low(query, r.axis) <= x THEN <<LeftHalf(r)>> ELSE <<>>
<1>1. Mid(r) \in Pos /\ r.left \in Int /\ r.right \in Int /\ r.left <= Mid(r) /\ Mid(r) < r.right
  BY MidInside, TreeAssumption DEF Ranges
<1>2. /\ Points(LeftHalf(r)) = r.left..Mid(r) - 1
      /\ Points(RightHalf(r)) = Mid(r) + 1..r.right
  BY DEF Points, LeftHalf, RightHalf, Span
<1>3. up \in Seq(S) /\ lo \in Seq(S)
  <2>1. LeftHalf(r) \in S /\ RightHalf(r) \in S
    OBVIOUS
  <2> HIDE DEF S
  <2> QED BY <2>1, OneCovers
<1>4. /\ Covered(up) = IF High(query, r.axis) >= x THEN Mid(r) + 1..r.right ELSE {}
      /\ Covered(lo) = IF Low(query, r.axis) <= x THEN r.left..Mid(r) - 1 ELSE {}
      /\ Disjoint(up) /\ Disjoint(lo)
  BY <1>2, OneCovers
<1>5. Meets(r) = up \o lo
  BY DEF Meets
<1>6. Covered(up) \cap Covered(lo) = {}
  BY <1>1, <1>4 DEF Pos
<1>7. Covered(up \o lo) = Covered(up) \union Covered(lo) /\ Disjoint(up \o lo) /\ up \o lo \in Seq(S)
  <2> HIDE DEF up, lo, S
  <2>1. up \o lo \in Seq(S) BY <1>3, ConcatProperties
  <2>2. Disjoint(up) /\ Disjoint(lo) BY <1>4
  <2> QED BY <1>3, <1>6, <2>1, <2>2, ConcatCovers
<1>8. Covered(up) \union Covered(lo) \subseteq Points(r) \ {Mid(r)}
  BY <1>1, <1>4 DEF Points, Pos
<1> QED BY <1>4, <1>5, <1>7, <1>8

-----------------------------------------------------------------------------
(* The inductive invariant.  A range on the stack is a leaf or is split,   *)
(* the ranges on the stack are disjoint from each other and from what has  *)
(* been reported, and no match is outside of both.                         *)

Visitable == {r \in Ranges : IsLeaf(r) \/ r \in tree}

IInv ==
  /\ Built
  /\ stack \in Seq(Visitable)
  /\ outcome \in {"idle", "walking", "done", "stopped", "failed"}
  /\ outcome = "idle" => found = {}
  /\ outcome = "done" => stack = <<>>
  /\ outcome # "idle" => query \in Query
  /\ found \subseteq Pos
  /\ reports = Cardinality(found)
  /\ outcome = "walking" => Disjoint(stack) /\ found \cap Covered(stack) = {}
  /\ NothingSkipped

\* A range holds positions of the arrays.
LEMMA PositionsOfRange ==
  ASSUME NEW r \in Ranges
  PROVE  Points(r) \subseteq Pos /\ Points(r) \subseteq Int
BY TreeAssumption DEF Ranges, Points, Pos

\* Reporting points that have not been reported adds as many to the count.
LEMMA ReportCounts ==
  ASSUME found \subseteq Pos, reports = Cardinality(found),
         NEW hits \in SUBSET Pos, hits \cap found = {}, Report(hits)
  PROVE  found' \subseteq Pos /\ reports' = Cardinality(found')
<1>1. IsFiniteSet(Pos)
  BY FS_Interval, TreeAssumption DEF Pos
<1>2. IsFiniteSet(found) /\ IsFiniteSet(hits)
  BY <1>1, FS_Subset
<1>3. Cardinality(found \union hits)
        = Cardinality(found) + Cardinality(hits) - Cardinality(found \cap hits)
  BY <1>2, FS_Union
<1>4. Cardinality(found \cap hits) = 0
  BY FS_EmptySet
<1>5. Cardinality(found) \in Nat /\ Cardinality(hits) \in Nat
  BY <1>2, FS_CardinalityType
<1> QED BY <1>3, <1>4, <1>5 DEF Report

\* While it walks, the walk stands at a range of the tree, and no point of that
\* range has been reported or is in another range of the stack.
LEMMA AtCurrent ==
  ASSUME IInv, Walking
  PROVE  /\ Current \in Visitable
         /\ Tail(stack) \in Seq(Visitable)
         /\ Covered(stack) = Points(Current) \union Covered(Tail(stack))
         /\ Disjoint(Tail(stack))
         /\ Points(Current) \cap Covered(Tail(stack)) = {}
         /\ found \cap Points(Current) = {}
         /\ found \cap Covered(Tail(stack)) = {}
<1>1. stack \in Seq(Visitable) /\ stack # <<>> /\ outcome = "walking"
  BY DEF IInv, Walking
<1>2. Disjoint(stack) /\ found \cap Covered(stack) = {}
  BY <1>1 DEF IInv
<1>3. Covered(stack) = Points(Current) \union Covered(Tail(stack))
  BY <1>1, TailCovers DEF Current
<1>4. Disjoint(Tail(stack)) /\ Points(Current) \cap Covered(Tail(stack)) = {}
  BY <1>1, <1>2, TailCovers DEF Current
<1>5. Current \in Visitable /\ Tail(stack) \in Seq(Visitable)
  BY <1>1, HeadTailProperties DEF Current
<1> QED BY <1>2, <1>3, <1>4, <1>5

\* The invariant holds before a query is asked.
LEMMA InitIInv == Built /\ QueryInit => IInv
<1> SUFFICES ASSUME Built, QueryInit PROVE IInv
  OBVIOUS
<1>1. Cardinality({}) = 0
  BY FS_EmptySet
<1>2. NothingSkipped
  BY DEF QueryInit, NothingSkipped
<1> QED BY <1>1, <1>2 DEF QueryInit, IInv

\* The walk begins with everything pending.
LEMMA AskIInv ==
  ASSUME IInv, UNCHANGED <<coords, tree>>, NEW q \in Queries, Ask(q)
  PROVE  IInv'
<1>1. Root \in Visitable'
  BY RootIsRange DEF IInv, Built, Grown, Visitable
<1>2. /\ stack' \in Seq(Visitable')
      /\ Covered(stack') = Points(Root)
      /\ Disjoint(stack')
  BY <1>1, OneCovers DEF Ask
<1>3. Points(Root) = Pos
  BY DEF Points, Root, Span, Pos
<1>4. found' = {} /\ reports' = Cardinality(found') /\ outcome' = "walking" /\ query' \in Query
  BY QueryAssumption DEF IInv, Ask, Query
<1>5. Hits(Pos)' \subseteq Pos
  BY DEF Hits
<1>6. NothingSkipped'
  BY <1>2, <1>3, <1>4, <1>5 DEF NothingSkipped
<1>7. Built'
  BY DEF IInv, Built, Grown, Split
<1> QED BY <1>2, <1>4, <1>6, <1>7 DEF IInv

\* All the matches of a leaf are reported.
LEMMA VisitLeafIInv ==
  ASSUME IInv, UNCHANGED <<coords, tree>>, VisitLeaf
  PROVE  IInv'
<1>1. Walking /\ outcome = "walking" /\ query \in Query
  BY DEF VisitLeaf, Walking, IInv
<1> DEFINE hits == Hits(Points(Current))
<1>2. Points(Current) \subseteq Pos /\ hits \in SUBSET Pos /\ hits \subseteq Points(Current)
      /\ hits \subseteq Hits(Pos)
  BY <1>1, AtCurrent, PositionsOfRange DEF Visitable, Hits
<1>3. hits \cap found = {}
  BY <1>1, <1>2, AtCurrent
<1>4. Report(hits) /\ found' = found \union hits
  BY DEF VisitLeaf, Report
<1>5. found' \subseteq Pos /\ reports' = Cardinality(found')
  <2> HIDE DEF hits
  <2> QED BY <1>2, <1>3, <1>4, ReportCounts DEF IInv
<1>6. stack' = Tail(stack) /\ outcome' = outcome /\ query' = query
  BY DEF VisitLeaf
<1>7. stack' \in Seq(Visitable') /\ Disjoint(stack') /\ found' \cap Covered(stack') = {}
  <2>1. Visitable' = Visitable
    BY DEF Visitable
  <2> QED BY <1>1, <1>2, <1>4, <1>6, <2>1, AtCurrent
<1>8. Hits(Pos)' = Hits(Pos)
  BY <1>6 DEF Hits
<1>9. Hits(Pos) \subseteq found' \union Covered(stack')
  <2>1. Hits(Pos) \subseteq found \union Points(Current) \union Covered(Tail(stack))
    BY <1>1, AtCurrent DEF IInv, NothingSkipped
  <2>2. Hits(Pos) \cap Points(Current) \subseteq hits
    BY DEF Hits
  <2> QED BY <1>4, <1>6, <2>1, <2>2
<1>10. found' \subseteq Hits(Pos)
  BY <1>1, <1>2, <1>4 DEF IInv, NothingSkipped
<1>11. NothingSkipped'
  BY <1>8, <1>9, <1>10 DEF NothingSkipped
<1>12. Built'
  BY DEF IInv, Built, Grown, Split
<1> QED BY <1>1, <1>5, <1>6, <1>7, <1>11, <1>12 DEF IInv

\* A range that is not a leaf is split: the matches on either side of its median
\* are in a half that is pushed, and the halves are again nodes of the tree.
LEMMA VisitNodeIInv ==
  ASSUME IInv, UNCHANGED <<coords, tree>>, VisitNode
  PROVE  IInv'
<1> DEFINE r    == Current
           rest == Tail(stack)
           hits == Hits({Mid(r)})
<1>1. Walking /\ outcome = "walking" /\ query \in Query
  BY DEF VisitNode, Walking, IInv
<1>2. r \in Ranges /\ ~IsLeaf(r) /\ r \in tree
  BY <1>1, AtCurrent DEF VisitNode, Visitable
<1>3. /\ rest \in Seq(Visitable)
      /\ Covered(stack) = Points(r) \union Covered(rest)
      /\ Disjoint(rest)
      /\ Points(r) \cap Covered(rest) = {}
      /\ found \cap Points(r) = {}
      /\ found \cap Covered(rest) = {}
  BY <1>1, AtCurrent
<1>4. /\ Mid(r) \in Pos /\ Mid(r) \in Points(r)
      /\ LeftHalf(r) \in Ranges /\ RightHalf(r) \in Ranges
      /\ Points(r) \subseteq Pos
  BY <1>2, MidInside, PositionsOfRange DEF Points, Pos, Ranges
<1>5. LeftHalf(r) \in Visitable /\ RightHalf(r) \in Visitable
  BY <1>2, <1>4 DEF IInv, Built, Grown, Visitable
<1>6. /\ Meets(r) \in Seq({LeftHalf(r), RightHalf(r)})
      /\ Disjoint(Meets(r))
      /\ Covered(Meets(r)) \subseteq Points(r) \ {Mid(r)}
  <2> HIDE DEF r
  <2> QED BY <1>2, MeetsCovers
<1>7. Meets(r) \in Seq(Visitable)
  <2> HIDE DEF r
  <2> QED BY <1>5, <1>6
<1>8. hits \in SUBSET Pos /\ hits \subseteq {Mid(r)} /\ hits \subseteq Hits(Pos)
      /\ Hits(Pos) \cap {Mid(r)} \subseteq hits
  BY <1>4 DEF Hits
<1>9. hits \cap found = {}
  BY <1>3, <1>4, <1>8
<1>10. /\ Report(hits) /\ found' = found \union hits
       /\ stack' = Meets(r) \o rest /\ outcome' = outcome /\ query' = query
  BY DEF VisitNode, Report
<1>11. found' \subseteq Pos /\ reports' = Cardinality(found')
  <2> HIDE DEF hits
  <2> QED BY <1>8, <1>9, <1>10, ReportCounts DEF IInv
<1>12. /\ Covered(stack') = Covered(Meets(r)) \union Covered(rest)
       /\ Disjoint(stack')
       /\ stack' \in Seq(Visitable)
  <2> HIDE DEF r, rest
  <2>1. Covered(Meets(r)) \cap Covered(rest) = {}
    BY <1>3, <1>6
  <2> QED BY <1>3, <1>6, <1>7, <1>10, <2>1, ConcatCovers, ConcatProperties
<1>13. stack' \in Seq(Visitable') /\ found' \cap Covered(stack') = {}
  <2>1. Visitable' = Visitable
    BY DEF Visitable
  <2>2. Mid(r) \notin Covered(rest)
    BY <1>3, <1>4
  <2> HIDE DEF r, rest, hits
  <2> QED BY <1>3, <1>6, <1>8, <1>10, <1>12, <2>1, <2>2
\* No match of the range is left out.
<1>14. Hits(Points(r)) \subseteq hits \union Covered(Meets(r))
  <2> SUFFICES ASSUME NEW i \in Points(r), Matches(query, coords[i])
               PROVE  i \in hits \union Covered(Meets(r))
    BY DEF Hits
  <2> DEFINE x == coords[Mid(r)][r.axis]
  <2>1. /\ i \in Pos /\ i \in Int /\ r.left <= i /\ i <= r.right /\ r.axis \in 0..1
        /\ r.left \in Int /\ r.right \in Int /\ Mid(r) \in Int
    BY <1>2, <1>4 DEF Points, Ranges, Pos
  <2>2. coords[i] \in [0..1 -> Int] /\ coords[i][r.axis] \in Int /\ x \in Int
    BY <1>4, <2>1 DEF IInv, Built
  <2>3. Low(query, r.axis) <= coords[i][r.axis] /\ coords[i][r.axis] <= High(query, r.axis)
    BY <1>1, <2>1, <2>2, MatchInBox
  <2>4. Low(query, r.axis) \in Int /\ High(query, r.axis) \in Int
    BY <1>1, <2>1, BoxType
  <2>5. Split(r)
    BY <1>2 DEF IInv, Built
  <2>6. CASE i = Mid(r)
    BY <2>6 DEF Hits
  <2>7. CASE i < Mid(r)
    <3>1. i \in r.left..Mid(r) - 1
      BY <2>1, <2>7
    <3>2. coords[i][r.axis] <= x
      BY <2>5, <3>1 DEF Split
    <3>3. Low(query, r.axis) <= x
      BY <2>2, <2>3, <2>4, <3>2
    <3>4. r.left..Mid(r) - 1 \subseteq Covered(Meets(r))
      <4> HIDE DEF r
      <4> QED BY <1>2, <3>3, MeetsCovers
    <3> QED BY <3>1, <3>4
  <2>8. CASE i > Mid(r)
    <3>1. i \in Mid(r) + 1..r.right
      BY <2>1, <2>8
    <3>2. coords[i][r.axis] >= x
      BY <2>5, <3>1 DEF Split
    <3>3. High(query, r.axis) >= x
      BY <2>2, <2>3, <2>4, <3>2
    <3>4. Mid(r) + 1..r.right \subseteq Covered(Meets(r))
      <4> HIDE DEF r
      <4> QED BY <1>2, <3>3, MeetsCovers
    <3> QED BY <3>1, <3>4
  <2> QED BY <2>1, <2>6, <2>7, <2>8
<1>15. Hits(Pos)' = Hits(Pos)
  BY <1>10 DEF Hits
<1>16. Hits(Pos) \subseteq found' \union Covered(stack')
  <2>1. Hits(Pos) \subseteq found \union Points(r) \union Covered(rest)
    BY <1>1, <1>3 DEF IInv, NothingSkipped
  <2>2. Hits(Pos) \cap Points(r) \subseteq Hits(Points(r))
    BY DEF Hits
  <2> HIDE DEF r, rest, hits
  <2> QED BY <1>10, <1>12, <1>14, <2>1, <2>2
<1>17. found' \subseteq Hits(Pos)
  BY <1>1, <1>8, <1>10 DEF IInv, NothingSkipped
<1>18. NothingSkipped'
  BY <1>15, <1>16, <1>17 DEF NothingSkipped
<1>19. Built'
  BY DEF IInv, Built, Grown, Split
<1> QED BY <1>1, <1>10, <1>11, <1>12, <1>13, <1>18, <1>19 DEF IInv

\* What a stopped walk has reported are matches, each reported once.
LEMMA StopIInv ==
  ASSUME IInv, UNCHANGED <<coords, tree>>, Stop
  PROVE  IInv'
<1>1. Walking /\ outcome = "walking" /\ query \in Query
  BY DEF Stop, Walking, IInv
<1>2. Current \in Ranges /\ Points(Current) \subseteq Pos
      /\ (~IsLeaf(Current) => Mid(Current) \in Points(Current))
  BY <1>1, AtCurrent, PositionsOfRange, MidInside DEF Visitable, Points, Ranges, Pos
<1>3. PICK hits \in SUBSET Points(Current) : hits \subseteq Hits(Pos) /\ Report(hits)
  <2>1. CASE IsLeaf(Current)
    <3>1. PICK last \in Hits(Points(Current)) : Report(Hits(Current.left..last))
      BY <2>1 DEF Stop
    <3>2. Current.left..last \subseteq Points(Current)
      BY <1>2, <3>1 DEF Hits, Points, Ranges
    <3> QED BY <1>2, <3>1, <3>2 DEF Hits
  <2>2. CASE ~IsLeaf(Current)
    <3>1. Hits({Mid(Current)}) # {} /\ Report({Mid(Current)})
      BY <2>2 DEF Stop
    <3> QED BY <1>2, <2>2, <3>1 DEF Hits
  <2> QED BY <2>1, <2>2
<1>4. hits \in SUBSET Pos /\ hits \cap found = {}
  BY <1>1, <1>2, <1>3, AtCurrent
<1>5. found' \subseteq Pos /\ reports' = Cardinality(found')
  BY <1>3, <1>4, ReportCounts DEF IInv
<1>6. outcome' = "stopped" /\ stack' = stack /\ query' = query
  BY DEF Stop
<1>7. Hits(Pos)' = Hits(Pos)
  BY <1>6 DEF Hits
<1>8. found' \subseteq Hits(Pos)
  BY <1>1, <1>3 DEF IInv, NothingSkipped, Report
<1>9. NothingSkipped'
  BY <1>6, <1>7, <1>8 DEF NothingSkipped
<1>10. Built' /\ Visitable' = Visitable
  BY DEF IInv, Built, Grown, Split, Visitable
<1> QED BY <1>1, <1>5, <1>6, <1>9, <1>10 DEF IInv

\* So are those of a walk that fails, or it has no result.
LEMMA ReadFailsIInv ==
  ASSUME IInv, UNCHANGED <<coords, tree>>, ReadFails
  PROVE  IInv'
<1>1. Walking /\ outcome = "walking" /\ query \in Query
  BY DEF ReadFails, Walking, IInv
<1>2. found' \subseteq Pos /\ reports' = Cardinality(found')
  <2>1. CASE found' = {} /\ reports' = 0
    BY <2>1, FS_EmptySet
  <2>2. CASE UNCHANGED <<found, reports>>
    BY <2>2 DEF IInv
  <2>3. CASE \E unread \in Hits(Points(Current)) : Report(Hits(Current.left..unread - 1))
    <3>1. PICK unread \in Hits(Points(Current)) : Report(Hits(Current.left..unread - 1))
      BY <2>3
    <3>2. Current \in Ranges /\ Points(Current) \subseteq Pos /\ found \cap Points(Current) = {}
      BY <1>1, AtCurrent, PositionsOfRange DEF Visitable
    <3>3. Current.left..unread - 1 \subseteq Points(Current)
      BY <3>1, <3>2 DEF Hits, Points, Ranges
    <3>4. Hits(Current.left..unread - 1) \subseteq Points(Current)
      BY <3>3 DEF Hits
    <3> QED BY <3>1, <3>2, <3>4, ReportCounts DEF IInv
  <2> QED BY <2>1, <2>2, <2>3 DEF ReadFails
<1>3. outcome' = "failed" /\ stack' = stack /\ query' = query
  BY DEF ReadFails
<1>4. NothingSkipped'
  BY <1>3 DEF NothingSkipped
<1>5. Built' /\ Visitable' = Visitable
  BY DEF IInv, Built, Grown, Split, Visitable
<1> QED BY <1>1, <1>2, <1>3, <1>4, <1>5 DEF IInv

\* A walk ends when nothing is pending.
LEMMA ReturnIInv ==
  ASSUME IInv, UNCHANGED <<coords, tree>>, Return
  PROVE  IInv'
<1>1. /\ outcome = "walking" /\ query \in Query
      /\ stack = <<>> /\ stack' = stack /\ query' = query
  BY DEF Return, IInv
<1>2. Built' /\ Visitable' = Visitable
  BY DEF IInv, Built, Grown, Split, Visitable
<1>3. Hits(Pos)' = Hits(Pos)
  BY <1>1 DEF Hits
<1>4. CASE outcome' = "done" /\ UNCHANGED <<found, reports>>
  <2>1. Hits(Pos) \subseteq found \union Covered(stack) /\ found \subseteq Hits(Pos)
    BY <1>1 DEF IInv, NothingSkipped
  <2>2. NothingSkipped'
    BY <1>1, <1>3, <1>4, <2>1 DEF NothingSkipped
  <2> QED BY <1>1, <1>2, <1>4, <2>2 DEF IInv
<1>5. CASE outcome' = "failed" /\ found' = {} /\ reports' = 0
  <2>1. reports' = Cardinality(found')
    BY <1>5, FS_EmptySet
  <2>2. NothingSkipped'
    BY <1>5 DEF NothingSkipped
  <2> QED BY <1>1, <1>2, <1>5, <2>1, <2>2 DEF IInv
<1> QED BY <1>4, <1>5 DEF Return

\* A step of somebody else.
LEMMA StutterIInv ==
  ASSUME IInv, UNCHANGED <<coords, tree, queryVars>>
  PROVE  IInv'
<1>1. Hits(Pos)' = Hits(Pos)
  BY DEF Hits, queryVars
<1>2. NothingSkipped'
  BY <1>1 DEF IInv, NothingSkipped, queryVars
<1>3. Built' /\ Visitable' = Visitable
  BY DEF IInv, Built, Grown, Split, Visitable
<1> QED BY <1>2, <1>3 DEF IInv, queryVars

-----------------------------------------------------------------------------
(* The theorems.                                                           *)

(* A walk keeps its stack a set of disjoint ranges of the tree that, with   *)
(* what it has reported, hold every match (kdbush.go:35-77 and 85-128).    *)
THEOREM QueryInvariant == QuerySpec => []IInv
<1>1. Built /\ QueryInit => IInv
  BY InitIInv
<1>2. IInv /\ [QueryNext /\ UNCHANGED <<coords, tree>>]_<<coords, tree, queryVars>> => IInv'
  <2> SUFFICES ASSUME IInv, [QueryNext /\ UNCHANGED <<coords, tree>>]_<<coords, tree, queryVars>>
               PROVE  IInv'
    OBVIOUS
  <2>1. CASE UNCHANGED <<coords, tree, queryVars>>
    BY <2>1, StutterIInv
  <2>2. CASE QueryNext /\ UNCHANGED <<coords, tree>>
    <3>1. ASSUME NEW q \in Queries, Ask(q) PROVE IInv'
      BY <2>2, <3>1, AskIInv
    <3>2. CASE VisitLeaf BY <2>2, <3>2, VisitLeafIInv
    <3>3. CASE VisitNode BY <2>2, <3>3, VisitNodeIInv
    <3>4. CASE Return BY <2>2, <3>4, ReturnIInv
    <3>5. CASE Stop BY <2>2, <3>5, StopIInv
    <3>6. CASE ReadFails BY <2>2, <3>6, ReadFailsIInv
    <3> QED BY <2>2, <3>1, <3>2, <3>3, <3>4, <3>5, <3>6 DEF QueryNext, Visit
  <2> QED BY <2>1, <2>2
<1> QED BY <1>1, <1>2, PTL DEF QuerySpec

(* On every tree that has been built, a walk leaves out no match and       *)
(* reports nothing else (kdbush.go:65-75 and 117-127).                     *)
THEOREM WalkSkipsNothing == QuerySpec => []NothingSkipped
<1>1. IInv => NothingSkipped
  BY DEF IInv
<1> QED BY <1>1, QueryInvariant, PTL

(* No point is reported twice, whatever way the walk went                  *)
(* (kdbush.go:43-61 and 93-113).                                           *)
THEOREM WalkReportsOnce == QuerySpec => []ReportedOnce
<1>1. IInv => ReportedOnce
  BY DEF IInv, ReportedOnce
<1> QED BY <1>1, QueryInvariant, PTL

(* A query that comes to its end has reported exactly the points that      *)
(* match it (kdbush.go:29).                                                *)
THEOREM WalkIsExact ==
  QuerySpec => [](outcome = "done" => found = Hits(Pos))
<1>1. IInv => (outcome = "done" => found = Hits(Pos))
  BY OneCovers DEF IInv, NothingSkipped
<1> QED BY <1>1, QueryInvariant, PTL

-----------------------------------------------------------------------------
(* The invariant of sort.                                                  *)

Coordinates == [Pos -> [0..1 -> Int]]

\* The ranges that sort is called with; an empty one ends before it begins.
Slices == {r \in Ranges : r.left - 1 <= r.right}

Frames == [k : Pos, axis : 0..1, left : 0..N, right : -1..N-1,
           pc : {"loop", "pass", "scan"}, i : Int, j : Int, t : Int]

SortTypes ==
  /\ points \in Coordinates
  /\ coords \in Coordinates
  /\ todo \in Seq(Slices)
  /\ calls \in Seq(Frames)
  /\ tree \subseteq Slices

\* The indexes u are a permutation, and c has the points in their order.
Permutes(u, c) ==
  /\ u \in [Pos -> Pos]
  /\ \A i, j \in Pos : u[i] = u[j] => i = j
  /\ \A p \in Pos : \E i \in Pos : u[i] = p
  /\ \A i \in Pos : c[i] = points[u[i]]

\* A frame selects the median of the range r, in a part of it.
FrameIn(f, r) ==
  /\ f.k = Mid(r) /\ f.axis = r.axis
  /\ r.left <= f.left /\ f.right <= r.right
  /\ \/ f.left <= f.k /\ f.k <= f.right
     \/ f.pc = "loop" /\ f.left = f.k + 1 /\ f.right = f.k - 1
  /\ f.pc # "loop" => f.left < f.right

LEMMA FrameBounds == \A f \in Frames : f.left \in Int /\ f.right \in Int
BY TreeAssumption DEF Frames

\* What a pass has partitioned: up to i nothing is greater than t, from j on nothing
\* is smaller, t is at one end, and the places of the last swap are sentinels.
Partitioned(c, f) ==
  LET x(n) == c[n][f.axis]
  IN  /\ f.i \in f.left..f.right /\ f.j \in f.left..f.right
      /\ \A n \in f.left..f.i - 1 : x(n) <= f.t
      /\ \A n \in f.j + 1..f.right : x(n) >= f.t
      /\ \/ /\ f.i = f.left /\ f.j = f.right
            /\ \/ x(f.left) = f.t /\ x(f.right) <= f.t
               \/ x(f.left) >= f.t /\ x(f.right) = f.t
         \/ /\ f.left < f.i /\ f.j < f.right
            /\ x(f.i) >= f.t /\ x(f.j) <= f.t
            /\ x(f.left) = f.t \/ x(f.right) = f.t

Outermost == calls[Len(calls)]

\* What lies outside of the frame f is on its side of all that lies within.
Bounded(c, f, r) ==
  /\ \A m \in r.left..f.left - 1, n \in f.left..r.right : c[m][r.axis] <= c[n][r.axis]
  /\ \A m \in r.left..f.right, n \in f.right + 1..r.right : c[m][r.axis] <= c[n][r.axis]

\* The calls of sselect on the stack, the innermost first.
Selecting ==
  /\ todo # <<>> /\ ~IsLeaf(Head(todo))
  /\ \A n \in DOMAIN calls : FrameIn(calls[n], Head(todo))
  /\ \A m, n \in DOMAIN calls : m < n => /\ calls[n].pc = "pass"
                                         /\ calls[n].left <= calls[m].left
                                         /\ calls[m].right <= calls[n].right
  /\ calls[1].pc = "scan" => Partitioned(coords, calls[1])
  /\ Bounded(coords, Outermost, Head(todo))

\* The range q lies on one side of the median of r or outside of r.
Beside(q, r) ==
  \/ Points(q) \subseteq r.left..Mid(r) - 1
  \/ Points(q) \subseteq Mid(r) + 1..r.right
  \/ Points(q) \cap Points(r) = {}

\* A range that will be split, or need not be.
Due(range) == IsLeaf(range) \/ range \in tree \/ range \in {todo[n] : n \in DOMAIN todo}

SortInv ==
  /\ SortTypes
  /\ Permutes(idxs, coords)
  /\ calls # <<>> => Selecting
  /\ Disjoint(todo)
  /\ \A r \in tree : ~IsLeaf(r) /\ Split(r) /\ \A n \in DOMAIN todo : Beside(todo[n], r)
  /\ Due(Root) /\ \A r \in tree : Due(LeftHalf(r)) /\ Due(RightHalf(r))

-----------------------------------------------------------------------------
(* The least and the greatest of a set of numbers.                         *)

LEMMA Least ==
  ASSUME NEW T \in SUBSET Nat, T # {}
  PROVE  \E x \in T : \A y \in T : x <= y
<1> DEFINE R == OpToRel(<, Nat)
<1>1. IsWellFoundedOn(R, Nat)
  BY NatLessThanWellFounded
<1>2. \A x, y \in Nat : y < x => <<y, x>> \in R
  BY DEF OpToRel
<1> HIDE DEF R
<1>3. PICK x \in T : \A y \in T : ~ (<<y, x>> \in R)
  BY <1>1, WFMin
<1>4. x \in Nat /\ \A y \in T : y \in Nat /\ ~(y < x)
  BY <1>2, <1>3
<1> QED BY <1>4

LEMMA Greatest ==
  ASSUME NEW e \in Int, NEW T \in SUBSET Int, T # {}, \A y \in T : y <= e
  PROVE  \E x \in T : \A y \in T : y <= x
<1> DEFINE U == {u \in Nat : e - u \in T}
<1>1. U \in SUBSET Nat /\ \A y \in T : e - y \in U
  <2>1. \A y \in T : y \in Int /\ e - y \in Nat /\ e - (e - y) = y
    OBVIOUS
  <2> QED BY <2>1
<1>2. U # {}
  BY <1>1
<1>3. PICK u \in U : \A v \in U : u <= v
  <2> HIDE DEF U
  <2> QED BY <1>1, <1>2, Least
<1>4. e - u \in T /\ \A y \in T : u <= e - y
  BY <1>1, <1>3
<1>5. \A y \in T : y <= e - u
  BY <1>1, <1>4
<1> QED BY <1>4, <1>5

-----------------------------------------------------------------------------
(* The steps of a pass, over any arrays.                                   *)

\* The upward scan ends at the first value that is not smaller, if there is one.
LEMMA ScanUpStops ==
  ASSUME NEW c \in Coordinates, NEW axis \in 0..1, NEW t \in Int,
         NEW i \in Pos, NEW e \in Pos, i <= e, c[e][axis] >= t
  PROVE  /\ ScanUp(c, i, axis, t) \in i..e
         /\ c[ScanUp(c, i, axis, t)][axis] >= t
         /\ \A h \in i..ScanUp(c, i, axis, t) - 1 : c[h][axis] < t
<1> DEFINE T == {n \in i..e : c[n][axis] >= t}
           Stops(n) == (n = N \/ c[n][axis] >= t) /\ \A h \in i..n-1 : c[h][axis] < t
<1>1. i \in Int /\ e \in Int /\ i >= 0 /\ e < N /\ N \in Nat
  BY TreeAssumption DEF Pos
<1>2. T \in SUBSET Nat /\ e \in T
  BY <1>1
<1>3. PICK x \in T : \A y \in T : x <= y
  BY <1>2, Least
<1>4. \A n \in Pos : c[n][axis] \in Int
  BY DEF Coordinates
<1>5. \A h \in i..x - 1 : c[h][axis] < t
  BY <1>1, <1>3, <1>4 DEF Pos
<1>6. x \in i..N /\ Stops(x)
  BY <1>1, <1>3, <1>5
<1> DEFINE s == CHOOSE n \in i..N : Stops(n)
<1>7. s \in i..N /\ Stops(s)
  <2> HIDE DEF Stops
  <2> QED BY <1>6
<1>8. ScanUp(c, i, axis, t) = s
  BY DEF ScanUp
<1> HIDE DEF s
<1>9. s <= e
  <2> SUFFICES ASSUME s > e PROVE FALSE
    BY <1>1, <1>7
  <2>1. e \in i..s - 1
    BY <1>1, <1>7
  <2>2. c[e][axis] < t
    BY <1>7, <2>1
  <2> QED BY <1>4, <2>2
<1>10. s \in i..e /\ s # N
  BY <1>1, <1>7, <1>9
<1> QED BY <1>7, <1>8, <1>10

\* The downward scan, the other way round.
LEMMA ScanDownStops ==
  ASSUME NEW c \in Coordinates, NEW axis \in 0..1, NEW t \in Int,
         NEW j \in Pos, NEW e \in Pos, e <= j, c[e][axis] <= t
  PROVE  /\ ScanDown(c, j, axis, t) \in e..j
         /\ c[ScanDown(c, j, axis, t)][axis] <= t
         /\ \A h \in ScanDown(c, j, axis, t) + 1..j : c[h][axis] > t
<1> DEFINE T == {n \in e..j : c[n][axis] <= t}
           Stops(n) == (n = -1 \/ c[n][axis] <= t) /\ \A h \in n+1..j : c[h][axis] > t
<1>1. j \in Int /\ e \in Int /\ e >= 0 /\ j < N /\ N \in Nat
  BY TreeAssumption DEF Pos
<1>2. T \in SUBSET Int /\ e \in T /\ \A y \in T : y <= j
  BY <1>1
<1>3. PICK x \in T : \A y \in T : y <= x
  BY <1>1, <1>2, Greatest
<1>4. \A n \in Pos : c[n][axis] \in Int
  BY DEF Coordinates
<1>5. \A h \in x + 1..j : c[h][axis] > t
  BY <1>1, <1>3, <1>4 DEF Pos
<1>6. x \in -1..j /\ Stops(x)
  BY <1>1, <1>3, <1>5
<1> DEFINE s == CHOOSE n \in -1..j : Stops(n)
<1>7. s \in -1..j /\ Stops(s)
  <2> HIDE DEF Stops
  <2> QED BY <1>6
<1>8. ScanDown(c, j, axis, t) = s
  BY DEF ScanDown
<1> HIDE DEF s
<1>9. s >= e
  <2> SUFFICES ASSUME s < e PROVE FALSE
    BY <1>1, <1>7
  <2>1. e \in s + 1..j
    BY <1>1, <1>7
  <2>2. c[e][axis] > t
    BY <1>7, <2>1
  <2> QED BY <1>4, <2>2
<1>10. s \in e..j /\ s # -1
  BY <1>1, <1>7, <1>9
<1> QED BY <1>7, <1>8, <1>10

-----------------------------------------------------------------------------
(* Swaps.                                                                  *)

\* d has the elements of c in another order, and only among the positions in S.
Rearranged(c, d, S) ==
  /\ \A n \in Pos \ S : d[n] = c[n]
  /\ \A m \in S : \E n \in S : d[m] = c[n]

LEMMA SwapMoves ==
  ASSUME NEW c \in Coordinates, NEW i \in Pos, NEW j \in Pos
  PROVE  /\ Swapped(c, i, j) \in Coordinates
         /\ Swapped(c, i, j)[i] = c[j] /\ Swapped(c, i, j)[j] = c[i]
         /\ \A n \in Pos : n # i /\ n # j => Swapped(c, i, j)[n] = c[n]
BY DEF Swapped, Coordinates

LEMMA SwapRearranges ==
  ASSUME NEW c \in Coordinates, NEW S \in SUBSET Pos, NEW i \in S, NEW j \in S
  PROVE  Swapped(c, i, j) \in Coordinates /\ Rearranged(c, Swapped(c, i, j), S)
<1> DEFINE d == Swapped(c, i, j)
<1>1. /\ d \in Coordinates
      /\ d[i] = c[j] /\ d[j] = c[i]
      /\ \A n \in Pos : n # i /\ n # j => d[n] = c[n]
  BY DEF Swapped, Coordinates
<1> HIDE DEF d
<1>2. ASSUME NEW m \in S PROVE \E n \in S : d[m] = c[n]
  BY <1>1
<1>3. \A n \in Pos \ S : d[n] = c[n]
  BY <1>1
<1> QED BY <1>1, <1>2, <1>3 DEF Rearranged, d

LEMMA RearrangedTwice ==
  ASSUME NEW c, NEW d, NEW e, NEW S \in SUBSET Pos, Rearranged(c, d, S), Rearranged(d, e, S)
  PROVE  Rearranged(c, e, S)
BY DEF Rearranged

\* Nothing at A is greater than anything at B.
Below(c, axis, A, B) == \A m \in A, n \in B : c[m][axis] <= c[n][axis]

\* S lies inside of A or outside of it.
Whole(A, S) == S \subseteq A \/ S \cap A = {}

\* An order between all of A and all of B does not depend on the order within them.
LEMMA OrderKept ==
  ASSUME NEW c \in Coordinates, NEW d \in Coordinates, NEW S \in SUBSET Pos,
         Rearranged(c, d, S), NEW axis \in 0..1,
         NEW A \in SUBSET Pos, Whole(A, S), NEW B \in SUBSET Pos, Whole(B, S),
         Below(c, axis, A, B)
  PROVE  Below(d, axis, A, B)
<1>1. ASSUME NEW C \in SUBSET Pos, Whole(C, S), NEW m \in C
      PROVE  \E n \in C : d[m] = c[n]
  BY <1>1 DEF Rearranged, Whole
<1> SUFFICES ASSUME NEW m \in A, NEW n \in B PROVE d[m][axis] <= d[n][axis]
  BY DEF Below
<1>2. PICK mm \in A : d[m] = c[mm]
  BY <1>1
<1>3. PICK nn \in B : d[n] = c[nn]
  BY <1>1
<1> QED BY <1>2, <1>3 DEF Below

\* The indexes follow the points.
LEMMA SwapPermutes ==
  ASSUME NEW u, NEW c \in Coordinates, Permutes(u, c), NEW i \in Pos, NEW j \in Pos
  PROVE  Permutes(Swapped(u, i, j), Swapped(c, i, j))
<1> DEFINE v == Swapped(u, i, j)
           d == Swapped(c, i, j)
<1>1. /\ v \in [Pos -> Pos]
      /\ v[i] = u[j] /\ v[j] = u[i]
      /\ \A n \in Pos : n # i /\ n # j => v[n] = u[n]
  BY DEF Swapped, Permutes
<1>2. /\ d[i] = c[j] /\ d[j] = c[i]
      /\ \A n \in Pos : n # i /\ n # j => d[n] = c[n]
  BY DEF Swapped, Coordinates
<1> HIDE DEF v, d
<1>3. \A m, n \in Pos : v[m] = v[n] => m = n
  BY <1>1 DEF Permutes
<1>4. ASSUME NEW p \in Pos PROVE \E n \in Pos : v[n] = p
  <2>1. PICK n \in Pos : u[n] = p
    BY DEF Permutes
  <2> QED BY <1>1, <2>1
<1>5. \A n \in Pos : d[n] = points[v[n]]
  BY <1>1, <1>2 DEF Permutes
<1> QED BY <1>1, <1>3, <1>4, <1>5 DEF Permutes, v, d

-----------------------------------------------------------------------------
(* One pass of sselect.                                                    *)

\* The first swaps put t at one end and what is on its side of t at the other.
LEMMA PassBegins ==
  ASSUME NEW c \in Coordinates, NEW left \in Pos, NEW right \in Pos, NEW k \in left..right,
         left < right, NEW axis \in 0..1
  PROVE  LET s == Swapped(c, left, k)
             t == c[k][axis]
             d == IF s[right][axis] > t THEN Swapped(s, left, right) ELSE s
         IN  /\ d \in Coordinates /\ Rearranged(c, d, left..right)
             /\ \/ d[left][axis] = t /\ d[right][axis] <= t
                \/ d[left][axis] >= t /\ d[right][axis] = t
<1> DEFINE s == Swapped(c, left, k)
           t == c[k][axis]
           e == Swapped(s, left, right)
           d == IF s[right][axis] > t THEN e ELSE s
           S == left..right
<1>1. /\ S \in SUBSET Pos /\ left \in S /\ right \in S /\ k \in S
      /\ left \in Int /\ right \in Int /\ k \in Pos
  BY TreeAssumption DEF Pos
<1>2. /\ s \in Coordinates /\ Rearranged(c, s, S)
      /\ s[left] = c[k]
  <2> HIDE DEF S
  <2> QED BY <1>1, SwapRearranges, SwapMoves
<1>3. /\ e \in Coordinates /\ Rearranged(s, e, S)
      /\ e[left] = s[right] /\ e[right] = s[left]
  <2> HIDE DEF S, s
  <2> QED BY <1>1, <1>2, SwapRearranges, SwapMoves
<1> HIDE DEF s, e, S
<1>4. Rearranged(c, e, S)
  BY <1>1, <1>2, <1>3, RearrangedTwice
<1>5. t \in Int /\ s[right][axis] \in Int
  BY <1>1, <1>2 DEF Coordinates
<1>6. /\ d \in Coordinates /\ Rearranged(c, d, S)
      /\ \/ d[left][axis] = t /\ d[right][axis] <= t
         \/ d[left][axis] >= t /\ d[right][axis] = t
  <2>1. CASE s[right][axis] > t
    <3>1. d = e
      BY <2>1
    <3>2. e[left][axis] >= t /\ e[right][axis] = t
      BY <1>2, <1>3, <1>5, <2>1
    <3> HIDE DEF d
    <3> QED BY <1>3, <1>4, <3>1, <3>2
  <2>2. CASE ~(s[right][axis] > t)
    <3>1. d = s
      BY <2>2
    <3>2. s[left][axis] = t /\ s[right][axis] <= t
      BY <1>2, <1>5, <2>2
    <3> HIDE DEF d
    <3> QED BY <1>2, <3>1, <3>2
  <2> QED BY <2>1, <2>2
<1> QED BY <1>6 DEF s, e, S

\* After a swap the scans stop at the places just swapped, at the latest.
LEMMA PassGoesOn ==
  ASSUME NEW c \in Coordinates, NEW f \in Frames, f.left \in Pos, f.right \in Pos,
         Partitioned(c, f), f.i < f.j,
         NEW g, g = [f EXCEPT !.i = ScanUp(Swapped(c, f.i, f.j), f.i + 1, f.axis, f.t),
                              !.j = ScanDown(Swapped(c, f.i, f.j), f.j - 1, f.axis, f.t)]
  PROVE  g \in Frames /\ Partitioned(Swapped(c, f.i, f.j), g)
<1> DEFINE d    == Swapped(c, f.i, f.j)
           up   == ScanUp(d, f.i + 1, f.axis, f.t)
           down == ScanDown(d, f.j - 1, f.axis, f.t)
           x(n) == c[n][f.axis]
           y(n) == d[n][f.axis]
<1>1. /\ f.left \in Int /\ f.right \in Int /\ f.i \in Int /\ f.j \in Int /\ f.t \in Int
      /\ f.axis \in 0..1 /\ f.i \in f.left..f.right /\ f.j \in f.left..f.right
      /\ f.i \in Pos /\ f.j \in Pos /\ f.i + 1 \in Pos /\ f.j - 1 \in Pos
      /\ f.left..f.right \subseteq Pos
  BY TreeAssumption DEF Frames, Pos, Partitioned
<1>2. /\ d \in Coordinates
      /\ d[f.i] = c[f.j] /\ d[f.j] = c[f.i]
      /\ \A n \in Pos : n # f.i /\ n # f.j => d[n] = c[n]
  <2>1. f.i \in Pos /\ f.j \in Pos
    BY <1>1
  <2> QED BY ONLY c \in Coordinates, <2>1, SwapMoves
<1> HIDE DEF d
<1>3. \A n \in Pos : x(n) \in Int /\ y(n) \in Int
  BY <1>1, <1>2 DEF Coordinates
<1>4. y(f.i) <= f.t /\ y(f.j) >= f.t /\ (y(f.left) = f.t \/ y(f.right) = f.t)
  <2>1. CASE f.i = f.left /\ f.j = f.right /\ x(f.left) = f.t /\ x(f.right) <= f.t
    BY <1>1, <1>2, <1>3, <2>1
  <2>2. CASE f.i = f.left /\ f.j = f.right /\ x(f.left) >= f.t /\ x(f.right) = f.t
    BY <1>1, <1>2, <1>3, <2>2
  <2>3. CASE /\ f.left < f.i /\ f.j < f.right
             /\ x(f.i) >= f.t /\ x(f.j) <= f.t
             /\ x(f.left) = f.t \/ x(f.right) = f.t
    <3>1. f.left # f.i /\ f.left # f.j /\ f.right # f.i /\ f.right # f.j
      BY <1>1, <2>3
    <3> QED BY <1>1, <1>2, <2>3, <3>1
  <2> QED BY <2>1, <2>2, <2>3 DEF Partitioned
<1>5. up \in f.i + 1..f.j /\ y(up) >= f.t /\ \A h \in f.i + 1..up - 1 : y(h) < f.t
  BY <1>1, <1>2, <1>4, ScanUpStops
<1>6. down \in f.i..f.j - 1 /\ y(down) <= f.t /\ \A h \in down + 1..f.j - 1 : y(h) > f.t
  BY <1>1, <1>2, <1>4, ScanDownStops
<1>7. /\ g \in Frames
      /\ g.i = up /\ g.j = down
      /\ g.left = f.left /\ g.right = f.right /\ g.axis = f.axis /\ g.t = f.t
  <2>1. g = [f EXCEPT !.i = up, !.j = down]
    BY DEF d
  <2>2. up \in Int /\ down \in Int
    BY <1>1, <1>5, <1>6
  <2> HIDE DEF up, down
  <2> QED BY ONLY f \in Frames, <2>1, <2>2 DEF Frames
<1> HIDE DEF up, down
<1>8. /\ g.i \in f.left..f.right /\ g.j \in f.left..f.right
      /\ f.left < g.i /\ g.j < f.right
  BY <1>1, <1>5, <1>6, <1>7
<1>9. ASSUME NEW n \in f.left..up - 1 PROVE y(n) <= f.t
  <2>1. n \in Pos /\ n # f.j
    BY <1>1, <1>5
  <2>2. CASE n < f.i
    BY <1>1, <1>2, <2>1, <2>2 DEF Partitioned
  <2>3. CASE n > f.i
    BY <1>1, <1>3, <1>5, <2>1, <2>3
  <2> QED BY <1>1, <1>4, <1>5, <2>2, <2>3
<1>10. ASSUME NEW n \in down + 1..f.right PROVE y(n) >= f.t
  <2>1. n \in Pos /\ n # f.i
    BY <1>1, <1>6
  <2>2. CASE n > f.j
    BY <1>1, <1>2, <2>1, <2>2 DEF Partitioned
  <2>3. CASE n < f.j
    BY <1>1, <1>3, <1>6, <2>1, <2>3
  <2> QED BY <1>1, <1>4, <1>6, <2>2, <2>3
<1>11. Partitioned(d, g)
  BY <1>4, <1>5, <1>6, <1>7, <1>8, <1>9, <1>10 DEF Partitioned
<1> QED BY <1>7, <1>11 DEF Frames, d

\* Where t goes when the scans have met.
Home(c, f) == IF c[f.left][f.axis] = f.t THEN f.j ELSE f.j + 1

\* The last swap puts t between what is not greater and what is not smaller.
LEMMA PassEnds ==
  ASSUME NEW c \in Coordinates, NEW f \in Frames, f.left \in Pos, f.right \in Pos,
         f.left < f.right, Partitioned(c, f), f.i >= f.j,
         NEW d, d = IF c[f.left][f.axis] = f.t
                    THEN Swapped(c, f.left, Home(c, f)) ELSE Swapped(c, Home(c, f), f.right)
  PROVE  /\ Home(c, f) \in f.left..f.right
         /\ d \in Coordinates /\ Rearranged(c, d, f.left..f.right)
         /\ \A n \in f.left..Home(c, f) - 1 : d[n][f.axis] <= d[Home(c, f)][f.axis]
         /\ \A n \in Home(c, f) + 1..f.right : d[n][f.axis] >= d[Home(c, f)][f.axis]
<1> DEFINE home == Home(c, f)
           S    == f.left..f.right
           x(n) == c[n][f.axis]
           y(n) == d[n][f.axis]
<1>1. /\ f.left \in Int /\ f.right \in Int /\ f.i \in Int /\ f.j \in Int /\ f.t \in Int
      /\ f.axis \in 0..1 /\ f.i \in S /\ f.j \in S /\ f.left \in S /\ f.right \in S
      /\ S \in SUBSET Pos
  BY TreeAssumption DEF Frames, Pos, Partitioned
<1>2. /\ f.left < f.i /\ f.j < f.right
      /\ x(f.i) >= f.t /\ x(f.j) <= f.t
      /\ x(f.left) = f.t \/ x(f.right) = f.t
      /\ \A n \in f.left..f.i - 1 : x(n) <= f.t
      /\ \A n \in f.j + 1..f.right : x(n) >= f.t
  BY <1>1 DEF Partitioned
<1>3. \A n \in Pos : x(n) \in Int
  BY <1>1 DEF Coordinates
<1>4. \A n \in f.left..f.j : x(n) <= f.t
  <2> SUFFICES ASSUME NEW n \in f.left..f.j PROVE x(n) <= f.t
    OBVIOUS
  <2>1. n \in f.left..f.i - 1 \/ n = f.j
    BY <1>1
  <2> QED BY <1>2, <2>1
<1>5. CASE x(f.left) = f.t
  <2>1. home = f.j /\ home \in S /\ d = Swapped(c, f.left, home)
    BY <1>1, <1>5 DEF Home
  <2>2. /\ d \in Coordinates /\ Rearranged(c, d, S)
        /\ d[f.left] = c[home] /\ d[home] = c[f.left]
        /\ \A n \in Pos : n # f.left /\ n # home => d[n] = c[n]
    <3>1. f.left \in S /\ f.right \in S /\ f.left \in Pos /\ f.right \in Pos
          /\ home \in S /\ home \in Pos
      BY <1>1, <2>1
    <3> HIDE DEF S, home
    <3>2. d \in Coordinates /\ Rearranged(c, d, S)
      BY ONLY c \in Coordinates, <1>1, <2>1, <3>1, SwapRearranges
    <3> QED BY ONLY c \in Coordinates, <2>1, <3>1, <3>2 DEF Swapped, Coordinates
  <2>3. ASSUME NEW n \in f.left..home - 1 PROVE y(n) <= f.t
    <3>1. CASE n = f.left
      BY <1>2, <2>1, <2>2, <3>1
    <3>2. CASE n # f.left
      <4>1. n \in Pos /\ n # home /\ n \in f.left..f.j
        BY <1>1, <2>1
      <4> QED BY <1>4, <2>2, <3>2, <4>1
    <3> QED BY <3>1, <3>2
  <2>4. ASSUME NEW n \in home + 1..f.right PROVE y(n) >= f.t
    <3>1. n \in Pos /\ n # home /\ n # f.left /\ n \in f.j + 1..f.right
      BY <1>1, <2>1
    <3> QED BY <1>2, <2>2, <3>1
  <2>5. y(home) = f.t
    BY <1>5, <2>2
  <2> QED BY <2>1, <2>2, <2>3, <2>4, <2>5
<1>6. CASE x(f.left) # f.t
  <2>1. home = f.j + 1 /\ home \in S /\ d = Swapped(c, home, f.right) /\ x(f.right) = f.t
    BY <1>1, <1>2, <1>6 DEF Home
  <2>2. /\ d \in Coordinates /\ Rearranged(c, d, S)
        /\ d[home] = c[f.right] /\ d[f.right] = c[home]
        /\ \A n \in Pos : n # home /\ n # f.right => d[n] = c[n]
    <3>1. f.left \in S /\ f.right \in S /\ f.left \in Pos /\ f.right \in Pos
          /\ home \in S /\ home \in Pos
      BY <1>1, <2>1
    <3> HIDE DEF S, home
    <3>2. d \in Coordinates /\ Rearranged(c, d, S)
      BY ONLY c \in Coordinates, <1>1, <2>1, <3>1, SwapRearranges
    <3> QED BY ONLY c \in Coordinates, <2>1, <3>1, <3>2 DEF Swapped, Coordinates
  <2>3. ASSUME NEW n \in f.left..home - 1 PROVE y(n) <= f.t
    <3>1. n \in Pos /\ n # home /\ n # f.right /\ n \in f.left..f.j
      BY <1>1, <1>2, <2>1
    <3> QED BY <1>4, <2>2, <3>1
  <2>4. ASSUME NEW n \in home + 1..f.right PROVE y(n) >= f.t
    <3>1. CASE n = f.right
      <4>1. home \in f.j + 1..f.right
        BY <1>1, <2>1
      <4> QED BY <1>2, <2>2, <3>1, <4>1
    <3>2. CASE n # f.right
      <4>1. n \in Pos /\ n # home /\ n \in f.j + 1..f.right
        BY <1>1, <2>1
      <4> QED BY <1>2, <2>2, <3>2, <4>1
    <3> QED BY <3>1, <3>2
  <2>5. y(home) = f.t
    BY <2>1, <2>2
  <2> QED BY <2>1, <2>2, <2>3, <2>4, <2>5
<1> QED BY <1>5, <1>6

\* The frame f when t has come to rest at home.
Narrowed(f, home) ==
  [f EXCEPT !.pc = "loop",
            !.left = IF home <= f.k THEN home + 1 ELSE f.left,
            !.right = IF f.k <= home THEN home - 1 ELSE f.right]

\* The narrowed range holds the median, or has closed around it.
LEMMA PassNarrows ==
  ASSUME NEW r \in Slices, NEW f \in Frames, FrameIn(f, r), f.pc # "loop",
         NEW home \in f.left..f.right,
         NEW g, g = Narrowed(f, home)
  PROVE  /\ g \in Frames /\ FrameIn(g, r) /\ g.pc = "loop"
         /\ f.left <= g.left /\ g.right <= f.right
         /\ g.left = IF home <= f.k THEN home + 1 ELSE f.left
         /\ g.right = IF f.k <= home THEN home - 1 ELSE f.right
<1>1. /\ f.left \in 0..N /\ f.right \in -1..N-1 /\ f.k \in Pos /\ home \in Int /\ N \in Nat
      /\ f.left <= f.k /\ f.k <= f.right
      /\ f.k = Mid(r) /\ f.axis = r.axis /\ r.left <= f.left /\ f.right <= r.right
  BY TreeAssumption DEF FrameIn, Frames
<1> DEFINE left  == IF home <= f.k THEN home + 1 ELSE f.left
           right == IF f.k <= home THEN home - 1 ELSE f.right
<1>2. /\ left \in 0..N /\ right \in -1..N-1 /\ f.left <= left /\ right <= f.right
      /\ \/ left <= f.k /\ f.k <= right
         \/ left = f.k + 1 /\ right = f.k - 1
  BY <1>1 DEF Pos
<1>3. g = [f EXCEPT !.pc = "loop", !.left = left, !.right = right]
  BY DEF Narrowed
<1>4. /\ left = IF home <= f.k THEN home + 1 ELSE f.left
      /\ right = IF f.k <= home THEN home - 1 ELSE f.right
  OBVIOUS
<1> HIDE DEF left, right
<1>5. /\ g \in Frames /\ g.pc = "loop" /\ g.left = left /\ g.right = right
      /\ g.k = f.k /\ g.axis = f.axis
  BY ONLY f \in Frames, <1>2, <1>3 DEF Frames
<1>6. r.left \in Int /\ r.right \in Int
  BY TreeAssumption DEF Slices, Ranges
<1>7. r.left <= left /\ right <= r.right
  BY <1>1, <1>2, <1>6
<1> QED BY <1>1, <1>2, <1>4, <1>5, <1>7 DEF FrameIn

\* What it leaves outside is on its side.
LEMMA PassBounds ==
  ASSUME NEW d \in Coordinates, NEW r \in Slices, NEW f \in Frames, FrameIn(f, r), Bounded(d, f, r),
         NEW home \in f.left..f.right,
         \A n \in f.left..home - 1 : d[n][r.axis] <= d[home][r.axis],
         \A n \in home + 1..f.right : d[n][r.axis] >= d[home][r.axis],
         NEW g, g.left = IF home <= f.k THEN home + 1 ELSE f.left,
         g.right = IF f.k <= home THEN home - 1 ELSE f.right
  PROVE  Bounded(d, g, r)
<1> DEFINE y(n) == d[n][r.axis]
<1>1. /\ f.left \in Int /\ f.right \in Int /\ f.k \in Int /\ home \in Int
      /\ r.left \in Int /\ r.right \in Int /\ r.axis \in 0..1
      /\ r.left <= f.left /\ f.right <= r.right
      /\ r.left..r.right \subseteq Pos
  BY TreeAssumption DEF FrameIn, Frames, Slices, Ranges, Pos
<1>2. \A n \in r.left..r.right : y(n) \in Int
  BY <1>1 DEF Coordinates
<1>3. ASSUME NEW m \in r.left..home, NEW n \in home..r.right
      PROVE  y(m) <= y(n)
  <2>1. /\ m \in r.left..r.right /\ n \in r.left..r.right /\ home \in r.left..r.right
        /\ m \in Int /\ n \in Int
    BY <1>1
  <2>2. CASE m < f.left
    <3>1. m \in r.left..f.left - 1 /\ n \in f.left..r.right
      BY <1>1, <2>1, <2>2
    <3> QED BY <3>1 DEF Bounded
  <2>3. CASE n > f.right
    <3>1. m \in r.left..f.right /\ n \in f.right + 1..r.right
      BY <1>1, <2>1, <2>3
    <3> QED BY <3>1 DEF Bounded
  <2>4. CASE m >= f.left /\ n <= f.right
    <3>1. y(m) <= y(home)
      BY <1>1, <1>2, <2>1, <2>4
    <3>2. y(home) <= y(n)
      BY <1>1, <1>2, <2>1, <2>4
    <3> QED BY <1>2, <2>1, <3>1, <3>2
  <2> QED BY <1>1, <2>1, <2>2, <2>3, <2>4
<1>4. ASSUME NEW m \in r.left..g.left - 1, NEW n \in g.left..r.right PROVE y(m) <= y(n)
  <2>1. CASE home <= f.k
    <3>1. m \in r.left..home /\ n \in home..r.right
      BY <1>1, <2>1
    <3> QED BY <1>3, <3>1
  <2>2. CASE ~(home <= f.k)
    BY <2>2 DEF Bounded
  <2> QED BY <2>1, <2>2
<1>5. ASSUME NEW m \in r.left..g.right, NEW n \in g.right + 1..r.right PROVE y(m) <= y(n)
  <2>1. CASE f.k <= home
    <3>1. m \in r.left..home /\ n \in home..r.right
      BY <1>1, <2>1
    <3> QED BY <1>3, <3>1
  <2>2. CASE ~(f.k <= home)
    BY <2>2 DEF Bounded
  <2> QED BY <2>1, <2>2
<1> QED BY <1>4, <1>5 DEF Bounded

-----------------------------------------------------------------------------
(* What a rearrangement in the selected part leaves as it was.             *)

\* What has been found out about the outermost call.
LEMMA BoundedKept ==
  ASSUME NEW c \in Coordinates, NEW d \in Coordinates, NEW r \in Slices, NEW f \in Frames,
         FrameIn(f, r), Bounded(c, f, r),
         NEW S \in SUBSET (f.left..f.right), Rearranged(c, d, S)
  PROVE  Bounded(d, f, r)
<1>1. /\ f.left \in Int /\ f.right \in Int
      /\ r.left \in Int /\ r.right \in Int /\ r.axis \in 0..1
      /\ r.left <= f.left /\ f.right <= r.right
      /\ r.left..r.right \subseteq Pos
  BY TreeAssumption DEF FrameIn, Frames, Slices, Ranges, Pos
<1> DEFINE A1 == r.left..f.left - 1
           B1 == f.left..r.right
           A2 == r.left..f.right
           B2 == f.right + 1..r.right
<1>2. /\ S \in SUBSET Pos /\ A2 \in SUBSET Pos /\ B1 \in SUBSET Pos
      /\ Whole(A1, S) /\ Whole(B1, S) /\ Whole(A2, S) /\ Whole(B2, S)
  <2>1. \A n \in S : n \in Int /\ f.left <= n /\ n <= f.right
    OBVIOUS
  <2>2. S \cap A1 = {} /\ S \subseteq B1 /\ S \subseteq A2 /\ S \cap B2 = {}
    BY <1>1, <2>1
  <2>3. S \in SUBSET Pos /\ A2 \in SUBSET Pos /\ B1 \in SUBSET Pos
    BY <1>1, <2>1
  <2> HIDE DEF A1, B1, A2, B2
  <2> QED BY <2>2, <2>3 DEF Whole
<1>3. A1 \in SUBSET Pos /\ B2 \in SUBSET Pos
  <2>1. f.left <= N /\ -1 <= f.right /\ 0 <= r.left /\ r.right <= N - 1 /\ N \in Nat
    BY TreeAssumption DEF Frames, Slices, Ranges
  <2> QED BY <1>1, <2>1 DEF Pos
<1>4. Below(c, r.axis, A1, B1) /\ Below(c, r.axis, A2, B2)
  BY DEF Bounded, Below
<1>5. Below(d, r.axis, A1, B1) /\ Below(d, r.axis, A2, B2)
  <2> HIDE DEF A1, B1, A2, B2
  <2> QED BY <1>1, <1>2, <1>3, <1>4, OrderKept
<1> QED BY <1>5 DEF Bounded, Below

\* What has been split.
LEMMA SplitKept ==
  ASSUME coords \in Coordinates, coords' \in Coordinates,
         NEW q \in Slices, NEW S \in SUBSET Points(q), Rearranged(coords, coords', S),
         NEW r \in Slices, ~IsLeaf(r), Beside(q, r), Split(r)
  PROVE  Split(r)'
<1> DEFINE m == Mid(r)
           A == r.left..m - 1
           M == {m}
           B == m + 1..r.right
<1>1. r \in Ranges /\ q \in Ranges
  BY DEF Slices
<1>2. m \in Pos /\ r.left <= m /\ m < r.right
  BY <1>1, MidInside
<1>3. /\ r.left \in Int /\ r.right \in Int /\ m \in Int /\ r.axis \in 0..1
      /\ Points(r) \subseteq Pos /\ S \in SUBSET Pos
      /\ A \cup M \cup B = Points(r)
  BY <1>1, <1>2, PositionsOfRange DEF Ranges, Points, Pos
<1>4. A \in SUBSET Pos /\ M \in SUBSET Pos /\ B \in SUBSET Pos
      /\ A \cap M = {} /\ A \cap B = {} /\ M \cap B = {}
  BY <1>2, <1>3
<1>5. S \subseteq A \/ S \subseteq B \/ S \cap Points(r) = {}
  BY DEF Beside
<1>6. Whole(A, S) /\ Whole(M, S) /\ Whole(B, S)
  <2> HIDE DEF A, M, B
  <2> QED BY <1>3, <1>4, <1>5 DEF Whole
<1>7. \A i \in Pos : coords[i][r.axis] \in Int /\ coords'[i][r.axis] \in Int
  BY <1>3 DEF Coordinates
<1>8. Below(coords, r.axis, A, M) /\ Below(coords, r.axis, M, B)
  <2>1. \A i \in A : coords[i][r.axis] <= coords[m][r.axis]
    BY DEF Split
  <2>2. \A i \in B : coords[i][r.axis] >= coords[m][r.axis]
    BY DEF Split
  <2> QED BY <1>2, <1>4, <1>7, <2>1, <2>2 DEF Below
<1>9. Below(coords', r.axis, A, M) /\ Below(coords', r.axis, M, B)
  <2> HIDE DEF A, M, B
  <2> QED BY <1>3, <1>4, <1>6, <1>8, OrderKept
<1>10. \A i \in A : coords'[i][r.axis] <= coords'[m][r.axis]
  BY <1>9 DEF Below
<1>11. \A i \in B : coords'[i][r.axis] >= coords'[m][r.axis]
  BY <1>2, <1>4, <1>7, <1>9 DEF Below
<1> QED BY <1>10, <1>11 DEF Split

-----------------------------------------------------------------------------
(* The invariant holds of every step of sort.                              *)

\* The innermost call of sselect, in the range that sort is splitting.
LEMMA AtTop ==
  ASSUME SortInv, calls # <<>>
  PROVE  /\ todo # <<>> /\ Head(todo) \in Slices /\ ~IsLeaf(Head(todo))
         /\ calls \in Seq(Frames) /\ Len(calls) \in Nat /\ Len(calls) >= 1
         /\ Top \in Frames /\ FrameIn(Top, Head(todo)) /\ Top = calls[1]
         /\ Top.pc = "scan" => Partitioned(coords, Top)
         /\ Outermost \in Frames /\ FrameIn(Outermost, Head(todo))
         /\ Bounded(coords, Outermost, Head(todo))
         /\ Outermost.left <= Top.left /\ Top.right <= Outermost.right
         /\ Len(calls) = 1 => Outermost = Top
<1>1. Selecting /\ calls \in Seq(Frames) /\ todo \in Seq(Slices)
  BY DEF SortInv, SortTypes
<1>2. /\ Len(calls) \in Nat /\ Len(calls) >= 1 /\ DOMAIN calls = 1..Len(calls)
      /\ 1 \in DOMAIN calls /\ Len(calls) \in DOMAIN calls
      /\ Top = calls[1]
  BY <1>1 DEF Top
<1>3. todo # <<>> /\ Head(todo) \in Slices
  BY <1>1 DEF Selecting
<1>4. Top \in Frames /\ Outermost \in Frames
  BY <1>1, <1>2 DEF Outermost
<1>5. Outermost.left <= Top.left /\ Top.right <= Outermost.right
  <2>1. CASE Len(calls) = 1
    <3>1. Outermost = Top
      BY <1>2, <2>1 DEF Outermost
    <3>2. Top.left \in Int /\ Top.right \in Int
      BY <1>4, TreeAssumption DEF Frames
    <3> QED BY <3>1, <3>2
  <2>2. CASE Len(calls) > 1
    BY <1>1, <1>2, <2>2 DEF Selecting, Outermost
  <2> QED BY <1>2, <2>1, <2>2
<1> QED BY <1>1, <1>2, <1>3, <1>4, <1>5 DEF Selecting, Outermost

\* What is known of the stack of calls when the innermost is replaced by f.
LEMMA ReplaceTop ==
  ASSUME NEW S, NEW s \in Seq(S), s # <<>>, NEW f \in S
  PROVE  /\ <<f>> \o Tail(s) \in Seq(S)
         /\ DOMAIN (<<f>> \o Tail(s)) = DOMAIN s /\ Len(<<f>> \o Tail(s)) = Len(s)
         /\ (<<f>> \o Tail(s))[1] = f
         /\ \A n \in DOMAIN s : n # 1 => (<<f>> \o Tail(s))[n] = s[n]
<1>1. /\ Tail(s) \in Seq(S) /\ Len(Tail(s)) = Len(s) - 1
      /\ \A i \in 1..Len(Tail(s)) : Tail(s)[i] = s[i + 1]
      /\ Len(s) \in Nat /\ Len(s) >= 1 /\ DOMAIN s = 1..Len(s)
  BY HeadTailProperties
<1>2. <<f>> \in Seq(S) /\ Len(<<f>>) = 1 /\ <<f>>[1] = f
  OBVIOUS
<1> DEFINE u == <<f>> \o Tail(s)
<1>3. /\ u \in Seq(S) /\ Len(u) = Len(s)
      /\ \A i \in 1..Len(s) : u[i] = IF i <= 1 THEN <<f>>[i] ELSE Tail(s)[i - 1]
  <2> HIDE DEF u
  <2>1. /\ u \in Seq(S) /\ Len(u) = Len(<<f>>) + Len(Tail(s))
        /\ \A i \in 1..Len(<<f>>) + Len(Tail(s)) :
              u[i] = IF i <= Len(<<f>>) THEN <<f>>[i] ELSE Tail(s)[i - Len(<<f>>)]
    BY <1>1, <1>2, ConcatProperties DEF u
  <2> QED BY <1>1, <1>2, <2>1
<1> HIDE DEF u
<1>4. DOMAIN u = 1..Len(s) /\ u[1] = f
  BY <1>1, <1>2, <1>3
<1>5. ASSUME NEW n \in 1..Len(s), n # 1 PROVE u[n] = s[n]
  <2>1. n - 1 \in 1..Len(Tail(s)) /\ ~(n <= 1)
    BY <1>1, <1>5
  <2>2. u[n] = Tail(s)[n - 1] /\ Tail(s)[n - 1] = s[(n - 1) + 1]
    BY <1>1, <1>3, <2>1
  <2>3. (n - 1) + 1 = n
    OBVIOUS
  <2> QED BY <2>2, <2>3
<1> QED BY <1>1, <1>3, <1>4, <1>5 DEF u

\* A step of the innermost call moves points only within its range, so it keeps what
\* the calls around it and the ranges already split rely on.
LEMMA SelectStep ==
  ASSUME SortInv, calls # <<>>, UNCHANGED <<points, todo, tree>>,
         NEW f \in Frames, calls' = <<f>> \o Tail(calls),
         FrameIn(f, Head(todo)), Top.left <= f.left, f.right <= Top.right,
         coords' \in Coordinates, Permutes(idxs, coords)', Top.left..Top.right \subseteq Pos,
         Rearranged(coords, coords', Top.left..Top.right),
         f.pc = "scan" => Partitioned(coords', f),
         Len(calls) = 1 => Bounded(coords', f, Head(todo))
  PROVE  SortInv'
<1> DEFINE r == Head(todo)
           S == Top.left..Top.right
<1>1. /\ r \in Slices /\ ~IsLeaf(r) /\ calls \in Seq(Frames) /\ todo # <<>>
      /\ Top \in Frames /\ FrameIn(Top, r) /\ Top = calls[1]
      /\ Outermost \in Frames /\ FrameIn(Outermost, r) /\ Bounded(coords, Outermost, r)
      /\ Outermost.left <= Top.left /\ Top.right <= Outermost.right
      /\ Selecting /\ coords \in Coordinates
      /\ Len(calls) \in Nat /\ Len(calls) >= 1 /\ DOMAIN calls = 1..Len(calls)
  BY AtTop DEF SortInv, SortTypes
<1>2. /\ calls' \in Seq(Frames)
      /\ DOMAIN calls' = DOMAIN calls /\ Len(calls') = Len(calls)
      /\ calls'[1] = f /\ \A n \in DOMAIN calls : n # 1 => calls'[n] = calls[n]
  BY <1>1, ReplaceTop
<1>3. SortTypes' /\ Head(todo)' = r
  BY <1>2 DEF SortInv, SortTypes
<1>4. \A n \in DOMAIN calls' : FrameIn(calls'[n], r)
  BY <1>1, <1>2 DEF Selecting
<1>5. ASSUME NEW m \in DOMAIN calls', NEW n \in DOMAIN calls', m < n
      PROVE  /\ calls'[n].pc = "pass"
             /\ calls'[n].left <= calls'[m].left
             /\ calls'[m].right <= calls'[n].right
  <2>1. n # 1 /\ calls'[n] = calls[n] /\ calls[n] \in Frames
    BY <1>1, <1>2, <1>5
  <2>2. CASE m = 1
    <3>1. calls[n].pc = "pass" /\ calls[n].left <= Top.left /\ Top.right <= calls[n].right
      BY <1>1, <1>2, <1>5, <2>2 DEF Selecting
    <3>2. /\ calls[n].left \in Int /\ calls[n].right \in Int /\ Top.left \in Int
          /\ Top.right \in Int /\ f.left \in Int /\ f.right \in Int
      BY <1>1, <2>1, TreeAssumption DEF Frames
    <3>3. calls'[m] = f
      BY <1>2, <2>2
    <3>4. calls[n].left <= f.left /\ f.right <= calls[n].right
      BY <3>1, <3>2
    <3> QED BY <2>1, <3>1, <3>3, <3>4
  <2>3. CASE m # 1
    BY <1>1, <1>2, <1>5, <2>1, <2>3 DEF Selecting
  <2> QED BY <2>2, <2>3
<1>6. Bounded(coords', calls'[Len(calls')], r)
  <2>1. CASE Len(calls) = 1
    BY <1>2, <2>1
  <2>2. CASE Len(calls) > 1
    <3>1. calls'[Len(calls')] = Outermost
      BY <1>1, <1>2, <2>2 DEF Outermost
    <3>2. S \in SUBSET (Outermost.left..Outermost.right)
      <4>1. /\ Outermost.left \in Int /\ Outermost.right \in Int
            /\ Top.left \in Int /\ Top.right \in Int
        BY <1>1, TreeAssumption DEF Frames
      <4> QED BY <1>1, <4>1
    <3> HIDE DEF r, S
    <3> QED BY ONLY <1>1, <3>1, <3>2, coords' \in Coordinates, Rearranged(coords, coords', S),
                    BoundedKept DEF S
  <2> QED BY <1>1, <2>1, <2>2
<1>7. Selecting'
  BY <1>1, <1>2, <1>3, <1>4, <1>5, <1>6 DEF Selecting, Outermost, IsLeaf
<1>8. S \in SUBSET Points(r)
  <2>1. Top.left \in Int /\ Top.right \in Int
    BY <1>1, TreeAssumption DEF Frames
  <2>2. r.left \in Int /\ r.right \in Int
    <3> HIDE DEF r
    <3> QED BY <1>1, TreeAssumption DEF Slices, Ranges
  <2>3. r.left <= Top.left /\ Top.right <= r.right
    BY <1>1 DEF FrameIn
  <2> HIDE DEF r
  <2> QED BY <2>1, <2>2, <2>3 DEF Points
<1>9. ASSUME NEW q \in tree PROVE Split(q)'
  <2>1. q \in Slices /\ ~IsLeaf(q) /\ Split(q) /\ Beside(r, q)
    BY <1>1, <1>9 DEF SortInv, SortTypes
  <2> QED BY <1>1, <1>8, <2>1, SplitKept
<1>10. /\ Disjoint(todo)'
       /\ \A q \in tree' : ~IsLeaf(q) /\ Split(q)' /\ \A n \in DOMAIN todo' : Beside(todo'[n], q)
       /\ Due(Root)' /\ \A q \in tree' : Due(LeftHalf(q))' /\ Due(RightHalf(q))'
  BY <1>9 DEF SortInv, Due
<1> QED BY <1>3, <1>7, <1>10 DEF SortInv, Disjoint, Due

\* The range of a call whose pass is on.
LEMMA InPass ==
  ASSUME SortInv, calls # <<>>, Top.pc # "loop" \/ Top.left < Top.right
  PROVE  /\ Top.left \in Pos /\ Top.right \in Pos /\ Top.left < Top.right
         /\ Top.k \in Top.left..Top.right /\ Top.axis \in 0..1
         /\ Top.left..Top.right \in SUBSET Pos
<1>1. Top \in Frames /\ FrameIn(Top, Head(todo))
  BY AtTop
<1>2. /\ Top.k \in Pos /\ Top.left \in 0..N /\ Top.right \in -1..N-1 /\ Top.axis \in 0..1
      /\ N \in Nat
  BY <1>1, TreeAssumption DEF Frames
<1>3. Top.left <= Top.k /\ Top.k <= Top.right /\ Top.left < Top.right
  BY <1>1, <1>2 DEF FrameIn, Pos
<1> QED BY <1>2, <1>3 DEF Pos

\* A swap within the range of the call.
LEMMA SwapInside ==
  ASSUME NEW u, NEW c \in Coordinates, Permutes(u, c),
         NEW S \in SUBSET Pos, NEW i \in S, NEW j \in S
  PROVE  /\ Swapped(c, i, j) \in Coordinates /\ Rearranged(c, Swapped(c, i, j), S)
         /\ Permutes(Swapped(u, i, j), Swapped(c, i, j))
BY SwapRearranges, SwapPermutes

\* The sentinels are put in place.
LEMMA SelectPassInv == SortInv /\ SelectPass => SortInv'
<1> SUFFICES ASSUME SortInv, SelectPass PROVE SortInv'
  OBVIOUS
<1> DEFINE s == Swapped(coords, Top.left, Top.k)
           u == Swapped(idxs, Top.left, Top.k)
           t == Coord(Top.k)
           S == Top.left..Top.right
           d == IF s[Top.right][Top.axis] > t THEN Swapped(s, Top.left, Top.right) ELSE s
           f == [Top EXCEPT !.pc = "scan", !.t = t, !.i = Top.left, !.j = Top.right]
<1>1. calls # <<>> /\ (Top.pc # "loop" \/ Top.left < Top.right)
      /\ UNCHANGED <<points, todo, tree>>
      /\ coords' = d /\ calls' = <<f>> \o Tail(calls)
      /\ idxs' = IF s[Top.right][Top.axis] > t THEN Swapped(u, Top.left, Top.right) ELSE u
  BY DEF SelectPass
<1>2. /\ Top.left \in Pos /\ Top.right \in Pos /\ Top.left < Top.right
      /\ Top.k \in S /\ Top.axis \in 0..1 /\ S \in SUBSET Pos
      /\ coords \in Coordinates /\ Permutes(idxs, coords)
      /\ Top \in Frames /\ FrameIn(Top, Head(todo))
  BY <1>1, InPass, AtTop DEF SortInv, SortTypes
<1>3. Top.left \in S /\ Top.right \in S
  BY <1>2 DEF Pos
<1>4. /\ d \in Coordinates /\ Rearranged(coords, d, S)
      /\ \/ d[Top.left][Top.axis] = t /\ d[Top.right][Top.axis] <= t
         \/ d[Top.left][Top.axis] >= t /\ d[Top.right][Top.axis] = t
  BY <1>2, PassBegins DEF Coord
<1>5. Permutes(idxs, coords)'
  <2>1. s \in Coordinates /\ Permutes(u, s)
    <3> HIDE DEF S
    <3> QED BY <1>2, <1>3, SwapInside
  <2>2. Permutes(Swapped(u, Top.left, Top.right), Swapped(s, Top.left, Top.right))
    <3> HIDE DEF S, s, u
    <3> QED BY <1>2, <1>3, <2>1, SwapInside
  <2>3. Permutes(idxs', coords')
    <3>1. CASE s[Top.right][Top.axis] > t
      BY <1>1, <2>2, <3>1
    <3>2. CASE ~(s[Top.right][Top.axis] > t)
      BY <1>1, <2>1, <3>2
    <3> QED BY <3>1, <3>2
  <2> HIDE DEF s, u, t, d, f, S
  <2> QED BY <1>1, <2>3 DEF Permutes
<1>6. /\ f \in Frames /\ f.pc = "scan" /\ f.left = Top.left /\ f.right = Top.right
      /\ f.k = Top.k /\ f.axis = Top.axis /\ f.i = Top.left /\ f.j = Top.right /\ f.t = t
  <2>1. t \in Int
    BY <1>2 DEF Coord, Coordinates, Pos
  <2>2. Top.left \in Int /\ Top.right \in Int
    BY <1>2 DEF Pos
  <2> HIDE DEF t
  <2> QED BY <1>2, <2>1, <2>2 DEF Frames
<1>7. FrameIn(f, Head(todo))
  <2>1. Top.left <= Top.k /\ Top.k <= Top.right
    BY <1>2 DEF Pos
  <2> HIDE DEF f
  <2> QED BY <1>2, <1>6, <2>1 DEF FrameIn
<1>8. Partitioned(d, f)
  <2>1. /\ Top.left..Top.left - 1 = {} /\ Top.right + 1..Top.right = {}
        /\ Top.left \in S /\ Top.right \in S
    BY <1>2, <1>3 DEF Pos
  <2> HIDE DEF d, f, t, s
  <2> QED BY <1>4, <1>6, <2>1 DEF Partitioned
<1>9. Len(calls) = 1 => Bounded(d, f, Head(todo))
  <2>1. ASSUME Len(calls) = 1 PROVE Bounded(d, Top, Head(todo))
    <3>1. Bounded(coords, Top, Head(todo)) /\ Head(todo) \in Slices
      BY <1>1, <2>1, AtTop
    <3> HIDE DEF d, S
    <3> QED BY <1>2, <1>4, <3>1, BoundedKept DEF S
  <2> HIDE DEF d, f
  <2> QED BY <1>6, <2>1 DEF Bounded
<1>10. Top.left <= f.left /\ f.right <= Top.right
  BY <1>2, <1>6 DEF Pos
<1> HIDE DEF s, u, t, d, f, S
<1> QED BY <1>1, <1>2, <1>4, <1>5, <1>6, <1>7, <1>8, <1>9, <1>10, SelectStep DEF S

\* The two that are on the wrong side change places.
LEMMA SelectSwapInv == SortInv /\ SelectSwap => SortInv'
<1> SUFFICES ASSUME SortInv, SelectSwap PROVE SortInv'
  OBVIOUS
<1> DEFINE d == Swapped(coords, Top.i, Top.j)
           S == Top.left..Top.right
           f == [Top EXCEPT !.i = ScanUp(d, Top.i + 1, Top.axis, Top.t),
                            !.j = ScanDown(d, Top.j - 1, Top.axis, Top.t)]
<1>1. calls # <<>> /\ Top.pc = "scan" /\ Top.i < Top.j
      /\ UNCHANGED <<points, todo, tree>>
      /\ coords' = d /\ calls' = <<f>> \o Tail(calls)
      /\ idxs' = Swapped(idxs, Top.i, Top.j)
  BY DEF SelectSwap, Swap
<1>2. /\ Top.left \in Pos /\ Top.right \in Pos /\ S \in SUBSET Pos
      /\ coords \in Coordinates /\ Permutes(idxs, coords)
      /\ Top \in Frames /\ FrameIn(Top, Head(todo)) /\ Partitioned(coords, Top)
  BY <1>1, InPass, AtTop DEF SortInv, SortTypes
<1>3. Top.i \in S /\ Top.j \in S
  BY <1>2 DEF Partitioned
<1>4. d \in Coordinates /\ Rearranged(coords, d, S) /\ Permutes(Swapped(idxs, Top.i, Top.j), d)
  <2> HIDE DEF S
  <2> QED BY <1>2, <1>3, SwapInside
<1>5. f \in Frames /\ Partitioned(d, f)
  BY <1>1, <1>2, PassGoesOn
<1>6. /\ f.pc = "scan" /\ f.left = Top.left /\ f.right = Top.right
      /\ f.k = Top.k /\ f.axis = Top.axis
  BY <1>1, <1>2 DEF Frames
<1> HIDE DEF d, f
<1>7. FrameIn(f, Head(todo))
  BY <1>1, <1>2, <1>6 DEF FrameIn
<1>8. Len(calls) = 1 => Bounded(d, f, Head(todo))
  <2>1. ASSUME Len(calls) = 1 PROVE Bounded(d, Top, Head(todo))
    <3>1. Bounded(coords, Top, Head(todo)) /\ Head(todo) \in Slices
      BY <1>1, <2>1, AtTop
    <3> HIDE DEF S
    <3> QED BY <1>2, <1>4, <3>1, BoundedKept DEF S
  <2> QED BY <1>6, <2>1 DEF Bounded
<1>9. Top.left <= f.left /\ f.right <= Top.right
  BY <1>2, <1>6 DEF Pos
<1>10. Permutes(idxs, coords)'
  BY <1>1, <1>4 DEF Permutes
<1> HIDE DEF S
<1> QED BY <1>1, <1>2, <1>4, <1>5, <1>6, <1>7, <1>8, <1>9, <1>10, SelectStep DEF S

\* t goes home, and the range is narrowed.
LEMMA SelectNarrowInv == SortInv /\ SelectNarrow => SortInv'
<1> SUFFICES ASSUME SortInv, SelectNarrow PROVE SortInv'
  OBVIOUS
<1> DEFINE home == Home(coords, Top)
           S == Top.left..Top.right
           d == IF coords[Top.left][Top.axis] = Top.t
                THEN Swapped(coords, Top.left, home) ELSE Swapped(coords, home, Top.right)
           f == [Top EXCEPT !.pc = "loop",
                            !.left = IF home <= Top.k THEN home + 1 ELSE Top.left,
                            !.right = IF Top.k <= home THEN home - 1 ELSE Top.right]
<1>1. calls # <<>> /\ Top.pc = "scan" /\ Top.i >= Top.j
      /\ UNCHANGED <<points, todo, tree>>
      /\ coords' = d /\ calls' = <<f>> \o Tail(calls)
      /\ idxs' = IF coords[Top.left][Top.axis] = Top.t
                 THEN Swapped(idxs, Top.left, home) ELSE Swapped(idxs, home, Top.right)
  BY DEF SelectNarrow, Swap, Home, Coord
<1>2. /\ Top.left \in Pos /\ Top.right \in Pos /\ Top.left < Top.right /\ S \in SUBSET Pos
      /\ coords \in Coordinates /\ Permutes(idxs, coords) /\ Head(todo) \in Slices
      /\ Top \in Frames /\ FrameIn(Top, Head(todo)) /\ Partitioned(coords, Top)
  BY <1>1, InPass, AtTop DEF SortInv, SortTypes
<1>3. /\ home \in S
      /\ d \in Coordinates /\ Rearranged(coords, d, S)
      /\ \A n \in Top.left..home - 1 : d[n][Top.axis] <= d[home][Top.axis]
      /\ \A n \in home + 1..Top.right : d[n][Top.axis] >= d[home][Top.axis]
  <2> HIDE DEF home
  <2> QED BY <1>1, <1>2, PassEnds DEF home
<1>4. Permutes(idxs, coords)'
  <2>1. Top.left \in S /\ Top.right \in S
    BY <1>2 DEF Pos
  <2>2. /\ Permutes(Swapped(idxs, Top.left, home), Swapped(coords, Top.left, home))
        /\ Permutes(Swapped(idxs, home, Top.right), Swapped(coords, home, Top.right))
    <3> HIDE DEF S, home
    <3> QED BY <1>2, <1>3, <2>1, SwapInside
  <2>3. Permutes(idxs', coords')
    <3> HIDE DEF home
    <3> QED BY <1>1, <2>2
  <2> HIDE DEF d, f, S, home
  <2> QED BY <1>1, <2>3 DEF Permutes
<1>5. /\ f \in Frames /\ FrameIn(f, Head(todo)) /\ f.pc = "loop"
      /\ Top.left <= f.left /\ f.right <= Top.right
      /\ f.left = IF home <= Top.k THEN home + 1 ELSE Top.left
      /\ f.right = IF Top.k <= home THEN home - 1 ELSE Top.right
  <2>1. home \in Top.left..Top.right /\ Top.pc # "loop"
    <3> HIDE DEF home
    <3> QED BY <1>1, <1>3
  <2> HIDE DEF home
  <2>2. f = Narrowed(Top, home)
    BY DEF Narrowed
  <2> HIDE DEF f
  <2> QED BY ONLY <1>2, <2>1, <2>2, PassNarrows
<1> HIDE DEF d, f, home
<1>6. Len(calls) = 1 => Bounded(d, f, Head(todo))
  <2> SUFFICES ASSUME Len(calls) = 1 PROVE Bounded(d, f, Head(todo))
    OBVIOUS
  <2>1. Bounded(coords, Top, Head(todo))
    BY <1>1, AtTop
  <2>2. Bounded(d, Top, Head(todo))
    <3> HIDE DEF S
    <3> QED BY <1>2, <1>3, <2>1, BoundedKept DEF S
  <2>3. Top.axis = Head(todo).axis
    BY <1>2 DEF FrameIn
  <2> QED BY <1>2, <1>3, <1>5, <2>2, <2>3, PassBounds
<1> HIDE DEF S
<1> QED BY <1>1, <1>2, <1>3, <1>4, <1>5, <1>6, SelectStep DEF S

\* The sample is a part of the range around the median.
LEMMA SelectSampleInv == SortInv /\ SelectSample => SortInv'
<1> SUFFICES ASSUME SortInv, SelectSample PROVE SortInv'
  OBVIOUS
<1>1. /\ calls # <<>> /\ Top.pc = "loop" /\ Top.right - Top.left > SampleAbove
      /\ UNCHANGED <<points, idxs, coords, todo, tree>>
  BY DEF SelectSample
<1>2. PICK newLeft \in Top.left..Top.k, newRight \in Top.k..Top.right :
        calls' = <<[Top EXCEPT !.left = newLeft, !.right = newRight],
                   [Top EXCEPT !.pc = "pass"]>> \o Tail(calls)
  BY DEF SelectSample
<1> DEFINE r == Head(todo)
           f == [Top EXCEPT !.left = newLeft, !.right = newRight]
           g == [Top EXCEPT !.pc = "pass"]
           L == Len(calls)
<1>3. /\ calls \in Seq(Frames) /\ Top \in Frames /\ FrameIn(Top, r) /\ Top = calls[1]
      /\ L \in Nat /\ L >= 1 /\ DOMAIN calls = 1..L
      /\ Bounded(coords, Outermost, r) /\ Selecting
      /\ L = 1 => Outermost = Top
  BY <1>1, AtTop DEF SortInv
<1>4. /\ Top.left \in 0..N /\ Top.right \in -1..N-1 /\ Top.k \in Pos
      /\ Top.left <= Top.k /\ Top.k <= Top.right
      /\ newLeft \in Int /\ newRight \in Int
      /\ Top.left <= newLeft /\ newLeft <= Top.k /\ Top.k <= newRight /\ newRight <= Top.right
  <2>1. Top.left \in 0..N /\ Top.right \in -1..N-1 /\ Top.k \in Pos
    BY <1>3 DEF Frames
  <2>2. Top.left < Top.right
    BY <1>1, <2>1, TreeAssumption, SortAssumption
  <2> QED BY <1>1, <1>3, <2>1, <2>2, TreeAssumption, InPass DEF Pos
<1>5. /\ f \in Frames /\ FrameIn(f, r) /\ f.pc = "loop" /\ f.left = newLeft /\ f.right = newRight
      /\ g \in Frames /\ FrameIn(g, r) /\ g.pc = "pass" /\ g.left = Top.left /\ g.right = Top.right
  <2>1. newLeft \in 0..N /\ newRight \in -1..N-1 /\ Top.left < Top.right
    BY <1>1, <1>4, TreeAssumption, SortAssumption DEF Pos
  <2>2. /\ f \in Frames /\ f.pc = "loop" /\ f.left = newLeft /\ f.right = newRight
        /\ f.k = Top.k /\ f.axis = Top.axis
    BY <1>1, <1>3, <2>1 DEF Frames
  <2>3. /\ g \in Frames /\ g.pc = "pass" /\ g.left = Top.left /\ g.right = Top.right
        /\ g.k = Top.k /\ g.axis = Top.axis
    BY <1>3 DEF Frames
  <2>4. r.left \in Int /\ r.right \in Int
    <3>1. r \in Slices
      BY <1>1, AtTop
    <3> HIDE DEF r
    <3> QED BY <3>1, TreeAssumption DEF Slices, Ranges
  <2> HIDE DEF f, g
  <2>5. r.left <= Top.left /\ Top.right <= r.right
    BY <1>3 DEF FrameIn
  <2>6. r.left <= newLeft /\ newRight <= r.right
    <3> HIDE DEF r
    <3> QED BY <1>4, <2>4, <2>5
  <2>7. FrameIn(f, r)
    BY <1>3, <1>4, <2>2, <2>6 DEF FrameIn
  <2>8. FrameIn(g, r)
    BY <1>3, <1>4, <2>1, <2>3 DEF FrameIn
  <2> QED BY <2>2, <2>3, <2>7, <2>8
<1>6. calls' = <<f, g>> \o Tail(calls)
  BY <1>2
<1> HIDE DEF f, g
<1>7. /\ calls' \in Seq(Frames) /\ Len(calls') = L + 1 /\ DOMAIN calls' = 1..L + 1
      /\ calls'[1] = f /\ calls'[2] = g
      /\ \A n \in 3..L + 1 : n - 1 \in 2..L /\ calls'[n] = calls[n - 1]
  <2>1. /\ Tail(calls) \in Seq(Frames) /\ Len(Tail(calls)) = L - 1
        /\ \A i \in 1..L - 1 : Tail(calls)[i] = calls[i + 1]
    BY <1>1, <1>3, HeadTailProperties
  <2>2. <<f, g>> \in Seq(Frames) /\ Len(<<f, g>>) = 2 /\ <<f, g>>[1] = f /\ <<f, g>>[2] = g
    BY <1>5
  <2>3. /\ calls' \in Seq(Frames) /\ Len(calls') = L + 1
        /\ \A i \in 1..L + 1 : calls'[i] = IF i <= 2 THEN <<f, g>>[i] ELSE Tail(calls)[i - 2]
    <3>1. /\ calls' \in Seq(Frames) /\ Len(calls') = Len(<<f, g>>) + Len(Tail(calls))
          /\ \A i \in 1..Len(<<f, g>>) + Len(Tail(calls)) :
                calls'[i] = IF i <= Len(<<f, g>>) THEN <<f, g>>[i]
                                                  ELSE Tail(calls)[i - Len(<<f, g>>)]
      BY <1>6, <2>1, <2>2, ConcatProperties
    <3> HIDE DEF L
    <3> QED BY <1>3, <2>1, <2>2, <3>1
  <2> HIDE DEF L
  <2>4. DOMAIN calls' = 1..L + 1 /\ calls'[1] = f /\ calls'[2] = g
    BY <1>3, <2>2, <2>3
  <2>5. ASSUME NEW n \in 3..L + 1 PROVE n - 1 \in 2..L /\ calls'[n] = calls[n - 1]
    <3>1. n \in Int /\ n - 2 \in 1..L - 1 /\ ~(n <= 2) /\ n \in 1..L + 1 /\ (n - 2) + 1 = n - 1
          /\ n - 1 \in 2..L
      BY <1>3
    <3>2. calls'[n] = Tail(calls)[n - 2] /\ Tail(calls)[n - 2] = calls[(n - 2) + 1]
      BY <2>1, <2>3, <3>1
    <3> QED BY <3>1, <3>2
  <2> QED BY <2>3, <2>4, <2>5
<1>8. \A n \in DOMAIN calls' : FrameIn(calls'[n], r)
  <2> SUFFICES ASSUME NEW n \in 1..L + 1 PROVE FrameIn(calls'[n], r)
    BY <1>7
  <2>1. CASE n \in 3..L + 1
    BY <1>3, <1>7, <2>1 DEF Selecting
  <2>2. CASE n = 1 \/ n = 2
    BY <1>5, <1>7, <2>2
  <2> QED BY <1>3, <2>1, <2>2
<1>9. ASSUME NEW m \in 1..L + 1, NEW n \in 1..L + 1, m < n
      PROVE  /\ calls'[n].pc = "pass"
             /\ calls'[n].left <= calls'[m].left
             /\ calls'[m].right <= calls'[n].right
  <2>1. CASE n = 2
    <3>1. m = 1
      BY <1>9, <2>1
    <3> QED BY <1>4, <1>5, <1>7, <2>1, <3>1
  <2>2. CASE n \in 3..L + 1
    <3>1. /\ n - 1 \in 2..L /\ calls'[n] = calls[n - 1] /\ calls[n - 1] \in Frames
          /\ 1 \in DOMAIN calls /\ n - 1 \in DOMAIN calls /\ 1 < n - 1
      BY <1>3, <1>7, <2>2
    <3>2. /\ calls[n - 1].pc = "pass" /\ calls[n - 1].left <= Top.left
          /\ Top.right <= calls[n - 1].right
      BY <1>3, <3>1 DEF Selecting
    <3>3. calls[n - 1].left \in Int /\ calls[n - 1].right \in Int
      BY <3>1, FrameBounds
    <3>4. CASE m = 1
      <4>1. calls[n - 1].left <= newLeft /\ newRight <= calls[n - 1].right
        BY <1>4, <3>2, <3>3
      <4> QED BY <1>5, <1>7, <3>1, <3>2, <3>4, <4>1
    <3>5. CASE m = 2
      BY <1>5, <1>7, <3>1, <3>2, <3>5
    <3>6. CASE m \in 3..L + 1
      <4>1. calls'[m] = calls[m - 1] /\ m - 1 \in DOMAIN calls /\ m - 1 < n - 1
        BY <1>3, <1>7, <1>9, <2>2, <3>6
      <4> QED BY <1>3, <3>1, <4>1 DEF Selecting
    <3> QED BY <1>3, <3>4, <3>5, <3>6
  <2> QED BY <1>3, <1>9, <2>1, <2>2
<1>10. Bounded(coords, calls'[L + 1], r)
  <2>1. CASE L = 1
    <3>1. calls'[L + 1] = g
      BY <1>7, <2>1
    <3> QED BY <1>3, <1>5, <2>1, <3>1 DEF Bounded
  <2>2. CASE L > 1
    <3>1. calls'[L + 1] = calls[L]
      BY <1>3, <1>7, <2>2
    <3> QED BY <1>3, <3>1 DEF Outermost
  <2> QED BY <1>3, <2>1, <2>2
<1>11. Selecting'
  <2>1. calls'[1].pc # "scan"
    BY <1>5, <1>7
  <2> QED BY <1>1, <1>3, <1>7, <1>8, <1>9, <1>10, <2>1 DEF Selecting, Outermost, IsLeaf
<1> QED BY <1>1, <1>7, <1>11 DEF SortInv, SortTypes, Permutes, Disjoint, Due, Split

\* sort calls sselect for a range that is not a leaf.
LEMMA SortSelectInv == SortInv /\ SortSelect => SortInv'
<1> SUFFICES ASSUME SortInv, SortSelect PROVE SortInv'
  OBVIOUS
<1> DEFINE r == Head(todo)
           f == Call(r, r.left, r.right)
<1>1. /\ todo # <<>> /\ ~IsLeaf(r) /\ calls' = <<f>>
      /\ UNCHANGED <<points, idxs, coords, todo, tree>>
      /\ r \in Slices
  BY DEF SortSelect, SortInv, SortTypes
<1> HIDE DEF r
<1>2. /\ r.left \in Pos /\ r.right \in Pos /\ r.axis \in 0..1
      /\ Mid(r) \in Pos /\ r.left <= Mid(r) /\ Mid(r) < r.right
      /\ r.left \in 0..N /\ r.right \in -1..N-1
  <2>1. r.left \in 0..N /\ r.right \in -1..N-1 /\ r.axis \in 0..1 /\ r \in Ranges
    BY <1>1 DEF Slices, Ranges
  <2>2. Mid(r) \in Pos /\ r.left <= Mid(r) /\ Mid(r) < r.right
    BY <1>1, <2>1, MidInside
  <2> QED BY <2>1, <2>2, TreeAssumption DEF Pos
<1>3. /\ f \in Frames /\ f.left = r.left /\ f.right = r.right /\ f.pc = "loop"
      /\ f.k = Mid(r) /\ f.axis = r.axis
  BY <1>2 DEF Call, Frames, Pos
<1> HIDE DEF f
<1>4. FrameIn(f, r)
  <2>1. r.left <= Mid(r) /\ Mid(r) <= r.right
    BY <1>2 DEF Pos
  <2>2. r.left <= r.left /\ r.right <= r.right
    BY <1>2 DEF Pos
  <2> QED BY <1>3, <2>1, <2>2 DEF FrameIn
<1>5. Bounded(coords, f, r)
  <2>1. r.left..r.left - 1 = {} /\ r.right + 1..r.right = {}
    BY <1>2 DEF Pos
  <2> QED BY <1>3, <2>1 DEF Bounded
<1>6. calls' \in Seq(Frames) /\ DOMAIN calls' = {1} /\ calls'[1] = f /\ Len(calls') = 1
  BY <1>1, <1>3
<1>7. Selecting'
  BY <1>1, <1>3, <1>4, <1>5, <1>6 DEF Selecting, Outermost, IsLeaf, r
<1> QED BY <1>1, <1>6, <1>7 DEF SortInv, SortTypes, Permutes, Disjoint, Due, Split

\* The rest of a sequence of ranges.
LEMMA TailElements ==
  ASSUME NEW S, NEW s \in Seq(S), s # <<>>
  PROVE  /\ Tail(s) \in Seq(S)
         /\ \A n \in DOMAIN s : \/ n = 1 /\ s[n] = Head(s)
                                \/ \E m \in DOMAIN Tail(s) : s[n] = Tail(s)[m]
         /\ \A m \in DOMAIN Tail(s) : \E n \in DOMAIN s : n # 1 /\ Tail(s)[m] = s[n]
<1>1. /\ Tail(s) \in Seq(S) /\ Len(Tail(s)) = Len(s) - 1 /\ Head(s) = s[1]
      /\ \A i \in 1..Len(Tail(s)) : Tail(s)[i] = s[i + 1]
      /\ Len(s) \in Nat /\ Len(s) >= 1 /\ DOMAIN s = 1..Len(s) /\ DOMAIN Tail(s) = 1..Len(s) - 1
  BY HeadTailProperties
<1>2. ASSUME NEW n \in DOMAIN s, n # 1 PROVE \E m \in DOMAIN Tail(s) : s[n] = Tail(s)[m]
  <2>1. n - 1 \in DOMAIN Tail(s) /\ (n - 1) + 1 = n
    BY <1>1, <1>2
  <2>2. Tail(s)[n - 1] = s[n]
    BY <1>1, <2>1
  <2> QED BY <2>1, <2>2
<1>3. ASSUME NEW m \in DOMAIN Tail(s) PROVE \E n \in DOMAIN s : n # 1 /\ Tail(s)[m] = s[n]
  <2>1. m + 1 \in DOMAIN s /\ m + 1 # 1
    BY <1>1
  <2>2. Tail(s)[m] = s[m + 1]
    BY <1>1
  <2> QED BY <2>1, <2>2
<1> QED BY <1>1, <1>2, <1>3

\* A leaf stays as it is.
LEMMA SortLeafInv == SortInv /\ SortLeaf => SortInv'
<1> SUFFICES ASSUME SortInv, SortLeaf PROVE SortInv'
  OBVIOUS
<1>1. /\ calls = <<>> /\ todo # <<>> /\ IsLeaf(Head(todo)) /\ todo' = Tail(todo)
      /\ UNCHANGED <<points, idxs, coords, calls, tree>>
      /\ todo \in Seq(Slices)
  BY DEF SortLeaf, SortInv, SortTypes
<1>2. SortTypes' /\ Permutes(idxs, coords)' /\ calls' = <<>>
  BY <1>1, TailElements DEF SortInv, SortTypes, Permutes
<1>3. Disjoint(todo')
  BY <1>1, TailCovers DEF SortInv
<1>4. \A n \in DOMAIN todo' : \E m \in DOMAIN todo : todo'[n] = todo[m]
  BY <1>1, TailElements
<1>5. \A x : Due(x) => Due(x)'
  <2>1. ASSUME NEW x, NEW n \in DOMAIN todo, x = todo[n]
        PROVE  IsLeaf(x) \/ \E m \in DOMAIN todo' : x = todo'[m]
    BY <1>1, <2>1, TailElements
  <2> QED BY <1>1, <2>1 DEF Due, IsLeaf
<1>6. \A q \in tree : ~IsLeaf(q) /\ Split(q)' /\ \A n \in DOMAIN todo' : Beside(todo'[n], q)
  BY <1>1, <1>4 DEF SortInv, Split
<1>7. Due(Root)' /\ \A q \in tree' : Due(LeftHalf(q))' /\ Due(RightHalf(q))'
  BY <1>1, <1>5 DEF SortInv
<1> QED BY <1>1, <1>2, <1>3, <1>6, <1>7 DEF SortInv, Disjoint

\* sselect has come down to the median, so the range is split.
LEMMA SelectedIsSplit ==
  ASSUME SortInv, calls # <<>>, Len(calls) = 1, Top.pc = "loop", Top.right <= Top.left
  PROVE  Split(Head(todo))
<1> DEFINE r == Head(todo)
           k == Mid(r)
<1>1. /\ r \in Slices /\ ~IsLeaf(r) /\ Top \in Frames /\ FrameIn(Top, r)
      /\ Bounded(coords, Top, r) /\ coords \in Coordinates
  BY AtTop DEF SortInv, SortTypes
<1> HIDE DEF r
<1>2. /\ r \in Ranges /\ r.left \in Int /\ r.right \in Int /\ r.axis \in 0..1
      /\ Points(r) \subseteq Pos
  BY <1>1, TreeAssumption, PositionsOfRange DEF Slices, Ranges
<1>3. k \in Int /\ r.left <= k /\ k < r.right
  BY <1>1, <1>2, MidInside DEF Pos
<1> HIDE DEF k
<1>4. \/ Top.left = k /\ Top.right = k
      \/ Top.left = k + 1 /\ Top.right = k - 1
  <2>1. Top.left \in Int /\ Top.right \in Int /\ Top.k = k
    BY <1>1, FrameBounds DEF FrameIn, k
  <2>2. \/ Top.left <= k /\ k <= Top.right
        \/ Top.left = k + 1 /\ Top.right = k - 1
    BY <1>1, <2>1 DEF FrameIn
  <2> QED BY <1>3, <2>1, <2>2
<1>5. \A i \in Points(r) : coords[i][r.axis] \in Int
  BY <1>1, <1>2 DEF Coordinates
<1>6. ASSUME NEW i \in r.left..k - 1 PROVE coords[i][r.axis] <= coords[k][r.axis]
  <2>1. k \in k..r.right /\ i \in r.left..k - 1
    BY <1>2, <1>3
  <2>2. (k - 1) + 1 = k
    BY <1>3
  <2> QED BY <1>1, <1>4, <2>1, <2>2 DEF Bounded
<1>7. ASSUME NEW i \in k + 1..r.right PROVE coords[k][r.axis] <= coords[i][r.axis]
  <2>1. k \in r.left..k
    BY <1>2, <1>3
  <2>2. (k + 1) - 1 = k
    BY <1>3
  <2> QED BY <1>1, <1>4, <2>1, <2>2 DEF Bounded
<1>8. /\ k \in Points(r)
      /\ \A i \in k + 1..r.right : i \in Points(r)
  BY <1>2, <1>3 DEF Points
<1>9. \A i \in k + 1..r.right : coords[i][r.axis] >= coords[k][r.axis]
  BY <1>5, <1>7, <1>8
<1> QED BY <1>6, <1>9 DEF Split, k, r

\* The halves lie on the two sides of the median, inside the range.
LEMMA HalvesInside ==
  ASSUME NEW r \in Slices, ~IsLeaf(r)
  PROVE  /\ LeftHalf(r) \in Slices /\ RightHalf(r) \in Slices
         /\ Points(LeftHalf(r)) = r.left..Mid(r) - 1
         /\ Points(RightHalf(r)) = Mid(r) + 1..r.right
         /\ Points(LeftHalf(r)) \subseteq Points(r) /\ Points(RightHalf(r)) \subseteq Points(r)
         /\ Points(LeftHalf(r)) \cap Points(RightHalf(r)) = {}
<1>1. r \in Ranges /\ r.left \in Int /\ r.right \in Int
  BY TreeAssumption DEF Slices, Ranges
<1>2. Mid(r) \in Pos /\ r.left <= Mid(r) /\ Mid(r) < r.right
      /\ LeftHalf(r) \in Ranges /\ RightHalf(r) \in Ranges
  BY <1>1, MidInside
<1>3. /\ LeftHalf(r).left = r.left /\ LeftHalf(r).right = Mid(r) - 1
      /\ RightHalf(r).left = Mid(r) + 1 /\ RightHalf(r).right = r.right
  BY DEF LeftHalf, RightHalf, Span
<1>4. LeftHalf(r) \in Slices /\ RightHalf(r) \in Slices
  BY <1>1, <1>2, <1>3 DEF Slices, Pos
<1>5. /\ Points(LeftHalf(r)) = r.left..Mid(r) - 1 /\ Points(RightHalf(r)) = Mid(r) + 1..r.right
      /\ Points(r) = r.left..r.right /\ Mid(r) \in Int
  BY <1>2, <1>3 DEF Points, Pos
<1>6. /\ \A i \in r.left..Mid(r) - 1 : i \in r.left..r.right /\ i \notin Mid(r) + 1..r.right
      /\ \A i \in Mid(r) + 1..r.right : i \in r.left..r.right
  BY <1>1, <1>2, <1>5
<1> QED BY <1>4, <1>5, <1>6

\* The range that has been split joins the tree, and its halves take its place.
LEMMA OutermostReturns ==
  ASSUME SortInv, SelectReturn, Len(calls) = 1
  PROVE  SortInv'
<1> DEFINE r    == Head(todo)
           rest == Tail(todo)
           both == <<LeftHalf(r), RightHalf(r)>>
<1>1. /\ calls # <<>> /\ Top.pc = "loop" /\ Top.right <= Top.left /\ calls' = Tail(calls)
      /\ tree' = tree \union {r} /\ todo' = both \o rest
      /\ UNCHANGED <<points, idxs, coords>>
  BY DEF SelectReturn
<1>2. /\ r \in Slices /\ ~IsLeaf(r) /\ todo # <<>> /\ todo \in Seq(Slices) /\ tree \subseteq Slices
      /\ Split(r) /\ Disjoint(todo) /\ calls \in Seq(Frames)
  BY <1>1, AtTop, SelectedIsSplit DEF SortInv, SortTypes
<1>3. calls' = <<>>
  BY <1>1, <1>2
<1>4. /\ LeftHalf(r) \in Slices /\ RightHalf(r) \in Slices
      /\ Points(LeftHalf(r)) = r.left..Mid(r) - 1
      /\ Points(RightHalf(r)) = Mid(r) + 1..r.right
      /\ Points(LeftHalf(r)) \subseteq Points(r) /\ Points(RightHalf(r)) \subseteq Points(r)
      /\ Points(LeftHalf(r)) \cap Points(RightHalf(r)) = {}
  <2> HIDE DEF r
  <2> QED BY <1>2, HalvesInside
<1>5. /\ rest \in Seq(Slices)
      /\ \A n \in DOMAIN todo : \/ n = 1 /\ todo[n] = r
                                \/ \E m \in DOMAIN rest : todo[n] = rest[m]
      /\ \A m \in DOMAIN rest : \E n \in DOMAIN todo : n # 1 /\ rest[m] = todo[n]
  BY <1>2, TailElements
<1>6. Points(r) \cap Covered(rest) = {} /\ Disjoint(rest)
  BY <1>2, TailCovers
<1> HIDE DEF r, rest
<1>7. /\ both \in Seq(Slices) /\ DOMAIN both = 1..2 /\ Len(both) = 2
      /\ both[1] = LeftHalf(r) /\ both[2] = RightHalf(r)
  BY <1>4
<1>8. Covered(both) = Points(LeftHalf(r)) \union Points(RightHalf(r)) /\ Disjoint(both)
  <2> HIDE DEF both
  <2>1. \A n \in DOMAIN both : n = 1 \/ n = 2
    BY <1>7
  <2>2. Covered(both) = Points(LeftHalf(r)) \union Points(RightHalf(r))
    BY <1>7, <2>1 DEF Covered
  <2>3. Disjoint(both)
    BY <1>4, <1>7, <2>1 DEF Disjoint
  <2> QED BY <2>2, <2>3
<1> HIDE DEF both
<1>9. Disjoint(todo') /\ todo' \in Seq(Slices)
  <2>1. Covered(both) \cap Covered(rest) = {}
    BY <1>4, <1>6, <1>8
  <2> QED BY <1>1, <1>5, <1>6, <1>7, <1>8, <2>1, ConcatCovers, ConcatProperties
<1>10. /\ \A i \in DOMAIN todo' : \/ todo'[i] = LeftHalf(r) \/ todo'[i] = RightHalf(r)
                                  \/ \E m \in DOMAIN rest : todo'[i] = rest[m]
       /\ \E i \in DOMAIN todo' : todo'[i] = LeftHalf(r)
       /\ \E i \in DOMAIN todo' : todo'[i] = RightHalf(r)
       /\ \A m \in DOMAIN rest : \E i \in DOMAIN todo' : todo'[i] = rest[m]
  <2> DEFINE u == both \o rest
  <2>1. /\ Len(u) = 2 + Len(rest) /\ u \in Seq(Slices) /\ Len(rest) \in Nat
        /\ DOMAIN rest = 1..Len(rest)
        /\ \A i \in 1..2 + Len(rest) : u[i] = IF i <= 2 THEN both[i] ELSE rest[i - 2]
    <3>1. rest \in Seq(Slices) /\ both \in Seq(Slices) /\ Len(both) = 2
      BY <1>5, <1>7
    <3>2. Len(rest) \in Nat /\ DOMAIN rest = 1..Len(rest)
      BY <3>1
    <3>3. /\ Len(u) = Len(both) + Len(rest) /\ u \in Seq(Slices)
          /\ \A i \in 1..Len(both) + Len(rest) :
                u[i] = IF i <= Len(both) THEN both[i] ELSE rest[i - Len(both)]
      BY <3>1, ConcatProperties
    <3> HIDE DEF u
    <3> QED
      BY <3>1, <3>2, <3>3
  <2> HIDE DEF u
  <2>2. DOMAIN u = 1..2 + Len(rest)
    BY <2>1
  <2>3. u[1] = LeftHalf(r) /\ u[2] = RightHalf(r)
    BY <1>7, <2>1
  <2>4. ASSUME NEW i \in DOMAIN u, i # 1, i # 2 PROVE i - 2 \in DOMAIN rest /\ u[i] = rest[i - 2]
    BY <2>1, <2>2, <2>4
  <2>5. ASSUME NEW m \in DOMAIN rest PROVE m + 2 \in DOMAIN u /\ u[m + 2] = rest[m]
    <3>1. m + 2 \in 1..2 + Len(rest) /\ ~(m + 2 <= 2) /\ (m + 2) - 2 = m
      BY <2>1
    <3> QED BY <2>1, <2>2, <3>1
  <2>6. 1 \in DOMAIN u /\ 2 \in DOMAIN u
    BY <2>1, <2>2
  <2>7. todo' = u
    BY <1>1 DEF u
  <2> QED BY <2>3, <2>4, <2>5, <2>6, <2>7
<1>11. SortTypes' /\ Permutes(idxs, coords)'
  BY <1>1, <1>2, <1>3, <1>9 DEF SortInv, SortTypes, Permutes
<1>12. ASSUME NEW q \in tree, NEW i \in DOMAIN todo' PROVE Beside(todo'[i], q)
  <2>1. /\ \A n \in DOMAIN todo : Beside(todo[n], q)
        /\ Beside(r, q)
    BY <1>2 DEF SortInv, r
  <2>2. CASE \E m \in DOMAIN rest : todo'[i] = rest[m]
    BY <1>5, <2>1, <2>2
  <2>3. CASE todo'[i] = LeftHalf(r) \/ todo'[i] = RightHalf(r)
    <3>1. Points(todo'[i]) \subseteq Points(r)
      BY <1>4, <2>3
    <3> QED BY <2>1, <3>1 DEF Beside
  <2> QED BY <1>10, <2>2, <2>3
<1>13. ASSUME NEW i \in DOMAIN todo' PROVE Beside(todo'[i], r)
  <2>1. CASE \E m \in DOMAIN rest : todo'[i] = rest[m]
    <3>1. Points(todo'[i]) \subseteq Covered(rest)
      BY <2>1 DEF Covered
    <3> QED BY <1>6, <3>1 DEF Beside
  <2>2. CASE todo'[i] = LeftHalf(r) \/ todo'[i] = RightHalf(r)
    BY <1>4, <2>2 DEF Beside
  <2> QED BY <1>10, <2>1, <2>2
<1>14. \A q \in tree' : ~IsLeaf(q) /\ Split(q)' /\ \A n \in DOMAIN todo' : Beside(todo'[n], q)
  <2>1. \A q : Split(q)' <=> Split(q)
    BY <1>1 DEF Split
  <2> QED BY <1>1, <1>2, <1>12, <1>13, <2>1 DEF SortInv
<1>15. ASSUME NEW x, Due(x) PROVE Due(x)'
  <2>1. CASE x \in {todo[n] : n \in DOMAIN todo}
    <3>1. x = r \/ \E m \in DOMAIN rest : x = rest[m]
      BY <1>5, <2>1
    <3>2. x \in tree' \/ \E i \in DOMAIN todo' : x = todo'[i]
      BY <1>1, <1>10, <3>1
    <3> QED BY <3>2 DEF Due
  <2> QED BY <1>1, <1>15, <2>1 DEF Due, IsLeaf
<1>16. ASSUME NEW x, x = LeftHalf(r) \/ x = RightHalf(r) PROVE Due(x)'
  <2>1. \E i \in DOMAIN todo' : todo'[i] = x
    BY <1>10, <1>16
  <2> QED BY <2>1 DEF Due
<1>17. ASSUME NEW q \in tree' PROVE Due(LeftHalf(q))' /\ Due(RightHalf(q))'
  <2>1. CASE q \in tree
    <3>1. Due(LeftHalf(q)) /\ Due(RightHalf(q))
      BY <2>1 DEF SortInv
    <3> QED BY <1>15, <3>1
  <2>2. CASE q = r
    BY <1>16, <2>2
  <2> QED BY <1>1, <2>1, <2>2
<1>18. Due(Root)'
  BY <1>15 DEF SortInv
<1> QED BY <1>3, <1>9, <1>11, <1>14, <1>17, <1>18 DEF SortInv, Disjoint

\* The sample has been selected, and the call around it goes on with its pass.
LEMMA SampleReturns ==
  ASSUME SortInv, SelectReturn, Len(calls) # 1
  PROVE  SortInv'
<1> DEFINE r == Head(todo)
           L == Len(calls)
<1>1. /\ calls # <<>> /\ calls' = Tail(calls)
      /\ UNCHANGED <<points, idxs, coords, todo, tree>>
  BY DEF SelectReturn
<1>2. /\ calls \in Seq(Frames) /\ L \in Nat /\ L >= 2 /\ DOMAIN calls = 1..L /\ Selecting
      /\ \A n \in 1..L : FrameIn(calls[n], r)
      /\ \A m, n \in 1..L : m < n => /\ calls[n].pc = "pass"
                                    /\ calls[n].left <= calls[m].left
                                    /\ calls[m].right <= calls[n].right
  <2>1. calls \in Seq(Frames) /\ L \in Nat /\ L >= 1 /\ L # 1
    BY <1>1, AtTop
  <2>2. Selecting
    BY <1>1 DEF SortInv
  <2>3. DOMAIN calls = 1..L
    BY <2>1
  <2> HIDE DEF L
  <2> QED BY <2>1, <2>2, <2>3 DEF Selecting
<1>3. /\ calls' \in Seq(Frames) /\ Len(calls') = L - 1 /\ DOMAIN calls' = 1..L - 1
      /\ \A i \in 1..L - 1 : calls'[i] = calls[i + 1]
  <2>1. /\ Tail(calls) \in Seq(Frames) /\ Len(Tail(calls)) = L - 1
        /\ \A i \in 1..Len(Tail(calls)) : Tail(calls)[i] = calls[i + 1]
    BY <1>1, <1>2, HeadTailProperties
  <2> HIDE DEF L
  <2> QED BY <1>1, <1>2, <2>1
<1> HIDE DEF L
<1>4. ASSUME NEW n \in DOMAIN calls' PROVE FrameIn(calls'[n], r)
  <2>1. n + 1 \in 1..L /\ calls'[n] = calls[n + 1]
    BY <1>2, <1>3
  <2> QED BY <1>2, <2>1
<1>5. ASSUME NEW m \in DOMAIN calls', NEW n \in DOMAIN calls', m < n
      PROVE  /\ calls'[n].pc = "pass"
             /\ calls'[n].left <= calls'[m].left
             /\ calls'[m].right <= calls'[n].right
  <2>1. /\ m + 1 \in 1..L /\ n + 1 \in 1..L /\ m + 1 < n + 1
        /\ calls'[m] = calls[m + 1] /\ calls'[n] = calls[n + 1]
    BY <1>2, <1>3, <1>5
  <2> QED BY <1>2, <2>1
<1>6. calls'[1].pc = "pass"
  <2>1. 1 \in 1..L /\ 2 \in 1..L /\ 1 < 2 /\ calls'[1] = calls[2]
    BY <1>2, <1>3
  <2> QED BY <1>2, <2>1
<1>7. Bounded(coords, calls'[L - 1], r)
  <2>1. calls'[L - 1] = calls[(L - 1) + 1] /\ (L - 1) + 1 = L
    BY <1>2, <1>3
  <2> QED BY <1>2, <2>1 DEF Selecting, Outermost, L
<1>8. Selecting'
  BY <1>1, <1>2, <1>3, <1>4, <1>5, <1>6, <1>7 DEF Selecting, Outermost, IsLeaf
<1> QED BY <1>1, <1>3, <1>8 DEF SortInv, SortTypes, Permutes, Disjoint, Due, Split

LEMMA SelectReturnInv == SortInv /\ SelectReturn => SortInv'
BY OutermostReturns, SampleReturns

\* A query leaves the arrays alone.
LEMMA UnchangedInv == SortInv /\ UNCHANGED sortVars => SortInv'
BY DEF SortInv, SortTypes, Permutes, Selecting, Outermost, Disjoint, Due, Split, sortVars, IsLeaf

\* The points in the order of the caller, and nothing sorted yet.
LEMMA InitInv == SortInit => SortInv
<1> SUFFICES ASSUME SortInit PROVE SortInv
  OBVIOUS
<1>1. points \in Coordinates /\ coords = points /\ todo = <<Root>> /\ calls = <<>> /\ tree = {}
      /\ idxs = [i \in Pos |-> i]
  BY SortAssumption DEF SortInit, Coordinates
<1>2. Root \in Slices
  BY RootIsRange, TreeAssumption DEF Slices, Root, Span
<1>3. todo \in Seq(Slices) /\ Disjoint(todo)
  BY <1>1, <1>2, OneCovers
<1>4. Permutes(idxs, coords)
  BY <1>1 DEF Permutes
<1>5. Due(Root)
  <2>1. 1 \in DOMAIN todo /\ todo[1] = Root
    BY <1>1
  <2> QED BY <2>1 DEF Due
<1> QED BY <1>1, <1>3, <1>4, <1>5 DEF SortInv, SortTypes

\* Every step of sort.
LEMMA SortNextInv == SortInv /\ SortNext => SortInv'
BY SortLeafInv, SortSelectInv, SelectReturnInv, SelectSampleInv, SelectPassInv, SelectSwapInv,
   SelectNarrowInv DEF SortNext

-----------------------------------------------------------------------------
(* Sorting first, then queries.                                            *)

\* Until sort is done nobody asks, and then the walks are those of KdQuery.
BushInv ==
  /\ SortInv
  /\ query \in Queries \union {NoQuery}
  /\ QueryInit \/ (Sorted /\ IInv)

\* When sort returns, no range is left that it should have split.
LEMMA SortedIsBuilt == SortInv /\ Sorted => Built
<1> SUFFICES ASSUME SortInv, Sorted PROVE Built
  OBVIOUS
<1>1. \A x : Due(x) => IsLeaf(x) \/ x \in tree
  BY DEF Sorted, Due
<1>2. Grown(tree)
  <2> SUFFICES ASSUME NEW r \in tree \union {Root}, ~IsLeaf(r)
               PROVE  r \in tree /\ \A half \in {LeftHalf(r), RightHalf(r)} :
                                      IsLeaf(half) \/ half \in tree
    BY DEF Grown
  <2>1. r \in tree
    BY <1>1 DEF SortInv
  <2>2. Due(LeftHalf(r)) /\ Due(RightHalf(r))
    BY <2>1 DEF SortInv
  <2> QED BY <1>1, <2>1, <2>2
<1> QED BY <1>2 DEF Built, SortInv, SortTypes, Coordinates

\* A step of sort comes before the first query.
LEMMA BuildInv == BushInv /\ Build => BushInv'
<1> SUFFICES ASSUME BushInv, Build PROVE BushInv'
  OBVIOUS
<1>1. SortNext /\ UNCHANGED queryVars /\ SortInv'
  BY SortNextInv DEF BushInv, Build
<1>2. ~Sorted
  BY <1>1 DEF SortNext, SortLeaf, SortSelect, SelectReturn, SelectSample, SelectPass, SelectSwap,
              SelectNarrow, Sorted
<1>3. QueryInit'
  BY <1>1, <1>2 DEF BushInv, QueryInit, queryVars
<1> QED BY <1>1, <1>3 DEF BushInv, queryVars

\* A step of a query finds the tree built.
LEMMA AnswerInv == BushInv /\ Answer => BushInv'
<1> SUFFICES ASSUME BushInv, Answer PROVE BushInv'
  OBVIOUS
<1>1. Sorted /\ QueryNext /\ UNCHANGED sortVars /\ UNCHANGED <<coords, tree>>
  BY DEF Answer, sortVars
<1>2. SortInv' /\ Sorted'
  BY <1>1, UnchangedInv DEF BushInv, sortVars, Sorted
<1>3. IInv
  BY <1>1, SortedIsBuilt, InitIInv DEF BushInv
<1>4. IInv'
  BY <1>1, <1>3, AskIInv, VisitLeafIInv, VisitNodeIInv, ReturnIInv, StopIInv, ReadFailsIInv
     DEF QueryNext, Visit
<1>5. query' \in Queries \union {NoQuery}
  BY <1>1 DEF BushInv, QueryNext, Visit, Ask, VisitLeaf, VisitNode, Return, Stop, ReadFails
<1> QED BY <1>2, <1>4, <1>5 DEF BushInv

\* Neither does anything.
LEMMA RestInv == BushInv /\ UNCHANGED vars => BushInv'
<1> SUFFICES ASSUME BushInv, UNCHANGED vars PROVE BushInv'
  OBVIOUS
<1>1. UNCHANGED sortVars /\ UNCHANGED queryVars /\ UNCHANGED <<coords, tree, queryVars>>
  BY DEF vars, sortVars
<1>2. SortInv'
  BY <1>1, UnchangedInv DEF BushInv
<1>3. CASE QueryInit
  BY <1>1, <1>2, <1>3 DEF BushInv, QueryInit, queryVars
<1>4. CASE Sorted /\ IInv
  <2>1. IInv'
    BY <1>1, <1>4, StutterIInv
  <2>2. Sorted'
    BY <1>1, <1>4 DEF sortVars, Sorted
  <2> QED BY <1>1, <1>2, <2>1, <2>2 DEF BushInv, queryVars
<1> QED BY <1>3, <1>4 DEF BushInv

(* While sort is on, everything split stays split and the call on top of   *)
(* the stack holds its median between what is smaller and what is greater; *)
(* what it leaves is what every walk assumes (kdbush.go:133-221).          *)
THEOREM BushInvariant == Spec => []BushInv
<1>1. Init => BushInv
  BY InitInv DEF Init, BushInv, QueryInit
<1>2. BushInv /\ [Next]_vars => BushInv'
  BY BuildInv, AnswerInv, RestInv DEF Next
<1> QED BY <1>1, <1>2, PTL DEF Spec

(* The state of a bush keeps its types through any build and any query     *)
(* (kdbush.go:15-23).                                                      *)
THEOREM TypesHold == Spec => []TypeOK
<1>1. BushInv => TypeOK
  <2> SUFFICES ASSUME BushInv PROVE TypeOK
    OBVIOUS
  <2>1. TypeOKSort
    <3>1. ASSUME NEW n \in DOMAIN todo
          PROVE  todo[n].left \in 0..N /\ todo[n].right \in todo[n].left - 1..N - 1
      <4>1. todo[n] \in Slices
        BY DEF BushInv, SortInv, SortTypes
      <4> QED BY <4>1, TreeAssumption DEF Slices, Ranges
    <3>2. ASSUME NEW n \in DOMAIN calls PROVE calls[n].pc \in {"loop", "pass", "scan"}
      <4>1. calls[n] \in Frames
        BY DEF BushInv, SortInv, SortTypes
      <4> QED BY <4>1 DEF Frames
    <3> QED BY <3>1, <3>2 DEF TypeOKSort, BushInv, SortInv, SortTypes, Permutes, Coordinates
  <2>2. TypeOKQuery
    <3>1. CASE QueryInit
      BY <3>1 DEF QueryInit, BushInv, TypeOKQuery
    <3>2. CASE IInv
      <4>1. ASSUME NEW n \in DOMAIN stack PROVE stack[n].left \in 0..N /\ stack[n].right \in -1..N-1
        <5>1. stack[n] \in Ranges
          BY <3>2 DEF IInv, Visitable
        <5> QED BY <5>1 DEF Ranges
      <4>2. found \subseteq Pos /\ reports \in Nat
        <5>1. IsFiniteSet(Pos)
          BY FS_Interval, TreeAssumption DEF Pos
        <5>2. IsFiniteSet(found)
          BY <3>2, <5>1, FS_Subset DEF IInv
        <5> QED BY <3>2, <5>2, FS_CardinalityType DEF IInv
      <4> QED BY <3>2, <4>1, <4>2 DEF IInv, BushInv, TypeOKQuery
    <3> QED BY <3>1, <3>2 DEF BushInv
  <2> QED BY <2>1, <2>2 DEF TypeOK
<1> QED BY <1>1, BushInvariant, PTL

(* The two inner loops of sselect, which test no bound, stay in the range  *)
(* of their call, whatever the points (kdbush.go:199-204).                 *)
THEOREM ScansStayInside == Spec => []ScansStop
<1>1. BushInv => ScansStop
  <2> SUFFICES ASSUME BushInv, NEW n \in DOMAIN calls, calls[n].pc = "scan"
               PROVE  /\ calls[n].i \in calls[n].left..calls[n].right
                      /\ calls[n].j \in calls[n].left..calls[n].right
    BY DEF ScansStop
  <2>1. calls # <<>> /\ Selecting /\ calls \in Seq(Frames)
    BY DEF BushInv, SortInv, SortTypes
  <2>2. n = 1
    <3>1. n \in Nat /\ n >= 1 /\ 1 \in DOMAIN calls
      BY <2>1
    <3> QED BY <2>1, <3>1 DEF Selecting
  <2> QED BY <2>1, <2>2 DEF Selecting, Partitioned
<1> QED BY <1>1, BushInvariant, PTL

(* A range once split stays split while sort works on its halves, and sort *)
(* leaves no range longer than a leaf unsplit (kdbush.go:151-163).         *)
THEOREM SortedTreeStands == Spec => []TreeStands
<1>1. BushInv => TreeStands
  BY SortedIsBuilt DEF BushInv, SortInv, TreeStands, Built
<1> QED BY <1>1, BushInvariant, PTL

(* No walk over a tree that sort has built skips a match                   *)
(* (kdbush.go:65-75 and 117-127).                                          *)
THEOREM BushSkipsNothing == Spec => []NothingSkipped
<1>1. BushInv => NothingSkipped
  BY DEF BushInv, IInv, QueryInit, NothingSkipped
<1> QED BY <1>1, BushInvariant, PTL

(* And none reports a point twice (kdbush.go:43-61 and 93-113).            *)
THEOREM BushReportsOnce == Spec => []ReportedOnce
<1>1. BushInv => ReportedOnce
  BY FS_EmptySet DEF BushInv, IInv, QueryInit, ReportedOnce
<1> QED BY <1>1, BushInvariant, PTL

(* For every slice of points and every query that comes to its end: the    *)
(* answer is the indexes, in that slice, of the points that match, each    *)
(* reported once, although sort has moved all of them                      *)
(* (kdbush.go:29, 48, 97 and 223-227).                                     *)
THEOREM BushAnswersExactly == Spec => []AnswerIsExact
<1>1. BushInv => AnswerIsExact
  <2> SUFFICES ASSUME BushInv, outcome = "done"
               PROVE  /\ {idxs[i] : i \in found} = {p \in Pos : Matches(query, points[p])}
                      /\ reports = Cardinality({p \in Pos : Matches(query, points[p])})
    BY DEF AnswerIsExact
  <2> DEFINE P == {p \in Pos : Matches(query, points[p])}
  <2>1. IInv /\ Permutes(idxs, coords)
    BY DEF BushInv, QueryInit, SortInv
  <2>2. found = Hits(Pos) /\ found \subseteq Pos /\ reports = Cardinality(found)
    BY <2>1, OneCovers DEF IInv, NothingSkipped
  <2>3. \A i \in Pos : i \in found <=> Matches(query, points[idxs[i]])
    BY <2>1, <2>2 DEF Hits, Permutes
  <2>4. \A i \in found : i \in Pos /\ idxs[i] \in P
    BY <2>1, <2>2, <2>3 DEF Permutes
  <2>5. \A p \in P : \E i \in found : idxs[i] = p
    BY <2>1, <2>2, <2>3 DEF Permutes
  <2>6. {idxs[i] : i \in found} = P
    BY <2>4, <2>5
  <2>7. Cardinality(P) = Cardinality(found)
    <3> DEFINE f == [i \in found |-> idxs[i]]
    <3>1. f \in Bijection(found, P)
      <4>1. f \in [found -> P]
        BY <2>4
      <4>2. \A i, j \in found : f[i] = f[j] => i = j
        BY <2>1, <2>4 DEF Permutes
      <4>3. \A p \in P : \E i \in found : f[i] = p
        BY <2>5
      <4> HIDE DEF f, P
      <4> QED BY <4>1, <4>2, <4>3 DEF Bijection, Injection, IsInjective, Surjection
    <3>2. IsFiniteSet(found)
      <4>1. IsFiniteSet(Pos)
        BY FS_Interval, TreeAssumption DEF Pos
      <4> QED BY <2>2, <4>1, FS_Subset
    <3>3. ExistsBijection(found, P)
      BY <3>1 DEF ExistsBijection
    <3> HIDE DEF P
    <3> QED BY <3>2, <3>3, FS_Bijection
  <2> QED BY <2>2, <2>6, <2>7
<1> QED BY <1>1, BushInvariant, PTL
=============================================================================
