-------------------------- MODULE RangeIndexProofs --------------------------
(***************************************************************************)
(* Proofs about RangeIndex for every integer type and every set of values, *)
(* as long as callers leave the largest key alone (MaxKey \notin Keys).    *)
(*                                                                         *)
(* The argument: while segments lie apart, the scans of the B-tree find    *)
(* exactly the segment that covers a key, so a single-key write overlaps   *)
(* at most one segment; splitting it and inserting the new one keeps the   *)
(* segments apart, keeps them merged, and changes the map at that key      *)
(* only.                                                                   *)
(***************************************************************************)
EXTENDS RangeIndex, TLAPS

USE KeyAssumption

Covers(s, k) == s.Lo <= k /\ k < s.Hi

CoverSet(t, k) == {s \in t : Covers(s, k)}

\* The segments of t say that key k has value v.
Has(t, k, v) == \E s \in t : Covers(s, k) /\ s.Value = v

Good(t) == t \subseteq Segment /\ Apart(t)

\* A segment that lies apart from all of t.
Fits(t, seg) ==
  /\ seg \in Segment
  /\ seg.Lo < seg.Hi
  /\ \A s \in t : s.Hi <= seg.Lo \/ seg.Hi <= s.Lo

\* Merged, except perhaps at the two ends of seg.
MergedBut(t, seg) ==
  \A s, r \in t : s # seg /\ r # seg /\ s.Hi = r.Lo => s.Value # r.Value

-----------------------------------------------------------------------------
(* The scans of the B-tree.                                                *)

(* findCovering's descent to the greatest Lo not above the key finds the   *)
(* segment that covers the key, whenever there is one.                     *)
LEMMA CoveringExact ==
  ASSUME NEW t, Good(t), NEW k \in Int
  PROVE  FindCovering(t, k) = CoverSet(t, k)
<1>1. ASSUME NEW s \in t, Covers(s, k)
      PROVE  s \in FindCovering(t, k)
  <2>1. ASSUME NEW x \in t, x.Lo <= k
        PROVE  x.Lo <= s.Lo
    BY <1>1, <2>1 DEF Good, Apart, Segment, Key, Covers
  <2>2. QED
    BY <1>1, <2>1 DEF FindCovering, Last, Covers
<1>2. ASSUME NEW s \in FindCovering(t, k)
      PROVE  s \in t /\ Covers(s, k)
  BY <1>2 DEF FindCovering, Last, Covers
<1>3. QED
  BY <1>1, <1>2 DEF CoverSet, FindCovering

(* Two segments that cover the same key are the same segment.              *)
LEMMA CoverUnique ==
  ASSUME NEW t, Good(t), NEW k \in Int,
         NEW s \in t, Covers(s, k), NEW r \in t, Covers(r, k)
  PROVE  s = r
BY DEF Good, Apart, Segment, Key, Covers

(* What Get answers, in terms of the segments that cover the key.          *)
LEMMA LookupCovered ==
  ASSUME NEW t, Good(t), NEW k \in Int, NEW s \in t, Covers(s, k)
  PROVE  Lookup(t, k) = s.Value
<1>1. FindCovering(t, k) = {s}
  BY CoveringExact, CoverUnique DEF CoverSet
<1>2. TheSeg({s}) = s
  BY DEF TheSeg
<1>3. QED
  BY <1>1, <1>2 DEF Lookup

LEMMA LookupUncovered ==
  ASSUME NEW t, Good(t), NEW k \in Int, CoverSet(t, k) = {}
  PROVE  Lookup(t, k) = Absent
BY CoveringExact DEF Lookup

(* A single-key write overlaps exactly the segments that cover the key.    *)
LEMMA OverlappingExact ==
  ASSUME NEW t, Good(t), NEW k \in Int
  PROVE  FindOverlapping(t, k, k + 1) = CoverSet(t, k)
<1>1. {s \in t : k <= s.Lo /\ s.Lo < k + 1} \subseteq CoverSet(t, k)
  BY DEF Good, Apart, Segment, Key, Covers, CoverSet
<1>2. {s \in Last({x \in t : x.Lo <= k}) : s.Hi > k} = FindCovering(t, k)
  BY DEF FindCovering, Good, Last, Segment, Key
<1>3. QED
  BY <1>1, <1>2, CoveringExact DEF FindOverlapping
-----------------------------------------------------------------------------
(* mergeNeighbors.                                                         *)

(* Replacing two touching segments of equal value by one changes no key.   *)
LEMMA Fuse ==
  ASSUME NEW t, Good(t), NEW l \in t, NEW r \in t,
         l.Hi = r.Lo, l.Value = r.Value,
         NEW wide, wide = Seg(l.Lo, r.Hi, r.Value),
         NEW u, u = Put(t \ {l, r}, wide)
  PROVE  /\ u = (t \ {l, r}) \union {wide}
         /\ Good(u)
         /\ \A k \in Int : \A v : Has(u, k, v) <=> Has(t, k, v)
<1> USE DEF Segment, Key
<1>1. /\ wide \in Segment
      /\ wide.Lo = l.Lo /\ wide.Hi = r.Hi /\ wide.Value = r.Value
      /\ wide.Lo < wide.Hi
  BY DEF Good, Apart, Seg
<1>2. \A s \in t \ {l, r} : s.Hi <= wide.Lo \/ wide.Hi <= s.Lo
  BY <1>1 DEF Good, Apart
<1>3. u = (t \ {l, r}) \union {wide}
  BY <1>1, <1>2 DEF Put, Good, Apart
<1>4. Good(u)
  BY <1>1, <1>2, <1>3 DEF Good, Apart
<1>5. ASSUME NEW k \in Int, NEW v
      PROVE  Has(u, k, v) <=> Has(t, k, v)
  <2>1. Covers(wide, k) <=> Covers(l, k) \/ Covers(r, k)
    BY <1>1 DEF Covers, Good, Apart
  <2>2. QED
    BY <1>1, <1>3, <2>1 DEF Has
<1>6. QED
  BY <1>3, <1>4, <1>5

(* The left neighbour, where there is one to merge with, is the segment    *)
(* that ends where seg begins.                                             *)
LEMMA LeftExact ==
  ASSUME NEW t, Good(t), NEW seg \in t
  PROVE  {l \in Last({s \in t : s.Lo < seg.Lo}) : l.Hi = seg.Lo /\ l.Value = seg.Value}
           = {l \in t : l.Hi = seg.Lo /\ l.Value = seg.Value}
<1>1. ASSUME NEW l \in t, l.Hi = seg.Lo
      PROVE  l \in Last({s \in t : s.Lo < seg.Lo})
  <2>1. l.Lo < seg.Lo
    BY <1>1 DEF Good, Apart, Segment, Key
  <2>2. ASSUME NEW s \in t, s.Lo < seg.Lo
        PROVE  s.Lo <= l.Lo
    BY <1>1, <2>2 DEF Good, Apart, Segment, Key
  <2>3. QED
    BY <2>1, <2>2 DEF Last
<1>2. QED
  BY <1>1 DEF Last

LEMMA RightExact ==
  ASSUME NEW t, Good(t), NEW seg \in t
  PROVE  {r \in First({s \in t : s.Lo >= seg.Hi}) : r.Lo = seg.Hi /\ r.Value = seg.Value}
           = {r \in t : r.Lo = seg.Hi /\ r.Value = seg.Value}
BY DEF First, Good, Segment, Key

(* After the left merge no segment that ends where the new segment begins  *)
(* has its value.                                                          *)
LEMMA MergeLeftCorrect ==
  ASSUME NEW t, Good(t), NEW seg \in t, MergedBut(t, seg),
         NEW u, NEW w, MergeLeft(t, seg) = [tree |-> u, seg |-> w]
  PROVE  /\ Good(u)
         /\ w \in u
         /\ MergedBut(u, w)
         /\ \A s \in u : s.Hi = w.Lo => s.Value # w.Value
         /\ \A k \in Int : \A v : Has(u, k, v) <=> Has(t, k, v)
<1> DEFINE left == {l \in t : l.Hi = seg.Lo /\ l.Value = seg.Value}
           wide == Seg(TheSeg(left).Lo, seg.Hi, seg.Value)
<1>1. /\ left = {} => u = t /\ w = seg
      /\ left # {} => u = Put(t \ (left \union {seg}), wide) /\ w = wide
  <2> DEFINE scan == {l \in Last({s \in t : s.Lo < seg.Lo}) :
                        l.Hi = seg.Lo /\ l.Value = seg.Value}
  <2>1. scan = left
    BY LeftExact
  <2>2. [tree |-> u, seg |-> w] =
          IF scan = {}
          THEN [tree |-> t, seg |-> seg]
          ELSE [tree |-> Put(t \ (scan \union {seg}),
                             Seg(TheSeg(scan).Lo, seg.Hi, seg.Value)),
                seg  |-> Seg(TheSeg(scan).Lo, seg.Hi, seg.Value)]
    BY DEF MergeLeft
  <2> HIDE DEF scan, left
  <2>3. QED
    BY <2>1, <2>2
<1>2. CASE left = {}
  <2>1. u = t /\ w = seg
    BY <1>1, <1>2
  <2>2. \A s \in t : s.Hi = seg.Lo => s.Value # seg.Value
    BY <1>2
  <2>3. QED
    BY <2>1, <2>2
<1>3. CASE left # {}
  <2>1. PICK l \in left : TRUE
    BY <1>3
  <2>2. left = {l}
    <3>1. ASSUME NEW x \in t, x.Hi = seg.Lo, l.Hi = seg.Lo, l \in t
          PROVE  x = l
      BY <3>1 DEF Good, Apart, Segment, Key
    <3>2. QED
      BY <2>1, <3>1
  <2>3. TheSeg(left) = l
    BY <2>2 DEF TheSeg
  <2>4. /\ l \in t /\ l.Hi = seg.Lo /\ l.Value = seg.Value
        /\ u = Put(t \ {l, seg}, wide)
        /\ w = wide
        /\ wide = Seg(l.Lo, seg.Hi, seg.Value)
    <3>1. left \union {seg} = {l, seg}
      BY <2>2
    <3>2. QED
      BY <1>1, <1>3, <2>1, <2>3, <3>1
  <2> HIDE DEF wide, left
  <2>5. /\ u = (t \ {l, seg}) \union {wide}
        /\ Good(u)
        /\ \A k \in Int : \A v : Has(u, k, v) <=> Has(t, k, v)
    BY <2>4, Fuse, Z3
  <2>6. MergedBut(u, w)
    BY <2>4, <2>5 DEF MergedBut
  <2>7. wide.Lo = l.Lo /\ wide.Hi = seg.Hi /\ wide.Value = l.Value
    BY <2>4 DEF Seg
  <2>8. ASSUME NEW s \in u, s.Hi = w.Lo
        PROVE  s.Value # w.Value
    <3>1. l \in t /\ l # seg
      BY <2>4 DEF Good, Apart, Segment, Key
    <3>2. s # wide
      BY <2>4, <2>5, <2>7, <2>8 DEF Good, Apart, Segment, Key
    <3>3. s \in t /\ s # seg /\ s.Hi = l.Lo
      BY <2>4, <2>5, <2>7, <2>8, <3>2
    <3>4. QED
      BY <2>4, <2>7, <3>1, <3>3 DEF MergedBut
  <2>9. QED
    BY <2>4, <2>5, <2>6, <2>8
<1>4. QED
  BY <1>2, <1>3

LEMMA MergeRightCorrect ==
  ASSUME NEW t, Good(t), NEW seg \in t, MergedBut(t, seg),
         \A s \in t : s.Hi = seg.Lo => s.Value # seg.Value,
         NEW u, u = MergeRight(t, seg)
  PROVE  /\ Good(u)
         /\ Merged(u)
         /\ \A k \in Int : \A v : Has(u, k, v) <=> Has(t, k, v)
<1> DEFINE right == {r \in t : r.Lo = seg.Hi /\ r.Value = seg.Value}
           wide  == Seg(seg.Lo, TheSeg(right).Hi, seg.Value)
<1>1. u = IF right = {} THEN t ELSE Put(t \ (right \union {seg}), wide)
  BY RightExact DEF MergeRight
<1>2. CASE right = {}
  <2>1. u = t
    BY <1>1, <1>2
  <2>2. Merged(t)
    BY <1>2 DEF Merged, MergedBut
  <2>3. QED
    BY <2>1, <2>2
<1>3. CASE right # {}
  <2>1. PICK r \in right : TRUE
    BY <1>3
  <2>2. right = {r}
    BY <2>1 DEF Good, Apart, Segment, Key
  <2>3. TheSeg(right) = r
    BY <2>2 DEF TheSeg
  <2>4. /\ r \in t /\ r.Lo = seg.Hi /\ r.Value = seg.Value
        /\ wide = Seg(seg.Lo, r.Hi, r.Value)
        /\ u = Put(t \ {seg, r}, wide)
    <3>1. right \union {seg} = {seg, r}
      BY <2>2
    <3>2. QED
      BY <1>1, <1>3, <2>1, <2>3, <3>1
  <2> HIDE DEF wide, right
  <2>5. /\ u = (t \ {seg, r}) \union {wide}
        /\ Good(u)
        /\ \A k \in Int : \A v : Has(u, k, v) <=> Has(t, k, v)
    BY <2>4, Fuse
  <2>6. wide.Lo = seg.Lo /\ wide.Hi = r.Hi /\ wide.Value = r.Value
    BY <2>4 DEF Seg
  <2>7. r # seg
    BY <2>4 DEF Good, Apart, Segment, Key
  <2>8. ASSUME NEW s \in u, NEW q \in u, s.Hi = q.Lo
        PROVE  s.Value # q.Value
    <3>1. s # q
      BY <2>5, <2>8 DEF Good, Apart, Segment, Key
    <3>2. CASE s # wide /\ q # wide
      BY <2>5, <2>8, <3>2 DEF MergedBut
    <3>3. CASE q = wide
      BY <2>4, <2>5, <2>6, <2>8, <3>1, <3>3
    <3>4. CASE s = wide
      BY <2>4, <2>5, <2>6, <2>7, <2>8, <3>1, <3>4 DEF MergedBut
    <3>5. QED
      BY <3>2, <3>3, <3>4
  <2>9. QED
    BY <2>5, <2>8 DEF Merged
<1>4. QED
  BY <1>2, <1>3

(* Inserting a segment that lies apart from the others covers its keys and *)
(* no others, and leaves everything merged.                                *)
LEMMA InsertCorrect ==
  ASSUME NEW t, Good(t), Merged(t), NEW seg, Fits(t, seg),
         NEW u, u = Insert(t, seg)
  PROVE  /\ Good(u)
         /\ Merged(u)
         /\ \A k \in Int : \A v :
              Has(u, k, v) <=> Has(t, k, v) \/ (Covers(seg, k) /\ v = seg.Value)
<1> DEFINE p == Put(t, seg)
<1>1. p = t \union {seg}
  BY DEF Put, Good, Apart, Fits, Segment, Key
<1>2. Good(p)
  BY <1>1 DEF Good, Apart, Fits, Segment, Key
<1>3. MergedBut(p, seg)
  BY <1>1 DEF MergedBut, Merged
<1>4. ASSUME NEW k \in Int, NEW v
      PROVE  Has(p, k, v) <=> Has(t, k, v) \/ (Covers(seg, k) /\ v = seg.Value)
  BY <1>1 DEF Has
<1>5. PICK q, w : MergeLeft(p, seg) = [tree |-> q, seg |-> w]
  BY DEF MergeLeft
<1>6. u = MergeRight(q, w)
  BY <1>5 DEF Insert, MergeNeighbors
<1>7. seg \in p
  BY <1>1
<1> HIDE DEF p
<1>8. /\ Good(q)
      /\ w \in q
      /\ MergedBut(q, w)
      /\ \A s \in q : s.Hi = w.Lo => s.Value # w.Value
      /\ \A k \in Int : \A v : Has(q, k, v) <=> Has(p, k, v)
  BY <1>2, <1>3, <1>5, <1>7, MergeLeftCorrect
<1>9. /\ Good(u)
      /\ Merged(u)
      /\ \A k \in Int : \A v : Has(u, k, v) <=> Has(q, k, v)
  BY <1>6, <1>8, MergeRightCorrect
<1>10. QED
  BY <1>4, <1>8, <1>9

-----------------------------------------------------------------------------
(* Splitting.                                                              *)

(* What is left of t when the segment f that covers k gives up k.          *)
Split(t, f, k) ==
  (t \ {f}) \union {Seg(f.Lo, k, f.Value) : x \in {y \in {f} : f.Lo < k}}
            \union {Seg(k + 1, f.Hi, f.Value) : x \in {y \in {f} : f.Hi > k + 1}}

LEMMA SplitCorrect ==
  ASSUME NEW t, Good(t), Merged(t), NEW k \in Key, NEW f \in t, Covers(f, k),
         NEW u, u = Split(t, f, k)
  PROVE  /\ Good(u)
         /\ Merged(u)
         /\ \A s \in u : s.Hi <= k \/ k + 1 <= s.Lo
         /\ \A j \in Int : \A v : Has(u, j, v) <=> Has(t, j, v) /\ j # k
<1> DEFINE L == Seg(f.Lo, k, f.Value)
           R == Seg(k + 1, f.Hi, f.Value)
<1>1. /\ L.Lo = f.Lo /\ L.Hi = k /\ L.Value = f.Value
      /\ R.Lo = k + 1 /\ R.Hi = f.Hi /\ R.Value = f.Value
  BY DEF Seg
<1>2. /\ f \in Segment
      /\ f.Lo \in Int /\ f.Hi \in Int
      /\ f.Lo <= k /\ k + 1 <= f.Hi
      /\ L \in Segment
      /\ f.Hi > k + 1 => R \in Segment
  BY DEF Good, Segment, Key, Covers, Seg
<1>3. \A s : s \in u <=> \/ s \in t /\ s # f
                         \/ s = L /\ f.Lo < k
                         \/ s = R /\ f.Hi > k + 1
  BY DEF Split
<1> HIDE DEF L, R
<1>4. \A s \in t : s # f => s.Hi <= f.Lo \/ f.Hi <= s.Lo
  BY DEF Good, Apart
<1>5. \A s \in t : s.Lo \in Int /\ s.Hi \in Int /\ s.Lo < s.Hi
  BY DEF Good, Apart, Segment, Key
<1>6. \A s \in u : s \in Segment /\ s.Lo \in Int /\ s.Hi \in Int /\ s.Lo < s.Hi
  BY <1>1, <1>2, <1>3, <1>5 DEF Good, Key
<1>7. \A s, r \in u : s # r => s.Hi <= r.Lo \/ r.Hi <= s.Lo
  <2>1. \A s, r \in t : s # r => s.Hi <= r.Lo \/ r.Hi <= s.Lo
    BY DEF Good, Apart
  <2>2. QED
    BY <1>1, <1>2, <1>3, <1>4, <1>5, <2>1 DEF Key
<1>8. Good(u)
  BY <1>6, <1>7 DEF Good, Apart
<1>9. Merged(u)
  <2>1. \A s, r \in t : s.Hi = r.Lo => s.Value # r.Value
    BY DEF Merged
  <2>2. QED
    BY <1>1, <1>2, <1>3, <1>4, <1>5, <2>1 DEF Key, Merged
<1>10. \A s \in u : s.Hi <= k \/ k + 1 <= s.Lo
  BY <1>1, <1>2, <1>3, <1>4, <1>5 DEF Key
<1>11. ASSUME NEW j \in Int, NEW v
       PROVE  Has(u, j, v) <=> Has(t, j, v) /\ j # k
  <2>1. Covers(f, j) /\ j # k
          <=> (f.Lo < k /\ Covers(L, j)) \/ (f.Hi > k + 1 /\ Covers(R, j))
    BY <1>1, <1>2 DEF Covers, Key
  <2>2. \A s \in t : s # f => ~ Covers(s, k)
    BY <1>2, <1>4, <1>5 DEF Covers, Key
  <2>3. ASSUME Has(u, j, v)
        PROVE  Has(t, j, v) /\ j # k
    BY <1>1, <1>3, <2>1, <2>2, <2>3 DEF Has
  <2>4. ASSUME Has(t, j, v), j # k
        PROVE  Has(u, j, v)
    BY <1>1, <1>3, <2>1, <2>4 DEF Has
  <2>5. QED
    BY <2>3, <2>4
<1>12. QED
  BY <1>8, <1>9, <1>10, <1>11

-----------------------------------------------------------------------------
(* The writes to a single key below MaxKey.                                *)

(* Scanning a single segment.                                              *)
LEMMA OneSegment ==
  ASSUME NEW f, f.Lo \in Int
  PROVE  First({f}) = {f} /\ Last({f}) = {f} /\ TheSeg({f}) = f
BY DEF First, Last, TheSeg

(* The overlapping segments of a single-key write: none, or the one that   *)
(* covers the key.                                                         *)
LEMMA OverlapCases ==
  ASSUME NEW t, Good(t), NEW k \in Int
  PROVE  \/ CoverSet(t, k) = {} /\ FindOverlapping(t, k, k + 1) = {}
         \/ \E f \in t : Covers(f, k) /\ FindOverlapping(t, k, k + 1) = {f}
<1>1. FindOverlapping(t, k, k + 1) = CoverSet(t, k)
  BY OverlappingExact
<1>2. ASSUME NEW f \in CoverSet(t, k)
      PROVE  CoverSet(t, k) = {f}
  BY CoverUnique DEF CoverSet
<1>3. QED
  BY <1>1, <1>2 DEF CoverSet

(* A key that no segment covers has room for a segment of its own.         *)
LEMMA FreshFits ==
  ASSUME NEW t, Good(t), NEW k \in Key, k # MaxKey, NEW v \in Values,
         \A s \in t : ~ Covers(s, k)
  PROVE  Fits(t, Seg(k, k + 1, v))
<1> DEFINE seg == Seg(k, k + 1, v)
<1>1. seg.Lo = k /\ seg.Hi = k + 1 /\ seg \in Segment
  BY DEF Seg, Segment, Key
<1>2. QED
  BY <1>1 DEF Fits, Good, Apart, Covers, Segment, Key

LEMMA FreshCovers ==
  ASSUME NEW k \in Int, NEW j \in Int, NEW v
  PROVE  /\ Covers(Seg(k, k + 1, v), j) <=> j = k
         /\ Seg(k, k + 1, v).Value = v
BY DEF Covers, Seg

LEMMA DeleteCorrect ==
  ASSUME NEW t, Good(t), Merged(t), NEW k \in Key,
         NEW u, u = InternalDelete(t, k, k + 1)
  PROVE  /\ Good(u)
         /\ Merged(u)
         /\ \A j \in Int : \A v : Has(u, j, v) <=> Has(t, j, v) /\ j # k
<1> DEFINE over == FindOverlapping(t, k, k + 1)
<1>1. k \in Int
  BY DEF Key
<1>2. u = (t \ over) \union LeftTrim(over, k, {}) \union RightTrim(over, k + 1, {})
  BY <1>1 DEF InternalDelete
<1>3. CASE CoverSet(t, k) = {} /\ over = {}
  <2>1. u = t
    BY <1>2, <1>3 DEF LeftTrim, RightTrim, First, Last
  <2>2. QED
    BY <1>3, <2>1 DEF Has, CoverSet
<1>4. CASE \E f \in t : Covers(f, k) /\ over = {f}
  <2>1. PICK f \in t : Covers(f, k) /\ over = {f}
    BY <1>4
  <2>2. First({f}) = {f} /\ Last({f}) = {f}
    <3>1. f.Lo \in Int
      BY DEF Good, Segment, Key
    <3>2. QED
      BY <3>1, OneSegment
  <2>3. u = Split(t, f, k)
    BY <1>2, <2>1, <2>2 DEF LeftTrim, RightTrim, Split
  <2>4. QED
    BY <2>1, <2>3, SplitCorrect
<1>5. QED
  BY <1>1, <1>3, <1>4, OverlapCases

LEMMA SetCorrect ==
  ASSUME NEW t, Good(t), Merged(t), NEW k \in Key, k # MaxKey, NEW v \in Values,
         NEW u, u = InternalSet(t, k, k + 1, v)
  PROVE  /\ Good(u)
         /\ Merged(u)
         /\ \A j \in Int : \A w :
              Has(u, j, w) <=> IF j = k THEN w = v ELSE Has(t, j, w)
<1> DEFINE over  == FindOverlapping(t, k, k + 1)
           grewL == {f \in First(over) : f.Lo < k /\ f.Value = v}
           grewR == {l \in Last(over) : l.Hi > k + 1 /\ l.Value = v}
           seg   == Seg(IF grewL = {} THEN k ELSE TheSeg(grewL).Lo,
                        IF grewR = {} THEN k + 1 ELSE TheSeg(grewR).Hi, v)
           rest  == (t \ over) \union LeftTrim(over, k, {v})
                               \union RightTrim(over, k + 1, {v})
<1>1. k \in Int
  BY DEF Key
<1>2. u = Insert(rest, seg)
  BY <1>1 DEF InternalSet
<1>3. CASE CoverSet(t, k) = {} /\ over = {}
  <2>1. rest = t /\ seg = Seg(k, k + 1, v)
    BY <1>3 DEF LeftTrim, RightTrim, First, Last
  <2>2. Fits(t, seg)
    BY <1>3, <2>1, FreshFits DEF CoverSet
  <2> HIDE DEF rest, seg
  <2>3. /\ Good(u)
        /\ Merged(u)
        /\ \A j \in Int : \A w :
             Has(u, j, w) <=> Has(t, j, w) \/ (Covers(seg, j) /\ w = seg.Value)
    BY <1>2, <2>1, <2>2, InsertCorrect
  <2>4. \A w : ~ Has(t, k, w)
    BY <1>3 DEF Has, CoverSet
  <2>5. QED
    BY <1>1, <2>1, <2>3, <2>4, FreshCovers
<1>4. CASE \E f \in t : Covers(f, k) /\ over = {f}
  <2>1. PICK f \in t : Covers(f, k) /\ over = {f}
    BY <1>4
  <2>2. First({f}) = {f} /\ Last({f}) = {f} /\ TheSeg({f}) = f
    <3>1. f.Lo \in Int
      BY DEF Good, Segment, Key
    <3>2. QED
      BY <3>1, OneSegment
  <2>3. CASE f.Value = v
    <3>1. rest = t \ {f}
      BY <2>1, <2>2, <2>3 DEF LeftTrim, RightTrim
    <3>2. /\ seg.Lo = f.Lo /\ seg.Hi = f.Hi /\ seg.Value = v
          /\ seg \in Segment
      <4>1. f \in Segment /\ f.Lo <= k /\ k + 1 <= f.Hi
        BY <2>1 DEF Good, Segment, Key, Covers
      <4>2. grewL = IF f.Lo < k THEN {f} ELSE {}
        BY <2>1, <2>2, <2>3
      <4>3. grewR = IF f.Hi > k + 1 THEN {f} ELSE {}
        BY <2>1, <2>2, <2>3
      <4> HIDE DEF grewL, grewR
      <4>4. seg = Seg(f.Lo, f.Hi, v)
        BY <1>1, <2>2, <4>1, <4>2, <4>3 DEF Segment, Key
      <4>5. QED
        BY <4>1, <4>4 DEF Seg, Segment
    <3> HIDE DEF rest, seg
    <3>3. Good(rest) /\ Merged(rest) /\ Fits(rest, seg)
      BY <3>1, <3>2 DEF Good, Apart, Merged, Fits, Segment, Key
    <3>4. /\ Good(u)
          /\ Merged(u)
          /\ \A j \in Int : \A w :
               Has(u, j, w) <=> Has(rest, j, w) \/ (Covers(seg, j) /\ w = seg.Value)
      BY <1>2, <3>3, InsertCorrect
    <3>5. \A j \in Int : Covers(seg, j) <=> Covers(f, j)
      BY <3>2 DEF Covers
    <3>6. \A j \in Int : \A w :
            Has(t, j, w) <=> Has(rest, j, w) \/ (Covers(f, j) /\ w = v)
      BY <2>3, <3>1 DEF Has
    <3>7. \A w : Has(t, k, w) <=> w = v
      BY <1>1, <2>1, <2>3, CoverUnique DEF Has
    <3>8. QED
      BY <1>1, <3>2, <3>4, <3>5, <3>6, <3>7
  <2>4. CASE f.Value # v
    <3>1. rest = Split(t, f, k)
      BY <2>1, <2>2, <2>4 DEF LeftTrim, RightTrim, Split
    <3>2. seg = Seg(k, k + 1, v)
      BY <2>1, <2>2, <2>4
    <3> HIDE DEF rest, seg
    <3>3. /\ Good(rest)
          /\ Merged(rest)
          /\ \A s \in rest : s.Hi <= k \/ k + 1 <= s.Lo
          /\ \A j \in Int : \A w : Has(rest, j, w) <=> Has(t, j, w) /\ j # k
      BY <2>1, <3>1, SplitCorrect
    <3>4. Fits(rest, seg)
      <4>1. \A s \in rest : ~ Covers(s, k)
        BY <1>1, <3>3 DEF Covers, Good, Segment, Key
      <4>2. QED
        BY <3>2, <3>3, <4>1, FreshFits
    <3>5. /\ Good(u)
          /\ Merged(u)
          /\ \A j \in Int : \A w :
               Has(u, j, w) <=> Has(rest, j, w) \/ (Covers(seg, j) /\ w = seg.Value)
      BY <1>2, <3>3, <3>4, InsertCorrect
    <3>6. QED
      BY <1>1, <3>2, <3>3, <3>5, FreshCovers
  <2>5. QED
    BY <2>3, <2>4
<1>5. QED
  BY <1>1, <1>3, <1>4, OverlapCases

-----------------------------------------------------------------------------
(* The specification.                                                      *)

\* Callers leave the largest key of the type alone.
BelowMax == MaxKey \notin Keys

Inv == Good(tree) /\ Merged(tree)

LEMMA KeyFacts ==
  ASSUME BelowMax, NEW k \in Keys
  PROVE  k \in Key /\ k \in Int /\ k # MaxKey /\ Succ(k) = k + 1
BY DEF BelowMax, Key, Succ

LEMMA SetIfAbsentCorrect ==
  ASSUME BelowMax, NEW t, Good(t), Merged(t), NEW k \in Keys, NEW v \in Values,
         FindCovering(t, k) = {},
         NEW u, u = Insert(t, Seg(k, Succ(k), v))
  PROVE  /\ Good(u)
         /\ Merged(u)
         /\ \A j \in Int : \A w :
              Has(u, j, w) <=> IF j = k THEN w = v ELSE Has(t, j, w)
<1> DEFINE seg == Seg(k, k + 1, v)
<1>1. k \in Key /\ k \in Int /\ k # MaxKey /\ Succ(k) = k + 1
  BY KeyFacts
<1>2. \A s \in t : ~ Covers(s, k)
  BY <1>1, CoveringExact DEF CoverSet
<1>3. Fits(t, seg)
  BY <1>1, <1>2, FreshFits
<1>4. u = Insert(t, seg)
  BY <1>1
<1>5. seg.Value = v /\ \A j \in Int : Covers(seg, j) <=> j = k
  BY <1>1, FreshCovers
<1> HIDE DEF seg
<1>6. /\ Good(u)
      /\ Merged(u)
      /\ \A j \in Int : \A w :
           Has(u, j, w) <=> Has(t, j, w) \/ (Covers(seg, j) /\ w = seg.Value)
  BY <1>3, <1>4, InsertCorrect
<1>7. \A w : ~ Has(t, k, w)
  BY <1>2 DEF Has
<1>8. QED
  BY <1>1, <1>5, <1>6, <1>7

(* Every operation keeps the segments well-typed, apart and merged.        *)
LEMMA StepInv ==
  ASSUME BelowMax, Inv, [Next]_vars
  PROVE  Inv'
<1>1. ASSUME NEW k \in Keys, NEW v \in Values, Set(k, v)
      PROVE  Inv'
  <2>1. tree' = InternalSet(tree, k, k + 1, v) /\ k \in Key /\ k # MaxKey
    BY <1>1, KeyFacts DEF Set
  <2>2. QED
    BY <2>1, SetCorrect DEF Inv
<1>2. ASSUME NEW k \in Keys, NEW v \in Values, SetIfAbsent(k, v)
      PROVE  Inv'
  <2>1. CASE FindCovering(tree, k) = {}
    <3>1. tree' = Insert(tree, Seg(k, Succ(k), v))
      BY <1>2, <2>1 DEF SetIfAbsent
    <3>2. QED
      BY <2>1, <3>1, SetIfAbsentCorrect DEF Inv
  <2>2. CASE FindCovering(tree, k) # {}
    BY <1>2, <2>2 DEF SetIfAbsent, Inv
  <2>3. QED
    BY <2>1, <2>2
<1>3. ASSUME NEW k \in Keys, Delete(k)
      PROVE  Inv'
  <2>1. tree' = InternalDelete(tree, k, k + 1) /\ k \in Key
    BY <1>3, KeyFacts DEF Delete
  <2>2. QED
    BY <2>1, DeleteCorrect DEF Inv
<1>4. ASSUME NEW k \in Keys, Get(k)
      PROVE  Inv'
  BY <1>4 DEF Get, Inv
<1>5. CASE Clear
  BY <1>5 DEF Clear, Inv, Good, Apart, Merged
<1>6. CASE UNCHANGED vars
  BY <1>6 DEF vars, Inv
<1>7. QED
  BY <1>1, <1>2, <1>3, <1>4, <1>5, <1>6 DEF Next

LEMMA InitInv == Init => Inv
BY DEF Init, Inv, Good, Apart, Merged

(* The segments are always well-typed, for every integer type: the code    *)
(* never stores a bound outside the type or a value no caller gave it.     *)
THEOREM TypeCorrect ==
  ASSUME BelowMax
  PROVE  Spec => []TypeOK
<1>1. Inv => TypeOK
  BY DEF Inv, Good, TypeOK
<1>2. QED
  BY <1>1, InitInv, StepInv, PTL DEF Spec

(* Splits and merges never leave an empty segment or two segments that     *)
(* cover the same key (index.go:36-37).                                    *)
THEOREM SegmentsAlwaysApart ==
  ASSUME BelowMax
  PROVE  Spec => []SegmentsApart
<1>1. Inv => SegmentsApart
  BY DEF Inv, Good, SegmentsApart
<1>2. QED
  BY <1>1, InitInv, StepInv, PTL DEF Spec

(* Adjacent keys of equal value are always in one segment                  *)
(* (index.go:3-4): no operation leaves two touching segments unmerged.     *)
THEOREM AlwaysCoalesced ==
  ASSUME BelowMax
  PROVE  Spec => []Coalesced
<1>1. Inv => Coalesced
  BY DEF Inv, Coalesced
<1>2. QED
  BY <1>1, InitInv, StepInv, PTL DEF Spec

-----------------------------------------------------------------------------
(* The index implements the map.                                           *)

(* Lookup answers v exactly where a segment of value v covers the key, and *)
(* Absent where none does.                                                 *)
LEMMA LookupHas ==
  ASSUME NEW t, Good(t), NEW k \in Int
  PROVE  /\ \A v : Has(t, k, v) => Lookup(t, k) = v /\ v # Absent
         /\ (\A v : ~ Has(t, k, v)) => Lookup(t, k) = Absent
<1>1. ASSUME NEW v, Has(t, k, v)
      PROVE  Lookup(t, k) = v /\ v # Absent
  <2>1. PICK s \in t : Covers(s, k) /\ s.Value = v
    BY <1>1 DEF Has
  <2>2. Lookup(t, k) = v
    BY <2>1, LookupCovered
  <2>3. v \in Values
    BY <2>1 DEF Good, Segment
  <2>4. QED
    BY <2>2, <2>3
<1>2. ASSUME \A v : ~ Has(t, k, v)
      PROVE  Lookup(t, k) = Absent
  <2>1. CoverSet(t, k) = {}
    BY <1>2 DEF Has, CoverSet
  <2>2. QED
    BY <2>1, LookupUncovered
<1>3. QED
  BY <1>1, <1>2

(* Two trees that give a key the same values answer Get alike.             *)
LEMMA LookupSame ==
  ASSUME NEW t, Good(t), NEW u, Good(u), NEW k \in Int,
         \A v : Has(u, k, v) <=> Has(t, k, v)
  PROVE  Lookup(u, k) = Lookup(t, k)
<1>1. CASE \E v : Has(t, k, v)
  BY <1>1, LookupHas
<1>2. CASE \A v : ~ Has(t, k, v)
  BY <1>2, LookupHas
<1>3. QED
  BY <1>1, <1>2

(* Writing one key of the index writes that key of the map.                *)
LEMMA WriteLookup ==
  ASSUME NEW t, Good(t), NEW u, Good(u), BelowMax, NEW k \in Keys, NEW v,
         \A j \in Int : \A w : Has(u, j, w) <=> IF j = k THEN w = v ELSE Has(t, j, w)
  PROVE  [j \in Keys |-> Lookup(u, j)]
           = [[j \in Keys |-> Lookup(t, j)] EXCEPT ![k] = v]
<1>1. \A j \in Keys : j \in Int
  BY KeyFacts
<1>2. Lookup(u, k) = v
  BY <1>1, LookupHas
<1>3. ASSUME NEW j \in Keys, j # k
      PROVE  Lookup(u, j) = Lookup(t, j)
  BY <1>1, <1>3, LookupSame
<1>4. QED
  BY <1>2, <1>3

LEMMA DeleteLookup ==
  ASSUME NEW t, Good(t), NEW u, Good(u), BelowMax, NEW k \in Keys,
         \A j \in Int : \A w : Has(u, j, w) <=> Has(t, j, w) /\ j # k
  PROVE  [j \in Keys |-> Lookup(u, j)]
           = [[j \in Keys |-> Lookup(t, j)] EXCEPT ![k] = Absent]
<1>1. \A j \in Keys : j \in Int
  BY KeyFacts
<1>2. Lookup(u, k) = Absent
  BY <1>1, LookupHas
<1>3. ASSUME NEW j \in Keys, j # k
      PROVE  Lookup(u, j) = Lookup(t, j)
  BY <1>1, <1>3, LookupSame
<1>4. QED
  BY <1>2, <1>3

LEMMA StepRefines ==
  ASSUME BelowMax, Inv, Inv', [Next]_vars
  PROVE  [Map!Next]_(Map!vars)
<1> DEFINE map == [k \in Keys |-> Lookup(tree, k)]
<1>1. Good(tree) /\ Merged(tree) /\ Good(tree')
  BY DEF Inv
<1>2. ASSUME NEW k \in Keys, NEW v \in Values, Set(k, v)
      PROVE  Map!Set(k, v)
  <2>1. tree' = InternalSet(tree, k, k + 1, v) /\ k \in Key /\ k # MaxKey
    BY <1>2, KeyFacts DEF Set
  <2>2. \A j \in Int : \A w :
          Has(tree', j, w) <=> IF j = k THEN w = v ELSE Has(tree, j, w)
    BY <1>1, <2>1, SetCorrect
  <2>3. map' = [map EXCEPT ![k] = v]
    BY <1>1, <2>2, WriteLookup
  <2>4. QED
    BY <1>2, <2>3 DEF Set, Map!Set, Call, Map!Call
<1>3. ASSUME NEW k \in Keys, NEW v \in Values, SetIfAbsent(k, v)
      PROVE  Map!SetIfAbsent(k, v)
  <2>1. k \in Int
    BY KeyFacts
  <2>2. (FindCovering(tree, k) = {}) <=> (map[k] = Absent)
    <3>1. CASE CoverSet(tree, k) = {}
      BY <1>1, <2>1, <3>1, CoveringExact, LookupUncovered
    <3>2. CASE CoverSet(tree, k) # {}
      <4>1. PICK s \in tree : Covers(s, k)
        BY <3>2 DEF CoverSet
      <4>2. map[k] = s.Value /\ s.Value \in Values
        BY <1>1, <2>1, <4>1, LookupCovered DEF Good, Segment
      <4>3. QED
        BY <1>1, <2>1, <3>2, <4>2, CoveringExact
    <3>3. QED
      BY <3>1, <3>2
  <2>3. CASE FindCovering(tree, k) = {}
    <3>1. tree' = Insert(tree, Seg(k, Succ(k), v))
      BY <1>3, <2>3 DEF SetIfAbsent
    <3>2. \A j \in Int : \A w :
            Has(tree', j, w) <=> IF j = k THEN w = v ELSE Has(tree, j, w)
      BY <1>1, <2>3, <3>1, SetIfAbsentCorrect
    <3>3. map' = [map EXCEPT ![k] = v]
      BY <1>1, <3>2, WriteLookup
    <3>4. QED
      BY <1>3, <2>2, <2>3, <3>3 DEF SetIfAbsent, Map!SetIfAbsent, Call, Map!Call
  <2>4. CASE FindCovering(tree, k) # {}
    <3>1. map' = map
      BY <1>3, <2>4 DEF SetIfAbsent
    <3>2. QED
      BY <1>3, <2>2, <2>4, <3>1 DEF SetIfAbsent, Map!SetIfAbsent, Call, Map!Call
  <2>5. QED
    BY <2>3, <2>4
<1>4. ASSUME NEW k \in Keys, Delete(k)
      PROVE  Map!Delete(k)
  <2>1. tree' = InternalDelete(tree, k, k + 1) /\ k \in Key
    BY <1>4, KeyFacts DEF Delete
  <2>2. \A j \in Int : \A w : Has(tree', j, w) <=> Has(tree, j, w) /\ j # k
    BY <1>1, <2>1, DeleteCorrect
  <2>3. map' = [map EXCEPT ![k] = Absent]
    BY <1>1, <2>2, DeleteLookup
  <2>4. QED
    BY <1>4, <2>3 DEF Delete, Map!Delete, Call, Map!Call
<1>5. ASSUME NEW k \in Keys, Get(k)
      PROVE  Map!Get(k)
  BY <1>5 DEF Get, Map!Get, Call, Map!Call
<1>6. ASSUME Clear
      PROVE  Map!Clear
  <2>1. \A k \in Keys : Lookup({}, k) = Absent
    BY DEF Lookup, FindCovering, Last
  <2>2. QED
    BY <1>6, <2>1 DEF Clear, Map!Clear, Call, Map!Call
<1>7. ASSUME UNCHANGED vars
      PROVE  UNCHANGED Map!vars
  BY <1>7 DEF vars, Map!vars
<1>8. QED
  BY <1>2, <1>3, <1>4, <1>5, <1>6, <1>7 DEF Next, Map!Next

LEMMA InitRefines == Init => Map!Init
<1>1. \A k \in Keys : Lookup({}, k) = Absent
  BY DEF Lookup, FindCovering, Last
<1>2. QED
  BY <1>1 DEF Init, Map!Init, Call, Map!Call

(* The index is a map from single keys to values: whatever sequence of     *)
(* calls splits and merges its segments, every call changes the key it     *)
(* names and no other and returns what the map says (index.go:6-8).        *)
THEOREM IndexIsAMap ==
  ASSUME BelowMax
  PROVE  Spec => ImplementsKeyMap
<1>1. Inv /\ [Next]_vars => Inv'
  BY StepInv
<1>2. Inv /\ Inv' /\ [Next]_vars => [Map!Next]_(Map!vars)
  BY StepRefines
<1>3. QED
  BY <1>1, <1>2, InitInv, InitRefines, PTL DEF Spec, ImplementsKeyMap, Map!Spec
=============================================================================
