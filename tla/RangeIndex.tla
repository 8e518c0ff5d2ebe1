----------------------------- MODULE RangeIndex -----------------------------
(***************************************************************************)
(* internal/rangeindex/index.go: an index from integer keys to values that *)
(* stores half-open segments [Lo, Hi) in a B-tree ordered by Lo, splits    *)
(* them on writes and merges touching segments of equal value.  Every      *)
(* public operation holds the index's mutex from its first line to its     *)
(* last, so each is one action.                                            *)
(*                                                                         *)
(* Keys have the width of the Go type parameter K: MinKey..MaxKey, and     *)
(* key+1 wraps around at MaxKey as Go's integers do.                       *)
(***************************************************************************)
EXTENDS Integers

CONSTANTS
  MinKey, MaxKey,   \* the range of the integer type K
  Keys,             \* the keys that callers use
  Values,           \* the values that callers store
  Absent            \* "not covered"

ASSUME KeyAssumption ==
  /\ MinKey \in Int
  /\ MaxKey \in Int
  /\ MinKey < MaxKey
  /\ Keys \subseteq MinKey..MaxKey
  /\ Absent \notin Values

VARIABLES
  tree,             \* the B-tree: a set of segments
  op                \* the last call and what it returned

vars == <<tree, op>>

Key == MinKey..MaxKey

Segment == [Lo : Key, Hi : Key, Value : Values]

Seg(lo, hi, v) == [Lo |-> lo, Hi |-> hi, Value |-> v]

\* Mutant: the range of a key is one key too long.
SuccTwo(key) == key + 2

\* key+1 in the arithmetic of K
Succ(key) == IF key = MaxKey THEN MinKey ELSE key + 1

-----------------------------------------------------------------------------
(* The B-tree.  Lo is the key it compares: ReplaceOrInsert replaces the    *)
(* item of equal Lo.  First and Last are where an ascending or descending  *)
(* scan of a part of the tree begins: a set of at most one segment.        *)

Put(t, seg) == {s \in t : s.Lo # seg.Lo} \union {seg}

First(S) == {s \in S : \A x \in S : s.Lo <= x.Lo}

Last(S) == {s \in S : \A x \in S : x.Lo <= s.Lo}

TheSeg(S) == CHOOSE s \in S : TRUE

\* Mutant: a segment covers its Hi.
FindCoveringClosed(t, key) ==
  {s \in Last({x \in t : x.Lo <= key}) : key <= s.Hi}

FindCovering(t, key) ==
  {s \in Last({x \in t : x.Lo <= key}) : key < s.Hi}

\* The value that Get answers for a key.
Lookup(t, key) ==
  LET found == FindCovering(t, key)
  IN  IF found = {} THEN Absent ELSE TheSeg(found).Value

FindOverlapping(t, lo, hi) ==
  {s \in Last({x \in t : x.Lo <= lo}) : s.Hi > lo}
    \union {s \in t : lo <= s.Lo /\ s.Lo < hi}

-----------------------------------------------------------------------------
(* mergeNeighbors: the new segment absorbs a left neighbour that ends      *)
(* where it begins, then a right neighbour that begins where it ends, each *)
(* only if it has the same value.                                          *)

MergeLeft(t, seg) ==
  LET left == {l \in Last({s \in t : s.Lo < seg.Lo}) :
                 l.Hi = seg.Lo /\ l.Value = seg.Value}
      wide == Seg(TheSeg(left).Lo, seg.Hi, seg.Value)
  IN  IF left = {}
      THEN [tree |-> t, seg |-> seg]
      ELSE [tree |-> Put(t \ (left \union {seg}), wide), seg |-> wide]

MergeRight(t, seg) ==
  LET right == {r \in First({s \in t : s.Lo >= seg.Hi}) :
                  r.Lo = seg.Hi /\ r.Value = seg.Value}
      wide  == Seg(seg.Lo, TheSeg(right).Hi, seg.Value)
  IN  IF right = {}
      THEN t
      ELSE Put(t \ (right \union {seg}), wide)

\* Mutant: the right neighbour is forgotten.
MergeNeighborsLeft(t, seg) == MergeLeft(t, seg).tree

MergeNeighbors(t, seg) ==
  LET m == MergeLeft(t, seg) IN MergeRight(m.tree, m.seg)

Insert(t, seg) == MergeNeighbors(Put(t, seg), seg)

(* What remains of the overlapping segments to the left of lo and to the   *)
(* right of hi; those of the value `same' are not trimmed but absorbed.    *)

\* Mutant: the left part keeps the key that is written.
LeftTrimLate(over, lo, same) ==
  {Seg(f.Lo, lo + 1, f.Value) : f \in {s \in First(over) : s.Lo < lo /\ s.Value \notin same}}

LeftTrim(over, lo, same) ==
  {Seg(f.Lo, lo, f.Value) : f \in {s \in First(over) : s.Lo < lo /\ s.Value \notin same}}

RightTrim(over, hi, same) ==
  {Seg(hi, l.Hi, l.Value) : l \in {s \in Last(over) : s.Hi > hi /\ s.Value \notin same}}

InternalSet(t, lo, hi, v) ==
  LET over  == FindOverlapping(t, lo, hi)
      grewL == {f \in First(over) : f.Lo < lo /\ f.Value = v}
      grewR == {l \in Last(over) : l.Hi > hi /\ l.Value = v}
      seg   == Seg(IF grewL = {} THEN lo ELSE TheSeg(grewL).Lo,
                   IF grewR = {} THEN hi ELSE TheSeg(grewR).Hi, v)
  IN  IF lo >= hi
      THEN t
      ELSE Insert((t \ over) \union LeftTrim(over, lo, {v})
                             \union RightTrim(over, hi, {v}), seg)

InternalDelete(t, lo, hi) ==
  LET over == FindOverlapping(t, lo, hi)
  IN  IF lo >= hi
      THEN t
      ELSE (t \ over) \union LeftTrim(over, lo, {}) \union RightTrim(over, hi, {})

-----------------------------------------------------------------------------
(* The operations.                                                         *)

Call(name, key, arg, ret) ==
  [name |-> name, key |-> key, arg |-> arg, ret |-> ret]

Init ==
  /\ tree = {}
  /\ op = Call("New", Absent, Absent, Absent)

Set(k, v) ==
  /\ tree' = InternalSet(tree, k, Succ(k), v)
  /\ op' = Call("Set", k, v, Absent)

Delete(k) ==
  /\ tree' = InternalDelete(tree, k, Succ(k))
  /\ op' = Call("Delete", k, Absent, Absent)

SetIfAbsent(k, v) ==
  LET absent == FindCovering(tree, k) = {}
  IN  /\ tree' = IF absent THEN Insert(tree, Seg(k, Succ(k), v)) ELSE tree
      /\ op' = Call("SetIfAbsent", k, v, absent)

Clear ==
  /\ tree' = {}
  /\ op' = Call("Clear", Absent, Absent, Absent)

Get(k) ==
  /\ op' = Call("Get", k, Absent, Lookup(tree, k))
  /\ UNCHANGED tree

Next ==
  \/ \E k \in Keys, v \in Values : Set(k, v) \/ SetIfAbsent(k, v)
  \/ \E k \in Keys : Delete(k) \/ Get(k)
  \/ Clear

Spec == Init /\ [][Next]_vars

-----------------------------------------------------------------------------
(* Properties.                                                             *)

\* The tree holds segments whose bounds are keys of the type K.
TypeOK == tree \subseteq Segment

(* No key has two values and every segment covers a key: segments are not  *)
(* empty and lie apart from each other, whatever splits and merges made    *)
(* them (index.go:36-37, "non-overlapping half-open intervals").           *)
Apart(t) ==
  /\ \A s \in t : s.Lo < s.Hi
  /\ \A s, r \in t : s # r => s.Hi <= r.Lo \/ r.Hi <= s.Lo

SegmentsApart == Apart(tree)

(* Merging is complete: no two segments that touch have the same value,    *)
(* so the number of segments is the least that can represent the map       *)
(* (index.go:3-4, "adjacent keys with equal values are automatically       *)
(* merged").                                                               *)
Merged(t) == \A s, r \in t : s.Hi = r.Lo => s.Value # r.Value

Coalesced == Merged(tree)

(* Seen through Get, the index is a map from single keys to values: every  *)
(* operation changes the key it names and no other, and returns what the   *)
(* map says (index.go:6-8).                                                *)
Map == INSTANCE KeyMap WITH map <- [k \in Keys |-> Lookup(tree, k)]

ImplementsKeyMap == Map!Spec

(* "Returns true if the key was set, false if it was already present"      *)
(* (index.go:251-252): after SetIfAbsent has run, whatever it returned,    *)
(* the key is present.                                                     *)
SetIfAbsentSets ==
  [][op'.name = "SetIfAbsent" => FindCovering(tree', op'.key) # {}]_vars
=============================================================================
