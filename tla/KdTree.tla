------------------------------- MODULE KdTree -------------------------------
(***************************************************************************)
(* The implicit KD-tree of kdbush: an array of coordinates in which the    *)
(* median of a range splits it, on x and y in turn.  sort builds it        *)
(* (KdSort), the queries walk it (KdQuery), and neither stores it.         *)
(*                                                                         *)
(* Coordinates are integers and positions are counted from 0, as in Go.    *)
(***************************************************************************)
EXTENDS Integers

CONSTANTS
  N,             \* the number of points
  NodeSize       \* a range of at most NodeSize + 1 points is a leaf

ASSUME TreeAssumption == N \in Nat /\ NodeSize \in Nat

VARIABLES
  coords,   \* position -> coordinates
  tree      \* the ranges whose median has been put in place (history)

Pos == 0..N-1

Span(left, right, axis) == [left |-> left, right |-> right, axis |-> axis]

Mid(range) == (range.left + range.right) \div 2

\* Mutant: the left half loses its last point.
LeftHalfShort(range) == Span(range.left, Mid(range) - 2, (range.axis + 1) % 2)

LeftHalf(range)  == Span(range.left, Mid(range) - 1, (range.axis + 1) % 2)
RightHalf(range) == Span(Mid(range) + 1, range.right, (range.axis + 1) % 2)

IsLeaf(range) == range.right - range.left <= NodeSize

Root == Span(0, N - 1, 0)

\* The points of a range lie on their side of its median.
Split(range) ==
  /\ \A i \in range.left..Mid(range) - 1 :
       coords[i][range.axis] <= coords[Mid(range)][range.axis]
  /\ \A i \in Mid(range) + 1..range.right :
       coords[i][range.axis] >= coords[Mid(range)][range.axis]

\* A set of ranges is a tree if it reaches from the root to the leaves.
Grown(t) ==
  \A range \in t \union {Root} :
    \/ IsLeaf(range)
    \/ range \in t /\ \A half \in {LeftHalf(range), RightHalf(range)} :
                        IsLeaf(half) \/ half \in t
=============================================================================
