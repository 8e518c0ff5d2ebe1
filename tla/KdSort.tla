------------------------------- MODULE KdSort -------------------------------
(***************************************************************************)
(* kdbush.sort: the in-place construction of the KD-tree that both         *)
(* NewBush and BuildDisk use.  sort selects the median of a range on one   *)
(* axis (sselect, Floyd and Rivest), then sorts both halves on the other   *)
(* axis; ranges of at most NodeSize+1 points stay as they are.             *)
(***************************************************************************)
EXTENDS KdTree, Sequences

CONSTANTS
  SampleAbove,   \* sselect first selects in a sample of a range longer than
                 \* this (600 in the code; smaller here, so that it happens)
  PointSets      \* the slices of points that are indexed

ASSUME SortAssumption ==
  /\ SampleAbove \in Nat
  /\ PointSets \subseteq [Pos -> [0..1 -> Int]]

VARIABLES
  points,   \* the caller's slice
  idxs,     \* position -> index in points
  todo,     \* the calls of sort that have not returned, innermost first
  calls     \* the calls of sselect that have not returned, innermost first

sortVars == <<points, idxs, coords, todo, calls, tree>>

\* buildIndex, up to the call of sort.
SortInit ==
  /\ points \in PointSets
  /\ idxs = [i \in Pos |-> i]
  /\ coords = points
  /\ todo = <<Root>>
  /\ calls = <<>>
  /\ tree = {}

-----------------------------------------------------------------------------
(* sort.                                                                   *)

Call(range, left, right) ==
  [k |-> Mid(range), axis |-> range.axis, left |-> left, right |-> right,
   pc |-> "loop", i |-> left, j |-> right, t |-> 0]

SortLeaf ==
  /\ calls = <<>> /\ todo # <<>>
  /\ IsLeaf(Head(todo))
  /\ todo' = Tail(todo)
  /\ UNCHANGED <<points, idxs, coords, calls, tree>>

SortSelect ==
  /\ calls = <<>> /\ todo # <<>>
  /\ ~IsLeaf(Head(todo))
  /\ calls' = <<Call(Head(todo), Head(todo).left, Head(todo).right)>>
  /\ UNCHANGED <<points, idxs, coords, todo, tree>>

-----------------------------------------------------------------------------
(* sselect(k, left, right, axis).  One pass partitions the range around    *)
(* the value t at position k, then narrows it to the side that holds k.    *)

Top == Head(calls)

Coord(i) == coords[i][Top.axis]

\* swapItem exchanges the index and both coordinates.
Swapped(array, i, j) == [array EXCEPT ![i] = array[j], ![j] = array[i]]

\* Mutant: the indexes are left behind.
SwapCoords(i, j) ==
  /\ coords' = Swapped(coords, i, j)
  /\ UNCHANGED idxs

Swap(i, j) ==
  /\ idxs' = Swapped(idxs, i, j)
  /\ coords' = Swapped(coords, i, j)

\* The return from sselect; the outermost one lets sort go on to the halves.
SelectReturn ==
  /\ calls # <<>>
  /\ Top.pc = "loop" /\ Top.right <= Top.left
  /\ calls' = Tail(calls)
  /\ IF Len(calls) = 1
     THEN /\ tree' = tree \union {Head(todo)}
          /\ todo' = <<LeftHalf(Head(todo)), RightHalf(Head(todo))>> \o Tail(todo)
     ELSE UNCHANGED <<tree, todo>>
  /\ UNCHANGED <<points, idxs, coords>>

\* The bounds of the sample come from a formula in floating point that keeps k
\* between them and makes it shorter than the range: here, any such bounds.
SelectSample ==
  /\ calls # <<>>
  /\ Top.pc = "loop" /\ Top.right - Top.left > SampleAbove
  /\ \E newLeft \in Top.left..Top.k, newRight \in Top.k..Top.right :
       /\ newRight - newLeft < Top.right - Top.left
       /\ calls' = <<[Top EXCEPT !.left = newLeft, !.right = newRight],
                     [Top EXCEPT !.pc = "pass"]>> \o Tail(calls)
  /\ UNCHANGED <<points, idxs, coords, todo, tree>>

\* Mutant: no sentinel at the right end.
SelectPassOpen ==
  /\ calls # <<>>
  /\ \/ Top.pc = "loop" /\ Top.right > Top.left /\ Top.right - Top.left <= SampleAbove
     \/ Top.pc = "pass"
  /\ Swap(Top.left, Top.k)
  /\ calls' = <<[Top EXCEPT !.pc = "scan", !.t = Coord(Top.k), !.i = Top.left, !.j = Top.right]>>
                \o Tail(calls)
  /\ UNCHANGED <<points, todo, tree>>

\* t goes to one end of the range and what is not smaller to the other.
SelectPass ==
  LET s == Swapped(coords, Top.left, Top.k)
      t == Coord(Top.k)
      u == Swapped(idxs, Top.left, Top.k)
      far == s[Top.right][Top.axis] > t
  IN  /\ calls # <<>>
      /\ \/ Top.pc = "loop" /\ Top.right > Top.left /\ Top.right - Top.left <= SampleAbove
         \/ Top.pc = "pass"
      /\ coords' = IF far THEN Swapped(s, Top.left, Top.right) ELSE s
      /\ idxs' = IF far THEN Swapped(u, Top.left, Top.right) ELSE u
      /\ calls' = <<[Top EXCEPT !.pc = "scan", !.t = t, !.i = Top.left, !.j = Top.right]>>
                    \o Tail(calls)
      /\ UNCHANGED <<points, todo, tree>>

\* Where `for c[i] < t { i += 1 }' and `for c[j] > t { j -= 1 }' end; outside of
\* Pos if they run off the array.
ScanUp(c, i, axis, t) ==
  CHOOSE n \in i..N : (n = N \/ c[n][axis] >= t) /\ \A h \in i..n-1 : c[h][axis] < t

ScanDown(c, j, axis, t) ==
  CHOOSE n \in -1..j : (n = -1 \/ c[n][axis] <= t) /\ \A h \in n+1..j : c[h][axis] > t

SelectSwap ==
  /\ calls # <<>>
  /\ Top.pc = "scan" /\ Top.i < Top.j
  /\ Swap(Top.i, Top.j)
  /\ calls' = <<[Top EXCEPT !.i = ScanUp(coords', Top.i + 1, Top.axis, Top.t),
                          !.j = ScanDown(coords', Top.j - 1, Top.axis, Top.t)]>> \o Tail(calls)
  /\ UNCHANGED <<points, todo, tree>>

\* Mutant: j is not advanced to the place of t.
SelectNarrowEarly ==
  /\ calls # <<>>
  /\ Top.pc = "scan" /\ Top.i >= Top.j
  /\ IF Coord(Top.left) = Top.t THEN Swap(Top.left, Top.j) ELSE Swap(Top.j, Top.right)
  /\ calls' = <<[Top EXCEPT !.pc = "loop",
                          !.left = IF Top.j <= Top.k THEN Top.j + 1 ELSE Top.left,
                          !.right = IF Top.k <= Top.j THEN Top.j - 1 ELSE Top.right]>>
                \o Tail(calls)
  /\ UNCHANGED <<points, todo, tree>>

\* Mutant: the range is not narrowed when t is at k.
SelectNarrowStrict ==
  LET home == IF Coord(Top.left) = Top.t THEN Top.j ELSE Top.j + 1
  IN  /\ calls # <<>>
      /\ Top.pc = "scan" /\ Top.i >= Top.j
      /\ IF Coord(Top.left) = Top.t THEN Swap(Top.left, home) ELSE Swap(home, Top.right)
      /\ calls' = <<[Top EXCEPT !.pc = "loop",
                              !.left = IF home < Top.k THEN home + 1 ELSE Top.left,
                              !.right = IF Top.k < home THEN home - 1 ELSE Top.right]>>
                    \o Tail(calls)
      /\ UNCHANGED <<points, todo, tree>>

\* t goes to its place j, and the range is narrowed.
SelectNarrow ==
  LET home == IF Coord(Top.left) = Top.t THEN Top.j ELSE Top.j + 1
  IN  /\ calls # <<>>
      /\ Top.pc = "scan" /\ Top.i >= Top.j
      /\ IF Coord(Top.left) = Top.t THEN Swap(Top.left, home) ELSE Swap(home, Top.right)
      /\ calls' = <<[Top EXCEPT !.pc = "loop",
                              !.left = IF home <= Top.k THEN home + 1 ELSE Top.left,
                              !.right = IF Top.k <= home THEN home - 1 ELSE Top.right]>>
                    \o Tail(calls)
      /\ UNCHANGED <<points, todo, tree>>

SortNext ==
  \/ SortLeaf
  \/ SortSelect
  \/ SelectReturn
  \/ SelectSample
  \/ SelectPass
  \/ SelectSwap
  \/ SelectNarrow

Sorted == calls = <<>> /\ todo = <<>>

-----------------------------------------------------------------------------
(* Properties.                                                             *)

TypeOKSort ==
  /\ idxs \in [Pos -> Pos]
  /\ coords \in [Pos -> [0..1 -> Int]]
  /\ \A n \in DOMAIN todo : /\ todo[n].left \in 0..N
                            /\ todo[n].right \in todo[n].left - 1..N-1
  /\ \A n \in DOMAIN calls : calls[n].pc \in {"loop", "pass", "scan"}

(* The scans of a pass, which have no bounds of their own, never run past  *)
(* the range: the partition has put a sentinel at each end                 *)
(* (kdbush.go:199-204).                                                    *)
ScansStop ==
  \A n \in DOMAIN calls : calls[n].pc = "scan" =>
    /\ calls[n].i \in calls[n].left..calls[n].right
    /\ calls[n].j \in calls[n].left..calls[n].right

(* What has been split stays split while its halves are sorted on the      *)
(* other axis, and when sort returns every range longer than a leaf is     *)
(* split: the arrangement a query relies on, though nothing stores it      *)
(* (kdbush.go:160-163).                                                    *)
TreeStands ==
  /\ \A range \in tree : Split(range)
  /\ Sorted => Grown(tree)
=============================================================================
