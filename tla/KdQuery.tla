------------------------------- MODULE KdQuery -------------------------------
(***************************************************************************)
(* kdbush queries: Range and Within, in memory and on disk, walk the       *)
(* sorted arrays with a stack of ranges, look at every point of a leaf and *)
(* at the median of a longer range, and leave out a half that the query    *)
(* cannot meet.  The four functions are the same walk: Range tests a box   *)
(* and Within a distance; Within has a handler that may stop it; on disk   *)
(* every read may fail.  Points are named by their position.               *)
(***************************************************************************)
EXTENDS KdTree, Sequences, FiniteSets

CONSTANTS
  Queries,    \* the queries that are asked
  NoQuery,
  OnDisk      \* DiskKDBush rather than KDBush

VARIABLES
  query,      \* the query, or NoQuery
  stack,      \* the ranges to visit, the next one first
  found,      \* the positions reported: in the result, or given to the handler
  reports,    \* how many reports were made
  outcome     \* "idle", "walking", then "done", "stopped" or "failed"

queryVars == <<query, stack, found, reports, outcome>>

-----------------------------------------------------------------------------
(* A query is a box (Range), or a center and a radius (Within), whose box  *)
(* is what bounds its walk.                                                *)

Box(min, max) == [kind |-> "range", min |-> min, max |-> max]

Disk(center, radius) == [kind |-> "within", center |-> center, radius |-> radius]

Boxes == [kind : {"range"}, min : [0..1 -> Int], max : [0..1 -> Int]]
Disks == [kind : {"within"}, center : [0..1 -> Int], radius : Nat]

ASSUME QueryAssumption == Queries \subseteq Boxes \union Disks

Low(q, axis)  == IF q.kind = "range" THEN q.min[axis] ELSE q.center[axis] - q.radius
High(q, axis) == IF q.kind = "range" THEN q.max[axis] ELSE q.center[axis] + q.radius

Square(d) == d * d

Matches(q, c) ==
  IF q.kind = "range"
  THEN \A axis \in 0..1 : q.min[axis] <= c[axis] /\ c[axis] <= q.max[axis]
  ELSE Square(c[0] - q.center[0]) + Square(c[1] - q.center[1]) <= Square(q.radius)

Hits(S) == {i \in S : Matches(query, coords[i])}

-----------------------------------------------------------------------------
QueryInit ==
  /\ query = NoQuery
  /\ stack = <<>>
  /\ found = {}
  /\ reports = 0
  /\ outcome = "idle"

Ask(q) ==
  /\ outcome = "idle"
  /\ query' = q
  /\ stack' = <<Root>>
  /\ outcome' = "walking"
  /\ UNCHANGED <<found, reports>>

Walking == outcome = "walking" /\ stack # <<>>

Current == Head(stack)

Points(range) == range.left..range.right

Report(hits) ==
  /\ found' = found \union hits
  /\ reports' = reports + Cardinality(hits)

VisitLeaf ==
  /\ Walking /\ IsLeaf(Current)
  /\ Report(Hits(Points(Current)))
  /\ stack' = Tail(stack)
  /\ UNCHANGED <<query, outcome>>

\* Mutant: a half whose edge the query touches is left out.
MeetsInside(range) ==
  LET x == coords[Mid(range)][range.axis]
  IN  (IF High(query, range.axis) > x THEN <<RightHalf(range)>> ELSE <<>>)
        \o (IF Low(query, range.axis) < x THEN <<LeftHalf(range)>> ELSE <<>>)

\* Mutant: the median is visited again with the left half.
MeetsAgain(range) ==
  LET x == coords[Mid(range)][range.axis]
  IN  (IF High(query, range.axis) >= x THEN <<RightHalf(range)>> ELSE <<>>)
        \o (IF Low(query, range.axis) <= x
            THEN <<Span(range.left, Mid(range), (range.axis + 1) % 2)>> ELSE <<>>)

\* The halves of a range that the query may meet: the right one is visited first.
Meets(range) ==
  LET x == coords[Mid(range)][range.axis]
  IN  (IF High(query, range.axis) >= x THEN <<RightHalf(range)>> ELSE <<>>)
        \o (IF Low(query, range.axis) <= x THEN <<LeftHalf(range)>> ELSE <<>>)

VisitNode ==
  /\ Walking /\ ~IsLeaf(Current)
  /\ Report(Hits({Mid(Current)}))
  /\ stack' = Meets(Current) \o Tail(stack)
  /\ UNCHANGED <<query, outcome>>

\* The handler of Within returns false: the points of the range before this one
\* have been reported.
Stop ==
  /\ Walking /\ query.kind = "within"
  /\ IF IsLeaf(Current)
     THEN \E last \in Hits(Points(Current)) : Report(Hits(Current.left..last))
     ELSE Hits({Mid(Current)}) # {} /\ Report({Mid(Current)})
  /\ outcome' = "stopped"
  /\ UNCHANGED <<query, stack>>

\* A read fails: of the range or, in Within, of the data of a hit, when the hits
\* before it have been reported.
ReadFails ==
  /\ OnDisk
  /\ Walking /\ Points(Current) # {}
  /\ \/ query.kind = "range" /\ found' = {} /\ reports' = 0
     \/ query.kind = "within" /\ UNCHANGED <<found, reports>>
     \/ /\ query.kind = "within" /\ IsLeaf(Current)
        /\ \E unread \in Hits(Points(Current)) : Report(Hits(Current.left..unread - 1))
  /\ outcome' = "failed"
  /\ UNCHANGED <<query, stack>>

\* The walk is over.  Range on disk reads the data of its matches only now, and
\* a read that fails leaves the caller without a result.
Return ==
  /\ outcome = "walking" /\ stack = <<>>
  /\ \/ outcome' = "done" /\ UNCHANGED <<found, reports>>
     \/ /\ OnDisk /\ query.kind = "range" /\ found # {}
        /\ outcome' = "failed" /\ found' = {} /\ reports' = 0
  /\ UNCHANGED <<query, stack>>

Visit == VisitLeaf \/ VisitNode \/ Return

QueryNext ==
  \/ \E q \in Queries : Ask(q)
  \/ Visit
  \/ Stop
  \/ ReadFails

-----------------------------------------------------------------------------
(* The queries on a tree that has been built, by whatever means.           *)

Built ==
  /\ coords \in [Pos -> [0..1 -> Int]]
  /\ Grown(tree)
  /\ \A range \in tree : Split(range)

QuerySpec == Built /\ QueryInit /\ [][QueryNext /\ UNCHANGED <<coords, tree>>]_<<coords, tree, queryVars>>

-----------------------------------------------------------------------------
(* Properties.                                                             *)

\* The positions of the ranges in a sequence.
Covered(s) == UNION {Points(s[n]) : n \in DOMAIN s}

TypeOKQuery ==
  /\ query \in Queries \union {NoQuery}
  /\ \A n \in DOMAIN stack : stack[n].left \in 0..N /\ stack[n].right \in -1..N-1
  /\ found \subseteq Pos
  /\ reports \in Nat
  /\ outcome \in {"idle", "walking", "done", "stopped", "failed"}

(* The halves that a walk has left out hold no match: each match has been  *)
(* reported or lies in a range still to be visited, so a walk that ends by *)
(* itself has reported them all, and it reports nothing else               *)
(* (kdbush.go:65-75 and 117-127, kdbush_disk.go:312-317 and 407-412).      *)
NothingSkipped ==
  /\ outcome \in {"walking", "done"} => Hits(Pos) \subseteq found \union Covered(stack)
  /\ outcome \in {"walking", "done", "stopped"} => found \subseteq Hits(Pos)

(* No point is reported twice: what is still to be visited is disjoint     *)
(* from what has been, whatever way the walk went.                         *)
ReportedOnce ==
  reports = Cardinality(found)
=============================================================================
