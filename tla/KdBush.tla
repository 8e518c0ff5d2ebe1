------------------------------- MODULE KdBush -------------------------------
(***************************************************************************)
(* A KDBush from NewBush or BuildDisk to a query: KdSort arranges the      *)
(* points, and then a query walks them as in KdQuery.                      *)
(***************************************************************************)
EXTENDS KdSort, KdQuery

vars == <<sortVars, queryVars>>

Init == SortInit /\ QueryInit

Build == SortNext /\ UNCHANGED queryVars

Answer == Sorted /\ QueryNext /\ UNCHANGED sortVars

Next == Build \/ Answer

\* sort and the walks are loops of the calling thread; it need not ask, and a
\* handler need not stop.
Spec == Init /\ [][Next]_vars /\ WF_vars(Build) /\ WF_vars(Visit /\ UNCHANGED sortVars)

-----------------------------------------------------------------------------
(* Properties.                                                             *)

TypeOK == TypeOKSort /\ TypeOKQuery

(* What Within and Range return, against the slice that the caller gave to *)
(* NewBush: the points that match, each of them once and under its own     *)
(* index (kdbush.go:29, 48, 97).                                           *)
AnswerIsExact ==
  outcome = "done" =>
    /\ {idxs[i] : i \in found} = {p \in Pos : Matches(query, points[p])}
    /\ reports = Cardinality({p \in Pos : Matches(query, points[p])})

(* The loop of sselect ends, because every pass narrows the range, and a   *)
(* query comes to an end (kdbush.go:169, 214-219).                         *)
Ends == <>Sorted /\ (outcome = "walking" ~> outcome \in {"done", "stopped", "failed"})
=============================================================================
