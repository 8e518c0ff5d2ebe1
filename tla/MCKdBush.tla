------------------------------ MODULE MCKdBush ------------------------------
(***************************************************************************)
(* KdBush on all slices of N points of a small grid, with queries that     *)
(* meet all of it, none of it, a side, and an edge exactly.                *)
(***************************************************************************)
EXTENDS KdBush

At(x, y) == [axis \in 0..1 |-> IF axis = 0 THEN x ELSE y]

MCPointSets == [Pos -> {At(x, y) : x \in 0..1, y \in 0..1}]

MCQueries == {Box(At(0, 1), At(1, 1)), Box(At(0, 0), At(0, 0)),
              Disk(At(1, 1), 1), Disk(At(0, 0), 0)}
=============================================================================
