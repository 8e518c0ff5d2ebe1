------------------------------- MODULE Borders -------------------------------
(***************************************************************************)
(* bordertree: the borders of regions or of countries, searched by a       *)
(* point.  A border is a rectangle, as in the package's own tests; a point *)
(* on its edge is in it.  Points are pairs of integers, functions on 0..1. *)
(***************************************************************************)
EXTENDS Integers, Sequences

CONSTANTS
  Tolerance,   \* the tolerance of the simplification (0.01 degree)
  NotFound

Width(rect)  == rect.max[0] - rect.min[0]
Height(rect) == rect.max[1] - rect.min[1]

InRect(pt, rect) ==
  \A axis \in 0..1 : rect.min[axis] <= pt[axis] /\ pt[axis] <= rect.max[axis]

Inside(pt, rect) ==
  \A axis \in 0..1 : rect.min[axis] < pt[axis] /\ pt[axis] < rect.max[axis]

OnDiagonal(pt, rect) ==
  (pt[0] - rect.min[0]) * Height(rect) = (pt[1] - rect.min[1]) * Width(rect)

DiagonalSquared(rect) == Width(rect) * Width(rect) + Height(rect) * Height(rect)

(* Douglas-Peucker on the ring of a rectangle, which begins at its lower   *)
(* left corner: the opposite corner stays if it is farther away than the   *)
(* tolerance, and then the other two if they are farther from the diagonal.*)
Simplify(rect) ==
  IF DiagonalSquared(rect) <= Tolerance * Tolerance
  THEN "point"
  ELSE IF Width(rect) * Height(rect) * Width(rect) * Height(rect)
            <= Tolerance * Tolerance * DiagonalSquared(rect)
  THEN "diagonal"
  ELSE "rectangle"

MultiPolygonContains(shape, rect, pt) ==
  \/ shape = "rectangle" /\ InRect(pt, rect)
  \/ shape = "diagonal" /\ InRect(pt, rect) /\ OnDiagonal(pt, rect)
  \/ shape = "point" /\ pt = rect.min

\* The simplified border is kept and found by the bound of the original.
InsertBorder(bt, data, rect) ==
  Append(bt, [data |-> data, bound |-> rect, polygon |-> Simplify(rect)])

\* What a query may return: the search has an order of its own.
QueryPoint(bt, pt) ==
  LET hits == {i \in DOMAIN bt : /\ InRect(pt, bt[i].bound)
                                 /\ MultiPolygonContains(bt[i].polygon, bt[i].bound, pt)}
  IN  IF hits = {} THEN {NotFound} ELSE {bt[i].data : i \in hits}

\* BorderTree::query_point of the Rust server: borders are not simplified, and a
\* point on the edge is outside.
QueryPointRust(bt, pt) ==
  LET hits == {i \in DOMAIN bt : Inside(pt, bt[i].bound)}
  IN  IF hits = {} THEN {NotFound} ELSE {bt[i].data : i \in hits}
=============================================================================
