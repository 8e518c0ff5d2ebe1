------------------------------ MODULE MCRings ------------------------------
(***************************************************************************)
(* Two squares apart and a small one inside the first, whole or cut into   *)
(* ways, the ways in every order and direction; with a way of the outer    *)
(* ring missing, or a node, or all of its nodes; with a way twice, with    *)
(* squares that touch.                                                     *)
(***************************************************************************)
EXTENDS Rings

CONSTANTS noWay, noNode

Out(nodes) == [role |-> "outer", nodes |-> nodes]
In(nodes) == [role |-> "inner", nodes |-> nodes]

\* The pieces of a square with a corner at p, cut after the given corners.
Corner(p, side, k) == CASE k \in {0, 4} -> p
                        [] k = 1 -> <<p[1] + side, p[2]>>
                        [] k = 2 -> <<p[1] + side, p[2] + side>>
                        [] k = 3 -> <<p[1], p[2] + side>>
Piece(p, side, from, to) == [k \in 1..to - from + 1 |-> Corner(p, side, from + k - 1)]

A(from, to) == Out(Piece(<<0, 0>>, 4, from, to))
B(from, to) == Out(Piece(<<6, 1>>, 2, from, to))
Touching(from, to) == Out(Piece(<<4, 4>>, 2, from, to))
Hole(from, to) == In(Piece(<<1, 1>>, 2, from, to))

Relations == {
  <<A(0, 1), A(1, 2), A(2, 4), Hole(0, 4)>>,
  <<A(0, 2), A(2, 4), B(0, 4), Hole(0, 1), Hole(1, 4)>>,
  <<A(0, 4), Hole(0, 2), Hole(2, 4)>>,
  <<A(0, 4), B(0, 3), B(3, 4)>>,
  <<A(0, 2), A(0, 2), A(2, 4)>>,
  <<A(0, 2), A(2, 4), Touching(0, 2), Touching(2, 4)>>,
  <<A(0, 2), Out(noWay), B(0, 4), Hole(0, 4)>>,
  <<Out(<<<<0, 0>>, <<4, 0>>, <<4, 4>>, noNode>>), A(3, 4), B(0, 4)>>,
  <<Out(<<noNode, noNode>>), Hole(0, 4)>>,
  <<Out(<<<<0, 0>>, <<4, 0>>, noNode, <<0, 4>>, <<0, 0>>>>), Hole(0, 3)>>,
  <<A(0, 2), Hole(0, 4)>> }

Turned(m) == IF m.nodes = noWay THEN m ELSE [m EXCEPT !.nodes = Reverse(@)]
Permutation(S) == {f \in [S -> S] : \A i, j \in S : i # j => f[i] # f[j]}

MCInputs ==
  UNION {{[i \in DOMAIN r |-> IF f[i] \in turned THEN Turned(r[f[i]]) ELSE r[f[i]]] :
            f \in Permutation(DOMAIN r), turned \in SUBSET DOMAIN r} : r \in Relations}
=============================================================================
