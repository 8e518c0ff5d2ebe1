----------------------------- MODULE MCGeocoder -----------------------------
(***************************************************************************)
(* Three points on a few lines and corners, light and heavy, with and      *)
(* without a region of their own; a region and two countries side by side, *)
(* of which one is too thin to survive its simplification.  Lengths are    *)
(* halves of the tolerance.                                                *)
(***************************************************************************)
EXTENDS Geocoder

CONSTANTS a, b, nul, err, notFound, none

At(x, y) == 0 :> x @@ 1 :> y
MCPoint(c, name, region, weight) == [c |-> c, name |-> name, region |-> region, weight |-> weight]
MCZone(type, name, min, max) == [type |-> type, name |-> name, rect |-> [min |-> min, max |-> max]]

Coords == {<<At(1, 1), At(2, 1), At(3, 1)>>, <<At(2, 2), At(1, 1), At(2, 0)>>,
                <<At(3, 3), At(3, 3), At(1, 2)>>, <<At(1, 0), At(9, 9), At(0, 1)>>}
Weights == {<<1, 1, 1>>, <<1, 2, 1>>, <<3, 2, 1>>, <<0, 1, 2>>}
Names == {<<<<a>>, <<a, b>>, <<b>>>>, <<<<a>>, <<b, a, a>>, <<b>>>>}
Regions == <<<<>>, <<a>>, <<>>>>

Region == MCZone("region", <<a, a>>, At(0, 0), At(4, 4))
Country == MCZone("country", <<b, b>>, At(0, -1), At(5, 6))
Thin == MCZone("country", <<b, a>>, At(-6, 6), At(0, 8))

MCInputs ==
  {[points |-> [i \in 1..3 |-> MCPoint(c[i], names[i], Regions[i], w[i])],
    zones  |-> zones] :
     c \in Coords, w \in Weights, names \in Names,
     zones \in {<<>>, <<Thin>>, <<Country, Region, Thin>>}}

MCPlaces == {At(1, 1), At(3, 2), At(-2, 7), At(4, 5)}
MCEmpty == <<>>
=============================================================================
