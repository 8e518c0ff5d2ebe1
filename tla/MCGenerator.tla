----------------------------- MODULE MCGenerator -----------------------------
(***************************************************************************)
(* A generator over two overlapping extracts: way w1 is in both, and the   *)
(* highway relation r1 has it as a member twice; r2 is a region.           *)
(***************************************************************************)
EXTENDS Generator, TLC

CONSTANTS n1, w1, r1, r2, g1, g2, none, err

MCNodes == {n1}
MCWays == {w1}
MCRelations == {r1, r2}
MCSources == {"nodes", "ways", "relations"}
MCInput == "nodes" :> <<n1>> @@ "ways" :> <<w1, w1>> @@ "relations" :> <<r1, r2>>
MCPointsOf == n1 :> <<"n1a">> @@ w1 :> <<"w1a", "w1b">>
                @@ r1 :> <<>> @@ r2 :> <<>>
MCMembersOf == r1 :> <<w1, w1>> @@ r2 :> <<>>
MCZoneOf == r1 :> "none" @@ r2 :> "region"
MCWorkers == {g1, g2}
=============================================================================
