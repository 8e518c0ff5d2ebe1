---------------------------- MODULE MCSimulator ----------------------------
(***************************************************************************)
(* Three items of work, posted to a Go and a Rust server by two workers:   *)
(* one of three points, which is looked up by none, one or two goroutines  *)
(* according to GOMAXPROCS, one of one point, and one whose body does not  *)
(* decode.                                                                 *)
(***************************************************************************)
EXTENDS Simulator, TLC

CONSTANTS p1, p2, p3, info1, info2, bad, noInfo, none, lost, garbled, c1, c2

MCServers == {"A", "B"}
MCOrder == <<"A", "B">>
MCRequests == (1..3) \X MCServers
MCHome == [q \in MCRequests |-> q[2]]
MCRequestOf(i, s) == <<i, s>>
MCBody == [q \in MCRequests |-> CASE q[1] = 1 -> <<p1, p3, p2>> [] q[1] = 2 -> <<p2>> [] q[1] = 3 -> bad]
MCFind == p1 :> info1 @@ p2 :> info2 @@ p3 :> noInfo
=============================================================================
