------------------------------ MODULE Generator ------------------------------
(***************************************************************************)
(* geoparser.ParseOSMData: the parsing half (OsmParse) and the saving half *)
(* (SaveWorker) run side by side in an errgroup.  They share the           *)
(* parsedPoints and parsingDone channels and, once parsing is done, the    *)
(* zone lists.                                                             *)
(***************************************************************************)
EXTENDS Integers, Sequences, SequencesExt

CONSTANTS
  Nodes, Ways, Relations, Sources, Input, RelationSource, PointsOf, MembersOf,
  ZoneOf, Workers, PointCap, None, Err,   \* see OsmParse
  N                                       \* the number of outputs

Objects == Nodes \union Ways \union Relations
Points(obj) == {PointsOf[obj][i] : i \in DOMAIN PointsOf[obj]}
AllPoints == UNION {Points(obj) : obj \in Objects}

ASSUME InputAssumption ==
  /\ IsFiniteSet(Sources)
  /\ Input \in [Sources -> Seq(Objects)]
  /\ RelationSource \in Sources
  /\ Input[RelationSource] \in Seq(Relations)
  /\ PointCap \in Nat \ {0}
  /\ None \notin Objects
  /\ N \in Nat \ {0}

\* An identifier has the type of its object in it (osm.ObjectID).
ASSUME ObjectAssumption ==
  /\ Nodes \intersect Ways = {}
  /\ Nodes \intersect Relations = {}
  /\ Ways \intersect Relations = {}
  /\ PointsOf \in [Objects -> Seq(AllPoints)]
  /\ MembersOf \in [Relations -> Seq(Ways)]
  /\ ZoneOf \in [Relations -> {"region", "country", "none"}]

\* A point stands for the making of it: an object and a place in its list.
ASSUME PointAssumption ==
  /\ None \notin AllPoints
  /\ \A way \in Ways : \A i \in DOMAIN PointsOf[way] :
       \A obj \in Objects : \A j \in DOMAIN PointsOf[obj] :
         PointsOf[obj][j] = PointsOf[way][i] => obj = way /\ j = i

VARIABLES
  stage, filled, caching, cached, read, out, job, parsedWays, parsedRelations,
  readFailed,
  regions, countries, points, pointsClosed, parsingDone,
  pointsTee, zonesTee, zonesRead, saver, gotPoints, gotZones, earlyFailed

Parse == INSTANCE OsmParse
SaveW == INSTANCE SaveWorker

parseVars == <<stage, filled, caching, cached, read, out, job, parsedWays,
               parsedRelations, readFailed>>
sharedVars == <<regions, countries, points, pointsClosed, parsingDone>>
saveVars == <<pointsTee, zonesTee, zonesRead, saver, gotPoints, gotZones,
              earlyFailed>>
vars == <<parseVars, sharedVars, saveVars>>

Init == Parse!Init /\ SaveW!Init

Run ==
  \/ Parse!Run /\ UNCHANGED saveVars
  \/ SaveW!Run /\ UNCHANGED parseVars

Fault ==
  \/ Parse!Fault /\ UNCHANGED saveVars
  \/ SaveW!Fault /\ UNCHANGED parseVars

Next == Run \/ Fault

\* The scheduler does not stop while a goroutine can run; nothing has to fail.
Spec == Init /\ [][Next]_vars /\ WF_vars(Run)

Outputs == 1..N

\* errgroup.Wait in ParseOSMData returns.
Returned == Parse!ParseReturned /\ SaveW!SaveReturned

-----------------------------------------------------------------------------
(* Properties.                                                             *)

TypeOK == Parse!TypeOK /\ SaveW!TypeOK

\* The points an output will have taken of those that way has sent so far.
Sent(o) ==
  gotPoints[o] \o pointsTee.chs[o]
    \o (IF pointsTee.hold # None /\ pointsTee.next <= o THEN <<pointsTee.hold>> ELSE <<>>)
    \o points

(* A way is parsed once: it comes from the ways of every extract and again *)
(* from each relation it is a member of, in any two goroutines, and none   *)
(* of its points reaches an output twice (parser.go:80).                   *)
WaysOnce ==
  \A o \in Outputs : \A way \in Ways : \A i \in DOMAIN PointsOf[way] :
    Cardinality({j \in DOMAIN Sent(o) : Sent(o)[j] = PointsOf[way][i]}) <= 1

(* No point exists before the relation cache is complete: every lookup of  *)
(* a city, a region or a localized name sees all of it (fill_cache.go:18). *)
CacheBeforePoints ==
  (\E w \in Workers : job[w] # Parse!Idle) \/ points # <<>> =>
    cached = Parse!Elements(Input[RelationSource])

(* All outputs are given the same points in the same order, however far    *)
(* each has read (save.go:109).                                            *)
OutputsAgree ==
  \A o, p \in Outputs : IsPrefix(gotPoints[o], gotPoints[p])
                          \/ IsPrefix(gotPoints[p], gotPoints[o])

(* A file that has been written holds every point of every way, node and   *)
(* relation that was parsed and every zone, regions first: the zone lists  *)
(* were not read before the last append.                                   *)
SavedIsComplete ==
  \A o \in Outputs : saver[o] = "saved" =>
    /\ \A s \in Sources : \A obj \in Parse!Elements(Input[s]) :
         Parse!Elements(PointsOf[obj]) \subseteq Parse!Elements(gotPoints[o])
    /\ gotZones[o] = regions \o countries
    /\ \A r \in Parse!Elements(Input[RelationSource]) :
         ZoneOf[r] # "none" => r \in Parse!Elements(gotZones[o])

(* Unless a read fails or an output fails at its first write, everything   *)
(* comes to an end: no channel stays full, no goroutine waits for ever,    *)
(* and an output that fails at the end does not hold up the others.        *)
Terminates == <>(Returned \/ readFailed \/ earlyFailed # {})

(* "error parsing osm with error" (cmd/main.go:336): when the input cannot *)
(* be read to its end, ParseOSMData returns the error to its caller.       *)
ReadErrorIsReturned == <>(Returned \/ earlyFailed # {})
=============================================================================
