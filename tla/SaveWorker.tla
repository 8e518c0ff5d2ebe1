----------------------------- MODULE SaveWorker -----------------------------
(***************************************************************************)
(* The consuming half of geoparser.ParseOSMData: saveWorker duplicates the *)
(* parsedPoints channel and the zone lists to every output with two Tees,  *)
(* and a goroutine per output saves them.  Both formats write the magic    *)
(* bytes first, then take all the points, then all the zones, and write    *)
(* the rest when they have everything.                                     *)
(*                                                                         *)
(* Every output has a supported format.  An output's file is the points    *)
(* and zones it has taken; a write may fail at either of the two moments.  *)
(***************************************************************************)
EXTENDS Integers, Sequences

CONSTANTS
  N,             \* the number of outputs
  None

VARIABLES
  regions, countries, points, pointsClosed, parsingDone,  \* see OsmParse
  pointsTee,     \* the state of the points' Tee
  zonesTee,
  zonesRead,     \* how many zones the zones iterator has yielded
  saver,         \* where each output's goroutine is
  gotPoints,     \* the points each output has taken, in order
  gotZones,
  earlyFailed    \* the outputs that failed before taking anything (history)

zoneVars == <<regions, countries>>
chanVars == <<points, pointsClosed, parsingDone>>

Outputs == 1..N

PointsTee == INSTANCE Tee WITH tee <- pointsTee, BufferSize <- 1
ZonesTee  == INSTANCE Tee WITH tee <- zonesTee, BufferSize <- 1

Zones == regions \o countries

Init ==
  /\ pointsTee = PointsTee!New
  /\ zonesTee = ZonesTee!New
  /\ zonesRead = 0
  /\ saver = [o \in Outputs |-> "start"]
  /\ gotPoints = [o \in Outputs |-> <<>>]
  /\ gotZones = [o \in Outputs |-> <<>>]
  /\ earlyFailed = {}

-----------------------------------------------------------------------------
(* The goroutine of the points' Tee ranges over parsedPoints.              *)

TeePoint ==
  /\ points # <<>>
  /\ PointsTee!Take(Head(points))
  /\ points' = Tail(points)
  /\ UNCHANGED <<zonesTee, zonesRead, saver, gotPoints, gotZones, earlyFailed,
                 zoneVars, pointsClosed, parsingDone>>

TeePoints ==
  /\ \/ PointsTee!Push
     \/ points = <<>> /\ pointsClosed /\ PointsTee!Close
  /\ UNCHANGED <<zonesTee, zonesRead, saver, gotPoints, gotZones, earlyFailed,
                 zoneVars, chanVars>>

(* The goroutine of the zones' Tee first waits for parsingDone, then       *)
(* ranges over the regions and the countries.                              *)

TeeZones ==
  /\ \/ /\ parsingDone
        /\ zonesRead < Len(Zones)
        /\ ZonesTee!Take(Zones[zonesRead + 1])
        /\ zonesRead' = zonesRead + 1
     \/ ZonesTee!Push /\ UNCHANGED zonesRead
     \/ /\ parsingDone
        /\ zonesRead = Len(Zones)
        /\ ZonesTee!Close
        /\ UNCHANGED zonesRead
  /\ UNCHANGED <<pointsTee, saver, gotPoints, gotZones, earlyFailed, zoneVars,
                 chanVars>>

-----------------------------------------------------------------------------
(* SaveV1 and SaveV2.                                                      *)

Goto(o, from, to) ==
  /\ saver[o] = from
  /\ saver' = [saver EXCEPT ![o] = to]

\* The magic bytes and the compatibility level are written.
SaveMagic(o) ==
  /\ Goto(o, "start", "points")
  /\ UNCHANGED <<pointsTee, zonesTee, zonesRead, gotPoints, gotZones, earlyFailed,
                 zoneVars, chanVars>>

SaveMagicFails(o) ==
  /\ Goto(o, "start", "failed")
  /\ earlyFailed' = earlyFailed \union {o}
  /\ UNCHANGED <<pointsTee, zonesTee, zonesRead, gotPoints, gotZones, zoneVars,
                 chanVars>>

CollectPoint(o) ==
  /\ saver[o] = "points"
  /\ PointsTee!Receive(o)
  /\ gotPoints' = [gotPoints EXCEPT ![o] = Append(@, PointsTee!Received(o))]
  /\ UNCHANGED <<zonesTee, zonesRead, saver, gotZones, earlyFailed, zoneVars,
                 chanVars>>

EndPoints(o) ==
  /\ PointsTee!Ended(o)
  /\ Goto(o, "points", "zones")
  /\ UNCHANGED <<pointsTee, zonesTee, zonesRead, gotPoints, gotZones, earlyFailed,
                 zoneVars, chanVars>>

CollectZone(o) ==
  /\ saver[o] = "zones"
  /\ ZonesTee!Receive(o)
  /\ gotZones' = [gotZones EXCEPT ![o] = Append(@, ZonesTee!Received(o))]
  /\ UNCHANGED <<pointsTee, zonesRead, saver, gotPoints, earlyFailed, zoneVars,
                 chanVars>>

EndZones(o) ==
  /\ ZonesTee!Ended(o)
  /\ Goto(o, "zones", "write")
  /\ UNCHANGED <<pointsTee, zonesTee, zonesRead, gotPoints, gotZones, earlyFailed,
                 zoneVars, chanVars>>

\* Header, metadata, strings, points and zones.
Write(o) ==
  /\ Goto(o, "write", "saved")
  /\ UNCHANGED <<pointsTee, zonesTee, zonesRead, gotPoints, gotZones, earlyFailed,
                 zoneVars, chanVars>>

WriteFails(o) ==
  /\ Goto(o, "write", "failed")
  /\ UNCHANGED <<pointsTee, zonesTee, zonesRead, gotPoints, gotZones, earlyFailed,
                 zoneVars, chanVars>>

-----------------------------------------------------------------------------
Save(o) ==
  \/ SaveMagic(o)
  \/ CollectPoint(o)
  \/ EndPoints(o)
  \/ CollectZone(o)
  \/ EndZones(o)
  \/ Write(o)

Run ==
  \/ TeePoint
  \/ TeePoints
  \/ TeeZones
  \/ \E o \in Outputs : Save(o)

Fault == \E o \in Outputs : SaveMagicFails(o) \/ WriteFails(o)

\* saveWorker waits for every output.
SaveReturned == \A o \in Outputs : saver[o] \in {"saved", "failed"}

-----------------------------------------------------------------------------
TypeOK ==
  /\ pointsTee.next \in 1..N + 1
  /\ zonesTee.next \in 1..N + 1
  /\ \A o \in Outputs : Len(pointsTee.chs[o]) <= 1 /\ Len(zonesTee.chs[o]) <= 1
  /\ zonesRead \in 0..Len(Zones)
  /\ saver \in [Outputs -> {"start", "points", "zones", "write", "saved", "failed"}]
  /\ earlyFailed \subseteq Outputs
=============================================================================
