------------------------------- MODULE V1Load -------------------------------
(***************************************************************************)
(* Loading a cache file of the first format (savev1.Load, loadV1Cache).    *)
(*                                                                         *)
(* The points come out of a pipeline of three goroutines: one reads the    *)
(* blobs, one decodes them, one maps their points; bounded channels join   *)
(* them and the consumer ranges over the last.  The zones are read from    *)
(* the same reader by the consumer itself when the points' loop is over:   *)
(* nothing but the order in which the channels are closed keeps it and the *)
(* reading goroutine apart.                                                *)
(*                                                                         *)
(* The file is written in place and in order (savev1.Save), so a save that *)
(* stops leaves a prefix of it; besides, some sections may be damaged so   *)
(* that they do not decode.                                                *)
(***************************************************************************)
EXTENDS V1File

CONSTANTS
  InputPoints, InputZones,   \* what is saved, sequences
  Damages,                   \* the sets of sections that may be damaged
  ChunkCap, BlobCap, OutCap, \* the channels' capacities (10, 10 and 100)
  Err                        \* an error in a channel

V1LoadAssumption ==
  /\ BlobSize \in Nat \ {0}
  /\ InputPoints \in Seq(Range(InputPoints))
  /\ InputZones \in Seq(Range(InputZones))
ASSUME V1LoadAssumption

\* Points and zones are records, and an error is not taken for one of what
\* the channels carry: a point, a number of a section, a blob of points.
RecordAssumption ==
  /\ \A p \in Range(InputPoints) :
       p = [at |-> p.at, street |-> p.street, city |-> p.city, region |-> p.region]
  /\ \A z \in Range(InputZones) : z = [type |-> z.type, name |-> z.name, area |-> z.area]
  /\ Err \notin Range(InputPoints)
  /\ Err \notin Nat
  /\ Err \notin Seq([at : {p.at : p \in Range(InputPoints)},
                     street : Nat, city : Nat, region : Nat])
ASSUME RecordAssumption

VARIABLES
  file,       \* the sections that follow the prelude
  written,    \* how many sections the save wrote
  saving,     \* it has not ended
  damage,     \* the damaged sections
  pos,        \* the section r is about to read
  stopped,    \* the flag that tells the goroutines to stop
  reader,     \* the reading goroutine: where it is, and its blob
  chunkChan, decoder, blobChan, mapper, outChan,
  consumer,   \* where the consumer is
  points,     \* what the consumer has got
  zones,
  zonesRead   \* how many zone blobs it has read

fileVars == <<file, written, saving, damage>>
pipeline == <<reader, chunkChan, decoder, blobChan, mapper, outChan>>
gotVars  == <<points, zones, zonesRead>>
vars == <<fileVars, pos, stopped, pipeline, consumer, gotVars>>

\* The sections of a file: header size, header, metadata, strings, blobs.
Prelude   == 4
NumPoints == Len(file.points)     \* len(header.PointsBlobSizes)
NumZones  == Len(file.zones)      \* len(header.ZonesBlobSizes)
Sections  == Prelude + NumPoints + NumZones

-----------------------------------------------------------------------------
Init ==
  /\ file = SavedFile(InputPoints, InputZones)
  /\ written = 0
  /\ saving = TRUE
  /\ damage \in Damages
  /\ pos = 1
  /\ stopped = FALSE
  /\ reader = [at |-> "idle", i |-> 1]
  /\ chunkChan = <<>>
  /\ decoder = [at |-> "receive", blob |-> <<>>]
  /\ blobChan = <<>>
  /\ mapper = [at |-> "receive", out |-> <<>>]
  /\ outChan = <<>>
  /\ consumer = "open"
  /\ points = <<>>
  /\ zones = <<>>
  /\ zonesRead = 0

(* Save writes the sections in order; it may fail or the process may end   *)
(* before the last.                                                        *)
WriteSection ==
  /\ saving
  /\ written' = written + 1
  /\ saving' = (written' < Sections)
  /\ UNCHANGED <<file, damage, pos, stopped, pipeline, consumer, gotVars>>

SaveStops ==
  /\ saving
  /\ saving' = FALSE
  /\ UNCHANGED <<file, written, damage, pos, stopped, pipeline, consumer, gotVars>>

Readable(section) == section <= written
Decodes(section)  == section \notin damage

(* The call of Load: an error of any section of the prelude is returned.   *)
(* The loop over the points starts the three goroutines.                   *)
Open ==
  /\ ~saving /\ consumer = "open"
  /\ IF \A s \in 1..Prelude : Readable(s) /\ Decodes(s)
     THEN consumer' = "points" /\ pos' = Prelude + 1 /\ reader' = [reader EXCEPT !.at = "check"]
     ELSE consumer' = "failed" /\ UNCHANGED <<pos, reader>>
  /\ UNCHANGED <<fileVars, stopped, chunkChan, decoder, blobChan, mapper, outChan, gotVars>>

-----------------------------------------------------------------------------
(* The reading goroutine.                                                  *)

\* Mutant: chunkChan is not closed after the last blob.
ReaderCheckOpen ==
  /\ reader.at = "check"
  /\ reader' = [reader EXCEPT !.at = IF reader.i > NumPoints THEN "idle"
                                     ELSE IF stopped THEN "end" ELSE "read"]
  /\ UNCHANGED <<fileVars, pos, stopped, chunkChan, decoder, blobChan, mapper,
                 outChan, consumer, gotVars>>

ReaderCheck ==
  /\ reader.at = "check"
  /\ reader' = [reader EXCEPT !.at = IF stopped \/ reader.i > NumPoints THEN "end"
                                     ELSE "read"]
  /\ UNCHANGED <<fileVars, pos, stopped, chunkChan, decoder, blobChan, mapper,
                 outChan, consumer, gotVars>>

ReaderRead ==
  /\ reader.at = "read"
  /\ reader' = [reader EXCEPT !.at = IF Readable(pos) THEN "send" ELSE "fail"]
  /\ pos' = pos + 1
  /\ UNCHANGED <<fileVars, stopped, chunkChan, decoder, blobChan, mapper,
                 outChan, consumer, gotVars>>

ReaderSend ==
  /\ reader.at \in {"send", "fail"}
  /\ Len(chunkChan) < ChunkCap
  /\ IF reader.at = "send"
     THEN /\ chunkChan' = Append(chunkChan, Prelude + reader.i)
          /\ reader' = [at |-> "check", i |-> reader.i + 1]
     ELSE /\ chunkChan' = Append(chunkChan, Err)
          /\ reader' = [reader EXCEPT !.at = "end"]
  /\ UNCHANGED <<fileVars, pos, stopped, decoder, blobChan, mapper, outChan,
                 consumer, gotVars>>

-----------------------------------------------------------------------------
(* The decoding goroutine.  It returns after a blob that does not decode,  *)
(* and then nobody receives from chunkChan any more.                       *)

\* Mutant: the goroutine returns without passing the error on.
DecodedQuiet(chunk) ==
  IF chunk = Err THEN [at |-> "send", blob |-> Err]
  ELSE IF Decodes(chunk) THEN [at |-> "send", blob |-> file.points[chunk - Prelude]]
  ELSE [at |-> "end", blob |-> <<>>]

Decoded(chunk) ==
  IF chunk = Err THEN [at |-> "send", blob |-> Err]
  ELSE IF Decodes(chunk) THEN [at |-> "send", blob |-> file.points[chunk - Prelude]]
  ELSE [at |-> "last", blob |-> Err]

DecoderReceive ==
  /\ decoder.at = "receive"
  /\ \/ /\ chunkChan # <<>>
        /\ chunkChan' = Tail(chunkChan)
        /\ decoder' = IF stopped THEN [decoder EXCEPT !.at = "end"]
                      ELSE Decoded(Head(chunkChan))
     \/ /\ chunkChan = <<>> /\ reader.at = "end"
        /\ decoder' = [decoder EXCEPT !.at = "end"]
        /\ UNCHANGED chunkChan
  /\ UNCHANGED <<fileVars, pos, stopped, reader, blobChan, mapper, outChan,
                 consumer, gotVars>>

DecoderSend ==
  /\ decoder.at \in {"send", "last"}
  /\ Len(blobChan) < BlobCap
  /\ blobChan' = Append(blobChan, decoder.blob)
  /\ decoder' = [at |-> IF decoder.at = "last" THEN "end" ELSE "receive", blob |-> <<>>]
  /\ UNCHANGED <<fileVars, pos, stopped, reader, chunkChan, mapper, outChan,
                 consumer, gotVars>>

-----------------------------------------------------------------------------
(* The mapping goroutine.                                                  *)

Mapped(blob) == IF blob = Err THEN <<Err>> ELSE MapPoints(blob, file)

MapperReceive ==
  /\ mapper.at = "receive"
  /\ \/ /\ blobChan # <<>>
        /\ blobChan' = Tail(blobChan)
        /\ mapper' = IF stopped THEN [mapper EXCEPT !.at = "end"]
                     ELSE LET out == Mapped(Head(blobChan))
                          IN  [at |-> IF out = <<>> THEN "receive" ELSE "send", out |-> out]
     \/ /\ blobChan = <<>> /\ decoder.at = "end"
        /\ mapper' = [mapper EXCEPT !.at = "end"]
        /\ UNCHANGED blobChan
  /\ UNCHANGED <<fileVars, pos, stopped, reader, chunkChan, decoder, outChan,
                 consumer, gotVars>>

MapperSend ==
  /\ mapper.at = "send"
  /\ Len(outChan) < OutCap
  /\ outChan' = Append(outChan, Head(mapper.out))
  /\ mapper' = [at |-> IF Len(mapper.out) = 1 THEN "receive" ELSE "send",
                out |-> Tail(mapper.out)]
  /\ UNCHANGED <<fileVars, pos, stopped, reader, chunkChan, decoder, blobChan,
                 consumer, gotVars>>

-----------------------------------------------------------------------------
(* The consumer: loadV1Cache gives up at the first error.                  *)

\* Mutant: an error of a point is passed over.
TakePointLax ==
  /\ consumer = "points" /\ outChan # <<>>
  /\ outChan' = Tail(outChan)
  /\ points' = IF Head(outChan) = Err THEN points ELSE Append(points, Head(outChan))
  /\ UNCHANGED <<fileVars, pos, stopped, consumer, reader, chunkChan, decoder,
                 blobChan, mapper, zones, zonesRead>>

TakePoint ==
  /\ consumer = "points" /\ outChan # <<>>
  /\ outChan' = Tail(outChan)
  /\ IF Head(outChan) = Err
     THEN consumer' = "failed" /\ stopped' = TRUE /\ UNCHANGED points
     ELSE points' = Append(points, Head(outChan)) /\ UNCHANGED <<consumer, stopped>>
  /\ UNCHANGED <<fileVars, pos, reader, chunkChan, decoder, blobChan, mapper, zones, zonesRead>>

EndPoints ==
  /\ consumer = "points" /\ outChan = <<>> /\ mapper.at = "end"
  /\ consumer' = "zones"
  /\ UNCHANGED <<fileVars, pos, stopped, pipeline, gotVars>>

\* The next zone blob; bytes read at another place are not one.
ReadZones ==
  /\ consumer = "zones" /\ zonesRead < NumZones
  /\ IF /\ pos = Prelude + NumPoints + zonesRead + 1
        /\ Readable(pos) /\ Decodes(pos)
     THEN /\ zones' = zones \o MapZones(file.zones[zonesRead + 1], file)
          /\ UNCHANGED consumer
     ELSE consumer' = "failed" /\ UNCHANGED zones
  /\ zonesRead' = zonesRead + 1
  /\ pos' = pos + 1
  /\ UNCHANGED <<fileVars, stopped, pipeline, points>>

LoadReturns ==
  /\ consumer = "zones" /\ zonesRead = NumZones
  /\ consumer' = "loaded"
  /\ UNCHANGED <<fileVars, pos, stopped, pipeline, gotVars>>

-----------------------------------------------------------------------------
Pipeline ==
  \/ ReaderCheck \/ ReaderRead \/ ReaderSend
  \/ DecoderReceive \/ DecoderSend
  \/ MapperReceive \/ MapperSend

Consume == Open \/ TakePoint \/ EndPoints \/ ReadZones \/ LoadReturns

Next == WriteSection \/ SaveStops \/ Pipeline \/ Consume

\* Every goroutine that can go on goes on; a save goes on or stops.
Fairness ==
  /\ WF_vars(WriteSection)
  /\ WF_vars(ReaderCheck \/ ReaderRead \/ ReaderSend)
  /\ WF_vars(DecoderReceive \/ DecoderSend)
  /\ WF_vars(MapperReceive \/ MapperSend)
  /\ WF_vars(Consume)

Spec == Init /\ [][Next]_vars /\ Fairness

-----------------------------------------------------------------------------
(* Properties.                                                             *)

SavedZones == OfType(InputZones, "region") \o OfType(InputZones, "country")

(* Through the three goroutines and the tables of strings, what the        *)
(* consumer gets is what was saved, in that order and with nothing left    *)
(* out before it, whatever is damaged (load.go:108-165, cache.go:29-83).   *)
DeliveredInOrder ==
  /\ IsPrefix(points, InputPoints)
  /\ IsPrefix(zones, SavedZones)

(* A load that succeeds has everything, and one that fails does so because *)
(* of the file: an error of any stage reaches the consumer, and is not     *)
(* taken for the end of the points (load_v1.go:19-34, load.go:66-98).      *)
LoadIsExact ==
  /\ consumer = "loaded" => /\ points = InputPoints /\ zones = SavedZones
                            /\ written = Sections /\ damage \intersect 1..Sections = {}
  /\ consumer = "failed" => written < Sections \/ damage # {}

(* "points should be consumed before zones" (load.go:138): the consumer    *)
(* reads zones only when the reading goroutine, which uses the same        *)
(* reader, has ended behind the last blob of points.                       *)
ZonesAfterPoints ==
  consumer \in {"zones", "loaded"} => reader.at = "end" /\ pos > Prelude + NumPoints

(* loadV1Cache returns, whatever the file holds (load_v1.go:12-35).        *)
LoadEnds == <>(consumer \in {"loaded", "failed"})
=============================================================================
