---------------------------- MODULE V1LoadProofs -----------------------------
(***************************************************************************)
(* Theorems about the loading of the first cache file format, for any      *)
(* points, zones, blob size, capacities of the channels and damage.        *)
(*                                                                         *)
(* Inv says how the stages of the pipeline end, from which follows that    *)
(* the zones are read after the points.  PathInv adds what is in the       *)
(* channels, from which follows that what is delivered is what was saved.  *)
(***************************************************************************)
EXTENDS V1Load, SequenceTheorems, FiniteSetTheorems, TLAPS

\* The file the save writes, and how many blobs of points it has.
F == SavedFile(InputPoints, InputZones)
N == Len(F.points)

\* The points as they are saved, and everything the mapping may send.
SavedPoints == {[i \in DOMAIN InputPoints |->
                   [InputPoints[i] EXCEPT !.street = UniqueMap(Column(InputPoints, "street"))[@],
                                          !.city   = UniqueMap(Column(InputPoints, "city"))[@],
                                          !.region = Names(InputPoints, InputZones)[@]]][k] :
                  k \in DOMAIN InputPoints}
Outs == {MapPoint(p, F) : p \in SavedPoints} \cup {Err}
PointBlobs == Seq(SavedPoints) \cup {Err}
Chunks == (Prelude + 1)..(Prelude + N) \cup {Err}

-----------------------------------------------------------------------------
\* Every blob is a piece of what is cut into blobs.
LEMMA BlobBounds ==
  ASSUME NEW L \in Nat, NEW B \in Nat \ {0}, NEW k \in 1..(L + B - 1) \div B
  PROVE  (k - 1) * B \in Nat /\ k * B \in Nat /\ (k - 1) * B + 1 <= L /\ k * B = (k - 1) * B + B
<1> DEFINE q == (L + B - 1) \div B
<1>1. q \in Int /\ q * B <= L + B - 1
  OBVIOUS
<1>2. k * B <= q * B
  BY <1>1
<1>3. (k - 1) * B = k * B - B
  OBVIOUS
<1>4. (k - 1) * B \in Nat /\ k * B \in Nat
  OBVIOUS
<1> QED
  BY <1>1, <1>2, <1>3, <1>4

LEMMA BlobsTyped ==
  ASSUME NEW S, NEW items \in Seq(S)
  PROVE  Blobs(items) \in Seq(Seq(S))
<1> DEFINE n == (Len(items) + BlobSize - 1) \div BlobSize
           lo(k) == (k - 1) * BlobSize + 1
           hi(k) == Min({k * BlobSize, Len(items)})
<1>1. BlobSize \in Nat \ {0} /\ Len(items) \in Nat
  BY V1LoadAssumption DEF V1LoadAssumption
<1>2. n \in Int
  BY <1>1
<1>3. n \in Nat
  BY <1>1, <1>2
<1>4. ASSUME NEW k \in 1..n PROVE SubSeq(items, lo(k), hi(k)) \in Seq(S)
  <2>1. /\ (k - 1) * BlobSize \in Nat /\ k * BlobSize \in Nat
        /\ lo(k) <= Len(items) /\ k * BlobSize >= lo(k)
    BY <1>1, BlobBounds
  <2>2. hi(k) \in {k * BlobSize, Len(items)}
    <3>1. \A a, b \in Nat : \E x \in {a, b} : \A y \in {a, b} : x <= y
      OBVIOUS
    <3>2. \E x \in {k * BlobSize, Len(items)} : \A y \in {k * BlobSize, Len(items)} : x <= y
      BY <1>1, <2>1, <3>1
    <3> QED
      BY <3>2 DEF Min
  <2>3. hi(k) <= Len(items)
    <3>1. \E x \in {k * BlobSize, Len(items)} : \A y \in {k * BlobSize, Len(items)} : x <= y
      BY <1>1, <2>1
    <3> QED
      BY <3>1 DEF Min
  <2>4. lo(k) \in 1..Len(items) + 1 /\ hi(k) \in lo(k) - 1..Len(items)
    BY <1>1, <2>1, <2>2, <2>3
  <2> HIDE DEF lo, hi
  <2> QED
    BY <2>4, SubSeqProperties
<1>5. Blobs(items) = [k \in 1..n |-> SubSeq(items, lo(k), hi(k))]
  BY DEF Blobs
<1> HIDE DEF n, lo, hi
<1> QED
  BY <1>3, <1>4, <1>5

LEMMA FileTyped == F.points \in Seq(Seq(SavedPoints)) /\ N \in Nat
<1> DEFINE items == [i \in DOMAIN InputPoints |->
                   [InputPoints[i] EXCEPT !.street = UniqueMap(Column(InputPoints, "street"))[@],
                                          !.city   = UniqueMap(Column(InputPoints, "city"))[@],
                                          !.region = Names(InputPoints, InputZones)[@]]]
<1>1. F.points = Blobs(items)
  BY DEF F, SavedFile
<1>2. SavedPoints = {items[k] : k \in DOMAIN InputPoints}
  BY DEF SavedPoints
<1>3. DOMAIN items = DOMAIN InputPoints /\ items = [i \in DOMAIN items |-> items[i]]
  OBVIOUS
<1> HIDE DEF items
<1>4. Len(InputPoints) \in Nat /\ DOMAIN InputPoints = 1..Len(InputPoints)
  BY V1LoadAssumption DEF V1LoadAssumption
<1>5. items \in Seq(SavedPoints)
  <2>1. items \in [1..Len(InputPoints) -> SavedPoints]
    BY <1>2, <1>3, <1>4
  <2> QED
    BY <1>4, <2>1
<1>6. F.points \in Seq(Seq(SavedPoints))
  BY <1>1, <1>5, BlobsTyped
<1> QED
  BY <1>6 DEF N

LEMMA MappedTyped ==
  ASSUME NEW blob \in PointBlobs, file = F
  PROVE  /\ Mapped(blob) \in Seq(Outs)
         /\ blob = Err => Mapped(blob) = <<Err>>
<1>1. CASE blob = Err
  BY <1>1 DEF Mapped, Outs
<1>2. CASE blob # Err
  <2>1. blob \in Seq(SavedPoints) /\ Len(blob) \in Nat /\ DOMAIN blob = 1..Len(blob)
    BY <1>2 DEF PointBlobs
  <2>2. \A i \in 1..Len(blob) : MapPoint(blob[i], F) \in Outs
    BY <2>1 DEF Outs
  <2>3. Mapped(blob) = [i \in 1..Len(blob) |-> MapPoint(blob[i], F)]
    BY <1>2, <2>1 DEF Mapped, MapPoints
  <2> QED
    BY <1>2, <2>1, <2>2, <2>3
<1> QED
  BY <1>1, <1>2

LEMMA DecodedTyped ==
  ASSUME NEW chunk \in Chunks, file = F
  PROVE  /\ Decoded(chunk).blob \in PointBlobs
         /\ Decoded(chunk) = [at |-> Decoded(chunk).at, blob |-> Decoded(chunk).blob]
         /\ Decoded(chunk).at \in {"send", "last"}
         /\ Decoded(chunk).at = "last" => Decoded(chunk).blob = Err
         /\ chunk = Err => Decoded(chunk).blob = Err
<1>1. CASE chunk = Err
  BY <1>1 DEF Decoded, PointBlobs
<1>2. CASE chunk # Err
  <2>1. chunk - Prelude \in 1..N
    BY <1>2, FileTyped DEF Chunks, Prelude
  <2>2. file.points[chunk - Prelude] \in Seq(SavedPoints)
    BY <2>1, FileTyped DEF N
  <2> QED
    BY <1>2, <2>2 DEF Decoded, PointBlobs
<1> QED
  BY <1>1, <1>2

-----------------------------------------------------------------------------
Has(channel) == \E k \in 1..Len(channel) : channel[k] = Err

Types ==
  /\ file = F
  /\ pos \in Nat /\ stopped \in BOOLEAN /\ zonesRead \in Nat
  /\ reader \in [at : {"idle", "check", "read", "send", "fail", "end"}, i : 1..N + 1]
  /\ chunkChan \in Seq(Chunks)
  /\ decoder \in [at : {"receive", "send", "last", "end"}, blob : PointBlobs]
  /\ blobChan \in Seq(PointBlobs)
  /\ mapper \in [at : {"receive", "send", "end"}, out : Seq(Outs)]
  /\ mapper.at = "send" => mapper.out # <<>>
  /\ outChan \in Seq(Outs)
  /\ consumer \in {"open", "points", "zones", "loaded", "failed"}

\* An error is on its way to the decoder, or to the consumer, or has arrived.
Coming == Has(chunkChan) \/ (decoder.at \in {"send", "last"} /\ decoder.blob = Err)
Passed == Has(blobChan) \/ (mapper.at = "send" /\ Has(mapper.out)) \/ Has(outChan)

\* A stage that has ended was the last to hold anything of the stage before,
\* or an error that was its end has been passed on and not been overtaken.
Inv ==
  /\ Types
  /\ stopped => consumer = "failed"
  /\ reader.at \in {"read", "send", "fail"} => reader.i <= N
  /\ reader.at \in {"check", "read"} => pos = Prelude + reader.i
  /\ reader.at \in {"send", "fail"} => pos = Prelude + reader.i + 1
  /\ reader.at \notin {"idle", "end"} => consumer \in {"points", "failed"}
  /\ consumer = "open" => reader = [at |-> "idle", i |-> 1]
  /\ reader.at = "end" => stopped \/ Coming \/ Passed \/ pos > Prelude + N
  /\ decoder.at = "last" => decoder.blob = Err
  /\ decoder.at = "end" => stopped \/ Passed \/ (reader.at = "end" /\ chunkChan = <<>>)
  /\ mapper.at = "end" => stopped \/ (decoder.at = "end" /\ blobChan = <<>>)
  /\ ZonesAfterPoints

LEMMA InitInv == Init => Inv
<1> SUFFICES ASSUME Init PROVE Inv
  OBVIOUS
<1>1. <<>> \in Seq(Chunks) /\ <<>> \in Seq(PointBlobs) /\ <<>> \in Seq(Outs) /\ <<>> \in PointBlobs
  BY DEF PointBlobs
<1>2. 1 \in 1..N + 1
  BY FileTyped
<1> QED
  BY <1>1, <1>2 DEF Init, Inv, Types, F, ZonesAfterPoints

\* A send adds to the channel what is sent, a receive takes the first.
LEMMA SendHas ==
  ASSUME NEW S, NEW channel \in Seq(S), NEW x \in S
  PROVE  /\ Append(channel, x) \in Seq(S)
         /\ Has(Append(channel, x)) <=> (Has(channel) \/ x = Err)
<1> DEFINE longer == Append(channel, x)
<1>1. /\ longer \in Seq(S) /\ Len(longer) = Len(channel) + 1 /\ longer[Len(channel) + 1] = x
      /\ \A k \in 1..Len(channel) : longer[k] = channel[k]
  OBVIOUS
<1>2. Len(channel) \in Nat
  OBVIOUS
<1> HIDE DEF longer
<1>3. Has(longer) <=> (Has(channel) \/ x = Err)
  <2>1. 1..Len(longer) = 1..Len(channel) \cup {Len(channel) + 1}
    BY <1>1, <1>2
  <2> QED
    BY <1>1, <2>1, Zenon DEF Has
<1> QED
  BY <1>1, <1>3 DEF longer

LEMMA ReceiveHas ==
  ASSUME NEW S, NEW channel \in Seq(S), channel # <<>>
  PROVE  /\ Head(channel) \in S /\ Tail(channel) \in Seq(S)
         /\ Has(channel) <=> (Head(channel) = Err \/ Has(Tail(channel)))
<1>1. /\ Head(channel) = channel[1] /\ Tail(channel) \in Seq(S) /\ Len(channel) \in Nat
      /\ Head(channel) \in S
      /\ Len(Tail(channel)) = Len(channel) - 1 /\ Len(channel) >= 1
  BY HeadTailProperties
<1>2. \A k \in 1..Len(channel) - 1 : Tail(channel)[k] = channel[k + 1]
  OBVIOUS
<1>3. ASSUME NEW k \in 1..Len(channel), channel[k] = Err
      PROVE  Head(channel) = Err \/ Has(Tail(channel))
  <2>1. CASE k = 1
    BY <1>1, <1>3, <2>1
  <2>2. CASE k # 1
    <3>1. k - 1 \in 1..Len(channel) - 1
      BY <1>1, <2>2
    <3>2. Tail(channel)[k - 1] = Err
      BY <1>2, <1>3, <3>1
    <3> QED
      BY <1>1, <3>1, <3>2 DEF Has
  <2> QED
    BY <2>1, <2>2
<1>4. ASSUME NEW k \in 1..Len(channel) - 1, Tail(channel)[k] = Err
      PROVE  Has(channel)
  <2>1. k + 1 \in 1..Len(channel)
    BY <1>1
  <2>2. channel[k + 1] = Err
    BY <1>2, <1>4
  <2> QED
    BY <2>1, <2>2 DEF Has
<1>5. Head(channel) = Err => Has(channel)
  <2>1. 1 \in 1..Len(channel)
    BY <1>1
  <2> QED
    BY <1>1, <2>1 DEF Has
<1> QED
  BY <1>1, <1>3, <1>4, <1>5 DEF Has

-----------------------------------------------------------------------------
LEMMA SaveInv ==
  ASSUME Inv, WriteSection \/ SaveStops \/ UNCHANGED vars
  PROVE  Inv'
<1>1. UNCHANGED <<file, pos, stopped, pipeline, consumer, gotVars>>
  BY DEF WriteSection, SaveStops, vars, fileVars
<1> QED
  BY <1>1 DEF pipeline, gotVars, Inv, Types, Coming, Passed, Has, ZonesAfterPoints, NumPoints

LEMMA OpenInv ==
  ASSUME Inv, Open
  PROVE  Inv'
<1>1. /\ consumer = "open" /\ ~stopped /\ reader = [at |-> "idle", i |-> 1]
      /\ UNCHANGED <<file, stopped, chunkChan, decoder, blobChan, mapper, outChan, zonesRead>>
  BY DEF Inv, Open, fileVars, gotVars
<1>2. \/ consumer' = "points" /\ pos' = Prelude + 1 /\ reader' = [reader EXCEPT !.at = "check"]
      \/ consumer' = "failed" /\ UNCHANGED <<pos, reader>>
  BY DEF Open
<1>3. Coming' = Coming /\ Passed' = Passed
  BY <1>1 DEF Coming, Passed, Has
<1>4. 1 \in 1..N + 1
  BY FileTyped
<1> QED
  BY <1>1, <1>2, <1>3, <1>4 DEF Inv, Types, ZonesAfterPoints, Prelude

LEMMA ReaderCheckInv ==
  ASSUME Inv, ReaderCheck
  PROVE  Inv'
<1>1. /\ reader.at = "check" /\ file = F /\ NumPoints = N /\ N \in Nat
      /\ reader' = [reader EXCEPT !.at = IF stopped \/ reader.i > NumPoints THEN "end" ELSE "read"]
      /\ UNCHANGED <<file, pos, stopped, chunkChan, decoder, blobChan, mapper, outChan,
                     consumer, zonesRead>>
  BY FileTyped DEF Inv, Types, ReaderCheck, fileVars, gotVars, NumPoints, N
<1>2. Coming' = Coming /\ Passed' = Passed
  BY <1>1 DEF Coming, Passed, Has
<1>3. consumer \notin {"zones", "loaded"}
  BY <1>1 DEF Inv
<1>4. reader'.i = reader.i /\ reader'.at \in {"end", "read"} /\ Types'
  BY <1>1 DEF Inv, Types
<1> QED
  BY <1>1, <1>2, <1>3, <1>4 DEF Inv, Types, ZonesAfterPoints, Prelude

LEMMA ReaderReadInv ==
  ASSUME Inv, ReaderRead
  PROVE  Inv'
<1>1. /\ reader.at = "read" /\ pos' = pos + 1
      /\ reader' = [reader EXCEPT !.at = IF Readable(pos) THEN "send" ELSE "fail"]
      /\ UNCHANGED <<file, stopped, chunkChan, decoder, blobChan, mapper, outChan,
                     consumer, zonesRead>>
  BY DEF ReaderRead, fileVars, gotVars
<1>2. Coming' = Coming /\ Passed' = Passed
  BY <1>1 DEF Coming, Passed, Has
<1>3. consumer \notin {"zones", "loaded"}
  BY <1>1 DEF Inv
<1>4. reader'.i = reader.i /\ reader'.at \in {"send", "fail"} /\ Types'
  BY <1>1 DEF Inv, Types
<1> QED
  BY <1>1, <1>2, <1>3, <1>4 DEF Inv, Types, ZonesAfterPoints, Prelude

LEMMA ReaderSendInv ==
  ASSUME Inv, ReaderSend
  PROVE  Inv'
<1>1. /\ reader.at \in {"send", "fail"} /\ reader.i <= N /\ pos = Prelude + reader.i + 1
      /\ reader.i \in 1..N + 1 /\ N \in Nat
      /\ UNCHANGED <<file, pos, stopped, decoder, blobChan, mapper, outChan, consumer, zonesRead>>
  BY FileTyped DEF Inv, Types, ReaderSend, fileVars, gotVars
<1>2. consumer \notin {"zones", "loaded", "open"}
  BY <1>1 DEF Inv
<1>3. CASE reader.at = "send"
  <2>1. /\ chunkChan' = Append(chunkChan, Prelude + reader.i)
        /\ reader' = [at |-> "check", i |-> reader.i + 1]
    BY <1>3 DEF ReaderSend
  <2>2. Prelude + reader.i \in Chunks
    BY <1>1 DEF Chunks, Prelude
  <2>3. chunkChan' \in Seq(Chunks) /\ (Has(chunkChan) => Has(chunkChan'))
    BY <2>1, <2>2, SendHas DEF Inv, Types
  <2>4. Types'
    BY <1>1, <2>1, <2>3 DEF Inv, Types
  <2>5. Passed' = Passed
    BY <1>1 DEF Passed, Has
  <2>6. reader'.at = "check" /\ reader'.i = reader.i + 1
    BY <2>1
  <2> QED
    BY <1>1, <1>2, <1>3, <2>4, <2>5, <2>6 DEF Inv, ZonesAfterPoints, Prelude
<1>4. CASE reader.at = "fail"
  <2>1. chunkChan' = Append(chunkChan, Err) /\ reader' = [reader EXCEPT !.at = "end"]
    BY <1>4 DEF ReaderSend
  <2>2. Err \in Chunks
    BY DEF Chunks
  <2>3. chunkChan' \in Seq(Chunks) /\ Has(chunkChan')
    BY <2>1, <2>2, SendHas DEF Inv, Types
  <2>4. Types'
    BY <1>1, <2>1, <2>3 DEF Inv, Types
  <2>5. Passed' = Passed /\ Coming'
    BY <1>1, <2>3 DEF Passed, Coming, Has
  <2>6. reader'.at = "end"
    BY <2>1 DEF Inv, Types
  <2> QED
    BY <1>1, <1>2, <1>4, <2>4, <2>5, <2>6 DEF Inv, ZonesAfterPoints
<1> QED
  BY <1>1, <1>3, <1>4

\* An error the decoder receives is the one it sends next.
LEMMA DecoderReceiveInv ==
  ASSUME Inv, DecoderReceive
  PROVE  Inv'
<1>1. /\ decoder.at = "receive" /\ Types
      /\ UNCHANGED <<file, pos, stopped, reader, blobChan, mapper, outChan, consumer, zonesRead>>
  BY DEF Inv, DecoderReceive, fileVars, gotVars
<1>2. Passed' = Passed
  BY <1>1 DEF Passed, Has
<1>3. ZonesAfterPoints'
  BY <1>1 DEF Inv, ZonesAfterPoints, NumPoints
<1>4. CASE chunkChan # <<>> /\ stopped
  <2>1. chunkChan' = Tail(chunkChan) /\ decoder' = [decoder EXCEPT !.at = "end"]
    BY <1>4 DEF DecoderReceive
  <2>2. Types'
    BY <1>1, <1>4, <2>1, ReceiveHas DEF Types
  <2>3. decoder'.at = "end"
    BY <1>1, <2>1 DEF Types
  <2> QED
    BY <1>1, <1>2, <1>3, <1>4, <2>2, <2>3 DEF Inv
<1>5. CASE chunkChan # <<>> /\ ~stopped
  <2>1. chunkChan' = Tail(chunkChan) /\ decoder' = Decoded(Head(chunkChan))
    BY <1>5 DEF DecoderReceive
  <2>2. /\ Head(chunkChan) \in Chunks /\ chunkChan' \in Seq(Chunks)
        /\ Has(chunkChan) => Head(chunkChan) = Err \/ Has(chunkChan')
    BY <1>1, <1>5, <2>1, ReceiveHas DEF Types
  <2>3. /\ decoder'.blob \in PointBlobs /\ decoder'.at \in {"send", "last"}
        /\ decoder' = [at |-> decoder'.at, blob |-> decoder'.blob]
        /\ decoder'.at = "last" => decoder'.blob = Err
        /\ Head(chunkChan) = Err => decoder'.blob = Err
    BY <1>1, <2>1, <2>2, DecodedTyped DEF Types
  <2>4. Types'
    BY <1>1, <2>2, <2>3 DEF Types
  <2>5. Coming => Coming'
    BY <1>1, <2>2, <2>3 DEF Coming
  <2> QED
    BY <1>1, <1>2, <1>3, <1>5, <2>3, <2>4, <2>5 DEF Inv
<1>6. CASE chunkChan = <<>>
  <2>1. chunkChan' = <<>> /\ reader.at = "end" /\ decoder' = [decoder EXCEPT !.at = "end"]
    BY <1>6 DEF DecoderReceive
  <2>2. Types' /\ decoder'.at = "end"
    BY <1>1, <1>6, <2>1 DEF Types
  <2>3. ~Coming
    BY <1>1, <1>6 DEF Coming, Has
  <2> QED
    BY <1>1, <1>2, <1>3, <2>1, <2>2, <2>3 DEF Inv
<1> QED
  BY <1>4, <1>5, <1>6

LEMMA DecoderSendInv ==
  ASSUME Inv, DecoderSend
  PROVE  Inv'
<1>1. /\ decoder.at \in {"send", "last"} /\ Types /\ blobChan' = Append(blobChan, decoder.blob)
      /\ decoder' = [at |-> IF decoder.at = "last" THEN "end" ELSE "receive", blob |-> <<>>]
      /\ UNCHANGED <<file, pos, stopped, reader, chunkChan, mapper, outChan, consumer, zonesRead>>
  BY DEF Inv, DecoderSend, fileVars, gotVars
<1>2. /\ blobChan' \in Seq(PointBlobs)
      /\ Has(blobChan') <=> Has(blobChan) \/ decoder.blob = Err
  BY <1>1, SendHas DEF Types
<1>3. /\ Passed => Passed'
      /\ decoder.blob = Err => Passed'
  <2>1. /\ (mapper.at = "send" /\ Has(mapper.out))' = (mapper.at = "send" /\ Has(mapper.out))
        /\ Has(outChan)' = Has(outChan)
    BY <1>1 DEF Has
  <2> QED
    BY <1>2, <2>1 DEF Passed
<1>4. Coming => Coming' \/ Passed'
  <2>1. Has(chunkChan)' = Has(chunkChan)
    BY <1>1 DEF Has
  <2> QED
    BY <1>3, <2>1 DEF Coming
<1>5. ZonesAfterPoints'
  BY <1>1 DEF Inv, ZonesAfterPoints, NumPoints
<1>6. Types'
  <2>1. <<>> \in PointBlobs
    BY DEF PointBlobs
  <2> QED
    BY <1>1, <1>2, <2>1 DEF Types
<1>7. decoder.at = "last" => decoder.blob = Err
  BY DEF Inv
<1>8. decoder'.at = IF decoder.at = "last" THEN "end" ELSE "receive"
  BY <1>1
<1>9. mapper.at = "end" => stopped
  BY <1>1 DEF Inv
<1> QED
  BY <1>1, <1>3, <1>4, <1>5, <1>6, <1>7, <1>8, <1>9 DEF Inv

LEMMA MapperReceiveInv ==
  ASSUME Inv, MapperReceive
  PROVE  Inv'
<1>1. /\ mapper.at = "receive" /\ Types
      /\ UNCHANGED <<file, pos, stopped, reader, chunkChan, decoder, outChan, consumer, zonesRead>>
  BY DEF Inv, MapperReceive, fileVars, gotVars
<1>2. Coming' = Coming
  BY <1>1 DEF Coming, Has
<1>3. ZonesAfterPoints'
  BY <1>1 DEF Inv, ZonesAfterPoints, NumPoints
<1>4. CASE blobChan # <<>> /\ stopped
  <2>1. blobChan' = Tail(blobChan) /\ mapper' = [mapper EXCEPT !.at = "end"]
    BY <1>4 DEF MapperReceive
  <2>2. Types' /\ mapper'.at = "end"
    BY <1>1, <1>4, <2>1, ReceiveHas DEF Types
  <2> QED
    BY <1>1, <1>2, <1>3, <1>4, <2>2 DEF Inv
<1>5. CASE blobChan # <<>> /\ ~stopped
  <2> DEFINE out == Mapped(Head(blobChan))
  <2>1. /\ blobChan' = Tail(blobChan)
        /\ mapper' = [at |-> IF out = <<>> THEN "receive" ELSE "send", out |-> out]
    BY <1>5 DEF MapperReceive
  <2>2. /\ Head(blobChan) \in PointBlobs /\ blobChan' \in Seq(PointBlobs)
        /\ Has(blobChan) => Head(blobChan) = Err \/ Has(blobChan')
    BY <1>1, <1>5, <2>1, ReceiveHas DEF Types
  <2>3. out \in Seq(Outs) /\ (Head(blobChan) = Err => out = <<Err>>)
    BY <1>1, <2>2, MappedTyped DEF Types
  <2> HIDE DEF out
  <2>4. /\ mapper'.at \in {"receive", "send"} /\ mapper'.out = out
        /\ mapper'.at = "send" <=> out # <<>>
    BY <2>1
  <2>5. Types'
    BY <1>1, <2>1, <2>2, <2>3, <2>4 DEF Types
  <2>6. Passed => Passed'
    <3>1. Has(outChan)' = Has(outChan)
      BY <1>1 DEF Has
    <3>2. Head(blobChan) = Err => mapper'.at = "send" /\ Has(mapper'.out)
      BY <2>3, <2>4 DEF Has
    <3> QED
      BY <1>1, <2>2, <3>1, <3>2 DEF Passed
  <2> QED
    BY <1>1, <1>2, <1>3, <1>5, <2>4, <2>5, <2>6 DEF Inv
<1>6. CASE blobChan = <<>>
  <2>1. blobChan' = blobChan /\ decoder.at = "end" /\ mapper' = [mapper EXCEPT !.at = "end"]
    BY <1>6 DEF MapperReceive
  <2>2. Types' /\ mapper'.at = "end"
    BY <1>1, <2>1 DEF Types
  <2>3. Passed' = Passed
    BY <1>1, <2>1, <2>2 DEF Passed, Has
  <2> QED
    BY <1>1, <1>2, <1>3, <1>6, <2>1, <2>2, <2>3 DEF Inv
<1> QED
  BY <1>4, <1>5, <1>6

LEMMA MapperSendInv ==
  ASSUME Inv, MapperSend
  PROVE  Inv'
<1>1. /\ mapper.at = "send" /\ mapper.out # <<>> /\ Types
      /\ outChan' = Append(outChan, Head(mapper.out))
      /\ mapper' = [at |-> IF Len(mapper.out) = 1 THEN "receive" ELSE "send",
                    out |-> Tail(mapper.out)]
      /\ UNCHANGED <<file, pos, stopped, reader, chunkChan, decoder, blobChan, consumer, zonesRead>>
  BY DEF Inv, Types, MapperSend, fileVars, gotVars
<1>2. Coming' = Coming
  BY <1>1 DEF Coming, Has
<1>3. ZonesAfterPoints'
  BY <1>1 DEF Inv, ZonesAfterPoints, NumPoints
<1>4. /\ Head(mapper.out) \in Outs /\ mapper'.out \in Seq(Outs)
      /\ Has(mapper.out) => Head(mapper.out) = Err \/ Has(mapper'.out)
  BY <1>1, ReceiveHas DEF Types
<1>5. /\ outChan' \in Seq(Outs)
      /\ Has(outChan') <=> Has(outChan) \/ Head(mapper.out) = Err
  BY <1>1, <1>4, SendHas DEF Types
<1>6. /\ mapper'.at \in {"receive", "send"}
      /\ mapper'.at = "send" <=> mapper'.out # <<>>
  <2>1. Len(Tail(mapper.out)) = Len(mapper.out) - 1 /\ Len(mapper.out) >= 1
    BY <1>1 DEF Types
  <2>2. Tail(mapper.out) = <<>> <=> Len(mapper.out) = 1
    <3>1. Tail(mapper.out) \in Seq(Outs)
      BY <1>1, <1>4
    <3>2. Tail(mapper.out) = <<>> <=> Len(Tail(mapper.out)) = 0
      BY <3>1, EmptySeq
    <3>3. Len(mapper.out) \in Nat
      BY <1>1 DEF Types
    <3> QED
      BY <2>1, <3>2, <3>3
  <2> QED
    BY <1>1, <2>2
<1>7. Types'
  BY <1>1, <1>4, <1>5, <1>6 DEF Types
<1>8. Passed => Passed'
  <2>1. Has(blobChan)' = Has(blobChan)
    BY <1>1 DEF Has
  <2>2. Has(mapper'.out) => mapper'.at = "send"
    BY <1>6 DEF Has
  <2> QED
    BY <1>4, <1>5, <2>1, <2>2 DEF Passed
<1> QED
  BY <1>1, <1>2, <1>3, <1>6, <1>7, <1>8 DEF Inv

\* The consumer that reads zones was told by the last stage that it had ended.
LEMMA ConsumerInv ==
  ASSUME Inv, TakePoint \/ EndPoints \/ ReadZones \/ LoadReturns
  PROVE  Inv'
<1>1. /\ Types /\ consumer \in {"points", "zones"}
      /\ UNCHANGED <<file, reader, chunkChan, decoder, blobChan, mapper>>
  BY DEF Inv, TakePoint, EndPoints, ReadZones, LoadReturns, fileVars, pipeline
<1>2. ~stopped
  BY <1>1 DEF Inv
<1>3. Coming' = Coming
  BY <1>1 DEF Coming, Has
<1>4. NumPoints' = NumPoints /\ NumPoints = N /\ N \in Nat
  BY <1>1, FileTyped DEF NumPoints, N, Types
<1>5. CASE TakePoint
  <2>1. /\ consumer = "points" /\ outChan # <<>> /\ outChan' = Tail(outChan)
        /\ UNCHANGED <<pos, zonesRead>>
        /\ \/ Head(outChan) = Err /\ consumer' = "failed" /\ stopped' = TRUE
           \/ Head(outChan) # Err /\ UNCHANGED <<consumer, stopped>>
    BY <1>5 DEF TakePoint
  <2>2. /\ outChan' \in Seq(Outs)
        /\ Has(outChan) => Head(outChan) = Err \/ Has(outChan')
    BY <1>1, <2>1, ReceiveHas DEF Types
  <2>3. Passed => Passed' \/ stopped'
    <3>1. Has(blobChan)' = Has(blobChan) /\ Has(mapper.out)' = Has(mapper.out)
      BY <1>1 DEF Has
    <3> QED
      BY <1>1, <2>1, <2>2, <3>1 DEF Passed
  <2>4. Types'
    BY <1>1, <2>1, <2>2 DEF Types
  <2>5. ZonesAfterPoints'
    BY <2>1 DEF ZonesAfterPoints
  <2> QED
    BY <1>1, <1>2, <1>3, <2>1, <2>3, <2>4, <2>5 DEF Inv
<1>6. CASE EndPoints
  <2>1. /\ consumer' = "zones" /\ outChan = <<>> /\ mapper.at = "end"
        /\ UNCHANGED <<pos, stopped, outChan, zonesRead>>
    BY <1>6 DEF EndPoints, pipeline, gotVars
  <2>2. decoder.at = "end" /\ blobChan = <<>>
    BY <1>2, <2>1 DEF Inv
  <2>3. ~Passed
    BY <2>1, <2>2 DEF Passed, Has
  <2>4. reader.at = "end" /\ chunkChan = <<>>
    BY <1>2, <2>2, <2>3 DEF Inv
  <2>5. ~Coming
    BY <2>2, <2>4 DEF Coming, Has
  <2>6. pos > Prelude + N
    BY <1>2, <2>3, <2>4, <2>5 DEF Inv
  <2>7. Types'
    BY <1>1, <2>1 DEF Types
  <2>8. ZonesAfterPoints'
    BY <1>1, <1>4, <2>1, <2>4, <2>6 DEF ZonesAfterPoints
  <2> QED
    BY <1>1, <1>2, <1>3, <2>1, <2>2, <2>4, <2>6, <2>7, <2>8 DEF Inv
<1>7. CASE ReadZones
  <2>1. /\ consumer = "zones" /\ consumer' \in {"zones", "failed"} /\ pos' = pos + 1
        /\ zonesRead' = zonesRead + 1 /\ UNCHANGED <<stopped, outChan>>
    BY <1>7 DEF ReadZones, pipeline
  <2>2. reader.at = "end" /\ pos > Prelude + N
    BY <1>4, <2>1 DEF Inv, ZonesAfterPoints
  <2>3. pos' > Prelude + N /\ pos' \in Nat
    BY <1>1, <1>4, <2>1, <2>2 DEF Types, Prelude
  <2>4. Passed' = Passed
    BY <1>1, <2>1 DEF Passed, Has
  <2>5. Types'
    BY <1>1, <2>1, <2>3 DEF Types
  <2>6. ZonesAfterPoints'
    BY <1>1, <1>4, <2>2, <2>3 DEF ZonesAfterPoints
  <2> QED
    BY <1>1, <1>2, <1>3, <2>1, <2>2, <2>3, <2>4, <2>5, <2>6 DEF Inv
<1>8. CASE LoadReturns
  <2>1. /\ consumer = "zones" /\ consumer' = "loaded"
        /\ UNCHANGED <<pos, stopped, outChan, zonesRead>>
    BY <1>8 DEF LoadReturns, pipeline, gotVars
  <2>2. Passed' = Passed
    BY <1>1, <2>1 DEF Passed, Has
  <2>3. ZonesAfterPoints' /\ reader.at = "end"
    BY <1>1, <1>4, <2>1 DEF Inv, ZonesAfterPoints
  <2>4. Types'
    BY <1>1, <2>1 DEF Types
  <2> QED
    BY <1>1, <1>2, <1>3, <2>1, <2>2, <2>3, <2>4 DEF Inv
<1> QED
  BY <1>5, <1>6, <1>7, <1>8

LEMMA StepInv == Inv /\ [Next]_vars => Inv'
BY SaveInv, OpenInv, ReaderCheckInv, ReaderReadInv, ReaderSendInv, DecoderReceiveInv,
   DecoderSendInv, MapperReceiveInv, MapperSendInv, ConsumerInv DEF Next, Pipeline, Consume

\* The invariant of how the stages end.
THEOREM InvAlways == Spec => []Inv
BY InitInv, StepInv, PTL DEF Spec

\* Whatever the file holds and however the goroutines interleave, the zones
\* are read only when the goroutine that reads points has ended, and from
\* behind the last blob of points: an error that ends a stage early reaches
\* the consumer before the end of the channels does (load.go:44-139).
THEOREM ZonesAlwaysAfterPoints == Spec => []ZonesAfterPoints
<1>1. Inv => ZonesAfterPoints
  BY DEF Inv
<1> QED
  BY <1>1, InvAlways, PTL

-----------------------------------------------------------------------------
(* The folds of the tables and of the lists of zones, element by element.  *)
(* The library's induction over Nat takes an operator; the induction used   *)
(* here takes a set, and follows from the pigeonhole principle.             *)

LEMMA Induction ==
  ASSUME NEW S \in SUBSET Nat, 0 \in S, \A n \in S : n + 1 \in S
  PROVE  S = Nat
<1> SUFFICES ASSUME NEW m \in Nat, m \notin S PROVE FALSE
  OBVIOUS
<1> DEFINE A == S \cap 0..m
           f == [n \in A |-> n + 1]
<1>1. IsFiniteSet(0..m)
  BY FS_Interval
<1>2. IsFiniteSet(A) /\ A \subseteq 0..m
  BY <1>1, FS_Subset
<1>3. 0 \in A
  OBVIOUS
<1>4. /\ IsFiniteSet(A \ {0}) /\ Cardinality(A \ {0}) = Cardinality(A) - 1
  BY <1>2, <1>3, FS_RemoveElement
<1>5. Cardinality(A) \in Nat
  BY <1>2, FS_CardinalityType
<1>6. f \in [A -> A \ {0}]
  <2> SUFFICES ASSUME NEW n \in A PROVE n + 1 \in A \ {0}
    OBVIOUS
  <2> QED OBVIOUS
<1>7. Cardinality(A \ {0}) < Cardinality(A)
  BY <1>4, <1>5
<1>8. \A n \in A : f[n] = n + 1
  OBVIOUS
<1> HIDE DEF A, f
<1>9. \E x, y \in A : x # y /\ f[x] = f[y]
  BY <1>2, <1>4, <1>6, <1>7, FS_PigeonHole
<1> QED
  BY <1>2, <1>8, <1>9

LEMMA MaxMember ==
  ASSUME NEW n \in Nat, NEW s \in SUBSET (1..n), s # {}
  PROVE  Max(s) \in s /\ \A y \in s : y <= Max(s)
<1> DEFINE D == {m \in Nat : \A t \in SUBSET (1..m) : t # {} => \E x \in t : \A y \in t : x >= y}
<1>1. 0 \in D
  <2>1. 1..0 = {}
    OBVIOUS
  <2> QED
    BY <2>1
<1>2. ASSUME NEW m \in D PROVE m + 1 \in D
  <2> SUFFICES ASSUME NEW t \in SUBSET (1..m + 1), t # {}
               PROVE  \E x \in t : \A y \in t : x >= y
    OBVIOUS
  <2>1. CASE m + 1 \in t
    BY <2>1
  <2>2. CASE m + 1 \notin t
    <3>1. t \in SUBSET (1..m)
      BY <2>2
    <3> QED
      BY <3>1
  <2> QED
    BY <2>1, <2>2
<1>3. D = Nat
  <2> HIDE DEF D
  <2>1. D \in SUBSET Nat
    BY DEF D
  <2> QED
    BY <1>1, <1>2, <2>1, Induction
<1>4. \E x \in s : \A y \in s : x >= y
  BY <1>3
<1> QED
  BY <1>4 DEF Max

\* What the two folds do with the next element: a table of strings takes it in,
\* a list of zones of one type takes it or not.
Grow(kind, acc, x) ==
  IF kind = "table" THEN Add(acc, x)
  ELSE IF x.type = kind THEN Append(acc, x) ELSE acc

Folds(kind, base, seq, n, g) ==
  g = [s \in SUBSET (1..n) |->
         IF s = {} THEN base ELSE Grow(kind, g[s \ {Max(s)}], seq[Max(s)])]

LEMMA FoldExists == \A kind, base, seq : \A n \in Nat : \E g : Folds(kind, base, seq, n, g)
<1> SUFFICES ASSUME NEW kind, NEW base, NEW seq
             PROVE  \A n \in Nat : \E g : Folds(kind, base, seq, n, g)
  OBVIOUS
<1> DEFINE D == {n \in Nat : \E g : Folds(kind, base, seq, n, g)}
<1>1. 0 \in D
  <2>1. Folds(kind, base, seq, 0, [s \in SUBSET (1..0) |-> base])
    BY DEF Folds
  <2> QED
    BY <2>1
<1>2. ASSUME NEW n \in D PROVE n + 1 \in D
  <2>1. PICK g : Folds(kind, base, seq, n, g)
    OBVIOUS
  <2>2. n \in Nat /\ n + 1 \in Nat
    OBVIOUS
  <2> DEFINE e(s) == IF s = {} THEN base ELSE Grow(kind, g[s \ {Max(s)}], seq[Max(s)])
             h == [s \in SUBSET (1..n + 1) |-> e(s)]
  <2>3. g = [s \in SUBSET (1..n) |-> e(s)]
    BY <2>1 DEF Folds
  <2>4. ASSUME NEW s \in SUBSET (1..n + 1), s # {}
        PROVE  h[s \ {Max(s)}] = g[s \ {Max(s)}]
    <3>1. Max(s) \in s /\ \A y \in s : y <= Max(s)
      <4> HIDE DEF D, e, h
      <4> QED
        BY <2>2, <2>4, MaxMember
    <3>2. s \ {Max(s)} \in SUBSET (1..n) /\ s \ {Max(s)} \in SUBSET (1..n + 1)
      <4> DEFINE x == Max(s)
      <4> HIDE DEF x, D, e, h
      <4>1. x \in s /\ \A y \in s : y <= x
        BY <3>1 DEF x
      <4>2. \A y \in s : y # x => y \in 1..n
        BY <2>2, <4>1
      <4> QED
        BY <4>2 DEF x
    <3> DEFINE t == s \ {Max(s)}
    <3>3. t \in SUBSET (1..n) /\ t \in SUBSET (1..n + 1)
      BY <3>2
    <3> HIDE DEF t, e
    <3>4. g[t] = e(t) /\ h[t] = e(t)
      BY <2>3, <3>3
    <3> QED
      BY <3>4 DEF t
  <2>5. h = [s \in SUBSET (1..n + 1) |->
               IF s = {} THEN base ELSE Grow(kind, h[s \ {Max(s)}], seq[Max(s)])]
    <3> DEFINE f(s) == IF s = {} THEN base ELSE Grow(kind, h[s \ {Max(s)}], seq[Max(s)])
    <3>1. \A s \in SUBSET (1..n + 1) : e(s) = f(s)
      BY <2>4
    <3>2. h = [s \in SUBSET (1..n + 1) |-> e(s)]
      OBVIOUS
    <3> HIDE DEF e, f, h
    <3>3. h = [s \in SUBSET (1..n + 1) |-> f(s)]
      BY <3>1, <3>2
    <3> QED
      BY <3>3 DEF f
  <2> HIDE DEF h, e
  <2>6. Folds(kind, base, seq, n + 1, h)
    BY <2>5 DEF Folds
  <2> QED
    BY <2>6
<1>3. D = Nat
  <2> HIDE DEF D
  <2>1. D \in SUBSET Nat
    BY DEF D
  <2> QED
    BY <1>1, <1>2, <2>1, Induction
<1> QED
  BY <1>3

\* From left to right a fold goes through the results for the prefixes.
LEMMA FoldSteps ==
  ASSUME NEW kind, NEW base, NEW seq, NEW n \in Nat, NEW g, Folds(kind, base, seq, n, g)
  PROVE  /\ g[1..0] = base
         /\ \A i \in 1..n : g[1..i] = Grow(kind, g[1..i - 1], seq[i])
<1>1. g[1..0] = base
  BY DEF Folds
<1>2. ASSUME NEW i \in 1..n PROVE g[1..i] = Grow(kind, g[1..i - 1], seq[i])
  <2>1. 1..i \in SUBSET (1..n) /\ 1..i # {} /\ i \in 1..i
    OBVIOUS
  <2>2. Max(1..i) = i
    <3>1. Max(1..i) \in 1..i /\ \A y \in 1..i : y <= Max(1..i)
      BY <2>1, MaxMember
    <3> QED
      BY <2>1, <3>1
  <2>3. (1..i) \ {i} = 1..i - 1
    OBVIOUS
  <2> QED
    BY <2>1, <2>2, <2>3 DEF Folds
<1> QED
  BY <1>1, <1>2

LEMMA UniqueMapSteps ==
  ASSUME NEW S, NEW vals \in Seq(S)
  PROVE  \E t : /\ t[0] = [v \in {Empty} |-> 0]
                /\ \A i \in 1..Len(vals) : t[i] = Add(t[i - 1], vals[i])
                /\ t[Len(vals)] = UniqueMap(vals)
<1> DEFINE base == [v \in {Empty} |-> 0]
           n == Len(vals)
           P(g) == g = [s \in SUBSET DOMAIN vals |->
                          IF s = {} THEN base ELSE Add(g[s \ {Max(s)}], vals[Max(s)])]
           g == CHOOSE g : P(g)
<1>1. n \in Nat /\ DOMAIN vals = 1..n
  OBVIOUS
<1>2. \A f : P(f) <=> Folds("table", base, vals, n, f)
  BY <1>1 DEF Folds, Grow
<1>3. \E f : P(f)
  <2> HIDE DEF P, base, n
  <2> QED
    BY <1>1, <1>2, FoldExists
<1>4. P(g)
  <2> HIDE DEF P
  <2> QED
    BY <1>3
<1>5. UniqueMap(vals) = g[1..n]
  BY <1>1 DEF UniqueMap, FoldLeft, MapThenFoldSet
<1> HIDE DEF P, g, base, n
<1>6. Folds("table", base, vals, n, g)
  BY <1>2, <1>4
<1>7. /\ g[1..0] = base
      /\ \A i \in 1..n : g[1..i] = Grow("table", g[1..i - 1], vals[i])
  BY <1>1, <1>6, FoldSteps
<1> DEFINE t == [i \in 0..n |-> g[1..i]]
<1>8. /\ t[0] = base
      /\ \A i \in 1..n : t[i] = Add(t[i - 1], vals[i])
      /\ t[n] = UniqueMap(vals)
  BY <1>1, <1>5, <1>7 DEF Grow
<1> HIDE DEF t
<1> QED
  BY <1>8 DEF base, n

-----------------------------------------------------------------------------
(* What is in a table of strings, and what is in a list of zones.          *)

\* A table gives every string that it has been given a number of its own,
\* below the count of its strings.
Table(u) ==
  /\ IsFiniteSet(DOMAIN u)
  /\ u = [v \in DOMAIN u |-> u[v]]
  /\ \A v \in DOMAIN u : u[v] \in Nat /\ u[v] < Cardinality(DOMAIN u)
  /\ \A v, w \in DOMAIN u : u[v] = u[w] => v = w

LEMMA AddTable ==
  ASSUME NEW u, Table(u), NEW x
  PROVE  Table(Add(u, x)) /\ DOMAIN Add(u, x) = DOMAIN u \cup {x}
<1>1. CASE x \in DOMAIN u
  BY <1>1 DEF Add
<1>2. CASE x \notin DOMAIN u
  <2> DEFINE c == Cardinality(DOMAIN u)
             bigger == [v \in DOMAIN u \cup {x} |-> IF v = x THEN c ELSE u[v]]
  <2>1. Add(u, x) = bigger
    BY <1>2 DEF Add
  <2>2. /\ IsFiniteSet(DOMAIN u \cup {x}) /\ c \in Nat
        /\ Cardinality(DOMAIN u \cup {x}) = c + 1
    BY <1>2, FS_AddElement, FS_CardinalityType DEF Table
  <2>3. \A v \in DOMAIN u : u[v] \in Nat /\ u[v] < c
    BY DEF Table
  <2> HIDE DEF c
  <2>4. DOMAIN bigger = DOMAIN u \cup {x} /\ bigger[x] = c /\ \A v \in DOMAIN u : bigger[v] = u[v]
    BY <1>2
  <2>5. bigger = [v \in DOMAIN bigger |-> bigger[v]]
    OBVIOUS
  <2> HIDE DEF bigger
  <2>6. \A v \in DOMAIN bigger : bigger[v] \in Nat /\ bigger[v] < c + 1
    BY <2>2, <2>3, <2>4
  <2>7. \A v, w \in DOMAIN bigger : bigger[v] = bigger[w] => v = w
    BY <2>2, <2>3, <2>4 DEF Table
  <2> QED
    BY <2>1, <2>2, <2>4, <2>5, <2>6, <2>7 DEF Table
<1> QED
  BY <1>1, <1>2

LEMMA FirstTable == Table([v \in {Empty} |-> 0])
<1>1. IsFiniteSet({Empty}) /\ Cardinality({Empty}) = 1
  BY FS_Singleton
<1> QED
  BY <1>1 DEF Table

LEMMA UniqueMapTable ==
  ASSUME NEW S, NEW vals \in Seq(S)
  PROVE  Table(UniqueMap(vals)) /\ \A i \in 1..Len(vals) : vals[i] \in DOMAIN UniqueMap(vals)
<1>1. PICK t : /\ t[0] = [v \in {Empty} |-> 0]
               /\ \A i \in 1..Len(vals) : t[i] = Add(t[i - 1], vals[i])
               /\ t[Len(vals)] = UniqueMap(vals)
  BY UniqueMapSteps
<1> DEFINE P(i) == Table(t[i]) /\ \A j \in 1..i : vals[j] \in DOMAIN t[i]
           D == {i \in Nat : i <= Len(vals) => P(i)}
<1>2. Len(vals) \in Nat
  OBVIOUS
<1>3. P(0)
  <2>1. 1..0 = {}
    OBVIOUS
  <2> QED
    BY <1>1, <2>1, FirstTable
<1>4. ASSUME NEW i \in Nat, i + 1 <= Len(vals), P(i) PROVE P(i + 1)
  <2>1. i + 1 \in 1..Len(vals) /\ i + 1 - 1 = i
    BY <1>2, <1>4
  <2>2. t[i + 1] = Add(t[i], vals[i + 1])
    BY <1>1, <2>1
  <2>3. Table(t[i + 1]) /\ DOMAIN t[i + 1] = DOMAIN t[i] \cup {vals[i + 1]}
    BY <1>4, <2>2, AddTable
  <2>4. 1..i + 1 = 1..i \cup {i + 1}
    OBVIOUS
  <2> QED
    BY <1>4, <2>3, <2>4
<1> HIDE DEF P
<1>5. D \in SUBSET Nat /\ 0 \in D /\ \A i \in D : i + 1 \in D
  BY <1>2, <1>3, <1>4
<1>6. D = Nat
  <2> HIDE DEF D
  <2> QED
    BY <1>5, Induction
<1>7. P(Len(vals))
  BY <1>2, <1>6
<1> QED
  BY <1>1, <1>7 DEF P

\* A number is turned back into the string it stands for.
LEMMA LookUp ==
  ASSUME NEW u, Table(u), NEW v \in DOMAIN u
  PROVE  Slice(u)[u[v] + 1] = v
<1> DEFINE c == Cardinality(DOMAIN u)
           found(i) == CHOOSE val \in DOMAIN u : u[val] = i - 1
           n == u[v] + 1
<1>1. c \in Nat /\ u[v] \in Nat /\ u[v] < c
  BY FS_CardinalityType DEF Table
<1>2. n \in 1..c /\ n - 1 = u[v]
  BY <1>1
<1>3. Slice(u) = [i \in 1..c |-> found(i)]
  BY DEF Slice
<1> HIDE DEF n, c
<1>4. found(n) \in DOMAIN u /\ u[found(n)] = u[v]
  BY <1>2
<1>5. found(n) = v
  BY <1>4 DEF Table
<1> HIDE DEF found
<1>6. Slice(u)[n] = found(n)
  BY <1>2, <1>3
<1> QED
  BY <1>5, <1>6 DEF n

\* The zones of one type.
LEMMA OfTypeSteps ==
  ASSUME NEW S, NEW list \in Seq(S), NEW type, type # "table"
  PROVE  \E t : /\ t[0] = <<>>
                /\ \A i \in 1..Len(list) :
                     t[i] = IF list[i].type = type THEN Append(t[i - 1], list[i]) ELSE t[i - 1]
                /\ t[Len(list)] = OfType(list, type)
<1> DEFINE base == <<>>
           n == Len(list)
           P(g) == g = [s \in SUBSET DOMAIN list |->
                          IF s = {} THEN base
                          ELSE IF list[Max(s)].type = type
                               THEN Append(g[s \ {Max(s)}], list[Max(s)])
                               ELSE g[s \ {Max(s)}]]
           g == CHOOSE g : P(g)
<1>1. n \in Nat /\ DOMAIN list = 1..n
  OBVIOUS
<1>2. \A f : P(f) <=> Folds(type, base, list, n, f)
  BY <1>1 DEF Folds, Grow
<1>3. \E f : P(f)
  <2> HIDE DEF P, base, n
  <2> QED
    BY <1>1, <1>2, FoldExists
<1>4. P(g)
  <2> HIDE DEF P
  <2> QED
    BY <1>3
<1>5. OfType(list, type) = g[1..n]
  BY <1>1 DEF OfType, FoldLeft, MapThenFoldSet
<1> HIDE DEF P, g, base, n
<1>6. Folds(type, base, list, n, g)
  BY <1>2, <1>4
<1>7. /\ g[1..0] = base
      /\ \A i \in 1..n : g[1..i] = Grow(type, g[1..i - 1], list[i])
  BY <1>1, <1>6, FoldSteps
<1> DEFINE t == [i \in 0..n |-> g[1..i]]
<1>8. /\ t[0] = base
      /\ \A i \in 1..n :
           t[i] = IF list[i].type = type THEN Append(t[i - 1], list[i]) ELSE t[i - 1]
      /\ t[n] = OfType(list, type)
  BY <1>1, <1>5, <1>7 DEF Grow
<1> HIDE DEF t
<1> QED
  BY <1>8 DEF base, n

LEMMA OfTypeTyped ==
  ASSUME NEW S, NEW list \in Seq(S), NEW type, type # "table"
  PROVE  OfType(list, type) \in Seq({list[j] : j \in {j \in 1..Len(list) : list[j].type = type}})
<1> DEFINE R == {list[j] : j \in {j \in 1..Len(list) : list[j].type = type}}
           n == Len(list)
<1>1. PICK t : /\ t[0] = <<>>
               /\ \A i \in 1..n :
                    t[i] = IF list[i].type = type THEN Append(t[i - 1], list[i]) ELSE t[i - 1]
               /\ t[n] = OfType(list, type)
  BY OfTypeSteps
<1> DEFINE D == {i \in Nat : i <= n => t[i] \in Seq(R)}
<1>2. n \in Nat
  OBVIOUS
<1>3. \A i \in 1..n : list[i].type = type => list[i] \in R
  OBVIOUS
<1> HIDE DEF n, R
<1>4. t[0] \in Seq(R)
  BY <1>1
<1>5. ASSUME NEW i \in Nat, i + 1 <= n, t[i] \in Seq(R) PROVE t[i + 1] \in Seq(R)
  <2>1. i + 1 \in 1..n /\ i + 1 - 1 = i
    BY <1>2, <1>5
  <2>2. t[i + 1] = IF list[i + 1].type = type THEN Append(t[i], list[i + 1]) ELSE t[i]
    BY <1>1, <2>1
  <2> QED
    BY <1>3, <1>5, <2>1, <2>2
<1>6. D \in SUBSET Nat /\ 0 \in D /\ \A i \in D : i + 1 \in D
  BY <1>2, <1>4, <1>5
<1>7. D = Nat
  <2> HIDE DEF D
  <2> QED
    BY <1>6, Induction
<1>8. t[n] \in Seq(R)
  BY <1>2, <1>7
<1> QED
  BY <1>1, <1>8 DEF R

-----------------------------------------------------------------------------
(* Blobs, and what Save puts into them and Load takes out of them.         *)

Least(a, b) == IF a <= b THEN a ELSE b

\* How many of len elements the first k blobs hold.
Cut(len, k) == Least(k * BlobSize, len)

LEMMA BlobCuts ==
  ASSUME NEW S, NEW items \in Seq(S), NEW k \in 1..Len(Blobs(items))
  PROVE  /\ Cut(Len(items), k - 1) \in Nat /\ Cut(Len(items), k) \in Nat
         /\ Cut(Len(items), k - 1) < Cut(Len(items), k) /\ Cut(Len(items), k) <= Len(items)
         /\ Blobs(items)[k] = SubSeq(items, Cut(Len(items), k - 1) + 1, Cut(Len(items), k))
<1> DEFINE L == Len(items)
           n == (L + BlobSize - 1) \div BlobSize
           lo(j) == (j - 1) * BlobSize + 1
           hi(j) == Min({j * BlobSize, L})
<1>1. BlobSize \in Nat \ {0} /\ L \in Nat
  BY V1LoadAssumption DEF V1LoadAssumption
<1>2. Blobs(items) = [j \in 1..n |-> SubSeq(items, lo(j), hi(j))]
  BY DEF Blobs
<1>3. n \in Nat
  <2>1. n \in Int
    BY <1>1
  <2> QED
    BY <1>1, <2>1
<1> HIDE DEF n, lo, hi
<1>4. k \in 1..n
  BY <1>2, <1>3
<1>5. /\ (k - 1) * BlobSize \in Nat /\ k * BlobSize \in Nat
      /\ (k - 1) * BlobSize + 1 <= L /\ k * BlobSize = (k - 1) * BlobSize + BlobSize
  BY <1>1, <1>4, BlobBounds DEF n
<1>6. hi(k) = Least(k * BlobSize, L)
  <2>1. \A a, b \in Nat : \E x \in {a, b} : \A y \in {a, b} : x <= y
    OBVIOUS
  <2>2. \E x \in {k * BlobSize, L} : \A y \in {k * BlobSize, L} : x <= y
    BY <1>1, <1>5, <2>1
  <2>3. hi(k) \in {k * BlobSize, L} /\ hi(k) <= L /\ hi(k) <= k * BlobSize
    BY <2>2 DEF Min, hi
  <2> QED
    BY <1>1, <1>5, <2>3 DEF Least
<1>7. Cut(L, k - 1) = (k - 1) * BlobSize /\ Cut(L, k) = hi(k)
  BY <1>1, <1>5, <1>6 DEF Cut, Least
<1>8. Blobs(items)[k] = SubSeq(items, lo(k), hi(k))
  BY <1>2, <1>4
<1>9. lo(k) = Cut(L, k - 1) + 1
  BY <1>7 DEF lo
<1> QED
  BY <1>1, <1>5, <1>6, <1>7, <1>8, <1>9 DEF Least

LEMMA OuterCuts ==
  ASSUME NEW S, NEW items \in Seq(S)
  PROVE  Cut(Len(items), 0) = 0 /\ Cut(Len(items), Len(Blobs(items))) = Len(items)
<1> DEFINE L == Len(items)
           n == (L + BlobSize - 1) \div BlobSize
<1>1. BlobSize \in Nat \ {0} /\ L \in Nat
  BY V1LoadAssumption DEF V1LoadAssumption
<1>2. n \in Int /\ n * BlobSize >= L
  BY <1>1
<1>3. n \in Nat
  BY <1>1, <1>2
<1>4. Len(Blobs(items)) = n
  BY <1>3 DEF Blobs
<1>5. Cut(L, 0) = 0
  BY <1>1 DEF Cut, Least
<1>6. Cut(L, n) = L
  <2> HIDE DEF n, L
  <2>1. n * BlobSize \in Int
    BY <1>1, <1>2
  <2> QED
    BY <1>1, <1>2, <2>1 DEF Cut, Least
<1> QED
  BY <1>4, <1>5, <1>6

-----------------------------------------------------------------------------
Streets == UniqueMap(Column(InputPoints, "street"))
Cities  == UniqueMap(Column(InputPoints, "city"))
AllNames == Names(InputPoints, InputZones)

\* The sequence of points as they are saved, before it is cut into blobs.
Saved == [i \in DOMAIN InputPoints |->
            [InputPoints[i] EXCEPT !.street = Streets[@], !.city = Cities[@],
                                   !.region = AllNames[@]]]

LEMMA ColumnTyped ==
  ASSUME NEW S, NEW items \in Seq(S), NEW field
  PROVE  /\ \E C : Column(items, field) \in Seq(C)
         /\ Len(Column(items, field)) = Len(items)
         /\ \A i \in 1..Len(items) : Column(items, field)[i] = items[i][field]
<1>1. Len(items) \in Nat /\ DOMAIN items = 1..Len(items) /\ \A i \in 1..Len(items) : items[i] \in S
  OBVIOUS
<1>2. Column(items, field) = [i \in 1..Len(items) |-> items[i][field]]
  BY <1>1 DEF Column
<1>3. \A i \in 1..Len(items) : items[i][field] \in {x[field] : x \in S}
  BY <1>1
<1> HIDE DEF Column
<1>4. Column(items, field) \in Seq({x[field] : x \in S})
  BY <1>1, <1>2, <1>3
<1>5. Len(Column(items, field)) = Len(items)
  BY <1>1, <1>2
<1>6. \A i \in 1..Len(items) : Column(items, field)[i] = items[i][field]
  BY <1>1, <1>2
<1> QED
  BY <1>4, <1>5, <1>6

LEMMA Inputs ==
  /\ Len(InputPoints) \in Nat /\ DOMAIN InputPoints = 1..Len(InputPoints)
  /\ Len(InputZones) \in Nat /\ DOMAIN InputZones = 1..Len(InputZones)
  /\ InputPoints \in Seq(Range(InputPoints)) /\ InputZones \in Seq(Range(InputZones))
  /\ \A i \in 1..Len(InputPoints) : InputPoints[i] \in Range(InputPoints)
  /\ \A i \in 1..Len(InputZones) : InputZones[i] \in Range(InputZones)
BY V1LoadAssumption DEF V1LoadAssumption

LEMMA Tables ==
  /\ Table(Streets) /\ Table(Cities) /\ Table(AllNames)
  /\ \A i \in 1..Len(InputPoints) : /\ InputPoints[i].street \in DOMAIN Streets
                                    /\ InputPoints[i].city \in DOMAIN Cities
                                    /\ InputPoints[i].region \in DOMAIN AllNames
  /\ \A i \in 1..Len(InputZones) : InputZones[i].name \in DOMAIN AllNames
<1>1. /\ Table(Streets)
      /\ \A i \in 1..Len(InputPoints) : InputPoints[i].street \in DOMAIN Streets
  <2> DEFINE col == Column(InputPoints, "street")
  <2>1. /\ \E C : col \in Seq(C)
        /\ Len(col) = Len(InputPoints)
        /\ \A i \in 1..Len(InputPoints) : col[i] = InputPoints[i]["street"]
    BY Inputs, ColumnTyped
  <2> HIDE DEF col
  <2>2. Table(UniqueMap(col)) /\ \A i \in 1..Len(col) : col[i] \in DOMAIN UniqueMap(col)
    BY <2>1, UniqueMapTable
  <2> QED
    BY <2>1, <2>2 DEF Streets, col
<1>2. /\ Table(Cities)
      /\ \A i \in 1..Len(InputPoints) : InputPoints[i].city \in DOMAIN Cities
  <2> DEFINE col == Column(InputPoints, "city")
  <2>1. /\ \E C : col \in Seq(C)
        /\ Len(col) = Len(InputPoints)
        /\ \A i \in 1..Len(InputPoints) : col[i] = InputPoints[i]["city"]
    BY Inputs, ColumnTyped
  <2> HIDE DEF col
  <2>2. Table(UniqueMap(col)) /\ \A i \in 1..Len(col) : col[i] \in DOMAIN UniqueMap(col)
    BY <2>1, UniqueMapTable
  <2> QED
    BY <2>1, <2>2 DEF Cities, col
<1>3. /\ Table(AllNames)
      /\ \A i \in 1..Len(InputPoints) : InputPoints[i].region \in DOMAIN AllNames
      /\ \A i \in 1..Len(InputZones) : InputZones[i].name \in DOMAIN AllNames
  <2> DEFINE a == Column(InputPoints, "region")
             b == Column(InputZones, "name")
  <2>1. /\ \E A : a \in Seq(A)
        /\ Len(a) = Len(InputPoints)
        /\ \A i \in 1..Len(InputPoints) : a[i] = InputPoints[i]["region"]
    BY Inputs, ColumnTyped
  <2>2. /\ \E B : b \in Seq(B)
        /\ Len(b) = Len(InputZones)
        /\ \A i \in 1..Len(InputZones) : b[i] = InputZones[i]["name"]
    BY Inputs, ColumnTyped
  <2>3. AllNames = UniqueMap(a \o b)
    BY DEF AllNames, Names
  <2> HIDE DEF a, b
  <2>4. PICK A, B : a \in Seq(A \cup B) /\ b \in Seq(A \cup B)
    <3>1. PICK A, B : a \in Seq(A) /\ b \in Seq(B)
      BY <2>1, <2>2
    <3>2. a \in Seq(A \cup B) /\ b \in Seq(A \cup B)
      BY <3>1
    <3> QED
      BY <3>2
  <2>5. /\ a \o b \in Seq(A \cup B) /\ Len(a \o b) = Len(a) + Len(b)
        /\ \A i \in 1..Len(a) : (a \o b)[i] = a[i]
        /\ \A i \in 1..Len(b) : (a \o b)[Len(a) + i] = b[i]
    BY <2>4
  <2>6. Table(AllNames) /\ \A i \in 1..Len(a \o b) : (a \o b)[i] \in DOMAIN AllNames
    BY <2>3, <2>5, UniqueMapTable
  <2>7. ASSUME NEW i \in 1..Len(InputPoints) PROVE InputPoints[i].region \in DOMAIN AllNames
    <3>1. i \in 1..Len(a) /\ i \in 1..Len(a \o b)
      BY <2>1, <2>2, <2>5, Inputs
    <3> QED
      BY <2>1, <2>5, <2>6, <3>1
  <2>8. ASSUME NEW i \in 1..Len(InputZones) PROVE InputZones[i].name \in DOMAIN AllNames
    <3>1. i \in 1..Len(b) /\ Len(a) + i \in 1..Len(a \o b)
      BY <2>1, <2>2, <2>5, Inputs
    <3> QED
      BY <2>2, <2>5, <2>6, <3>1
  <2> QED
    BY <2>6, <2>7, <2>8
<1> QED
  BY <1>1, <1>2, <1>3

\* What the file holds of a point or a zone is turned back into it.
LEMMA SavedForm ==
  ASSUME NEW i \in 1..Len(InputPoints)
  PROVE  /\ InputPoints[i] = [at |-> InputPoints[i].at, street |-> InputPoints[i].street,
                              city |-> InputPoints[i].city, region |-> InputPoints[i].region]
         /\ Saved[i] = [at |-> InputPoints[i].at, street |-> Streets[InputPoints[i].street],
                        city |-> Cities[InputPoints[i].city],
                        region |-> AllNames[InputPoints[i].region]]
<1> DEFINE p == InputPoints[i]
<1>1. p = [at |-> p.at, street |-> p.street, city |-> p.city, region |-> p.region]
  BY Inputs, RecordAssumption DEF RecordAssumption
<1>2. Saved[i] = [p EXCEPT !.street = Streets[@], !.city = Cities[@], !.region = AllNames[@]]
  BY Inputs DEF Saved
<1> HIDE DEF p
<1>3. Saved[i] = [at |-> p.at, street |-> Streets[p.street], city |-> Cities[p.city],
                  region |-> AllNames[p.region]]
  BY <1>1, <1>2
<1> QED
  BY <1>1, <1>3 DEF p

LEMMA PointBack ==
  ASSUME NEW i \in 1..Len(InputPoints)
  PROVE  MapPoint(Saved[i], F) = InputPoints[i]
<1> DEFINE p == InputPoints[i]
           q == [at |-> p.at, street |-> Streets[p.street], city |-> Cities[p.city],
                 region |-> AllNames[p.region]]
<1>1. p = [at |-> p.at, street |-> p.street, city |-> p.city, region |-> p.region]
  BY SavedForm
<1>2. Saved[i] = q
  BY SavedForm
<1>3. F.streets = Slice(Streets) /\ F.cities = Slice(Cities) /\ F.regions = Slice(AllNames)
  BY DEF F, SavedFile, Streets, Cities, AllNames
<1>4. /\ Slice(Streets)[Streets[p.street] + 1] = p.street
      /\ Slice(Cities)[Cities[p.city] + 1] = p.city
      /\ Slice(AllNames)[AllNames[p.region] + 1] = p.region
  BY Tables, LookUp
<1> HIDE DEF p
<1>5. MapPoint(q, F) = [at |-> p.at, street |-> p.street, city |-> p.city, region |-> p.region]
  <2>1. ASSUME NEW a, NEW b, NEW c, NEW d, NEW r,
               r = [at |-> a, street |-> b, city |-> c, region |-> d]
        PROVE  MapPoint(r, F) = [at |-> a, street |-> F.streets[b + 1],
                                 city |-> F.cities[c + 1], region |-> F.regions[d + 1]]
    <3>1. MapPoint(r, F) = [r EXCEPT !.street = F.streets[r.street + 1],
                                     !.city   = F.cities[r.city + 1],
                                     !.region = F.regions[r.region + 1]]
      BY DEF MapPoint
    <3>2. r.street = b /\ r.city = c /\ r.region = d
      BY <2>1
    <3> DEFINE x == F.streets[b + 1]
               y == F.cities[c + 1]
               z == F.regions[d + 1]
    <3>3. MapPoint(r, F) = [r EXCEPT !.street = x, !.city = y, !.region = z]
      BY <3>1, <3>2
    <3> HIDE DEF x, y, z
    <3>4. MapPoint(r, F) = [at |-> a, street |-> x, city |-> y, region |-> z]
      BY <2>1, <3>3
    <3> QED
      BY <3>4 DEF x, y, z
  <2> QED
    BY <1>3, <1>4, <2>1
<1> QED
  BY <1>1, <1>2, <1>5 DEF p

LEMMA ZoneBack ==
  ASSUME NEW i \in 1..Len(InputZones)
  PROVE  MapZone(InputZones[i].type,
                 [name |-> AllNames[InputZones[i].name], area |-> InputZones[i].area], F)
           = InputZones[i]
<1> DEFINE z == InputZones[i]
<1>1. z = [type |-> z.type, name |-> z.name, area |-> z.area]
  BY Inputs, RecordAssumption DEF RecordAssumption
<1>2. F.regions = Slice(AllNames)
  BY DEF F, SavedFile, AllNames
<1>3. Slice(AllNames)[AllNames[z.name] + 1] = z.name
  BY Tables, LookUp
<1> HIDE DEF z
<1>4. MapZone(z.type, [name |-> AllNames[z.name], area |-> z.area], F)
        = [type |-> z.type, name |-> z.name, area |-> z.area]
  BY <1>2, <1>3 DEF MapZone
<1> QED
  BY <1>1, <1>4 DEF z

LEMMA Piece ==
  ASSUME NEW S, NEW s \in Seq(S), NEW a \in Nat, NEW b \in Nat, a <= b, b <= Len(s)
  PROVE  /\ SubSeq(s, a + 1, b) = [i \in 1..b - a |-> s[a + i]]
         /\ SubSeq(s, a + 1, b) \in Seq(S) /\ Len(SubSeq(s, a + 1, b)) = b - a
<1> DEFINE t == SubSeq(s, a + 1, b)
<1>1. a + 1 \in 1..Len(s) + 1 /\ b \in (a + 1) - 1..Len(s) /\ b - (a + 1) + 1 = b - a
  OBVIOUS
<1>2. /\ t \in Seq(S) /\ Len(t) = b - a
      /\ \A i \in 1..b - a : t[i] = s[(a + 1) + i - 1]
  BY <1>1, SubSeqProperties
<1> HIDE DEF t
<1>3. \A i \in 1..b - a : (a + 1) + i - 1 = a + i
  OBVIOUS
<1>4. t = [i \in 1..b - a |-> s[a + i]]
  BY <1>2, <1>3
<1> QED
  BY <1>2, <1>4 DEF t

LEMMA PointsCut ==
  /\ F.points = Blobs(Saved) /\ Saved \in Seq(SavedPoints) /\ Len(Saved) = Len(InputPoints)
  /\ SavedPoints = {Saved[i] : i \in 1..Len(InputPoints)}
<1>1. F.points = Blobs(Saved)
  BY DEF F, SavedFile, Saved, Streets, Cities, AllNames
<1>2. SavedPoints = {Saved[i] : i \in 1..Len(InputPoints)}
  BY Inputs DEF SavedPoints, Saved, Streets, Cities, AllNames
<1>3. Len(Saved) = Len(InputPoints) /\ Saved = [i \in 1..Len(InputPoints) |-> Saved[i]]
  BY Inputs DEF Saved
<1>4. Saved \in Seq(SavedPoints)
  BY <1>2, <1>3, Inputs
<1> QED
  BY <1>1, <1>2, <1>3, <1>4

\* A blob read back is the next piece of the points, and is not an error.
LEMMA PointBlobBack ==
  ASSUME NEW k \in 1..N
  PROVE  /\ Cut(Len(InputPoints), k - 1) \in Nat /\ Cut(Len(InputPoints), k) \in Nat
         /\ Cut(Len(InputPoints), k - 1) < Cut(Len(InputPoints), k)
         /\ Cut(Len(InputPoints), k) <= Len(InputPoints)
         /\ F.points[k] # Err
         /\ MapPoints(F.points[k], F)
              = SubSeq(InputPoints, Cut(Len(InputPoints), k - 1) + 1, Cut(Len(InputPoints), k))
<1> DEFINE a == Cut(Len(InputPoints), k - 1)
           b == Cut(Len(InputPoints), k)
           L == Len(InputPoints)
<1>1. /\ a \in Nat /\ b \in Nat /\ a < b /\ b <= L
      /\ F.points[k] = SubSeq(Saved, a + 1, b)
  <2>1. k \in 1..Len(Blobs(Saved))
    BY PointsCut DEF N
  <2> QED
    BY <2>1, PointsCut, BlobCuts
<1> HIDE DEF a, b
<1>2. F.points[k] # Err
  <2> DEFINE Ats == {p.at : p \in Range(InputPoints)}
             Rec == [at : Ats, street : Nat, city : Nat, region : Nat]
  <2>1. \A i \in 1..L : /\ Streets[InputPoints[i].street] \in Nat
                        /\ Cities[InputPoints[i].city] \in Nat
                        /\ AllNames[InputPoints[i].region] \in Nat
    BY Tables DEF Table
  <2>2. \A i \in 1..L : InputPoints[i].at \in Ats
    BY Inputs
  <2> HIDE DEF Ats
  <2>3. \A i \in 1..L : Saved[i] \in Rec
    <3> SUFFICES ASSUME NEW i \in 1..L PROVE Saved[i] \in Rec
      OBVIOUS
    <3>1. Saved[i] = [at |-> InputPoints[i].at, street |-> Streets[InputPoints[i].street],
                      city |-> Cities[InputPoints[i].city],
                      region |-> AllNames[InputPoints[i].region]]
      BY SavedForm
    <3> QED
      BY <2>1, <2>2, <3>1
  <2> HIDE DEF Rec
  <2>4. Saved \in Seq(Rec)
    <3>1. Saved \in [1..L -> Rec] /\ L \in Nat
      <4>1. DOMAIN Saved = 1..L /\ Saved = [i \in DOMAIN Saved |-> Saved[i]]
        BY PointsCut
      <4> QED
        BY <2>3, <4>1, Inputs
    <3> HIDE DEF L
    <3> QED
      BY <3>1
  <2>5. SubSeq(Saved, a + 1, b) \in Seq(Rec)
    <3>1. Len(Saved) = L /\ L \in Nat
      BY PointsCut, Inputs
    <3>2. \A i \in a + 1..b : Saved[i] \in Rec
      BY <1>1, <2>3, <3>1
    <3> QED
      BY <1>1, <2>4, <3>1, <3>2, SubSeqProperties
  <2> QED
    BY <1>1, <2>5, RecordAssumption DEF RecordAssumption, Rec, Ats
<1>3. MapPoints(F.points[k], F) = SubSeq(InputPoints, a + 1, b)
  <2>1. L \in Nat /\ Len(Saved) = L /\ b - a \in Nat
    BY <1>1, PointsCut, Inputs
  <2>2. F.points[k] = [i \in 1..b - a |-> Saved[a + i]]
    BY <1>1, <2>1, PointsCut, Piece
  <2>3. SubSeq(InputPoints, a + 1, b) = [i \in 1..b - a |-> InputPoints[a + i]]
    BY <1>1, <2>1, Inputs, Piece, SMTT(30)
  <2>4. \A i \in 1..b - a : a + i \in 1..L
    BY <1>1, <2>1
  <2>5. \A i \in 1..b - a : MapPoint(Saved[a + i], F) = InputPoints[a + i]
    BY <2>4, PointBack
  <2>6. MapPoints(F.points[k], F) = [i \in 1..b - a |-> MapPoint(Saved[a + i], F)]
    BY <2>2 DEF MapPoints
  <2> QED
    BY <2>3, <2>5, <2>6
<1> QED
  BY <1>1, <1>2, <1>3 DEF a, b

LEMMA PointCuts ==
  /\ N \in Nat /\ Cut(Len(InputPoints), 0) = 0 /\ Cut(Len(InputPoints), N) = Len(InputPoints)
  /\ Prelude = 4
<1>1. Cut(Len(Saved), 0) = 0 /\ Cut(Len(Saved), Len(Blobs(Saved))) = Len(Saved)
  BY PointsCut, OuterCuts
<1> QED
  BY <1>1, PointsCut, FileTyped DEF N, Prelude

-----------------------------------------------------------------------------
ZonesOf(type) == OfType(InputZones, type)
BlobsOf(type) == ZoneBlobs(InputZones, type, AllNames)

LEMMA ZonesOfTyped ==
  ASSUME NEW type \in {"region", "country"}
  PROVE  /\ ZonesOf(type) \in Seq({z \in Range(InputZones) : z.type = type})
         /\ \A i \in 1..Len(ZonesOf(type)) :
              ZonesOf(type)[i] \in Range(InputZones) /\ ZonesOf(type)[i].type = type
<1> DEFINE A == {InputZones[j] : j \in {j \in 1..Len(InputZones) : InputZones[j].type = type}}
           B == {z \in Range(InputZones) : z.type = type}
<1>1. ZonesOf(type) \in Seq(A)
  BY Inputs, OfTypeTyped DEF ZonesOf
<1>2. A \subseteq B
  BY Inputs
<1> HIDE DEF A
<1>3. ZonesOf(type) \in Seq(B)
  <2> HIDE DEF B
  <2> QED
    BY <1>1, <1>2
<1>4. \A i \in 1..Len(ZonesOf(type)) : ZonesOf(type)[i] \in B
  <2> HIDE DEF B
  <2> QED
    BY <1>3
<1> QED
  BY <1>3, <1>4

LEMMA ZoneBlobBack ==
  ASSUME NEW type \in {"region", "country"}
  PROVE  /\ BlobsOf(type) = [k \in 1..Len(BlobsOf(type)) |-> BlobsOf(type)[k]]
         /\ Len(BlobsOf(type)) \in Nat
         /\ Cut(Len(ZonesOf(type)), 0) = 0
         /\ Cut(Len(ZonesOf(type)), Len(BlobsOf(type))) = Len(ZonesOf(type))
         /\ \A k \in 1..Len(BlobsOf(type)) :
              /\ Cut(Len(ZonesOf(type)), k - 1) \in Nat /\ Cut(Len(ZonesOf(type)), k) \in Nat
              /\ Cut(Len(ZonesOf(type)), k - 1) < Cut(Len(ZonesOf(type)), k)
              /\ Cut(Len(ZonesOf(type)), k) <= Len(ZonesOf(type))
              /\ MapZones(BlobsOf(type)[k], F)
                   = SubSeq(ZonesOf(type), Cut(Len(ZonesOf(type)), k - 1) + 1,
                            Cut(Len(ZonesOf(type)), k))
<1> DEFINE Z == ZonesOf(type)
           L == Len(Z)
           proto == ProtoZones(Z, AllNames)
           pz(i) == [name |-> AllNames[Z[i].name], area |-> Z[i].area]
           P == {pz(i) : i \in 1..L}
           n == Len(Blobs(proto))
<1>1. Z \in Seq(Range(InputZones)) /\ L \in Nat /\ DOMAIN Z = 1..L
  BY ZonesOfTyped
<1>2. proto = [i \in 1..L |-> pz(i)]
  BY <1>1 DEF ProtoZones
<1>3. \A i \in 1..L : MapZone(type, pz(i), F) = Z[i]
  <2> SUFFICES ASSUME NEW i \in 1..L PROVE MapZone(type, pz(i), F) = Z[i]
    OBVIOUS
  <2>1. Z[i] \in Range(InputZones) /\ Z[i].type = type
    BY ZonesOfTyped
  <2>2. PICK j \in 1..Len(InputZones) : InputZones[j] = Z[i]
    BY <2>1, Inputs DEF Range
  <2> QED
    BY <2>1, <2>2, ZoneBack
<1> HIDE DEF Z, proto, pz
<1>4. proto \in Seq(P) /\ Len(proto) = L
  BY <1>1, <1>2
<1> HIDE DEF P
<1>5. Blobs(proto) \in Seq(Seq(P))
  BY <1>4, BlobsTyped
<1>6. n \in Nat /\ DOMAIN Blobs(proto) = 1..n
  BY <1>5
<1>7. BlobsOf(type) = [k \in 1..n |-> [type |-> type, zones |-> Blobs(proto)[k]]]
  <2>1. BlobsOf(type) = [k \in DOMAIN Blobs(proto) |-> [type |-> type, zones |-> Blobs(proto)[k]]]
    BY DEF BlobsOf, ZoneBlobs, proto, Z, ZonesOf
  <2> QED
    BY <1>6, <2>1
<1>8. Cut(L, 0) = 0 /\ Cut(L, n) = L
  BY <1>4, OuterCuts
<1>9. ASSUME NEW k \in 1..n
      PROVE  /\ Cut(L, k - 1) \in Nat /\ Cut(L, k) \in Nat
             /\ Cut(L, k - 1) < Cut(L, k) /\ Cut(L, k) <= L
             /\ MapZones(BlobsOf(type)[k], F) = SubSeq(Z, Cut(L, k - 1) + 1, Cut(L, k))
  <2> DEFINE a == Cut(L, k - 1)
             b == Cut(L, k)
  <2>1. /\ a \in Nat /\ b \in Nat /\ a < b /\ b <= L
        /\ Blobs(proto)[k] = SubSeq(proto, a + 1, b)
    BY <1>4, BlobCuts
  <2> HIDE DEF a, b
  <2>2. BlobsOf(type)[k] = [type |-> type, zones |-> SubSeq(proto, a + 1, b)]
    BY <1>7, <2>1
  <2>3. /\ SubSeq(proto, a + 1, b) = [i \in 1..b - a |-> proto[a + i]]
        /\ SubSeq(Z, a + 1, b) = [i \in 1..b - a |-> Z[a + i]]
    BY <1>1, <1>4, <2>1, Piece DEF L
  <2>4. \A i \in 1..b - a : a + i \in 1..L
    BY <1>1, <2>1
  <2>5. \A i \in 1..b - a : MapZone(type, proto[a + i], F) = Z[a + i]
    BY <1>2, <1>3, <2>4
  <2>6. MapZones(BlobsOf(type)[k], F) = [i \in 1..b - a |-> MapZone(type, proto[a + i], F)]
    <3>1. ASSUME NEW q, NEW blob, blob = [type |-> type, zones |-> q],
                 q = [i \in 1..b - a |-> proto[a + i]]
          PROVE  MapZones(blob, F) = [i \in 1..b - a |-> MapZone(type, proto[a + i], F)]
      <4>1. blob.type = type /\ blob.zones = q
        BY <3>1
      <4>2. MapZones(blob, F) = [i \in DOMAIN q |-> MapZone(type, q[i], F)]
        BY <4>1 DEF MapZones
      <4>3. DOMAIN q = 1..b - a /\ \A i \in 1..b - a : q[i] = proto[a + i]
        BY <3>1
      <4> QED
        BY <4>2, <4>3
    <3> QED
      BY <2>2, <2>3, <3>1
  <2>7. MapZones(BlobsOf(type)[k], F) = SubSeq(Z, a + 1, b)
    BY <2>3, <2>5, <2>6
  <2> QED
    BY <2>1, <2>7 DEF a, b
<1>10. Len(BlobsOf(type)) = n /\ BlobsOf(type) = [k \in 1..n |-> BlobsOf(type)[k]]
  BY <1>6, <1>7
<1> HIDE DEF n, L
<1> QED
  BY <1>6, <1>8, <1>9, <1>10 DEF Z, L

\* How many blobs of zones the file has.
M == Len(F.zones)

\* How many zones the first k blobs of zones hold, those of regions first.
ZoneCut(k) ==
  IF k <= Len(BlobsOf("region")) THEN Cut(Len(ZonesOf("region")), k)
  ELSE Len(ZonesOf("region")) + Cut(Len(ZonesOf("country")), k - Len(BlobsOf("region")))

LEMMA ZonesBack ==
  /\ SavedZones \in Seq(Range(InputZones)) /\ M \in Nat
  /\ ZoneCut(0) = 0 /\ ZoneCut(M) = Len(SavedZones)
  /\ \A k \in 1..M :
       /\ ZoneCut(k - 1) \in Nat /\ ZoneCut(k) \in Nat
       /\ ZoneCut(k - 1) <= ZoneCut(k) /\ ZoneCut(k) <= Len(SavedZones)
       /\ MapZones(F.zones[k], F) = SubSeq(SavedZones, ZoneCut(k - 1) + 1, ZoneCut(k))
<1> DEFINE Z == Range(InputZones)
           r == ZonesOf("region")
           c == ZonesOf("country")
           br == BlobsOf("region")
           bc == BlobsOf("country")
           n == Len(br)
           m == Len(bc)
           B == {br[k] : k \in 1..n} \cup {bc[k] : k \in 1..m}
<1>1. r \in Seq(Z) /\ c \in Seq(Z)
  BY ZonesOfTyped
<1>2. /\ n \in Nat /\ br = [k \in 1..n |-> br[k]] /\ Cut(Len(r), 0) = 0 /\ Cut(Len(r), n) = Len(r)
      /\ \A k \in 1..n :
              /\ Cut(Len(r), k - 1) \in Nat /\ Cut(Len(r), k) \in Nat
              /\ Cut(Len(r), k - 1) < Cut(Len(r), k)
              /\ Cut(Len(r), k) <= Len(r)
              /\ MapZones(br[k], F) = SubSeq(r, Cut(Len(r), k - 1) + 1, Cut(Len(r), k))
  BY ZoneBlobBack
<1>3. /\ m \in Nat /\ bc = [k \in 1..m |-> bc[k]] /\ Cut(Len(c), 0) = 0 /\ Cut(Len(c), m) = Len(c)
      /\ \A k \in 1..m :
              /\ Cut(Len(c), k - 1) \in Nat /\ Cut(Len(c), k) \in Nat
              /\ Cut(Len(c), k - 1) < Cut(Len(c), k)
              /\ Cut(Len(c), k) <= Len(c)
              /\ MapZones(bc[k], F) = SubSeq(c, Cut(Len(c), k - 1) + 1, Cut(Len(c), k))
  BY ZoneBlobBack
<1>4. F.zones = br \o bc
  BY DEF F, SavedFile, BlobsOf, AllNames
<1>5. SavedZones = r \o c
  BY DEF SavedZones, ZonesOf
<1>6. \A k : ZoneCut(k) = IF k <= n THEN Cut(Len(r), k) ELSE Len(r) + Cut(Len(c), k - n)
  BY DEF ZoneCut
<1> HIDE DEF r, c, br, bc, Z
<1>7. br \in Seq(B) /\ bc \in Seq(B)
  <2>1. /\ \A k \in 1..n : br[k] \in B
        /\ \A k \in 1..m : bc[k] \in B
    OBVIOUS
  <2> HIDE DEF B, n, m
  <2>2. br \in [1..n -> B] /\ bc \in [1..m -> B]
    BY <1>2, <1>3, <2>1
  <2>3. n \in Nat /\ m \in Nat
    BY <1>2, <1>3
  <2>4. br \in Seq(B)
    BY <2>2, <2>3
  <2>5. bc \in Seq(B)
    BY <2>2, <2>3
  <2> QED
    BY <2>4, <2>5
<1> HIDE DEF B
<1>8. /\ M = n + m
      /\ \A k \in 1..n : F.zones[k] = br[k]
      /\ \A k \in 1..m : F.zones[n + k] = bc[k]
  BY <1>4, <1>7 DEF M
<1>9. /\ Len(r) \in Nat /\ Len(c) \in Nat /\ SavedZones \in Seq(Z)
      /\ Len(SavedZones) = Len(r) + Len(c)
  BY <1>1, <1>5
<1> HIDE DEF n, m
<1>10. ZoneCut(0) = 0
  BY <1>2, <1>6
<1>11. ZoneCut(M) = Len(SavedZones)
  <2>1. CASE m = 0
    <3>1. M = n
      BY <1>2, <1>8, <2>1
    <3>2. Len(c) = 0
      BY <1>3, <2>1
    <3>3. ZoneCut(n) = Len(r)
      BY <1>2, <1>6
    <3> QED
      BY <1>9, <3>1, <3>2, <3>3
  <2>2. CASE m # 0
    <3>1. ~(M <= n) /\ M - n = m
      BY <1>2, <1>3, <1>8, <2>2
    <3> QED
      BY <1>3, <1>6, <1>9, <3>1
  <2> QED
    BY <2>1, <2>2
<1>12. ASSUME NEW k \in 1..M
       PROVE  /\ ZoneCut(k - 1) \in Nat /\ ZoneCut(k) \in Nat
              /\ ZoneCut(k - 1) <= ZoneCut(k) /\ ZoneCut(k) <= Len(SavedZones)
              /\ MapZones(F.zones[k], F) = SubSeq(SavedZones, ZoneCut(k - 1) + 1, ZoneCut(k))
  <2>1. CASE k <= n
    <3>1. k \in 1..n /\ k - 1 <= n
      BY <1>2, <2>1
    <3> DEFINE a == Cut(Len(r), k - 1)
               b == Cut(Len(r), k)
    <3>2. ZoneCut(k - 1) = a /\ ZoneCut(k) = b
      BY <1>6, <3>1
    <3>3. /\ a \in Nat /\ b \in Nat /\ a < b /\ b <= Len(r)
          /\ MapZones(F.zones[k], F) = SubSeq(r, a + 1, b)
      BY <1>2, <1>8, <3>1
    <3> HIDE DEF a, b
    <3>4. SubSeq(SavedZones, a + 1, b) = SubSeq(r, a + 1, b)
      <4>1. a + 1 \in 1..Len(r) /\ b \in 1..Len(r)
        BY <1>9, <3>3
      <4>2. SubSeq(r \o c, a + 1, b) = SubSeq(r, a + 1, b)
        BY <1>1, <4>1, SubSeqOfConcat1
      <4> QED
        BY <1>5, <4>2
    <3>5. b <= Len(SavedZones) /\ a <= b
      BY <1>9, <3>3
    <3> QED
      BY <3>2, <3>3, <3>4, <3>5
  <2>2. CASE k > n
    <3> DEFINE j == k - n
               a == Cut(Len(c), j - 1)
               b == Cut(Len(c), j)
    <3>1. j \in 1..m /\ k = n + j /\ ~(k <= n) /\ j - 1 = (k - 1) - n /\ k \in Int
      BY <1>2, <1>3, <1>8, <2>2
    <3>2. ZoneCut(k) = Len(r) + b
      BY <1>6, <3>1
    <3>3. ZoneCut(k - 1) = Len(r) + a
      <4>1. CASE k - 1 = n
        <5>1. j - 1 = 0 /\ k - 1 <= n
          <6> HIDE DEF j
          <6> QED
            BY <1>2, <3>1, <4>1
        <5>2. a = 0
          BY <1>3, <5>1
        <5>3. ZoneCut(k - 1) = Len(r)
          BY <1>2, <1>6, <4>1, <5>1
        <5> QED
          BY <1>9, <5>2, <5>3
      <4>2. CASE k - 1 # n
        <5>1. ~(k - 1 <= n)
          BY <1>2, <2>2, <4>2
        <5> QED
          BY <1>6, <3>1, <5>1
      <4> QED
        BY <4>1, <4>2
    <3>4. /\ a \in Nat /\ b \in Nat /\ a < b /\ b <= Len(c)
          /\ MapZones(F.zones[k], F) = SubSeq(c, a + 1, b)
      BY <1>3, <1>8, <3>1
    <3> HIDE DEF a, b, j
    <3>5. SubSeq(SavedZones, (Len(r) + a) + 1, Len(r) + b) = SubSeq(c, a + 1, b)
      <4> DEFINE x == (Len(r) + a) + 1
                 y == Len(r) + b
      <4>1. /\ x \in Len(r) + 1..Len(r) + Len(c) /\ y \in Len(r) + 1..Len(r) + Len(c)
            /\ x - Len(r) = a + 1 /\ y - Len(r) = b
        BY <1>9, <3>4
      <4> HIDE DEF x, y
      <4>2. SubSeq(r \o c, x, y) = SubSeq(c, x - Len(r), y - Len(r))
        BY <1>1, <4>1, SubSeqOfConcat2
      <4>3. SubSeq(r \o c, x, y) = SubSeq(c, a + 1, b)
        BY <4>1, <4>2, Zenon
      <4> QED
        BY <1>5, <4>3 DEF x, y
    <3>6. /\ Len(r) + b <= Len(SavedZones) /\ Len(r) + a <= Len(r) + b
          /\ Len(r) + a \in Nat /\ Len(r) + b \in Nat
      BY <1>9, <3>4
    <3> QED
      BY <3>2, <3>3, <3>4, <3>5, <3>6
  <2> QED
    BY <1>2, <2>1, <2>2
<1> QED
  BY <1>2, <1>3, <1>8, <1>9, <1>10, <1>11, <1>12 DEF Z

-----------------------------------------------------------------------------
(* Sequences that go on a source up to their first error.                  *)

\* What is in front of the first error of a sequence goes on a source from base.
Follows(s, source, base) ==
  \A i \in 1..Len(s) : (\A j \in 1..i : s[j] # Err) =>
    base + i \in DOMAIN source /\ s[i] = source[base + i]

LEMMA HasBoth ==
  ASSUME NEW S, NEW s \in Seq(S), NEW t \in Seq(S)
  PROVE  Has(s \o t) <=> Has(s) \/ Has(t)
<1> DEFINE st == s \o t
<1>1. /\ Len(s) \in Nat /\ Len(t) \in Nat /\ Len(st) = Len(s) + Len(t)
      /\ \A i \in 1..Len(s) : st[i] = s[i]
      /\ \A i \in 1..Len(t) : st[Len(s) + i] = t[i]
  OBVIOUS
<1> HIDE DEF st
<1>2. ASSUME NEW i \in 1..Len(st), st[i] = Err PROVE Has(s) \/ Has(t)
  <2>1. CASE i \in 1..Len(s)
    BY <1>1, <1>2, <2>1 DEF Has
  <2>2. CASE i \notin 1..Len(s)
    <3>1. PICK j \in 1..Len(t) : i = Len(s) + j
      <4>1. i - Len(s) \in 1..Len(t) /\ i = Len(s) + (i - Len(s))
        BY <1>1, <2>2
      <4> QED
        BY <4>1
    <3> QED
      BY <1>1, <1>2, <3>1 DEF Has
  <2> QED
    BY <2>1, <2>2
<1>3. \A i \in 1..Len(s) : i \in 1..Len(st)
  BY <1>1
<1>4. \A i \in 1..Len(t) : Len(s) + i \in 1..Len(st)
  BY <1>1
<1>5. Has(s) => Has(st)
  BY <1>1, <1>3 DEF Has
<1>6. Has(t) => Has(st)
  BY <1>1, <1>4 DEF Has
<1> QED
  BY <1>2, <1>5, <1>6 DEF Has, st

LEMMA FollowsBoth ==
  ASSUME NEW S, NEW s \in Seq(S), NEW t \in Seq(S), NEW source, NEW base \in Nat,
         Follows(s, source, base), Has(s) \/ Follows(t, source, base + Len(s))
  PROVE  Follows(s \o t, source, base)
<1> DEFINE st == s \o t
<1>1. /\ Len(s) \in Nat /\ Len(t) \in Nat /\ Len(st) = Len(s) + Len(t)
      /\ \A i \in 1..Len(s) : st[i] = s[i]
      /\ \A i \in 1..Len(t) : st[Len(s) + i] = t[i]
  OBVIOUS
<1> HIDE DEF st
<1> SUFFICES ASSUME NEW i \in 1..Len(st), \A j \in 1..i : st[j] # Err
             PROVE  base + i \in DOMAIN source /\ st[i] = source[base + i]
  BY DEF Follows, st
<1>2. CASE i \in 1..Len(s)
  <2>1. \A j \in 1..i : j \in 1..Len(s) /\ s[j] # Err
    BY <1>1, <1>2
  <2> QED
    BY <1>1, <1>2, <2>1 DEF Follows
<1>3. CASE i \notin 1..Len(s)
  <2>1. PICK k \in 1..Len(t) : i = Len(s) + k
    <3>1. i - Len(s) \in 1..Len(t) /\ i = Len(s) + (i - Len(s))
      BY <1>1, <1>3
    <3> QED
      BY <3>1
  <2>2. ~Has(s)
    <3>1. \A j \in 1..Len(s) : j \in 1..i
      BY <1>1, <2>1
    <3> QED
      BY <1>1, <3>1 DEF Has
  <2>3. \A j \in 1..k : j \in 1..Len(t) /\ Len(s) + j \in 1..i
    BY <1>1, <2>1
  <2>4. \A j \in 1..k : t[j] # Err
    BY <1>1, <2>3
  <2>5. (base + Len(s)) + k \in DOMAIN source /\ t[k] = source[(base + Len(s)) + k]
    BY <2>1, <2>2, <2>4 DEF Follows
  <2>6. (base + Len(s)) + k = base + i
    BY <1>1, <2>1
  <2>7. st[i] = t[k]
    BY <1>1, <2>1
  <2> QED
    BY <2>5, <2>6, <2>7, Zenon
<1> QED
  BY <1>2, <1>3

LEMMA FollowsTail ==
  ASSUME NEW S, NEW s \in Seq(S), s # <<>>, NEW source, NEW base \in Nat,
         Follows(s, source, base), Head(s) # Err
  PROVE  /\ base + 1 \in DOMAIN source /\ Head(s) = source[base + 1]
         /\ Follows(Tail(s), source, base + 1)
<1> DEFINE t == Tail(s)
<1>1. /\ Len(s) \in Nat /\ Len(s) >= 1 /\ Len(t) = Len(s) - 1 /\ Head(s) = s[1]
      /\ \A i \in 1..Len(s) - 1 : t[i] = s[i + 1]
  BY HeadTailProperties
<1> HIDE DEF t
<1>2. base + 1 \in DOMAIN source /\ Head(s) = source[base + 1]
  <2>1. 1 \in 1..Len(s) /\ \A j \in 1..1 : s[j] # Err
    BY <1>1
  <2> QED
    BY <1>1, <2>1 DEF Follows
<1>3. ASSUME NEW i \in 1..Len(t), \A j \in 1..i : t[j] # Err
      PROVE  (base + 1) + i \in DOMAIN source /\ t[i] = source[(base + 1) + i]
  <2>1. i + 1 \in 1..Len(s) /\ t[i] = s[i + 1]
    BY <1>1
  <2>2. ASSUME NEW j \in 1..i + 1 PROVE s[j] # Err
    <3>1. CASE j = 1
      BY <1>1, <3>1
    <3>2. CASE j # 1
      <4>1. PICK k \in 1..i : j = k + 1
        <5>1. j - 1 \in 1..i /\ j = (j - 1) + 1
          BY <3>2
        <5> QED
          BY <5>1
      <4>2. t[k] = s[k + 1]
        BY <1>1, <4>1
      <4> QED
        BY <1>3, <4>1, <4>2
    <3> QED
      BY <3>1, <3>2
  <2>3. base + (i + 1) \in DOMAIN source /\ s[i + 1] = source[base + (i + 1)]
    BY <2>1, <2>2 DEF Follows
  <2>4. (base + 1) + i = base + (i + 1)
    BY <1>1
  <2> QED
    BY <2>1, <2>3, <2>4, Zenon
<1> QED
  BY <1>2, <1>3 DEF Follows, t

\* A send to a channel and a receive from it, seen together with what is next
\* to the channel.
LEMMA Shift ==
  ASSUME NEW S, NEW s \in Seq(S), NEW t \in Seq(S)
  PROVE  /\ t # <<>> => Append(s, Head(t)) \o Tail(t) = s \o t
         /\ s # <<>> => /\ Head(s \o t) = Head(s) /\ Tail(s \o t) = Tail(s) \o t
                        /\ s \o t # <<>>
         /\ s \o <<>> = s /\ <<>> \o t = t
         /\ s \o t \in Seq(S) /\ Len(s \o t) = Len(s) + Len(t)
<1>1. ASSUME t # <<>> PROVE Append(s, Head(t)) \o Tail(t) = s \o t
  <2>1. Head(t) \in S /\ Tail(t) \in Seq(S) /\ <<Head(t)>> \in Seq(S)
    BY <1>1, HeadTailProperties
  <2>2. <<Head(t)>> \o Tail(t) = t
    BY <1>1, <2>1, HeadTailProperties, SeqEqual
  <2>3. Append(s, Head(t)) = s \o <<Head(t)>>
    BY <2>1, AppendIsConcat
  <2> QED
    BY <2>1, <2>2, <2>3, ConcatAssociative, SMTT(30)
<1>2. ASSUME s # <<>>
      PROVE  Head(s \o t) = Head(s) /\ Tail(s \o t) = Tail(s) \o t /\ s \o t # <<>>
  BY <1>2, ConcatProperties, HeadTailProperties
<1>3. s \o <<>> = s /\ <<>> \o t = t /\ s \o t \in Seq(S) /\ Len(s \o t) = Len(s) + Len(t)
  BY ConcatEmptySeq
<1> QED
  BY <1>1, <1>2, <1>3

LEMMA FollowsAppend ==
  ASSUME NEW S, NEW s \in Seq(S), NEW x \in S, NEW source, NEW base \in Nat,
         Follows(s, source, base),
         \/ x = Err
         \/ Has(s)
         \/ base + Len(s) + 1 \in DOMAIN source /\ x = source[base + Len(s) + 1]
  PROVE  Follows(Append(s, x), source, base)
<1>1. Append(s, x) = s \o <<x>> /\ <<x>> \in Seq(S)
  BY AppendIsConcat
<1>2. Has(s) \/ Follows(<<x>>, source, base + Len(s))
  <2> SUFFICES ASSUME ~Has(s) PROVE Follows(<<x>>, source, base + Len(s))
    OBVIOUS
  <2> DEFINE t == <<x>>
  <2>1. Len(t) = 1 /\ t[1] = x /\ 1..1 = {1} /\ 1 \in 1..1
    OBVIOUS
  <2> HIDE DEF t
  <2>2. Follows(t, source, base + Len(s))
    BY <2>1 DEF Follows
  <2> QED
    BY <2>2 DEF t
<1> QED
  BY <1>1, <1>2, FollowsBoth

-----------------------------------------------------------------------------
\* What is on its way from the decoder to the mapper, and on to the consumer.
Outgoing == outChan \o (IF mapper.at = "send" THEN mapper.out ELSE <<>>)
Decoding == blobChan \o (IF decoder.at \in {"send", "last"} THEN <<decoder.blob>> ELSE <<>>)

\* The sections up to one have been found right.
Sound(section) == \A s \in 1..section : Readable(s) /\ Decodes(s)

\* The numbers of the blobs, from the consumer up the pipeline to the reader,
\* as far as no error is met on the way.
ReaderFlow(r) ==
  /\ reader.i = r + 1
  /\ Prelude + r <= written
  /\ reader.at = "send" => Readable(Prelude + reader.i)
  /\ reader.at = "end" => r = N /\ pos = Prelude + N + 1

ChunkFlow(d) ==
  /\ d \in 0..N
  /\ Sound(Prelude) /\ \A k \in 1..d : Decodes(Prelude + k)
  /\ Follows(chunkChan, [k \in 1..N |-> Prelude + k], d)
  /\ ~Has(chunkChan) /\ reader.at # "fail" => ReaderFlow(d + Len(chunkChan))

BlobFlow(m) ==
  /\ m \in 0..N
  /\ Len(points) + Len(Outgoing) = Cut(Len(InputPoints), m)
  /\ Follows(Decoding, F.points, m)
  /\ ~Has(Decoding) => \E d \in 0..N : d = m + Len(Decoding) /\ ChunkFlow(d)

Flow ==
  /\ Follows(Outgoing, InputPoints, Len(points))
  /\ ~Has(Outgoing) => \E m \in 0..N : BlobFlow(m)

Delivered ==
  /\ points \in Seq(Range(InputPoints)) /\ Len(points) <= Len(InputPoints)
  /\ \A i \in 1..Len(points) : points[i] = InputPoints[i]

LEMMA StagesTyped ==
  ASSUME Types
  PROVE  /\ outChan \in Seq(Outs) /\ Outgoing \in Seq(Outs)
         /\ blobChan \in Seq(PointBlobs) /\ Decoding \in Seq(PointBlobs)
         /\ chunkChan \in Seq(Chunks)
         /\ Len(outChan) \in Nat /\ Len(Outgoing) \in Nat /\ Len(blobChan) \in Nat
         /\ Len(Decoding) \in Nat /\ Len(chunkChan) \in Nat
<1>1. /\ outChan \in Seq(Outs) /\ blobChan \in Seq(PointBlobs) /\ chunkChan \in Seq(Chunks)
      /\ mapper.out \in Seq(Outs) /\ decoder.blob \in PointBlobs
  BY DEF Types
<1>2. <<decoder.blob>> \in Seq(PointBlobs)
  BY <1>1
<1>3. /\ outChan \o mapper.out \in Seq(Outs) /\ outChan \o <<>> \in Seq(Outs)
  BY <1>1, ConcatProperties
<1>4. /\ blobChan \o <<decoder.blob>> \in Seq(PointBlobs) /\ blobChan \o <<>> \in Seq(PointBlobs)
  BY <1>1, <1>2, ConcatProperties
<1>5. Outgoing \in Seq(Outs) /\ Decoding \in Seq(PointBlobs)
  BY <1>3, <1>4 DEF Outgoing, Decoding
<1> QED
  BY <1>1, <1>5

LEMMA ReaderKeeps ==
  ASSUME Inv, consumer = "points", NEW d, ChunkFlow(d), ReaderCheck \/ ReaderRead \/ ReaderSend
  PROVE  ChunkFlow(d)'
<1>1. /\ file = F /\ ~stopped /\ N \in Nat /\ Prelude = 4 /\ NumPoints = N
      /\ UNCHANGED <<file, written, damage, stopped>>
      /\ reader \in [at : {"idle", "check", "read", "send", "fail", "end"}, i : 1..N + 1]
      /\ chunkChan \in Seq(Chunks) /\ Len(chunkChan) \in Nat
  BY PointCuts, StagesTyped
     DEF Inv, Types, NumPoints, N, ReaderCheck, ReaderRead, ReaderSend, fileVars
<1>2. /\ d \in 0..N /\ (Sound(Prelude) /\ \A k \in 1..d : Decodes(Prelude + k))'
      /\ Follows(chunkChan, [k \in 1..N |-> Prelude + k], d)
  BY <1>1 DEF ChunkFlow, Sound, Readable, Decodes, Prelude
<1>3. ~Has(chunkChan) /\ reader.at # "fail" => ReaderFlow(d + Len(chunkChan))
  BY DEF ChunkFlow
<1>4. CASE ReaderCheck
  <2>1. /\ reader.at = "check" /\ pos = Prelude + reader.i /\ UNCHANGED <<pos, chunkChan>>
        /\ reader'.at = (IF reader.i > N THEN "end" ELSE "read") /\ reader'.i = reader.i
    BY <1>1, <1>4 DEF Inv, ReaderCheck
  <2>2. Has(chunkChan)' = Has(chunkChan) /\ Len(chunkChan)' = Len(chunkChan)
    BY <2>1 DEF Has
  <2>3. ASSUME ~Has(chunkChan) PROVE ReaderFlow(d + Len(chunkChan))'
    <3>1. ReaderFlow(d + Len(chunkChan))
      BY <1>3, <2>1, <2>3
    <3>2. reader.i = d + Len(chunkChan) + 1 /\ Prelude + (d + Len(chunkChan)) <= written
      BY <3>1 DEF ReaderFlow
    <3>3. reader.i > N => d + Len(chunkChan) = N /\ pos = Prelude + N + 1
      BY <1>1, <1>2, <2>1, <3>2
    <3> QED
      BY <1>1, <2>1, <3>2, <3>3 DEF ReaderFlow, Prelude
  <2> QED
    BY <1>2, <2>1, <2>2, <2>3 DEF ChunkFlow, Follows, Prelude
<1>5. CASE ReaderRead
  <2>1. /\ reader.at = "read" /\ pos = Prelude + reader.i /\ UNCHANGED chunkChan
        /\ reader'.at = (IF Readable(pos) THEN "send" ELSE "fail") /\ reader'.i = reader.i
    BY <1>1, <1>5 DEF Inv, ReaderRead
  <2>2. Has(chunkChan)' = Has(chunkChan) /\ Len(chunkChan)' = Len(chunkChan)
    BY <2>1 DEF Has
  <2>3. ASSUME ~Has(chunkChan), reader'.at = "send" PROVE ReaderFlow(d + Len(chunkChan))'
    <3>1. ReaderFlow(d + Len(chunkChan))
      BY <1>3, <2>1, <2>3
    <3>2. reader.i = d + Len(chunkChan) + 1 /\ Prelude + (d + Len(chunkChan)) <= written
      BY <3>1 DEF ReaderFlow
    <3>3. Readable(Prelude + reader.i)
      BY <2>1, <2>3
    <3> QED
      BY <1>1, <2>1, <2>3, <3>2, <3>3 DEF ReaderFlow, Readable, Prelude
  <2>4. reader'.at \in {"send", "fail"}
    BY <2>1
  <2> QED
    BY <1>2, <2>1, <2>2, <2>3, <2>4 DEF ChunkFlow, Follows, Prelude
<1>6. CASE ReaderSend /\ reader.at = "send"
  <2> DEFINE x == Prelude + reader.i
             source == [k \in 1..N |-> Prelude + k]
  <2>1. /\ reader.i <= N /\ pos = Prelude + reader.i + 1 /\ chunkChan' = Append(chunkChan, x)
        /\ reader' = [at |-> "check", i |-> reader.i + 1]
    BY <1>6 DEF Inv, ReaderSend
  <2>2. x \in Chunks /\ x # Err
    BY <1>1, <2>1, RecordAssumption DEF RecordAssumption, Chunks
  <2>3. ~Has(chunkChan) => ReaderFlow(d + Len(chunkChan))
    BY <1>3, <1>6
  <2>4. \/ Has(chunkChan)
        \/ d + Len(chunkChan) + 1 \in DOMAIN source /\ x = source[d + Len(chunkChan) + 1]
    BY <1>1, <1>2, <2>1, <2>3 DEF ReaderFlow
  <2> HIDE DEF x, source
  <2>5. Follows(chunkChan', source, d)
    <3>1. d \in Nat /\ Follows(chunkChan, source, d)
      BY <1>1, <1>2 DEF source
    <3> QED
      BY <1>1, <2>1, <2>2, <2>4, <3>1, FollowsAppend
  <2>6. /\ Has(chunkChan') <=> Has(chunkChan)
        /\ Len(chunkChan') = Len(chunkChan) + 1
    BY <1>1, <2>1, <2>2, SendHas
  <2>7. ASSUME ~Has(chunkChan) PROVE ReaderFlow(d + Len(chunkChan))'
    <3>1. reader.i = d + Len(chunkChan) + 1 /\ Readable(Prelude + reader.i)
      BY <1>6, <2>3, <2>7 DEF ReaderFlow
    <3>2. reader'.i = reader.i + 1 /\ reader'.at = "check"
      BY <2>1
    <3>3. reader'.i = (d + Len(chunkChan')) + 1 /\ Prelude + (d + Len(chunkChan')) <= written'
      BY <1>1, <1>2, <2>6, <3>1, <3>2 DEF Readable
    <3> QED
      BY <3>2, <3>3 DEF ReaderFlow, Prelude
  <2>8. Has(chunkChan)' <=> Has(chunkChan')
    BY DEF Has
  <2> QED
    BY <1>2, <2>5, <2>6, <2>7, <2>8 DEF ChunkFlow, Follows, Prelude, source
<1>7. CASE ReaderSend /\ reader.at = "fail"
  <2> DEFINE source == [k \in 1..N |-> Prelude + k]
  <2>1. chunkChan' = Append(chunkChan, Err) /\ Err \in Chunks
    BY <1>7 DEF ReaderSend, Chunks
  <2>2. Has(chunkChan') /\ (Has(chunkChan)' <=> Has(chunkChan'))
    BY <1>1, <2>1, SendHas DEF Has
  <2> HIDE DEF source
  <2>3. Follows(chunkChan', source, d)
    <3>1. d \in Nat /\ Follows(chunkChan, source, d)
      BY <1>1, <1>2 DEF source
    <3> QED
      BY <1>1, <2>1, <3>1, FollowsAppend
  <2> QED
    BY <1>2, <2>2, <2>3 DEF ChunkFlow, Follows, Prelude, source
<1> QED
  BY <1>4, <1>5, <1>6, <1>7 DEF ReaderSend

LEMMA DecoderReceiveKeeps ==
  ASSUME Inv, consumer = "points", DecoderReceive, NEW m, BlobFlow(m)
  PROVE  BlobFlow(m)'
<1>1. /\ file = F /\ ~stopped /\ N \in Nat /\ Prelude = 4 /\ Types /\ m \in Nat
      /\ UNCHANGED <<file, written, damage, stopped, pos, reader, blobChan, mapper, outChan,
                     points>>
      /\ decoder.at = "receive"
      /\ blobChan \in Seq(PointBlobs) /\ Len(blobChan) \in Nat
      /\ chunkChan \in Seq(Chunks) /\ Len(chunkChan) \in Nat
  BY PointCuts, StagesTyped DEF Inv, Types, BlobFlow, DecoderReceive, fileVars, gotVars
<1>2. /\ m \in 0..N /\ Outgoing' = Outgoing
      /\ (Len(points) + Len(Outgoing) = Cut(Len(InputPoints), m))'
  BY <1>1 DEF BlobFlow, Outgoing
<1>3. Decoding = blobChan
  BY <1>1, ConcatEmptySeq DEF Decoding
<1>4. /\ Follows(blobChan, F.points, m)
      /\ ~Has(blobChan) => \E d \in 0..N : d = m + Len(blobChan) /\ ChunkFlow(d)
  BY <1>3 DEF BlobFlow
<1>5. CASE chunkChan = <<>>
  <2>1. UNCHANGED chunkChan /\ decoder'.at = "end"
    BY <1>1, <1>5 DEF DecoderReceive, Types
  <2>2. Decoding' = blobChan
    BY <1>1, <2>1, ConcatEmptySeq DEF Decoding
  <2>3. \A d : ChunkFlow(d) => ChunkFlow(d)'
    BY <1>1, <2>1 DEF ChunkFlow, ReaderFlow, Sound, Readable, Decodes, Follows, Has, Prelude
  <2>4. Has(Decoding)' <=> Has(blobChan)
    BY <2>2 DEF Has
  <2>5. Follows(Decoding, F.points, m)'
    BY <1>4, <2>2 DEF Follows
  <2>6. ~Has(blobChan) => \E d \in 0..N : d = m + Len(Decoding') /\ ChunkFlow(d)'
    BY <1>4, <2>2, <2>3
  <2> QED
    BY <1>2, <2>4, <2>5, <2>6 DEF BlobFlow
<1>6. CASE chunkChan # <<>>
  <2> DEFINE chunk == Head(chunkChan)
             blob == decoder'.blob
             source == [k \in 1..N |-> Prelude + k]
  <2>1. chunkChan' = Tail(chunkChan) /\ decoder' = Decoded(chunk)
    BY <1>1, <1>6 DEF DecoderReceive
  <2>2. /\ chunk \in Chunks /\ chunkChan' \in Seq(Chunks)
        /\ Has(chunkChan) <=> (chunk = Err \/ Has(chunkChan'))
        /\ Len(chunkChan') = Len(chunkChan) - 1
    BY <1>1, <1>6, <2>1, ReceiveHas, HeadTailProperties
  <2>3. /\ blob \in PointBlobs /\ decoder'.at \in {"send", "last"}
        /\ chunk = Err => blob = Err
    BY <1>1, <2>1, <2>2, DecodedTyped
  <2>4. Decoding' = Append(blobChan, blob)
    BY <1>1, <2>3, AppendIsConcat DEF Decoding
  <2>5. /\ Has(Append(blobChan, blob)) <=> (Has(blobChan) \/ blob = Err)
        /\ Len(Append(blobChan, blob)) = Len(blobChan) + 1
    BY <1>1, <2>3, SendHas
  <2>6. ASSUME NEW d \in 0..N, d = m + Len(blobChan), ChunkFlow(d), blob # Err
        PROVE  d + 1 \in DOMAIN F.points /\ blob = F.points[d + 1] /\ ChunkFlow(d + 1)'
    <3>1. chunk # Err
      BY <2>3, <2>6
    <3>2. Follows(chunkChan, source, d) /\ d \in Nat
      BY <1>1, <2>6 DEF ChunkFlow
    <3>3. d + 1 \in DOMAIN source /\ chunk = source[d + 1] /\ Follows(Tail(chunkChan), source, d + 1)
      <4> HIDE DEF source
      <4> QED
        BY <1>1, <1>6, <3>1, <3>2, FollowsTail
    <3>4. d + 1 \in 1..N /\ chunk = Prelude + (d + 1) /\ chunk - Prelude = d + 1
      BY <1>1, <3>2, <3>3
    <3> HIDE DEF chunk
    <3>5. Decodes(chunk) /\ blob = F.points[chunk - Prelude]
      <4>1. ~Decodes(chunk) => Decoded(chunk).blob = Err
        BY <3>1 DEF Decoded
      <4>2. Decodes(chunk) => Decoded(chunk).blob = F.points[chunk - Prelude]
        BY <1>1, <3>1 DEF Decoded
      <4>3. blob = Decoded(chunk).blob
        BY <2>1
      <4> QED
        BY <2>6, <4>1, <4>2, <4>3
    <3>6. d + 1 \in DOMAIN F.points
      BY <3>4, FileTyped DEF N
    <3>7. blob = F.points[d + 1]
      BY <3>4, <3>5
    <3>8. (Sound(Prelude) /\ \A k \in 1..d + 1 : Decodes(Prelude + k))'
      <4>1. Sound(Prelude) /\ \A k \in 1..d : Decodes(Prelude + k)
        BY <2>6 DEF ChunkFlow
      <4>2. \A k \in 1..d + 1 : k \in 1..d \/ k = d + 1
        BY <3>2
      <4>3. \A k \in 1..d + 1 : Decodes(Prelude + k)
        BY <3>4, <3>5, <4>1, <4>2
      <4> QED
        BY <1>1, <4>1, <4>3 DEF Sound, Readable, Decodes, Prelude
    <3>9. Follows(chunkChan, [k \in 1..N |-> Prelude + k], d + 1)'
      BY <2>1, <3>3 DEF Follows, Prelude
    <3>10. ASSUME ~Has(chunkChan'), reader.at # "fail" PROVE ReaderFlow(d + 1 + Len(chunkChan))'
      <4>1. ReaderFlow(d + Len(chunkChan))
        BY <2>2, <2>6, <3>1, <3>10 DEF ChunkFlow
      <4>2. d + 1 + Len(chunkChan') = d + Len(chunkChan)
        BY <1>1, <2>2, <3>2
      <4>3. ReaderFlow(d + 1 + Len(chunkChan'))
        BY <4>1, <4>2
      <4> QED
        BY <1>1, <4>3 DEF ReaderFlow, Readable, Prelude
    <3>11. ChunkFlow(d + 1)'
      BY <1>1, <3>4, <3>8, <3>9, <3>10 DEF ChunkFlow, Has
    <3> QED
      BY <3>6, <3>7, <3>11
  <2>7. Follows(Append(blobChan, blob), F.points, m)
    <3>1. \/ blob = Err
          \/ Has(blobChan)
          \/ m + Len(blobChan) + 1 \in DOMAIN F.points /\ blob = F.points[m + Len(blobChan) + 1]
      BY <1>4, <2>6
    <3> HIDE DEF blob
    <3> QED
      BY <1>1, <1>4, <2>3, <3>1, FollowsAppend
  <2>8. ASSUME ~Has(Append(blobChan, blob))
        PROVE  \E d \in 0..N : d = m + Len(Append(blobChan, blob)) /\ ChunkFlow(d)'
    <3>1. PICK d \in 0..N : d = m + Len(blobChan) /\ ChunkFlow(d)
      BY <1>4, <2>5, <2>8
    <3>2. ChunkFlow(d + 1)' /\ d + 1 \in DOMAIN F.points
      BY <2>5, <2>6, <2>8, <3>1
    <3>3. d + 1 \in 0..N /\ d + 1 = m + Len(Append(blobChan, blob))
      BY <1>1, <2>5, <3>1, <3>2, FileTyped DEF N
    <3> QED
      BY <3>2, <3>3
  <2>9. Has(Decoding)' <=> Has(Append(blobChan, blob))
    BY <2>4 DEF Has
  <2>10. Follows(Decoding, F.points, m)'
    BY <2>4, <2>7 DEF Follows
  <2> HIDE DEF blob
  <2> QED
    BY <1>2, <2>4, <2>8, <2>9, <2>10 DEF BlobFlow
<1> QED
  BY <1>5, <1>6

\* Actors beyond the chunks leave their flow alone.
LEMMA ChunkFlowKept ==
  ASSUME UNCHANGED <<file, written, damage, pos, reader, chunkChan>>, NEW d, ChunkFlow(d)
  PROVE  ChunkFlow(d)'
BY DEF ChunkFlow, ReaderFlow, Sound, Readable, Decodes, Follows, Has, Prelude

LEMMA DecoderSendKeeps ==
  ASSUME Inv, DecoderSend, NEW m, BlobFlow(m)
  PROVE  BlobFlow(m)'
<1>1. /\ UNCHANGED <<file, written, damage, pos, reader, chunkChan, mapper, outChan, points>>
      /\ decoder.at \in {"send", "last"} /\ blobChan' = Append(blobChan, decoder.blob)
      /\ decoder'.at \notin {"send", "last"}
      /\ blobChan \in Seq(PointBlobs) /\ decoder.blob \in PointBlobs
  BY StagesTyped DEF Inv, Types, DecoderSend, fileVars, gotVars
<1>2. Decoding' = Decoding
  <2>1. Decoding = blobChan \o <<decoder.blob>>
    BY <1>1 DEF Decoding
  <2>2. Append(blobChan, decoder.blob) = blobChan \o <<decoder.blob>>
    BY <1>1, AppendIsConcat
  <2>3. Decoding' = Append(blobChan, decoder.blob) \o <<>>
    BY <1>1 DEF Decoding
  <2>4. Append(blobChan, decoder.blob) \in Seq(PointBlobs)
    BY <1>1
  <2> QED
    BY <2>1, <2>2, <2>3, <2>4, ConcatEmptySeq
<1>3. Outgoing' = Outgoing
  BY <1>1 DEF Outgoing
<1>4. \A d : ChunkFlow(d) => ChunkFlow(d)'
  BY <1>1, ChunkFlowKept
<1>5. Has(Decoding)' <=> Has(Decoding)
  BY <1>2 DEF Has
<1>6. Follows(Decoding, F.points, m)' <=> Follows(Decoding, F.points, m)
  BY <1>2 DEF Follows
<1> QED
  BY <1>1, <1>2, <1>3, <1>4, <1>5, <1>6 DEF BlobFlow

LEMMA MapperSendKeeps ==
  ASSUME Inv, MapperSend, Flow
  PROVE  Flow'
<1>1. /\ UNCHANGED <<file, written, damage, pos, reader, chunkChan, decoder, blobChan, points>>
      /\ mapper.at = "send" /\ outChan' = Append(outChan, Head(mapper.out))
      /\ mapper' = [at |-> IF Len(mapper.out) = 1 THEN "receive" ELSE "send",
                    out |-> Tail(mapper.out)]
      /\ mapper.out \in Seq(Outs) /\ mapper.out # <<>> /\ outChan \in Seq(Outs)
  BY StagesTyped DEF Inv, Types, MapperSend, fileVars, gotVars
<1>2. Outgoing' = Outgoing
  <2> DEFINE out == mapper.out
  <2>1. out \in Seq(Outs) /\ out # <<>>
    BY <1>1
  <2>2. Outgoing = outChan \o out
    BY <1>1 DEF Outgoing
  <2>3. Len(out) = 1 => Tail(out) = <<>>
    <3> HIDE DEF out
    <3>1. Tail(out) \in Seq(Outs) /\ Len(Tail(out)) = Len(out) - 1
      BY <2>1, HeadTailProperties
    <3>2. Len(Tail(out)) = 0 => Tail(out) = <<>>
      BY <3>1, EmptySeq
    <3> QED
      BY <3>1, <3>2
  <2>4. Outgoing' = Append(outChan, Head(out)) \o Tail(out)
    BY <1>1, <2>3 DEF Outgoing
  <2> HIDE DEF out
  <2>5. Append(outChan, Head(out)) \o Tail(out) = outChan \o out
    BY <1>1, <2>1, Shift
  <2> QED
    BY <2>2, <2>4, <2>5
<1>3. Decoding' = Decoding
  BY <1>1 DEF Decoding
<1>4. \A d : ChunkFlow(d) => ChunkFlow(d)'
  BY <1>1, ChunkFlowKept
<1>5. \A m : BlobFlow(m) => BlobFlow(m)'
  BY <1>1, <1>2, <1>3, <1>4 DEF BlobFlow, Follows, Has
<1> QED
  BY <1>1, <1>2, <1>5 DEF Flow, Follows, Has

LEMMA MapperReceiveKeeps ==
  ASSUME Inv, consumer = "points", MapperReceive, Delivered, Flow
  PROVE  Flow'
<1>1. /\ UNCHANGED <<file, written, damage, stopped, pos, reader, chunkChan, decoder, outChan,
                     points>>
      /\ mapper.at = "receive" /\ ~stopped /\ file = F
      /\ outChan \in Seq(Outs) /\ blobChan \in Seq(PointBlobs) /\ Decoding \in Seq(PointBlobs)
      /\ Len(outChan) \in Nat /\ Len(Decoding) \in Nat
  BY StagesTyped DEF Inv, Types, MapperReceive, fileVars, gotVars
<1>2. \A d : ChunkFlow(d) => ChunkFlow(d)'
  BY <1>1, ChunkFlowKept
<1>3. Outgoing = outChan
  BY <1>1, ConcatEmptySeq DEF Outgoing
<1>4. CASE blobChan = <<>>
  <2>1. UNCHANGED blobChan /\ mapper'.at = "end"
    BY <1>1, <1>4 DEF MapperReceive, Inv, Types
  <2>2. Outgoing' = Outgoing /\ Decoding' = Decoding
    BY <1>1, <2>1 DEF Outgoing, Decoding
  <2>3. \A m : BlobFlow(m) => BlobFlow(m)'
    BY <1>1, <1>2, <2>2 DEF BlobFlow, Follows, Has
  <2> QED
    BY <1>1, <2>2, <2>3 DEF Flow, Follows, Has
<1>5. CASE blobChan # <<>>
  <2> DEFINE blob == Head(blobChan)
             out == Mapped(blob)
             next == outChan \o out
  <2>1. blobChan' = Tail(blobChan) /\ mapper'.at = (IF out = <<>> THEN "receive" ELSE "send")
        /\ mapper'.out = out
    BY <1>1, <1>5 DEF MapperReceive
  <2>2. blob \in PointBlobs /\ out \in Seq(Outs) /\ (blob = Err => out = <<Err>>)
    <3>1. blob \in PointBlobs
      BY <1>1, <1>5, ReceiveHas
    <3> QED
      BY <1>1, <3>1, MappedTyped
  <2>3. Outgoing' = next
    BY <1>1, <2>1 DEF Outgoing
  <2>4. Decoding # <<>> /\ Head(Decoding) = blob /\ Decoding' = Tail(Decoding)
    <3> DEFINE t == IF decoder.at \in {"send", "last"} THEN <<decoder.blob>> ELSE <<>>
    <3>1. t \in Seq(PointBlobs)
      <4>1. decoder.blob \in PointBlobs
        BY DEF Inv, Types
      <4> QED
        BY <4>1
    <3>2. Decoding = blobChan \o t /\ Decoding' = Tail(blobChan) \o t
      BY <1>1, <2>1 DEF Decoding
    <3> HIDE DEF t
    <3> QED
      BY <1>1, <1>5, <3>1, <3>2, Shift
  <2>5. /\ Decoding' \in Seq(PointBlobs) /\ Len(Decoding') = Len(Decoding) - 1
        /\ Has(Decoding) <=> (blob = Err \/ Has(Decoding'))
    BY <1>1, <2>4, ReceiveHas, HeadTailProperties
  <2>6. Follows(outChan, InputPoints, Len(points))
        /\ (~Has(outChan) => \E m \in 0..N : BlobFlow(m))
    BY <1>3 DEF Flow
  <2>7. (Has(next) <=> Has(outChan) \/ Has(out)) /\ Len(next) = Len(outChan) + Len(out)
    BY <1>1, <2>2, HasBoth, ConcatProperties
  <2>8. blob = Err => Has(out) /\ Follows(out, InputPoints, Len(points) + Len(outChan))
    <3>1. \A base : Has(<<Err>>) /\ Follows(<<Err>>, InputPoints, base)
      <4> DEFINE t == <<Err>>
      <4>1. Len(t) = 1 /\ t[1] = Err /\ \A i \in 1..1 : 1 \in 1..i /\ t[i] = Err
        OBVIOUS
      <4> HIDE DEF t
      <4>2. \A base : Has(t) /\ Follows(t, InputPoints, base)
        BY <4>1 DEF Has, Follows
      <4> QED
        BY <4>2 DEF t
    <3> QED
      BY <2>2, <3>1
  <2> HIDE DEF blob, out, next
  <2>9. ASSUME NEW m \in 0..N, BlobFlow(m), blob # Err
        PROVE  /\ Follows(out, InputPoints, Len(points) + Len(outChan))
               /\ m + 1 \in 0..N /\ BlobFlow(m + 1)'
    <3> DEFINE a == Cut(Len(InputPoints), m)
               b == Cut(Len(InputPoints), m + 1)
    <3>1. N \in Nat /\ m \in Nat
      BY PointCuts
    <3>2. m + 1 \in DOMAIN F.points /\ blob = F.points[m + 1] /\ Follows(Decoding', F.points, m + 1)
      <4>1. Follows(Decoding, F.points, m)
        BY <2>9 DEF BlobFlow
      <4> QED
        BY <1>1, <2>4, <2>9, <3>1, <4>1, FollowsTail
    <3>3. m + 1 \in 1..N /\ (m + 1) - 1 = m
      BY <3>1, <3>2, FileTyped DEF N
    <3>4. /\ a \in Nat /\ b \in Nat /\ a < b /\ b <= Len(InputPoints)
          /\ MapPoints(F.points[m + 1], F) = SubSeq(InputPoints, a + 1, b)
      <4> DEFINE k == m + 1
      <4>1. k \in 1..N /\ k - 1 = m
        BY <3>3
      <4> HIDE DEF k
      <4>2. /\ Cut(Len(InputPoints), m) \in Nat /\ Cut(Len(InputPoints), k) \in Nat
            /\ Cut(Len(InputPoints), m) < Cut(Len(InputPoints), k)
            /\ Cut(Len(InputPoints), k) <= Len(InputPoints)
            /\ MapPoints(F.points[k], F)
                 = SubSeq(InputPoints, Cut(Len(InputPoints), m) + 1, Cut(Len(InputPoints), k))
        BY <4>1, PointBlobBack
      <4> QED
        BY <4>2 DEF k
    <3> HIDE DEF a, b
    <3>5. out = SubSeq(InputPoints, a + 1, b)
      BY <1>1, <2>9, <3>2, <3>4 DEF out, Mapped
    <3>6. /\ Len(out) = b - a /\ \A i \in 1..b - a : out[i] = InputPoints[a + i]
          /\ \A i \in 1..b - a : a + i \in DOMAIN InputPoints
      <4>1. out = [i \in 1..b - a |-> InputPoints[a + i]] /\ Len(out) = b - a
        BY <3>4, <3>5, Inputs, Piece
      <4>2. \A i \in 1..b - a : a + i \in DOMAIN InputPoints
        BY <3>4, Inputs
      <4> QED
        BY <4>1, <4>2
    <3>7. Len(points) + Len(outChan) = a
      BY <1>3, <2>9 DEF BlobFlow, a
    <3>8. Follows(out, InputPoints, a)
      BY <3>6 DEF Follows
    <3>9. (Len(points) + Len(Outgoing) = b)'
      <4>1. Len(points) + (Len(outChan) + (b - a)) = b
        <5>1. Len(points) \in Nat
          BY DEF Delivered
        <5> DEFINE p == Len(points)
                   q == Len(outChan)
        <5>2. p \in Int /\ q \in Int /\ a \in Int /\ b \in Int /\ p + q = a
          BY <1>1, <3>4, <3>7, <5>1
        <5> HIDE DEF p, q
        <5>3. p + (q + (b - a)) = b
          BY <5>2
        <5> QED
          BY <5>3 DEF p, q
      <4> QED
        BY <1>1, <2>3, <2>7, <3>6, <4>1
    <3>10. ~Has(Decoding') => \E d \in 0..N : d = (m + 1) + Len(Decoding') /\ ChunkFlow(d)'
      <4> SUFFICES ASSUME ~Has(Decoding')
                   PROVE  \E d \in 0..N : d = (m + 1) + Len(Decoding') /\ ChunkFlow(d)'
        OBVIOUS
      <4>1. PICK d \in 0..N : d = m + Len(Decoding) /\ ChunkFlow(d)
        BY <2>5, <2>9 DEF BlobFlow
      <4>2. d = (m + 1) + Len(Decoding')
        BY <1>1, <2>5, <3>1, <4>1
      <4> QED
        BY <1>2, <4>1, <4>2
    <3>11. (Has(Decoding)' <=> Has(Decoding')) /\ m + 1 \in 0..N
      BY <3>3 DEF Has
    <3>12. BlobFlow(m + 1)'
      BY <3>2, <3>9, <3>10, <3>11 DEF BlobFlow, Follows, b
    <3> QED
      BY <3>7, <3>8, <3>11, <3>12
  <2>10. Follows(next, InputPoints, Len(points))
    <3>1. Has(outChan) \/ Follows(out, InputPoints, Len(points) + Len(outChan))
      BY <2>6, <2>8, <2>9
    <3>2. Len(points) \in Nat
      BY DEF Delivered
    <3> QED
      BY <1>1, <2>2, <2>6, <3>1, <3>2, FollowsBoth DEF next
  <2>11. ~Has(next) => \E m \in 0..N : BlobFlow(m)'
    BY <2>6, <2>7, <2>8, <2>9
  <2>12. Has(Outgoing)' <=> Has(next)
    BY <2>3 DEF Has
  <2> QED
    BY <1>1, <2>3, <2>10, <2>11, <2>12 DEF Flow, Follows
<1> QED
  BY <1>4, <1>5

LEMMA TakePointKeeps ==
  ASSUME Inv, TakePoint, Delivered, Flow
  PROVE  Delivered' /\ (consumer' = "points" => Flow')
<1>1. /\ UNCHANGED <<file, written, damage, pos, reader, chunkChan, decoder, blobChan, mapper>>
      /\ outChan # <<>> /\ outChan' = Tail(outChan) /\ consumer = "points"
      /\ outChan \in Seq(Outs) /\ Outgoing \in Seq(Outs) /\ Len(Outgoing) \in Nat
      /\ Len(points) \in Nat
  BY StagesTyped DEF Inv, Types, TakePoint, fileVars, Delivered
<1>2. CASE Head(outChan) = Err
  <2>1. UNCHANGED points /\ consumer' = "failed"
    BY <1>2 DEF TakePoint
  <2> QED
    BY <2>1 DEF Delivered
<1>3. CASE Head(outChan) # Err
  <2> DEFINE x == Head(outChan)
             n == Len(points)
  <2>1. points' = Append(points, x)
    BY <1>3 DEF TakePoint
  <2>2. /\ Outgoing # <<>> /\ Head(Outgoing) = x /\ Outgoing' = Tail(Outgoing)
    <3> DEFINE t == IF mapper.at = "send" THEN mapper.out ELSE <<>>
    <3>1. t \in Seq(Outs)
      <4>1. mapper.out \in Seq(Outs)
        BY DEF Inv, Types
      <4> QED
        BY <4>1
    <3>2. Outgoing = outChan \o t /\ Outgoing' = Tail(outChan) \o t
      BY <1>1 DEF Outgoing
    <3> HIDE DEF t
    <3> QED
      BY <1>1, <3>1, <3>2, Shift
  <2>3. /\ n + 1 \in DOMAIN InputPoints /\ x = InputPoints[n + 1]
        /\ Follows(Outgoing', InputPoints, n + 1)
    <3>1. Follows(Outgoing, InputPoints, n)
      BY DEF Flow
    <3> QED
      BY <1>1, <1>3, <2>2, <3>1, FollowsTail
  <2>4. /\ Outgoing' \in Seq(Outs) /\ Len(Outgoing') = Len(Outgoing) - 1
        /\ Has(Outgoing) <=> Has(Outgoing')
    BY <1>1, <1>3, <2>2, ReceiveHas, HeadTailProperties
  <2> HIDE DEF x
  <2>5. n + 1 \in 1..Len(InputPoints) /\ x \in Range(InputPoints)
    BY <2>3, Inputs
  <2>6. Len(points') = n + 1 /\ points' \in Seq(Range(InputPoints))
        /\ \A i \in 1..n + 1 : points'[i] = IF i = n + 1 THEN x ELSE points[i]
    <3>1. points \in Seq(Range(InputPoints))
      BY DEF Delivered
    <3> HIDE DEF n
    <3>2. n = Len(points)
      BY DEF n
    <3> QED
      BY <1>1, <2>1, <2>5, <3>1, <3>2, AppendProperties
  <2>7. Delivered'
    <3>1. \A i \in 1..n + 1 : points'[i] = InputPoints[i]
      <4>1. \A i \in 1..n : points[i] = InputPoints[i]
        BY DEF Delivered
      <4>2. \A i \in 1..n + 1 : i = n + 1 \/ i \in 1..n
        BY <1>1
      <4> QED
        BY <2>3, <2>6, <4>1, <4>2
    <3> QED
      BY <2>5, <2>6, <3>1, Inputs DEF Delivered
  <2>8. Decoding' = Decoding /\ \A d : ChunkFlow(d) => ChunkFlow(d)'
    BY <1>1, ChunkFlowKept DEF Decoding
  <2>9. Len(points') + Len(Outgoing') = Len(points) + Len(Outgoing)
    BY <1>1, <2>4, <2>6
  <2>10. \A m : BlobFlow(m) => BlobFlow(m)'
    BY <1>1, <2>8, <2>9 DEF BlobFlow, Follows, Has
  <2>11. ~Has(Outgoing') => \E m \in 0..N : BlobFlow(m)'
    BY <2>4, <2>10 DEF Flow
  <2>12. Follows(Outgoing', InputPoints, Len(points'))
    BY <2>3, <2>6
  <2>13. Flow'
    BY <2>11, <2>12 DEF Flow, Follows, Has
  <2> QED
    BY <2>7, <2>13
<1> QED
  BY <1>2, <1>3

\* The last stage has ended and nothing is left: all the points have arrived.
LEMMA AllArrived ==
  ASSUME Inv, EndPoints, Delivered, Flow, written \in Nat
  PROVE  points = InputPoints /\ pos = Prelude + N + 1 /\ Sound(Prelude + N)
<1>1. /\ consumer = "points" /\ outChan = <<>> /\ mapper.at = "end" /\ ~stopped
  BY DEF EndPoints, Inv
<1>2. decoder.at = "end" /\ blobChan = <<>>
  BY <1>1 DEF Inv
<1>3. reader.at = "end" /\ chunkChan = <<>>
  <2>1. ~Passed
    BY <1>1, <1>2 DEF Passed, Has
  <2> QED
    BY <1>1, <1>2, <2>1 DEF Inv
<1>4. Outgoing = <<>> /\ Decoding = <<>>
  <2>1. Outgoing = <<>> \o <<>> /\ Decoding = <<>> \o <<>>
    BY <1>1, <1>2 DEF Outgoing, Decoding
  <2> QED
    BY <2>1, ConcatEmptySeq
<1>5. ~Has(Outgoing) /\ ~Has(Decoding) /\ ~Has(chunkChan)
  BY <1>3, <1>4 DEF Has
<1>6. PICK m \in 0..N : BlobFlow(m)
  BY <1>5 DEF Flow
<1>7. N \in Nat /\ Prelude = 4 /\ m \in Nat /\ Len(InputPoints) \in Nat /\ Len(points) \in Nat
  BY PointCuts, Inputs DEF Delivered
<1>8. PICK d \in 0..N : d = m + Len(Decoding) /\ ChunkFlow(d)
  BY <1>5, <1>6 DEF BlobFlow
<1>9. d = m
  BY <1>4, <1>7, <1>8
<1>10. ReaderFlow(d + Len(chunkChan)) /\ d + Len(chunkChan) = d
  BY <1>3, <1>5, <1>8 DEF ChunkFlow
<1>11. d = N /\ pos = Prelude + N + 1 /\ Prelude + N <= written
  BY <1>3, <1>10 DEF ReaderFlow
<1>12. Len(points) = Len(InputPoints)
  <2>1. Len(points) + Len(Outgoing) = Cut(Len(InputPoints), N)
    BY <1>6, <1>9, <1>11 DEF BlobFlow
  <2>2. Len(Outgoing) = 0 /\ Cut(Len(InputPoints), N) = Len(InputPoints)
    BY <1>4, PointCuts
  <2> QED
    BY <1>7, <2>1, <2>2
<1>13. points = InputPoints
  BY <1>12, Inputs, SeqEqual DEF Delivered
<1>14. ASSUME NEW s \in 1..Prelude + N PROVE Readable(s) /\ Decodes(s)
  <2>1. CASE s \in 1..Prelude
    BY <1>8, <2>1 DEF ChunkFlow, Sound
  <2>2. CASE s \notin 1..Prelude
    <3>1. PICK k \in 1..N : s = Prelude + k
      <4>1. s - Prelude \in 1..N /\ s = Prelude + (s - Prelude)
        BY <1>7, <2>2
      <4> QED
        BY <4>1
    <3>2. Decodes(s)
      BY <1>8, <1>11, <3>1 DEF ChunkFlow
    <3>3. Prelude + k <= written
      BY <1>7, <1>11
    <3> QED
      BY <3>1, <3>2, <3>3 DEF Readable
  <2> QED
    BY <2>1, <2>2
<1> QED
  BY <1>11, <1>13, <1>14 DEF Sound

-----------------------------------------------------------------------------
\* What the save and the prelude have to do with it.
Idle ==
  /\ chunkChan = <<>> /\ decoder.at = "receive" /\ blobChan = <<>>
  /\ mapper.at = "receive" /\ outChan = <<>> /\ points = <<>>

LEMMA OpenFlow ==
  ASSUME Inv, Open, Idle, written \in Nat, consumer' = "points"
  PROVE  Flow'
<1>1. /\ reader = [at |-> "idle", i |-> 1] /\ reader' = [reader EXCEPT !.at = "check"]
      /\ UNCHANGED <<file, written, damage, chunkChan, decoder, blobChan, mapper, outChan, points>>
      /\ \A s \in 1..Prelude : Readable(s) /\ Decodes(s)
      /\ N \in Nat /\ Prelude = 4
  BY PointCuts DEF Open, Inv, fileVars, gotVars
<1>2. Outgoing' = <<>> /\ Decoding' = <<>> /\ chunkChan' = <<>> /\ points' = <<>>
  <2>1. Outgoing' = <<>> \o <<>> /\ Decoding' = <<>> \o <<>> /\ chunkChan' = <<>>
    BY <1>1 DEF Outgoing, Decoding, Idle
  <2> QED
    BY <1>1, <2>1, ConcatEmptySeq DEF Idle
<1>3. reader'.at = "check" /\ reader'.i = 1
  BY <1>1
<1>4. Readable(Prelude)
  BY <1>1
<1>5. Len(<<>>) = 0 /\ 1..0 = {} /\ 0 \in 0..N
  BY <1>1
<1>6. ReaderFlow(0)'
  BY <1>1, <1>3, <1>4 DEF ReaderFlow, Readable, Prelude
<1>7. ChunkFlow(0)'
  <2>1. Sound(Prelude)'
    BY <1>1 DEF Sound, Readable, Decodes, Prelude
  <2>2. (0 + Len(chunkChan) = 0)'
    BY <1>2
  <2>3. ReaderFlow(0 + Len(chunkChan))'
    BY <1>6, <2>2 DEF ReaderFlow
  <2> QED
    BY <1>2, <1>5, <2>1, <2>3 DEF ChunkFlow, Follows
<1>8. BlobFlow(0)'
  BY <1>2, <1>5, <1>7, PointCuts DEF BlobFlow, Follows
<1> QED
  BY <1>2, <1>5, <1>8 DEF Flow, Follows

\* The next blob of zones brings the next zones.
LEMMA ReadZonesKeeps ==
  ASSUME Types, ReadZones, NEW k \in 0..M, zonesRead = k,
         zones = SubSeq(SavedZones, 1, ZoneCut(k)), consumer' = "zones"
  PROVE  /\ k + 1 \in 0..M /\ zones' = SubSeq(SavedZones, 1, ZoneCut(k + 1))
         /\ pos = Prelude + N + k + 1 /\ Readable(pos) /\ Decodes(pos)
<1>1. /\ file = F /\ NumPoints = N /\ NumZones = M /\ N \in Nat /\ M \in Nat /\ Prelude = 4
  BY PointCuts, ZonesBack DEF Types, NumPoints, NumZones, N, M
<1>2. /\ k < M /\ pos = Prelude + N + k + 1 /\ Readable(pos) /\ Decodes(pos)
      /\ zones' = zones \o MapZones(F.zones[k + 1], F)
  BY <1>1 DEF ReadZones
<1>3. PICK j \in 1..M : j = k + 1 /\ j - 1 = k
  BY <1>1, <1>2
<1>4. /\ ZoneCut(k) \in Nat /\ ZoneCut(j) \in Nat /\ ZoneCut(k) <= ZoneCut(j)
      /\ ZoneCut(j) <= Len(SavedZones)
      /\ MapZones(F.zones[j], F) = SubSeq(SavedZones, ZoneCut(k) + 1, ZoneCut(j))
  BY <1>3, ZonesBack
<1>5. zones' = SubSeq(SavedZones, 1, ZoneCut(j))
  <2> DEFINE a == ZoneCut(k)
             b == ZoneCut(j)
  <2>1. SavedZones \in Seq(Range(InputZones)) /\ Len(SavedZones) \in Nat
    BY ZonesBack
  <2>2. 1 \in 1..Len(SavedZones) + 1 /\ a \in 1 - 1..Len(SavedZones) /\ b \in a..Len(SavedZones)
    BY <1>4, <2>1
  <2> HIDE DEF a, b
  <2>3. SubSeq(SavedZones, 1, a) \o SubSeq(SavedZones, a + 1, b) = SubSeq(SavedZones, 1, b)
    BY <2>1, <2>2, ConcatAdjacentSubSeq
  <2>4. zones' = SubSeq(SavedZones, 1, a) \o SubSeq(SavedZones, a + 1, b)
    BY <1>2, <1>3, <1>4 DEF a, b
  <2> QED
    BY <2>3, <2>4 DEF b
<1>6. k + 1 \in 0..M
  BY <1>1, <1>2
<1>7. zones' = SubSeq(SavedZones, 1, ZoneCut(k + 1))
  BY <1>3, <1>5
<1> QED
  BY <1>2, <1>6, <1>7

\* The file is whole, and no error is anywhere between it and the consumer.
Whole == written = Prelude + N + M /\ damage = {}
Clean ==
  /\ reader.at # "fail" /\ decoder.at # "last" /\ consumer # "failed"
  /\ ~Coming /\ ~Passed

LEMMA MappedGood ==
  ASSUME NEW blob \in PointBlobs, blob # Err, file = F
  PROVE  ~Has(Mapped(blob))
<1>1. blob \in Seq(SavedPoints)
  BY DEF PointBlobs
<1>2. \A p \in SavedPoints : MapPoint(p, F) # Err
  <2> SUFFICES ASSUME NEW i \in 1..Len(InputPoints) PROVE MapPoint(Saved[i], F) # Err
    BY PointsCut
  <2>1. MapPoint(Saved[i], F) \in Range(InputPoints)
    BY PointBack, Inputs
  <2> QED
    BY <2>1, RecordAssumption DEF RecordAssumption
<1>3. Len(blob) \in Nat /\ \A i \in 1..Len(blob) : blob[i] \in SavedPoints
  BY <1>1
<1>4. Mapped(blob) = [i \in 1..Len(blob) |-> MapPoint(blob[i], F)]
  <2>1. DOMAIN blob = 1..Len(blob)
    BY <1>1
  <2> QED
    BY <2>1 DEF Mapped, MapPoints
<1> DEFINE out == Mapped(blob)
<1>5. Len(out) = Len(blob) /\ \A i \in 1..Len(blob) : out[i] # Err
  BY <1>2, <1>3, <1>4
<1> HIDE DEF out
<1>6. ~Has(out)
  BY <1>5 DEF Has
<1> QED
  BY <1>6 DEF out

LEMMA ReaderClean ==
  ASSUME Inv, Whole, Clean, ReaderCheck \/ ReaderRead \/ ReaderSend
  PROVE  Clean'
<1>1. /\ UNCHANGED <<decoder, blobChan, mapper, outChan, consumer>>
      /\ file = F /\ N \in Nat /\ M \in Nat /\ Prelude = 4
      /\ reader \in [at : {"idle", "check", "read", "send", "fail", "end"}, i : 1..N + 1]
      /\ chunkChan \in Seq(Chunks)
  BY PointCuts, ZonesBack DEF Inv, Types, ReaderCheck, ReaderRead, ReaderSend
<1>2. Passed' = Passed
  BY <1>1 DEF Passed, Has
<1>3. CASE ReaderCheck
  <2>1. reader'.at \in {"end", "read"} /\ UNCHANGED chunkChan
    BY <1>1, <1>3 DEF ReaderCheck
  <2>2. Coming' = Coming
    BY <1>1, <2>1 DEF Coming, Has
  <2> QED
    BY <1>1, <1>2, <2>1, <2>2 DEF Clean
<1>4. CASE ReaderRead
  <2>1. reader.at = "read" /\ pos = Prelude + reader.i /\ reader.i <= N /\ UNCHANGED chunkChan
    BY <1>4 DEF Inv, ReaderRead
  <2>2. Readable(pos)
    BY <1>1, <2>1 DEF Whole, Readable
  <2>3. reader'.at = "send"
    BY <1>1, <1>4, <2>2 DEF ReaderRead
  <2>4. Coming' = Coming
    BY <1>1, <2>1 DEF Coming, Has
  <2> QED
    BY <1>1, <1>2, <2>3, <2>4 DEF Clean
<1>5. CASE ReaderSend
  <2> DEFINE x == Prelude + reader.i
  <2>1. /\ reader.at = "send" /\ reader.i <= N /\ chunkChan' = Append(chunkChan, x)
        /\ reader'.at = "check"
    BY <1>5 DEF Inv, ReaderSend, Clean
  <2>2. x \in Chunks /\ x # Err
    BY <1>1, <2>1, RecordAssumption DEF RecordAssumption, Chunks
  <2> HIDE DEF x
  <2>3. Has(chunkChan') <=> Has(chunkChan)
    BY <1>1, <2>1, <2>2, SendHas
  <2>4. Coming' <=> Coming
    BY <1>1, <2>3 DEF Coming, Has
  <2> QED
    BY <1>1, <1>2, <2>1, <2>4 DEF Clean
<1> QED
  BY <1>3, <1>4, <1>5

LEMMA DecoderClean ==
  ASSUME Inv, Whole, Clean, DecoderReceive \/ DecoderSend
  PROVE  Clean'
<1>1. /\ UNCHANGED <<reader, mapper, outChan, consumer>>
      /\ file = F /\ N \in Nat /\ Prelude = 4
      /\ chunkChan \in Seq(Chunks) /\ blobChan \in Seq(PointBlobs) /\ decoder.blob \in PointBlobs
      /\ decoder.at # "last"
  BY PointCuts, StagesTyped DEF Inv, Types, DecoderReceive, DecoderSend, Clean
<1>2. (mapper.at = "send" /\ Has(mapper.out))' = (mapper.at = "send" /\ Has(mapper.out))
      /\ Has(outChan)' = Has(outChan)
  BY <1>1 DEF Has
<1>3. CASE DecoderSend
  <2>1. /\ decoder.at = "send" /\ blobChan' = Append(blobChan, decoder.blob) /\ UNCHANGED chunkChan
        /\ decoder'.at = "receive"
    BY <1>1, <1>3 DEF DecoderSend
  <2>2. decoder.blob # Err
    BY <2>1 DEF Clean, Coming
  <2>3. Has(blobChan') <=> Has(blobChan)
    BY <1>1, <2>1, <2>2, SendHas
  <2>4. (Has(blobChan)' <=> Has(blobChan')) /\ Has(chunkChan)' = Has(chunkChan)
    BY <2>1 DEF Has
  <2>5. ~Coming' /\ ~Passed'
    BY <1>1, <1>2, <2>1, <2>3, <2>4 DEF Clean, Coming, Passed
  <2> QED
    BY <1>1, <2>1, <2>5 DEF Clean
<1>4. CASE DecoderReceive
  <2>1. UNCHANGED blobChan /\ decoder.at = "receive"
    BY <1>4 DEF DecoderReceive
  <2>2. Has(blobChan)' = Has(blobChan)
    BY <2>1 DEF Has
  <2>3. ~Passed'
    BY <1>1, <1>2, <2>2 DEF Clean, Passed
  <2>4. CASE chunkChan = <<>> \/ stopped
    <3>1. /\ decoder' = [decoder EXCEPT !.at = "end"]
          /\ chunkChan' = chunkChan \/ (chunkChan' = Tail(chunkChan) /\ chunkChan # <<>>)
      BY <1>4, <2>4 DEF DecoderReceive
    <3>2. decoder \in [at : {"receive", "send", "last", "end"}, blob : PointBlobs]
      BY DEF Inv, Types
    <3>3. /\ decoder'.at = "end"
          /\ chunkChan' = chunkChan \/ (chunkChan' = Tail(chunkChan) /\ chunkChan # <<>>)
      BY <3>1, <3>2
    <3>4. ~Has(chunkChan')
      BY <1>1, <3>3, ReceiveHas DEF Clean, Coming
    <3>5. ~Coming'
      BY <3>3, <3>4 DEF Coming, Has
    <3> QED
      BY <1>1, <2>3, <3>3, <3>5 DEF Clean
  <2>5. CASE chunkChan # <<>> /\ ~stopped
    <3> DEFINE chunk == Head(chunkChan)
    <3>1. chunkChan' = Tail(chunkChan) /\ decoder' = Decoded(chunk)
      BY <1>4, <2>5 DEF DecoderReceive
    <3>2. chunk \in Chunks /\ chunk # Err /\ ~Has(chunkChan')
      BY <1>1, <2>5, <3>1, ReceiveHas DEF Clean, Coming
    <3> HIDE DEF chunk
    <3>3. PICK k \in 1..N : k = chunk - Prelude
      BY <1>1, <3>2 DEF Chunks
    <3>4. F.points[k] # Err
      BY PointBlobBack
    <3>5. decoder'.at = "send" /\ decoder'.blob # Err
      BY <1>1, <3>1, <3>2, <3>3, <3>4 DEF Decoded, Decodes, Whole
    <3>6. ~Coming'
      BY <3>2, <3>5 DEF Coming, Has
    <3> QED
      BY <1>1, <2>3, <3>5, <3>6 DEF Clean
  <2> QED
    BY <2>4, <2>5
<1> QED
  BY <1>3, <1>4

LEMMA MapperClean ==
  ASSUME Inv, Clean, MapperReceive \/ MapperSend
  PROVE  Clean'
<1>1. /\ UNCHANGED <<reader, chunkChan, decoder, consumer>> /\ file = F
      /\ blobChan \in Seq(PointBlobs) /\ outChan \in Seq(Outs)
      /\ mapper \in [at : {"receive", "send", "end"}, out : Seq(Outs)]
      /\ mapper.at = "send" => mapper.out # <<>>
  BY StagesTyped DEF Inv, Types, MapperReceive, MapperSend
<1>2. Coming' = Coming
  BY <1>1 DEF Coming, Has
<1>3. ~Has(blobChan) /\ ~Has(outChan)
  BY DEF Clean, Passed
<1>4. CASE MapperSend
  <2>1. /\ mapper.at = "send" /\ UNCHANGED blobChan
        /\ outChan' = Append(outChan, Head(mapper.out))
        /\ mapper'.out = Tail(mapper.out)
    BY <1>4 DEF MapperSend
  <2>2. ~Has(mapper.out)
    BY <2>1 DEF Clean, Passed
  <2>3. Head(mapper.out) \in Outs /\ Head(mapper.out) # Err /\ ~Has(mapper'.out)
    BY <1>1, <2>1, <2>2, ReceiveHas
  <2>4. ~Has(outChan')
    BY <1>1, <1>3, <2>1, <2>3, SendHas
  <2>5. ~Passed'
    BY <1>3, <2>1, <2>3, <2>4 DEF Passed, Has
  <2> QED
    BY <1>1, <1>2, <2>5 DEF Clean
<1>5. CASE MapperReceive
  <2>1. mapper.at = "receive" /\ UNCHANGED outChan
    BY <1>5 DEF MapperReceive
  <2>2. CASE blobChan = <<>> \/ stopped
    <3>1. /\ mapper' = [mapper EXCEPT !.at = "end"]
          /\ blobChan' = blobChan \/ (blobChan' = Tail(blobChan) /\ blobChan # <<>>)
      BY <1>5, <2>2 DEF MapperReceive
    <3>2. /\ mapper'.at = "end"
          /\ blobChan' = blobChan \/ (blobChan' = Tail(blobChan) /\ blobChan # <<>>)
      BY <1>1, <3>1
    <3>3. ~Has(blobChan')
      BY <1>1, <1>3, <3>2, ReceiveHas
    <3>4. ~Passed'
      BY <1>3, <2>1, <3>2, <3>3 DEF Passed, Has
    <3> QED
      BY <1>1, <1>2, <3>4 DEF Clean
  <2>3. CASE blobChan # <<>> /\ ~stopped
    <3> DEFINE blob == Head(blobChan)
    <3>1. blobChan' = Tail(blobChan) /\ mapper'.out = Mapped(blob)
      BY <1>5, <2>3 DEF MapperReceive
    <3>2. blob \in PointBlobs /\ blob # Err /\ ~Has(blobChan')
      BY <1>1, <1>3, <2>3, <3>1, ReceiveHas
    <3> HIDE DEF blob
    <3>3. ~Has(Mapped(blob))
      BY <1>1, <3>2, MappedGood
    <3>4. ~Passed'
      BY <1>3, <2>1, <3>1, <3>2, <3>3 DEF Passed, Has
    <3> QED
      BY <1>1, <1>2, <3>4 DEF Clean
  <2> QED
    BY <2>2, <2>3
<1> QED
  BY <1>4, <1>5

LEMMA ConsumerClean ==
  ASSUME Inv, Whole, Clean, TakePoint \/ EndPoints \/ ReadZones \/ LoadReturns,
         consumer = "zones" => /\ zonesRead \in 0..M
                               /\ pos = Prelude + N + zonesRead + 1
  PROVE  Clean'
<1>1. /\ UNCHANGED <<reader, chunkChan, decoder, blobChan, mapper>> /\ file = F
      /\ outChan \in Seq(Outs)
      /\ N \in Nat /\ M \in Nat /\ Prelude = 4 /\ NumPoints = N /\ NumZones = M
  BY PointCuts, ZonesBack, StagesTyped
     DEF Inv, Types, TakePoint, EndPoints, ReadZones, LoadReturns, pipeline, NumPoints,
         NumZones, N, M
<1>2. /\ Coming' = Coming /\ Has(blobChan)' = Has(blobChan)
      /\ (mapper.at = "send" /\ Has(mapper.out))' = (mapper.at = "send" /\ Has(mapper.out))
  BY <1>1 DEF Coming, Has
<1>3. CASE TakePoint
  <2>1. outChan # <<>> /\ outChan' = Tail(outChan) /\ consumer = "points"
    BY <1>3 DEF TakePoint
  <2>2. Head(outChan) # Err /\ ~Has(outChan')
    BY <1>1, <2>1, ReceiveHas DEF Clean, Passed
  <2>3. consumer' = "points"
    BY <1>3, <2>1, <2>2 DEF TakePoint
  <2>4. ~Passed'
    BY <1>2, <2>2 DEF Clean, Passed, Has
  <2> QED
    BY <1>1, <1>2, <2>3, <2>4 DEF Clean
<1>4. CASE EndPoints \/ LoadReturns
  <2>1. UNCHANGED outChan /\ consumer' # "failed"
    BY <1>4 DEF EndPoints, LoadReturns, pipeline
  <2>2. Passed' = Passed
    BY <1>1, <2>1 DEF Passed, Has
  <2> QED
    BY <1>1, <1>2, <2>1, <2>2 DEF Clean
<1>5. CASE ReadZones
  <2>1. UNCHANGED outChan /\ consumer = "zones" /\ zonesRead < M
    BY <1>1, <1>5 DEF ReadZones, pipeline
  <2>2. pos = Prelude + N + zonesRead + 1 /\ zonesRead \in 0..M
    BY <2>1
  <2>3. Readable(pos) /\ Decodes(pos)
    BY <1>1, <2>1, <2>2 DEF Readable, Decodes, Whole
  <2>4. pos = Prelude + NumPoints + zonesRead + 1
    BY <1>1, <2>2
  <2>5. consumer' = "zones"
    BY <1>5, <2>1, <2>3, <2>4 DEF ReadZones
  <2>6. Passed' = Passed
    BY <1>1, <2>1 DEF Passed, Has
  <2> QED
    BY <1>1, <1>2, <2>5, <2>6 DEF Clean
<1> QED
  BY <1>3, <1>4, <1>5

-----------------------------------------------------------------------------
(* The invariant of the way from the file to the consumer.                 *)

\* How far the zones are: those of the first blobs, read from sections that
\* were right.
ZonesKnown ==
  /\ \E k \in 0..M : zones = SubSeq(SavedZones, 1, ZoneCut(k))
  /\ consumer \in {"open", "points"} => zonesRead = 0 /\ zones = <<>>
  /\ consumer \in {"zones", "loaded"} =>
       /\ zonesRead \in 0..M /\ pos = Prelude + N + zonesRead + 1
       /\ zones = SubSeq(SavedZones, 1, ZoneCut(zonesRead))
       /\ Sound(Prelude + N + zonesRead)
  /\ consumer = "loaded" => zonesRead = M

PathInv ==
  /\ Inv
  /\ written \in 0..Prelude + N + M
  /\ saving => written < Prelude + N + M /\ consumer = "open"
  /\ consumer = "open" => Idle
  /\ Delivered
  /\ consumer = "points" => Flow
  /\ consumer \in {"zones", "loaded"} => points = InputPoints
  /\ ZonesKnown
  /\ Whole => Clean

LEMMA Sizes ==
  ASSUME Types
  PROVE  /\ file = F /\ NumPoints = N /\ NumZones = M /\ Sections = Prelude + N + M
         /\ N \in Nat /\ M \in Nat /\ Prelude = 4
BY PointCuts, ZonesBack DEF Types, NumPoints, NumZones, Sections, N, M

LEMMA NoZones == SubSeq(SavedZones, 1, ZoneCut(0)) = <<>> /\ 0 \in 0..M
<1>1. ZoneCut(0) = 0 /\ M \in Nat
  BY ZonesBack
<1> QED
  BY <1>1, SubSeqEmpty

LEMMA PathInit == Init => PathInv
<1> SUFFICES ASSUME Init PROVE PathInv
  OBVIOUS
<1>1. Inv
  BY InitInv
<1>2. N \in Nat /\ M \in Nat /\ Prelude = 4
  BY PointCuts, ZonesBack
<1>3. /\ written = 0 /\ consumer = "open" /\ points = <<>> /\ zones = <<>> /\ zonesRead = 0
      /\ reader.at = "idle" /\ chunkChan = <<>> /\ decoder.at = "receive" /\ blobChan = <<>>
      /\ mapper.at = "receive" /\ outChan = <<>>
  BY DEF Init
<1>4. Delivered
  BY <1>3, Inputs DEF Delivered
<1>5. Clean
  BY <1>3 DEF Clean, Coming, Passed, Has
<1>6. ZonesKnown
  BY <1>3, NoZones DEF ZonesKnown
<1> QED
  BY <1>1, <1>2, <1>3, <1>4, <1>5, <1>6 DEF PathInv, Idle

LEMMA PathSave ==
  ASSUME PathInv, WriteSection \/ SaveStops \/ UNCHANGED vars, Inv'
  PROVE  PathInv'
<1>1. /\ UNCHANGED <<file, damage, pos, stopped, pipeline, consumer, gotVars>>
      /\ \/ saving /\ written' = written + 1 /\ saving' = (written' < Sections)
         \/ saving' = FALSE /\ written' = written
         \/ UNCHANGED <<saving, written>>
  BY DEF WriteSection, SaveStops, vars, fileVars
<1>2. /\ N \in Nat /\ M \in Nat /\ Prelude = 4 /\ Prelude' = 4
      /\ Sections = Prelude + N + M
  BY Sizes DEF PathInv, Inv, Prelude
<1>3. /\ UNCHANGED <<reader, chunkChan, decoder, blobChan, mapper, outChan, points, zones, zonesRead>>
  BY <1>1 DEF pipeline, gotVars
<1>4. Idle' = Idle /\ Delivered' = Delivered
  BY <1>3 DEF Idle, Delivered
<1>5. consumer = "open" => Clean'
  <2> SUFFICES ASSUME consumer = "open" PROVE Clean'
    OBVIOUS
  <2>1. Idle /\ reader = [at |-> "idle", i |-> 1]
    BY DEF PathInv, Inv
  <2> QED
    BY <1>1, <1>3, <2>1 DEF Idle, Clean, Coming, Passed, Has
<1>6. consumer # "open" => UNCHANGED written /\ ~saving'
  BY <1>1 DEF PathInv
<1>7. consumer = "points" => Flow'
  <2> SUFFICES ASSUME consumer = "points" PROVE Flow'
    OBVIOUS
  <2>1. \A d : ChunkFlow(d) => ChunkFlow(d)'
    BY <1>1, <1>3, <1>6, ChunkFlowKept
  <2>2. Outgoing' = Outgoing /\ Decoding' = Decoding
    BY <1>3 DEF Outgoing, Decoding
  <2>3. \A m : BlobFlow(m) => BlobFlow(m)'
    BY <1>3, <2>1, <2>2 DEF BlobFlow, Follows, Has
  <2>4. Flow
    BY DEF PathInv
  <2> QED
    BY <1>3, <2>2, <2>3, <2>4 DEF Flow, Follows, Has
<1>8. ZonesKnown'
  <2>1. consumer # "open" => \A s : Sound(s)' <=> Sound(s)
    BY <1>1, <1>6 DEF Sound, Readable, Decodes
  <2>2. ZonesKnown
    BY DEF PathInv
  <2> QED
    BY <1>1, <1>2, <1>3, <2>1, <2>2 DEF ZonesKnown, Prelude
<1>9. written' \in 0..Prelude + N + M /\ (saving' => written' < Prelude + N + M /\ consumer = "open")
  <2>1. /\ written \in 0..Prelude + N + M
        /\ saving => written < Prelude + N + M /\ consumer = "open"
    BY DEF PathInv
  <2>2. CASE saving /\ written' = written + 1 /\ saving' = (written' < Sections)
    <3>1. written < Prelude + N + M /\ consumer = "open"
      BY <2>1, <2>2
    <3>2. written' \in 0..Prelude + N + M
      BY <1>2, <2>1, <2>2, <3>1
    <3>3. saving' => written' < Prelude + N + M
      BY <1>2, <2>2
    <3> QED
      BY <3>1, <3>2, <3>3
  <2>3. CASE saving' = FALSE /\ written' = written
    BY <2>1, <2>3
  <2>4. CASE UNCHANGED <<saving, written>>
    BY <2>1, <2>4
  <2> QED
    BY <1>1, <2>2, <2>3, <2>4
<1>10. Whole' => Clean'
  <2>1. CASE consumer = "open"
    BY <1>5, <2>1
  <2>2. CASE consumer # "open"
    <3>1. Whole' <=> Whole
      BY <1>1, <1>6, <2>2 DEF Whole, Prelude
    <3>2. Clean' <=> Clean
      BY <1>1, <1>3 DEF Clean, Coming, Passed, Has
    <3> QED
      BY <3>1, <3>2 DEF PathInv
  <2> QED
    BY <2>1, <2>2
<1> QED
  BY <1>1, <1>2, <1>3, <1>4, <1>7, <1>8, <1>9, <1>10 DEF PathInv, Prelude

LEMMA PathOpen ==
  ASSUME PathInv, Open, Inv'
  PROVE  PathInv'
<1>1. /\ UNCHANGED <<file, written, saving, damage, stopped, chunkChan, decoder, blobChan, mapper,
                     outChan, points, zones, zonesRead>>
      /\ consumer = "open" /\ ~saving
      /\ \/ consumer' = "points"
         \/ consumer' = "failed" /\ ~(\A s \in 1..Prelude : Readable(s) /\ Decodes(s))
  BY DEF Open, fileVars, gotVars
<1>2. N \in Nat /\ M \in Nat /\ Prelude = 4 /\ Prelude' = 4
  BY Sizes DEF PathInv, Inv, Prelude
<1>3. Idle /\ written \in Nat
  BY <1>1, <1>2 DEF PathInv
<1>4. consumer' = "points" => Flow'
  BY <1>3, OpenFlow DEF PathInv
<1>5. Delivered'
  BY <1>1 DEF PathInv, Delivered
<1>6. ZonesKnown'
  BY <1>1 DEF PathInv, ZonesKnown
<1>7. Whole' => Clean'
  <2> SUFFICES ASSUME Whole PROVE Clean'
    BY <1>1 DEF Whole, Prelude
  <2>1. \A s \in 1..Prelude : Readable(s) /\ Decodes(s)
    BY <1>2 DEF Whole, Readable, Decodes
  <2>2. consumer' = "points"
    BY <1>1, <2>1
  <2>3. reader'.at = "check"
    BY <2>1 DEF Open, PathInv, Inv
  <2>4. ~Coming' /\ ~Passed'
    BY <1>1, <1>3 DEF Idle, Coming, Passed, Has
  <2> QED
    BY <1>1, <1>3, <2>2, <2>3, <2>4 DEF Clean, Idle
<1> QED
  BY <1>1, <1>2, <1>4, <1>5, <1>6, <1>7 DEF PathInv, Prelude

LEMMA PathPipeline ==
  ASSUME PathInv, Pipeline, Inv'
  PROVE  PathInv'
<1>1. /\ UNCHANGED <<file, written, saving, damage, stopped, consumer, points, zones, zonesRead>>
  BY DEF Pipeline, ReaderCheck, ReaderRead, ReaderSend, DecoderReceive, DecoderSend,
         MapperReceive, MapperSend, fileVars, gotVars
<1>2. N \in Nat /\ M \in Nat /\ Prelude = 4 /\ Prelude' = 4
  BY Sizes DEF PathInv, Inv, Prelude
<1>3. consumer # "open"
  <2> SUFFICES ASSUME consumer = "open" PROVE FALSE
    OBVIOUS
  <2>1. Idle /\ reader.at = "idle"
    BY DEF PathInv, Inv
  <2> QED
    BY <2>1 DEF Idle, Pipeline, ReaderCheck, ReaderRead, ReaderSend, DecoderReceive, DecoderSend,
                MapperReceive, MapperSend
<1>4. consumer \in {"zones", "loaded"} => UNCHANGED pos
  <2>1. consumer \in {"zones", "loaded"} => reader.at = "end"
    BY DEF PathInv, Inv, ZonesAfterPoints
  <2> QED
    BY <2>1 DEF Pipeline, ReaderCheck, ReaderRead, ReaderSend, DecoderReceive, DecoderSend,
                MapperReceive, MapperSend
<1>5. consumer = "points" => Flow'
  <2> SUFFICES ASSUME consumer = "points" PROVE Flow'
    OBVIOUS
  <2>1. Inv /\ Delivered /\ Flow
    BY DEF PathInv
  <2>2. CASE ReaderCheck \/ ReaderRead \/ ReaderSend
    <3>1. \A d : ChunkFlow(d) => ChunkFlow(d)'
      BY <2>1, <2>2, ReaderKeeps
    <3>2. UNCHANGED <<decoder, blobChan, mapper, outChan>>
      BY <2>2 DEF ReaderCheck, ReaderRead, ReaderSend
    <3>3. Outgoing' = Outgoing /\ Decoding' = Decoding
      BY <3>2 DEF Outgoing, Decoding
    <3>4. \A m : BlobFlow(m) => BlobFlow(m)'
      BY <1>1, <3>1, <3>3 DEF BlobFlow, Follows, Has
    <3> QED
      BY <1>1, <2>1, <3>3, <3>4 DEF Flow, Follows, Has
  <2>3. CASE DecoderReceive \/ DecoderSend
    <3>1. \A m : BlobFlow(m) => BlobFlow(m)'
      BY <2>1, <2>3, DecoderReceiveKeeps, DecoderSendKeeps
    <3>2. UNCHANGED <<mapper, outChan>>
      BY <2>3 DEF DecoderReceive, DecoderSend
    <3>3. Outgoing' = Outgoing
      BY <3>2 DEF Outgoing
    <3> QED
      BY <1>1, <2>1, <3>1, <3>3 DEF Flow, Follows, Has
  <2>4. CASE MapperReceive \/ MapperSend
    BY <2>1, <2>4, MapperReceiveKeeps, MapperSendKeeps
  <2> QED
    BY <2>2, <2>3, <2>4 DEF Pipeline
<1>6. Delivered'
  BY <1>1 DEF PathInv, Delivered
<1>7. ZonesKnown'
  <2>1. \A s : Sound(s)' <=> Sound(s)
    BY <1>1 DEF Sound, Readable, Decodes
  <2>2. ZonesKnown
    BY DEF PathInv
  <2> QED
    BY <1>1, <1>2, <1>4, <2>1, <2>2 DEF ZonesKnown, Prelude
<1>8. Whole' => Clean'
  <2> SUFFICES ASSUME Whole PROVE Clean'
    BY <1>1 DEF Whole, Prelude
  <2>1. Inv /\ Clean
    BY DEF PathInv
  <2> QED
    BY <2>1, ReaderClean, DecoderClean, MapperClean DEF Pipeline
<1> QED
  BY <1>1, <1>2, <1>3, <1>5, <1>6, <1>7, <1>8 DEF PathInv, Prelude

LEMMA PathConsumer ==
  ASSUME PathInv, TakePoint \/ EndPoints \/ ReadZones \/ LoadReturns, Inv'
  PROVE  PathInv'
<1>1. /\ UNCHANGED <<file, written, saving, damage, reader, chunkChan, decoder, blobChan, mapper>>
      /\ consumer \in {"points", "zones"} /\ consumer' # "open"
  BY DEF TakePoint, EndPoints, ReadZones, LoadReturns, fileVars, pipeline
<1>2. N \in Nat /\ M \in Nat /\ Prelude = 4 /\ Prelude' = 4 /\ NumZones = M /\ Types
      /\ written \in Nat
  <2>1. Types /\ written \in 0..Prelude + N + M
    BY DEF PathInv, Inv
  <2> QED
    BY <2>1, Sizes DEF Prelude
<1>3. Inv /\ Delivered /\ ZonesKnown /\ (consumer = "points" => Flow)
  BY DEF PathInv
<1>4. Whole' => Clean'
  <2> SUFFICES ASSUME Whole PROVE Clean'
    BY <1>1 DEF Whole, Prelude
  <2>1. Clean
    BY DEF PathInv
  <2> QED
    BY <1>3, <2>1, ConsumerClean DEF ZonesKnown
<1>5. \A s : Sound(s)' <=> Sound(s)
  BY <1>1 DEF Sound, Readable, Decodes
<1>6. Delivered' /\ (consumer' = "points" => Flow')
      /\ (consumer' \in {"zones", "loaded"} => points' = InputPoints) /\ ZonesKnown'
  <2>1. CASE TakePoint
    <3>1. /\ consumer = "points" /\ consumer' \in {"points", "failed"}
          /\ UNCHANGED <<pos, zones, zonesRead>>
      BY <2>1 DEF TakePoint
    <3>2. Delivered' /\ (consumer' = "points" => Flow')
      BY <1>3, <2>1, <3>1, TakePointKeeps
    <3>3. ZonesKnown'
      BY <1>3, <3>1 DEF ZonesKnown
    <3> QED
      BY <3>1, <3>2, <3>3
  <2>2. CASE EndPoints
    <3>1. /\ consumer = "points" /\ consumer' = "zones"
          /\ UNCHANGED <<pos, points, zones, zonesRead>>
      BY <2>2 DEF EndPoints, gotVars
    <3>2. points = InputPoints /\ pos = Prelude + N + 1 /\ Sound(Prelude + N)
      BY <1>2, <1>3, <2>2, <3>1, AllArrived
    <3>3. zonesRead = 0 /\ zones = <<>>
      BY <1>3, <3>1 DEF ZonesKnown
    <3>4. /\ (Prelude + N + zonesRead = Prelude + N)'
          /\ (Prelude + N + zonesRead + 1 = Prelude + N + 1)'
      BY <1>2, <3>1, <3>3
    <3>5. ZonesKnown'
      <4>1. Sound(Prelude + N)'
        BY <1>5, <3>2 DEF Sound, Prelude
      <4>2. Sound(Prelude + N + zonesRead)'
        BY <3>4, <4>1 DEF Sound
      <4>3. (pos = Prelude + N + zonesRead + 1)'
        BY <1>2, <3>1, <3>2, <3>3
      <4>4. (zones = SubSeq(SavedZones, 1, ZoneCut(zonesRead)) /\ zonesRead \in 0..M)'
        BY <3>1, <3>3, NoZones
      <4>5. (\E k \in 0..M : zones = SubSeq(SavedZones, 1, ZoneCut(k)))'
        BY <4>4
      <4> QED
        BY <3>1, <4>2, <4>3, <4>4, <4>5 DEF ZonesKnown
    <3> QED
      BY <1>3, <3>1, <3>2, <3>5 DEF Delivered
  <2>3. CASE ReadZones
    <3>1. /\ consumer = "zones" /\ consumer' \in {"zones", "failed"} /\ UNCHANGED points
          /\ zonesRead' = zonesRead + 1 /\ pos' = pos + 1
          /\ consumer' = "failed" => UNCHANGED zones
      BY <2>3 DEF ReadZones
    <3>2. PICK k \in 0..M : /\ zonesRead = k /\ pos = Prelude + N + k + 1
                            /\ zones = SubSeq(SavedZones, 1, ZoneCut(k))
                            /\ Sound(Prelude + N + k)
      BY <1>3, <3>1 DEF ZonesKnown
    <3>3. ZonesKnown'
      <4>1. CASE consumer' = "failed"
        BY <3>1, <3>2, <4>1 DEF ZonesKnown
      <4>2. CASE consumer' = "zones"
        <5>1. /\ k + 1 \in 0..M /\ zones' = SubSeq(SavedZones, 1, ZoneCut(k + 1))
              /\ Readable(pos) /\ Decodes(pos)
          BY <1>2, <2>3, <3>2, <4>2, ReadZonesKeeps
        <5>2. zonesRead' = k + 1
          BY <3>1, <3>2
        <5>3. pos' = Prelude + N + (k + 1) + 1
          BY <1>2, <3>1, <3>2
        <5>4. Sound(Prelude + N + (k + 1))
          <6>1. \A s \in 1..Prelude + N + (k + 1) : s \in 1..Prelude + N + k \/ s = pos
            BY <1>2, <3>2
          <6> QED
            BY <3>2, <5>1, <6>1 DEF Sound
        <5>5. Sound(Prelude + N + zonesRead)'
          BY <1>1, <5>2, <5>4 DEF Sound, Readable, Decodes, Prelude
        <5>6. (pos = Prelude + N + zonesRead + 1)'
          BY <1>2, <5>2, <5>3
        <5>7. (zones = SubSeq(SavedZones, 1, ZoneCut(zonesRead)) /\ zonesRead \in 0..M)'
          BY <5>1, <5>2
        <5>8. (\E j \in 0..M : zones = SubSeq(SavedZones, 1, ZoneCut(j)))'
          BY <5>7
        <5> QED
          BY <4>2, <5>5, <5>6, <5>7, <5>8 DEF ZonesKnown
      <4> QED
        BY <3>1, <4>1, <4>2
    <3>4. points = InputPoints
      BY <3>1 DEF PathInv
    <3> QED
      BY <1>3, <3>1, <3>3, <3>4 DEF Delivered
  <2>4. CASE LoadReturns
    <3>1. /\ consumer = "zones" /\ consumer' = "loaded" /\ zonesRead = M
          /\ UNCHANGED <<pos, points, zones, zonesRead>>
      BY <1>2, <2>4 DEF LoadReturns, gotVars
    <3>2. points = InputPoints
      BY <3>1 DEF PathInv
    <3>3. Sound(Prelude + N + zonesRead)'
      BY <1>1, <1>3, <3>1 DEF ZonesKnown, Sound, Readable, Decodes, Prelude
    <3>4. ZonesKnown'
      BY <1>2, <1>3, <3>1, <3>3 DEF ZonesKnown
    <3> QED
      BY <1>3, <3>1, <3>2, <3>4 DEF Delivered
  <2> QED
    BY <2>1, <2>2, <2>3, <2>4
<1>7. ~saving'
  BY <1>1 DEF PathInv
<1> QED
  BY <1>1, <1>2, <1>4, <1>6, <1>7 DEF PathInv, Prelude

LEMMA PathStep == PathInv /\ [Next]_vars => PathInv'
<1> SUFFICES ASSUME PathInv, [Next]_vars PROVE PathInv'
  OBVIOUS
<1>1. Inv'
  BY StepInv DEF PathInv
<1> QED
  BY <1>1, PathSave, PathOpen, PathPipeline, PathConsumer DEF Next, Consume

\* The invariant of the way from the file to the consumer: what is in every
\* channel, as far as it goes before an error, is what the consumer needs next.
THEOREM PathAlways == Spec => []PathInv
BY PathInit, PathStep, PTL DEF Spec

\* However the goroutines interleave and whatever is damaged or missing, the
\* consumer has a prefix of the saved points and of the saved zones, turned back
\* from the numbers of their strings (load.go:108-165, cache.go:29-83).
THEOREM AlwaysDeliveredInOrder == Spec => []DeliveredInOrder
<1>1. PathInv => DeliveredInOrder
  <2> SUFFICES ASSUME PathInv PROVE DeliveredInOrder
    OBVIOUS
  <2>1. IsPrefix(points, InputPoints)
    <3> DEFINE n == Len(points)
    <3>1. /\ points \in Seq(Range(InputPoints)) /\ n \in Nat /\ n <= Len(InputPoints)
          /\ \A i \in 1..n : points[i] = InputPoints[i]
      BY DEF PathInv, Delivered
    <3>2. /\ SubSeq(points, 0 + 1, n) = [i \in 1..n - 0 |-> points[0 + i]]
          /\ SubSeq(InputPoints, 0 + 1, n) = [i \in 1..n - 0 |-> InputPoints[0 + i]]
      BY <3>1, Inputs, Piece
    <3> HIDE DEF n
    <3>3. 0 + 1 = 1 /\ n - 0 = n /\ \A i \in 1..n : 0 + i = i
      BY <3>1
    <3>4. SubSeq(points, 1, n) = SubSeq(InputPoints, 1, n)
      BY <3>1, <3>2, <3>3
    <3> QED
      BY <3>1, <3>4 DEF IsPrefix, n
  <2>2. IsPrefix(zones, SavedZones)
    <3>1. PICK k \in 0..M : zones = SubSeq(SavedZones, 1, ZoneCut(k))
      BY DEF PathInv, ZonesKnown
    <3>2. SavedZones \in Seq(Range(InputZones)) /\ ZoneCut(k) \in 0..Len(SavedZones)
      <4>1. CASE k = 0
        BY <4>1, ZonesBack
      <4>2. CASE k # 0
        <5>1. k \in 1..M
          BY <4>2, ZonesBack
        <5> QED
          BY <5>1, ZonesBack
      <4> QED
        BY <4>1, <4>2
    <3> DEFINE c == ZoneCut(k)
    <3>3. /\ SubSeq(SavedZones, 0 + 1, c) \in Seq(Range(InputZones))
          /\ Len(SubSeq(SavedZones, 0 + 1, c)) = c - 0
          /\ SubSeq(SavedZones, 0 + 1, c) = [i \in 1..c - 0 |-> SavedZones[0 + i]]
      BY <3>2, Piece
    <3> HIDE DEF c
    <3>4. Len(zones) = c /\ zones \in Seq(Range(InputZones)) /\ c \in Nat /\ c <= Len(SavedZones)
      BY <3>1, <3>2, <3>3 DEF c
    <3>5. SubSeq(zones, 1, c) = zones
      <4>1. SubSeq(zones, 1, Len(zones)) = zones
        BY <3>4
      <4> QED
        BY <3>4, <4>1
    <3> QED
      BY <3>1, <3>4, <3>5 DEF IsPrefix, c
  <2> QED
    BY <2>1, <2>2 DEF DeliveredInOrder
<1> QED
  BY <1>1, PathAlways, PTL

\* A load that succeeds has all that was saved and found the file whole; a load
\* that fails does so because the file is cut short or damaged
\* (load_v1.go:19-34, load.go:66-98).
THEOREM LoadIsAlwaysExact == Spec => []LoadIsExact
<1>1. PathInv => LoadIsExact
  <2> SUFFICES ASSUME PathInv PROVE LoadIsExact
    OBVIOUS
  <2>1. /\ Sections = Prelude + N + M /\ N \in Nat /\ M \in Nat /\ Prelude = 4
        /\ written \in 0..Prelude + N + M
    BY Sizes DEF PathInv, Inv
  <2>2. ASSUME consumer = "loaded"
        PROVE  /\ points = InputPoints /\ zones = SavedZones
               /\ written = Sections /\ damage \intersect 1..Sections = {}
    <3>1. /\ points = InputPoints /\ zonesRead = M /\ Sound(Prelude + N + zonesRead)
          /\ zones = SubSeq(SavedZones, 1, ZoneCut(zonesRead))
      BY <2>2 DEF PathInv, ZonesKnown
    <3>2. zones = SavedZones
      <4>1. zones = SubSeq(SavedZones, 1, Len(SavedZones)) /\ SavedZones \in Seq(Range(InputZones))
        BY <3>1, ZonesBack
      <4> QED
        BY <4>1
    <3>3. Readable(Sections) /\ \A s \in 1..Sections : Decodes(s)
      BY <2>1, <3>1 DEF Sound
    <3> QED
      BY <2>1, <3>1, <3>2, <3>3 DEF Readable, Decodes
  <2>3. ASSUME consumer = "failed" PROVE written < Sections \/ damage # {}
    <3>1. ~Whole
      BY <2>3 DEF PathInv, Clean
    <3> QED
      BY <2>1, <3>1 DEF Whole
  <2> QED
    BY <2>2, <2>3 DEF LoadIsExact
<1> QED
  BY <1>1, PathAlways, PTL
=============================================================================
