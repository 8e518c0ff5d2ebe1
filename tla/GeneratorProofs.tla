--------------------------- MODULE GeneratorProofs ---------------------------
(***************************************************************************)
(* Theorems about Generator: for any input, any number of goroutines and   *)
(* outputs, no lookup sees a half filled cache, no way is saved twice, the *)
(* outputs are given the same points, and a saved file is complete.        *)
(***************************************************************************)
EXTENDS Generator, SequenceTheorems, FiniteSetTheorems, TLAPS

-----------------------------------------------------------------------------
(* Sequences in motion: an item leaves the head of one sequence and comes  *)
(* to the end of the next, and their concatenation stays as it is.         *)

LEMMA HeadAndTail ==
  ASSUME NEW S, NEW s \in Seq(S), s # <<>>
  PROVE  Head(s) \in S /\ Tail(s) \in Seq(S) /\ s = <<Head(s)>> \o Tail(s)
OBVIOUS

LEMMA MoveOn ==
  ASSUME NEW S, NEW a \in Seq(S), NEW s \in Seq(S), s # <<>>
  PROVE  a \o s = Append(a, Head(s)) \o Tail(s)
OBVIOUS

LEMMA MoveIn ==
  ASSUME NEW S, NEW a \in Seq(S), NEW s \in Seq(S), NEW x \in S
  PROVE  a \o Append(s, x) = Append(a \o s, x)
OBVIOUS

-----------------------------------------------------------------------------
(* What a sequence of points holds, and how often.                         *)

WayPoints == UNION {Points(way) : way \in Ways}

\* No point of a way is in s twice.
Once(s) == \A i, j \in DOMAIN s : s[i] = s[j] /\ s[i] \in WayPoints => i = j

\* No point of a way is in both s and t.
Apart(s, t) == Parse!Elements(s) \intersect Parse!Elements(t) \intersect WayPoints = {}

LEMMA ElementsOfAppend ==
  ASSUME NEW S, NEW s \in Seq(S), NEW x \in S
  PROVE  Parse!Elements(Append(s, x)) = Parse!Elements(s) \union {x}
<1>1. DOMAIN Append(s, x) = DOMAIN s \union {Len(s) + 1}
  OBVIOUS
<1>2. /\ \A i \in DOMAIN s : Append(s, x)[i] = s[i]
      /\ Append(s, x)[Len(s) + 1] = x
  OBVIOUS
<1> QED BY ONLY <1>1, <1>2 DEF Parse!Elements

LEMMA ElementsOfConcat ==
  ASSUME NEW S, NEW s \in Seq(S), NEW t \in Seq(S)
  PROVE  Parse!Elements(s \o t) = Parse!Elements(s) \union Parse!Elements(t)
<1>1. Parse!Elements(s) \subseteq Parse!Elements(s \o t)
  BY DEF Parse!Elements
<1>2. Parse!Elements(t) \subseteq Parse!Elements(s \o t)
  <2>1. ASSUME NEW i \in 1..Len(t) PROVE t[i] \in Parse!Elements(s \o t)
    <3>1. Len(s) \in Nat /\ Len(t) \in Nat /\ DOMAIN (s \o t) = 1..Len(s) + Len(t)
      OBVIOUS
    <3>2. Len(s) + i \in 1..Len(s) + Len(t) /\ ~(Len(s) + i <= Len(s)) /\ (Len(s) + i) - Len(s) = i
      BY <3>1
    <3>3. (s \o t)[Len(s) + i] = t[i]
      BY <3>2, ConcatProperties
    <3> QED BY <3>1, <3>2, <3>3 DEF Parse!Elements
  <2>2. DOMAIN t = 1..Len(t)
    OBVIOUS
  <2> QED BY ONLY <2>1, <2>2 DEF Parse!Elements
<1>3. Parse!Elements(s \o t) \subseteq Parse!Elements(s) \union Parse!Elements(t)
  BY DEF Parse!Elements
<1> QED BY <1>1, <1>2, <1>3

LEMMA ElementsOfTail ==
  ASSUME NEW S, NEW s \in Seq(S), s # <<>>
  PROVE  Parse!Elements(s) = {Head(s)} \union Parse!Elements(Tail(s))
<1>1. s = <<Head(s)>> \o Tail(s) /\ Tail(s) \in Seq(S) /\ <<Head(s)>> \in Seq(S)
  OBVIOUS
<1>2. Parse!Elements(<<Head(s)>>) = {Head(s)}
  BY DEF Parse!Elements
<1>3. Parse!Elements(<<Head(s)>> \o Tail(s))
        = Parse!Elements(<<Head(s)>>) \union Parse!Elements(Tail(s))
  BY ONLY <1>1, ElementsOfConcat
<1> QED BY ONLY <1>1, <1>2, <1>3

LEMMA OnceAppend ==
  ASSUME NEW S, NEW s \in Seq(S), NEW x \in S, Once(s),
         x \notin WayPoints \/ x \notin Parse!Elements(s)
  PROVE  Once(Append(s, x))
BY DEF Once, Parse!Elements

LEMMA OnceConcat ==
  ASSUME NEW S, NEW s \in Seq(S), NEW t \in Seq(S), Once(s), Once(t), Apart(s, t)
  PROVE  Once(s \o t)
<1> DEFINE Clash(i, j) == (s \o t)[i] = (s \o t)[j] /\ (s \o t)[i] \in WayPoints
<1>1. \A i, j \in 1..Len(s) + Len(t) : i < j => ~Clash(i, j)
  <2>1. SUFFICES ASSUME NEW i \in 1..Len(s) + Len(t), NEW j \in 1..Len(s) + Len(t), i < j,
                        Clash(i, j)
                 PROVE  FALSE
    OBVIOUS
  <2>2. CASE j <= Len(s)
    <3>1. (s \o t)[i] = s[i] /\ (s \o t)[j] = s[j] /\ i \in DOMAIN s /\ j \in DOMAIN s /\ i # j
      BY <2>1, <2>2
    <3> QED BY ONLY <2>1, <3>1, Once(s) DEF Once
  <2>3. CASE i > Len(s)
    <3> DEFINE k == i - Len(s)
               l == j - Len(s)
    <3>1. (s \o t)[i] = t[k] /\ (s \o t)[j] = t[l] /\ k \in DOMAIN t /\ l \in DOMAIN t /\ k # l
      BY <2>1, <2>3
    <3> QED BY <2>1, <3>1 DEF Once
  <2>4. CASE i <= Len(s) /\ j > Len(s)
    <3>1. (s \o t)[i] = s[i] /\ (s \o t)[j] = t[j - Len(s)] /\ i \in DOMAIN s /\ j - Len(s) \in DOMAIN t
      BY <2>1, <2>4
    <3> QED BY ONLY <2>1, <3>1, Apart(s, t) DEF Apart, Parse!Elements
  <2> QED BY <2>1, <2>2, <2>3, <2>4
<1>2. DOMAIN (s \o t) = 1..Len(s) + Len(t) /\ Len(s) \in Nat /\ Len(t) \in Nat
  OBVIOUS
<1>3. \A i, j \in 1..Len(s) + Len(t) : Clash(i, j) => Clash(j, i)
  OBVIOUS
<1>4. ASSUME NEW i \in 1..Len(s) + Len(t), NEW j \in 1..Len(s) + Len(t), Clash(i, j)
      PROVE  i = j
  <2>1. ~(i < j) /\ ~(j < i)
    BY ONLY <1>1, <1>3, <1>4
  <2> QED BY ONLY <1>2, <2>1
<1> QED BY ONLY <1>2, <1>4 DEF Once

LEMMA OnceTail ==
  ASSUME NEW S, NEW s \in Seq(S), s # <<>>, Once(s)
  PROVE  /\ Once(Tail(s))
         /\ Head(s) \in WayPoints => Head(s) \notin Parse!Elements(Tail(s))
<1>1. \A i \in 1..Len(Tail(s)) : Tail(s)[i] = s[i + 1] /\ i + 1 \in DOMAIN s
  OBVIOUS
<1>2. Head(s) = s[1] /\ 1 \in DOMAIN s /\ DOMAIN Tail(s) = 1..Len(Tail(s))
  OBVIOUS
<1> QED BY <1>1, <1>2 DEF Once, Parse!Elements

-----------------------------------------------------------------------------
(* A Tee on its way: what it has given to output o, the item it is about   *)
(* to give it included.                                                    *)

TeeTypes(tee, Items) ==
  /\ tee \in [hold : Items \union {None}, next : 1..N + 1,
              chs : [Outputs -> Seq(Items)], closed : BOOLEAN]
  /\ tee.hold # None => tee.next <= N
  /\ tee.closed => tee.hold = None
  /\ \A o \in Outputs : Len(tee.chs[o]) <= 1

Held(tee, o) == IF tee.hold # None /\ tee.next <= o THEN <<tee.hold>> ELSE <<>>
Given(got, tee, o) == got \o tee.chs[o] \o Held(tee, o)

LEMMA GivenType ==
  ASSUME NEW Items, NEW tee, TeeTypes(tee, Items), NEW o \in Outputs, NEW got \in Seq(Items)
  PROVE  /\ tee.chs[o] \in Seq(Items)
         /\ Held(tee, o) \in Seq(Items)
         /\ Given(got, tee, o) \in Seq(Items)
<1>1. tee.chs[o] \in Seq(Items)
  BY DEF TeeTypes
<1>2. Held(tee, o) \in Seq(Items)
  <2>1. tee.hold \in Items \union {None}
    BY DEF TeeTypes
  <2> QED BY ONLY <2>1 DEF Held
<1> QED BY ONLY <1>1, <1>2, got \in Seq(Items) DEF Given

\* The states of a Tee after its steps.
Taken(tee, item) == [tee EXCEPT !.hold = item, !.next = 1]
Pushed(tee) == [tee EXCEPT !.chs[tee.next] = Append(@, tee.hold),
                           !.next = @ + 1,
                           !.hold = IF tee.next = N THEN None ELSE @]
Drained(tee, i) == [tee EXCEPT !.chs[i] = Tail(@)]
Closed(tee) == [tee EXCEPT !.closed = TRUE]

\* The source's next item is given to all.
LEMMA TakeGives ==
  ASSUME NEW Items, None \notin Items, NEW tee, TeeTypes(tee, Items), NEW item \in Items,
         tee.hold = None, ~tee.closed,
         NEW new, new = Taken(tee, item)
  PROVE  /\ TeeTypes(new, Items)
         /\ new.chs = tee.chs /\ new.closed = tee.closed
         /\ \A o \in Outputs : \A got \in Seq(Items) :
              Given(got, new, o) = Append(Given(got, tee, o), item)
<1>1. new = [hold |-> item, next |-> 1, chs |-> tee.chs, closed |-> tee.closed]
  BY DEF TeeTypes, Taken
<1>2. TeeTypes(new, Items)
  BY <1>1, InputAssumption DEF TeeTypes
<1>3. ASSUME NEW o \in Outputs, NEW got \in Seq(Items)
      PROVE  Given(got, new, o) = Append(Given(got, tee, o), item)
  <2>1. Held(tee, o) = <<>> /\ Held(new, o) = <<item>>
    BY <1>1 DEF Held, Outputs
  <2>2. tee.chs[o] \in Seq(Items)
    BY GivenType
  <2>3. got \o tee.chs[o] \in Seq(Items)
    BY ONLY <2>2, got \in Seq(Items)
  <2> DEFINE all == got \o tee.chs[o]
  <2>4. Given(got, tee, o) = all \o <<>> /\ Given(got, new, o) = all \o <<item>>
    BY ONLY <1>1, <2>1 DEF Given
  <2>5. all \in Seq(Items)
    BY <2>3
  <2> HIDE DEF all
  <2> QED BY ONLY <2>4, <2>5, item \in Items
<1> QED BY <1>1, <1>2, <1>3

\* An output's channel takes the item; it had been given to it already.
LEMMA PushGivesNothing ==
  ASSUME NEW Items, None \notin Items, NEW tee, TeeTypes(tee, Items),
         tee.hold # None, Len(tee.chs[tee.next]) < 1,
         NEW new, new = Pushed(tee)
  PROVE  /\ TeeTypes(new, Items)
         /\ new.closed = tee.closed
         /\ \A o \in Outputs : \A got \in Seq(Items) :
              Given(got, new, o) = Given(got, tee, o)
<1> DEFINE p == tee.next
           x == tee.hold
<1>1. /\ p \in Outputs /\ p \in Nat /\ x \in Items /\ tee.chs \in [Outputs -> Seq(Items)]
      /\ tee.chs[p] = <<>> /\ ~tee.closed
  <2>1. /\ p \in Outputs /\ p \in Nat /\ x \in Items /\ tee.chs \in [Outputs -> Seq(Items)]
        /\ ~tee.closed
    BY InputAssumption DEF TeeTypes, Outputs
  <2>2. tee.chs[p] = <<>>
    BY ONLY <2>1, Len(tee.chs[tee.next]) < 1
  <2> QED BY <2>1, <2>2
<1>2. /\ new.hold = (IF p = N THEN None ELSE x) /\ new.next = p + 1
      /\ new.chs = [tee.chs EXCEPT ![p] = Append(@, x)] /\ new.closed = tee.closed
      /\ new = [hold |-> new.hold, next |-> new.next, chs |-> new.chs, closed |-> new.closed]
  BY DEF TeeTypes, Pushed
<1>3. new.chs[p] = <<x>> /\ \A o \in Outputs \ {p} : new.chs[o] = tee.chs[o]
  BY ONLY <1>1, <1>2
<1>4. TeeTypes(new, Items)
  <2>1. new.chs \in [Outputs -> Seq(Items)]
    BY ONLY <1>1, <1>2
  <2>2. \A o \in Outputs : Len(new.chs[o]) <= 1
    <3>1. \A o \in Outputs : Len(tee.chs[o]) <= 1
      BY DEF TeeTypes
    <3>2. Len(new.chs[p]) = 1
      <4>1. tee.chs[p] \in Seq(Items) /\ x \in Items /\ Len(tee.chs[p]) = 0
        BY ONLY <1>1
      <4>2. new.chs[p] = Append(tee.chs[p], x)
        BY ONLY <1>1, <1>2
      <4> QED BY ONLY <4>1, <4>2
    <3>3. ASSUME NEW o \in Outputs
          PROVE  Len(new.chs[o]) <= 1
      <4>1. CASE o = p
        <5>1. Len(new.chs[o]) = 1
          BY ONLY <3>2, <4>1
        <5> QED BY ONLY <5>1
      <4>2. CASE o # p
        BY ONLY <1>3, <3>1, <4>2, o \in Outputs
      <4> QED BY ONLY <4>1, <4>2
    <3> QED BY ONLY <3>3
  <2>3. /\ new.hold \in Items \union {None} /\ new.next \in 1..N + 1
        /\ new.hold # None => new.next <= N
    BY <1>1, <1>2, InputAssumption DEF Outputs
  <2>4. new.closed = FALSE
    BY <1>1, <1>2 DEF TeeTypes
  <2> QED BY ONLY <1>2, <2>1, <2>2, <2>3, <2>4 DEF TeeTypes
<1>5. ASSUME NEW o \in Outputs, NEW got \in Seq(Items)
      PROVE  Given(got, new, o) = Given(got, tee, o)
  <2>1. CASE o = p
    <3>1. Held(tee, o) = <<x>> /\ Held(new, o) = <<>>
      BY ONLY <1>1, <1>2, <2>1, tee.hold # None DEF Held
    <3>2. Given(got, tee, o) = (got \o <<>>) \o <<x>> /\ Given(got, new, o) = (got \o <<x>>) \o <<>>
      BY ONLY <1>1, <1>3, <2>1, <3>1 DEF Given
    <3> QED BY ONLY <1>1, <3>2, got \in Seq(Items)
  <2>2. CASE o # p
    <3>1. Held(tee, o) = Held(new, o)
      BY <1>1, <1>2, <2>2, InputAssumption DEF Held, Outputs
    <3> QED BY ONLY <1>3, <2>2, <3>1, o \in Outputs DEF Given
  <2> QED BY <2>1, <2>2
<1> QED BY <1>2, <1>4, <1>5

\* What an output receives it had been given.
LEMMA ReceiveGivesNothing ==
  ASSUME NEW Items, NEW tee, TeeTypes(tee, Items), NEW i \in Outputs, tee.chs[i] # <<>>,
         NEW new, new = Drained(tee, i)
  PROVE  /\ TeeTypes(new, Items)
         /\ new.closed = tee.closed /\ new.hold = tee.hold
         /\ \A o \in Outputs \ {i} : new.chs[o] = tee.chs[o]
         /\ Head(tee.chs[i]) \in Items
         /\ \A o \in Outputs : \A got \in Seq(Items) :
              o # i => Given(got, new, o) = Given(got, tee, o)
         /\ \A got \in Seq(Items) :
              Given(Append(got, Head(tee.chs[i])), new, i) = Given(got, tee, i)
<1>1. /\ tee.chs \in [Outputs -> Seq(Items)]
      /\ new = [hold |-> tee.hold, next |-> tee.next,
                chs |-> [tee.chs EXCEPT ![i] = Tail(@)], closed |-> tee.closed]
  BY DEF TeeTypes, Drained
<1>2. /\ tee.chs[i] \in Seq(Items) /\ Head(tee.chs[i]) \in Items /\ Tail(tee.chs[i]) \in Seq(Items)
      /\ new.chs[i] = Tail(tee.chs[i])
      /\ \A o \in Outputs \ {i} : new.chs[o] = tee.chs[o]
  BY ONLY <1>1, i \in Outputs, tee.chs[i] # <<>>
<1>3. new.hold = tee.hold /\ new.closed = tee.closed
  BY ONLY <1>1
<1>4. TeeTypes(new, Items)
  <2>1. Len(tee.chs[i]) <= 1 /\ Len(Tail(tee.chs[i])) <= 1
    BY <1>2 DEF TeeTypes
  <2>2. \A o \in Outputs : Len(new.chs[o]) <= 1
    BY <1>2, <2>1 DEF TeeTypes
  <2>3. new.chs \in [Outputs -> Seq(Items)]
    BY ONLY <1>1, <1>2
  <2> QED BY <1>1, <2>2, <2>3 DEF TeeTypes
<1>5. \A o \in Outputs : Held(new, o) = Held(tee, o)
  BY ONLY <1>1 DEF Held
<1>6. \A o \in Outputs : \A got \in Seq(Items) : o # i => Given(got, new, o) = Given(got, tee, o)
  BY ONLY <1>2, <1>5 DEF Given
<1>7. ASSUME NEW got \in Seq(Items)
      PROVE  Given(Append(got, Head(tee.chs[i])), new, i) = Given(got, tee, i)
  <2>1. got \o tee.chs[i] = Append(got, Head(tee.chs[i])) \o Tail(tee.chs[i])
    BY ONLY <1>2, MoveOn, tee.chs[i] # <<>>, got \in Seq(Items)
  <2> QED BY ONLY <1>2, <1>5, <2>1, i \in Outputs DEF Given
<1> QED BY ONLY <1>2, <1>3, <1>4, <1>6, <1>7

-----------------------------------------------------------------------------
(* The invariants.                                                         *)

Stages == {"fill", "fillFailed", "failed", "parse", "parseFailed", "closing", "done"}

FillTypes ==
  /\ filled \in 0..Len(Input[RelationSource])
  /\ caching \subseteq Relations /\ cached \subseteq Relations

ReadTypes ==
  /\ read \in [Sources -> Nat]
  /\ \A s \in Sources : read[s] <= Len(Input[s])
  /\ out \in Seq(Objects \union {Err})
  /\ Len(out) <= Cardinality(Sources)

Jobs == [obj : Objects \union {None}, members : Seq(Ways), send : Seq(AllPoints)]

\* A goroutine that has an object still to parse has nothing left of another.
JobTypes ==
  /\ job \in [Workers -> Jobs]
  /\ \A w \in Workers : job[w].obj # None => job[w].members = <<>> /\ job[w].send = <<>>

IndexTypes == parsedWays \subseteq Ways /\ parsedRelations \subseteq Relations
ZoneTypes == regions \in Seq(Relations) /\ countries \in Seq(Relations)
ChanTypes == points \in Seq(AllPoints) /\ Len(points) <= PointCap
FlagTypes == {pointsClosed, parsingDone, readFailed} \subseteq BOOLEAN

ParseTypes ==
  /\ stage \in Stages
  /\ FillTypes /\ ReadTypes /\ JobTypes /\ IndexTypes /\ ZoneTypes /\ ChanTypes /\ FlagTypes

Zones == SaveW!Zones

SaveTypes ==
  /\ TeeTypes(pointsTee, AllPoints)
  /\ TeeTypes(zonesTee, Relations)
  /\ zonesRead \in 0..Len(Zones)
  /\ saver \in [Outputs -> {"start", "points", "zones", "write", "saved", "failed"}]
  /\ gotPoints \in [Outputs -> Seq(AllPoints)]
  /\ gotZones \in [Outputs -> Seq(Relations)]
  /\ earlyFailed \subseteq Outputs

Resting == \A w \in Workers : job[w] = Parse!Idle
ReadAll == \A s \in Sources : read[s] = Len(Input[s])

\* What each stage of the generating goroutine leaves behind.
StageInv ==
  /\ stage \in {"fill", "fillFailed", "failed"} => out = <<>> /\ Resting /\ points = <<>>
  /\ stage \in {"closing", "done"} => out = <<>> /\ Resting /\ ReadAll
  /\ pointsClosed => stage \in {"closing", "done"}
  /\ parsingDone => stage = "done"

TypeInv == ParseTypes /\ SaveTypes /\ StageInv

\* The relations read so far have been cached or are about to be.
CacheInv ==
  /\ cached \union caching = {Input[RelationSource][i] : i \in 1..filled}
  /\ stage \notin {"fill", "fillFailed", "failed"} =>
       filled = Len(Input[RelationSource]) /\ caching = {}

\* Every output has been sent the same points.
SameLog == \A o, p \in Outputs : Sent(o) = Sent(p)
Log == Sent(1)

\* A point of a way is in the log, or about to be sent by one goroutine, once;
\* before the dedup index has the way it is nowhere.
WaysInv ==
  /\ Once(Log)
  /\ \A w \in Workers : Once(job[w].send) /\ Apart(Log, job[w].send)
  /\ \A v, w \in Workers : v # w => Apart(job[v].send, job[w].send)
  /\ \A way \in Ways \ parsedWays :
       /\ Points(way) \intersect Parse!Elements(Log) = {}
       /\ \A w \in Workers : Points(way) \intersect Parse!Elements(job[w].send) = {}

\* The points of obj are on their way and its zone is listed.
Flow == Parse!Elements(Log) \union UNION {Parse!Elements(job[w].send) : w \in Workers}
Handled(obj) ==
  /\ Points(obj) \subseteq Flow
  /\ obj \in Relations /\ ZoneOf[obj] = "region" => obj \in Parse!Elements(regions)
  /\ obj \in Relations /\ ZoneOf[obj] = "country" => obj \in Parse!Elements(countries)

Pending(obj) == obj \in Parse!Elements(out) \/ \E w \in Workers : job[w].obj = obj

\* What has been read is not lost, unless a read error ends the reading.
ReadInv ==
  /\ \A obj \in parsedWays \union parsedRelations : Handled(obj)
  /\ \/ stage = "parseFailed"
     \/ Err \in Parse!Elements(out)
     \/ \A s \in Sources : \A i \in 1..read[s] :
          Pending(Input[s][i]) \/ Handled(Input[s][i])

\* What each output has been given of the zones.
ZonesGiven == \A o \in Outputs : Given(gotZones[o], zonesTee, o) = SubSeq(Zones, 1, zonesRead)

\* How far the saving goroutines may be.
SaveInv ==
  /\ pointsTee.closed => pointsClosed /\ points = <<>>
  /\ zonesRead > 0 => parsingDone
  /\ zonesTee.closed => parsingDone /\ zonesRead = Len(Zones)
  /\ \A o \in Outputs :
       /\ saver[o] \in {"zones", "write", "saved"} =>
            pointsTee.closed /\ pointsTee.chs[o] = <<>>
       /\ saver[o] \in {"write", "saved"} => zonesTee.closed /\ zonesTee.chs[o] = <<>>
  /\ ZonesGiven

IInv == TypeInv /\ CacheInv /\ SameLog /\ WaysInv /\ ReadInv /\ SaveInv

-----------------------------------------------------------------------------
(* Types and stages.                                                       *)

LEMMA IdleJob == Parse!Idle = [obj |-> None, members |-> <<>>, send |-> <<>>] /\ Parse!Idle \in Jobs
BY DEF Parse!Idle, Parse!Job, Jobs

\* The two modules extend the same FiniteSets.
LEMMA SameCardinality == \A S : Parse!Cardinality(S) = Cardinality(S)
BY DEF Cardinality, Parse!Cardinality

LEMMA InputTypes ==
  /\ \A s \in Sources : Input[s] \in Seq(Objects) /\ Len(Input[s]) \in Nat
  /\ Input[RelationSource] \in Seq(Relations) /\ Len(Input[RelationSource]) \in Nat
BY InputAssumption

LEMMA PointsTypes ==
  ASSUME NEW obj \in Objects
  PROVE  PointsOf[obj] \in Seq(AllPoints) /\ Parse!Elements(PointsOf[obj]) = Points(obj)
BY ObjectAssumption DEF Parse!Elements, Points

\* One goroutine of the pool moves on.
LEMMA NewJob ==
  ASSUME JobTypes, NEW w \in Workers, NEW j \in Jobs,
         j.obj # None => j.members = <<>> /\ j.send = <<>>,
         job' = [job EXCEPT ![w] = j]
  PROVE  /\ JobTypes'
         /\ job'[w] = j
         /\ \A v \in Workers \ {w} : job'[v] = job[v]
BY DEF JobTypes

LEMMA InitTypes == Init => TypeInv
<1> SUFFICES ASSUME Init PROVE TypeInv
  OBVIOUS
<1>1. ParseTypes
  <2>1. JobTypes
    BY IdleJob DEF Init, Parse!Init, JobTypes
  <2>2. ReadTypes
    <3>1. Cardinality(Sources) \in Nat
      BY InputAssumption, FS_CardinalityType
    <3>2. read \in [Sources -> Nat] /\ \A s \in Sources : read[s] <= Len(Input[s])
      BY InputTypes DEF Init, Parse!Init
    <3>3. out = <<>>
      BY DEF Init, Parse!Init
    <3> QED BY ONLY <3>1, <3>2, <3>3 DEF ReadTypes
  <2>3. FillTypes
    BY InputTypes DEF Init, Parse!Init, FillTypes
  <2>4. ZoneTypes /\ ChanTypes
    BY InputAssumption DEF Init, Parse!Init, ZoneTypes, ChanTypes
  <2>5. stage \in Stages /\ IndexTypes /\ FlagTypes
    BY DEF Init, Parse!Init, Stages, IndexTypes, FlagTypes
  <2> QED BY ONLY <2>1, <2>2, <2>3, <2>4, <2>5 DEF ParseTypes
<1>2. SaveTypes
  <2>1. TeeTypes(pointsTee, AllPoints) /\ TeeTypes(zonesTee, Relations)
    BY InputAssumption DEF Init, SaveW!Init, SaveW!PointsTee!New, SaveW!ZonesTee!New, TeeTypes, Outputs
  <2>2. Zones = <<>>
    BY DEF Init, Parse!Init, Zones, SaveW!Zones
  <2> QED BY <2>1, <2>2 DEF Init, SaveW!Init, SaveTypes, SaveW!Outputs, Outputs
<1>3. StageInv
  BY DEF Init, Parse!Init, StageInv, Resting
<1> QED BY <1>1, <1>2, <1>3 DEF TypeInv

\* What each step of the pool does to a goroutine.
Becomes(w, obj, members, send) ==
  /\ JobTypes'
  /\ job'[w] = [obj |-> obj, members |-> members, send |-> send]
  /\ \A v \in Workers \ {w} : job'[v] = job[v]

LEMMA JobExcept ==
  ASSUME NEW f \in Jobs, NEW members, NEW send
  PROVE  /\ [f EXCEPT !.members = members, !.send = send]
              = [obj |-> f.obj, members |-> members, send |-> send]
         /\ [f EXCEPT !.send = send] = [obj |-> f.obj, members |-> f.members, send |-> send]
<1>1. PICK b \in Objects \union {None}, m \in Seq(Ways), s \in Seq(AllPoints) :
        f = [obj |-> b, members |-> m, send |-> s]
  BY DEF Jobs
<1>2. [f EXCEPT !.members = members] = [obj |-> b, members |-> members, send |-> s]
  BY ONLY <1>1
<1>3. [f EXCEPT !.send = send] = [obj |-> b, members |-> m, send |-> send]
  BY ONLY <1>1
<1> DEFINE g == [f EXCEPT !.members = members]
<1>4. g = [obj |-> b, members |-> members, send |-> s]
  BY <1>2
<1> HIDE DEF g
<1>5. [g EXCEPT !.send = send] = [obj |-> b, members |-> members, send |-> send]
  BY ONLY <1>4
<1> QED BY ONLY <1>1, <1>3, <1>5 DEF g

LEMMA HeadOfOut ==
  ASSUME ReadTypes, out # <<>>
  PROVE  /\ Head(out) \in Objects \union {Err} /\ Tail(out) \in Seq(Objects \union {Err})
         /\ Len(Tail(out)) <= Cardinality(Sources)
         /\ Parse!Elements(out) = {Head(out)} \union Parse!Elements(Tail(out))
<1>1. out \in Seq(Objects \union {Err}) /\ Len(out) <= Cardinality(Sources)
  BY DEF ReadTypes
<1>2. Cardinality(Sources) \in Nat
  BY InputAssumption, FS_CardinalityType
<1> QED BY ONLY <1>1, <1>2, ElementsOfTail, out # <<>>

LEMMA SubmitJob ==
  ASSUME ReadTypes, JobTypes, NEW w \in Workers, Parse!Submit(w)
  PROVE  /\ Becomes(w, Head(out), <<>>, <<>>)
         /\ Head(out) \in Objects
         /\ job[w] = Parse!Idle
<1>1. Head(out) \in Objects /\ job[w] = Parse!Idle
  BY HeadOfOut DEF Parse!Submit
<1> DEFINE j == [obj |-> Head(out), members |-> <<>>, send |-> <<>>]
<1>2. j \in Jobs /\ j.members = <<>> /\ j.send = <<>> /\ job' = [job EXCEPT ![w] = j]
  BY <1>1 DEF Jobs, Parse!Submit, Parse!Job
<1> HIDE DEF j
<1>3. JobTypes' /\ job'[w] = j /\ \A v \in Workers \ {w} : job'[v] = job[v]
  BY ONLY <1>2, NewJob, JobTypes, w \in Workers
<1> QED BY <1>1, <1>3 DEF Becomes, j

LEMMA NodeJob ==
  ASSUME JobTypes, NEW w \in Workers, Parse!ParseNode(w)
  PROVE  /\ job[w].obj \in Nodes
         /\ Becomes(w, None, <<>>, PointsOf[job[w].obj])
<1> DEFINE j == [obj |-> None, members |-> <<>>, send |-> PointsOf[job[w].obj]]
<1>1. job[w].obj \in Nodes /\ job' = [job EXCEPT ![w] = j]
  BY DEF Parse!ParseNode, Parse!Job
<1>2. j \in Jobs /\ j.obj = None
  BY <1>1, PointsTypes DEF Jobs, Objects
<1> HIDE DEF j
<1>3. JobTypes' /\ job'[w] = j /\ \A v \in Workers \ {w} : job'[v] = job[v]
  BY ONLY <1>1, <1>2, NewJob, JobTypes, w \in Workers
<1> QED BY <1>1, <1>3 DEF Becomes, j

LEMMA WayJob ==
  ASSUME JobTypes, NEW w \in Workers, Parse!ParseWay(w)
  PROVE  /\ job[w].obj \in Ways
         /\ Becomes(w, None, <<>>,
                    IF job[w].obj \notin parsedWays THEN PointsOf[job[w].obj] ELSE <<>>)
<1> DEFINE send == IF job[w].obj \notin parsedWays THEN PointsOf[job[w].obj] ELSE <<>>
           j == [obj |-> None, members |-> <<>>, send |-> send]
<1>1. job[w].obj \in Ways /\ job' = [job EXCEPT ![w] = j]
  BY IdleJob DEF Parse!ParseWay, Parse!Job, Parse!FreshWay
<1>2. j \in Jobs /\ j.obj = None
  BY <1>1, PointsTypes DEF Jobs, Objects
<1> HIDE DEF j
<1>3. JobTypes' /\ job'[w] = j /\ \A v \in Workers \ {w} : job'[v] = job[v]
  BY ONLY <1>1, <1>2, NewJob, JobTypes, w \in Workers
<1> QED BY <1>1, <1>3 DEF Becomes, j

LEMMA RelationJob ==
  ASSUME JobTypes, NEW w \in Workers, Parse!ParseRelation(w)
  PROVE  /\ job[w].obj \in Relations
         /\ IF job[w].obj \notin parsedRelations
            THEN Becomes(w, None, MembersOf[job[w].obj], PointsOf[job[w].obj])
            ELSE Becomes(w, None, <<>>, <<>>)
<1> DEFINE r == job[w].obj
           j == IF r \notin parsedRelations
                THEN [obj |-> None, members |-> MembersOf[r], send |-> PointsOf[r]]
                ELSE [obj |-> None, members |-> <<>>, send |-> <<>>]
<1>1. r \in Relations /\ job' = [job EXCEPT ![w] = j]
  BY IdleJob DEF Parse!ParseRelation, Parse!Job, Parse!FreshRelation
<1>2. j \in Jobs /\ j.obj = None
  <2>1. MembersOf[r] \in Seq(Ways) /\ PointsOf[r] \in Seq(AllPoints)
    BY <1>1, PointsTypes, ObjectAssumption DEF Objects
  <2> QED BY <2>1 DEF Jobs
<1> HIDE DEF j
<1>3. JobTypes' /\ job'[w] = j /\ \A v \in Workers \ {w} : job'[v] = job[v]
  BY ONLY <1>1, <1>2, NewJob, JobTypes, w \in Workers
<1> QED BY <1>1, <1>3 DEF Becomes, j

LEMMA MemberJob ==
  ASSUME JobTypes, NEW w \in Workers, Parse!ParseMember(w)
  PROVE  /\ job[w].obj = None /\ Head(job[w].members) \in Ways
         /\ Becomes(w, None, Tail(job[w].members),
                    job[w].send \o (IF Head(job[w].members) \notin parsedWays
                                    THEN PointsOf[Head(job[w].members)] ELSE <<>>))
<1> DEFINE way == Head(job[w].members)
           more == IF way \notin parsedWays THEN PointsOf[way] ELSE <<>>
           j == [obj |-> None, members |-> Tail(job[w].members), send |-> job[w].send \o more]
<1>1. /\ job[w].members \in Seq(Ways) /\ job[w].members # <<>> /\ job[w].send \in Seq(AllPoints)
      /\ job[w].obj = None /\ job[w] \in Jobs
  BY DEF JobTypes, Jobs, Parse!ParseMember
<1>2. way \in Ways /\ Tail(job[w].members) \in Seq(Ways)
  BY <1>1
<1>3. more \in Seq(AllPoints)
  BY <1>2, PointsTypes DEF Objects
<1>4. j \in Jobs /\ j.obj = None
  BY <1>1, <1>2, <1>3 DEF Jobs
<1>5. job' = [job EXCEPT ![w] = j]
  <2> DEFINE sent == IF Parse!FreshWay(way) THEN job[w].send \o PointsOf[way] ELSE job[w].send
  <2>1. job' = [job EXCEPT ![w].members = Tail(@), ![w].send = sent]
    BY DEF Parse!ParseMember, Parse!FreshWay
  <2>2. sent = job[w].send \o more
    <3>1. CASE way \in parsedWays
      <4>1. job[w].send \o <<>> = job[w].send
        BY ONLY <1>1
      <4> QED BY <3>1, <4>1 DEF Parse!FreshWay
    <3>2. CASE way \notin parsedWays
      BY <3>2 DEF Parse!FreshWay
    <3> QED BY <3>1, <3>2
  <2>3. j = [job[w] EXCEPT !.members = Tail(@), !.send = sent]
    <3> DEFINE rest == Tail(job[w].members)
    <3>1. j = [obj |-> None, members |-> rest, send |-> sent]
      BY <2>2
    <3> HIDE DEF sent, rest, j
    <3>2. j = [job[w] EXCEPT !.members = rest, !.send = sent]
      BY ONLY <1>1, <3>1, JobExcept
    <3> QED BY ONLY <3>2 DEF rest
  <2> QED BY ONLY <2>1, <2>3, JobTypes, w \in Workers DEF JobTypes
<1> HIDE DEF j
<1>6. JobTypes' /\ job'[w] = j /\ \A v \in Workers \ {w} : job'[v] = job[v]
  BY ONLY <1>4, <1>5, NewJob, JobTypes, w \in Workers
<1> QED BY <1>1, <1>2, <1>6 DEF Becomes, j

LEMMA SendJob ==
  ASSUME JobTypes, NEW w \in Workers, Parse!SendPoint(w)
  PROVE  /\ job[w].obj = None /\ job[w].members = <<>>
         /\ job[w].send # <<>> /\ job[w].send \in Seq(AllPoints)
         /\ Becomes(w, None, <<>>, Tail(job[w].send))
<1> DEFINE j == [obj |-> None, members |-> <<>>, send |-> Tail(job[w].send)]
<1>1. /\ job[w].send # <<>> /\ job[w].send \in Seq(AllPoints)
      /\ job[w].obj = None /\ job[w].members = <<>> /\ job[w] \in Jobs
  BY DEF JobTypes, Jobs, Parse!SendPoint
<1>2. j \in Jobs /\ j.obj = None
  BY <1>1 DEF Jobs
<1>3. job' = [job EXCEPT ![w] = j]
  <2> DEFINE sent == Tail(job[w].send)
  <2>1. job' = [job EXCEPT ![w].send = sent]
    BY DEF Parse!SendPoint
  <2> HIDE DEF sent
  <2>2. [job[w] EXCEPT !.send = sent] = [obj |-> None, members |-> <<>>, send |-> sent]
    BY ONLY <1>1, JobExcept
  <2> QED BY ONLY <2>1, <2>2, JobTypes, w \in Workers DEF JobTypes, sent
<1> HIDE DEF j
<1>4. JobTypes' /\ job'[w] = j /\ \A v \in Workers \ {w} : job'[v] = job[v]
  BY ONLY <1>2, <1>3, NewJob, JobTypes, w \in Workers
<1> QED BY <1>1, <1>4 DEF Becomes, j

LEMMA ParseStepTypes ==
  ASSUME ParseTypes, Parse!Run \/ Parse!Fault
  PROVE  ParseTypes'
<1> USE DEF ParseTypes
<1> DEFINE FillSame == FillTypes /\ UNCHANGED Parse!fillVars
           ReadSame == ReadTypes /\ UNCHANGED Parse!readVars
           IndexSame == IndexTypes /\ UNCHANGED <<parsedWays, parsedRelations>>
           ZoneSame == ZoneTypes /\ UNCHANGED Parse!zoneVars
           PointSame == ChanTypes /\ UNCHANGED points
           FlagSame == FlagTypes /\ UNCHANGED <<pointsClosed, parsingDone, readFailed>>
<1>1. /\ FillSame => FillTypes'
      /\ ReadSame => ReadTypes'
      /\ JobTypes /\ UNCHANGED job => JobTypes'
      /\ IndexSame => IndexTypes'
      /\ ZoneSame => ZoneTypes'
      /\ PointSame => ChanTypes'
      /\ FlagSame => FlagTypes'
  BY DEF FillTypes, ReadTypes, JobTypes, IndexTypes, ZoneTypes, ChanTypes, FlagTypes,
         Parse!fillVars, Parse!readVars, Parse!zoneVars
<1>2. CASE Parse!FillNext
  <2>1. FillTypes'
    <3>1. /\ filled \in Nat /\ filled < Len(Input[RelationSource]) /\ filled' = filled + 1
          /\ caching' = caching \union {Input[RelationSource][filled + 1]} /\ cached' = cached
          /\ caching \subseteq Relations /\ cached \subseteq Relations
      BY <1>2 DEF Parse!FillNext, FillTypes
    <3>2. filled + 1 \in 1..Len(Input[RelationSource])
      BY <3>1, InputTypes
    <3>3. Input[RelationSource][filled + 1] \in Relations
      BY <3>2, InputTypes
    <3> QED BY ONLY <3>1, <3>2, <3>3 DEF FillTypes
  <2> QED BY <1>1, <1>2, <2>1 DEF Parse!FillNext, Parse!readVars, Parse!parseVars, Parse!zoneVars,
                 Parse!chanVars
<1>3. ASSUME NEW r \in Relations, Parse!CacheRel(r)
      PROVE  ParseTypes'
  <2>1. FillTypes'
    BY <1>3 DEF Parse!CacheRel, FillTypes
  <2> QED BY <1>1, <1>3, <2>1 DEF Parse!CacheRel, Parse!readVars, Parse!parseVars, Parse!zoneVars,
                 Parse!chanVars
<1>4. CASE Parse!FillDone \/ Parse!FillAbort \/ Parse!FillFail
  <2>1. stage' \in Stages /\ FlagTypes'
    BY <1>4 DEF Parse!FillDone, Parse!FillAbort, Parse!FillFail, Stages, FlagTypes, Parse!chanVars
  <2> QED BY <1>1, <1>4, <2>1 DEF Parse!FillDone, Parse!FillAbort, Parse!FillFail, Parse!parseVars,
                 Parse!chanVars
<1>5. ASSUME NEW s \in Sources, Parse!Yield(s) \/ Parse!YieldError(s)
      PROVE  ParseTypes'
  <2>1. /\ read[s] \in Nat /\ read[s] < Len(Input[s]) /\ Len(Input[s]) \in Nat
        /\ Len(out) < Cardinality(Sources) /\ Cardinality(Sources) \in Nat
        /\ out \in Seq(Objects \union {Err})
    BY <1>5, InputTypes, InputAssumption, FS_CardinalityType, SameCardinality
       DEF Parse!Yield, Parse!YieldError, ReadTypes
  <2>2. \E x \in Objects \union {Err} : out' = Append(out, x)
    <3>1. read[s] + 1 \in 1..Len(Input[s])
      BY <2>1
    <3>2. Input[s][read[s] + 1] \in Objects
      BY <3>1, InputTypes
    <3> QED BY <1>5, <3>2 DEF Parse!Yield, Parse!YieldError
  <2>3. out' \in Seq(Objects \union {Err}) /\ Len(out') <= Cardinality(Sources)
    BY ONLY <2>1, <2>2
  <2>4. \E k \in 0..Len(Input[s]) : read' = [read EXCEPT ![s] = k]
    <3>1. read[s] + 1 \in 0..Len(Input[s]) /\ Len(Input[s]) \in 0..Len(Input[s])
      BY <2>1
    <3> QED BY <1>5, <3>1 DEF Parse!Yield, Parse!YieldError
  <2>5. read' \in [Sources -> Nat] /\ \A t \in Sources : read'[t] <= Len(Input[t])
    BY ONLY <2>1, <2>4, ReadTypes DEF ReadTypes
  <2>6. ReadTypes'
    BY ONLY <2>3, <2>5 DEF ReadTypes
  <2>7. FlagTypes'
    BY <1>5 DEF Parse!Yield, Parse!YieldError, FlagTypes, Parse!chanVars
  <2> QED BY <1>1, <1>5, <2>6, <2>7 DEF Parse!Yield, Parse!YieldError, Parse!parseVars, Parse!chanVars
<1>6. ASSUME out # <<>>, out' = Tail(out), UNCHANGED read
      PROVE  ReadTypes'
  BY <1>6, HeadOfOut DEF ReadTypes
<1>7. ASSUME NEW w \in Workers, Parse!Submit(w)
      PROVE  ParseTypes'
  <2>1. JobTypes'
    BY <1>7, SubmitJob DEF Becomes
  <2>2. ReadTypes'
    BY <1>6, <1>7 DEF Parse!Submit
  <2> QED BY <1>1, <1>7, <2>1, <2>2 DEF Parse!Submit, Parse!chanVars
<1>8. CASE Parse!ParseAbort
  <2>1. ReadTypes'
    BY <1>6, <1>8 DEF Parse!ParseAbort
  <2> QED BY <1>1, <1>8, <2>1 DEF Parse!ParseAbort, Parse!parseVars, Parse!chanVars, Stages
<1>9. ASSUME NEW w \in Workers, Parse!ParseNode(w)
      PROVE  ParseTypes'
  <2>1. JobTypes'
    BY <1>9, NodeJob DEF Becomes
  <2> QED BY <1>1, <1>9, <2>1 DEF Parse!ParseNode, Parse!chanVars
<1>10. ASSUME NEW w \in Workers, Parse!ParseWay(w)
      PROVE  ParseTypes'
  <2>1. JobTypes' /\ job[w].obj \in Ways
    BY <1>10, WayJob DEF Becomes
  <2>2. IndexTypes'
    BY <1>10, <2>1 DEF Parse!ParseWay, IndexTypes
  <2> QED BY <1>1, <1>10, <2>1, <2>2 DEF Parse!ParseWay, Parse!chanVars
<1>11. ASSUME NEW w \in Workers, Parse!ParseRelation(w)
       PROVE  ParseTypes'
  <2>1. JobTypes' /\ job[w].obj \in Relations
    BY <1>11, RelationJob DEF Becomes
  <2>2. IndexTypes'
    BY <1>11, <2>1 DEF Parse!ParseRelation, IndexTypes
  <2>3. ZoneTypes'
    BY <1>11, <2>1 DEF Parse!ParseRelation, Parse!WithZone, ZoneTypes
  <2> QED BY <1>1, <1>11, <2>1, <2>2, <2>3 DEF Parse!ParseRelation, Parse!chanVars
<1>12. ASSUME NEW w \in Workers, Parse!ParseMember(w)
       PROVE  ParseTypes'
  <2>1. JobTypes' /\ Head(job[w].members) \in Ways
    BY <1>12, MemberJob DEF Becomes
  <2>2. IndexTypes'
    BY <1>12, <2>1 DEF Parse!ParseMember, IndexTypes
  <2> QED BY <1>1, <1>12, <2>1, <2>2 DEF Parse!ParseMember, Parse!chanVars
<1>13. ASSUME NEW w \in Workers, Parse!SendPoint(w)
       PROVE  ParseTypes'
  <2>1. JobTypes' /\ job[w].send # <<>> /\ job[w].send \in Seq(AllPoints)
    BY <1>13, SendJob DEF Becomes
  <2>2. ChanTypes'
    <3>1. Head(job[w].send) \in AllPoints
      BY <2>1
    <3>2. /\ points' = Append(points, Head(job[w].send)) /\ Len(points) < PointCap
          /\ points \in Seq(AllPoints) /\ PointCap \in Nat
      BY <1>13, InputAssumption DEF Parse!SendPoint, ChanTypes
    <3> QED BY ONLY <3>1, <3>2 DEF ChanTypes
  <2> QED BY <1>1, <1>13, <2>1, <2>2 DEF Parse!SendPoint
<1>14. CASE Parse!ParseDone \/ Parse!CloseParsingDone
  <2>1. stage' \in Stages /\ FlagTypes'
    BY <1>14 DEF Parse!ParseDone, Parse!CloseParsingDone, Stages, FlagTypes
  <2> QED BY <1>1, <1>14, <2>1 DEF Parse!ParseDone, Parse!CloseParsingDone, Parse!parseVars
<1> QED
  BY <1>2, <1>3, <1>4, <1>5, <1>7, <1>8, <1>9, <1>10, <1>11, <1>12, <1>13, <1>14
     DEF Parse!Run, Parse!Fault, Parse!Work

\* Whoever has something to do has it between the phases of caching and closing.
LEMMA WorkingStage ==
  ASSUME ParseTypes, StageInv, NEW w \in Workers, job[w] # Parse!Idle
  PROVE  stage \in {"parse", "parseFailed"}
BY DEF ParseTypes, Stages, StageInv, Resting

LEMMA WorkerIsBusy ==
  ASSUME ParseTypes, StageInv, NEW w \in Workers,
         \/ Parse!ParseNode(w)
         \/ Parse!ParseWay(w)
         \/ Parse!ParseRelation(w)
         \/ Parse!ParseMember(w)
         \/ Parse!SendPoint(w)
  PROVE  stage \in {"parse", "parseFailed"} /\ UNCHANGED <<stage, pointsClosed, parsingDone, Parse!readVars>>
<1>1. UNCHANGED <<stage, pointsClosed, parsingDone, Parse!readVars>>
  BY DEF Parse!ParseNode, Parse!ParseWay, Parse!ParseRelation, Parse!ParseMember, Parse!SendPoint,
         Parse!chanVars
<1>2. job[w].obj \in Objects \/ job[w].members # <<>> \/ job[w].send # <<>>
  BY DEF Parse!ParseNode, Parse!ParseWay, Parse!ParseRelation, Parse!ParseMember, Parse!SendPoint,
         Objects
<1>3. job[w] # Parse!Idle
  BY <1>2, IdleJob, InputAssumption
<1> QED BY <1>1, <1>3, WorkingStage

LEMMA ParseStepStages ==
  ASSUME ParseTypes, StageInv, Parse!Run \/ Parse!Fault
  PROVE  StageInv'
<1>1. CASE Parse!FillNext \/ (\E r \in Relations : Parse!CacheRel(r)) \/ Parse!FillAbort \/ Parse!FillFail
  BY <1>1 DEF StageInv, Resting, ReadAll, Parse!FillNext, Parse!CacheRel, Parse!FillAbort,
              Parse!FillFail, Parse!readVars, Parse!parseVars, Parse!chanVars
<1>2. CASE Parse!FillDone \/ Parse!ParseAbort
  BY <1>2 DEF StageInv, Parse!FillDone, Parse!ParseAbort, Parse!chanVars
<1>3. ASSUME NEW s \in Sources, Parse!Yield(s) \/ Parse!YieldError(s)
      PROVE  StageInv'
  BY <1>3 DEF StageInv, Parse!Yield, Parse!YieldError, Parse!Reading, Parse!chanVars
<1>4. ASSUME NEW w \in Workers, Parse!Submit(w)
      PROVE  StageInv'
  BY <1>4 DEF StageInv, Parse!Submit, Parse!chanVars
<1>5. ASSUME NEW w \in Workers,
             \/ Parse!ParseNode(w)
             \/ Parse!ParseWay(w)
             \/ Parse!ParseRelation(w)
             \/ Parse!ParseMember(w)
             \/ Parse!SendPoint(w)
      PROVE  StageInv'
  <2>1. stage \in {"parse", "parseFailed"} /\ UNCHANGED <<stage, pointsClosed, parsingDone, Parse!readVars>>
    BY ONLY <1>5, WorkerIsBusy, ParseTypes, StageInv
  <2> QED BY ONLY <2>1, StageInv DEF StageInv
<1>6. CASE Parse!ParseDone \/ Parse!CloseParsingDone
  BY <1>6 DEF StageInv, Resting, ReadAll, Parse!ParseDone, Parse!CloseParsingDone, Parse!readVars,
              Parse!parseVars
<1> QED
  BY <1>1, <1>2, <1>3, <1>4, <1>5, <1>6 DEF Parse!Run, Parse!Fault, Parse!Work

LEMMA ParseStepSaveTypes ==
  ASSUME ParseTypes, SaveTypes, Parse!Run \/ Parse!Fault, UNCHANGED saveVars
  PROVE  SaveTypes'
<1>1. zonesRead \in 0..Len(Zones)'
  <2>1. Len(regions) <= Len(regions') /\ Len(countries) <= Len(countries')
    <3>1. CASE UNCHANGED <<regions, countries>>
      BY <3>1 DEF ParseTypes, ZoneTypes
    <3>2. ASSUME NEW w \in Workers, Parse!ParseRelation(w)
          PROVE  Len(regions) <= Len(regions') /\ Len(countries) <= Len(countries')
      <4>1. job[w].obj \in Relations
        BY <3>2 DEF Parse!ParseRelation
      <4> QED BY <3>2, <4>1 DEF Parse!ParseRelation, Parse!WithZone, ParseTypes, ZoneTypes
    <3> QED
      BY <3>1, <3>2 DEF Parse!Run, Parse!Fault, Parse!Work, Parse!FillNext, Parse!CacheRel, Parse!FillDone,
         Parse!FillAbort, Parse!FillFail, Parse!Yield, Parse!YieldError, Parse!Submit, Parse!ParseAbort,
         Parse!ParseNode, Parse!ParseWay, Parse!ParseMember, Parse!SendPoint, Parse!ParseDone,
         Parse!CloseParsingDone, Parse!zoneVars
  <2>2. ZoneTypes /\ ZoneTypes'
    BY ParseStepTypes DEF ParseTypes
  <2>3. Len(Zones) = Len(regions) + Len(countries) /\ Len(Zones)' = Len(regions') + Len(countries')
    BY <2>2 DEF Zones, SaveW!Zones, ZoneTypes
  <2> QED BY <2>1, <2>2, <2>3 DEF SaveTypes, ZoneTypes
<1> QED BY <1>1 DEF SaveTypes, TeeTypes, saveVars

-----------------------------------------------------------------------------
(* What the steps of the saving half do to the Tees and what they gave.    *)

LEMMA NoneIsNoItem == None \notin AllPoints /\ None \notin Relations
BY PointAssumption, InputAssumption DEF Objects

LEMMA SentIsGiven == \A o \in Outputs : Sent(o) = Given(gotPoints[o], pointsTee, o) \o points
BY DEF Sent, Given, Held

LEMMA SentType ==
  ASSUME ParseTypes, SaveTypes, NEW o \in Outputs
  PROVE  /\ Given(gotPoints[o], pointsTee, o) \in Seq(AllPoints)
         /\ points \in Seq(AllPoints)
         /\ Sent(o) \in Seq(AllPoints)
<1>1. Given(gotPoints[o], pointsTee, o) \in Seq(AllPoints)
  BY GivenType DEF SaveTypes
<1>2. points \in Seq(AllPoints)
  BY DEF ParseTypes, ChanTypes
<1>3. Sent(o) = Given(gotPoints[o], pointsTee, o) \o points
  BY SentIsGiven
<1> QED BY ONLY <1>1, <1>2, <1>3

LEMMA TeePointStep ==
  ASSUME ParseTypes, SaveTypes, SaveW!TeePoint
  PROVE  /\ TeeTypes(pointsTee, AllPoints)' /\ ChanTypes'
         /\ pointsTee'.chs = pointsTee.chs /\ pointsTee'.closed = pointsTee.closed
         /\ \A o \in Outputs : Sent(o)' = Sent(o)
<1>1. /\ points \in Seq(AllPoints) /\ points # <<>> /\ points' = Tail(points)
      /\ Len(points) <= PointCap /\ UNCHANGED gotPoints
      /\ TeeTypes(pointsTee, AllPoints)
      /\ pointsTee.hold = None /\ ~pointsTee.closed
      /\ pointsTee' = Taken(pointsTee, Head(points))
  BY DEF Taken, ParseTypes, SaveTypes, ChanTypes, SaveW!TeePoint, SaveW!PointsTee!Take, SaveW!PointsTee!Idle
<1>2. Head(points) \in AllPoints /\ Tail(points) \in Seq(AllPoints) /\ Len(Tail(points)) <= PointCap
  BY ONLY <1>1, InputAssumption
<1>3. ChanTypes'
  BY ONLY <1>1, <1>2 DEF ChanTypes
<1>4. /\ TeeTypes(pointsTee', AllPoints)
      /\ pointsTee'.chs = pointsTee.chs /\ pointsTee'.closed = pointsTee.closed
      /\ \A o \in Outputs : \A got \in Seq(AllPoints) :
           Given(got, pointsTee', o) = Append(Given(got, pointsTee, o), Head(points))
  BY ONLY <1>1, <1>2, NoneIsNoItem, TakeGives
<1>5. TeeTypes(pointsTee, AllPoints)'
  BY ONLY <1>4 DEF TeeTypes
<1>6. ASSUME NEW o \in Outputs
      PROVE  Sent(o)' = Sent(o)
  <2>1. gotPoints[o] \in Seq(AllPoints)
    BY DEF SaveTypes
  <2> DEFINE given == Given(gotPoints[o], pointsTee, o)
  <2>2. Given(gotPoints[o], pointsTee', o) = Append(given, Head(points))
    BY ONLY <1>4, <2>1, o \in Outputs
  <2>3. given \in Seq(AllPoints) /\ Sent(o) = given \o points
    BY SentType, SentIsGiven
  <2>4. Sent(o)' = Append(given, Head(points)) \o Tail(points)
    <3>1. Sent(o)' = Given(gotPoints[o], pointsTee', o) \o points'
      BY <1>1 DEF Sent, Given, Held
    <3> QED BY ONLY <1>1, <2>2, <3>1
  <2> HIDE DEF given
  <2> QED BY ONLY <1>1, <2>3, <2>4, MoveOn
<1> QED BY ONLY <1>3, <1>4, <1>5, <1>6

LEMMA CloseGivesNothing ==
  ASSUME NEW Items, NEW tee, TeeTypes(tee, Items), tee.hold = None,
         NEW new, new = Closed(tee)
  PROVE  /\ TeeTypes(new, Items)
         /\ new.closed /\ new.chs = tee.chs /\ new.hold = None
         /\ \A o \in Outputs : \A got \in Seq(Items) : Given(got, new, o) = Given(got, tee, o)
<1>1. new = [hold |-> None, next |-> tee.next, chs |-> tee.chs, closed |-> TRUE]
  BY DEF TeeTypes, Closed
<1>2. TeeTypes(new, Items)
  BY <1>1 DEF TeeTypes
<1>3. new.closed /\ new.chs = tee.chs /\ new.hold = None
  BY ONLY <1>1
<1>4. \A o \in Outputs : Held(new, o) = Held(tee, o)
  BY ONLY <1>3, tee.hold = None DEF Held
<1> QED BY ONLY <1>2, <1>3, <1>4 DEF Given

LEMMA TeePointsStep ==
  ASSUME ParseTypes, SaveTypes, SaveW!TeePoints
  PROVE  /\ TeeTypes(pointsTee, AllPoints)'
         /\ ~pointsTee.closed
         /\ pointsTee'.closed => pointsClosed /\ points = <<>>
         /\ \A o \in Outputs : Sent(o)' = Sent(o)
<1>1. /\ TeeTypes(pointsTee, AllPoints) /\ gotPoints \in [Outputs -> Seq(AllPoints)]
      /\ UNCHANGED <<gotPoints, points>>
  BY DEF SaveTypes, SaveW!TeePoints, SaveW!chanVars
<1>2. /\ TeeTypes(pointsTee', AllPoints)
      /\ ~pointsTee.closed
      /\ pointsTee'.closed => pointsClosed /\ points = <<>>
      /\ \A o \in Outputs : \A got \in Seq(AllPoints) :
           Given(got, pointsTee', o) = Given(got, pointsTee, o)
  <2>1. CASE SaveW!PointsTee!Push
    <3>1. /\ pointsTee.hold # None /\ Len(pointsTee.chs[pointsTee.next]) < 1
          /\ pointsTee' = Pushed(pointsTee)
      BY <2>1 DEF SaveW!PointsTee!Push, Pushed
    <3>2. ~pointsTee.closed
      BY ONLY <1>1, <3>1 DEF TeeTypes
    <3> QED BY ONLY <1>1, <3>1, <3>2, NoneIsNoItem, PushGivesNothing
  <2>2. CASE points = <<>> /\ pointsClosed /\ SaveW!PointsTee!Close
    <3>1. pointsTee.hold = None /\ ~pointsTee.closed /\ pointsTee' = Closed(pointsTee)
      BY <2>2 DEF SaveW!PointsTee!Close, SaveW!PointsTee!Idle, Closed
    <3> QED BY ONLY <1>1, <2>2, <3>1, CloseGivesNothing
  <2> QED BY <2>1, <2>2 DEF SaveW!TeePoints
<1>3. TeeTypes(pointsTee, AllPoints)'
  BY ONLY <1>2 DEF TeeTypes
<1>4. ASSUME NEW o \in Outputs
      PROVE  Sent(o)' = Sent(o)
  <2>1. Given(gotPoints[o], pointsTee', o) = Given(gotPoints[o], pointsTee, o)
    BY ONLY <1>1, <1>2, o \in Outputs
  <2>2. Sent(o)' = Given(gotPoints[o], pointsTee', o) \o points
    BY <1>1 DEF Sent, Given, Held
  <2> QED BY ONLY <2>1, <2>2, SentIsGiven, o \in Outputs
<1> QED BY ONLY <1>2, <1>3, <1>4

LEMMA CollectPointStep ==
  ASSUME ParseTypes, SaveTypes, NEW i \in Outputs, SaveW!CollectPoint(i)
  PROVE  /\ TeeTypes(pointsTee, AllPoints)'
         /\ gotPoints' \in [Outputs -> Seq(AllPoints)]
         /\ pointsTee'.closed = pointsTee.closed
         /\ \A o \in Outputs \ {i} : pointsTee'.chs[o] = pointsTee.chs[o]
         /\ \A o \in Outputs : Sent(o)' = Sent(o)
<1>1. /\ TeeTypes(pointsTee, AllPoints) /\ gotPoints \in [Outputs -> Seq(AllPoints)]
      /\ pointsTee.chs[i] # <<>> /\ pointsTee' = Drained(pointsTee, i)
      /\ gotPoints' = [gotPoints EXCEPT ![i] = Append(@, Head(pointsTee.chs[i]))]
      /\ UNCHANGED points
  BY DEF SaveTypes, SaveW!CollectPoint, SaveW!PointsTee!Receive, SaveW!PointsTee!CanReceive,
         SaveW!PointsTee!Received, SaveW!chanVars, Drained
<1>2. /\ TeeTypes(pointsTee', AllPoints)
      /\ pointsTee'.closed = pointsTee.closed
      /\ \A o \in Outputs \ {i} : pointsTee'.chs[o] = pointsTee.chs[o]
      /\ Head(pointsTee.chs[i]) \in AllPoints
      /\ \A o \in Outputs : \A got \in Seq(AllPoints) :
           o # i => Given(got, pointsTee', o) = Given(got, pointsTee, o)
      /\ \A got \in Seq(AllPoints) :
           Given(Append(got, Head(pointsTee.chs[i])), pointsTee', i) = Given(got, pointsTee, i)
  BY ONLY <1>1, i \in Outputs, ReceiveGivesNothing
<1>3. TeeTypes(pointsTee, AllPoints)'
  BY ONLY <1>2 DEF TeeTypes
<1>4. /\ gotPoints' \in [Outputs -> Seq(AllPoints)]
      /\ gotPoints'[i] = Append(gotPoints[i], Head(pointsTee.chs[i]))
      /\ \A o \in Outputs \ {i} : gotPoints'[o] = gotPoints[o]
  BY ONLY <1>1, <1>2, i \in Outputs
<1>5. ASSUME NEW o \in Outputs
      PROVE  Sent(o)' = Sent(o)
  <2>1. Given(gotPoints'[o], pointsTee', o) = Given(gotPoints[o], pointsTee, o)
    <3>1. CASE o = i
      BY ONLY <1>1, <1>2, <1>4, <3>1, i \in Outputs
    <3>2. CASE o # i
      BY ONLY <1>1, <1>2, <1>4, <3>2, o \in Outputs
    <3> QED BY ONLY <3>1, <3>2
  <2>2. Sent(o)' = Given(gotPoints'[o], pointsTee', o) \o points
    BY <1>1 DEF Sent, Given, Held
  <2> QED BY ONLY <2>1, <2>2, SentIsGiven, o \in Outputs
<1> QED BY ONLY <1>2, <1>3, <1>4, <1>5

LEMMA ZonesType ==
  ASSUME ParseTypes
  PROVE  Zones \in Seq(Relations) /\ Zones = regions \o countries
BY DEF ParseTypes, ZoneTypes, Zones, SaveW!Zones

LEMMA TeeZonesStep ==
  ASSUME ParseTypes, SaveTypes, ZonesGiven, SaveW!TeeZones
  PROVE  /\ TeeTypes(zonesTee, Relations)'
         /\ zonesRead' \in 0..Len(Zones)
         /\ ~zonesTee.closed
         /\ zonesRead' # zonesRead => parsingDone
         /\ zonesTee'.closed => parsingDone /\ zonesRead' = Len(Zones)
         /\ ZonesGiven'
<1>1. /\ TeeTypes(zonesTee, Relations) /\ gotZones \in [Outputs -> Seq(Relations)]
      /\ UNCHANGED <<gotZones, regions, countries>> /\ Zones' = Zones
      /\ zonesRead \in 0..Len(Zones)
  BY DEF SaveTypes, SaveW!TeeZones, SaveW!zoneVars, Zones, SaveW!Zones
<1>2. Zones \in Seq(Relations)
  BY ZonesType
<1>3. ASSUME NEW x, NEW n, \A o \in Outputs : \A got \in Seq(Relations) :
                             Given(got, zonesTee', o) = Given(got, zonesTee, o) \o x,
             zonesRead' = n, SubSeq(Zones, 1, n) = SubSeq(Zones, 1, zonesRead) \o x
      PROVE  ZonesGiven'
  <2>1. ASSUME NEW o \in Outputs
        PROVE  Given(gotZones[o], zonesTee', o) = SubSeq(Zones, 1, zonesRead')
    <3>1. gotZones[o] \in Seq(Relations)
      BY ONLY <1>1, o \in Outputs
    <3>2. Given(gotZones[o], zonesTee, o) = SubSeq(Zones, 1, zonesRead)
      BY DEF ZonesGiven
    <3> QED BY ONLY <1>3, <3>1, <3>2, o \in Outputs
  <2> QED BY ONLY <1>1, <2>1 DEF ZonesGiven, Given, Held
<1>4. \A n \in 0..Len(Zones) : SubSeq(Zones, 1, n) = SubSeq(Zones, 1, n) \o <<>>
  BY ONLY <1>2
<1>5. CASE /\ parsingDone /\ zonesRead < Len(Zones)
           /\ SaveW!ZonesTee!Take(Zones[zonesRead + 1])
           /\ zonesRead' = zonesRead + 1
  <2> DEFINE z == Zones[zonesRead + 1]
  <2>1. /\ zonesTee.hold = None /\ ~zonesTee.closed /\ zonesTee' = Taken(zonesTee, z)
        /\ zonesRead' = zonesRead + 1
    BY <1>5 DEF SaveW!ZonesTee!Take, SaveW!ZonesTee!Idle, Taken
  <2>2. /\ z \in Relations /\ zonesRead + 1 \in 0..Len(Zones)
        /\ SubSeq(Zones, 1, zonesRead + 1) = SubSeq(Zones, 1, zonesRead) \o <<z>>
    <3>1. zonesRead \in Nat /\ Len(Zones) \in Nat /\ 1 \in 1..Len(Zones) /\ zonesRead + 1 \in 1..Len(Zones)
      BY <1>1, <1>2, <1>5
    <3>2. z \in Relations
      BY ONLY <1>2, <3>1
    <3>3. SubSeq(Zones, 1, zonesRead + 1) = SubSeq(Zones, 1, zonesRead + 1 - 1) \o <<z>>
      BY ONLY <1>2, <3>1, SubSeqRecursiveSecond
    <3>4. zonesRead + 1 - 1 = zonesRead
      BY ONLY <3>1
    <3> QED BY ONLY <3>1, <3>2, <3>3, <3>4
  <2> HIDE DEF z
  <2>3. /\ TeeTypes(zonesTee', Relations) /\ zonesTee'.closed = zonesTee.closed
        /\ \A o \in Outputs : \A got \in Seq(Relations) :
             Given(got, zonesTee', o) = Append(Given(got, zonesTee, o), z)
    BY ONLY <1>1, <2>1, <2>2, NoneIsNoItem, TakeGives
  <2>4. \A o \in Outputs : \A got \in Seq(Relations) :
          Given(got, zonesTee', o) = Given(got, zonesTee, o) \o <<z>>
    BY ONLY <1>1, <2>2, <2>3, GivenType, AppendIsConcat
  <2>5. ZonesGiven'
    BY ONLY <1>3, <2>1, <2>2, <2>4
  <2>6. TeeTypes(zonesTee, Relations)'
    BY ONLY <2>3 DEF TeeTypes
  <2> QED BY ONLY <1>5, <2>1, <2>2, <2>3, <2>5, <2>6
<1>6. CASE SaveW!ZonesTee!Push /\ UNCHANGED zonesRead
  <2>1. /\ zonesTee.hold # None /\ Len(zonesTee.chs[zonesTee.next]) < 1
        /\ zonesTee' = Pushed(zonesTee) /\ zonesRead' = zonesRead
    BY <1>6 DEF SaveW!ZonesTee!Push, Pushed
  <2>2. ~zonesTee.closed
    BY ONLY <1>1, <2>1 DEF TeeTypes
  <2>3. /\ TeeTypes(zonesTee', Relations) /\ zonesTee'.closed = zonesTee.closed
        /\ \A o \in Outputs : \A got \in Seq(Relations) :
             Given(got, zonesTee', o) = Given(got, zonesTee, o)
    BY ONLY <1>1, <2>1, NoneIsNoItem, PushGivesNothing
  <2>4. \A o \in Outputs : \A got \in Seq(Relations) :
          Given(got, zonesTee', o) = Given(got, zonesTee, o) \o <<>>
    BY ONLY <1>1, <2>3, GivenType, ConcatEmptySeq
  <2>5. ZonesGiven'
    BY ONLY <1>1, <1>3, <1>4, <2>1, <2>4
  <2>6. TeeTypes(zonesTee, Relations)'
    BY ONLY <2>3 DEF TeeTypes
  <2> QED BY ONLY <1>1, <2>1, <2>2, <2>3, <2>5, <2>6
<1>7. CASE parsingDone /\ zonesRead = Len(Zones) /\ SaveW!ZonesTee!Close /\ UNCHANGED zonesRead
  <2>1. zonesTee.hold = None /\ ~zonesTee.closed /\ zonesTee' = Closed(zonesTee) /\ zonesRead' = zonesRead
    BY <1>7 DEF SaveW!ZonesTee!Close, SaveW!ZonesTee!Idle, Closed
  <2>2. /\ TeeTypes(zonesTee', Relations)
        /\ \A o \in Outputs : \A got \in Seq(Relations) :
             Given(got, zonesTee', o) = Given(got, zonesTee, o)
    BY ONLY <1>1, <2>1, CloseGivesNothing
  <2>3. \A o \in Outputs : \A got \in Seq(Relations) :
          Given(got, zonesTee', o) = Given(got, zonesTee, o) \o <<>>
    BY ONLY <1>1, <2>2, GivenType, ConcatEmptySeq
  <2>4. ZonesGiven'
    BY ONLY <1>1, <1>3, <1>4, <2>1, <2>3
  <2>5. TeeTypes(zonesTee, Relations)'
    BY ONLY <2>2 DEF TeeTypes
  <2> QED BY ONLY <1>1, <1>7, <2>1, <2>2, <2>4, <2>5
<1> QED BY <1>5, <1>6, <1>7 DEF SaveW!TeeZones, Zones

LEMMA CollectZoneStep ==
  ASSUME ParseTypes, SaveTypes, ZonesGiven, NEW i \in Outputs, SaveW!CollectZone(i)
  PROVE  /\ TeeTypes(zonesTee, Relations)'
         /\ gotZones' \in [Outputs -> Seq(Relations)]
         /\ zonesTee'.closed = zonesTee.closed
         /\ \A o \in Outputs \ {i} : zonesTee'.chs[o] = zonesTee.chs[o]
         /\ ZonesGiven'
<1>1. /\ TeeTypes(zonesTee, Relations) /\ gotZones \in [Outputs -> Seq(Relations)]
      /\ zonesTee.chs[i] # <<>> /\ zonesTee' = Drained(zonesTee, i)
      /\ gotZones' = [gotZones EXCEPT ![i] = Append(@, Head(zonesTee.chs[i]))]
      /\ zonesRead' = zonesRead /\ Zones' = Zones
  BY DEF SaveTypes, SaveW!CollectZone, SaveW!ZonesTee!Receive, SaveW!ZonesTee!CanReceive,
         SaveW!ZonesTee!Received, SaveW!zoneVars, Drained, Zones, SaveW!Zones
<1>2. /\ TeeTypes(zonesTee', Relations)
      /\ zonesTee'.closed = zonesTee.closed
      /\ \A o \in Outputs \ {i} : zonesTee'.chs[o] = zonesTee.chs[o]
      /\ Head(zonesTee.chs[i]) \in Relations
      /\ \A o \in Outputs : \A got \in Seq(Relations) :
           o # i => Given(got, zonesTee', o) = Given(got, zonesTee, o)
      /\ \A got \in Seq(Relations) :
           Given(Append(got, Head(zonesTee.chs[i])), zonesTee', i) = Given(got, zonesTee, i)
  BY ONLY <1>1, i \in Outputs, ReceiveGivesNothing
<1>3. TeeTypes(zonesTee, Relations)'
  BY ONLY <1>2 DEF TeeTypes
<1>4. /\ gotZones' \in [Outputs -> Seq(Relations)]
      /\ gotZones'[i] = Append(gotZones[i], Head(zonesTee.chs[i]))
      /\ \A o \in Outputs \ {i} : gotZones'[o] = gotZones[o]
  BY ONLY <1>1, <1>2, i \in Outputs
<1>5. ASSUME NEW o \in Outputs
      PROVE  Given(gotZones'[o], zonesTee', o) = SubSeq(Zones, 1, zonesRead)
  <2>1. Given(gotZones'[o], zonesTee', o) = Given(gotZones[o], zonesTee, o)
    <3>1. CASE o = i
      BY ONLY <1>1, <1>2, <1>4, <3>1, i \in Outputs
    <3>2. CASE o # i
      BY ONLY <1>1, <1>2, <1>4, <3>2, o \in Outputs
    <3> QED BY ONLY <3>1, <3>2
  <2> QED BY <2>1 DEF ZonesGiven
<1>6. ZonesGiven'
  BY ONLY <1>1, <1>5 DEF ZonesGiven, Given, Held
<1> QED BY ONLY <1>2, <1>3, <1>4, <1>6

LEMMA SaveStepTypes ==
  ASSUME ParseTypes, SaveTypes, StageInv, ZonesGiven, SaveW!Run \/ SaveW!Fault, UNCHANGED parseVars
  PROVE  ParseTypes' /\ SaveTypes' /\ StageInv' /\ ZonesGiven'
<1>1. /\ UNCHANGED <<stage, Parse!fillVars, Parse!readVars, Parse!parseVars, readFailed>>
      /\ UNCHANGED <<regions, countries, pointsClosed, parsingDone>>
  BY DEF parseVars, Parse!fillVars, Parse!readVars, Parse!parseVars, SaveW!Run, SaveW!Fault, SaveW!Save,
         SaveW!TeePoint, SaveW!TeePoints, SaveW!TeeZones, SaveW!SaveMagic, SaveW!SaveMagicFails,
         SaveW!CollectPoint, SaveW!EndPoints, SaveW!CollectZone, SaveW!EndZones, SaveW!Write,
         SaveW!WriteFails, SaveW!zoneVars, SaveW!chanVars
<1>2. UNCHANGED points \/ SaveW!TeePoint
  BY DEF SaveW!Run, SaveW!Fault, SaveW!Save, SaveW!TeePoints, SaveW!TeeZones, SaveW!SaveMagic,
         SaveW!SaveMagicFails, SaveW!CollectPoint, SaveW!EndPoints, SaveW!CollectZone, SaveW!EndZones,
         SaveW!Write, SaveW!WriteFails, SaveW!chanVars
<1>3. ParseTypes'
  <2>1. ChanTypes'
    BY <1>2, TeePointStep DEF ParseTypes, ChanTypes
  <2> QED BY <1>1, <2>1 DEF ParseTypes, FillTypes, ReadTypes, JobTypes, IndexTypes, ZoneTypes, FlagTypes,
                 Parse!fillVars, Parse!readVars, Parse!parseVars
<1>4. StageInv'
  <2>1. points = <<>> => points' = points
    BY <1>2 DEF SaveW!TeePoint
  <2> QED BY <1>1, <2>1 DEF StageInv, Resting, ReadAll, Parse!readVars, Parse!parseVars
<1>5. Zones' = Zones
  BY <1>1 DEF Zones, SaveW!Zones
<1> DEFINE PointsSame == UNCHANGED <<pointsTee, gotPoints>>
           ZonesSame == UNCHANGED <<zonesTee, zonesRead, gotZones>>
           PointsOK == TeeTypes(pointsTee, AllPoints) /\ gotPoints \in [Outputs -> Seq(AllPoints)]
           ZonesOK == /\ TeeTypes(zonesTee, Relations) /\ gotZones \in [Outputs -> Seq(Relations)]
                      /\ zonesRead \in 0..Len(Zones) /\ ZonesGiven
           SaverOK == /\ saver \in [Outputs -> {"start", "points", "zones", "write", "saved", "failed"}]
                      /\ earlyFailed \subseteq Outputs
<1>6. PointsOK /\ ZonesOK /\ SaverOK
  BY DEF SaveTypes
<1>7. /\ PointsSame => PointsOK'
      /\ ZonesSame => ZonesOK'
      /\ UNCHANGED <<saver, earlyFailed>> => SaverOK'
  BY <1>5, <1>6 DEF TeeTypes, ZonesGiven, Given, Held
<1>8. ASSUME SaveW!TeePoint
      PROVE  PointsOK' /\ ZonesOK' /\ SaverOK'
  BY <1>6, <1>7, <1>8, TeePointStep DEF SaveW!TeePoint
<1>9. ASSUME SaveW!TeePoints
      PROVE  PointsOK' /\ ZonesOK' /\ SaverOK'
  BY <1>6, <1>7, <1>9, TeePointsStep DEF SaveW!TeePoints
<1>10. ASSUME SaveW!TeeZones
      PROVE  PointsOK' /\ ZonesOK' /\ SaverOK'
  BY <1>5, <1>6, <1>7, <1>10, TeeZonesStep DEF SaveW!TeeZones
<1>11. ASSUME NEW o \in Outputs, SaveW!CollectPoint(o)
       PROVE  PointsOK' /\ ZonesOK' /\ SaverOK'
  BY <1>7, <1>11, CollectPointStep DEF SaveW!CollectPoint
<1>12. ASSUME NEW o \in Outputs, SaveW!CollectZone(o)
       PROVE  PointsOK' /\ ZonesOK' /\ SaverOK'
  BY <1>5, <1>6, <1>7, <1>12, CollectZoneStep DEF SaveW!CollectZone
<1>13. ASSUME NEW o \in Outputs,
              \/ SaveW!SaveMagic(o)
              \/ SaveW!SaveMagicFails(o)
              \/ SaveW!EndPoints(o)
              \/ SaveW!EndZones(o)
              \/ SaveW!Write(o)
              \/ SaveW!WriteFails(o)
       PROVE  PointsOK' /\ ZonesOK' /\ SaverOK'
  <2>1. PointsSame /\ ZonesSame
    BY <1>13 DEF SaveW!SaveMagic, SaveW!SaveMagicFails, SaveW!EndPoints, SaveW!EndZones, SaveW!Write,
                 SaveW!WriteFails
  <2>2. SaverOK'
    BY <1>6, <1>13 DEF SaveW!SaveMagic, SaveW!SaveMagicFails, SaveW!EndPoints, SaveW!EndZones,
                       SaveW!Write, SaveW!WriteFails, SaveW!Goto
  <2> QED BY <1>7, <2>1, <2>2
<1>14. PointsOK' /\ ZonesOK' /\ SaverOK'
  BY <1>8, <1>9, <1>10, <1>11, <1>12, <1>13
     DEF SaveW!Run, SaveW!Fault, SaveW!Save, SaveW!Outputs, Outputs
<1>15. SaveTypes'
  BY <1>14 DEF SaveTypes
<1> QED BY <1>3, <1>4, <1>14, <1>15

-----------------------------------------------------------------------------
(* How far the savers may be.                                              *)

\* The zones do not change once they may be read, nor do the points that are
\* left once their channel is closed.
LEMMA ParseStepShared ==
  ASSUME ParseTypes, StageInv, Parse!Run \/ Parse!Fault
  PROVE  /\ pointsClosed => pointsClosed' /\ points' = points
         /\ parsingDone => parsingDone' /\ UNCHANGED <<regions, countries>>
<1>1. ASSUME NEW w \in Workers,
             \/ Parse!ParseNode(w)
             \/ Parse!ParseWay(w)
             \/ Parse!ParseRelation(w)
             \/ Parse!ParseMember(w)
             \/ Parse!SendPoint(w)
      PROVE  ~pointsClosed /\ ~parsingDone
  <2>1. stage \in {"parse", "parseFailed"}
    BY ONLY <1>1, WorkerIsBusy, ParseTypes, StageInv
  <2> QED BY ONLY <2>1, StageInv DEF StageInv
<1>2. CASE UNCHANGED <<regions, countries, points>> /\ (pointsClosed => pointsClosed')
                                                   /\ (parsingDone => parsingDone')
  BY <1>2
<1> QED
  BY <1>1, <1>2 DEF Parse!Run, Parse!Fault, Parse!Work, Parse!FillNext, Parse!CacheRel, Parse!FillDone,
     Parse!FillAbort, Parse!FillFail, Parse!Yield, Parse!YieldError, Parse!Submit, Parse!ParseAbort,
     Parse!ParseDone, Parse!CloseParsingDone, Parse!zoneVars, Parse!chanVars

LEMMA ParseStepSave ==
  ASSUME ParseTypes, SaveTypes, StageInv, SaveInv, Parse!Run \/ Parse!Fault, UNCHANGED saveVars
  PROVE  SaveInv'
<1>1. /\ pointsClosed => pointsClosed' /\ points' = points
      /\ parsingDone => parsingDone' /\ UNCHANGED <<regions, countries>>
  BY ParseStepShared
<1>2. UNCHANGED <<pointsTee, zonesTee, zonesRead, saver, gotPoints, gotZones>>
  BY DEF saveVars
<1>3. ZonesGiven'
  <2>1. SubSeq(Zones, 1, zonesRead)' = SubSeq(Zones, 1, zonesRead)
    <3>1. CASE parsingDone
      BY <1>1, <1>2, <3>1 DEF Zones, SaveW!Zones
    <3>2. CASE ~parsingDone
      <4>1. zonesRead = 0 /\ zonesRead' = 0
        BY <1>2, <3>2 DEF SaveInv, SaveTypes
      <4>2. SubSeq(Zones, 1, 0) = <<>> /\ SubSeq(Zones', 1, 0) = <<>>
        BY SubSeqEmpty
      <4> QED BY ONLY <4>1, <4>2
    <3> QED BY <3>1, <3>2
  <2> QED BY <1>2, <2>1 DEF SaveInv, ZonesGiven, Given, Held
<1>4. zonesTee.closed => Zones' = Zones
  BY <1>1 DEF SaveInv, Zones, SaveW!Zones
<1> QED BY <1>1, <1>2, <1>3, <1>4 DEF SaveInv

LEMMA SaveStepSave ==
  ASSUME ParseTypes, SaveTypes, StageInv, SaveInv, SaveW!Run \/ SaveW!Fault, UNCHANGED parseVars
  PROVE  SaveInv'
<1> DEFINE Clear == pointsTee.closed => pointsClosed /\ points = <<>>
           Listed == /\ zonesRead > 0 => parsingDone
                     /\ zonesTee.closed => parsingDone /\ zonesRead = Len(Zones)
           AtZones(o) == saver[o] \in {"zones", "write", "saved"} =>
                           pointsTee.closed /\ pointsTee.chs[o] = <<>>
           AtEnd(o) == saver[o] \in {"write", "saved"} => zonesTee.closed /\ zonesTee.chs[o] = <<>>
<1>1. Clear /\ Listed /\ \A o \in Outputs : AtZones(o) /\ AtEnd(o)
  BY DEF SaveInv
<1>2. ZonesGiven'
  BY SaveStepTypes DEF SaveInv
<1>3. SUFFICES Clear' /\ Listed' /\ \A o \in Outputs : AtZones(o)' /\ AtEnd(o)'
  BY <1>2 DEF SaveInv
<1>4. UNCHANGED <<regions, countries, pointsClosed, parsingDone>> /\ Zones' = Zones
  BY DEF parseVars, SaveW!Run, SaveW!Fault, SaveW!Save,
         SaveW!TeePoint, SaveW!TeePoints, SaveW!TeeZones, SaveW!SaveMagic, SaveW!SaveMagicFails,
         SaveW!CollectPoint, SaveW!EndPoints, SaveW!CollectZone, SaveW!EndZones, SaveW!Write,
         SaveW!WriteFails, SaveW!zoneVars, SaveW!chanVars, Zones, SaveW!Zones
<1>5. CASE SaveW!TeePoint
  <2>1. pointsTee'.chs = pointsTee.chs /\ pointsTee'.closed = pointsTee.closed /\ ~pointsTee.closed
    BY <1>5, TeePointStep DEF SaveW!TeePoint, SaveW!PointsTee!Take, SaveW!PointsTee!Idle
  <2>2. UNCHANGED <<zonesTee, zonesRead, saver>>
    BY <1>5 DEF SaveW!TeePoint
  <2> QED BY ONLY <1>1, <1>4, <2>1, <2>2
<1>6. CASE SaveW!TeePoints
  <2>1. ~pointsTee.closed /\ (pointsTee'.closed => pointsClosed /\ points = <<>>)
    BY <1>6, TeePointsStep
  <2>2. UNCHANGED <<zonesTee, zonesRead, saver, points>>
    BY <1>6 DEF SaveW!TeePoints, SaveW!chanVars
  <2> QED BY ONLY <1>1, <1>4, <2>1, <2>2
<1>7. CASE SaveW!TeeZones
  <2>1. /\ ~zonesTee.closed
        /\ zonesRead' # zonesRead => parsingDone
        /\ zonesTee'.closed => parsingDone /\ zonesRead' = Len(Zones)
    BY <1>7, TeeZonesStep DEF SaveInv
  <2>2. UNCHANGED <<pointsTee, saver, points>>
    BY <1>7 DEF SaveW!TeeZones, SaveW!chanVars
  <2> QED BY ONLY <1>1, <1>4, <2>1, <2>2
<1>8. ASSUME NEW i \in Outputs, SaveW!CollectPoint(i)
      PROVE  Clear' /\ Listed' /\ \A o \in Outputs : AtZones(o)' /\ AtEnd(o)'
  <2>1. /\ pointsTee'.closed = pointsTee.closed
        /\ \A o \in Outputs \ {i} : pointsTee'.chs[o] = pointsTee.chs[o]
    BY <1>8, CollectPointStep
  <2>2. UNCHANGED <<zonesTee, zonesRead, saver, points>> /\ saver[i] = "points"
    BY <1>8 DEF SaveW!CollectPoint, SaveW!chanVars
  <2> QED BY ONLY <1>1, <1>4, <2>1, <2>2
<1>9. ASSUME NEW i \in Outputs, SaveW!CollectZone(i)
      PROVE  Clear' /\ Listed' /\ \A o \in Outputs : AtZones(o)' /\ AtEnd(o)'
  <2>1. /\ zonesTee'.closed = zonesTee.closed
        /\ \A o \in Outputs \ {i} : zonesTee'.chs[o] = zonesTee.chs[o]
    BY <1>9, CollectZoneStep DEF SaveInv
  <2>2. UNCHANGED <<pointsTee, zonesRead, saver, points>> /\ saver[i] = "zones"
    BY <1>9 DEF SaveW!CollectZone, SaveW!chanVars
  <2> QED BY ONLY <1>1, <1>4, <2>1, <2>2
<1>10. ASSUME NEW i \in Outputs,
             \/ SaveW!SaveMagic(i)
             \/ SaveW!SaveMagicFails(i)
             \/ SaveW!EndPoints(i)
             \/ SaveW!EndZones(i)
             \/ SaveW!Write(i)
             \/ SaveW!WriteFails(i)
      PROVE  Clear' /\ Listed' /\ \A o \in Outputs : AtZones(o)' /\ AtEnd(o)'
  <2>1. UNCHANGED <<pointsTee, zonesTee, zonesRead, points>>
    BY <1>10 DEF SaveW!SaveMagic, SaveW!SaveMagicFails, SaveW!EndPoints, SaveW!EndZones, SaveW!Write,
                SaveW!WriteFails, SaveW!chanVars
  <2>2. saver \in [Outputs -> {"start", "points", "zones", "write", "saved", "failed"}]
    BY DEF SaveTypes
  <2>3. \A o \in Outputs \ {i} : saver'[o] = saver[o]
    BY <1>10, <2>2 DEF SaveW!SaveMagic, SaveW!SaveMagicFails, SaveW!EndPoints, SaveW!EndZones, SaveW!Write,
                SaveW!WriteFails, SaveW!Goto
  <2>4. \/ saver'[i] \in {"points", "failed"}
        \/ saver'[i] = "zones" /\ pointsTee.closed /\ pointsTee.chs[i] = <<>>
        \/ saver'[i] = "write" /\ saver[i] = "zones" /\ zonesTee.closed /\ zonesTee.chs[i] = <<>>
        \/ saver'[i] = "saved" /\ saver[i] = "write"
    BY <1>10, <2>2 DEF SaveW!SaveMagic, SaveW!SaveMagicFails, SaveW!EndPoints, SaveW!EndZones, SaveW!Write,
                SaveW!WriteFails, SaveW!Goto, SaveW!PointsTee!Ended, SaveW!ZonesTee!Ended
  <2>5. AtZones(i)' /\ AtEnd(i)'
    BY <1>1, <2>1, <2>4
  <2>6. \A o \in Outputs \ {i} : AtZones(o)' /\ AtEnd(o)'
    BY <1>1, <2>1, <2>3
  <2> QED BY <1>1, <1>4, <2>1, <2>5, <2>6
<1> QED
  BY <1>5, <1>6, <1>7, <1>8, <1>9, <1>10
     DEF SaveW!Run, SaveW!Fault, SaveW!Save, SaveW!Outputs, Outputs

-----------------------------------------------------------------------------
(* The relation cache.                                                     *)

LEMMA CacheStep ==
  ASSUME ParseTypes, CacheInv, Parse!Run \/ Parse!Fault
  PROVE  CacheInv'
<1> DEFINE In == Input[RelationSource]
<1>1. CASE Parse!FillNext
  <2>1. /\ filled \in Nat /\ filled' = filled + 1 /\ caching' = caching \union {In[filled + 1]}
        /\ cached' = cached /\ stage' = stage /\ stage = "fill"
    BY <1>1 DEF Parse!FillNext, ParseTypes, FillTypes
  <2>2. 1..(filled + 1) = (1..filled) \union {filled + 1}
    BY <2>1
  <2> HIDE DEF In
  <2>3. cached \union caching = {In[i] : i \in 1..filled}
    BY DEF CacheInv, In
  <2>4. (cached \union caching)' = {In[i] : i \in 1..filled'}
    BY ONLY <2>1, <2>2, <2>3
  <2> QED BY <2>1, <2>4 DEF CacheInv, In
<1>2. ASSUME NEW r \in Relations, Parse!CacheRel(r)
      PROVE  CacheInv'
  BY <1>2 DEF CacheInv, Parse!CacheRel
<1>3. CASE Parse!FillDone
  BY <1>3 DEF CacheInv, Parse!FillDone, Parse!fillVars
<1>4. CASE /\ UNCHANGED Parse!fillVars
           /\ \/ stage' \in {"fill", "fillFailed", "failed"}
              \/ stage \notin {"fill", "fillFailed", "failed"}
  BY <1>4 DEF CacheInv, Parse!fillVars
<1>5. CASE Parse!FillFail \/ Parse!FillAbort
  BY <1>4, <1>5 DEF Parse!FillFail, Parse!FillAbort
<1>6. ASSUME NEW s \in Sources, Parse!Yield(s) \/ Parse!YieldError(s)
      PROVE  CacheInv'
  BY <1>4, <1>6 DEF Parse!Yield, Parse!YieldError, Parse!Reading
<1>7. ASSUME NEW w \in Workers, Parse!Work(w)
      PROVE  CacheInv'
  BY <1>7 DEF Parse!Work, Parse!Submit, Parse!ParseNode, Parse!ParseWay, Parse!ParseRelation,
              Parse!ParseMember, Parse!SendPoint, CacheInv, Parse!fillVars
<1>8. CASE Parse!ParseAbort \/ Parse!ParseDone \/ Parse!CloseParsingDone
  BY <1>4, <1>8 DEF Parse!ParseAbort, Parse!ParseDone, Parse!CloseParsingDone
<1> QED BY <1>1, <1>2, <1>3, <1>5, <1>6, <1>7, <1>8 DEF Parse!Run, Parse!Fault

-----------------------------------------------------------------------------
(* The flow of points: a goroutine makes those of an object, or sends one  *)
(* on; nothing else changes what is sent or about to be.                   *)

SendsSame(others) == \A v \in others : job'[v].send = job[v].send

Quiet ==
  /\ \A o \in Outputs : Sent(o)' = Sent(o)
  /\ SendsSame(Workers) /\ parsedWays' = parsedWays

Makes(w, obj) ==
  /\ \A o \in Outputs : Sent(o)' = Sent(o)
  /\ job'[w].send = job[w].send \o PointsOf[obj]
  /\ SendsSame(Workers \ {w})
  /\ \/ obj \in Objects \ Ways /\ parsedWays' = parsedWays
     \/ obj \in Ways \ parsedWays /\ parsedWays' = parsedWays \union {obj}

Sends(w) ==
  /\ job[w].send # <<>>
  /\ \A o \in Outputs : Sent(o)' = Append(Sent(o), Head(job[w].send))
  /\ job'[w].send = Tail(job[w].send)
  /\ SendsSame(Workers \ {w}) /\ parsedWays' = parsedWays

LEMMA SentSame ==
  ASSUME UNCHANGED saveVars, points' = points
  PROVE  \A o \in Outputs : Sent(o)' = Sent(o)
BY DEF saveVars, Sent

LEMMA SendType ==
  ASSUME ParseTypes, NEW w \in Workers
  PROVE  job[w].send \in Seq(AllPoints)
BY DEF ParseTypes, JobTypes, Jobs

LEMMA ParseNodeFlow ==
  ASSUME ParseTypes, NEW w \in Workers, Parse!ParseNode(w), UNCHANGED saveVars
  PROVE  Makes(w, job[w].obj)
<1>1. job[w].obj \in Nodes /\ Becomes(w, None, <<>>, PointsOf[job[w].obj])
  BY NodeJob DEF ParseTypes
<1>2. job[w].send = <<>>
  BY <1>1, InputAssumption DEF ParseTypes, JobTypes, Objects
<1>3. job[w].obj \in Objects \ Ways
  BY <1>1, ObjectAssumption DEF Objects
<1>4. PointsOf[job[w].obj] = <<>> \o PointsOf[job[w].obj]
  BY <1>3, PointsTypes, ConcatEmptySeq
<1>5. points' = points /\ parsedWays' = parsedWays
  BY DEF Parse!ParseNode, Parse!chanVars
<1> QED BY <1>1, <1>2, <1>3, <1>4, <1>5, SentSame DEF Makes, SendsSame, Becomes

LEMMA ParseWayFlow ==
  ASSUME ParseTypes, NEW w \in Workers, Parse!ParseWay(w), UNCHANGED saveVars
  PROVE  IF job[w].obj \notin parsedWays THEN Makes(w, job[w].obj) ELSE Quiet
<1>1. /\ job[w].obj \in Ways
      /\ Becomes(w, None, <<>>, IF job[w].obj \notin parsedWays THEN PointsOf[job[w].obj] ELSE <<>>)
  BY WayJob DEF ParseTypes
<1>2. job[w].send = <<>>
  BY <1>1, InputAssumption DEF ParseTypes, JobTypes, Objects
<1>3. points' = points /\ parsedWays' = parsedWays \union {job[w].obj}
  BY DEF Parse!ParseWay, Parse!chanVars
<1>4. CASE job[w].obj \notin parsedWays
  <2>1. PointsOf[job[w].obj] = <<>> \o PointsOf[job[w].obj]
    BY <1>1, PointsTypes, ConcatEmptySeq DEF Objects
  <2> QED BY <1>1, <1>2, <1>3, <1>4, <2>1, SentSame DEF Makes, SendsSame, Becomes
<1>5. CASE job[w].obj \in parsedWays
  BY <1>1, <1>2, <1>3, <1>5, SentSame DEF Quiet, SendsSame, Becomes
<1> QED BY <1>4, <1>5

LEMMA ParseRelationFlow ==
  ASSUME ParseTypes, NEW w \in Workers, Parse!ParseRelation(w), UNCHANGED saveVars
  PROVE  IF job[w].obj \notin parsedRelations THEN Makes(w, job[w].obj) ELSE Quiet
<1>1. /\ job[w].obj \in Relations
      /\ IF job[w].obj \notin parsedRelations
         THEN Becomes(w, None, MembersOf[job[w].obj], PointsOf[job[w].obj])
         ELSE Becomes(w, None, <<>>, <<>>)
  BY RelationJob DEF ParseTypes
<1>2. job[w].send = <<>>
  BY <1>1, InputAssumption DEF ParseTypes, JobTypes, Objects
<1>3. points' = points /\ parsedWays' = parsedWays /\ job[w].obj \in Objects \ Ways
  BY <1>1, ObjectAssumption DEF Parse!ParseRelation, Parse!chanVars, Objects
<1>4. CASE job[w].obj \notin parsedRelations
  <2>1. PointsOf[job[w].obj] = <<>> \o PointsOf[job[w].obj]
    BY <1>3, PointsTypes, ConcatEmptySeq
  <2> QED BY <1>1, <1>2, <1>3, <1>4, <2>1, SentSame DEF Makes, SendsSame, Becomes
<1>5. CASE job[w].obj \in parsedRelations
  BY <1>1, <1>2, <1>3, <1>5, SentSame DEF Quiet, SendsSame, Becomes
<1> QED BY <1>4, <1>5

LEMMA ParseMemberFlow ==
  ASSUME ParseTypes, NEW w \in Workers, Parse!ParseMember(w), UNCHANGED saveVars
  PROVE  IF Head(job[w].members) \notin parsedWays
         THEN Makes(w, Head(job[w].members))
         ELSE Quiet
<1> DEFINE way == Head(job[w].members)
           more == IF way \notin parsedWays THEN PointsOf[way] ELSE <<>>
<1>1. way \in Ways /\ Becomes(w, None, Tail(job[w].members), job[w].send \o more)
  BY MemberJob DEF ParseTypes
<1>2. job[w].send = job[w].send \o <<>>
  BY SendType, ConcatEmptySeq
<1>3. points' = points /\ parsedWays' = parsedWays \union {way}
  BY DEF Parse!ParseMember, Parse!chanVars
<1>4. way \notin parsedWays => more = PointsOf[way]
  OBVIOUS
<1>5. way \in parsedWays => more = <<>>
  OBVIOUS
<1> HIDE DEF way, more
<1>6. job'[w].send = job[w].send \o more /\ SendsSame(Workers \ {w})
  BY <1>1 DEF Becomes, SendsSame
<1>7. ASSUME way \notin parsedWays
      PROVE  Makes(w, way)
  <2>1. job'[w].send = job[w].send \o PointsOf[way]
    BY ONLY <1>4, <1>6, <1>7
  <2> QED BY <1>1, <1>3, <1>6, <1>7, <2>1, SentSame DEF Makes
<1>8. ASSUME way \in parsedWays
      PROVE  Quiet
  <2>1. job'[w].send = job[w].send
    BY ONLY <1>2, <1>5, <1>6, <1>8
  <2>2. parsedWays' = parsedWays
    BY ONLY <1>3, <1>8
  <2> QED BY <1>3, <1>6, <2>1, <2>2, SentSame DEF Quiet, SendsSame
<1> QED BY <1>7, <1>8 DEF way

LEMMA SendPointFlow ==
  ASSUME ParseTypes, SaveTypes, NEW w \in Workers, Parse!SendPoint(w), UNCHANGED saveVars
  PROVE  Sends(w)
<1>1. job[w].send # <<>> /\ job[w].send \in Seq(AllPoints) /\ Becomes(w, None, <<>>, Tail(job[w].send))
  BY SendJob DEF ParseTypes
<1>2. points' = Append(points, Head(job[w].send)) /\ parsedWays' = parsedWays
  BY DEF Parse!SendPoint
<1>3. ASSUME NEW o \in Outputs
      PROVE  Sent(o)' = Append(Sent(o), Head(job[w].send))
  <2> DEFINE given == Given(gotPoints[o], pointsTee, o)
             x == Head(job[w].send)
  <2>1. Sent(o)' = given \o points'
    BY DEF saveVars, Sent, Given, Held
  <2>2. given \in Seq(AllPoints) /\ points \in Seq(AllPoints) /\ Sent(o) = given \o points
    BY SentType, SentIsGiven
  <2>3. x \in AllPoints
    BY <1>1
  <2> HIDE DEF given, x
  <2>4. given \o Append(points, x) = Append(given \o points, x)
    BY ONLY <2>2, <2>3, MoveIn
  <2> QED BY ONLY <1>2, <2>1, <2>2, <2>4 DEF x
<1> QED BY <1>1, <1>2, <1>3 DEF Sends, SendsSame, Becomes

LEMMA FlowStep ==
  ASSUME ParseTypes, SaveTypes, Next
  PROVE  \/ Quiet
         \/ \E w \in Workers : Sends(w) \/ \E obj \in Objects : Makes(w, obj)
<1>1. CASE (SaveW!Run \/ SaveW!Fault) /\ UNCHANGED parseVars
  <2>1. UNCHANGED <<job, parsedWays>>
    BY <1>1 DEF parseVars
  <2>2. CASE SaveW!TeePoint
    BY <2>1, <2>2, TeePointStep DEF Quiet, SendsSame
  <2>3. CASE SaveW!TeePoints
    BY <2>1, <2>3, TeePointsStep DEF Quiet, SendsSame
  <2>4. ASSUME NEW i \in Outputs, SaveW!CollectPoint(i)
        PROVE  Quiet
    BY <2>1, <2>4, CollectPointStep DEF Quiet, SendsSame
  <2>5. CASE UNCHANGED <<points, pointsTee, gotPoints>>
    BY <2>1, <2>5 DEF Quiet, SendsSame, Sent
  <2> QED
    BY <1>1, <2>2, <2>3, <2>4, <2>5
       DEF SaveW!Run, SaveW!Fault, SaveW!Save, SaveW!Outputs, Outputs, SaveW!TeeZones, SaveW!SaveMagic,
           SaveW!SaveMagicFails, SaveW!EndPoints, SaveW!CollectZone, SaveW!EndZones, SaveW!Write,
           SaveW!WriteFails, SaveW!chanVars
<1>2. CASE (Parse!Run \/ Parse!Fault) /\ UNCHANGED saveVars
  <2>1. ASSUME NEW w \in Workers, Parse!Submit(w)
        PROVE  Quiet
    <3>1. Becomes(w, Head(out), <<>>, <<>>) /\ job[w].send = <<>>
      BY <2>1, SubmitJob, IdleJob DEF ParseTypes
    <3>2. points' = points /\ parsedWays' = parsedWays
      BY <2>1 DEF Parse!Submit, Parse!chanVars
    <3> QED BY <1>2, <3>1, <3>2, SentSame DEF Quiet, SendsSame, Becomes
  <2>2. ASSUME NEW w \in Workers, Parse!ParseNode(w)
        PROVE  \E obj \in Objects : Makes(w, obj)
    BY <1>2, <2>2, ParseNodeFlow DEF Parse!ParseNode, Objects
  <2>3. ASSUME NEW w \in Workers, Parse!ParseWay(w)
        PROVE  Quiet \/ \E obj \in Objects : Makes(w, obj)
    BY <1>2, <2>3, ParseWayFlow DEF Parse!ParseWay, Objects
  <2>4. ASSUME NEW w \in Workers, Parse!ParseRelation(w)
        PROVE  Quiet \/ \E obj \in Objects : Makes(w, obj)
    BY <1>2, <2>4, ParseRelationFlow DEF Parse!ParseRelation, Objects
  <2>5. ASSUME NEW w \in Workers, Parse!ParseMember(w)
        PROVE  Quiet \/ \E obj \in Objects : Makes(w, obj)
    <3>1. Head(job[w].members) \in Objects
      BY <2>5, MemberJob DEF ParseTypes, Objects
    <3> QED BY <1>2, <2>5, <3>1, ParseMemberFlow
  <2>6. ASSUME NEW w \in Workers, Parse!SendPoint(w)
        PROVE  Sends(w)
    BY <1>2, <2>6, SendPointFlow
  <2>7. CASE UNCHANGED <<points, job, parsedWays>>
    BY <1>2, <2>7, SentSame DEF Quiet, SendsSame
  <2> QED
    BY <1>2, <2>1, <2>2, <2>3, <2>4, <2>5, <2>6, <2>7
       DEF Parse!Run, Parse!Fault, Parse!Work, Parse!FillNext, Parse!CacheRel, Parse!FillDone,
           Parse!FillAbort, Parse!FillFail, Parse!Yield, Parse!YieldError, Parse!ParseAbort,
           Parse!ParseDone, Parse!CloseParsingDone, Parse!parseVars, Parse!chanVars
<1> QED BY <1>1, <1>2 DEF Next, Run, Fault

LEMMA SameLogStep ==
  ASSUME ParseTypes, SaveTypes, SameLog, Next
  PROVE  SameLog'
<1>1. CASE \A o \in Outputs : Sent(o)' = Sent(o)
  BY <1>1 DEF SameLog
<1>2. ASSUME NEW x, \A o \in Outputs : Sent(o)' = Append(Sent(o), x)
      PROVE  SameLog'
  BY <1>2 DEF SameLog
<1> QED BY <1>1, <1>2, FlowStep DEF Quiet, Makes, Sends

-----------------------------------------------------------------------------
(* Each point of a way is in one place at most.                            *)

LEMMA OneIsOutput == 1 \in Outputs
BY InputAssumption DEF Outputs

LEMMA LogType ==
  ASSUME ParseTypes, SaveTypes
  PROVE  Log \in Seq(AllPoints)
BY SentType, OneIsOutput DEF Log

LEMMA PointsApart ==
  ASSUME NEW way \in Ways, NEW obj \in Objects, obj # way
  PROVE  Points(way) \intersect Points(obj) = {}
BY PointAssumption DEF Points

LEMMA PointsOnce ==
  ASSUME NEW obj \in Objects
  PROVE  Once(PointsOf[obj])
<1> SUFFICES ASSUME NEW i \in DOMAIN PointsOf[obj], NEW j \in DOMAIN PointsOf[obj],
                    PointsOf[obj][i] = PointsOf[obj][j], PointsOf[obj][i] \in WayPoints
             PROVE  i = j
  BY DEF Once
<1>1. PICK way \in Ways : \E k \in DOMAIN PointsOf[way] : PointsOf[obj][i] = PointsOf[way][k]
  BY DEF WayPoints, Points
<1>2. PICK k \in DOMAIN PointsOf[way] : PointsOf[obj][i] = PointsOf[way][k]
  BY <1>1
<1>3. i = k /\ j = k
  BY <1>2, PointAssumption
<1> QED BY <1>3

\* The points of an object that is not an old way are nowhere yet.
LEMMA FreshPoints ==
  ASSUME WaysInv, NEW obj \in Objects, obj \in Objects \ Ways \/ obj \in Ways \ parsedWays
  PROVE  /\ Apart(Log, PointsOf[obj])
         /\ \A v \in Workers : Apart(job[v].send, PointsOf[obj])
<1>1. Parse!Elements(PointsOf[obj]) = Points(obj)
  BY PointsTypes
<1>2. CASE obj \in Objects \ Ways
  <2>1. Points(obj) \intersect WayPoints = {}
    BY <1>2, PointsApart DEF WayPoints
  <2> QED BY ONLY <1>1, <2>1 DEF Apart
<1>3. CASE obj \in Ways \ parsedWays
  <2>1. /\ Points(obj) \intersect Parse!Elements(Log) = {}
        /\ \A w \in Workers : Points(obj) \intersect Parse!Elements(job[w].send) = {}
    BY <1>3 DEF WaysInv
  <2> QED BY ONLY <1>1, <2>1 DEF Apart
<1> QED BY <1>2, <1>3

LEMMA WaysQuiet ==
  ASSUME WaysInv, Quiet
  PROVE  WaysInv'
<1>1. Log' = Log
  BY OneIsOutput DEF Quiet, Log
<1>2. parsedWays' = parsedWays /\ \A w \in Workers : job'[w].send = job[w].send
  BY DEF Quiet, SendsSame
<1> QED BY ONLY <1>1, <1>2, WaysInv DEF WaysInv, Once, Apart

LEMMA WaysMakes ==
  ASSUME ParseTypes, WaysInv, NEW w \in Workers, NEW obj \in Objects, Makes(w, obj)
  PROVE  WaysInv'
<1> DEFINE new == PointsOf[obj]
           E(s) == Parse!Elements(s)
<1>1. Log' = Log
  BY OneIsOutput DEF Makes, Log
<1>2. /\ job'[w].send = job[w].send \o new
      /\ \A v \in Workers \ {w} : job'[v].send = job[v].send
  BY DEF Makes, SendsSame
<1>3. job[w].send \in Seq(AllPoints) /\ new \in Seq(AllPoints) /\ E(new) = Points(obj) /\ Once(new)
  BY SendType, PointsTypes, PointsOnce
<1>4. Apart(Log, new) /\ \A v \in Workers : Apart(job[v].send, new)
  BY FreshPoints DEF Makes
<1> HIDE DEF new
<1>5. E(job'[w].send) = E(job[w].send) \union E(new)
  BY <1>2, <1>3, ElementsOfConcat
<1>6. Once(job'[w].send)
  <2>1. Once(job[w].send) /\ Apart(job[w].send, new)
    BY <1>4 DEF WaysInv
  <2> QED BY ONLY <1>2, <1>3, <2>1, OnceConcat
<1>7. Apart(Log, job'[w].send)
  <2>1. Apart(Log, job[w].send)
    BY DEF WaysInv
  <2> QED BY ONLY <1>4, <1>5, <2>1 DEF Apart
<1>8. \A v \in Workers \ {w} : Apart(job'[v].send, job'[w].send) /\ Apart(job'[w].send, job'[v].send)
  <2>1. \A v \in Workers \ {w} : Apart(job[v].send, job[w].send)
    BY DEF WaysInv
  <2> QED BY ONLY <1>2, <1>4, <1>5, <2>1 DEF Apart
<1>9. ASSUME NEW way \in Ways \ parsedWays'
      PROVE  /\ Points(way) \intersect E(Log) = {}
             /\ \A v \in Workers : Points(way) \intersect E(job'[v].send) = {}
  <2>1. way \in Ways \ parsedWays /\ way # obj
    BY <1>9 DEF Makes
  <2>2. Points(way) \intersect Points(obj) = {}
    BY <2>1, PointsApart
  <2>3. /\ Points(way) \intersect E(Log) = {}
        /\ \A v \in Workers : Points(way) \intersect E(job[v].send) = {}
    BY <2>1 DEF WaysInv
  <2> HIDE DEF E
  <2> QED BY ONLY <1>2, <1>3, <1>5, <2>2, <2>3
<1>10. /\ Once(Log)
       /\ \A v \in Workers : Once(job[v].send) /\ Apart(Log, job[v].send)
       /\ \A u, v \in Workers : u # v => Apart(job[u].send, job[v].send)
  BY DEF WaysInv
<1>11. \A v \in Workers : Once(job'[v].send) /\ Apart(Log, job'[v].send)
  BY ONLY <1>2, <1>6, <1>7, <1>10
<1>12. \A u, v \in Workers : u # v => Apart(job'[u].send, job'[v].send)
  BY ONLY <1>2, <1>8, <1>10
<1> QED BY ONLY <1>1, <1>9, <1>10, <1>11, <1>12 DEF WaysInv, Once, Apart

LEMMA WaysSends ==
  ASSUME ParseTypes, SaveTypes, WaysInv, NEW w \in Workers, Sends(w)
  PROVE  WaysInv'
<1> DEFINE x == Head(job[w].send)
           E(s) == Parse!Elements(s)
<1>1. Log' = Append(Log, x) /\ Log \in Seq(AllPoints)
  BY OneIsOutput, LogType DEF Sends, Log
<1>2. /\ job'[w].send = Tail(job[w].send)
      /\ \A v \in Workers \ {w} : job'[v].send = job[v].send
      /\ parsedWays' = parsedWays
  BY DEF Sends, SendsSame
<1>3. job[w].send \in Seq(AllPoints) /\ job[w].send # <<>> /\ x \in AllPoints
  BY SendType DEF Sends
<1>4. E(job[w].send) = {x} \union E(job'[w].send)
  BY ONLY <1>2, <1>3, ElementsOfTail
<1>5. /\ Once(Log)
      /\ \A v \in Workers : Once(job[v].send) /\ Apart(Log, job[v].send)
      /\ \A u, v \in Workers : u # v => Apart(job[u].send, job[v].send)
      /\ \A way \in Ways \ parsedWays :
           /\ Points(way) \intersect E(Log) = {}
           /\ \A v \in Workers : Points(way) \intersect E(job[v].send) = {}
  BY DEF WaysInv
<1>6. Once(job'[w].send) /\ (x \in WayPoints => x \notin E(job'[w].send))
  BY ONLY <1>2, <1>3, <1>5, OnceTail
<1> HIDE DEF x
<1>7. E(Log') = E(Log) \union {x}
  BY ONLY <1>1, <1>3, ElementsOfAppend
<1>8. Once(Log')
  <2>1. x \notin WayPoints \/ x \notin E(Log)
    BY ONLY <1>4, <1>5 DEF Apart
  <2> QED BY ONLY <1>1, <1>3, <1>5, <2>1, OnceAppend
<1>9. \A v \in Workers : Once(job'[v].send) /\ Apart(Log', job'[v].send)
  <2>1. Apart(Log', job'[w].send)
    BY ONLY <1>4, <1>5, <1>6, <1>7 DEF Apart
  <2>2. \A v \in Workers \ {w} : Apart(Log', job[v].send)
    BY ONLY <1>4, <1>5, <1>7 DEF Apart
  <2> QED BY ONLY <1>2, <1>5, <1>6, <2>1, <2>2
<1>10. \A u, v \in Workers : u # v => Apart(job'[u].send, job'[v].send)
  <2>1. \A v \in Workers \ {w} : Apart(job[v].send, job'[w].send) /\ Apart(job'[w].send, job[v].send)
    BY ONLY <1>4, <1>5 DEF Apart
  <2> QED BY ONLY <1>2, <1>5, <2>1
<1>11. \A way \in Ways \ parsedWays :
         /\ Points(way) \intersect E(Log') = {}
         /\ \A v \in Workers : Points(way) \intersect E(job'[v].send) = {}
  <2> HIDE DEF E
  <2> QED BY ONLY <1>2, <1>4, <1>5, <1>7, w \in Workers
<1> QED BY ONLY <1>2, <1>8, <1>9, <1>10, <1>11 DEF WaysInv, Once, Apart

-----------------------------------------------------------------------------
(* What has been read stays on its way.                                    *)

LEMMA FlowGrows ==
  ASSUME ParseTypes, SaveTypes, Next
  PROVE  Flow \subseteq Flow'
<1>1. CASE Quiet
  <2>1. Log' = Log /\ \A w \in Workers : job'[w].send = job[w].send
    BY <1>1, OneIsOutput DEF Quiet, SendsSame, Log
  <2> QED BY ONLY <2>1 DEF Flow
<1>2. ASSUME NEW w \in Workers, NEW obj \in Objects, Makes(w, obj)
      PROVE  Flow \subseteq Flow'
  <2>1. Log' = Log /\ \A v \in Workers \ {w} : job'[v].send = job[v].send
    BY <1>2, OneIsOutput DEF Makes, SendsSame, Log
  <2>2. Parse!Elements(job[w].send) \subseteq Parse!Elements(job'[w].send)
    BY <1>2, SendType, PointsTypes, ElementsOfConcat DEF Makes
  <2> QED BY ONLY <2>1, <2>2 DEF Flow
<1>3. ASSUME NEW w \in Workers, Sends(w)
      PROVE  Flow \subseteq Flow'
  <2> DEFINE x == Head(job[w].send)
  <2>1. /\ Log' = Append(Log, x) /\ Log \in Seq(AllPoints)
        /\ \A v \in Workers \ {w} : job'[v].send = job[v].send
        /\ job'[w].send = Tail(job[w].send)
        /\ job[w].send \in Seq(AllPoints) /\ job[w].send # <<>> /\ x \in AllPoints
    BY <1>3, OneIsOutput, LogType, SendType DEF Sends, SendsSame, Log
  <2>2. Parse!Elements(Log') = Parse!Elements(Log) \union {x}
    BY ONLY <2>1, ElementsOfAppend
  <2>3. Parse!Elements(job[w].send) = {x} \union Parse!Elements(job'[w].send)
    BY ONLY <2>1, ElementsOfTail
  <2> HIDE DEF x
  <2> QED BY ONLY <2>1, <2>2, <2>3, w \in Workers DEF Flow
<1> QED BY <1>1, <1>2, <1>3, FlowStep

LEMMA MadeIsInFlow ==
  ASSUME ParseTypes, NEW w \in Workers, NEW obj \in Objects, Makes(w, obj)
  PROVE  Points(obj) \subseteq Flow'
<1>1. Points(obj) \subseteq Parse!Elements(job'[w].send)
  BY SendType, PointsTypes, ElementsOfConcat DEF Makes
<1> QED BY ONLY <1>1, w \in Workers DEF Flow

LEMMA ZonesGrow ==
  ASSUME ParseTypes, Next
  PROVE  /\ Parse!Elements(regions) \subseteq Parse!Elements(regions')
         /\ Parse!Elements(countries) \subseteq Parse!Elements(countries')
<1>1. CASE UNCHANGED <<regions, countries>>
  BY <1>1
<1>2. ASSUME NEW w \in Workers, Parse!ParseRelation(w)
      PROVE  /\ Parse!Elements(regions) \subseteq Parse!Elements(regions')
             /\ Parse!Elements(countries) \subseteq Parse!Elements(countries')
  <2>1. job[w].obj \in Relations /\ regions \in Seq(Relations) /\ countries \in Seq(Relations)
    BY <1>2 DEF Parse!ParseRelation, ParseTypes, ZoneTypes
  <2>2. /\ regions' = regions \/ regions' = Append(regions, job[w].obj)
        /\ countries' = countries \/ countries' = Append(countries, job[w].obj)
    BY <1>2 DEF Parse!ParseRelation, Parse!WithZone
  <2>3. /\ Parse!Elements(Append(regions, job[w].obj)) = Parse!Elements(regions) \union {job[w].obj}
        /\ Parse!Elements(Append(countries, job[w].obj)) = Parse!Elements(countries) \union {job[w].obj}
    BY ONLY <2>1, ElementsOfAppend
  <2>4. Parse!Elements(regions) \subseteq Parse!Elements(regions')
    BY ONLY <2>2, <2>3
  <2>5. Parse!Elements(countries) \subseteq Parse!Elements(countries')
    BY ONLY <2>2, <2>3
  <2> QED BY ONLY <2>4, <2>5
<1> QED
  BY <1>1, <1>2 DEF Next, Run, Fault, Parse!Run, Parse!Fault, Parse!Work, Parse!FillNext, Parse!CacheRel,
     Parse!FillDone, Parse!FillAbort, Parse!FillFail, Parse!Yield, Parse!YieldError, Parse!Submit,
     Parse!ParseAbort, Parse!ParseNode, Parse!ParseWay, Parse!ParseMember, Parse!SendPoint,
     Parse!ParseDone, Parse!CloseParsingDone, Parse!zoneVars, SaveW!Run, SaveW!Fault, SaveW!Save,
     SaveW!TeePoint, SaveW!TeePoints, SaveW!TeeZones, SaveW!SaveMagic, SaveW!SaveMagicFails,
     SaveW!CollectPoint, SaveW!EndPoints, SaveW!CollectZone, SaveW!EndZones, SaveW!Write,
     SaveW!WriteFails, SaveW!zoneVars

LEMMA HandledStays ==
  ASSUME ParseTypes, SaveTypes, Next, NEW obj, Handled(obj)
  PROVE  Handled(obj)'
<1>1. /\ Flow \subseteq Flow'
      /\ Parse!Elements(regions) \subseteq Parse!Elements(regions')
      /\ Parse!Elements(countries) \subseteq Parse!Elements(countries')
  BY FlowGrows, ZonesGrow
<1> QED BY ONLY <1>1, Handled(obj) DEF Handled

\* A step that reads nothing keeps the invariant if what it takes is handled.
LEMMA ReadKept ==
  ASSUME ParseTypes, SaveTypes, ReadInv, Next,
         read' = read,
         stage = "parseFailed" => stage' = "parseFailed",
         Err \in Parse!Elements(out) => Err \in Parse!Elements(out'),
         \A obj \in Objects : Pending(obj) => Pending(obj)' \/ Handled(obj)',
         \A obj \in (parsedWays' \union parsedRelations') \ (parsedWays \union parsedRelations) : Handled(obj)'
  PROVE  ReadInv'
<1>1. \A obj \in parsedWays' \union parsedRelations' : Handled(obj)'
  BY HandledStays DEF ReadInv
<1>2. ASSUME NEW s \in Sources, NEW i \in 1..read[s], Pending(Input[s][i]) \/ Handled(Input[s][i])
      PROVE  Pending(Input[s][i])' \/ Handled(Input[s][i])'
  <2>1. i \in 1..Len(Input[s])
    BY InputTypes DEF ParseTypes, ReadTypes
  <2>2. Input[s][i] \in Objects
    BY <2>1, InputTypes
  <2> QED BY <1>2, <2>2, HandledStays
<1>3. \/ stage' = "parseFailed"
      \/ Err \in Parse!Elements(out')
      \/ \A s \in Sources : \A i \in 1..read[s] : Pending(Input[s][i])' \/ Handled(Input[s][i])'
  BY <1>2 DEF ReadInv
<1> QED BY ONLY <1>1, <1>3, read' = read DEF ReadInv

LEMMA YieldKeeps ==
  ASSUME ParseTypes, SaveTypes, ReadInv, Next, NEW s \in Sources, Parse!Yield(s)
  PROVE  ReadInv'
<1> DEFINE x == Input[s][read[s] + 1]
<1>1. /\ read[s] \in Nat /\ read[s] < Len(Input[s]) /\ out \in Seq(Objects \union {Err})
      /\ out' = Append(out, x) /\ read' = [read EXCEPT ![s] = @ + 1] /\ read \in [Sources -> Nat]
      /\ UNCHANGED <<stage, job, parsedWays, parsedRelations>>
  BY DEF Parse!Yield, Parse!parseVars, ParseTypes, ReadTypes
<1>2. x \in Objects
  <2>1. read[s] + 1 \in 1..Len(Input[s])
    BY <1>1, InputTypes
  <2> QED BY <2>1, InputTypes
<1> HIDE DEF x
<1>3. Parse!Elements(out') = Parse!Elements(out) \union {x}
  BY ONLY <1>1, <1>2, ElementsOfAppend
<1>4. \A obj \in Objects : Pending(obj) \/ Handled(obj) => Pending(obj)' \/ Handled(obj)'
  BY <1>1, <1>3, HandledStays DEF Pending
<1>5. ASSUME NEW t \in Sources, NEW i \in 1..read'[t],
             \A j \in 1..read[t] : Pending(Input[t][j]) \/ Handled(Input[t][j])
      PROVE  Pending(Input[t][i])' \/ Handled(Input[t][i])'
  <2>1. CASE t = s /\ i = read[s] + 1
    BY <1>3, <2>1 DEF Pending, x
  <2>2. CASE i \in 1..read[t]
    <3>1. i \in 1..Len(Input[t])
      BY <2>2, InputTypes DEF ParseTypes, ReadTypes
    <3>2. Input[t][i] \in Objects
      BY <3>1, InputTypes
    <3> QED BY ONLY <1>4, <1>5, <2>2, <3>2
  <2>3. i \in 1..read[t] \/ (t = s /\ i = read[s] + 1)
    BY ONLY <1>1, <1>5
  <2> QED BY <2>1, <2>2, <2>3
<1>6. \A obj \in parsedWays \union parsedRelations : Handled(obj)'
  BY HandledStays DEF ReadInv
<1>7. \/ stage = "parseFailed"
      \/ Err \in Parse!Elements(out)
      \/ \A t \in Sources : \A j \in 1..read[t] : Pending(Input[t][j]) \/ Handled(Input[t][j])
  BY DEF ReadInv
<1>8. \/ stage' = "parseFailed"
      \/ Err \in Parse!Elements(out')
      \/ \A t \in Sources : \A i \in 1..read'[t] : Pending(Input[t][i])' \/ Handled(Input[t][i])'
  BY ONLY <1>1, <1>3, <1>5, <1>7
<1> QED BY ONLY <1>1, <1>6, <1>8 DEF ReadInv

LEMMA YieldErrorKeeps ==
  ASSUME ParseTypes, SaveTypes, ReadInv, Next, NEW s \in Sources, Parse!YieldError(s)
  PROVE  ReadInv'
<1>1. out \in Seq(Objects \union {Err}) /\ out' = Append(out, Err) /\ UNCHANGED <<parsedWays, parsedRelations>>
  BY DEF Parse!YieldError, Parse!parseVars, ParseTypes, ReadTypes
<1>2. Parse!Elements(out') = Parse!Elements(out) \union {Err}
  BY ONLY <1>1, ElementsOfAppend
<1>3. \A obj \in parsedWays \union parsedRelations : Handled(obj)'
  BY HandledStays DEF ReadInv
<1> QED BY ONLY <1>1, <1>2, <1>3 DEF ReadInv

LEMMA SubmitKeeps ==
  ASSUME ParseTypes, SaveTypes, ReadInv, Next, NEW w \in Workers, Parse!Submit(w)
  PROVE  ReadInv'
<1>1. Becomes(w, Head(out), <<>>, <<>>) /\ Head(out) \in Objects /\ job[w].obj = None
  BY SubmitJob, IdleJob DEF ParseTypes
<1>2. Parse!Elements(out) = {Head(out)} \union Parse!Elements(Tail(out))
  BY HeadOfOut DEF ParseTypes, Parse!Submit
<1>3. /\ out' = Tail(out) /\ Head(out) # Err
      /\ UNCHANGED <<stage, read, parsedWays, parsedRelations>>
  BY DEF Parse!Submit
<1>4. ASSUME NEW obj \in Objects, Pending(obj)
      PROVE  Pending(obj)'
  <2>1. CASE obj \in Parse!Elements(out)
    BY <1>1, <1>2, <1>3, <2>1 DEF Pending, Becomes
  <2>2. ASSUME NEW v \in Workers, job[v].obj = obj
        PROVE  Pending(obj)'
    <3>1. v # w
      BY <1>1, <2>2, InputAssumption
    <3> QED BY <1>1, <2>2, <3>1 DEF Pending, Becomes
  <2> QED BY <1>4, <2>1, <2>2 DEF Pending
<1> QED BY <1>2, <1>3, <1>4, ReadKept

LEMMA ParseAbortKeeps ==
  ASSUME ParseTypes, SaveTypes, ReadInv, Next, Parse!ParseAbort
  PROVE  ReadInv'
<1>1. stage' = "parseFailed" /\ UNCHANGED <<parsedWays, parsedRelations>>
  BY DEF Parse!ParseAbort, Parse!parseVars
<1>2. \A obj \in parsedWays \union parsedRelations : Handled(obj)'
  BY HandledStays DEF ReadInv
<1> QED BY ONLY <1>1, <1>2 DEF ReadInv

\* The object that a goroutine has parsed is handled; the others are where they were.
LEMMA ParsedKeeps ==
  ASSUME ParseTypes, SaveTypes, ReadInv, Next, NEW w \in Workers,
         UNCHANGED <<stage, read, out>>,
         \A v \in Workers \ {w} : job'[v] = job[v],
         NEW obj, job[w].obj \in Objects => obj = job[w].obj, Handled(obj)',
         (parsedWays' \union parsedRelations') \ (parsedWays \union parsedRelations) \subseteq {obj}
  PROVE  ReadInv'
<1>1. ASSUME NEW o \in Objects, Pending(o)
      PROVE  Pending(o)' \/ Handled(o)'
  <2>1. CASE o \in Parse!Elements(out)
    BY <2>1 DEF Pending
  <2>2. ASSUME NEW v \in Workers, job[v].obj = o
        PROVE  Pending(o)' \/ Handled(o)'
    <3>1. CASE v = w
      <4>1. o = obj
        BY <1>1, <2>2, <3>1
      <4> QED BY ONLY <4>1, Handled(obj)'
    <3>2. CASE v # w
      BY <2>2, <3>2 DEF Pending
    <3> QED BY <3>1, <3>2
  <2> QED BY <1>1, <2>1, <2>2 DEF Pending
<1>2. \A o \in (parsedWays' \union parsedRelations') \ (parsedWays \union parsedRelations) : Handled(o)'
  <2>1. SUFFICES ASSUME NEW o \in (parsedWays' \union parsedRelations') \ (parsedWays \union parsedRelations)
                 PROVE  Handled(o)'
    OBVIOUS
  <2>2. o = obj
    BY <2>1
  <2> QED BY ONLY <2>2, Handled(obj)'
<1> QED BY <1>1, <1>2, ReadKept

LEMMA ParseNodeKeeps ==
  ASSUME ParseTypes, SaveTypes, ReadInv, Next, NEW w \in Workers, Parse!ParseNode(w), UNCHANGED saveVars
  PROVE  ReadInv'
<1>1. PICK obj : obj = job[w].obj
  OBVIOUS
<1>2. obj \in Nodes /\ obj \in Objects /\ obj \notin Relations
  BY <1>1, ObjectAssumption DEF Parse!ParseNode, Objects
<1>3. Makes(w, obj)
  BY <1>1, ParseNodeFlow
<1>4. Handled(obj)'
  BY <1>2, <1>3, MadeIsInFlow DEF Handled
<1>5. /\ UNCHANGED <<stage, read, out, parsedWays, parsedRelations>>
      /\ \A v \in Workers \ {w} : job'[v] = job[v]
  BY NodeJob DEF Parse!ParseNode, Parse!readVars, Becomes, ParseTypes
<1> QED BY <1>1, <1>4, <1>5, ParsedKeeps

LEMMA ParseWayKeeps ==
  ASSUME ParseTypes, SaveTypes, ReadInv, Next, NEW w \in Workers, Parse!ParseWay(w), UNCHANGED saveVars
  PROVE  ReadInv'
<1>1. PICK obj : obj = job[w].obj
  OBVIOUS
<1>2. obj \in Ways /\ obj \in Objects /\ obj \notin Relations
  BY <1>1, ObjectAssumption DEF Parse!ParseWay, Objects
<1>3. Handled(obj)'
  <2>1. CASE obj \in parsedWays
    BY <2>1, HandledStays DEF ReadInv
  <2>2. CASE obj \notin parsedWays
    <3>1. Makes(w, obj)
      BY <1>1, <2>2, ParseWayFlow
    <3> QED BY <1>2, <3>1, MadeIsInFlow DEF Handled
  <2> QED BY <2>1, <2>2
<1>4. /\ UNCHANGED <<stage, read, out, parsedRelations>> /\ parsedWays' = parsedWays \union {obj}
      /\ \A v \in Workers \ {w} : job'[v] = job[v]
  BY <1>1, WayJob DEF Parse!ParseWay, Parse!readVars, Becomes, ParseTypes
<1> QED BY <1>1, <1>3, <1>4, ParsedKeeps

LEMMA ParseRelationKeeps ==
  ASSUME ParseTypes, SaveTypes, ReadInv, Next, NEW w \in Workers, Parse!ParseRelation(w), UNCHANGED saveVars
  PROVE  ReadInv'
<1>1. PICK obj : obj = job[w].obj
  OBVIOUS
<1>2. obj \in Relations /\ obj \in Objects
  BY <1>1 DEF Parse!ParseRelation, Objects
<1>3. Handled(obj)'
  <2>1. CASE obj \in parsedRelations
    BY <2>1, HandledStays DEF ReadInv
  <2>2. CASE obj \notin parsedRelations
    <3>1. Makes(w, obj)
      BY <1>1, <2>2, ParseRelationFlow
    <3>2. /\ regions \in Seq(Relations) /\ countries \in Seq(Relations)
          /\ ZoneOf[obj] = "region" => regions' = Append(regions, obj)
          /\ ZoneOf[obj] = "country" => countries' = Append(countries, obj)
      BY <1>1, <2>2 DEF Parse!ParseRelation, Parse!WithZone, Parse!FreshRelation, ParseTypes, ZoneTypes
    <3>3. /\ obj \in Parse!Elements(Append(regions, obj))
          /\ obj \in Parse!Elements(Append(countries, obj))
      BY <1>2, <3>2, ElementsOfAppend
    <3> QED BY <1>2, <3>1, <3>2, <3>3, MadeIsInFlow DEF Handled
  <2> QED BY <2>1, <2>2
<1>4. /\ UNCHANGED <<stage, read, out, parsedWays>> /\ parsedRelations' = parsedRelations \union {obj}
      /\ \A v \in Workers \ {w} : job'[v] = job[v]
  <2>1. /\ UNCHANGED <<stage, read, out, parsedWays>> /\ parsedRelations' = parsedRelations \union {obj}
    BY <1>1 DEF Parse!ParseRelation, Parse!readVars
  <2>2. \A v \in Workers \ {w} : job'[v] = job[v]
    BY RelationJob DEF Becomes, ParseTypes
  <2> QED BY <2>1, <2>2
<1> QED BY <1>1, <1>3, <1>4, ParsedKeeps

LEMMA ParseMemberKeeps ==
  ASSUME ParseTypes, SaveTypes, ReadInv, Next, NEW w \in Workers, Parse!ParseMember(w), UNCHANGED saveVars
  PROVE  ReadInv'
<1>1. PICK obj : obj = Head(job[w].members)
  OBVIOUS
<1>2. /\ job[w].obj = None /\ None \notin Objects /\ obj \in Ways /\ obj \in Objects /\ obj \notin Relations
      /\ \A v \in Workers \ {w} : job'[v] = job[v]
  BY <1>1, MemberJob, InputAssumption, ObjectAssumption DEF ParseTypes, Becomes, Objects
<1>3. Handled(obj)'
  <2>1. CASE obj \in parsedWays
    BY <2>1, HandledStays DEF ReadInv
  <2>2. CASE obj \notin parsedWays
    <3>1. Makes(w, obj)
      BY <1>1, <2>2, ParseMemberFlow
    <3> QED BY <1>2, <3>1, MadeIsInFlow DEF Handled
  <2> QED BY <2>1, <2>2
<1>4. UNCHANGED <<stage, read, out, parsedRelations>> /\ parsedWays' = parsedWays \union {obj}
  BY <1>1 DEF Parse!ParseMember, Parse!readVars
<1> QED BY <1>2, <1>3, <1>4, ParsedKeeps

LEMMA ReadStep ==
  ASSUME ParseTypes, SaveTypes, ReadInv, Next
  PROVE  ReadInv'
<1>1. CASE /\ UNCHANGED <<read, out, job, parsedWays, parsedRelations>>
           /\ stage = "parseFailed" => stage' = "parseFailed"
  BY <1>1, ReadKept DEF Pending
<1>2. CASE (SaveW!Run \/ SaveW!Fault) /\ UNCHANGED parseVars
  BY <1>1, <1>2 DEF parseVars
<1>3. CASE (Parse!Run \/ Parse!Fault) /\ UNCHANGED saveVars
  <2>1. CASE \/ Parse!FillNext \/ (\E r \in Relations : Parse!CacheRel(r)) \/ Parse!FillDone
             \/ Parse!FillAbort \/ Parse!FillFail \/ Parse!ParseDone \/ Parse!CloseParsingDone
    BY <1>1, <2>1 DEF Parse!FillNext, Parse!CacheRel, Parse!FillDone, Parse!FillAbort, Parse!FillFail,
       Parse!ParseDone, Parse!CloseParsingDone, Parse!readVars, Parse!parseVars
  <2>2. ASSUME NEW s \in Sources, Parse!Yield(s) \/ Parse!YieldError(s)
        PROVE  ReadInv'
    BY <2>2, YieldKeeps, YieldErrorKeeps
  <2>3. CASE Parse!ParseAbort
    BY <2>3, ParseAbortKeeps
  <2>4. ASSUME NEW w \in Workers, Parse!SendPoint(w)
        PROVE  ReadInv'
    <3>1. Becomes(w, None, <<>>, Tail(job[w].send)) /\ job[w].obj = None
      BY <2>4, SendJob DEF ParseTypes
    <3>2. UNCHANGED <<stage, read, out, parsedWays, parsedRelations>>
      BY <2>4 DEF Parse!SendPoint, Parse!readVars
    <3>3. \A v \in Workers : job'[v].obj = job[v].obj
      BY <3>1 DEF Becomes
    <3>4. ASSUME NEW obj \in Objects, Pending(obj)
          PROVE  Pending(obj)'
      BY ONLY <3>2, <3>3, <3>4 DEF Pending
    <3> QED BY <3>2, <3>4, ReadKept
  <2> QED
    BY <1>3, <2>1, <2>2, <2>3, <2>4, SubmitKeeps, ParseNodeKeeps, ParseWayKeeps, ParseRelationKeeps,
       ParseMemberKeeps DEF Parse!Run, Parse!Fault, Parse!Work
<1> QED BY <1>2, <1>3 DEF Next, Run, Fault

-----------------------------------------------------------------------------
(* The invariant holds.                                                    *)

LEMMA InitInv == Init => IInv
<1> SUFFICES ASSUME Init PROVE IInv
  OBVIOUS
<1>1. TypeInv
  BY InitTypes
<1>2. CacheInv
  BY DEF Init, Parse!Init, CacheInv
<1>3. \A o \in Outputs : /\ gotPoints[o] = <<>> /\ gotZones[o] = <<>>
                         /\ pointsTee.chs[o] = <<>> /\ zonesTee.chs[o] = <<>>
                         /\ Held(pointsTee, o) = <<>> /\ Held(zonesTee, o) = <<>>
  BY DEF Init, SaveW!Init, SaveW!Outputs, Outputs, SaveW!PointsTee!New, SaveW!ZonesTee!New, Held
<1>4. \A o \in Outputs : Sent(o) = <<>>
  <2>1. points = <<>>
    BY DEF Init, Parse!Init
  <2>2. <<>> \o <<>> = <<>>
    OBVIOUS
  <2> QED BY ONLY <1>3, <2>1, <2>2, SentIsGiven DEF Given
<1>5. SameLog
  BY ONLY <1>4 DEF SameLog
<1>6. WaysInv
  <2>1. Log = <<>>
    BY <1>4, OneIsOutput DEF Log
  <2>2. \A w \in Workers : job[w].send = <<>>
    BY IdleJob DEF Init, Parse!Init
  <2>3. Parse!Elements(<<>>) = {} /\ Once(<<>>)
    BY DEF Parse!Elements, Once
  <2> QED BY ONLY <2>1, <2>2, <2>3 DEF WaysInv, Apart
<1>7. ReadInv
  BY DEF Init, Parse!Init, ReadInv
<1>8. SaveInv
  <2>1. ZonesGiven
    <3>1. zonesRead = 0
      BY DEF Init, SaveW!Init
    <3>2. SubSeq(Zones, 1, 0) = <<>>
      BY SubSeqEmpty
    <3>3. <<>> \o <<>> = <<>>
      OBVIOUS
    <3> QED BY ONLY <1>3, <3>1, <3>2, <3>3 DEF ZonesGiven, Given
  <2> QED BY <2>1 DEF Init, SaveW!Init, SaveW!Outputs, Outputs, SaveW!PointsTee!New, SaveW!ZonesTee!New,
                      SaveInv
<1> QED BY <1>1, <1>2, <1>5, <1>6, <1>7, <1>8 DEF IInv

LEMMA StepInv == IInv /\ [Next]_vars => IInv'
<1> SUFFICES ASSUME IInv, [Next]_vars PROVE IInv'
  OBVIOUS
<1> USE DEF IInv, TypeInv
<1>1. CASE UNCHANGED vars
  <2>1. ParseTypes' /\ StageInv' /\ CacheInv'
    BY <1>1 DEF vars, parseVars, sharedVars, ParseTypes, FillTypes, ReadTypes, JobTypes, IndexTypes,
       ZoneTypes, ChanTypes, FlagTypes, StageInv, Resting, ReadAll, CacheInv
  <2>2. SaveTypes' /\ SaveInv'
    BY <1>1 DEF vars, sharedVars, saveVars, SaveTypes, TeeTypes, SaveInv, ZonesGiven, Given, Held, Zones,
       SaveW!Zones
  <2>3. \A o \in Outputs : Sent(o)' = Sent(o)
    BY <1>1 DEF vars, sharedVars, saveVars, Sent
  <2>4. SameLog' /\ Log' = Log
    BY <2>3, OneIsOutput DEF SameLog, Log
  <2>5. WaysInv'
    BY <1>1, <2>4 DEF vars, parseVars, WaysInv, Once, Apart
  <2>6. ReadInv'
    BY <1>1, <2>4 DEF vars, parseVars, sharedVars, ReadInv, Handled, Flow, Pending
  <2> QED BY <2>1, <2>2, <2>4, <2>5, <2>6
<1>2. ASSUME Next
      PROVE  SameLog' /\ WaysInv' /\ ReadInv'
  <2>1. WaysInv'
    BY <1>2, FlowStep, WaysQuiet, WaysMakes, WaysSends
  <2> QED BY <1>2, <2>1, SameLogStep, ReadStep
<1>3. CASE Next /\ (Parse!Run \/ Parse!Fault) /\ UNCHANGED saveVars
  BY <1>2, <1>3, ParseStepTypes, ParseStepSaveTypes, ParseStepStages, CacheStep, ParseStepSave
<1>4. CASE Next /\ (SaveW!Run \/ SaveW!Fault) /\ UNCHANGED parseVars
  <2>1. CacheInv'
    BY <1>4 DEF CacheInv, parseVars
  <2> QED BY <1>2, <1>4, <2>1, SaveStepTypes, SaveStepSave DEF SaveInv
<1> QED BY <1>1, <1>3, <1>4 DEF Next, Run, Fault

(* Whatever the goroutines of ParseOSMData do (geogen.go:81), the types    *)
(* and phases are in order and the six parts of the invariant hold.        *)
THEOREM GeneratorInvariant == Spec => []IInv
<1>1. Init => IInv
  BY InitInv
<1>2. IInv /\ [Next]_vars => IInv'
  BY StepInv
<1> QED BY <1>1, <1>2, PTL DEF Spec

-----------------------------------------------------------------------------
(* The properties of the run.                                              *)

LEMMA TypesFollow == IInv => TypeOK
<1> SUFFICES ASSUME IInv PROVE TypeOK
  OBVIOUS
<1> USE DEF IInv, TypeInv
<1>1. Parse!TypeOK
  <2>1. stage \in Stages /\ FillTypes /\ IndexTypes /\ ChanTypes /\ FlagTypes
    BY DEF ParseTypes
  <2>2. \A s \in Sources : read[s] \in 0..Len(Input[s])
    BY InputTypes DEF ParseTypes, ReadTypes
  <2>3. Len(out) <= Parse!Cardinality(Sources)
    BY SameCardinality DEF ParseTypes, ReadTypes
  <2>4. \A w \in Workers : job[w].obj \in Nodes \union Ways \union Relations \union {None}
    BY DEF ParseTypes, JobTypes, Jobs, Objects
  <2>5. Parse!Elements(regions) \union Parse!Elements(countries) \subseteq Relations
    BY DEF ParseTypes, ZoneTypes, Parse!Elements
  <2> QED BY ONLY <2>1, <2>2, <2>3, <2>4, <2>5
             DEF Parse!TypeOK, Stages, FillTypes, IndexTypes, ChanTypes, FlagTypes
<1>2. SaveW!TypeOK
  BY DEF SaveTypes, TeeTypes, SaveW!TypeOK, SaveW!Outputs, Outputs, Zones
<1> QED BY <1>1, <1>2 DEF TypeOK

(* TypeOK: every variable has its type, the channels keep to their bounds. *)
THEOREM GeneratorTypes == Spec => []TypeOK
<1>1. IInv => TypeOK
  BY TypesFollow
<1> QED BY <1>1, GeneratorInvariant, PTL

(* CacheBeforePoints: parsing begins when every relation has been read and *)
(* the pool of the caching phase is empty (fill_cache.go:18).              *)
THEOREM CacheAlwaysBeforePoints == Spec => []CacheBeforePoints
<1>1. IInv => CacheBeforePoints
  <2> SUFFICES ASSUME IInv, (\E w \in Workers : job[w] # Parse!Idle) \/ points # <<>>
               PROVE  cached = Parse!Elements(Input[RelationSource])
    BY DEF CacheBeforePoints
  <2>1. stage \notin {"fill", "fillFailed", "failed"}
    BY DEF IInv, TypeInv, StageInv, Resting
  <2>2. /\ cached \union caching = {Input[RelationSource][i] : i \in 1..filled}
        /\ filled = Len(Input[RelationSource]) /\ caching = {}
    BY <2>1 DEF IInv, CacheInv
  <2>3. DOMAIN Input[RelationSource] = 1..filled
    BY <2>2, InputTypes
  <2> QED BY ONLY <2>2, <2>3 DEF Parse!Elements
<1> QED BY <1>1, GeneratorInvariant, PTL

LEMMA PrefixesAgree ==
  ASSUME NEW S, NEW a \in Seq(S), NEW b \in Seq(S), NEW s \in Seq(S), NEW t \in Seq(S),
         a \o s = b \o t, Len(a) <= Len(b)
  PROVE  IsPrefix(a, b)
<1>1. \A i \in 1..Len(a) : (a \o s)[i] = a[i] /\ (b \o t)[i] = b[i]
  OBVIOUS
<1>2. \A i \in 1..Len(a) : a[i] = b[i]
  BY <1>1
<1> DEFINE c == SubSeq(a, 1, Len(a))
           d == SubSeq(b, 1, Len(a))
<1>3. /\ c \in Seq(S) /\ d \in Seq(S) /\ Len(c) = Len(a) /\ Len(d) = Len(a)
      /\ \A i \in 1..Len(a) : c[i] = a[i] /\ d[i] = b[i]
  OBVIOUS
<1> HIDE DEF c, d
<1>4. c = d
  BY ONLY <1>2, <1>3, SeqEqual
<1> QED BY <1>4 DEF IsPrefix, c, d

(* OutputsAgree: every Tee sends an item to all its outputs in turn before *)
(* it takes the next (save.go:109).                                        *)
THEOREM OutputsAlwaysAgree == Spec => []OutputsAgree
<1>1. IInv => OutputsAgree
  <2> SUFFICES ASSUME IInv, NEW o \in Outputs, NEW p \in Outputs
               PROVE  IsPrefix(gotPoints[o], gotPoints[p]) \/ IsPrefix(gotPoints[p], gotPoints[o])
    BY DEF OutputsAgree
  <2>1. ASSUME NEW q \in Outputs
        PROVE  gotPoints[q] \in Seq(AllPoints) /\ \E t \in Seq(AllPoints) : Sent(q) = gotPoints[q] \o t
    <3> DEFINE g == gotPoints[q]
               c == pointsTee.chs[q]
               h == Held(pointsTee, q)
    <3>1. g \in Seq(AllPoints) /\ c \in Seq(AllPoints) /\ h \in Seq(AllPoints) /\ points \in Seq(AllPoints)
      BY GivenType DEF IInv, TypeInv, ParseTypes, ChanTypes, SaveTypes
    <3>2. Sent(q) = ((g \o c) \o h) \o points
      BY SentIsGiven DEF Given
    <3> HIDE DEF g, c, h
    <3>3. ((g \o c) \o h) \o points = g \o (c \o (h \o points))
      <4>1. h \o points \in Seq(AllPoints) /\ g \o c \in Seq(AllPoints)
        BY ONLY <3>1
      <4>2. ((g \o c) \o h) \o points = (g \o c) \o (h \o points)
        BY ONLY <3>1, <4>1, ConcatAssociative, SMTT(30)
      <4>3. (g \o c) \o (h \o points) = g \o (c \o (h \o points))
        BY ONLY <3>1, <4>1, ConcatAssociative, SMTT(30)
      <4> QED BY ONLY <4>2, <4>3
    <3>4. c \o (h \o points) \in Seq(AllPoints)
      BY ONLY <3>1
    <3> QED BY ONLY <3>1, <3>2, <3>3, <3>4 DEF g
  <2>2. PICK s \in Seq(AllPoints) : Sent(o) = gotPoints[o] \o s
    BY <2>1
  <2>3. PICK t \in Seq(AllPoints) : Sent(p) = gotPoints[p] \o t
    BY <2>1
  <2>4. gotPoints[o] \o s = gotPoints[p] \o t
    BY <2>2, <2>3 DEF IInv, SameLog
  <2>5. Len(gotPoints[o]) <= Len(gotPoints[p]) \/ Len(gotPoints[p]) <= Len(gotPoints[o])
    BY <2>1
  <2> QED BY ONLY <2>1, <2>4, <2>5, o \in Outputs, p \in Outputs, s \in Seq(AllPoints),
             t \in Seq(AllPoints), PrefixesAgree
<1> QED BY <1>1, GeneratorInvariant, PTL

(* WaysOnce: SetIfAbsent on the dedup index is the only way to the points  *)
(* of a way (parser.go:80), so of all the goroutines that come to it one   *)
(* makes them, and sends each once.                                        *)
THEOREM WaysAlwaysOnce == Spec => []WaysOnce
<1>1. IInv => WaysOnce
  <2> SUFFICES ASSUME IInv, NEW o \in Outputs, NEW way \in Ways, NEW i \in DOMAIN PointsOf[way]
               PROVE  Cardinality({j \in DOMAIN Sent(o) : Sent(o)[j] = PointsOf[way][i]}) <= 1
    BY DEF WaysOnce
  <2> DEFINE x == PointsOf[way][i]
             places == {j \in DOMAIN Sent(o) : Sent(o)[j] = x}
  <2>1. Sent(o) = Log /\ Once(Log)
    BY OneIsOutput DEF IInv, SameLog, Log, WaysInv
  <2>2. x \in WayPoints
    BY DEF WayPoints, Points
  <2>3. \A j, k \in places : j = k
    BY <2>1, <2>2 DEF Once
  <2> HIDE DEF places, x
  <2>4. places = {} \/ \E j : places = {j}
    BY ONLY <2>3
  <2>5. Cardinality(places) <= 1
    <3>1. CASE places = {}
      <4>1. Cardinality(places) = 0
        BY ONLY <3>1, FS_EmptySet
      <4> QED BY ONLY <4>1
    <3>2. ASSUME NEW j, places = {j}
          PROVE  Cardinality(places) <= 1
      <4>1. Cardinality(places) = 1
        BY ONLY <3>2, FS_Singleton
      <4> QED BY ONLY <4>1
    <3> QED BY ONLY <2>4, <3>1, <3>2
  <2> QED BY <2>5 DEF places, x
<1> QED BY <1>1, GeneratorInvariant, PTL

\* What a saved output has taken.
LEMMA SavedHasAll ==
  ASSUME IInv, NEW o \in Outputs, saver[o] = "saved"
  PROVE  /\ stage \in {"closing", "done"}
         /\ Sent(o) = gotPoints[o]
         /\ gotZones[o] = Zones
<1> USE DEF IInv, TypeInv
<1>1. /\ pointsTee.closed /\ pointsTee.chs[o] = <<>> /\ points = <<>> /\ pointsClosed
      /\ zonesTee.closed /\ zonesTee.chs[o] = <<>> /\ zonesRead = Len(Zones)
  BY DEF SaveInv
<1>2. stage \in {"closing", "done"}
  BY <1>1 DEF StageInv
<1>3. pointsTee.hold = None /\ zonesTee.hold = None
  BY <1>1 DEF SaveTypes, TeeTypes
<1>4. Held(pointsTee, o) = <<>> /\ Held(zonesTee, o) = <<>>
  BY ONLY <1>3 DEF Held
<1>5. gotPoints[o] \in Seq(AllPoints) /\ gotZones[o] \in Seq(Relations) /\ Zones \in Seq(Relations)
  BY ZonesType DEF SaveTypes
<1>6. Sent(o) = ((gotPoints[o] \o <<>>) \o <<>>) \o <<>>
  BY ONLY <1>1, <1>4, SentIsGiven, o \in Outputs DEF Given
<1>7. Sent(o) = gotPoints[o]
  BY ONLY <1>5, <1>6, ConcatEmptySeq
<1>8. (gotZones[o] \o <<>>) \o <<>> = SubSeq(Zones, 1, Len(Zones))
  <2>1. Given(gotZones[o], zonesTee, o) = SubSeq(Zones, 1, zonesRead)
    BY DEF SaveInv, ZonesGiven
  <2> QED BY ONLY <1>1, <1>4, <2>1 DEF Given
<1>9. gotZones[o] = Zones
  <2>1. SubSeq(Zones, 1, Len(Zones)) = Zones
    BY ONLY <1>5, SubSeqFull
  <2>2. (gotZones[o] \o <<>>) \o <<>> = gotZones[o]
    BY ONLY <1>5, ConcatEmptySeq
  <2> QED BY ONLY <1>8, <2>1, <2>2
<1> QED BY <1>2, <1>7, <1>9

\* When the pool has been waited for, everything in the input is handled.
LEMMA AllHandled ==
  ASSUME IInv, stage \in {"closing", "done"}, NEW s \in Sources, NEW obj \in Parse!Elements(Input[s])
  PROVE  obj \in Objects /\ Handled(obj)
<1> USE DEF IInv, TypeInv
<1>1. out = <<>> /\ Resting /\ read[s] = Len(Input[s])
  BY DEF StageInv, ReadAll
<1>2. Parse!Elements(out) = {}
  BY <1>1 DEF Parse!Elements
<1>3. \A t \in Sources : \A i \in 1..read[t] : Pending(Input[t][i]) \/ Handled(Input[t][i])
  BY <1>2 DEF ReadInv
<1>4. PICK i \in 1..Len(Input[s]) : obj = Input[s][i]
  BY InputTypes DEF Parse!Elements
<1>5. obj \in Objects
  BY <1>4, InputTypes
<1>6. ~Pending(obj)
  BY <1>1, <1>2, <1>5, IdleJob, InputAssumption DEF Pending, Resting
<1>7. Pending(obj) \/ Handled(obj)
  BY ONLY <1>1, <1>3, <1>4
<1> QED BY ONLY <1>5, <1>6, <1>7

(* SavedIsComplete: an output ends when its channels have been closed and  *)
(* emptied, which is after the pool of the parsing phase has been waited   *)
(* for, so its file holds all points and zones (geogen.go:85).             *)
THEOREM SavedAlwaysComplete == Spec => []SavedIsComplete
<1>1. IInv => SavedIsComplete
  <2> SUFFICES ASSUME IInv, NEW o \in Outputs, saver[o] = "saved"
               PROVE  /\ \A s \in Sources : \A obj \in Parse!Elements(Input[s]) :
                           Parse!Elements(PointsOf[obj]) \subseteq Parse!Elements(gotPoints[o])
                      /\ gotZones[o] = regions \o countries
                      /\ \A r \in Parse!Elements(Input[RelationSource]) :
                           ZoneOf[r] # "none" => r \in Parse!Elements(gotZones[o])
    BY DEF SavedIsComplete
  <2>1. stage \in {"closing", "done"} /\ Sent(o) = gotPoints[o] /\ gotZones[o] = Zones
    BY SavedHasAll
  <2>2. Flow = Parse!Elements(gotPoints[o])
    <3>1. \A w \in Workers : job[w].send = <<>>
      BY <2>1, IdleJob DEF IInv, TypeInv, StageInv, Resting
    <3>2. Parse!Elements(<<>>) = {}
      BY DEF Parse!Elements
    <3>3. Log = gotPoints[o]
      BY <2>1, OneIsOutput DEF IInv, SameLog, Log
    <3> QED BY ONLY <3>1, <3>2, <3>3 DEF Flow
  <2>3. ASSUME NEW s \in Sources, NEW obj \in Parse!Elements(Input[s])
        PROVE  Parse!Elements(PointsOf[obj]) \subseteq Parse!Elements(gotPoints[o])
    <3>1. obj \in Objects /\ Handled(obj)
      BY <2>1, AllHandled
    <3> QED BY <2>2, <3>1, PointsTypes DEF Handled
  <2>4. Zones = regions \o countries
    BY DEF Zones, SaveW!Zones
  <2>5. ASSUME NEW r \in Parse!Elements(Input[RelationSource]), ZoneOf[r] # "none"
        PROVE  r \in Parse!Elements(gotZones[o])
    <3>1. RelationSource \in Sources
      BY InputAssumption
    <3>2. Handled(r)
      BY <2>1, <3>1, AllHandled
    <3>3. r \in Relations
      BY InputTypes DEF Parse!Elements
    <3>4. ZoneOf[r] = "region" \/ ZoneOf[r] = "country"
      BY <2>5, <3>3, ObjectAssumption
    <3>5. r \in Parse!Elements(regions) \union Parse!Elements(countries)
      BY <3>2, <3>3, <3>4 DEF Handled
    <3>6. Parse!Elements(regions \o countries) = Parse!Elements(regions) \union Parse!Elements(countries)
      BY ElementsOfConcat DEF IInv, TypeInv, ParseTypes, ZoneTypes
    <3> QED BY ONLY <2>1, <2>4, <3>5, <3>6
  <2> QED BY <2>1, <2>3, <2>4, <2>5
<1> QED BY <1>1, GeneratorInvariant, PTL
=============================================================================
