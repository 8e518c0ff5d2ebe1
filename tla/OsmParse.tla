------------------------------ MODULE OsmParse ------------------------------
(***************************************************************************)
(* The producing half of geoparser.ParseOSMData: fillRelCache runs cacheRel*)
(* on every relation in a pool, then parseDatabase reads nodes, ways and   *)
(* relations through iterConcurrently and parses each object in another    *)
(* pool, whose goroutines send the points they make to the parsedPoints    *)
(* channel and append zones under a mutex.  Both loops stop at the first   *)
(* read error.                                                             *)
(*                                                                         *)
(* An object is an identifier; what its tags make of it is given by the    *)
(* constants PointsOf, MembersOf and ZoneOf.  The names and coordinates of *)
(* points are left out.                                                    *)
(***************************************************************************)
EXTENDS Integers, Sequences, FiniteSets

CONSTANTS
  Nodes, Ways, Relations,  \* identifiers of the objects in the input
  Sources,                 \* the iterators that iterConcurrently merges
  Input,                   \* what each source yields, in order
  RelationSource,          \* the source that fillRelCache reads first
  PointsOf,                \* the points an object makes by itself
  MembersOf,               \* the ways a highway relation parses
  ZoneOf,                  \* "region", "country" or "none" for a relation
  Workers,                 \* the goroutines of a pool (config.Threads)
  PointCap,                \* capacity of parsedPoints
  None,                    \* no object
  Err                      \* a read error

VARIABLES
  stage,          \* where the generating goroutine is
  filled,         \* relations read by fillRelCache
  caching,        \* relations whose cacheRel is running
  cached,         \* relations whose cacheRel has returned
  read,           \* how much each source has yielded to iterConcurrently
  out,            \* iterConcurrently's channel
  job,            \* what each goroutine of the parsing pool is doing
  parsedWays,     \* the dedup index of ways
  parsedRelations,
  regions, countries,
  points,         \* the parsedPoints channel
  pointsClosed,
  parsingDone,    \* the parsingDone channel is closed
  readFailed      \* an iterator has reported an error (history)

fillVars  == <<filled, caching, cached>>
readVars  == <<read, out>>
parseVars == <<job, parsedWays, parsedRelations>>
zoneVars  == <<regions, countries>>
chanVars  == <<points, pointsClosed, parsingDone>>

Job(obj, members, send) == [obj |-> obj, members |-> members, send |-> send]
Idle == Job(None, <<>>, <<>>)

Elements(seq) == {seq[i] : i \in DOMAIN seq}

Init ==
  /\ stage = "fill"
  /\ filled = 0 /\ caching = {} /\ cached = {}
  /\ read = [s \in Sources |-> 0] /\ out = <<>>
  /\ job = [w \in Workers |-> Idle]
  /\ parsedWays = {} /\ parsedRelations = {}
  /\ regions = <<>> /\ countries = <<>>
  /\ points = <<>> /\ pointsClosed = FALSE /\ parsingDone = FALSE
  /\ readFailed = FALSE

-----------------------------------------------------------------------------
(* fillRelCache: its deferred pool.Wait ends the phase on both paths.      *)

FillNext ==
  /\ stage = "fill"
  /\ filled < Len(Input[RelationSource])
  /\ Cardinality(caching) < Cardinality(Workers)
  /\ filled' = filled + 1
  /\ caching' = caching \union {Input[RelationSource][filled + 1]}
  /\ UNCHANGED <<stage, cached, readVars, parseVars, zoneVars, chanVars, readFailed>>

CacheRel(r) ==
  /\ r \in caching
  /\ caching' = caching \ {r}
  /\ cached' = cached \union {r}
  /\ UNCHANGED <<stage, filled, readVars, parseVars, zoneVars, chanVars, readFailed>>

FillFail ==
  /\ stage = "fill"
  /\ filled < Len(Input[RelationSource])
  /\ stage' = "fillFailed"
  /\ readFailed' = TRUE
  /\ UNCHANGED <<fillVars, readVars, parseVars, zoneVars, chanVars>>

\* Mutant: parseDatabase starts without waiting for the pool.
FillDoneUnwaited ==
  /\ stage = "fill"
  /\ filled = Len(Input[RelationSource])
  /\ stage' = "parse"
  /\ UNCHANGED <<fillVars, readVars, parseVars, zoneVars, chanVars, readFailed>>

\* pool.Wait, then on to parseDatabase.
FillDone ==
  /\ stage = "fill"
  /\ filled = Len(Input[RelationSource])
  /\ caching = {}
  /\ stage' = "parse"
  /\ UNCHANGED <<fillVars, readVars, parseVars, zoneVars, chanVars, readFailed>>

\* pool.Wait, then the error is returned and the channels stay open.
FillAbort ==
  /\ stage = "fillFailed"
  /\ caching = {}
  /\ stage' = "failed"
  /\ UNCHANGED <<fillVars, readVars, parseVars, zoneVars, chanVars, readFailed>>

-----------------------------------------------------------------------------
(* iterConcurrently: a goroutine per source, all writing to one channel    *)
(* with room for one element of each.  They run on when the loop that      *)
(* reads the channel has returned.                                         *)

Reading == stage \in {"parse", "parseFailed"}

Yield(s) ==
  /\ Reading
  /\ read[s] < Len(Input[s])
  /\ Len(out) < Cardinality(Sources)
  /\ out' = Append(out, Input[s][read[s] + 1])
  /\ read' = [read EXCEPT ![s] = @ + 1]
  /\ UNCHANGED <<stage, fillVars, parseVars, zoneVars, chanVars, readFailed>>

\* The source yields its error and ends.
YieldError(s) ==
  /\ Reading
  /\ read[s] < Len(Input[s])
  /\ Len(out) < Cardinality(Sources)
  /\ out' = Append(out, Err)
  /\ read' = [read EXCEPT ![s] = Len(Input[s])]
  /\ readFailed' = TRUE
  /\ UNCHANGED <<stage, fillVars, parseVars, zoneVars, chanVars>>

-----------------------------------------------------------------------------
(* parseDatabase and the goroutines of its pool.                           *)

\* The loop takes an object; pool.Go waits for a free goroutine.
Submit(w) ==
  /\ stage = "parse"
  /\ out # <<>>
  /\ Head(out) # Err
  /\ job[w] = Idle
  /\ out' = Tail(out)
  /\ job' = [job EXCEPT ![w] = Job(Head(out), <<>>, <<>>)]
  /\ UNCHANGED <<stage, fillVars, read, parsedWays, parsedRelations, zoneVars,
                 chanVars, readFailed>>

\* The loop takes an error and returns it: the pool is not waited for.
ParseAbort ==
  /\ stage = "parse"
  /\ out # <<>>
  /\ Head(out) = Err
  /\ out' = Tail(out)
  /\ stage' = "parseFailed"
  /\ UNCHANGED <<fillVars, read, parseVars, zoneVars, chanVars, readFailed>>

\* Mutant: ways are not deduplicated.
FreshWayAlways(way) == TRUE

\* parseWay begins with SetIfAbsent on the dedup index.
FreshWay(way) == way \notin parsedWays
FreshRelation(r) == r \notin parsedRelations

ParseNode(w) ==
  /\ job[w].obj \in Nodes
  /\ job' = [job EXCEPT ![w] = Job(None, <<>>, PointsOf[job[w].obj])]
  /\ UNCHANGED <<stage, fillVars, readVars, parsedWays, parsedRelations,
                 zoneVars, chanVars, readFailed>>

ParseWay(w) ==
  LET way == job[w].obj
  IN  /\ way \in Ways
      /\ parsedWays' = parsedWays \union {way}
      /\ job' = [job EXCEPT ![w] =
                   IF FreshWay(way) THEN Job(None, <<>>, PointsOf[way]) ELSE Idle]
      /\ UNCHANGED <<stage, fillVars, readVars, parsedRelations, zoneVars,
                     chanVars, readFailed>>

\* An administrative boundary is appended to the list of its level.
WithZone(list, r, kind) ==
  IF FreshRelation(r) /\ ZoneOf[r] = kind THEN Append(list, r) ELSE list

\* The dedup and the append to a zone list are two critical sections; nothing
\* reads the lists before the pool has been waited for, so they are one step.
ParseRelation(w) ==
  LET r == job[w].obj
  IN  /\ r \in Relations
      /\ parsedRelations' = parsedRelations \union {r}
      /\ regions' = WithZone(regions, r, "region")
      /\ countries' = WithZone(countries, r, "country")
      /\ job' = [job EXCEPT ![w] =
                   IF FreshRelation(r) THEN Job(None, MembersOf[r], PointsOf[r])
                                       ELSE Idle]
      /\ UNCHANGED <<stage, fillVars, readVars, parsedWays, chanVars, readFailed>>

\* parseRelationHighway calls parseWay on each member and gathers the points.
ParseMember(w) ==
  /\ job[w].members # <<>>
  /\ LET way == Head(job[w].members)
     IN  /\ parsedWays' = parsedWays \union {way}
         /\ job' = [job EXCEPT
                      ![w].members = Tail(@),
                      ![w].send = IF FreshWay(way) THEN @ \o PointsOf[way] ELSE @]
  /\ UNCHANGED <<stage, fillVars, readVars, parsedRelations, zoneVars, chanVars,
                 readFailed>>

\* Mutant: the channel has no bound.
SendPointUnbounded(w) ==
  /\ job[w].obj = None
  /\ job[w].members = <<>>
  /\ job[w].send # <<>>
  /\ points' = Append(points, Head(job[w].send))
  /\ job' = [job EXCEPT ![w].send = Tail(@)]
  /\ UNCHANGED <<stage, fillVars, readVars, parsedWays, parsedRelations, zoneVars,
                 pointsClosed, parsingDone, readFailed>>

SendPoint(w) ==
  /\ job[w].obj = None
  /\ job[w].members = <<>>
  /\ job[w].send # <<>>
  /\ Len(points) < PointCap
  /\ points' = Append(points, Head(job[w].send))
  /\ job' = [job EXCEPT ![w].send = Tail(@)]
  /\ UNCHANGED <<stage, fillVars, readVars, parsedWays, parsedRelations, zoneVars,
                 pointsClosed, parsingDone, readFailed>>

\* Mutant: parseDatabase returns without waiting for the pool.
ParseDoneUnwaited ==
  /\ stage = "parse"
  /\ out = <<>>
  /\ \A s \in Sources : read[s] = Len(Input[s])
  /\ stage' = "closing"
  /\ pointsClosed' = TRUE
  /\ UNCHANGED <<fillVars, readVars, parseVars, zoneVars, points, parsingDone,
                 readFailed>>

\* Mutant: parsedPoints is left open.
ParseDoneOpen ==
  /\ stage = "parse"
  /\ out = <<>>
  /\ \A s \in Sources : read[s] = Len(Input[s])
  /\ \A w \in Workers : job[w] = Idle
  /\ stage' = "closing"
  /\ UNCHANGED <<fillVars, readVars, parseVars, zoneVars, chanVars, readFailed>>

\* The loop ends, pool.Wait returns and ParseOSMData closes parsedPoints.
ParseDone ==
  /\ stage = "parse"
  /\ out = <<>>
  /\ \A s \in Sources : read[s] = Len(Input[s])
  /\ \A w \in Workers : job[w] = Idle
  /\ stage' = "closing"
  /\ pointsClosed' = TRUE
  /\ UNCHANGED <<fillVars, readVars, parseVars, zoneVars, points, parsingDone,
                 readFailed>>

CloseParsingDone ==
  /\ stage = "closing"
  /\ stage' = "done"
  /\ parsingDone' = TRUE
  /\ UNCHANGED <<fillVars, readVars, parseVars, zoneVars, points, pointsClosed,
                 readFailed>>

-----------------------------------------------------------------------------
Work(w) ==
  \/ Submit(w)
  \/ ParseNode(w)
  \/ ParseWay(w)
  \/ ParseRelation(w)
  \/ ParseMember(w)
  \/ SendPoint(w)

\* What runs by itself: everything but a read error.
Run ==
  \/ FillNext
  \/ \E r \in Relations : CacheRel(r)
  \/ FillDone
  \/ FillAbort
  \/ \E s \in Sources : Yield(s)
  \/ \E w \in Workers : Work(w)
  \/ ParseAbort
  \/ ParseDone
  \/ CloseParsingDone

Fault ==
  \/ FillFail
  \/ \E s \in Sources : YieldError(s)

\* The generating goroutine has returned, with or without an error.
ParseReturned == stage \in {"done", "failed", "parseFailed"}

-----------------------------------------------------------------------------
TypeOK ==
  /\ stage \in {"fill", "fillFailed", "failed", "parse", "parseFailed",
                "closing", "done"}
  /\ filled \in 0..Len(Input[RelationSource])
  /\ caching \subseteq Relations
  /\ cached \subseteq Relations
  /\ \A s \in Sources : read[s] \in 0..Len(Input[s])
  /\ Len(out) <= Cardinality(Sources)
  /\ \A w \in Workers : job[w].obj \in Nodes \union Ways \union Relations \union {None}
  /\ parsedWays \subseteq Ways
  /\ parsedRelations \subseteq Relations
  /\ Elements(regions) \union Elements(countries) \subseteq Relations
  /\ Len(points) <= PointCap
  /\ {pointsClosed, parsingDone, readFailed} \subseteq BOOLEAN
=============================================================================
