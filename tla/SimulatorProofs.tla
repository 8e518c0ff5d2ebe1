--------------------------- MODULE SimulatorProofs ---------------------------
(***************************************************************************)
(* Theorems about the multi-address handler alone, for any requests, any   *)
(* number of them at a time, any number of points and any GOMAXPROCS; then *)
(* about the simulator and the servers composed: whatever its workers do,  *)
(* each server sees a behaviour of module Server, so what is proved of the *)
(* handler holds under the simulator's load; and what the simulator counts *)
(* and compares is exact.                                                  *)
(***************************************************************************)
EXTENDS Simulator, SequenceTheorems, FiniteSetTheorems, TLAPS

-----------------------------------------------------------------------------
(* The handler.                                                            *)

Points == DOMAIN Find
Answers == {NoInfo} \cup {Find[p] : p \in Points}
Places == {"idle", "sent", "got", "decoded", "finding", "replied"}
Tables(S) == UNION {[1..n -> S] : n \in Nat}

\* What the variables are functions of; no slice of the pool has an array,
\* as what is put back is what was taken and a new slice has none, so the
\* array of a request is its own.
Types ==
  /\ procs \in [Servers \ Rust -> Procs]
  /\ pool \in [Servers -> SUBSET {NewSlice}]
  /\ mem \in [Requests -> Seq(Points)]
  /\ at \in [Requests -> Places]
  /\ header \in [Requests -> {NewSlice}]
  /\ array \in [Requests -> Requests \cup {None}]
  /\ \A q \in Requests : array[q] \in {q, None}
  /\ tasks \in [Requests -> Seq(Nat)]
  /\ fed \in [Requests -> Nat]
  /\ closed \in [Requests -> BOOLEAN]
  /\ holds \in [Requests -> Tables(Nat)]
  /\ finished \in [Requests -> SUBSET Nat]
  /\ result \in [Requests -> Tables(Answers)]
  /\ DOMAIN reply = Requests

\* Nothing of the workers exists yet.
Unstarted(q) ==
  /\ tasks[q] = <<>> /\ fed[q] = 0 /\ ~closed[q]
  /\ holds[q] = <<>> /\ finished[q] = {} /\ result[q] = <<>>

\* The points of a decoded request are in an array of its own.
OwnPoints(q) ==
  at[q] \in {"decoded", "finding", "replied"} /\ Body[q] # Bad /\ Home[q] \notin Rust =>
    Size(q) = 0 \/ (array[q] = q /\ mem[q] = Body[q])

\* Where index i is: in the channel, with a worker, or answered.
Accounted(q, i) ==
  \/ \E k \in 1..Len(tasks[q]) : tasks[q][k] = i
  \/ \E t \in 1..Threads(q) : holds[q][t] = i
  \/ result[q][i] = Find[Body[q][i]]

\* The state of the workers of a request.
Pooled(q) ==
  /\ Body[q] # Bad /\ Parallel(q)
  /\ at[q] \in {"finding", "replied"}
  /\ result[q] \in [1..Size(q) -> Answers]
  /\ holds[q] \in [1..Threads(q) -> 0..fed[q]]
  /\ finished[q] \subseteq 1..Threads(q)
  /\ fed[q] <= Size(q)
  /\ tasks[q] \in Seq(1..fed[q])
  /\ \A i \in 1..fed[q] : Accounted(q, i)
  /\ closed[q] => fed[q] = Size(q)
  /\ finished[q] # {} => closed[q] /\ tasks[q] = <<>>
  /\ \A t \in finished[q] : holds[q][t] = 0
  /\ Threads(q) = 0 => fed[q] = 0 /\ \A i \in 1..Size(q) : result[q][i] = NoInfo

Correct(q) ==
  reply[q] # None =>
    reply[q] =
      IF Body[q] = Bad THEN BadRequest
      ELSE OK([i \in 1..Size(q) |->
                 IF Parallel(q) /\ Threads(q) = 0 THEN NoInfo ELSE Find[Body[q][i]]])

RequestInv(q) ==
  /\ at[q] \in {"got", "decoded", "finding"} => Home[q] \notin Rust
  /\ at[q] \in {"decoded", "finding"} => Body[q] # Bad
  /\ at[q] = "finding" => result[q] # <<>>
  /\ OwnPoints(q)
  /\ Unstarted(q) \/ Pooled(q)
  /\ Correct(q)

IInv == Types /\ \A q \in Requests : RequestInv(q)

-----------------------------------------------------------------------------
\* The number of threads is a natural number.
LEMMA ThreadsNat ==
  ASSUME Types, NEW q \in Requests, Body[q] # Bad, Home[q] \notin Rust
  PROVE  Threads(q) \in Nat /\ Size(q) \in Nat
<1>1. Body[q] \in Seq(Points)
  BY ServerAssumption DEF ServerAssumption, Points
<1>2. Size(q) \in Nat
  BY <1>1 DEF Size
<1>3. procs[Home[q]] \in Nat \ {0}
  BY ServerAssumption DEF ServerAssumption, Types
<1>4. procs[Home[q]] \div 2 \in Nat
  BY <1>3
<1>5. Size(q) \div PointsPerThread \in Int
  BY <1>2, ServerAssumption DEF ServerAssumption
<1>6. MaxOf(2, Size(q) \div PointsPerThread) \in Nat
  BY <1>5 DEF MaxOf
<1> QED
  BY <1>2, <1>4, <1>6 DEF Threads, MinOf

\* What a step of another request leaves alone keeps the invariant of r.
LEMMA Untouched ==
  ASSUME NEW r \in Requests, RequestInv(r), procs' = procs,
         mem'[r] = mem[r], at'[r] = at[r], array'[r] = array[r],
         reply'[r] = reply[r], tasks'[r] = tasks[r], fed'[r] = fed[r],
         closed'[r] = closed[r], holds'[r] = holds[r],
         finished'[r] = finished[r], result'[r] = result[r]
  PROVE  RequestInv(r)'
  BY DEF RequestInv, OwnPoints, Unstarted, Pooled, Accounted, Correct, Threads, Parallel, Size

LEMMA InitInv == ServerInit => IInv
<1> SUFFICES ASSUME ServerInit PROVE IInv
  OBVIOUS
<1>1. <<>> \in Tables(Nat) /\ <<>> \in Tables(Answers)
  <2>1. <<>> \in [1..0 -> Nat] /\ <<>> \in [1..0 -> Answers]
    OBVIOUS
  <2> QED
    BY <2>1 DEF Tables
<1>2. Types
  BY <1>1 DEF ServerInit, Types, NewSlice, Places
<1>3. ASSUME NEW q \in Requests PROVE RequestInv(q)
  BY DEF ServerInit, RequestInv, OwnPoints, Unstarted, Correct
<1> QED
  BY <1>2, <1>3 DEF IInv

-----------------------------------------------------------------------------
(* One lemma per step of a handler.                                        *)

LEMMA SendInv ==
  ASSUME IInv, NEW q \in Requests, Send(q)
  PROVE  IInv'
<1>1. Types'
  BY DEF IInv, Types, Send, Places, poolVars
<1>2. RequestInv(q)'
  <2>1. Unstarted(q) /\ Correct(q) /\ at'[q] = "sent" /\ UNCHANGED <<procs, reply, poolVars>>
    BY DEF IInv, Types, RequestInv, Pooled, Send
  <2>2. Unstarted(q)' /\ Correct(q)'
    BY <2>1 DEF Unstarted, Correct, poolVars, Parallel, Threads, Size
  <2> QED
    BY <2>1, <2>2 DEF RequestInv, OwnPoints
<1>3. ASSUME NEW r \in Requests, r # q PROVE RequestInv(r)'
  <2>1. RequestInv(r)
    BY DEF IInv
  <2>2. /\ procs' = procs /\ mem'[r] = mem[r] /\ at'[r] = at[r] /\ array'[r] = array[r]
        /\ reply'[r] = reply[r] /\ tasks'[r] = tasks[r] /\ fed'[r] = fed[r]
        /\ closed'[r] = closed[r] /\ holds'[r] = holds[r]
        /\ finished'[r] = finished[r] /\ result'[r] = result[r]
    BY <1>3 DEF IInv, Types, Send, handlerVars, poolVars
  <2> QED
    BY <2>1, <2>2, Untouched
<1> QED
  BY <1>1, <1>2, <1>3 DEF IInv

LEMMA GetInv ==
  ASSUME IInv, NEW q \in Requests, Get(q)
  PROVE  IInv'
<1>1. Home[q] \in Servers
  BY ServerAssumption DEF ServerAssumption
<1>2. Types'
  BY <1>1 DEF IInv, Types, Get, Places, poolVars
<1>3. RequestInv(q)'
  <2>1. Unstarted(q) /\ Correct(q) /\ at'[q] = "got" /\ Home[q] \notin Rust /\ UNCHANGED <<procs, reply, poolVars>>
    BY DEF IInv, Types, RequestInv, Pooled, Get
  <2>2. Unstarted(q)' /\ Correct(q)'
    BY <2>1 DEF Unstarted, Correct, poolVars, Parallel, Threads, Size
  <2> QED
    BY <2>1, <2>2 DEF RequestInv, OwnPoints
<1>4. ASSUME NEW r \in Requests, r # q PROVE RequestInv(r)'
  <2>1. RequestInv(r)
    BY DEF IInv
  <2>2. /\ procs' = procs /\ mem'[r] = mem[r] /\ at'[r] = at[r] /\ array'[r] = array[r]
        /\ reply'[r] = reply[r] /\ tasks'[r] = tasks[r] /\ fed'[r] = fed[r]
        /\ closed'[r] = closed[r] /\ holds'[r] = holds[r]
        /\ finished'[r] = finished[r] /\ result'[r] = result[r]
    BY <1>4 DEF IInv, Types, Get, handlerVars, poolVars
  <2> QED
    BY <2>1, <2>2, Untouched
<1> QED
  BY <1>2, <1>3, <1>4 DEF IInv

LEMMA RejectBodyInv ==
  ASSUME IInv, NEW q \in Requests, RejectBody(q)
  PROVE  IInv'
<1>1. Home[q] \in Servers
  BY ServerAssumption DEF ServerAssumption
<1>2. Types'
  BY <1>1 DEF IInv, Types, RejectBody, Answer, Returned, Places, poolVars
<1>3. RequestInv(q)'
  BY DEF IInv, RequestInv, OwnPoints, Unstarted, Pooled, Correct, RejectBody, Answer, Types,
         poolVars, Parallel, Size, Threads
<1>4. ASSUME NEW r \in Requests, r # q PROVE RequestInv(r)'
  <2>1. RequestInv(r)
    BY DEF IInv
  <2>2. /\ procs' = procs /\ mem'[r] = mem[r] /\ at'[r] = at[r] /\ array'[r] = array[r]
        /\ reply'[r] = reply[r] /\ tasks'[r] = tasks[r] /\ fed'[r] = fed[r]
        /\ closed'[r] = closed[r] /\ holds'[r] = holds[r]
        /\ finished'[r] = finished[r] /\ result'[r] = result[r]
    BY <1>4 DEF IInv, Types, RejectBody, Answer, handlerVars, poolVars
  <2> QED
    BY <2>1, <2>2, Untouched
<1> QED
  BY <1>2, <1>3, <1>4 DEF IInv

LEMMA RustHandleInv ==
  ASSUME IInv, NEW q \in Requests, RustHandle(q)
  PROVE  IInv'
<1>1. Types'
  BY DEF IInv, Types, RustHandle, Places, poolVars
<1>2. RequestInv(q)'
  <2>1. Unstarted(q) /\ at'[q] = "replied" /\ Home[q] \in Rust /\ UNCHANGED <<procs, poolVars>>
    BY DEF IInv, Types, RequestInv, Pooled, RustHandle
  <2>2. ~Parallel(q)
    BY <2>1 DEF Parallel
  <2>3. Unstarted(q)'
    BY <2>1 DEF Unstarted, poolVars
  <2>4. reply'[q] = IF Body[q] = Bad THEN BadRequest
                    ELSE OK([i \in 1..Size(q) |-> Find[Body[q][i]]])
    BY DEF RustHandle, IInv, Types
  <2>5. Correct(q)'
    BY <2>2, <2>4 DEF Correct, Parallel, Threads, Size
  <2> QED
    BY <2>1, <2>3, <2>5 DEF RequestInv, OwnPoints
<1>3. ASSUME NEW r \in Requests, r # q PROVE RequestInv(r)'
  <2>1. RequestInv(r)
    BY DEF IInv
  <2>2. /\ procs' = procs /\ mem'[r] = mem[r] /\ at'[r] = at[r] /\ array'[r] = array[r]
        /\ reply'[r] = reply[r] /\ tasks'[r] = tasks[r] /\ fed'[r] = fed[r]
        /\ closed'[r] = closed[r] /\ holds'[r] = holds[r]
        /\ finished'[r] = finished[r] /\ result'[r] = result[r]
    BY <1>3 DEF IInv, Types, RustHandle, handlerVars, poolVars
  <2> QED
    BY <2>1, <2>2, Untouched
<1> QED
  BY <1>1, <1>2, <1>3 DEF IInv

\* A pooled slice has no capacity, so decoding allocates an array for q.
LEMMA DecodeInv ==
  ASSUME IInv, NEW q \in Requests, Decode(q)
  PROVE  IInv'
<1>1. Body[q] \in Seq(Points)
  BY ServerAssumption DEF ServerAssumption, Points, Decode
<1>2. header[q] = [arr |-> None, cap |-> 0]
  BY DEF IInv, Types, NewSlice
<1>3. /\ Body[q] \in Seq(Points) /\ Size(q) \in Nat /\ None \notin Requests
      /\ header[q].arr = None /\ header[q].cap = 0
  BY <1>1, <1>2, ServerAssumption DEF ServerAssumption, Size
<1>4. /\ Size(q) > 0 => /\ array' = [array EXCEPT ![q] = q]
                        /\ mem' = [mem EXCEPT ![q] = Body[q]]
      /\ Size(q) = 0 => array' = [array EXCEPT ![q] = None] /\ mem' = mem
  <2> DEFINE arr == IF header[q].cap < Size(q) THEN q ELSE header[q].arr
  <2>1. /\ array' = [array EXCEPT ![q] = arr]
        /\ mem' = IF arr = None THEN mem ELSE [mem EXCEPT ![arr] = Body[q]]
    BY DEF Decode
  <2>2. Size(q) > 0 => arr = q /\ arr # None
    BY <1>3
  <2>3. Size(q) = 0 => arr = None
    BY <1>3
  <2> HIDE DEF arr
  <2> QED
    BY <1>3, <2>1, <2>2, <2>3
<1>5. Types'
  BY <1>3, <1>4 DEF IInv, Types, Decode, Places, poolVars
<1>6. RequestInv(q)'
  <2>1. at'[q] = "decoded" /\ Unstarted(q) /\ UNCHANGED poolVars /\ reply' = reply
        /\ Body[q] # Bad /\ Home[q] \notin Rust /\ Correct(q)
    BY DEF IInv, Types, RequestInv, Pooled, Decode
  <2>2. OwnPoints(q)'
    BY <1>3, <1>4 DEF OwnPoints, IInv, Types, Size
  <2>3. Unstarted(q)' /\ Correct(q)'
    BY <2>1 DEF Unstarted, Correct, poolVars, Parallel, Threads, Size, Decode
  <2> QED
    BY <2>1, <2>2, <2>3 DEF RequestInv
<1>7. ASSUME NEW r \in Requests, r # q PROVE RequestInv(r)'
  <2>1. RequestInv(r)
    BY DEF IInv
  <2>2. mem'[r] = mem[r] /\ array'[r] = array[r]
    BY <1>3, <1>4, <1>7 DEF IInv, Types
  <2>3. /\ procs' = procs /\ at'[r] = at[r] /\ reply'[r] = reply[r] /\ tasks'[r] = tasks[r]
        /\ fed'[r] = fed[r] /\ closed'[r] = closed[r] /\ holds'[r] = holds[r]
        /\ finished'[r] = finished[r] /\ result'[r] = result[r]
    BY <1>7 DEF IInv, Types, Decode, poolVars
  <2> QED
    BY <2>1, <2>2, <2>3, Untouched
<1> QED
  BY <1>5, <1>6, <1>7 DEF IInv

LEMMA FindInOrderInv ==
  ASSUME IInv, NEW q \in Requests, FindInOrder(q)
  PROVE  IInv'
<1>1. Home[q] \in Servers
  BY ServerAssumption DEF ServerAssumption
<1>2. Types'
  BY <1>1 DEF IInv, Types, FindInOrder, Answer, Returned, Places, poolVars
<1>3. RequestInv(q)'
  <2>1. /\ at[q] = "decoded" /\ at'[q] = "replied" /\ Home[q] \notin Rust /\ Body[q] # Bad
        /\ Unstarted(q) /\ OwnPoints(q) /\ UNCHANGED <<procs, mem, array, poolVars>>
    BY DEF IInv, Types, RequestInv, Pooled, FindInOrder, Answer
  <2>2. Size(q) \in Nat /\ ~Parallel(q)
    BY <2>1, ServerAssumption, ThreadsNat DEF IInv, FindInOrder, Parallel, ServerAssumption
  <2>3. ASSUME NEW i \in 1..Size(q) PROVE Find[Point(q, i)] = Find[Body[q][i]]
    BY <2>1, <2>2 DEF OwnPoints, Point
  <2>4. reply'[q] = OK([i \in 1..Size(q) |-> Find[Body[q][i]]])
    BY <2>3 DEF FindInOrder, Answer, IInv, Types
  <2>5. Correct(q)'
    BY <2>1, <2>2, <2>4 DEF Correct, Parallel, Threads, Size
  <2> QED
    BY <2>1, <2>5 DEF RequestInv, OwnPoints, Unstarted, Size, poolVars
<1>4. ASSUME NEW r \in Requests, r # q PROVE RequestInv(r)'
  <2>1. RequestInv(r)
    BY DEF IInv
  <2>2. /\ procs' = procs /\ mem'[r] = mem[r] /\ at'[r] = at[r] /\ array'[r] = array[r]
        /\ reply'[r] = reply[r] /\ tasks'[r] = tasks[r] /\ fed'[r] = fed[r]
        /\ closed'[r] = closed[r] /\ holds'[r] = holds[r]
        /\ finished'[r] = finished[r] /\ result'[r] = result[r]
    BY <1>4 DEF IInv, Types, FindInOrder, Answer, handlerVars, poolVars
  <2> QED
    BY <2>1, <2>2, Untouched
<1> QED
  BY <1>2, <1>3, <1>4 DEF IInv

\* A sequence that starts the workers: no index has been fed yet.
LEMMA StartWorkersInv ==
  ASSUME IInv, NEW q \in Requests, StartWorkers(q)
  PROVE  IInv'
<1>1. /\ at[q] = "decoded" /\ Home[q] \notin Rust /\ Body[q] # Bad /\ Unstarted(q)
      /\ OwnPoints(q) /\ Correct(q) /\ Types
  BY DEF IInv, Types, RequestInv, Pooled, StartWorkers
<1>2. Threads(q) \in Nat /\ Size(q) \in Nat /\ Parallel(q) /\ Size(q) > 0
  BY <1>1, ThreadsNat, ServerAssumption DEF StartWorkers, Parallel, ServerAssumption
<1>3. [i \in 1..Size(q) |-> NoInfo] \in [1..Size(q) -> Answers]
  BY DEF Answers
<1>4. [t \in 1..Threads(q) |-> 0] \in [1..Threads(q) -> 0..0]
  OBVIOUS
<1>5. /\ result'[q] = [i \in 1..Size(q) |-> NoInfo]
      /\ holds'[q] = [t \in 1..Threads(q) |-> 0]
      /\ at'[q] = "finding"
      /\ UNCHANGED <<procs, pool, mem, header, array, reply, tasks, fed, closed, finished>>
  BY <1>1 DEF StartWorkers, Types
<1>6. Types'
  <2>1. [i \in 1..Size(q) |-> NoInfo] \in Tables(Answers)
    BY <1>2, <1>3 DEF Tables
  <2>2. [t \in 1..Threads(q) |-> 0] \in Tables(Nat)
    BY <1>2 DEF Tables
  <2> QED
    BY <1>1, <2>1, <2>2 DEF Types, StartWorkers, Places
<1>7. RequestInv(q)'
  <2>1. Threads(q)' = Threads(q) /\ Size(q)' = Size(q) /\ Parallel(q)' = Parallel(q)
    BY <1>5 DEF Threads, Size, Parallel
  <2>2. Pooled(q)'
    <3>1. fed'[q] = 0 /\ tasks'[q] = <<>> /\ ~closed'[q] /\ finished'[q] = {}
      BY <1>1, <1>5 DEF Unstarted
    <3>2. tasks'[q] \in Seq(1..fed'[q])
      BY <3>1
    <3> QED
      BY <1>1, <1>2, <1>3, <1>4, <1>5, <2>1, <3>1, <3>2 DEF Pooled, Accounted
  <2>3. OwnPoints(q)' /\ Correct(q)'
    BY <1>1, <1>5, <2>1 DEF OwnPoints, Correct
  <2>4. result'[q] # <<>>
    BY <1>2, <1>5
  <2> QED
    BY <1>1, <1>5, <2>2, <2>3, <2>4 DEF RequestInv
<1>8. ASSUME NEW r \in Requests, r # q PROVE RequestInv(r)'
  <2>1. RequestInv(r)
    BY DEF IInv
  <2>2. /\ procs' = procs /\ mem'[r] = mem[r] /\ at'[r] = at[r] /\ array'[r] = array[r]
        /\ reply'[r] = reply[r] /\ tasks'[r] = tasks[r] /\ fed'[r] = fed[r]
        /\ closed'[r] = closed[r] /\ holds'[r] = holds[r]
        /\ finished'[r] = finished[r] /\ result'[r] = result[r]
    BY <1>8 DEF IInv, Types, StartWorkers, handlerVars, poolVars
  <2> QED
    BY <2>1, <2>2, Untouched
<1> QED
  BY <1>6, <1>7, <1>8 DEF IInv

\* What holds of a request whose workers exist, whatever step they take.
LEMMA PooledFacts ==
  ASSUME IInv, NEW q \in Requests, Pooled(q)
  PROVE  /\ Types /\ Threads(q) \in Nat /\ Size(q) \in Nat /\ Size(q) > 0
         /\ Home[q] \notin Rust /\ Body[q] # Bad
         /\ OwnPoints(q) /\ Correct(q) /\ result[q] # <<>>
         /\ array[q] = q /\ mem[q] = Body[q]
<1>1. /\ Types /\ Home[q] \notin Rust /\ Body[q] # Bad /\ OwnPoints(q) /\ Correct(q)
      /\ result[q] \in [1..Size(q) -> Answers] /\ Size(q) >= PointsPerThread
      /\ at[q] \in {"finding", "replied"}
  BY DEF IInv, RequestInv, Pooled, Parallel
<1>2. Threads(q) \in Nat /\ Size(q) \in Nat
  BY <1>1, ThreadsNat
<1>3. Size(q) > 0
  BY <1>1, <1>2, ServerAssumption DEF ServerAssumption
<1>4. result[q] # <<>>
  BY <1>1, <1>2, <1>3
<1> QED
  BY <1>1, <1>2, <1>3, <1>4 DEF OwnPoints

\* A step of the workers or the feeder that keeps Pooled keeps the request.
LEMMA PooledStep ==
  ASSUME IInv, NEW q \in Requests, Pooled(q), Pooled(q)', UNCHANGED handlerVars
  PROVE  RequestInv(q)'
<1>1. OwnPoints(q) /\ Correct(q) /\ Home[q] \notin Rust /\ Body[q] # Bad
  BY PooledFacts
<1>2. OwnPoints(q)' /\ Correct(q)'
  BY <1>1 DEF OwnPoints, Correct, handlerVars, Parallel, Threads, Size
<1>3. Size(q)' = Size(q) /\ Size(q) \in Nat /\ Size(q) > 0
  BY PooledFacts DEF Size
<1>4. result'[q] # <<>>
  BY <1>3 DEF Pooled
<1> QED
  BY <1>1, <1>2, <1>4 DEF RequestInv

\* The index fed is in the channel.
LEMMA FeedInv ==
  ASSUME IInv, NEW q \in Requests, Feed(q)
  PROVE  IInv'
<1>1. /\ Pooled(q) /\ UNCHANGED <<handlerVars, closed, holds, finished, result>>
      /\ Types /\ Threads(q) \in Nat /\ Size(q) \in Nat /\ Size(q) > 0
      /\ Threads(q)' = Threads(q) /\ Size(q)' = Size(q) /\ Parallel(q)' = Parallel(q)
  <2>1. Pooled(q)
    BY DEF IInv, RequestInv, Unstarted, Feed, Started
  <2> QED
    BY <2>1, PooledFacts DEF Feed, handlerVars, Threads, Size, Parallel
<1>2. /\ tasks'[q] = Append(tasks[q], fed[q] + 1) /\ fed'[q] = fed[q] + 1
      /\ fed[q] < Size(q) /\ Len(tasks[q]) < Threads(q)
  BY <1>1 DEF Feed, Types
<1>3. Types'
  BY <1>1 DEF Types, Feed, handlerVars
<1>4. RequestInv(q)'
  <2>1. fed[q] \in Nat /\ tasks[q] \in Seq(1..fed[q]) /\ tasks[q] \in Seq(Nat)
    BY <1>1 DEF Pooled, Types
  <2>2. tasks'[q] \in Seq(1..fed'[q])
    <3>1. tasks[q] \in Seq(1..fed[q] + 1) /\ fed[q] + 1 \in 1..fed[q] + 1
      BY <2>1
    <3> QED
      BY <1>2, <3>1
  <2>3. ASSUME NEW i \in 1..fed'[q] PROVE Accounted(q, i)'
    <3>1. CASE i = fed[q] + 1
      <4>1. tasks'[q][Len(tasks[q]) + 1] = i /\ Len(tasks'[q]) = Len(tasks[q]) + 1
        BY <1>2, <2>1, <3>1
      <4> QED
        BY <2>1, <4>1 DEF Accounted
    <3>2. CASE i # fed[q] + 1
      <4>1. i \in 1..fed[q] /\ Accounted(q, i)
        BY <1>1, <1>2, <2>1, <3>2 DEF Pooled
      <4>2. ASSUME NEW k \in 1..Len(tasks[q]), tasks[q][k] = i
            PROVE  k \in 1..Len(tasks'[q]) /\ tasks'[q][k] = i
        BY <1>2, <2>1, <4>2
      <4> QED
        BY <1>1, <4>1, <4>2 DEF Accounted
    <3> QED
      BY <3>1, <3>2
  <2>4. ~closed[q] /\ finished[q] = {}
    BY <1>1, <1>2 DEF Pooled
  <2>5. holds'[q] \in [1..Threads(q) -> 0..fed'[q]]
    BY <1>1, <1>2, <2>1 DEF Pooled
  <2>6. Threads(q) # 0
    BY <1>1, <1>2, <2>1
  <2>7. Pooled(q)'
    BY <1>1, <1>2, <2>1, <2>2, <2>3, <2>4, <2>5, <2>6 DEF Pooled, handlerVars
  <2> QED
    BY <1>1, <2>7, PooledStep
<1>5. ASSUME NEW r \in Requests, r # q PROVE RequestInv(r)'
  <2>1. RequestInv(r)
    BY DEF IInv
  <2>2. /\ procs' = procs /\ mem'[r] = mem[r] /\ at'[r] = at[r] /\ array'[r] = array[r]
        /\ reply'[r] = reply[r] /\ tasks'[r] = tasks[r] /\ fed'[r] = fed[r]
        /\ closed'[r] = closed[r] /\ holds'[r] = holds[r]
        /\ finished'[r] = finished[r] /\ result'[r] = result[r]
    BY <1>5 DEF IInv, Types, Feed, handlerVars, poolVars
  <2> QED
    BY <2>1, <2>2, Untouched
<1> QED
  BY <1>3, <1>4, <1>5 DEF IInv

LEMMA CloseTasksInv ==
  ASSUME IInv, NEW q \in Requests, CloseTasks(q)
  PROVE  IInv'
<1>1. /\ Pooled(q) /\ UNCHANGED <<handlerVars, tasks, fed, holds, finished, result>>
      /\ Types /\ Threads(q) \in Nat /\ Size(q) \in Nat /\ Size(q) > 0
      /\ Threads(q)' = Threads(q) /\ Size(q)' = Size(q) /\ Parallel(q)' = Parallel(q)
      /\ closed'[q] = TRUE /\ fed[q] = Size(q)
  <2>1. Pooled(q)
    BY DEF IInv, RequestInv, Unstarted, CloseTasks, Started
  <2> QED
    BY <2>1, PooledFacts DEF CloseTasks, handlerVars, Threads, Size, Parallel, Types
<1>2. Types'
  BY <1>1 DEF Types, CloseTasks, handlerVars
<1>3. RequestInv(q)'
  <2>1. \A i \in 1..fed[q] : Accounted(q, i)'
    BY <1>1 DEF Accounted, Pooled
  <2>2. Pooled(q)'
    BY <1>1, <2>1 DEF Pooled, handlerVars
  <2> QED
    BY <1>1, <2>2, PooledStep
<1>4. ASSUME NEW r \in Requests, r # q PROVE RequestInv(r)'
  <2>1. RequestInv(r)
    BY DEF IInv
  <2>2. /\ procs' = procs /\ mem'[r] = mem[r] /\ at'[r] = at[r] /\ array'[r] = array[r]
        /\ reply'[r] = reply[r] /\ tasks'[r] = tasks[r] /\ fed'[r] = fed[r]
        /\ closed'[r] = closed[r] /\ holds'[r] = holds[r]
        /\ finished'[r] = finished[r] /\ result'[r] = result[r]
    BY <1>4 DEF IInv, Types, CloseTasks, handlerVars, poolVars
  <2> QED
    BY <2>1, <2>2, Untouched
<1> QED
  BY <1>2, <1>3, <1>4 DEF IInv

\* The index at the head of the channel goes to worker t.
LEMMA TakeInv ==
  ASSUME IInv, NEW q \in Requests, NEW t \in DOMAIN holds[q], Take(q, t)
  PROVE  IInv'
<1>1. /\ Pooled(q) /\ UNCHANGED <<handlerVars, fed, closed, finished, result>>
      /\ Types /\ Threads(q) \in Nat /\ Size(q) \in Nat /\ Size(q) > 0
      /\ Threads(q)' = Threads(q) /\ Size(q)' = Size(q) /\ Parallel(q)' = Parallel(q)
      /\ t \in 1..Threads(q)
  <2>1. Pooled(q)
    BY DEF IInv, RequestInv, Unstarted, Take, Free
  <2>2. t \in 1..Threads(q)
    BY <2>1 DEF Pooled
  <2> QED
    BY <2>1, <2>2, PooledFacts DEF Take, handlerVars, Threads, Size, Parallel
<1>2. /\ tasks[q] # <<>> /\ tasks'[q] = Tail(tasks[q]) /\ holds[q][t] = 0 /\ t \notin finished[q]
      /\ holds'[q] = [holds[q] EXCEPT ![t] = Head(tasks[q])]
      /\ tasks[q] \in Seq(1..fed[q]) /\ fed[q] \in Nat
      /\ Head(tasks[q]) \in 1..fed[q]
  <2>1. tasks[q] \in Seq(1..fed[q]) /\ tasks[q] # <<>>
    BY <1>1 DEF Pooled, Take
  <2>2. Head(tasks[q]) \in 1..fed[q]
    BY <2>1, HeadTailProperties
  <2> QED
    BY <1>1, <2>1, <2>2 DEF Take, Free, Types
<1>3. holds'[q] \in [1..Threads(q) -> 0..fed[q]]
  BY <1>1, <1>2 DEF Pooled
<1>4. Types'
  <2>1. holds'[q] \in Tables(Nat)
    <3>1. holds'[q] \in [1..Threads(q) -> Nat]
      BY <1>2, <1>3
    <3> QED
      BY <1>1, <3>1 DEF Tables
  <2>2. holds' \in [Requests -> Tables(Nat)]
    BY <1>1, <1>2, <2>1 DEF Types, Take
  <2>3. tasks' \in [Requests -> Seq(Nat)]
    BY <1>1, <1>2 DEF Types, Take
  <2> QED
    BY <1>1, <2>2, <2>3 DEF Types, handlerVars
<1>5. RequestInv(q)'
  <2>1. tasks'[q] \in Seq(1..fed[q])
    <3>1. Tail(tasks[q]) \in Seq(1..fed[q])
      <4>1. tasks[q] \in Seq(1..fed[q]) /\ tasks[q] # <<>>
        BY <1>2
      <4> QED
        BY <4>1, HeadTailProperties
    <3> QED
      BY <1>2, <3>1
  <2>2. ASSUME NEW i \in 1..fed[q] PROVE Accounted(q, i)'
    <3>1. Accounted(q, i)
      BY <1>1 DEF Pooled
    <3>2. CASE \E k \in 1..Len(tasks[q]) : tasks[q][k] = i
      <4>1. PICK k \in 1..Len(tasks[q]) : tasks[q][k] = i
        BY <3>2
      <4>2. CASE k = 1
        BY <1>1, <1>2, <1>3, <4>1, <4>2 DEF Accounted, Pooled
      <4>3. CASE k # 1
        <5>1. k - 1 \in 1..Len(tasks'[q]) /\ tasks'[q][k - 1] = i
          BY <1>2, <4>1, <4>3
        <5> QED
          BY <5>1 DEF Accounted
      <4> QED
        BY <4>2, <4>3
    <3>3. CASE \E u \in 1..Threads(q) : holds[q][u] = i
      <4>1. PICK u \in 1..Threads(q) : holds[q][u] = i
        BY <3>3
      <4>2. u # t
        BY <1>2, <4>1
      <4>3. holds'[q][u] = i
        BY <1>1, <1>2, <4>1, <4>2 DEF Pooled
      <4> QED
        BY <1>1, <4>1, <4>3 DEF Accounted
    <3>4. CASE result[q][i] = Find[Body[q][i]]
      BY <1>1, <3>4 DEF Accounted
    <3> QED
      BY <3>1, <3>2, <3>3, <3>4 DEF Accounted
  <2>3. finished[q] = {}
    BY <1>1, <1>2 DEF Pooled
  <2>4. Pooled(q)'
    BY <1>1, <1>2, <1>3, <2>1, <2>2, <2>3 DEF Pooled, handlerVars
  <2> QED
    BY <1>1, <2>4, PooledStep
<1>6. ASSUME NEW r \in Requests, r # q PROVE RequestInv(r)'
  <2>1. RequestInv(r)
    BY DEF IInv
  <2>2. /\ procs' = procs /\ mem'[r] = mem[r] /\ at'[r] = at[r] /\ array'[r] = array[r]
        /\ reply'[r] = reply[r] /\ tasks'[r] = tasks[r] /\ fed'[r] = fed[r]
        /\ closed'[r] = closed[r] /\ holds'[r] = holds[r]
        /\ finished'[r] = finished[r] /\ result'[r] = result[r]
    BY <1>6 DEF IInv, Types, Take, handlerVars, poolVars
  <2> QED
    BY <2>1, <2>2, Untouched
<1> QED
  BY <1>4, <1>5, <1>6 DEF IInv

\* The worker writes the answer of its index, and only there.
LEMMA LookupInv ==
  ASSUME IInv, NEW q \in Requests, NEW t \in DOMAIN holds[q], Lookup(q, t)
  PROVE  IInv'
<1>1. /\ Pooled(q) /\ UNCHANGED <<handlerVars, tasks, fed, closed, finished>>
      /\ Types /\ Threads(q) \in Nat /\ Size(q) \in Nat /\ Size(q) > 0
      /\ Threads(q)' = Threads(q) /\ Size(q)' = Size(q) /\ Parallel(q)' = Parallel(q)
      /\ array[q] = q /\ mem[q] = Body[q] /\ Body[q] # Bad
      /\ t \in 1..Threads(q)
  <2>1. Pooled(q)
    BY DEF IInv, RequestInv, Unstarted, Lookup
  <2>2. t \in 1..Threads(q)
    BY <2>1 DEF Pooled
  <2> QED
    BY <2>1, <2>2, PooledFacts DEF Lookup, handlerVars, Threads, Size, Parallel
<1>2. /\ holds[q] \in [1..Threads(q) -> 0..fed[q]] /\ holds[q][t] \in 1..fed[q]
      /\ fed[q] \in Nat /\ fed[q] <= Size(q) /\ holds[q][t] \in 1..Size(q)
      /\ result[q] \in [1..Size(q) -> Answers]
  BY <1>1 DEF Pooled, Types, Lookup
<1>3. Find[Body[q][holds[q][t]]] \in Answers
  <2>1. Body[q] \in Seq(Points)
    BY <1>1, ServerAssumption DEF ServerAssumption, Points
  <2>2. Body[q][holds[q][t]] \in Points
    BY <1>2, <2>1 DEF Size
  <2> QED
    BY <2>2 DEF Answers
<1>4. /\ result'[q] = [result[q] EXCEPT ![holds[q][t]] = Find[Body[q][holds[q][t]]]]
      /\ holds'[q] = [holds[q] EXCEPT ![t] = 0]
  BY <1>1 DEF Lookup, Types, Point
<1>5. /\ result'[q] \in [1..Size(q) -> Answers]
      /\ holds'[q] \in [1..Threads(q) -> 0..fed[q]]
  <2>1. result'[q] \in [1..Size(q) -> Answers]
    <3> DEFINE v == Find[Body[q][holds[q][t]]]
    <3>1. v \in Answers
      BY <1>3
    <3>2. result'[q] = [result[q] EXCEPT ![holds[q][t]] = v]
      BY <1>4
    <3> HIDE DEF v
    <3> QED
      BY <1>2, <3>1, <3>2
  <2>2. holds'[q] \in [1..Threads(q) -> 0..fed[q]]
    BY <1>1, <1>2, <1>4
  <2> QED
    BY <2>1, <2>2
<1>6. Types'
  <2>1. holds'[q] \in Tables(Nat)
    <3>1. holds'[q] \in [1..Threads(q) -> Nat]
      BY <1>2, <1>5
    <3> QED
      BY <1>1, <3>1 DEF Tables
  <2>2. result'[q] \in Tables(Answers)
    BY <1>1, <1>5 DEF Tables
  <2>3. holds' \in [Requests -> Tables(Nat)] /\ result' \in [Requests -> Tables(Answers)]
    BY <1>1, <1>4, <2>1, <2>2 DEF Types, Lookup
  <2> QED
    BY <1>1, <2>3 DEF Types, handlerVars
<1>7. RequestInv(q)'
  <2>1. ASSUME NEW i \in 1..fed[q] PROVE Accounted(q, i)'
    <3>1. Accounted(q, i) /\ i \in 1..Size(q)
      BY <1>1, <1>2 DEF Pooled
    <3>2. CASE \E k \in 1..Len(tasks[q]) : tasks[q][k] = i
      BY <1>1, <3>2 DEF Accounted
    <3>3. CASE \E u \in 1..Threads(q) : holds[q][u] = i
      <4>1. PICK u \in 1..Threads(q) : holds[q][u] = i
        BY <3>3
      <4>2. CASE u = t
        <5>1. result'[q][i] = Find[Body[q][i]]
          BY <1>2, <1>4, <4>1, <4>2
        <5> QED
          BY <5>1 DEF Accounted
      <4>3. CASE u # t
        <5>1. holds'[q][u] = i
          BY <1>2, <1>4, <4>1, <4>3
        <5> QED
          BY <1>1, <4>1, <5>1 DEF Accounted
      <4> QED
        BY <4>2, <4>3
    <3>4. CASE result[q][i] = Find[Body[q][i]]
      <4>1. result'[q][i] = Find[Body[q][i]]
        BY <1>2, <1>4, <3>1, <3>4
      <4> QED
        BY <4>1 DEF Accounted
    <3> QED
      BY <3>1, <3>2, <3>3, <3>4 DEF Accounted
  <2>2. \A u \in finished[q] : holds'[q][u] = 0
    <3>1. \A u \in finished[q] : holds[q][u] = 0 /\ u \in 1..Threads(q)
      BY <1>1 DEF Pooled
    <3> QED
      BY <1>2, <1>4, <3>1
  <2>3. Threads(q) # 0
    BY <1>1
  <2>4. Pooled(q)'
    BY <1>1, <1>5, <2>1, <2>2, <2>3 DEF Pooled, handlerVars
  <2> QED
    BY <1>1, <2>4, PooledStep
<1>8. ASSUME NEW r \in Requests, r # q PROVE RequestInv(r)'
  <2>1. RequestInv(r)
    BY DEF IInv
  <2>2. /\ procs' = procs /\ mem'[r] = mem[r] /\ at'[r] = at[r] /\ array'[r] = array[r]
        /\ reply'[r] = reply[r] /\ tasks'[r] = tasks[r] /\ fed'[r] = fed[r]
        /\ closed'[r] = closed[r] /\ holds'[r] = holds[r]
        /\ finished'[r] = finished[r] /\ result'[r] = result[r]
    BY <1>8 DEF IInv, Types, Lookup, handlerVars, poolVars
  <2> QED
    BY <2>1, <2>2, Untouched
<1> QED
  BY <1>6, <1>7, <1>8 DEF IInv

LEMMA FinishInv ==
  ASSUME IInv, NEW q \in Requests, NEW t \in DOMAIN holds[q], Finish(q, t)
  PROVE  IInv'
<1>1. /\ Pooled(q) /\ UNCHANGED <<handlerVars, tasks, fed, closed, holds, result>>
      /\ Types /\ Threads(q) \in Nat /\ Size(q) \in Nat /\ Size(q) > 0
      /\ Threads(q)' = Threads(q) /\ Size(q)' = Size(q) /\ Parallel(q)' = Parallel(q)
      /\ t \in 1..Threads(q)
  <2>1. Pooled(q)
    BY DEF IInv, RequestInv, Unstarted, Finish, Free
  <2>2. t \in 1..Threads(q)
    BY <2>1 DEF Pooled
  <2> QED
    BY <2>1, <2>2, PooledFacts DEF Finish, handlerVars, Threads, Size, Parallel
<1>2. /\ finished'[q] = finished[q] \cup {t} /\ holds[q][t] = 0
      /\ tasks[q] = <<>> /\ closed[q]
  BY <1>1 DEF Finish, Free, Types
<1>3. Types'
  <2>1. finished' \in [Requests -> SUBSET Nat]
    BY <1>1, <1>2 DEF Types, Finish
  <2> QED
    BY <1>1, <2>1 DEF Types, handlerVars
<1>4. RequestInv(q)'
  <2>1. \A i \in 1..fed[q] : Accounted(q, i)'
    BY <1>1 DEF Accounted, Pooled
  <2>2. Pooled(q)'
    BY <1>1, <1>2, <2>1 DEF Pooled, handlerVars
  <2> QED
    BY <1>1, <2>2, PooledStep
<1>5. ASSUME NEW r \in Requests, r # q PROVE RequestInv(r)'
  <2>1. RequestInv(r)
    BY DEF IInv
  <2>2. /\ procs' = procs /\ mem'[r] = mem[r] /\ at'[r] = at[r] /\ array'[r] = array[r]
        /\ reply'[r] = reply[r] /\ tasks'[r] = tasks[r] /\ fed'[r] = fed[r]
        /\ closed'[r] = closed[r] /\ holds'[r] = holds[r]
        /\ finished'[r] = finished[r] /\ result'[r] = result[r]
    BY <1>5 DEF IInv, Types, Finish, handlerVars, poolVars
  <2> QED
    BY <2>1, <2>2, Untouched
<1> QED
  BY <1>3, <1>4, <1>5 DEF IInv

\* When every worker is done the channel is empty and nobody holds an index,
\* so every index has its answer; without workers none has.
LEMMA WaitInv ==
  ASSUME IInv, NEW q \in Requests, Wait(q)
  PROVE  IInv'
<1>1. /\ Pooled(q) /\ UNCHANGED <<procs, mem, header, array, poolVars>>
      /\ Types /\ Threads(q) \in Nat /\ Size(q) \in Nat /\ Size(q) > 0
      /\ Threads(q)' = Threads(q) /\ Size(q)' = Size(q) /\ Parallel(q)' = Parallel(q)
      /\ Body[q] # Bad /\ OwnPoints(q) /\ Home[q] \notin Rust
      /\ at'[q] = "replied" /\ reply'[q] = OK(result[q]) /\ finished[q] = 1..Threads(q)
      /\ at[q] = "finding"
  <2>1. Pooled(q)
    BY DEF IInv, RequestInv, Unstarted, Wait
  <2>2. DOMAIN holds[q] = 1..Threads(q)
    BY <2>1 DEF Pooled
  <2> QED
    BY <2>1, <2>2, PooledFacts DEF Wait, Answer, AllDone, poolVars, Threads, Size, Parallel, Types
<1>2. Types'
  <2>1. at' \in [Requests -> Places]
    BY <1>1 DEF Types, Wait, Answer, Places
  <2>2. pool' \in [Servers -> SUBSET {NewSlice}]
    BY <1>1 DEF Types, Wait, Answer, Returned
  <2>3. DOMAIN reply' = Requests
    BY <1>1 DEF Types, Wait, Answer
  <2> QED
    BY <1>1, <2>1, <2>2, <2>3 DEF Types, poolVars
<1>3. ASSUME NEW i \in 1..Size(q)
      PROVE  result[q][i] = IF Threads(q) = 0 THEN NoInfo ELSE Find[Body[q][i]]
  <2>1. CASE Threads(q) = 0
    BY <1>1, <2>1 DEF Pooled
  <2>2. CASE Threads(q) # 0
    <3>1. 1 \in finished[q]
      BY <1>1, <2>2
    <3>2. tasks[q] = <<>> /\ fed[q] = Size(q) /\ \A t \in 1..Threads(q) : holds[q][t] = 0
      BY <1>1, <3>1 DEF Pooled
    <3>3. Accounted(q, i)
      BY <1>1, <3>2 DEF Pooled
    <3> QED
      BY <2>2, <3>2, <3>3 DEF Accounted
  <2> QED
    BY <2>1, <2>2
<1>4. RequestInv(q)'
  <2>1. result[q] = [i \in 1..Size(q) |->
                      IF Parallel(q) /\ Threads(q) = 0 THEN NoInfo ELSE Find[Body[q][i]]]
    BY <1>1, <1>3 DEF Pooled
  <2>2. Correct(q)'
    BY <1>1, <2>1 DEF Correct
  <2>3. Pooled(q)'
    BY <1>1 DEF Pooled, Accounted, poolVars
  <2>4. OwnPoints(q)'
    BY <1>1 DEF OwnPoints
  <2> QED
    BY <1>1, <2>2, <2>3, <2>4 DEF RequestInv
<1>5. ASSUME NEW r \in Requests, r # q PROVE RequestInv(r)'
  <2>1. RequestInv(r)
    BY DEF IInv
  <2>2. /\ procs' = procs /\ mem'[r] = mem[r] /\ at'[r] = at[r] /\ array'[r] = array[r]
        /\ reply'[r] = reply[r] /\ tasks'[r] = tasks[r] /\ fed'[r] = fed[r]
        /\ closed'[r] = closed[r] /\ holds'[r] = holds[r]
        /\ finished'[r] = finished[r] /\ result'[r] = result[r]
    BY <1>5 DEF IInv, Types, Wait, Answer, handlerVars, poolVars
  <2> QED
    BY <2>1, <2>2, Untouched
<1> QED
  BY <1>2, <1>4, <1>5 DEF IInv

-----------------------------------------------------------------------------
LEMMA HandleInv ==
  ASSUME IInv, NEW q \in Requests, Send(q) \/ Handle(q)
  PROVE  IInv'
<1>1. CASE \E t \in DOMAIN holds[q] : Take(q, t) \/ Lookup(q, t) \/ Finish(q, t)
  BY <1>1, TakeInv, LookupInv, FinishInv
<1> QED
  BY <1>1, SendInv, GetInv, RejectBodyInv, DecodeInv, FindInOrderInv, StartWorkersInv,
     FeedInv, CloseTasksInv, WaitInv, RustHandleInv DEF Handle

LEMMA NextInv == IInv /\ [ServerNext]_serverVars => IInv'
<1> SUFFICES ASSUME IInv, [ServerNext]_serverVars PROVE IInv'
  OBVIOUS
<1>1. CASE ServerNext
  BY <1>1, HandleInv DEF ServerNext
<1>2. CASE UNCHANGED serverVars
  <2>1. Types'
    BY <1>2 DEF IInv, Types, serverVars, handlerVars, poolVars
  <2>2. ASSUME NEW r \in Requests PROVE RequestInv(r)'
    <3>1. RequestInv(r)
      BY DEF IInv
    <3>2. /\ procs' = procs /\ mem'[r] = mem[r] /\ at'[r] = at[r] /\ array'[r] = array[r]
          /\ reply'[r] = reply[r] /\ tasks'[r] = tasks[r] /\ fed'[r] = fed[r]
          /\ closed'[r] = closed[r] /\ holds'[r] = holds[r]
          /\ finished'[r] = finished[r] /\ result'[r] = result[r]
      BY <1>2 DEF serverVars, handlerVars, poolVars
    <3> QED
      BY <3>1, <3>2, Untouched
  <2> QED
    BY <2>1, <2>2 DEF IInv
<1> QED
  BY <1>1, <1>2

\* The points of a decoded request stay in its own array, every index a
\* worker was given is in one place, and every reply is the right one.
THEOREM InvAlways == ServerSpec => []IInv
<1> QED
  BY InitInv, NextInv, PTL DEF ServerSpec

\* However its workers, its feeder and the other requests interleave, the
\* handler of any server answers each point at the index it was asked at,
\* or each with the empty answer when half of GOMAXPROCS is no thread
\* (server.go:132-194).
THEOREM RepliesAlwaysRight == ServerSpec => []RepliesRight
<1>1. IInv => RepliesRight
  BY DEF IInv, RequestInv, Correct, RepliesRight
<1> QED
  BY <1>1, InvAlways, PTL

\* No two running requests ever have their points in one array: what the
\* deferred Put gives back is the slice as it was before the decoding
\* (server.go:135-137).
THEOREM NeverShared == ServerSpec => []PointsNotShared
<1>1. IInv => PointsNotShared
  <2> SUFFICES ASSUME IInv, NEW p \in Requests, NEW q \in Requests, p # q,
                      Reading(p), Reading(q), array[p] # None
               PROVE  array[p] # array[q]
    BY DEF PointsNotShared
  <2>1. /\ array[p] \in {p, None} /\ array[q] \in {q, None}
    BY DEF IInv, Types
  <2> QED
    BY <2>1
<1> QED
  BY <1>1, InvAlways, PTL

\* The variables keep their types, and an index in the channel or with a
\* worker is one the feeder has sent (server.go:170-189).
THEOREM ServerTypes == ServerSpec => []ServerTypeOK
<1>1. IInv => ServerTypeOK
  <2> SUFFICES ASSUME IInv PROVE ServerTypeOK
    OBVIOUS
  <2>1. ASSUME NEW q \in Requests
        PROVE  /\ Body[q] # Bad => fed[q] <= Size(q)
               /\ tasks[q] \in Seq(1..fed[q])
               /\ DOMAIN holds[q] \subseteq Nat
               /\ \A t \in DOMAIN holds[q] : holds[q][t] \in 0..fed[q]
    <3>1. CASE Unstarted(q)
      <4>1. Body[q] # Bad => Size(q) \in Nat
        BY ServerAssumption DEF ServerAssumption, Size
      <4>2. DOMAIN holds[q] = {}
        BY <3>1 DEF Unstarted
      <4>3. tasks[q] \in Seq(1..fed[q])
        BY <3>1 DEF Unstarted
      <4> QED
        BY <3>1, <4>1, <4>2, <4>3 DEF Unstarted
    <3>2. CASE Pooled(q)
      <4>1. Threads(q) \in Nat
        BY <3>2, PooledFacts
      <4>2. DOMAIN holds[q] = 1..Threads(q) /\ \A t \in 1..Threads(q) : holds[q][t] \in 0..fed[q]
        BY <3>2 DEF Pooled
      <4>3. DOMAIN holds[q] \subseteq Nat
        BY <4>1, <4>2
      <4> QED
        BY <3>2, <4>2, <4>3 DEF Pooled
    <3> QED
      BY <3>1, <3>2 DEF IInv, RequestInv
  <2> QED
    BY <2>1 DEF IInv, Types, ServerTypeOK, Places
<1> QED
  BY <1>1, InvAlways, PTL

-----------------------------------------------------------------------------
(* The simulator and the servers.                                          *)

\* Everything a post may return.
NoneFound(q) == [i \in 1..Size(q) |-> NoInfo]
AllFound(q) == [i \in 1..Size(q) |-> Find[Body[q][i]]]
Faulty == {Lost, Garbled}
Responses == Faulty \cup {BadRequest} \cup {OK(NoneFound(q)) : q \in Requests}
                                     \cup {OK(AllFound(q)) : q \in Requests}

\* A worker that posts has an item and a server left to post it to.
ClientInv ==
  /\ work \in 0..Items
  /\ client \in [Clients -> [at : {"free", "post", "wait", "judge", "ended"},
                             item : 0..Items, got : Seq(Responses)]]
  /\ \A c \in Clients :
       client[c].at \in {"post", "wait"} =>
         client[c].item # 0 /\ Len(client[c].got) < Len(Targets)

-----------------------------------------------------------------------------
LEMMA TargetsTyped == Targets \in Seq(Servers) /\ Len(Targets) \in Nat /\ Len(Targets) >= 1
<1>1. Order \in Seq(Servers) /\ Order # <<>>
  BY SimulatorAssumption DEF SimulatorAssumption
<1>2. Len(Order) \in Nat /\ Len(Order) >= 1
  BY <1>1, EmptySeq
<1>3. SubSeq(Order, 1, 1) \in Seq(Servers) /\ Len(SubSeq(Order, 1, 1)) = 1
  BY <1>1, <1>2, SubSeqProperties
<1> QED
  BY <1>1, <1>2, <1>3 DEF Targets

LEMMA CurrentRequest ==
  ASSUME ClientInv, NEW c \in Clients, client[c].at \in {"post", "wait"}
  PROVE  Current(c) \in Requests
<1>1. /\ client[c].item \in 1..Items /\ client[c].got \in Seq(Responses)
      /\ Len(client[c].got) < Len(Targets)
  BY SimulatorAssumption DEF SimulatorAssumption, ClientInv
<1>2. Len(client[c].got) + 1 \in 1..Len(Targets)
  BY <1>1, TargetsTyped
<1>3. Targets[Len(client[c].got) + 1] \in Servers
  BY <1>2, TargetsTyped
<1> QED
  BY <1>1, <1>3, SimulatorAssumption DEF SimulatorAssumption, Current

LEMMA ReplyIsResponse ==
  ASSUME IInv, NEW q \in Requests, reply[q] # None
  PROVE  reply[q] \in Responses
<1>1. Correct(q)
  BY DEF IInv, RequestInv
<1>2. CASE Body[q] = Bad
  BY <1>1, <1>2 DEF Correct, Responses
<1>3. CASE Body[q] # Bad /\ Parallel(q) /\ Threads(q) = 0
  <2>1. reply[q] = OK(NoneFound(q))
    BY <1>1, <1>3 DEF Correct, NoneFound
  <2> QED
    BY <2>1 DEF Responses
<1>4. CASE Body[q] # Bad /\ ~(Parallel(q) /\ Threads(q) = 0)
  <2>1. reply[q] = OK(AllFound(q))
    BY <1>1, <1>4 DEF Correct, AllFound
  <2> QED
    BY <2>1 DEF Responses
<1> QED
  BY <1>2, <1>3, <1>4

\* A step of the simulator is one of the servers or leaves them alone.
LEMMA StepOfServers ==
  ASSUME ClientInv, [Next]_vars
  PROVE  [ServerNext]_serverVars
<1>1. CASE \E c \in Clients : Post(c)
  <2>1. PICK c \in Clients : Post(c)
    BY <1>1
  <2>2. Current(c) \in Requests /\ Send(Current(c))
    BY <2>1, CurrentRequest DEF Post
  <2> QED
    BY <2>2 DEF ServerNext
<1>2. CASE \E c \in Clients : TakeItem(c) \/ WorkerEnds(c) \/ Response(c) \/ Judge(c)
                             \/ Fault(c, Lost) \/ Fault(c, Garbled)
  BY <1>2 DEF TakeItem, WorkerEnds, Response, Judge, Fault
<1>3. CASE ServerStep
  BY <1>3 DEF ServerStep, ServerNext
<1>4. CASE UNCHANGED vars
  BY <1>4 DEF vars
<1> QED
  BY <1>1, <1>2, <1>3, <1>4 DEF Next, ClientStep

LEMMA ReturnsInv ==
  ASSUME ClientInv, NEW c \in Clients, client[c].at = "wait",
         NEW r \in Responses, Returns(c, r), UNCHANGED <<command, work>>
  PROVE  ClientInv'
<1> DEFINE got == Append(client[c].got, r)
           next == IF Len(got) = Len(Targets) THEN "judge" ELSE "post"
<1>1. /\ client[c].got \in Seq(Responses) /\ Len(client[c].got) < Len(Targets)
      /\ client[c].item # 0 /\ client[c].item \in 0..Items
  BY DEF ClientInv
<1>2. got \in Seq(Responses) /\ Len(got) = Len(client[c].got) + 1
  BY <1>1
<1>3. client' = [client EXCEPT ![c].got = got, ![c].at = next]
  BY DEF Returns
<1>4. next \in {"judge", "post"} /\ (next = "post" => Len(got) < Len(Targets))
  BY <1>1, <1>2, TargetsTyped
<1>5. Targets' = Targets
  BY DEF Targets
<1> HIDE DEF got, next
<1> QED
  BY <1>1, <1>2, <1>3, <1>4, <1>5 DEF ClientInv

LEMMA ClientStepInv ==
  ASSUME ClientInv, IInv, [Next]_vars
  PROVE  ClientInv'
<1>1. CASE \E c \in Clients : TakeItem(c)
  <2>1. PICK c \in Clients : TakeItem(c)
    BY <1>1
  <2>2. /\ work < Items /\ work' = work + 1 /\ command' = command
        /\ client' = [client EXCEPT ![c] = [at |-> "post", item |-> work + 1, got |-> <<>>]]
    BY <2>1 DEF TakeItem
  <2>3. Targets' = Targets
    BY <2>2 DEF Targets
  <2>4. work + 1 \in 1..Items
    BY <2>2, SimulatorAssumption DEF SimulatorAssumption, ClientInv
  <2>5. <<>> \in Seq(Responses) /\ Len(<<>>) = 0
    OBVIOUS
  <2> QED
    BY <2>2, <2>3, <2>4, <2>5, TargetsTyped, SimulatorAssumption DEF SimulatorAssumption, ClientInv
<1>2. CASE \E c \in Clients : WorkerEnds(c) \/ Post(c)
  <2>1. PICK c \in Clients : WorkerEnds(c) \/ Post(c)
    BY <1>2
  <2>2. /\ UNCHANGED <<work, command>>
        /\ \/ client[c].at = "free" /\ client' = [client EXCEPT ![c].at = "ended"]
           \/ client[c].at = "post" /\ client' = [client EXCEPT ![c].at = "wait"]
    BY <2>1 DEF WorkerEnds, Post
  <2>3. Targets' = Targets
    BY <2>2 DEF Targets
  <2> QED
    BY <2>2, <2>3 DEF ClientInv
<1>3. CASE \E c \in Clients : Response(c)
  <2>1. PICK c \in Clients : Response(c)
    BY <1>3
  <2>2. Current(c) \in Requests
    BY <2>1, CurrentRequest DEF Response
  <2>3. reply[Current(c)] \in Responses
    BY <2>1, <2>2, ReplyIsResponse DEF Response
  <2> QED
    BY <2>1, <2>3, ReturnsInv DEF Response
<1>4. CASE \E c \in Clients : Fault(c, Lost) \/ Fault(c, Garbled)
  <2>1. PICK c \in Clients : Fault(c, Lost) \/ Fault(c, Garbled)
    BY <1>4
  <2>2. PICK r \in Faulty : Fault(c, r)
    BY <2>1 DEF Faulty
  <2>3. r \in Responses
    BY <2>2 DEF Responses
  <2> QED
    BY <2>2, <2>3, ReturnsInv DEF Fault
<1>5. CASE \E c \in Clients : Judge(c)
  <2>1. PICK c \in Clients : client' = [client EXCEPT ![c] = Free0]
    BY <1>5 DEF Judge
  <2>2. UNCHANGED <<work, command>>
    BY <1>5 DEF Judge
  <2>3. Targets' = Targets
    BY <2>2 DEF Targets
  <2>4. Free0 \in [at : {"free", "post", "wait", "judge", "ended"}, item : 0..Items,
                   got : Seq(Responses)] /\ Free0.at = "free"
    BY SimulatorAssumption DEF SimulatorAssumption, Free0
  <2> QED
    BY <2>1, <2>2, <2>3, <2>4 DEF ClientInv
<1>6. CASE ServerStep \/ UNCHANGED vars
  <2>1. UNCHANGED <<work, command, client>>
    BY <1>6 DEF ServerStep, simVars, vars
  <2> QED
    BY <2>1 DEF ClientInv, Targets
<1> QED
  BY <1>1, <1>2, <1>3, <1>4, <1>5, <1>6 DEF Next, ClientStep

LEMMA ClientInitInv == Init => ClientInv
<1> SUFFICES ASSUME Init PROVE ClientInv
  OBVIOUS
<1>1. Free0 \in [at : {"free", "post", "wait", "judge", "ended"}, item : 0..Items,
                 got : Seq(Responses)] /\ Free0.at = "free"
  BY SimulatorAssumption DEF SimulatorAssumption, Free0
<1> QED
  BY <1>1, SimulatorAssumption DEF SimulatorAssumption, Init, ClientInv

LEMMA BothAlways == Spec => [](ClientInv /\ IInv)
<1>1. Init => ClientInv /\ IInv
  BY ClientInitInv, InitInv DEF Init
<1>2. ClientInv /\ IInv /\ [Next]_vars => ClientInv' /\ IInv'
  BY ClientStepInv, StepOfServers, NextInv
<1> QED
  BY <1>1, <1>2, PTL DEF Spec

\* Under the simulator, with its workers, its timeouts and the requests that
\* outlive them, the servers behave as module Server says they do
\* (cmd/simulate/bench.go:68-116, compare.go:83-171).
THEOREM SimulatorUsesServer == Spec => ServerSpec
<1>1. Init => ServerInit
  BY DEF Init
<1>2. ClientInv /\ [Next]_vars => [ServerNext]_serverVars
  BY StepOfServers
<1> QED
  BY <1>1, <1>2, BothAlways, PTL DEF Spec, ServerSpec

\* So each reply the simulator gets is right (server.go:132-194).
THEOREM SimulatedRepliesRight == Spec => []RepliesRight
BY SimulatorUsesServer, RepliesAlwaysRight, PTL

\* And no two of its requests share an array (server.go:135-137).
THEOREM SimulatedNeverShared == Spec => []PointsNotShared
BY SimulatorUsesServer, NeverShared, PTL

-----------------------------------------------------------------------------
(* Sums.  SumFunction takes the elements of its domain one by one, so what *)
(* is said of it needs an induction.  It is had from the pigeonhole        *)
(* principle: if m were missing, n + 1 would number the n of S up to m,    *)
(* from which it takes 0, by themselves.                                   *)

LEMMA Induction ==
  ASSUME NEW S \in SUBSET Nat, 0 \in S, \A n \in S : n + 1 \in S
  PROVE  S = Nat
<1> SUFFICES ASSUME NEW m \in Nat, m \notin S PROVE FALSE
  OBVIOUS
<1> DEFINE A == S \cap 0..m
           f == [n \in A |-> n + 1]
<1>1. IsFiniteSet(0..m)
  BY FS_Interval
<1>2. IsFiniteSet(A) /\ A \subseteq 0..m
  BY <1>1, FS_Subset
<1>3. 0 \in A
  OBVIOUS
<1>4. /\ IsFiniteSet(A \ {0}) /\ Cardinality(A \ {0}) = Cardinality(A) - 1
  BY <1>2, <1>3, FS_RemoveElement
<1>5. Cardinality(A) \in Nat
  BY <1>2, FS_CardinalityType
<1>6. f \in [A -> A \ {0}]
  <2> SUFFICES ASSUME NEW n \in A PROVE n + 1 \in A \ {0}
    OBVIOUS
  <2> QED OBVIOUS
<1>7. Cardinality(A \ {0}) < Cardinality(A)
  BY <1>4, <1>5
<1>8. \A n \in A : f[n] = n + 1
  OBVIOUS
<1> HIDE DEF A, f
<1>9. \E x, y \in A : x # y /\ f[x] = f[y]
  BY <1>2, <1>4, <1>6, <1>7, FS_PigeonHole
<1> QED
  BY <1>2, <1>8, <1>9

\* One step of the recursion by which a function is summed.
Step(f, g, s) ==
  IF s = {} THEN 0
  ELSE LET x == CHOOSE x \in s : TRUE IN f[x] + g[s \ {x}]

SumRec(f) == CHOOSE g : g = [s \in SUBSET DOMAIN f |-> Step(f, g, s)]

LEMMA Unfold == \A f : SumFunction(f) = SumRec(f)[DOMAIN f]
BY DEF SumFunction, SumFunctionOnSet, FoldFunctionOnSet, MapThenFoldSet, SumRec, Step

\* The recursion is well founded on a finite set.
LEMMA SumExists ==
  ASSUME NEW S, IsFiniteSet(S), NEW f \in [S -> Int]
  PROVE  SumRec(f) = [s \in SUBSET S |-> Step(f, SumRec(f), s)]
<1> DEFINE Upto(g, n) == /\ g \in [SUBSET S -> Int]
                         /\ \A s \in SUBSET S : Cardinality(s) <= n => g[s] = Step(f, g, s)
           D == {n \in Nat : \E g : Upto(g, n)}
<1>1. \A s \in SUBSET S : IsFiniteSet(s) /\ Cardinality(s) \in Nat /\ Cardinality(s) <= Cardinality(S)
  BY FS_Subset, FS_CardinalityType
<1>2. 0 \in D
  <2>1. Upto([s \in SUBSET S |-> 0], 0)
    <3> SUFFICES ASSUME NEW s \in SUBSET S, Cardinality(s) <= 0 PROVE s = {}
      BY DEF Step
    <3> QED
      BY <1>1, FS_EmptySet
  <2> QED
    BY <2>1
<1>3. ASSUME NEW n \in D PROVE n + 1 \in D
  <2>1. PICK g : Upto(g, n)
    OBVIOUS
  <2> DEFINE h == [s \in SUBSET S |-> Step(f, g, s)]
  <2>2. ASSUME NEW s \in SUBSET S, s # {}, NEW x, x = CHOOSE y \in s : TRUE
        PROVE  x \in s /\ s \ {x} \in SUBSET S /\ Cardinality(s \ {x}) = Cardinality(s) - 1
    BY <1>1, <2>2, FS_RemoveElement
  <2>3. h \in [SUBSET S -> Int]
    <3> SUFFICES ASSUME NEW s \in SUBSET S PROVE Step(f, g, s) \in Int
      OBVIOUS
    <3>1. CASE s # {}
      BY <2>1, <2>2, <3>1 DEF Step
    <3> QED
      BY <3>1 DEF Step
  <2>4. ASSUME NEW s \in SUBSET S, Cardinality(s) <= n + 1 PROVE h[s] = Step(f, h, s)
    <3>1. CASE s # {}
      <4> DEFINE x == CHOOSE y \in s : TRUE
      <4>1. x \in s /\ s \ {x} \in SUBSET S /\ Cardinality(s \ {x}) = Cardinality(s) - 1
        BY <2>2, <3>1
      <4>2. g[s \ {x}] = Step(f, g, s \ {x})
        BY <1>1, <2>1, <2>4, <4>1
      <4>3. h[s \ {x}] = g[s \ {x}]
        BY <4>1, <4>2
      <4> QED
        BY <3>1, <4>3 DEF Step
    <3> QED
      BY <3>1 DEF Step
  <2>5. Upto(h, n + 1)
    BY <2>3, <2>4
  <2> HIDE DEF h, Upto
  <2> QED
    BY <2>5
<1>4. D = Nat
  <2> HIDE DEF Upto
  <2> QED
    BY <1>2, <1>3, Induction
<1>5. PICK g : Upto(g, Cardinality(S))
  BY <1>1, <1>4
<1>6. g = [s \in SUBSET S |-> Step(f, g, s)]
  BY <1>1, <1>5
<1> QED
  BY <1>6 DEF SumRec

LEMMA ChosenMember ==
  ASSUME NEW S, IsFiniteSet(S), NEW s \in SUBSET S, s # {}, NEW x, x = CHOOSE y \in s : TRUE
  PROVE  /\ x \in s /\ s \ {x} \in SUBSET S
         /\ Cardinality(s) \in Nat /\ Cardinality(s \ {x}) = Cardinality(s) - 1
BY FS_Subset, FS_CardinalityType, FS_RemoveElement

\* When one number changes the sum changes by as much.
LEMMA SumChange ==
  ASSUME NEW S, IsFiniteSet(S), NEW f \in [S -> Int], NEW h \in [S -> Int], NEW c \in S,
         \A x \in S : x # c => h[x] = f[x]
  PROVE  SumFunction(f) \in Int /\ SumFunction(h) = SumFunction(f) + (h[c] - f[c])
<1> DEFINE d == h[c] - f[c]
<1>d. d \in Int /\ h[c] = f[c] + d
  OBVIOUS
<1> HIDE DEF d
<1> DEFINE F == SumRec(f)
           H == SumRec(h)
           Adds(s) == F[s] \in Int /\ H[s] = F[s] + (IF c \in s THEN d ELSE 0)
           D == {n \in Nat : \A s \in SUBSET S : Cardinality(s) <= n => Adds(s)}
<1>1. \A s \in SUBSET S : IsFiniteSet(s) /\ Cardinality(s) \in Nat /\ Cardinality(s) <= Cardinality(S)
  BY FS_Subset, FS_CardinalityType
<1>2. \A s \in SUBSET S : F[s] = Step(f, F, s) /\ H[s] = Step(h, H, s)
  <2>1. F = [s \in SUBSET S |-> Step(f, F, s)] /\ H = [s \in SUBSET S |-> Step(h, H, s)]
    BY SumExists
  <2> HIDE DEF F, H
  <2> QED
    BY <2>1
<1> HIDE DEF F, H
<1>3. 0 \in D
  <2> SUFFICES ASSUME NEW s \in SUBSET S, Cardinality(s) <= 0 PROVE Adds(s)
    OBVIOUS
  <2>1. s = {}
    BY <1>1, FS_EmptySet
  <2>2. F[s] = 0 /\ H[s] = 0
    BY <1>2, <2>1 DEF Step
  <2> QED
    BY <2>1, <2>2
<1>4. ASSUME NEW n \in D PROVE n + 1 \in D
  <2> SUFFICES ASSUME NEW s \in SUBSET S, Cardinality(s) <= n + 1 PROVE Adds(s)
    OBVIOUS
  <2>1. CASE s = {}
    <3>1. F[s] = 0 /\ H[s] = 0
      BY <1>2, <2>1 DEF Step
    <3> QED
      BY <2>1, <3>1
  <2>2. CASE s # {}
    <3> DEFINE x == CHOOSE y \in s : TRUE
    <3>1. /\ x \in s /\ s \ {x} \in SUBSET S
          /\ Cardinality(s) \in Nat /\ Cardinality(s \ {x}) = Cardinality(s) - 1
      BY <2>2, ChosenMember
    <3>2. Adds(s \ {x})
      BY <3>1
    <3>3. F[s] = f[x] + F[s \ {x}] /\ H[s] = h[x] + H[s \ {x}]
      BY <1>2, <2>2 DEF Step
    <3> HIDE DEF x
    <3>4. x \in S /\ f[x] \in Int /\ h[x] \in Int
      BY <3>1
    <3>5. CASE x = c
      BY <1>d, <3>1, <3>2, <3>3, <3>4, <3>5
    <3>6. CASE x # c
      BY <1>d, <3>1, <3>2, <3>3, <3>4, <3>6
    <3> QED
      BY <3>5, <3>6
  <2> QED
    BY <2>1, <2>2
<1>5. D = Nat
  <2> HIDE DEF Adds
  <2> QED
    BY <1>3, <1>4, Induction
<1>6. Adds(S)
  BY <1>1, <1>5
<1> QED
  BY <1>6, Unfold DEF F, H, d

LEMMA SumZero ==
  ASSUME NEW S, IsFiniteSet(S), NEW f \in [S -> Int], \A x \in S : f[x] = 0
  PROVE  SumFunction(f) = 0
<1> DEFINE F == SumRec(f)
           D == {n \in Nat : \A s \in SUBSET S : Cardinality(s) <= n => F[s] = 0}
<1>1. \A s \in SUBSET S : IsFiniteSet(s) /\ Cardinality(s) \in Nat /\ Cardinality(s) <= Cardinality(S)
  BY FS_Subset, FS_CardinalityType
<1>2. \A s \in SUBSET S : F[s] = Step(f, F, s)
  <2>1. F = [s \in SUBSET S |-> Step(f, F, s)]
    BY SumExists
  <2> HIDE DEF F
  <2> QED
    BY <2>1
<1> HIDE DEF F
<1>3. 0 \in D
  <2> SUFFICES ASSUME NEW s \in SUBSET S, Cardinality(s) <= 0 PROVE F[s] = 0
    OBVIOUS
  <2>1. s = {}
    BY <1>1, FS_EmptySet
  <2> QED
    BY <1>2, <2>1 DEF Step
<1>4. ASSUME NEW n \in D PROVE n + 1 \in D
  <2> SUFFICES ASSUME NEW s \in SUBSET S, Cardinality(s) <= n + 1 PROVE F[s] = 0
    OBVIOUS
  <2>1. CASE s = {}
    BY <1>2, <2>1 DEF Step
  <2>2. CASE s # {}
    <3> DEFINE x == CHOOSE y \in s : TRUE
    <3>1. /\ x \in s /\ s \ {x} \in SUBSET S
          /\ Cardinality(s) \in Nat /\ Cardinality(s \ {x}) = Cardinality(s) - 1
      BY <2>2, ChosenMember
    <3>2. F[s \ {x}] = 0
      BY <3>1
    <3>3. F[s] = f[x] + F[s \ {x}]
      BY <1>2, <2>2 DEF Step
    <3>4. x \in S /\ f[x] = 0
      BY <3>1
    <3> HIDE DEF x
    <3> QED
      BY <3>2, <3>3, <3>4
  <2> QED
    BY <2>1, <2>2
<1>5. D = Nat
  BY <1>3, <1>4, Induction
<1> QED
  BY <1>1, <1>5, Unfold DEF F

-----------------------------------------------------------------------------
(* Counting.  The items taken are judged, each in one of two counters, or  *)
(* held by one worker each; a latency is of a judged item or of a response *)
(* a worker still has.                                                     *)

\* The items taken and judged.
Judged == {i \in 1..work : \A c \in Busy : client[c].item # i}

Lens == [c \in Clients |-> Len(client[c].got)]
Worths(D) == [i \in 1..Items |-> IF i \in D THEN Worth(RequestOf(i, Order[1])) ELSE 0]

\* A worker is busy with an item of its own.
HeldInv ==
  /\ \A c \in Busy : client[c].item \in 1..work
  /\ \A c, d \in Busy : c # d => client[c].item # client[d].item
  /\ \A c \in Clients :
       /\ client[c].at \in {"free", "ended"} => client[c].got = <<>>
       /\ client[c].at = "judge" => Len(client[c].got) = Len(Targets)
       /\ client[c].at = "ended" => work = Items

CountInv ==
  /\ success \in Nat /\ failure \in Nat /\ recounted \in Nat
  /\ recounted <= success /\ recounted <= failure
  /\ success + failure + Cardinality(Busy) = work + recounted
  /\ latencies = Len(Targets) * (work - Cardinality(Busy)) + SumFunction(Lens)

\* Nothing is unread that has not been garbled.
FaultInv ==
  /\ faults \in Nat
  /\ faults = 0 => \A c \in Clients : \A k \in DOMAIN client[c].got : client[c].got[k] \notin Faulty
  /\ command # "compare" \/ faults = 0 => recounted = 0

\* What the workers of compare have got is right, or faulty.
Right(q) == IF Body[q] = Bad THEN BadRequest ELSE OK(AllFound(q))
RightInv ==
  /\ mismatched = 0 /\ matched \in Int
  /\ \A c \in Clients : \A k \in DOMAIN client[c].got :
       client[c].got[k] \notin Faulty =>
         client[c].got[k] = Right(RequestOf(client[c].item, Order[k]))
  /\ faults = 0 => matched = SumFunction(Worths(Judged))

Staffed == \A s \in Servers : ~Workless(s)
CompareInv ==
  /\ command \in Commands
  /\ command = "compare" /\ Staffed => RightInv

\* What the steps of a worker do to what it holds.
Takes(c) == client[c].at = "free" /\ work < Items /\ work' = work + 1
  /\ client' = [client EXCEPT ![c] = [at |-> "post", item |-> work + 1, got |-> <<>>]]
Gets(c, r) == client[c].at = "wait" /\ UNCHANGED work /\ Returns(c, r)
Clears(c) == client[c].at = "judge" /\ UNCHANGED work /\ client' = [client EXCEPT ![c] = Free0]
Stays(c) == UNCHANGED work
  /\ \/ /\ client[c].at = "free" /\ work = Items
        /\ client' = [client EXCEPT ![c].at = "ended"]
     \/ client[c].at = "post" /\ client' = [client EXCEPT ![c].at = "wait"]

LEMMA ItemsNat == Items \in Nat /\ Items # 0
BY SimulatorAssumption DEF SimulatorAssumption

LEMMA ClientsFinite == IsFiniteSet(Busy) /\ Cardinality(Busy) \in Nat /\ IsFiniteSet(Clients)
<1>1. IsFiniteSet(Clients) /\ Busy \subseteq Clients
  BY ClientAssumption DEF ClientAssumption, Busy
<1> QED
  BY <1>1, FS_Subset, FS_CardinalityType

LEMMA TakesHeld ==
  ASSUME ClientInv, HeldInv, NEW c \in Clients, Takes(c), command' = command
  PROVE  /\ HeldInv' /\ Lens' = Lens /\ Judged' = Judged
         /\ Cardinality(Busy') = Cardinality(Busy) + 1
<1>1. Targets' = Targets
  BY DEF Targets
<1>2. Busy' = Busy \cup {c} /\ c \notin Busy
  BY DEF Busy, ClientInv, Takes
<1>3. /\ work \in Nat /\ work' = work + 1 /\ work + 1 <= Items
      /\ client'[c] = [at |-> "post", item |-> work + 1, got |-> <<>>]
      /\ client[c].got = <<>>
      /\ \A d \in Clients : d # c => client'[d] = client[d]
      /\ DOMAIN client' = Clients /\ DOMAIN client = Clients
      /\ \A d \in Busy : client[d].item \in 1..work /\ d # c
  BY <1>2, ItemsNat DEF ClientInv, HeldInv, Takes
<1>4. HeldInv'
  <2>1. \A d \in Busy' : client'[d].item \in 1..work'
    BY <1>2, <1>3 DEF Busy
  <2>2. \A d, e \in Busy' : d # e => client'[d].item # client'[e].item
    <3> SUFFICES ASSUME NEW d \in Busy, NEW e \in Busy \cup {c}, d # e
                 PROVE  client'[d].item # client'[e].item
      BY <1>2
    <3>1. client'[d] = client[d]
      BY <1>3 DEF Busy
    <3>2. CASE e = c
      BY <1>3, <3>1, <3>2
    <3>3. CASE e # c
      BY <1>3, <3>1, <3>3 DEF HeldInv, Busy
    <3> QED
      BY <3>2, <3>3
  <2>3. ASSUME NEW d \in Clients
        PROVE  /\ client'[d].at \in {"free", "ended"} => client'[d].got = <<>>
               /\ client'[d].at = "judge" => Len(client'[d].got) = Len(Targets')
               /\ client'[d].at = "ended" => work' = Items
    BY <1>1, <1>3 DEF HeldInv, Takes
  <2> QED
    BY <2>1, <2>2, <2>3 DEF HeldInv
<1>5. Lens' = Lens
  BY <1>3 DEF Lens
<1>6. Judged' = Judged
  <2>1. \A d \in Busy : client'[d].item = client[d].item
    BY <1>3 DEF Busy
  <2> QED
    BY <1>2, <1>3, <2>1 DEF Judged
<1> QED
  BY <1>2, <1>4, <1>5, <1>6, ClientsFinite, FS_AddElement

\* A step that changes nothing but where a worker is and what it has got.
LEMMA SameHeld ==
  ASSUME ClientInv, HeldInv, NEW c \in Clients, work' = work, command' = command,
         DOMAIN client' = Clients, \A d \in Clients : d # c => client'[d] = client[d],
         c \in Busy' <=> c \in Busy, client'[c].item = client[c].item,
         client'[c].at \in {"free", "ended"} => client'[c].got = <<>>,
         client'[c].at = "judge" => Len(client'[c].got) = Len(Targets),
         client'[c].at = "ended" => work = Items
  PROVE  HeldInv' /\ Busy' = Busy /\ Judged' = Judged
<1>1. Targets' = Targets
  BY DEF Targets
<1>2. Busy' = Busy
  BY DEF Busy, ClientInv
<1>3. \A d \in Clients : client'[d].item = client[d].item
  OBVIOUS
<1>4. Judged' = Judged
  BY <1>2, <1>3 DEF Judged, Busy
<1>5. \A d \in Clients :
        /\ client'[d].at \in {"free", "ended"} => client'[d].got = <<>>
        /\ client'[d].at = "judge" => Len(client'[d].got) = Len(Targets')
        /\ client'[d].at = "ended" => work' = Items
  BY <1>1 DEF HeldInv
<1>6. /\ \A d \in Busy : client'[d].item \in 1..work
      /\ \A d, e \in Busy : d # e => client'[d].item # client'[e].item
  BY <1>3 DEF HeldInv, Busy
<1> QED
  BY <1>2, <1>4, <1>5, <1>6 DEF HeldInv

LEMMA StaysHeld ==
  ASSUME ClientInv, HeldInv, NEW c \in Clients, Stays(c), command' = command
  PROVE  /\ HeldInv' /\ Lens' = Lens /\ Judged' = Judged /\ Busy' = Busy
         /\ \A d \in Clients : client'[d].got = client[d].got /\ client'[d].item = client[d].item
<1>1. /\ DOMAIN client' = Clients /\ DOMAIN client = Clients
      /\ \A d \in Clients : d # c => client'[d] = client[d]
      /\ client'[c].item = client[c].item /\ client'[c].got = client[c].got
      /\ \/ client[c].at = "free" /\ client'[c].at = "ended" /\ work = Items
         \/ client[c].at = "post" /\ client'[c].at = "wait"
      /\ UNCHANGED work
  BY DEF Stays, ClientInv
<1>2. c \in Busy' <=> c \in Busy
  BY <1>1 DEF Busy
<1>3. client'[c].at \in {"free", "ended"} => client'[c].got = <<>>
  BY <1>1 DEF HeldInv
<1>4. Lens' = Lens
  <2>1. \A d \in Clients : client'[d].got = client[d].got
    BY <1>1
  <2> QED
    BY <2>1 DEF Lens
<1> QED
  BY <1>1, <1>2, <1>3, <1>4, SameHeld

LEMMA LensTyped ==
  ASSUME ClientInv
  PROVE  /\ Lens \in [Clients -> Int]
         /\ \A c \in Clients : Lens[c] = Len(client[c].got) /\ Len(client[c].got) \in Nat
                                 /\ client[c].got \in Seq(Responses)
BY DEF ClientInv, Lens

LEMMA GetsHeld ==
  ASSUME ClientInv, ClientInv', HeldInv, NEW c \in Clients, NEW r \in Responses, Gets(c, r),
         command' = command
  PROVE  /\ HeldInv' /\ Judged' = Judged /\ Busy' = Busy
         /\ SumFunction(Lens') = SumFunction(Lens) + 1 /\ SumFunction(Lens) \in Int
         /\ client'[c].got = Append(client[c].got, r) /\ client'[c].item = client[c].item
         /\ \A d \in Clients : d # c => client'[d] = client[d]
<1> DEFINE got == Append(client[c].got, r)
           next == IF Len(got) = Len(Targets) THEN "judge" ELSE "post"
<1>1. client[c].at = "wait" /\ UNCHANGED work /\ client' = [client EXCEPT ![c].got = got, ![c].at = next]
  BY DEF Gets, Returns
<1>2. /\ DOMAIN client' = Clients /\ DOMAIN client = Clients
      /\ \A d \in Clients : d # c => client'[d] = client[d]
      /\ client'[c].item = client[c].item /\ client'[c].got = got
      /\ client'[c].at = next /\ client[c].at = "wait"
      /\ UNCHANGED work
  <2> HIDE DEF got, next
  <2> QED
    BY <1>1 DEF ClientInv
<1>3. next \in {"judge", "post"} /\ (next = "judge" => Len(got) = Len(Targets))
  OBVIOUS
<1>4. Len(got) = Len(client[c].got) + 1
  BY LensTyped
<1> HIDE DEF got, next
<1>5. HeldInv' /\ Judged' = Judged /\ Busy' = Busy
  <2>1. c \in Busy' <=> c \in Busy
    BY <1>2, <1>3 DEF Busy
  <2> QED
    BY <1>2, <1>3, <2>1, SameHeld
<1>6. \A d \in Clients : Lens'[d] = IF d = c THEN Lens[d] + 1 ELSE Lens[d]
  BY <1>2, <1>4 DEF Lens
<1>7. Lens' \in [Clients -> Int] /\ Lens \in [Clients -> Int]
  BY LensTyped DEF ClientInv, Lens
<1>8. SumFunction(Lens) \in Int /\ SumFunction(Lens') = SumFunction(Lens) + 1
  <2> DEFINE f == Lens
             h == Lens'
  <2>1. f \in [Clients -> Int] /\ h \in [Clients -> Int]
    BY <1>7
  <2>2. \A d \in Clients : h[d] = IF d = c THEN f[d] + 1 ELSE f[d]
    BY <1>6
  <2> HIDE DEF f, h
  <2>3. SumFunction(f) \in Int /\ SumFunction(h) = SumFunction(f) + 1
    BY <2>1, <2>2, SumChange, ClientsFinite
  <2> QED
    BY <2>3 DEF f, h
<1> QED
  BY <1>2, <1>5, <1>8 DEF got

LEMMA ClearsHeld ==
  ASSUME ClientInv, ClientInv', HeldInv, NEW c \in Clients, Clears(c), command' = command
  PROVE  /\ HeldInv' /\ client[c].item \in 1..Items /\ client[c].item \notin Judged
         /\ Judged' = Judged \cup {client[c].item}
         /\ Cardinality(Busy') = Cardinality(Busy) - 1
         /\ SumFunction(Lens') = SumFunction(Lens) - Len(Targets) /\ SumFunction(Lens) \in Int
         /\ client'[c].got = <<>>
         /\ \A d \in Clients : d # c => client'[d] = client[d]
<1>1. /\ DOMAIN client' = Clients /\ DOMAIN client = Clients
      /\ \A d \in Clients : d # c => client'[d] = client[d]
      /\ client'[c].at = "free" /\ client'[c].got = <<>>
      /\ client[c].at = "judge" /\ Len(client[c].got) = Len(Targets)
      /\ UNCHANGED work
  BY DEF Clears, ClientInv, HeldInv, Free0
<1>2. Targets' = Targets
  BY DEF Targets
<1>3. Busy' = Busy \ {c} /\ c \in Busy
  BY <1>1 DEF Busy
<1>4. work \in 0..Items /\ \A d \in Busy : client[d].item \in 1..work
  BY DEF HeldInv, ClientInv
<1>5. \A d \in Busy : d # c => client'[d].item = client[d].item /\ client[d].item # client[c].item
  BY <1>1, <1>3 DEF HeldInv, Busy
<1>6. client[c].item \in 1..Items /\ client[c].item \notin Judged
  BY <1>3, <1>4, ItemsNat DEF Judged
<1>7. Judged' = Judged \cup {client[c].item}
  BY <1>1, <1>3, <1>4, <1>5 DEF Judged
<1>8. HeldInv'
  <2>1. \A d \in Busy' : client'[d].item \in 1..work'
    BY <1>1, <1>3, <1>4, <1>5
  <2>2. \A d, e \in Busy' : d # e => client'[d].item # client'[e].item
    BY <1>3, <1>5 DEF HeldInv
  <2>3. ASSUME NEW d \in Clients
        PROVE  /\ client'[d].at \in {"free", "ended"} => client'[d].got = <<>>
               /\ client'[d].at = "judge" => Len(client'[d].got) = Len(Targets')
               /\ client'[d].at = "ended" => work' = Items
    BY <1>1, <1>2 DEF HeldInv
  <2> QED
    BY <2>1, <2>2, <2>3 DEF HeldInv
<1>9. \A d \in Clients : Lens'[d] = IF d = c THEN Lens[d] + (0 - Len(Targets)) ELSE Lens[d]
  <2>1. Len(client'[c].got) = 0 /\ Len(Targets) \in Nat /\ Len(client[c].got) = Len(Targets)
    BY <1>1, TargetsTyped
  <2>2. ASSUME NEW d \in Clients
        PROVE  Lens'[d] = Len(client'[d].got) /\ Lens[d] = Len(client[d].got)
    BY DEF Lens
  <2>3. Len(Targets) + (0 - Len(Targets)) = 0
    BY <2>1
  <2> QED
    BY <1>1, <2>1, <2>2, <2>3
<1>10. Lens' \in [Clients -> Int] /\ Lens \in [Clients -> Int]
  BY LensTyped DEF ClientInv, Lens
<1>11. /\ SumFunction(Lens) \in Int
       /\ SumFunction(Lens') = SumFunction(Lens) + (0 - Len(Targets))
  <2>1. 0 - Len(Targets) \in Int
    BY TargetsTyped
  <2> DEFINE f == Lens
             h == Lens'
             delta == 0 - Len(Targets)
  <2>2. f \in [Clients -> Int] /\ h \in [Clients -> Int] /\ delta \in Int
    BY <1>10, <2>1
  <2>3. \A d \in Clients : h[d] = IF d = c THEN f[d] + delta ELSE f[d]
    BY <1>9
  <2> HIDE DEF f, h, delta
  <2>4. SumFunction(f) \in Int /\ SumFunction(h) = SumFunction(f) + delta
    BY <2>2, <2>3, SumChange, ClientsFinite
  <2> QED
    BY <2>4 DEF f, h, delta
<1>12. Cardinality(Busy') = Cardinality(Busy) - 1
  BY <1>3, ClientsFinite, FS_RemoveElement
<1> QED
  BY <1>1, <1>6, <1>7, <1>8, <1>11, <1>12, TargetsTyped

\* Where Judge counts an item.
Counts ==
  \/ success' = success + 1 /\ failure' = failure + 0 /\ recounted' = recounted + 0
  \/ success' = success + 0 /\ failure' = failure + 1 /\ recounted' = recounted + 0
  \/ success' = success + 1 /\ failure' = failure + 1 /\ recounted' = recounted + 1

LEMMA CountStep ==
  ASSUME ClientInv, ClientInv', HeldInv, CountInv, NEW c \in Clients, command' = command,
         \/ (Takes(c) \/ Stays(c)) /\ UNCHANGED <<success, failure, recounted, latencies>>
         \/ (\E r \in Responses : Gets(c, r)) /\ UNCHANGED <<success, failure, recounted>>
         \/ Clears(c) /\ Counts /\ UNCHANGED latencies
  PROVE  HeldInv' /\ CountInv'
<1>1. Targets' = Targets /\ Len(Targets) \in Nat
  BY TargetsTyped DEF Targets
<1> DEFINE busy == Cardinality(Busy)
           sum == SumFunction(Lens)
           n == Len(Targets)
<1>2. /\ success \in Nat /\ failure \in Nat /\ recounted \in Nat
      /\ recounted <= success /\ recounted <= failure
      /\ success + failure + busy = work + recounted
      /\ latencies = n * (work - busy) + sum
      /\ busy \in Nat /\ work \in Nat /\ n \in Nat
  BY <1>1, ClientsFinite, ItemsNat DEF CountInv, ClientInv
<1>4. CASE (Takes(c) \/ Stays(c)) /\ UNCHANGED <<success, failure, recounted, latencies>>
  <2>1. /\ HeldInv' /\ sum' = sum
        /\ \/ busy' = busy + 1 /\ work' = work + 1
           \/ busy' = busy /\ work' = work
    BY <1>4, TakesHeld, StaysHeld DEF Takes, Stays
  <2>2. work' - busy' = work - busy
    <3> HIDE DEF busy, sum, n
    <3> QED
      BY <1>2, <2>1
  <2>3. success' + failure' + busy' = work' + recounted'
    <3> HIDE DEF busy, sum, n
    <3> QED
      BY <1>2, <1>4, <2>1
  <2> QED
    BY <1>1, <1>2, <1>4, <2>1, <2>2, <2>3 DEF CountInv
<1>5. CASE (\E r \in Responses : Gets(c, r)) /\ UNCHANGED <<success, failure, recounted>>
  <2>1. PICK r \in Responses : Gets(c, r)
    BY <1>5
  <2>2. /\ HeldInv' /\ Busy' = Busy /\ work' = work /\ latencies' = latencies + 1
        /\ sum' = sum + 1 /\ sum \in Int
    BY <2>1, GetsHeld DEF Gets, Returns
  <2>3. latencies' = n * (work - busy) + (sum + 1)
    <3>1. work - busy \in Int
      BY <1>2
    <3> DEFINE judged == work - busy
    <3> HIDE DEF busy, sum, n, judged
    <3>2. n * judged \in Int
      BY <1>2, <3>1 DEF judged
    <3> QED
      BY <1>2, <2>2, <3>2 DEF judged
  <2> QED
    BY <1>1, <1>2, <1>5, <2>2, <2>3 DEF CountInv
<1>6. CASE Clears(c) /\ Counts /\ UNCHANGED latencies
  <2>1. /\ HeldInv' /\ busy' = busy - 1 /\ work' = work
        /\ sum' = sum - n /\ sum \in Int
    BY <1>6, ClearsHeld DEF Clears
  <2>2. /\ success' \in Nat /\ failure' \in Nat /\ recounted' \in Nat
        /\ recounted' <= success' /\ recounted' <= failure'
        /\ success' + failure' + busy' = work' + recounted'
    <3> HIDE DEF busy, sum, n
    <3> QED
      BY <1>2, <1>6, <2>1 DEF Counts
  <2>3. latencies' = n * (work' - busy') + sum'
    <3> DEFINE judged == work - busy
               product == n * judged
    <3>1. judged \in Int /\ product \in Int /\ n * (judged + 1) = product + n
      BY <1>2
    <3>2. work' - busy' = judged + 1
      <4> HIDE DEF busy, sum, n
      <4> QED
        BY <1>2, <2>1
    <3>3. latencies = product + sum
      BY <1>2
    <3> HIDE DEF busy, sum, n, judged, product
    <3> QED
      BY <1>2, <1>6, <2>1, <3>1, <3>2, <3>3
  <2> QED
    BY <1>1, <2>1, <2>2, <2>3 DEF CountInv
<1> QED
  BY <1>4, <1>5, <1>6

\* A worker that could not read an answer has got a garbled one.
LEMMA FaultStep ==
  ASSUME ClientInv, ClientInv', HeldInv, FaultInv, NEW c \in Clients, command' = command,
         \/ (Takes(c) \/ Stays(c)) /\ UNCHANGED <<faults, recounted>>
         \/ /\ \E r \in Responses : Gets(c, r) /\ (r \in Faulty => faults' = faults + 1)
            /\ faults' \in {faults, faults + 1} /\ UNCHANGED recounted
         \/ Clears(c) /\ UNCHANGED <<faults, recounted>>
         \/ /\ Clears(c) /\ UNCHANGED faults /\ command = "compare"
            /\ \E k \in DOMAIN client[c].got : client[c].got[k] = Garbled
  PROVE  FaultInv'
<1>1. faults' \in Nat /\ (faults' = 0 => faults = 0)
  BY DEF FaultInv
<1> DEFINE Kept == \A e \in Clients : client'[e].got \in {client[e].got, <<>>}
           Got == \E r \in Responses : Gets(c, r) /\ (r \in Faulty => faults' = faults + 1)
<1>2. Got \/ Kept
  <2>1. CASE Takes(c)
    BY <2>1, TakesHeld DEF Takes, ClientInv
  <2>2. CASE Stays(c)
    BY <2>2, StaysHeld
  <2>3. CASE Clears(c)
    BY <2>3, ClearsHeld
  <2> QED
    BY <2>1, <2>2, <2>3
<1>3. ASSUME faults' = 0, NEW d \in Clients, NEW k \in DOMAIN client'[d].got
      PROVE  client'[d].got[k] \notin Faulty
  <2>1. \A e \in Clients : \A j \in DOMAIN client[e].got : client[e].got[j] \notin Faulty
    BY <1>1, <1>3 DEF FaultInv
  <2>2. CASE Kept
    <3>1. DOMAIN <<>> = {}
      OBVIOUS
    <3> QED
      BY <1>3, <2>1, <2>2, <3>1
  <2>3. CASE Got
    <3>1. PICK r \in Responses : Gets(c, r) /\ (r \in Faulty => faults' = faults + 1)
      BY <2>3
    <3>2. r \notin Faulty
      BY <1>3, <3>1 DEF FaultInv
    <3>3. /\ client'[c].got = Append(client[c].got, r)
          /\ \A e \in Clients : e # c => client'[e] = client[e]
      BY <3>1, GetsHeld
    <3>4. client[c].got \in Seq(Responses) /\ Len(client[c].got) \in Nat
      BY LensTyped
    <3>5. CASE d = c /\ k = Len(client[c].got) + 1
      BY <3>2, <3>3, <3>4, <3>5
    <3>6. CASE d = c /\ k # Len(client[c].got) + 1
      <4>1. k \in DOMAIN client[c].got /\ client'[c].got[k] = client[c].got[k]
        BY <1>3, <3>3, <3>4, <3>6
      <4> QED
        BY <2>1, <3>6, <4>1
    <3>7. CASE d # c
      <4>1. client'[d] = client[d]
        BY <3>3, <3>7
      <4> QED
        BY <1>3, <2>1, <4>1
    <3> QED
      BY <3>5, <3>6, <3>7
  <2> HIDE DEF Kept, Got
  <2> QED
    BY <1>2, <2>2, <2>3
<1>4. command' # "compare" \/ faults' = 0 => recounted' = 0
  <2>1. ASSUME \E k \in DOMAIN client[c].got : client[c].got[k] = Garbled, faults = 0 PROVE FALSE
    BY <2>1 DEF FaultInv, Faulty
  <2> QED
    BY <1>1, <2>1 DEF FaultInv
<1> QED
  BY <1>1, <1>3, <1>4 DEF FaultInv

LEMMA StaffedKept == ASSUME [ServerNext]_serverVars PROVE procs' = procs /\ Staffed' = Staffed
<1>1. procs' = procs
  BY DEF ServerNext, serverVars, handlerVars, Handle, Send, RustHandle, Get, RejectBody, Decode,
         FindInOrder, StartWorkers, Feed, CloseTasks, Wait, Take, Lookup, Finish
<1> QED
  BY <1>1 DEF Staffed, Workless

LEMMA BodyTyped ==
  ASSUME NEW i \in 1..Items, NEW s \in Servers
  PROVE  /\ RequestOf(i, s) \in Requests
         /\ Body[RequestOf(i, s)] # Bad => /\ Body[RequestOf(i, s)] \in Seq(Points)
                                           /\ Size(RequestOf(i, s)) \in Nat
         /\ \A t \in Servers : Body[RequestOf(i, t)] = Body[RequestOf(i, s)]
<1>1. RequestOf(i, s) \in Requests
  BY SimulatorAssumption DEF SimulatorAssumption
<1>2. Body[RequestOf(i, s)] \in Seq(Points) \cup {Bad}
  BY <1>1, ServerAssumption DEF ServerAssumption, Points
<1>3. \A t \in Servers : Body[RequestOf(i, t)] = Body[RequestOf(i, s)]
  BY ClientAssumption DEF ClientAssumption
<1> QED
  BY <1>1, <1>2, <1>3 DEF Size

\* With workers to look points up the reply is the right one.
LEMMA ReplyRight ==
  ASSUME IInv, Staffed, NEW q \in Requests, reply[q] # None
  PROVE  reply[q] = Right(q)
<1>1. Correct(q) /\ Types
  BY DEF IInv, RequestInv
<1>2. CASE Body[q] = Bad
  BY <1>1, <1>2 DEF Correct, Right
<1>3. CASE Body[q] # Bad
  <2>1. Body[q] \in Seq(Points) /\ Size(q) \in Nat
    BY <1>3, ServerAssumption DEF ServerAssumption, Points, Size
  <2>2. ~(Parallel(q) /\ Threads(q) = 0)
    <3> SUFFICES ASSUME Parallel(q) PROVE Threads(q) # 0
      OBVIOUS
    <3>1. Home[q] \in Servers /\ Home[q] \notin Rust
      BY ServerAssumption DEF ServerAssumption, Parallel
    <3>2. procs[Home[q]] \in Nat \ {0} /\ procs[Home[q]] # 1
      BY <1>1, <3>1, ServerAssumption DEF Types, ServerAssumption, Staffed, Workless
    <3>3. procs[Home[q]] \div 2 >= 1
      BY <3>2
    <3>4. Size(q) \div PointsPerThread \in Int
      BY <2>1, ServerAssumption DEF ServerAssumption
    <3> QED
      BY <3>2, <3>3, <3>4 DEF Threads, MinOf, MaxOf
  <2>3. reply[q] = OK(AllFound(q))
    BY <1>1, <1>3, <2>2 DEF Correct, AllFound
  <2> QED
    BY <1>3, <2>3 DEF Right
<1> QED
  BY <1>2, <1>3

\* What a server answers is not what stands for a fault.
LEMMA ReplyNotFaulty ==
  ASSUME IInv, NEW q \in Requests, reply[q] # None
  PROVE  reply[q] \notin Faulty
<1>1. Correct(q)
  BY DEF IInv, RequestInv
<1> DEFINE Known == [status : {200, 400}, infos : Seq(Range(Find) \cup {NoInfo})]
<1>2. reply[q] \in Known
  <2>1. CASE Body[q] = Bad
    <3>1. <<>> \in Seq(Range(Find) \cup {NoInfo})
      OBVIOUS
    <3>2. reply[q] = BadRequest
      BY <1>1, <2>1 DEF Correct
    <3> QED
      BY <3>1, <3>2 DEF BadRequest
  <2>2. CASE Body[q] # Bad
    <3>1. Body[q] \in Seq(Points) /\ Size(q) \in Nat
      BY <2>2, ServerAssumption DEF ServerAssumption, Points, Size
    <3>2. \A k \in 1..Size(q) : Find[Body[q][k]] \in Range(Find)
      BY <3>1 DEF Range, Points, Size
    <3>3. /\ AllFound(q) \in Seq(Range(Find) \cup {NoInfo})
          /\ NoneFound(q) \in Seq(Range(Find) \cup {NoInfo})
      BY <3>1, <3>2 DEF AllFound, NoneFound
    <3>4. reply[q] = OK(AllFound(q)) \/ reply[q] = OK(NoneFound(q))
      BY <1>1, <2>2 DEF Correct, AllFound, NoneFound
    <3> QED
      BY <3>3, <3>4 DEF OK
  <2> QED
    BY <2>1, <2>2
<1> QED
  BY <1>2, ClientAssumption DEF ClientAssumption, Faulty

\* A step that gets and judges nothing leaves what the workers of compare have.
LEMMA RightKept ==
  ASSUME RightInv, UNCHANGED <<faults, matched, mismatched>>, Judged' = Judged,
         \A c \in Clients : \/ client'[c].got = client[c].got /\ client'[c].item = client[c].item
                            \/ client'[c].got = <<>>
  PROVE  RightInv'
<1>1. ASSUME NEW c \in Clients, NEW k \in DOMAIN client'[c].got
      PROVE  /\ client'[c].got = client[c].got /\ client'[c].item = client[c].item
             /\ k \in DOMAIN client[c].got
  <2>1. DOMAIN <<>> = {}
    OBVIOUS
  <2> QED
    BY <1>1, <2>1
<1>2. \A c \in Clients : \A k \in DOMAIN client'[c].got :
        client'[c].got[k] \notin Faulty =>
          client'[c].got[k] = Right(RequestOf(client'[c].item, Order[k]))
  BY <1>1 DEF RightInv
<1>3. Worths(Judged)' = Worths(Judged)
  BY DEF Worths, Worth, Size
<1>4. \A q : Right(q)' = Right(q)
  BY DEF Right, AllFound, Size
<1> QED
  BY <1>2, <1>3, <1>4 DEF RightInv

LEMMA GetsRight ==
  ASSUME ClientInv, ClientInv', HeldInv, RightInv, command = "compare",
         NEW c \in Clients, NEW r \in Responses, Gets(c, r), command' = command,
         UNCHANGED <<matched, mismatched>>, faults \in Nat, faults' \in Nat,
         \/ r = Right(Current(c)) /\ r \notin Faulty /\ faults' = faults
         \/ r \in Faulty /\ faults' # 0
  PROVE  RightInv'
<1>1. /\ Judged' = Judged
      /\ client'[c].got = Append(client[c].got, r) /\ client'[c].item = client[c].item
      /\ \A d \in Clients : d # c => client'[d] = client[d]
  BY GetsHeld
<1>2. client[c].got \in Seq(Responses) /\ Len(client[c].got) \in Nat
  BY LensTyped
<1>3. Current(c) = RequestOf(client[c].item, Order[Len(client[c].got) + 1])
  BY DEF Current, Targets
<1>4. ASSUME NEW d \in Clients, NEW k \in DOMAIN client'[d].got
      PROVE  client'[d].got[k] \notin Faulty =>
               client'[d].got[k] = Right(RequestOf(client'[d].item, Order[k]))
  <2>1. CASE d = c /\ k = Len(client[c].got) + 1
    <3>1. client'[c].got[k] = r
      BY <1>1, <1>2, <2>1
    <3> QED
      BY <1>1, <1>3, <2>1, <3>1
  <2>2. CASE d = c /\ k # Len(client[c].got) + 1
    <3>2. k \in DOMAIN Append(client[c].got, r)
      BY <1>1, <1>4, <2>2
    <3>1. k \in DOMAIN client[c].got /\ client'[c].got[k] = client[c].got[k]
      BY <1>1, <1>2, <2>2, <3>2
    <3> QED
      BY <1>1, <2>2, <3>1 DEF RightInv
  <2>3. CASE d # c
    <3>1. client'[d] = client[d]
      BY <1>1, <2>3
    <3> QED
      BY <1>4, <3>1 DEF RightInv
  <2> QED
    BY <2>1, <2>2, <2>3
<1>5. faults' = 0 => matched' = SumFunction(Worths(Judged'))
  BY <1>1 DEF RightInv
<1>6. Worths(Judged)' = Worths(Judged')
  BY DEF Worths, Worth, Size
<1>7. \A q : Right(q)' = Right(q)
  BY DEF Right, AllFound, Size
<1> QED
  BY <1>4, <1>5, <1>6, <1>7 DEF RightInv

LEMMA OrderTyped ==
  ASSUME CompareInv, command = "compare"
  PROVE  /\ Targets = Order /\ Len(Order) = 2 /\ Order \in Seq(Servers)
         /\ Order[1] \in Servers /\ Order[2] \in Servers
<1>1. Targets = Order /\ Len(Order) = 2 /\ Order \in Seq(Servers)
  BY SimulatorAssumption, ClientAssumption
     DEF SimulatorAssumption, ClientAssumption, CompareInv, Targets
<1> QED
  BY <1>1

\* compare adds the points of a request that was answered twice, and nothing else.
LEMMA JudgedWorth ==
  ASSUME ClientInv, HeldInv, FaultInv, CompareInv, Staffed, command = "compare",
         NEW c \in Clients, Judge(c)
  PROVE  /\ mismatched' = 0 /\ matched' \in Int
         /\ faults = 0 => matched' = matched + Worth(RequestOf(client[c].item, Order[1]))
         /\ Worth(RequestOf(client[c].item, Order[1])) \in Nat
<1> DEFINE i == client[c].item
           a == RequestOf(i, Order[1])
           b == RequestOf(i, Order[2])
<1>1. /\ c \in Busy /\ i \in 1..Items /\ Len(client[c].got) = 2
      /\ Order[1] \in Servers /\ Order[2] \in Servers
  <2>1. c \in Busy /\ client[c].item \in 1..work /\ Len(client[c].got) = Len(Targets)
    BY DEF Judge, Busy, HeldInv
  <2> QED
    BY <2>1, OrderTyped, ItemsNat DEF ClientInv
<1>2. /\ client[c].got \in Seq(Responses) /\ DOMAIN client[c].got = {1, 2}
  BY <1>1, LensTyped
<1>3. /\ Body[a] = Body[b] /\ Size(a) = Size(b)
      /\ Body[a] # Bad => Body[a] \in Seq(Points) /\ Size(a) \in Nat
  BY <1>1, BodyTyped DEF Size
<1>4. Worth(a) \in Nat
  BY <1>3 DEF Worth
<1>5. /\ client[c].got[1] \notin Faulty => client[c].got[1] = Right(a)
      /\ client[c].got[2] \notin Faulty => client[c].got[2] = Right(b)
      /\ faults = 0 => client[c].got[1] \notin Faulty /\ client[c].got[2] \notin Faulty
      /\ mismatched = 0 /\ matched \in Int
  BY <1>2 DEF CompareInv, RightInv, FaultInv
<1>6. /\ Good(c) /\ ~Unread(c) <=>
           /\ client[c].got[1] \notin Faulty /\ client[c].got[1].status = 200
           /\ client[c].got[2] \notin Faulty /\ client[c].got[2].status = 200
  BY <1>2, ClientAssumption DEF ClientAssumption, Good, Accepted, Unread, Faulty
<1>7. BadRequest.status = 400 /\ \A infos : OK(infos).status = 200 /\ OK(infos).infos = infos
  BY DEF BadRequest, OK
<1> HIDE DEF i, a, b
<1>8. CASE Good(c) /\ ~Unread(c)
  <2>1. /\ client[c].got[1] = OK(AllFound(a)) /\ client[c].got[2] = OK(AllFound(b))
        /\ Body[a] # Bad
    BY <1>3, <1>5, <1>6, <1>7, <1>8 DEF Right
  <2>2. AllFound(a) = AllFound(b) /\ Len(AllFound(a)) = Size(a) /\ Size(a) \in Nat
    BY <1>3, <2>1 DEF AllFound
  <2>3. Compared(c) = [same |-> Size(a), differ |-> 0]
    <3> DEFINE infos == AllFound(a)
               same == Cardinality({k \in 1..Size(a) : infos[k] = infos[k]})
    <3>1. Cardinality(1..Size(a)) = Size(a)
      BY <2>2, FS_Interval
    <3>2. {k \in 1..Size(a) : infos[k] = infos[k]} = 1..Size(a)
      OBVIOUS
    <3>3. client[c].got[1].infos = infos /\ client[c].got[2].infos = infos
      BY <1>7, <2>1, <2>2
    <3>4. MinOf(Size(a), MinOf(Size(a), Size(a))) = Size(a) /\ MaxOf(Size(a) - Size(a), Size(a) - Size(a)) = 0
      BY <2>2 DEF MinOf, MaxOf
    <3>5. Len(infos) = Size(a)
      BY <2>2
    <3>6. same = Size(a)
      BY <3>1, <3>2
    <3>7. Size(a) - Size(a) + 0 = 0
      BY <2>2
    <3>8. Compared(c) = [same |-> same, differ |-> Size(a) - same + 0]
      <4> HIDE DEF infos
      <4> QED
        BY <3>3, <3>4, <3>5 DEF Compared, a, i
    <3> QED
      BY <3>6, <3>7, <3>8
  <2>4. matched' = matched + Size(a) /\ mismatched' = mismatched + 0
    BY <1>8, <2>3 DEF Judge
  <2> QED
    BY <1>4, <1>5, <2>1, <2>2, <2>4 DEF Worth, a, i
<1>9. CASE ~(Good(c) /\ ~Unread(c))
  <2>1. UNCHANGED <<matched, mismatched>>
    BY <1>9 DEF Judge
  <2>2. ASSUME faults = 0 PROVE Worth(a) = 0
    <3>1. Right(a).status # 200 \/ Right(b).status # 200
      BY <1>5, <1>6, <1>9, <2>2
    <3>2. Body[a] = Bad
      BY <1>3, <1>7, <3>1 DEF Right
    <3> QED
      BY <3>2 DEF Worth
  <2>3. matched + 0 = matched
    BY <1>5
  <2> QED
    BY <1>4, <1>5, <2>1, <2>2, <2>3 DEF a, i
<1> QED
  BY <1>8, <1>9

LEMMA WorthsTyped ==
  ASSUME Order[1] \in Servers, NEW D
  PROVE  Worths(D) \in [1..Items -> Int]
<1>1. \A i \in 1..Items : Worth(RequestOf(i, Order[1])) \in Int
  BY BodyTyped DEF Worth
<1> QED
  BY <1>1 DEF Worths

LEMMA JudgesRight ==
  ASSUME ClientInv, ClientInv', HeldInv, FaultInv, CompareInv, Staffed, command = "compare", RightInv,
         NEW c \in Clients, Judge(c)
  PROVE  RightInv'
<1> DEFINE i == client[c].item
<1>1. Clears(c) /\ UNCHANGED <<command, faults>>
  BY DEF Judge, Clears
<1>2. /\ i \in 1..Items /\ i \notin Judged /\ Judged' = Judged \cup {i}
      /\ client'[c].got = <<>>
      /\ \A d \in Clients : d # c => client'[d] = client[d]
  BY <1>1, ClearsHeld
<1>3. Order[1] \in Servers
  BY OrderTyped
<1>4. ASSUME faults = 0 PROVE matched' = SumFunction(Worths(Judged'))
  <2> DEFINE f == Worths(Judged)
             h == Worths(Judged')
             worth == Worth(RequestOf(i, Order[1]))
  <2>1. f \in [1..Items -> Int] /\ h \in [1..Items -> Int]
    BY <1>3, WorthsTyped
  <2>2. /\ \A x \in 1..Items : x # i => h[x] = f[x]
        /\ h[i] = worth /\ f[i] = 0 /\ worth \in Nat
    BY <1>2, JudgedWorth DEF Worths
  <2>3. matched' = matched + worth /\ matched = SumFunction(f)
    BY <1>4, JudgedWorth DEF RightInv
  <2>4. IsFiniteSet(1..Items)
    BY ItemsNat, FS_Interval
  <2> DEFINE S == 1..Items
  <2>5. /\ f \in [S -> Int] /\ h \in [S -> Int] /\ i \in S /\ IsFiniteSet(S)
        /\ \A x \in S : x # i => h[x] = f[x]
    BY <1>2, <2>1, <2>2, <2>4
  <2> HIDE DEF f, h, worth, i, S
  <2>6. SumFunction(h) = SumFunction(f) + (h[i] - f[i])
    BY <2>5, SumChange
  <2>7. h[i] - f[i] = worth
    BY <2>2
  <2> QED
    BY <2>3, <2>6, <2>7 DEF h
<1>5. ASSUME NEW d \in Clients, NEW k \in DOMAIN client'[d].got
      PROVE  client'[d].got[k] \notin Faulty =>
               client'[d].got[k] = Right(RequestOf(client'[d].item, Order[k]))
  <2>1. d # c /\ client'[d] = client[d]
    <3>1. DOMAIN <<>> = {}
      OBVIOUS
    <3> QED
      BY <1>2, <1>5, <3>1
  <2> QED
    BY <1>1, <1>5, <2>1 DEF RightInv
<1>6. mismatched' = 0 /\ matched' \in Int
  BY JudgedWorth
<1>7. Worths(Judged)' = Worths(Judged')
  BY DEF Worths, Worth, Size
<1>8. \A q : Right(q)' = Right(q)
  BY DEF Right, AllFound, Size
<1> QED
  BY <1>1, <1>4, <1>5, <1>6, <1>7, <1>8 DEF RightInv

SimInv == HeldInv /\ CountInv /\ FaultInv /\ CompareInv

LEMMA SimInitInv == Init => SimInv
<1> SUFFICES ASSUME Init PROVE SimInv
  OBVIOUS
<1>1. /\ command \in Commands /\ work = 0 /\ client = [c \in Clients |-> Free0]
      /\ success = 0 /\ failure = 0 /\ recounted = 0 /\ matched = 0 /\ mismatched = 0
      /\ latencies = 0 /\ faults = 0
  BY DEF Init
<1>2. \A c \in Clients : client[c].at = "free" /\ client[c].got = <<>>
  BY <1>1 DEF Free0
<1>3. Busy = {} /\ Cardinality(Busy) = 0
  BY <1>2, FS_EmptySet DEF Busy
<1>4. HeldInv
  BY <1>2, <1>3 DEF HeldInv
<1>5. CountInv
  <2>1. Lens \in [Clients -> Int] /\ \A c \in Clients : Lens[c] = 0
    BY <1>2 DEF Lens
  <2> HIDE DEF Lens
  <2>2. SumFunction(Lens) = 0
    BY <2>1, SumZero, ClientsFinite
  <2>3. Len(Targets) * (0 - 0) = 0
    BY TargetsTyped
  <2> QED
    BY <1>1, <1>3, <2>2, <2>3 DEF CountInv
<1>f. FaultInv
  <2>1. \A c \in Clients : DOMAIN client[c].got = {}
    BY <1>2
  <2> QED
    BY <1>1, <2>1 DEF FaultInv
<1>6. CompareInv
  <2> SUFFICES ASSUME command = "compare" PROVE RightInv
    BY <1>1 DEF CompareInv
  <2>1. \A c \in Clients : DOMAIN client[c].got = {}
    BY <1>2
  <2>2. Order[1] \in Servers
    BY <1>1, SimulatorAssumption DEF SimulatorAssumption
  <2>3. Judged = {}
    BY <1>1 DEF Judged
  <2>4. Worths(Judged) \in [1..Items -> Int] /\ \A i \in 1..Items : Worths(Judged)[i] = 0
    BY <2>2, <2>3, WorthsTyped DEF Worths
  <2>5. IsFiniteSet(1..Items)
    BY ItemsNat, FS_Interval
  <2>6. SumFunction(Worths(Judged)) = 0
    BY <2>4, <2>5, SumZero
  <2> QED
    BY <1>1, <2>1, <2>6 DEF RightInv
<1> QED
  BY <1>4, <1>5, <1>6, <1>f DEF SimInv

LEMMA SimStepInv ==
  ASSUME ClientInv, ClientInv', IInv, SimInv, [Next]_vars
  PROVE  SimInv'
<1>1. HeldInv /\ CountInv /\ FaultInv /\ CompareInv /\ faults \in Nat
  BY DEF SimInv, FaultInv
<1>s. Staffed' = Staffed
  BY StepOfServers, StaffedKept
<1>2. ASSUME NEW c \in Clients, TakeItem(c) PROVE SimInv'
  <2>1. /\ Takes(c)
        /\ UNCHANGED <<command, success, failure, recounted, matched, mismatched, latencies, faults>>
    BY <1>2 DEF TakeItem, Takes, countVars
  <2>2. HeldInv' /\ CountInv' /\ FaultInv'
    BY <1>1, <2>1, CountStep, FaultStep
  <2>3. Judged' = Judged
    BY <1>1, <2>1, TakesHeld
  <2>4. \A d \in Clients : \/ client'[d].got = client[d].got /\ client'[d].item = client[d].item
                           \/ client'[d].got = <<>>
    BY <2>1 DEF Takes, ClientInv
  <2>5. CompareInv'
    BY <1>1, <1>s, <2>1, <2>3, <2>4, RightKept DEF CompareInv
  <2> QED
    BY <2>2, <2>5 DEF SimInv
<1>3. ASSUME NEW c \in Clients, WorkerEnds(c) \/ Post(c) PROVE SimInv'
  <2>1. /\ Stays(c)
        /\ UNCHANGED <<command, success, failure, recounted, matched, mismatched, latencies, faults>>
    BY <1>3 DEF WorkerEnds, Post, Stays, countVars
  <2>2. HeldInv' /\ CountInv' /\ FaultInv'
    BY <1>1, <2>1, CountStep, FaultStep
  <2>3. /\ Judged' = Judged
        /\ \A d \in Clients : client'[d].got = client[d].got /\ client'[d].item = client[d].item
    BY <1>1, <2>1, StaysHeld
  <2>4. CompareInv'
    BY <1>1, <1>s, <2>1, <2>3, RightKept DEF CompareInv
  <2> QED
    BY <2>2, <2>4 DEF SimInv
<1>4. ASSUME NEW c \in Clients, Response(c) PROVE SimInv'
  <2> DEFINE r == reply[Current(c)]
  <2>1. Current(c) \in Requests /\ r # None /\ Returns(c, r) /\ client[c].at = "wait"
    BY <1>4, CurrentRequest DEF Response
  <2>2. r \in Responses
    BY <2>1, ReplyIsResponse
  <2>3. /\ Gets(c, r)
        /\ UNCHANGED <<command, success, failure, recounted, matched, mismatched, faults>>
    BY <1>4 DEF Response, Gets, countVars
  <2> HIDE DEF r
  <2>4. HeldInv' /\ CountInv'
    BY <1>1, <2>2, <2>3, CountStep
  <2>7. r \notin Faulty /\ FaultInv'
    <3>1. r \notin Faulty
      BY <2>1, ReplyNotFaulty DEF r
    <3> QED
      BY <1>1, <2>2, <2>3, <3>1, FaultStep
  <2>5. ASSUME command = "compare", Staffed PROVE RightInv'
    <3>1. RightInv
      BY <1>1, <2>5 DEF CompareInv
    <3>2. r = Right(Current(c))
      BY <2>1, <2>5, ReplyRight DEF r
    <3> QED
      BY <1>1, <2>2, <2>3, <2>5, <2>7, <3>1, <3>2, GetsRight
  <2>6. CompareInv'
    BY <1>1, <1>s, <2>3, <2>5 DEF CompareInv
  <2> QED
    BY <2>4, <2>6, <2>7 DEF SimInv
<1>5. ASSUME NEW c \in Clients, Fault(c, Lost) \/ Fault(c, Garbled) PROVE SimInv'
  <2>1. PICK r \in Faulty : Fault(c, r)
    BY <1>5 DEF Faulty
  <2>2. /\ r \in Responses /\ Gets(c, r) /\ faults' = faults + 1
        /\ UNCHANGED <<command, success, failure, recounted, matched, mismatched>>
    BY <2>1 DEF Fault, Gets, countVars, Responses
  <2>3. HeldInv' /\ CountInv' /\ FaultInv'
    BY <1>1, <2>2, CountStep, FaultStep
  <2>4. faults' \in Nat /\ faults' # 0
    BY <1>1, <2>2
  <2>5. ASSUME command = "compare", Staffed PROVE RightInv'
    <3>1. RightInv
      BY <1>1, <2>5 DEF CompareInv
    <3> QED
      BY <1>1, <2>1, <2>2, <2>4, <2>5, <3>1, GetsRight
  <2>6. CompareInv'
    BY <1>1, <1>s, <2>2, <2>5 DEF CompareInv
  <2> QED
    BY <2>3, <2>6 DEF SimInv
<1>6. ASSUME NEW c \in Clients, Judge(c) PROVE SimInv'
  <2>1. Clears(c) /\ Counts /\ UNCHANGED <<command, latencies, faults>>
    BY <1>6 DEF Judge, Clears, Counts
  <2>2. HeldInv' /\ CountInv'
    BY <1>1, <2>1, CountStep
  <2>5. FaultInv'
    <3>1. recounted \in Nat
      BY <1>1 DEF CountInv
    <3>2. \/ recounted' = recounted
          \/ /\ command = "compare"
             /\ \E k \in DOMAIN client[c].got : client[c].got[k] = Garbled
      BY <1>6, <3>1 DEF Judge, Unread
    <3> QED
      BY <1>1, <2>1, <3>2, FaultStep
  <2>3. ASSUME command = "compare", Staffed PROVE RightInv'
    <3>1. RightInv
      BY <1>1, <2>3 DEF CompareInv
    <3> QED
      BY <1>1, <1>6, <2>3, <3>1, JudgesRight
  <2>4. CompareInv'
    BY <1>1, <1>s, <2>1, <2>3 DEF CompareInv
  <2> QED
    BY <2>2, <2>4, <2>5 DEF SimInv
<1>7. ASSUME UNCHANGED simVars PROVE SimInv'
  <2>1. /\ UNCHANGED <<command, work, client, success, failure, recounted, matched, mismatched,
                       latencies, faults>>
    BY <1>7 DEF simVars, countVars
  <2>2. UNCHANGED <<Busy, Judged, Lens, Targets>>
    BY <2>1 DEF Busy, Judged, Lens, Targets
  <2>3. HeldInv' /\ CountInv' /\ FaultInv'
    BY <1>1, <2>1, <2>2 DEF HeldInv, CountInv, FaultInv
  <2>4. CompareInv'
    BY <1>1, <1>s, <2>1, <2>2, RightKept DEF CompareInv
  <2> QED
    BY <2>3, <2>4 DEF SimInv
<1> QED
  BY <1>2, <1>3, <1>4, <1>5, <1>6, <1>7 DEF Next, ClientStep, ServerStep, vars

LEMMA SimAlways == Spec => [](ClientInv /\ SimInv)
<1>1. Init => SimInv
  BY SimInitInv
<1>2. ClientInv /\ ClientInv' /\ IInv /\ SimInv /\ [Next]_vars => SimInv'
  BY SimStepInv
<1> QED
  BY <1>1, <1>2, BothAlways, PTL DEF Spec

\* Every item is counted once and every post has its latency noted, whatever
\* times out; but for the items of compare that a garbled answer has counted as
\* both success and failure (bench.go:92-110, compare.go:99-140).
THEOREM ItemsAlwaysCounted == Spec => []ItemsCounted
<1>1. SimInv => ItemsCounted
  BY DEF SimInv, CountInv, FaultInv, ItemsCounted, Lens
<1> QED
  BY <1>1, SimAlways, PTL

\* compare finds no difference where there is none, and misses no point when
\* no response is lost or garbled (compare.go:142-170).
THEOREM ComparisonAlwaysExact == Spec => []ComparisonExact
<1>1. ASSUME ClientInv, SimInv PROVE ComparisonExact
  <2> SUFFICES ASSUME command = "compare", Staffed
               PROVE  /\ mismatched = 0
                      /\ Ended /\ faults = 0 =>
                           matched = SumFunction([i \in 1..Items |-> Worth(RequestOf(i, Order[1]))])
    BY DEF ComparisonExact, Staffed
  <2>1. RightInv /\ HeldInv
    BY <1>1 DEF SimInv, CompareInv
  <2>2. ASSUME Ended PROVE Worths(Judged) = [i \in 1..Items |-> Worth(RequestOf(i, Order[1]))]
    <3>1. Busy = {}
      BY <2>2 DEF Busy, Ended
    <3>2. work = Items
      BY <2>1, <2>2, ClientAssumption DEF HeldInv, Ended, ClientAssumption
    <3>3. Judged = 1..Items
      BY <3>1, <3>2 DEF Judged
    <3> QED
      BY <3>3 DEF Worths
  <2> QED
    BY <2>1, <2>2 DEF RightInv
<1> QED
  BY <1>1, SimAlways, PTL
=============================================================================
