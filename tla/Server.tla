------------------------------- MODULE Server -------------------------------
(***************************************************************************)
(* The multi-address handler of the HTTP server (server.go).  A request    *)
(* takes a slice from a pool, decodes its body into it, and answers its    *)
(* points one after the other or, when there are enough of them, with a    *)
(* pool of goroutines that take indexes from a channel and write to one    *)
(* slice of results.                                                       *)
(*                                                                         *)
(* A request is a member of Requests, addressed to the server Home gives.  *)
(* A slice is the array behind it, named by the request whose decoding     *)
(* allocated it, and its capacity.                                         *)
(***************************************************************************)
EXTENDS Integers, Sequences, FiniteSets

CONSTANTS
  Servers,
  Rust,              \* those of them that run the Rust implementation
  Requests, Home,
  Body,              \* the points of each request, or Bad
  Bad,
  PointsPerThread,
  Find,              \* what the geocoder knows of each point, or NoInfo
  NoInfo,
  None,              \* no array, no reply
  Procs              \* the possible values of GOMAXPROCS

ServerAssumption ==
  /\ PointsPerThread \in Nat \ {0}
  /\ Procs \subseteq Nat \ {0}
  /\ Rust \subseteq Servers
  /\ Home \in [Requests -> Servers]
  /\ Body \in [Requests -> Seq(DOMAIN Find) \cup {Bad}]
  /\ Bad \notin Seq(DOMAIN Find)
  /\ None \notin Requests
ASSUME ServerAssumption

VARIABLES
  procs,     \* GOMAXPROCS of each server
  pool,      \* the slices in reqPointsPool, per server
  mem,       \* the contents of the arrays
  at,        \* where each request is
  header,    \* the slice it took from the pool
  array,     \* the array its points are in
  tasks,     \* taskChan
  fed,       \* how many indexes its feeder has sent
  closed,    \* its feeder has closed taskChan
  holds,     \* the index each of its workers is looking up, 0 for none
  finished,  \* its workers that have called wg.Done
  result,    \* res
  reply      \* what it is answered

handlerVars == <<procs, pool, mem, at, header, array, reply>>
poolVars == <<tasks, fed, closed, holds, finished, result>>
serverVars == <<handlerVars, poolVars>>

NewSlice == [arr |-> None, cap |-> 0]
BadRequest == [status |-> 400, infos |-> <<>>]
OK(infos) == [status |-> 200, infos |-> infos]

Size(q) == Len(Body[q])
Point(q, i) == mem[array[q]][i]

MinOf(a, b) == IF a < b THEN a ELSE b
MaxOf(a, b) == IF a < b THEN b ELSE a
Threads(q) == MinOf(MaxOf(2, Size(q) \div PointsPerThread), procs[Home[q]] \div 2)

ServerInit ==
  /\ procs \in [Servers \ Rust -> Procs]
  /\ pool = [s \in Servers |-> {}]
  /\ mem = [q \in Requests |-> <<>>]
  /\ at = [q \in Requests |-> "idle"]
  /\ header = [q \in Requests |-> NewSlice]
  /\ array = [q \in Requests |-> None]
  /\ tasks = [q \in Requests |-> <<>>]
  /\ fed = [q \in Requests |-> 0]
  /\ closed = [q \in Requests |-> FALSE]
  /\ holds = [q \in Requests |-> <<>>]
  /\ finished = [q \in Requests |-> {}]
  /\ result = [q \in Requests |-> <<>>]
  /\ reply = [q \in Requests |-> None]

\* A client sends request q (external).
Send(q) ==
  /\ at[q] = "idle"
  /\ at' = [at EXCEPT ![q] = "sent"]
  /\ UNCHANGED <<procs, pool, mem, header, array, reply, poolVars>>

\* reqPointsPool.Get: any pooled slice or, as the pool may forget, a new one.
Get(q) ==
  /\ at[q] = "sent"
  /\ Home[q] \notin Rust
  /\ \E h \in pool[Home[q]] \cup {NewSlice} :
       /\ header' = [header EXCEPT ![q] = h]
       /\ pool' = [pool EXCEPT ![Home[q]] = @ \ {h}]
  /\ at' = [at EXCEPT ![q] = "got"]
  /\ UNCHANGED <<procs, mem, array, reply, poolVars>>

\* The deferred Put evaluated its argument before the body was decoded.
Returned(q) == header[q]

Answer(q, r) ==
  /\ reply' = [reply EXCEPT ![q] = r]
  /\ pool' = [pool EXCEPT ![Home[q]] = @ \cup {Returned(q)}]
  /\ at' = [at EXCEPT ![q] = "replied"]

\* json.Unmarshal fails.
RejectBody(q) ==
  /\ at[q] = "got"
  /\ Body[q] = Bad
  /\ Answer(q, BadRequest)
  /\ UNCHANGED <<procs, mem, header, array, poolVars>>

\* Mutant: the decoded slice is given back at once.
DecodeAndPut(q) ==
  /\ at[q] = "got"
  /\ Body[q] # Bad
  /\ LET arr == IF header[q].cap < Size(q) THEN q ELSE header[q].arr
     IN  /\ array' = [array EXCEPT ![q] = arr]
         /\ mem' = [mem EXCEPT ![arr] = Body[q]]
         /\ pool' = [pool EXCEPT ![Home[q]] = @ \cup {[arr |-> arr, cap |-> Size(q)]}]
  /\ at' = [at EXCEPT ![q] = "decoded"]
  /\ UNCHANGED <<procs, header, reply, poolVars>>

\* json.Unmarshal into req: it allocates when the slice is too short.
Decode(q) ==
  /\ at[q] = "got"
  /\ Body[q] # Bad
  /\ LET arr == IF header[q].cap < Size(q) THEN q ELSE header[q].arr
     IN  /\ array' = [array EXCEPT ![q] = arr]
         /\ mem' = IF arr = None THEN mem ELSE [mem EXCEPT ![arr] = Body[q]]
  /\ at' = [at EXCEPT ![q] = "decoded"]
  /\ UNCHANGED <<procs, pool, header, reply, poolVars>>

FindInOrder(q) ==
  /\ at[q] = "decoded"
  /\ Size(q) < PointsPerThread
  /\ Answer(q, OK([i \in 1..Size(q) |-> Find[Point(q, i)]]))
  /\ UNCHANGED <<procs, mem, header, array, poolVars>>

\* multithreadedFind starts the feeder and the workers.
StartWorkers(q) ==
  /\ at[q] = "decoded"
  /\ Size(q) >= PointsPerThread
  /\ result' = [result EXCEPT ![q] = [i \in 1..Size(q) |-> NoInfo]]
  /\ holds' = [holds EXCEPT ![q] = [t \in 1..Threads(q) |-> 0]]
  /\ at' = [at EXCEPT ![q] = "finding"]
  /\ UNCHANGED <<procs, pool, mem, header, array, reply, tasks, fed, closed, finished>>

Started(q) == at[q] \in {"finding", "replied"} /\ result[q] # <<>>

\* taskChan <- i, which blocks while the channel is full.
Feed(q) ==
  /\ Started(q)
  /\ fed[q] < Size(q)
  /\ Len(tasks[q]) < Threads(q)
  /\ tasks' = [tasks EXCEPT ![q] = Append(@, fed[q] + 1)]
  /\ fed' = [fed EXCEPT ![q] = @ + 1]
  /\ UNCHANGED <<handlerVars, closed, holds, finished, result>>

\* Mutant: the feeder does not close its channel.
CloseTasksNot(q) == FALSE

CloseTasks(q) ==
  /\ Started(q)
  /\ fed[q] = Size(q)
  /\ ~closed[q]
  /\ closed' = [closed EXCEPT ![q] = TRUE]
  /\ UNCHANGED <<handlerVars, tasks, fed, holds, finished, result>>

Free(q, t) == t \in DOMAIN holds[q] /\ t \notin finished[q] /\ holds[q][t] = 0

\* for i := range taskChan
Take(q, t) ==
  /\ Free(q, t)
  /\ tasks[q] # <<>>
  /\ holds' = [holds EXCEPT ![q][t] = Head(tasks[q])]
  /\ tasks' = [tasks EXCEPT ![q] = Tail(@)]
  /\ UNCHANGED <<handlerVars, fed, closed, finished, result>>

\* Mutant: the index is a variable the workers share with the feeder.
LookupShared(q, t) ==
  /\ t \in DOMAIN holds[q]
  /\ holds[q][t] # 0
  /\ result' = [result EXCEPT ![q][fed[q]] = Find[Point(q, holds[q][t])]]
  /\ holds' = [holds EXCEPT ![q][t] = 0]
  /\ UNCHANGED <<handlerVars, tasks, fed, closed, finished>>

Lookup(q, t) ==
  /\ t \in DOMAIN holds[q]
  /\ holds[q][t] # 0
  /\ result' = [result EXCEPT ![q][holds[q][t]] = Find[Point(q, holds[q][t])]]
  /\ holds' = [holds EXCEPT ![q][t] = 0]
  /\ UNCHANGED <<handlerVars, tasks, fed, closed, finished>>

\* The channel is closed and empty: wg.Done.
Finish(q, t) ==
  /\ Free(q, t)
  /\ tasks[q] = <<>> /\ closed[q]
  /\ finished' = [finished EXCEPT ![q] = @ \cup {t}]
  /\ UNCHANGED <<handlerVars, tasks, fed, closed, holds, result>>

\* Mutant: the group waits for one worker only.
OneDone(q) == finished[q] # {} \/ DOMAIN holds[q] = {}

\* wg.Wait returns: the slice of results is the answer.
AllDone(q) == finished[q] = DOMAIN holds[q]

Wait(q) ==
  /\ at[q] = "finding"
  /\ AllDone(q)
  /\ Answer(q, OK(result[q]))
  /\ UNCHANGED <<procs, mem, header, array, poolVars>>

\* The Rust server maps the points with rayon, which keeps their order, and
\* gives an empty answer for a point without one.
RustHandle(q) ==
  /\ at[q] = "sent"
  /\ Home[q] \in Rust
  /\ reply' = [reply EXCEPT ![q] =
                 IF Body[q] = Bad THEN BadRequest
                 ELSE OK([i \in 1..Size(q) |-> Find[Body[q][i]]])]
  /\ at' = [at EXCEPT ![q] = "replied"]
  /\ UNCHANGED <<procs, pool, mem, header, array, poolVars>>

Handle(q) ==
  \/ RustHandle(q)
  \/ Get(q) \/ RejectBody(q) \/ Decode(q) \/ FindInOrder(q)
  \/ StartWorkers(q) \/ Feed(q) \/ CloseTasks(q) \/ Wait(q)
  \/ \E t \in DOMAIN holds[q] : Take(q, t) \/ Lookup(q, t) \/ Finish(q, t)

ServerNext == \E q \in Requests : Send(q) \/ Handle(q)
ServerSpec == ServerInit /\ [][ServerNext]_serverVars

-----------------------------------------------------------------------------
Parallel(q) == Home[q] \notin Rust /\ Size(q) >= PointsPerThread

\* A handler or its workers may still read the array behind the points.
Reading(q) == at[q] \in {"decoded", "finding"}

\* Types; the indexes that travel through a channel are in the request.
ServerTypeOK ==
  /\ procs \in [Servers \ Rust -> Procs]
  /\ at \in [Requests -> {"idle", "sent", "got", "decoded", "finding", "replied"}]
  /\ fed \in [Requests -> Nat]
  /\ \A q \in Requests :
       /\ Body[q] # Bad => fed[q] <= Size(q)
       /\ tasks[q] \in Seq(1..fed[q])
       /\ DOMAIN holds[q] \subseteq Nat
       /\ \A t \in DOMAIN holds[q] : holds[q][t] \in 0..fed[q]

\* Every answered request has one answer per point, each at the index of its
\* point, whatever the workers' order (server.go:185-188), provided the
\* number of threads is not zero (server.go:156: GOMAXPROCS 1, two or more
\* points): then every answer is the empty one.
RepliesRight ==
  \A q \in Requests : reply[q] # None =>
    reply[q] =
      IF Body[q] = Bad THEN BadRequest
      ELSE OK([i \in 1..Size(q) |->
                 IF Parallel(q) /\ Threads(q) = 0 THEN NoInfo ELSE Find[Body[q][i]]])

\* The pool never makes two running requests share the array their points
\* are in (server.go:135-137): the slice given back is the one taken.
PointsNotShared ==
  \A p, q \in Requests :
    p # q /\ Reading(p) /\ Reading(q) /\ array[p] # None => array[p] # array[q]
=============================================================================
