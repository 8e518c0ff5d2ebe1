----------------------------- MODULE Simulator ------------------------------
(***************************************************************************)
(* The simulator (cmd/simulate) against the server.  bench posts one       *)
(* request per item of work to one server, compare posts the same points   *)
(* to two and compares the answers one by one.  A request that times out   *)
(* goes on in its server, where its answer is thrown away.                 *)
(***************************************************************************)
EXTENDS Server, Functions

CONSTANTS
  Items,        \* 1..repeat
  Clients,      \* the workers of the simulator
  Order,        \* the servers as a sequence: A, B
  Commands,     \* the commands to simulate
  RequestOf(_, _),   \* the request for an item at a server
  MaxFaults,    \* bound: requests that time out, or fail or are garbled on the way
  Lost,         \* no response
  Garbled       \* a response of status 200 whose body is no list of answers

SimulatorAssumption ==
  /\ Items \in Nat \ {0}
  /\ Order \in Seq(Servers) /\ Order # <<>>
  /\ \A i \in 1..Items : \A s \in Servers : RequestOf(i, s) \in Requests
ASSUME SimulatorAssumption

\* The flags ask for workers, compare posts one body to two servers, and an
\* error of client.Post, or a body that json.Unmarshal rejects, is none of
\* the answers of these servers.
ClientAssumption ==
  /\ IsFiniteSet(Clients) /\ Clients # {}
  /\ "compare" \in Commands => Len(Order) = 2
  /\ \A i \in 1..Items : \A s, t \in Servers : Body[RequestOf(i, s)] = Body[RequestOf(i, t)]
  /\ Lost # Garbled
  /\ {Lost, Garbled} \cap [status : {200, 400}, infos : Seq(Range(Find) \cup {NoInfo})] = {}
ASSUME ClientAssumption

VARIABLES
  command,    \* which command runs
  work,       \* workCh: how many items have been taken from it
  client,     \* each worker: where it is, its item, the responses it has
  success, failure, latencies, matched, mismatched,
  recounted,  \* history: how many items are in both success and failure
  faults      \* how many requests have timed out, failed or been garbled

countVars == <<success, failure, recounted, matched, mismatched>>
simVars == <<command, work, client, countVars, latencies, faults>>
vars == <<serverVars, simVars>>

Free0 == [at |-> "free", item |-> 0, got |-> <<>>]

\* Which servers an item is posted to, one after the other.
Targets == IF command = "bench" THEN SubSeq(Order, 1, 1) ELSE Order

Init ==
  /\ ServerInit
  /\ command \in Commands
  /\ work = 0
  /\ client = [c \in Clients |-> Free0]
  /\ success = 0 /\ failure = 0 /\ recounted = 0 /\ matched = 0 /\ mismatched = 0
  /\ latencies = 0
  /\ faults = 0

TakeItem(c) ==
  /\ client[c].at = "free"
  /\ work < Items
  /\ work' = work + 1
  /\ client' = [client EXCEPT ![c] = [at |-> "post", item |-> work + 1, got |-> <<>>]]
  /\ UNCHANGED <<serverVars, command, countVars, latencies, faults>>

\* workCh is closed and empty.
WorkerEnds(c) ==
  /\ client[c].at = "free"
  /\ work = Items
  /\ client' = [client EXCEPT ![c].at = "ended"]
  /\ UNCHANGED <<serverVars, command, work, countVars, latencies, faults>>

Current(c) == RequestOf(client[c].item, Targets[Len(client[c].got) + 1])

Post(c) ==
  /\ client[c].at = "post"
  /\ Send(Current(c))
  /\ client' = [client EXCEPT ![c].at = "wait"]
  /\ UNCHANGED <<command, work, countVars, latencies, faults>>

\* client.Post returns; its latency is noted whatever it returns.
Returns(c, response) ==
  LET got == Append(client[c].got, response)
  IN  /\ client' = [client EXCEPT ![c].got = got,
                                  ![c].at = IF Len(got) = Len(Targets) THEN "judge" ELSE "post"]
      /\ latencies' = latencies + 1

Response(c) ==
  /\ client[c].at = "wait"
  /\ reply[Current(c)] # None
  /\ Returns(c, reply[Current(c)])
  /\ UNCHANGED <<serverVars, command, work, countVars, faults>>

\* The client's timeout, a connection that breaks, before or in the body; or
\* something on the way that answers 200 in the server's place.
Fault(c, response) ==
  /\ client[c].at = "wait"
  /\ faults < MaxFaults
  /\ Returns(c, response)
  /\ faults' = faults + 1
  /\ UNCHANGED <<serverVars, command, work, countVars>>

Accepted(response) == response = Garbled \/ (response # Lost /\ response.status = 200)
Good(c) == \A k \in DOMAIN client[c].got : Accepted(client[c].got[k])

\* compare reads the bodies; bench discards them.
Unread(c) == command = "compare" /\ \E k \in DOMAIN client[c].got : client[c].got[k] = Garbled

\* compareInfo, for the points both answers have.
Compared(c) ==
  LET a == client[c].got[1].infos
      b == client[c].got[2].infos
      n == MinOf(Size(RequestOf(client[c].item, Order[1])), MinOf(Len(a), Len(b)))
      same == Cardinality({i \in 1..n : a[i] = b[i]})
  IN  [same |-> same, differ |-> n - same + MaxOf(Len(a) - Len(b), Len(b) - Len(a))]

\* Mutant: a response that is not 200 is counted without ending the item.
JudgeTwice(c) ==
  /\ client[c].at = "judge"
  /\ success' = success + IF \A k \in DOMAIN client[c].got : client[c].got[k] # Lost THEN 1 ELSE 0
  /\ failure' = failure + IF Good(c) /\ ~Unread(c) THEN 0 ELSE 1
  /\ recounted' = recounted + IF Good(c) /\ Unread(c) THEN 1 ELSE 0
  /\ UNCHANGED <<matched, mismatched>>
  /\ client' = [client EXCEPT ![c] = Free0]
  /\ UNCHANGED <<serverVars, command, work, latencies, faults>>

\* The item is a success when all of its responses are 200, otherwise a
\* failure.  compare has counted the success when it comes to read them, and
\* counts a failure too when it cannot; it then compares no point.
Judge(c) ==
  /\ client[c].at = "judge"
  /\ success' = success + IF Good(c) THEN 1 ELSE 0
  /\ failure' = failure + IF Good(c) /\ ~Unread(c) THEN 0 ELSE 1
  /\ recounted' = recounted + IF Good(c) /\ Unread(c) THEN 1 ELSE 0
  /\ IF Good(c) /\ command = "compare" /\ ~Unread(c)
       THEN /\ matched' = matched + Compared(c).same
            /\ mismatched' = mismatched + Compared(c).differ
       ELSE UNCHANGED <<matched, mismatched>>
  /\ client' = [client EXCEPT ![c] = Free0]
  /\ UNCHANGED <<serverVars, command, work, latencies, faults>>

ClientStep == \E c \in Clients :
  TakeItem(c) \/ WorkerEnds(c) \/ Post(c) \/ Response(c) \/ Judge(c)
ServerStep == (\E q \in Requests : Handle(q)) /\ UNCHANGED simVars

Next == ClientStep \/ ServerStep \/ \E c \in Clients : Fault(c, Lost) \/ Fault(c, Garbled)

\* The goroutines of the simulator and of the servers run when they can.
\* Nothing obliges a request to time out or an answer to be garbled.
Spec == Init /\ [][Next]_vars /\ WF_vars(ClientStep) /\ WF_vars(ServerStep)

-----------------------------------------------------------------------------
Busy == {c \in Clients : client[c].at \notin {"free", "ended"}}
Ended == \A c \in Clients : client[c].at = "ended"
Workless(s) == s \notin Rust /\ procs[s] = 1

\* The points of a request that compare may find alike.
Worth(q) == IF Body[q] = Bad THEN 0 ELSE Size(q)

\* Though requests time out and workers share the counters, an item is counted
\* once, as a success or a failure, by the worker that took it (bench.go:92-110,
\* compare.go:99-126), but for one: an item of compare whose responses are 200
\* and do not unmarshal is counted as both (compare.go:126, 131-140), so that
\* the total printed exceeds the requests.  Only then can it.  Every post has
\* its latency noted.
ItemsCounted ==
  /\ success + failure + Cardinality(Busy) = work + recounted
  /\ recounted <= success /\ recounted <= failure
  /\ command # "compare" \/ faults = 0 => recounted = 0
  /\ latencies = Len(Targets) * (work - Cardinality(Busy))
                   + SumFunction([c \in Clients |-> Len(client[c].got)])

\* compare finds no difference between servers that have the same data and
\* workers to look it up (compare.go:142-170), and misses no point when no
\* response is lost or garbled: a late or swapped answer would show as a
\* mismatch.
ComparisonExact ==
  command = "compare" /\ (\A s \in Servers : ~Workless(s)) =>
    /\ mismatched = 0
    /\ Ended /\ faults = 0 =>
         matched = SumFunction([i \in 1..Items |-> Worth(RequestOf(i, Order[1]))])

\* The simulator ends, and so does every request, also one whose client has
\* given up, with the goroutines it started; except those of a request with
\* no workers, whose feeder stays blocked on the channel (server.go:176).
EverythingEnds ==
  <>[](/\ Ended
       /\ \A q \in Requests :
            at[q] # "idle" =>
              /\ at[q] = "replied"
              /\ result[q] # <<>> /\ Threads(q) > 0 =>
                   closed[q] /\ finished[q] = 1..Threads(q))
=============================================================================
