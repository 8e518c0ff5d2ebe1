-------------------------------- MODULE Tee --------------------------------
(***************************************************************************)
(* geoparser.Tee (save.go): a goroutine reads a source and sends every     *)
(* item to one buffered channel per consumer, in the consumers' order, and *)
(* closes the channels when the source ends.  The source itself belongs to *)
(* the module that uses the Tee.                                           *)
(***************************************************************************)
EXTENDS Integers, Sequences

CONSTANTS
  N,            \* the number of consumers
  BufferSize,   \* the buffer of each consumer's channel
  None          \* no item

VARIABLE tee    \* hold: the item being sent; next: to whom; chs; closed

New == [hold |-> None, next |-> 1, chs |-> [i \in 1..N |-> <<>>], closed |-> FALSE]

Idle == tee.hold = None /\ ~tee.closed

\* The source yields an item.
Take(item) ==
  /\ Idle
  /\ tee' = [tee EXCEPT !.hold = item, !.next = 1]

\* Mutant: an item is dropped when the next channel is full.
PushOrDrop ==
  /\ tee.hold # None
  /\ tee' = [tee EXCEPT !.chs[tee.next] =
                          IF Len(@) < BufferSize THEN Append(@, tee.hold) ELSE @,
                        !.next = @ + 1,
                        !.hold = IF tee.next = N THEN None ELSE @]

\* ch <- v for the next consumer; it blocks while that channel is full.
Push ==
  /\ tee.hold # None
  /\ Len(tee.chs[tee.next]) < BufferSize
  /\ tee' = [tee EXCEPT !.chs[tee.next] = Append(@, tee.hold),
                        !.next = @ + 1,
                        !.hold = IF tee.next = N THEN None ELSE @]

\* The source is exhausted.
Close ==
  /\ Idle
  /\ tee' = [tee EXCEPT !.closed = TRUE]

\* Consumer i receives an item.
CanReceive(i) == tee.chs[i] # <<>>
Received(i) == Head(tee.chs[i])
Receive(i) ==
  /\ CanReceive(i)
  /\ tee' = [tee EXCEPT !.chs[i] = Tail(@)]

\* Consumer i finds its channel closed: its loop ends.
Ended(i) == tee.closed /\ tee.chs[i] = <<>>
=============================================================================
