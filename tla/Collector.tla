----------------------------- MODULE Collector ------------------------------
(***************************************************************************)
(* The statistics collector (internal/stats): Start begins a goroutine     *)
(* that takes a sample at once, one per tick, and a last one when Stop has *)
(* closed stopChan; Stop waits for it to end and reports.                  *)
(***************************************************************************)
EXTENDS Integers, Sequences, SequencesExt

CONSTANTS
  Heaps,       \* the sizes of the heap a sample may find
  MaxSamples,  \* bound: no tick fires when there are that many samples
  None         \* no report

CollectorAssumption == Heaps \subseteq Nat
ASSUME CollectorAssumption

VARIABLES
  collect,   \* the goroutine: "none", "first", "loop", "last", "ended"
  stopChan,  \* it has been closed
  samples,   \* the samples; late: the sample was taken after stopChan closed
  stop,      \* the call of Stop: "none", "waiting", "returned"
  report     \* what Stop returned

collectorVars == <<collect, stopChan, samples, stop, report>>

CollectorInit ==
  /\ collect = "none"
  /\ stopChan = FALSE
  /\ samples = <<>>
  /\ stop = "none"
  /\ report = None

Start ==
  /\ collect = "none"
  /\ collect' = "first"
  /\ UNCHANGED <<stopChan, samples, stop, report>>

Sample == \E h \in Heaps : samples' = Append(samples, [heap |-> h, late |-> stopChan])

FirstSample ==
  /\ collect = "first"
  /\ Sample
  /\ collect' = "loop"
  /\ UNCHANGED <<stopChan, stop, report>>

\* The select may choose the tick although stopChan is closed.
Tick ==
  /\ collect = "loop"
  /\ Len(samples) < MaxSamples
  /\ Sample
  /\ UNCHANGED <<collect, stopChan, stop, report>>

SeeStop ==
  /\ collect = "loop"
  /\ stopChan
  /\ collect' = "last"
  /\ UNCHANGED <<stopChan, samples, stop, report>>

\* The final sample; returning closes doneChan.
LastSample ==
  /\ collect = "last"
  /\ Sample
  /\ collect' = "ended"
  /\ UNCHANGED <<stopChan, stop, report>>

\* Mutant: Stop waits for the goroutine before it closes stopChan.
BeginStopWaiting ==
  /\ stop = "none"
  /\ collect # "none"
  /\ stop' = "waiting"
  /\ stopChan' = (collect = "ended")
  /\ UNCHANGED <<collect, samples, report>>

\* Stop is called, once and after Start: close(stopChan).
BeginStop ==
  /\ stop = "none"
  /\ collect # "none"
  /\ stop' = "waiting"
  /\ stopChan' = TRUE
  /\ UNCHANGED <<collect, samples, report>>

\* calculateSummary; every peak is found as that of the heap is.
Peak(taken) == FoldLeft(LAMBDA m, s : IF s.heap > m THEN s.heap ELSE m, 0, taken)
Total(taken) == FoldLeft(LAMBDA t, s : t + s.heap, 0, taken)
Summary(taken) == [count |-> Len(taken), peak |-> Peak(taken), total |-> Total(taken)]

\* Mutant: Stop does not wait for doneChan.
EndStopEarly ==
  /\ stop = "waiting"
  /\ stop' = "returned"
  /\ report' = Summary(samples)
  /\ UNCHANGED <<collect, stopChan, samples>>

\* <-doneChan: Stop takes the lock and reports.
EndStop ==
  /\ stop = "waiting"
  /\ collect = "ended"
  /\ stop' = "returned"
  /\ report' = Summary(samples)
  /\ UNCHANGED <<collect, stopChan, samples>>

Collecting == FirstSample \/ Tick \/ SeeStop \/ LastSample

CollectorNext == Start \/ Collecting \/ BeginStop \/ EndStop
CollectorSpec == CollectorInit /\ [][CollectorNext]_collectorVars

-----------------------------------------------------------------------------
CollectorTypeOK ==
  /\ collect \in {"none", "first", "loop", "last", "ended"}
  /\ stopChan \in BOOLEAN
  /\ samples \in Seq([heap : Heaps, late : BOOLEAN])
  /\ stop \in {"none", "waiting", "returned"}

\* The report is about every sample that was or will ever be taken, at least
\* two of them, and the last was taken after the work it measures had ended
\* (collector.go:106-114, 162-175), however late the goroutine ran.
ReportComplete ==
  report # None =>
    /\ report = Summary(samples)
    /\ collect = "ended"
    /\ Len(samples) >= 2
    /\ samples[Len(samples)].late
=============================================================================
