------------------------------ MODULE LocalSink ------------------------------
(***************************************************************************)
(* The batched sink of one local pipeline (internal/storage/sink.go): the  *)
(* engine queues samples and route changes, the Run goroutine writes them  *)
(* to the store in batches and puts a batch that failed back in front.     *)
(*                                                                         *)
(* Samples and changes are numbered in the order in which they are         *)
(* written; rows, times and the conversion of columns are left out.  The   *)
(* store may refuse a batch, and a commit may report an error although it  *)
(* took effect.                                                            *)
(***************************************************************************)
EXTENDS Integers, Sequences, SequencesExt, FiniteSets

CONSTANTS
  FlushSize, BufferCap,     \* flushSize, bufferCap
  MaxSamples, MaxChanges,   \* events written in all (bound)
  MaxDoubts                 \* commits in doubt (bound)

VARIABLES
  wrote, wroteChanges,      \* events written so far
  samples, changes,         \* the buffers
  signal,                   \* flushCh holds a signal
  batch, batchChanges,      \* what the flush in progress has drained
  fpc,                      \* "idle", "writing", "final" (last flush), "stopped"
  stopping,                 \* ctx is cancelled
  dropped, reported,        \* the drop counter, what logDropped has reported
  stored, storedChanges,    \* the tables, in insertion order
  doubted, doubts           \* samples whose commit failed after it took effect, how often

bufferVars == <<wrote, wroteChanges, samples, changes, signal, dropped>>
tableVars  == <<stored, storedChanges, doubted, doubts>>
vars == <<bufferVars, batch, batchChanges, fpc, stopping, reported, tableVars>>

Init ==
  /\ wrote = 0 /\ wroteChanges = 0 /\ samples = <<>> /\ changes = <<>> /\ signal = FALSE
  /\ batch = <<>> /\ batchChanges = <<>> /\ fpc = "idle" /\ stopping = FALSE
  /\ dropped = 0 /\ reported = 0 /\ stored = <<>> /\ storedChanges = <<>> /\ doubted = {} /\ doubts = 0

(* Mutant: the newest samples give way.                                     *)
CappedNewest(s) == SubSeq(s, 1, IF Len(s) > BufferCap THEN BufferCap ELSE Len(s))

(* Drop-oldest at the cap.                                                  *)
Capped(s) == SubSeq(s, Len(s) - (IF Len(s) > BufferCap THEN BufferCap ELSE Len(s)) + 1, Len(s))

(* Mutant: nothing is counted.                                              *)
OverNone(s) == 0

Over(s) == Len(s) - Len(Capped(s))

WriteSample ==
  LET merged == Append(samples, wrote + 1) IN
  /\ wrote < MaxSamples /\ wrote' = wrote + 1
  /\ samples' = Capped(merged) /\ dropped' = dropped + Over(merged)
  /\ signal' = (signal \/ Len(samples') >= FlushSize)
  /\ UNCHANGED <<wroteChanges, changes, batch, batchChanges, fpc, stopping, reported, tableVars>>

WriteRouteChange ==
  /\ wroteChanges < MaxChanges /\ wroteChanges' = wroteChanges + 1
  /\ changes' = Append(changes, wroteChanges + 1)
  /\ UNCHANGED <<wrote, samples, signal, dropped, batch, batchChanges, fpc, stopping, reported,
                 tableVars>>

(* flush drains the buffers.                                                *)
Drain(to) ==
  /\ batch' = samples /\ batchChanges' = changes /\ samples' = <<>> /\ changes' = <<>>
  /\ fpc' = IF samples = <<>> /\ changes = <<>> /\ to = "writing" THEN "idle" ELSE to
  /\ UNCHANGED <<wrote, wroteChanges, dropped, stopping, reported, tableVars>>

(* Mutant: the ticker leaves a short batch waiting.                         *)
TickFlushFull == /\ fpc = "idle" /\ Len(samples) >= FlushSize /\ Drain("writing")
                 /\ UNCHANGED signal

(* Run: the ticker fires, or a signal is pending.                           *)
TickFlush == fpc = "idle" /\ Drain("writing") /\ UNCHANGED signal
SignalFlush == fpc = "idle" /\ signal /\ signal' = FALSE /\ Drain("writing")

(* Run sees the cancelled context: the final flush.                         *)
FinalFlush == fpc = "idle" /\ stopping /\ Drain("final") /\ UNCHANGED signal

AfterFlush == /\ batch' = <<>> /\ batchChanges' = <<>>
              /\ fpc' = IF fpc = "final" THEN "stopped" ELSE "idle"

InsertSamples == stored' = stored \o batch
InsertRouteChanges == storedChanges' = storedChanges \o batchChanges
Insert == InsertSamples /\ InsertRouteChanges

Commit ==
  /\ fpc \in {"writing", "final"} /\ Insert /\ AfterFlush
  /\ dropped' = IF fpc = "final" THEN 0 ELSE dropped
  /\ reported' = IF fpc = "final" THEN reported + dropped ELSE reported
  /\ UNCHANGED <<wrote, wroteChanges, samples, changes, signal, stopping, doubted, doubts>>

(* Mutant: the batch goes behind what arrived meanwhile.                    *)
MergedBehind(b, s) == s \o b

Merged(b, s) == b \o s

(* requeue, and logDropped after the final flush.                           *)
Requeue ==
  LET merged == Merged(batch, samples)
      total  == dropped + Over(merged) IN
  /\ samples' = Capped(merged) /\ changes' = Merged(batchChanges, changes)
  /\ dropped' = IF fpc = "final" THEN 0 ELSE total
  /\ reported' = IF fpc = "final" THEN reported + total ELSE reported
  /\ AfterFlush
  /\ UNCHANGED <<wrote, wroteChanges, signal, stopping>>

(* Begin, an insert or Commit fails and the transaction is rolled back.     *)
FlushFails == fpc \in {"writing", "final"} /\ Requeue /\ UNCHANGED tableVars

(* Commit reports an error after the transaction became durable.            *)
CommitInDoubt ==
  /\ fpc \in {"writing", "final"} /\ doubts < MaxDoubts /\ Insert /\ Requeue
  /\ doubted' = doubted \cup ToSet(batch) /\ doubts' = doubts + 1

(* The drop ticker.                                                         *)
LogDropped ==
  /\ fpc = "idle" /\ dropped > 0 /\ reported' = reported + dropped /\ dropped' = 0
  /\ UNCHANGED <<wrote, wroteChanges, samples, changes, signal, batch, batchChanges, fpc, stopping,
                 tableVars>>

(* The pipeline's context ends; engine and sink see it each in its turn.    *)
Cancel == ~stopping /\ stopping' = TRUE
          /\ UNCHANGED <<bufferVars, batch, batchChanges, fpc, reported, tableVars>>

Done == stopping /\ fpc = "stopped" /\ UNCHANGED vars

Flush == TickFlush \/ SignalFlush \/ FinalFlush
Next == \/ WriteSample \/ WriteRouteChange \/ Flush
        \/ Commit \/ FlushFails \/ CommitInDoubt \/ LogDropped \/ Cancel \/ Done
Spec == Init /\ [][Next]_vars

(* The ticker fires, and the store does not refuse every batch for ever.    *)
Fairness == WF_vars(TickFlush \/ SignalFlush) /\ SF_vars(Commit)

-----------------------------------------------------------------------------
TypeOK ==
  /\ wrote \in 0..MaxSamples /\ wroteChanges \in 0..MaxChanges
  /\ samples \in Seq(1..MaxSamples) /\ Len(samples) <= BufferCap
  /\ batch \in Seq(1..MaxSamples) /\ Len(batch) <= BufferCap
  /\ changes \in Seq(1..MaxChanges) /\ batchChanges \in Seq(1..MaxChanges)
  /\ signal \in BOOLEAN /\ stopping \in BOOLEAN
  /\ fpc \in {"idle", "writing", "final", "stopped"}
  /\ dropped + reported \in 0..wrote
  /\ stored \in Seq(1..MaxSamples) /\ storedChanges \in Seq(1..MaxChanges)
  /\ doubted \subseteq ToSet(stored) /\ doubts \in 0..MaxDoubts

(* What is buffered is an unbroken run up to the newest sample, although    *)
(* WriteSample drops from the buffer while an older batch is out and        *)
(* requeue drops from the merged one.                                       *)
NoHole == samples # <<>> =>
  samples = [i \in 1..Len(samples) |-> wrote - Len(samples) + i]

(* Each row is above all before it, unless it is one in doubt.              *)
Ordered(rows, doubt) ==
  \A i, j \in DOMAIN rows : i < j /\ rows[i] >= rows[j] => rows[j] \in doubt

(* Only the oldest are dropped, and rows are inserted in the order in which *)
(* they were measured, whatever fails and is retried, except for a batch    *)
(* whose commit was in doubt (WriteSample, requeue); route changes          *)
(* likewise.                                                                *)
InOrder ==
  /\ NoHole
  /\ Ordered(stored, doubted)
  /\ doubts = 0 => \A i, j \in DOMAIN storedChanges : i < j => storedChanges[i] < storedChanges[j]

(* Every sample is stored, on its way, or counted as dropped, exactly:      *)
(* nothing vanishes without a count, and nothing is counted that was not    *)
(* lost or in doubt (WriteSample, requeue, logDropped).                     *)
Accounted ==
  LET known == ToSet(stored) \cup ToSet(samples) \cup ToSet(batch)
      lost  == Cardinality((1..wrote) \ known) IN
  /\ lost <= dropped + reported
  /\ dropped + reported <= lost + Cardinality(doubted)

(* What makes InOrder and Accounted inductive: buffer and batch are         *)
(* unbroken runs, with a gap between them only when the buffer is full; a   *)
(* sample that is stored and yet on its way is one in doubt, and so is each *)
(* that is counted as dropped and yet stored.                               *)
Run(lo, hi) == [i \in 1..(hi - lo) |-> lo + i]
Ahead(S, T, doubt) == \A x \in S, y \in T : x < y \/ y \in doubt
OnItsWay == ToSet(samples) \cup ToSet(batch)
Lost     == (1..wrote) \ (ToSet(stored) \cup OnItsWay)

QueueInv ==
  /\ wrote \in Nat /\ fpc \in {"idle", "writing", "final", "stopped"}
  /\ fpc \in {"idle", "stopped"} => batch = <<>> /\ batchChanges = <<>>
  /\ \E lo \in 0..wrote : \E m \in 0..lo : \E k \in 0..m :
       /\ samples = Run(lo, wrote) /\ wrote - lo <= BufferCap
       /\ batch = Run(k, m) /\ (m = lo \/ wrote - lo = BufferCap)

OrderInv ==
  /\ stored \in Seq(1..wrote) /\ doubted \subseteq 1..wrote
  /\ Ordered(stored, doubted)
  /\ Ahead(ToSet(stored), OnItsWay, doubted)

ChangeInv ==
  /\ wroteChanges \in Nat /\ doubts \in Nat
  /\ doubts = 0 => \E b \in 0..wroteChanges : \E a \in 0..b :
       storedChanges = Run(0, a) /\ batchChanges = Run(a, b) /\ changes = Run(b, wroteChanges)

CountInv ==
  /\ dropped \in Nat /\ reported \in Nat
  /\ Cardinality(Lost) <= dropped + reported
  /\ dropped + reported <= Cardinality(Lost) + Cardinality(doubted \ OnItsWay)

SinkInv == QueueInv /\ OrderInv /\ ChangeInv /\ CountInv

(* While the pipeline runs the buffer empties again, even if flushes fail   *)
(* again and again (flush, "the data isn't lost").                          *)
Drains == []<>(samples \o batch = <<>> \/ stopping)
=============================================================================
