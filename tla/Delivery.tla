------------------------------ MODULE Delivery ------------------------------
(***************************************************************************)
(* How a remote probe's measurements reach the central's database:         *)
(* internal/agent (HTTPSink, Buffer, Client), the exit path of             *)
(* cmd/hoptrail/agent.go, POST /api/ingest/samples in                      *)
(* internal/server/ingest.go, Store.IngestBatch and the ingest_log pruning *)
(* of the retention worker.                                                *)
(*                                                                         *)
(* A Sample stands for one probe.Sample or one probe.RouteChange: both are *)
(* queued, batched, refused and stored the same way.  A batch id is the    *)
(* ordinal of the flush that made it; only the live loop makes and spills  *)
(* batches, so the ordinal also orders pending_batches as                  *)
(* (created_at, batch_id) does.                                            *)
(***************************************************************************)
EXTENDS Integers, FiniteSets

CONSTANTS
  Sample,       \* the samples and route changes the pipelines produce
  Conn,         \* HTTP exchanges that can be open at once (bound)
  MaxBatch,     \* batches; each takes at least one new sample (bound)
  MaxTime,      \* last value of the central's clock (bound)
  AgentSkew,    \* what the probe's clock may add to the central's
  SkewBound,    \* clockSkewBound, ingest.go
  DedupWindow,  \* age at which the retention worker prunes ingest_log
  MaxStall,     \* how long a handler may sit between time.Now() and its commit
  MaxBytes      \* Buffer.maxBytes, in samples

ASSUME DeliveryAssumption ==
  /\ MaxBatch \in Nat /\ MaxTime \in Nat
  /\ AgentSkew \subseteq Int
  /\ SkewBound \in Nat /\ DedupWindow \in Nat /\ MaxStall \in Nat
  /\ MaxBytes \in Nat

VARIABLES
  phase,      \* the probe process: see Phase
  pipes,      \* its probe pipelines still run
  mem,        \* HTTPSink.samples and HTTPSink.changes
  liveSt,     \* where HTTPSink.Run stands: see LiveState
  liveBatch,  \* the batch flushOnce is delivering
  liveCtx,    \* the context flushOnce was given
  drainSt,    \* where HTTPSink.RunFlushLoop stands
  drainBatch, \* the batch drainBuffer is delivering
  buffer,     \* the batches in pending_batches (survives the process)
  fatal,     \* an error waits in HTTPSink.fatalCh
  nextBatch,  \* the next batch id
  content,    \* what each batch carries
  taken, ts,  \* the samples measured so far and their timestamps
  givenUp,    \* why the probe let go of a sample without an acknowledgement
  reqSt, reqOwner, reqBatch, reqAt,  \* the HTTP exchanges: progress or answer,
              \* who waits for it, batch id in the body, time the handler read
  now,        \* the central's clock
  token,      \* the probe's bearer token is accepted
  logged, loggedAt,  \* ingest_log: batch ids, received_at
  copies      \* how often each batch's rows were inserted

agentVars   == <<phase, pipes, mem, liveSt, liveBatch, liveCtx, drainSt, drainBatch,
                 buffer, fatal>>
reqVars     == <<reqSt, reqOwner, reqBatch, reqAt>>
batchVars   == <<nextBatch, content, taken, ts>>
centralVars == <<now, token, logged, loggedAt, copies>>
vars == <<agentVars, batchVars, givenUp, reqVars, centralVars>>

Batch     == 1..MaxBatch
Phase     == {"run", "stopping", "cancelled", "down"}
LiveState == {"idle", "posting", "spilling", "done"}
Ctx       == {"run", "final", "expired"}
Cause     == {"none", "rejected", "unauthorized", "evicted", "disk", "deadctx",
              "late", "crash"}
Owner     == {"live", "drain", "nobody"}
Answer    == {"ok", "retry", "drop", "unauthorized"}
ReqState  == {"free", "sent", "handling"} \cup Answer

(* Samples carry timestamps; a batch of one sample is one unit of payload. *)
Payload(B) == UNION {content[b] : b \in B}
Size(B)    == Cardinality(Payload(B))

(* Mutant: ORDER BY created_at DESC.                                         *)
OldestDesc == CHOOSE b \in buffer : \A k \in buffer : b >= k

Oldest == CHOOSE b \in buffer : \A k \in buffer : b <= k

(* What flushOnce holds and nothing else does.                              *)
Flushing == liveSt \in {"posting", "spilling"}
InFlush  == IF Flushing THEN content[liveBatch] ELSE {}

GiveUp(S, why) ==
  givenUp' = [s \in Sample |-> IF s \in S /\ givenUp[s] = "none" THEN why ELSE givenUp[s]]

-----------------------------------------------------------------------------
Init ==
  /\ phase = "run" /\ pipes = TRUE /\ mem = {} /\ fatal = FALSE
  /\ liveSt = "idle" /\ liveBatch = 0 /\ liveCtx = "run"
  /\ drainSt = "idle" /\ drainBatch = 0 /\ buffer = {}
  /\ nextBatch = 1 /\ content = [b \in Batch |-> {}]
  /\ taken = {} /\ ts = [s \in Sample |-> 0]
  /\ givenUp = [s \in Sample |-> "none"]
  /\ reqSt = [c \in Conn |-> "free"] /\ reqOwner = [c \in Conn |-> "nobody"]
  /\ reqBatch = [c \in Conn |-> 0] /\ reqAt = [c \in Conn |-> 0]
  /\ now = 0 /\ token = TRUE
  /\ logged = {} /\ loggedAt = [b \in Batch |-> 0] /\ copies = [b \in Batch |-> 0]

-----------------------------------------------------------------------------
(* The probe: HTTPSink.                                                     *)

(* WriteSample, WriteRouteChange: a pipeline queues a measurement.  The     *)
(* pipelines outlive a cancelled context until shutdown has drained them.   *)
WriteSample(s) ==
  /\ pipes /\ phase # "down" /\ s \notin taken
  /\ taken' = taken \cup {s} /\ mem' = mem \cup {s}
  /\ \E d \in AgentSkew : ts' = [ts EXCEPT ![s] = now + d]
  /\ UNCHANGED <<phase, pipes, liveSt, liveBatch, liveCtx, drainSt, drainBatch, buffer,
                 fatal, nextBatch, content, givenUp, reqVars, centralVars>>

(* The head of flushOnce: take the queued samples under the lock and make   *)
(* them one batch with one id.                                              *)
NewBatch ==
  /\ mem # {} /\ nextBatch <= MaxBatch
  /\ content' = [content EXCEPT ![nextBatch] = mem]
  /\ nextBatch' = nextBatch + 1 /\ liveBatch' = nextBatch /\ mem' = {}
  /\ UNCHANGED <<taken, ts>>

SetRequest(c, st, owner, b, t) ==
  /\ reqSt' = [reqSt EXCEPT ![c] = st] /\ reqOwner' = [reqOwner EXCEPT ![c] = owner]
  /\ reqBatch' = [reqBatch EXCEPT ![c] = b] /\ reqAt' = [reqAt EXCEPT ![c] = t]
Close(c) == SetRequest(c, "free", "nobody", 0, 0)

(* PostJSON sends the request on some connection.                           *)
Post(owner, b) == \E c \in Conn : reqSt[c] = "free" /\ SetRequest(c, "sent", owner, b, 0)

(* HTTPSink.Run, ticker or size trigger: flushOnce(ctx).  When the context  *)
(* is already done the select may still pick the ticker; the POST then      *)
(* fails at once.                                                           *)
FlushOnce ==
  /\ liveSt = "idle" /\ phase # "down"
  /\ NewBatch /\ liveCtx' = "run"
  /\ \/ /\ phase # "cancelled" /\ Post("live", nextBatch) /\ liveSt' = "posting"
     \/ /\ phase = "cancelled" /\ liveSt' = "spilling" /\ UNCHANGED reqVars
  /\ UNCHANGED <<phase, pipes, drainSt, drainBatch, buffer, fatal, givenUp,
                 centralVars>>

(* HTTPSink.Run, ctx.Done: the final flush under a context of its own.      *)
FinalFlush ==
  /\ liveSt = "idle" /\ phase = "cancelled"
  /\ IF mem = {}
     THEN liveSt' = "done" /\ UNCHANGED <<mem, liveBatch, liveCtx, reqVars, batchVars>>
     ELSE NewBatch /\ liveCtx' = "final" /\ Post("live", nextBatch) /\ liveSt' = "posting"
  /\ UNCHANGED <<phase, pipes, drainSt, drainBatch, buffer, fatal, givenUp,
                 centralVars>>

(* Run returns after the final flush and loops after any other.             *)
AfterFlush == IF liveCtx = "run" THEN "idle" ELSE "done"

(* Mutant: a failed POST counts as delivered.                                *)
AfterAnswerForgets(answer) == AfterFlush

AfterAnswer(answer) == IF answer = "retry" THEN "spilling" ELSE AfterFlush

(* The rest of flushOnce once PostJSON has classified central's answer.     *)
LiveAnswer(c) ==
  /\ liveSt = "posting" /\ reqOwner[c] = "live" /\ reqSt[c] \in Answer
  /\ Close(c)
  /\ liveSt' = AfterAnswer(reqSt[c])
  /\ liveBatch' = IF reqSt[c] = "retry" THEN liveBatch ELSE 0
  /\ fatal' = (fatal \/ reqSt[c] = "unauthorized")
  /\ \/ reqSt[c] = "drop" /\ GiveUp(content[liveBatch], "rejected")
     \/ reqSt[c] = "unauthorized" /\ GiveUp(content[liveBatch], "unauthorized")
     \/ reqSt[c] \in {"ok", "retry"} /\ UNCHANGED givenUp
  /\ UNCHANGED <<phase, pipes, mem, liveCtx, drainSt, drainBatch, buffer,
                 batchVars, centralVars>>

(* The sender stops waiting: the request may still be on its way or in the  *)
(* handler, the answer may be on its way back.                              *)
Abandon(c) ==
  IF reqSt[c] \in Answer THEN Close(c)
  ELSE SetRequest(c, reqSt[c], "nobody", reqBatch[c], reqAt[c])

(* PostJSON gives up on the live batch: connection lost, the client's 15 s  *)
(* timeout, the run context cancelled, or the final flush's 10 s deadline,  *)
(* which comes before the client's own and leaves an expired context.       *)
LiveTimeout(c) ==
  /\ liveSt = "posting" /\ reqOwner[c] = "live" /\ reqSt[c] # "free"
  /\ Abandon(c) /\ liveSt' = "spilling"
  /\ liveCtx' \in IF liveCtx = "final" THEN {"final", "expired"} ELSE {liveCtx}
  /\ UNCHANGED <<phase, pipes, mem, liveBatch, drainSt, drainBatch, buffer, fatal,
                 batchVars, givenUp, centralVars>>

(* Buffer.Add keeps the longest suffix of the newest batches that fits.     *)
Fitting(B) == {b \in B : Size({k \in B : k >= b}) <= MaxBytes}

CtxDead == liveCtx = "expired" \/ (liveCtx = "run" /\ phase = "cancelled")

(* OutcomeRetry in flushOnce: Buffer.Add, one transaction.                  *)
BufferAdd ==
  /\ liveSt = "spilling" /\ ~CtxDead /\ Size({liveBatch}) <= MaxBytes
  /\ buffer' = Fitting(buffer \cup {liveBatch})
  /\ GiveUp(Payload(buffer \ Fitting(buffer \cup {liveBatch})), "evicted")
  /\ liveSt' = AfterFlush /\ liveBatch' = 0
  /\ UNCHANGED <<phase, pipes, mem, liveCtx, drainSt, drainBatch, fatal,
                 batchVars, reqVars, centralVars>>

(* Buffer.Add returns an error: the batch is larger than the whole buffer,  *)
(* the context is done at BeginTx, or SQLite failed.  The batch is lost.    *)
BufferAddFails ==
  /\ liveSt = "spilling"
  /\ GiveUp(content[liveBatch], IF CtxDead THEN "deadctx" ELSE "disk")
  /\ liveSt' = AfterFlush /\ liveBatch' = 0
  /\ UNCHANGED <<phase, pipes, mem, liveCtx, drainSt, drainBatch, buffer,
                 fatal, batchVars, reqVars, centralVars>>

-----------------------------------------------------------------------------
(* The probe: RunFlushLoop and drainBuffer.                                 *)

(* Mutant: the drain loop waits for a second row.                           *)
PendingTwo == Cardinality(buffer) > 1

(* drainBuffer goes on until Oldest finds no row.                           *)
Pending == buffer # {}

DrainPost ==
  /\ drainSt = "idle" /\ phase \in {"run", "stopping"} /\ Pending
  /\ drainBatch' = Oldest /\ drainSt' = "posting" /\ Post("drain", Oldest)
  /\ UNCHANGED <<phase, pipes, mem, liveSt, liveBatch, liveCtx, buffer, fatal, 
                 batchVars, givenUp, centralVars>>

(* OutcomeOK and OutcomeDrop delete the row; a failed delete leaves it for  *)
(* the next round.  A delete under a cancelled context fails.               *)
DrainAnswer(c) ==
  /\ drainSt = "posting" /\ reqOwner[c] = "drain" /\ reqSt[c] \in Answer
  /\ Close(c) /\ drainSt' = "idle" /\ drainBatch' = 0
  /\ \/ /\ reqSt[c] \in {"ok", "drop"} /\ phase # "cancelled"
        /\ buffer' = buffer \ {drainBatch}
        /\ IF reqSt[c] = "drop" /\ drainBatch \in buffer
           THEN GiveUp(content[drainBatch], "rejected") ELSE UNCHANGED givenUp
     \/ UNCHANGED <<buffer, givenUp>>
  /\ fatal' = (fatal \/ reqSt[c] = "unauthorized")
  /\ UNCHANGED <<phase, pipes, mem, liveSt, liveBatch, liveCtx, 
                 batchVars, centralVars>>

DrainTimeout(c) ==
  /\ drainSt = "posting" /\ reqOwner[c] = "drain" /\ reqSt[c] # "free"
  /\ Abandon(c) /\ drainSt' = "idle" /\ drainBatch' = 0
  /\ UNCHANGED <<phase, pipes, mem, liveSt, liveBatch, liveCtx, buffer, fatal,
                 batchVars, givenUp, centralVars>>

-----------------------------------------------------------------------------
(* The probe process: cmdAgent.                                             *)

(* SIGTERM cancels the signal context, parent of every other one.           *)
Sigterm ==
  /\ phase \in {"run", "stopping"} /\ phase' = "cancelled"
  /\ UNCHANGED <<pipes, mem, liveSt, liveBatch, liveCtx, drainSt, drainBatch, buffer,
                 fatal, batchVars, givenUp, reqVars, centralVars>>

(* A fatal ingest error or a heartbeat answered 401 ends the select; the    *)
(* run context is still alive while the pipelines are shut down.            *)
FatalExit ==
  /\ phase = "run" /\ (fatal \/ ~token) /\ phase' = "stopping"
  /\ UNCHANGED <<pipes, mem, liveSt, liveBatch, liveCtx, drainSt, drainBatch, buffer,
                 fatal, batchVars, givenUp, reqVars, centralVars>>

(* runner.shutdown has drained the pipelines; cancel() follows.             *)
PipesDrained ==
  /\ pipes /\ phase \in {"stopping", "cancelled"}
  /\ pipes' = FALSE /\ phase' = "cancelled"
  /\ UNCHANGED <<mem, liveSt, liveBatch, liveCtx, drainSt, drainBatch, buffer, fatal,
                 batchVars, givenUp, reqVars, centralVars>>

(* What the death of the process leaves: the buffer, and requests that      *)
(* nobody waits for any more.                                               *)
Die ==
  /\ phase' = "down" /\ pipes' = FALSE /\ mem' = {} /\ fatal' = FALSE
  /\ liveSt' = "idle" /\ drainSt' = "idle"
  /\ liveBatch' = 0 /\ liveCtx' = "run" /\ drainBatch' = 0
  /\ reqOwner' = [c \in Conn |-> "nobody"]
  /\ reqSt' = [c \in Conn |-> IF reqSt[c] \in Answer THEN "free" ELSE reqSt[c]]
  /\ reqBatch' = [c \in Conn |-> IF reqSt[c] \in Answer THEN 0 ELSE reqBatch[c]]
  /\ UNCHANGED reqAt
  /\ UNCHANGED <<buffer, batchVars, centralVars>>

(* wg.Wait returns once Run and RunFlushLoop have.                          *)
Exit ==
  /\ phase = "cancelled" /\ ~pipes /\ liveSt = "done" /\ drainSt = "idle"
  /\ GiveUp(mem, "late") /\ Die

Crash ==
  /\ phase # "down"
  /\ GiveUp(mem \cup InFlush, "crash")
  /\ Die

Restart ==
  /\ phase = "down"
  /\ phase' = "run" /\ pipes' = TRUE
  /\ UNCHANGED <<mem, liveSt, liveBatch, liveCtx, drainSt, drainBatch, buffer, fatal,
                 batchVars, givenUp, reqVars, centralVars>>

-----------------------------------------------------------------------------
(* The central.                                                             *)

Reply(c, answer) ==
  IF reqOwner[c] = "nobody" THEN Close(c)
  ELSE SetRequest(c, answer, reqOwner[c], reqBatch[c], 0)

(* Mutant: the skew bound is exclusive.                                     *)
ClockSkewStrict(b, t) == \A s \in content[b] : ts[s] - t \in (1 - SkewBound)..(SkewBound - 1)

(* checkClockSkew, for every sample of the batch.                           *)
ClockSkewOK(b, t) == \A s \in content[b] : ts[s] - t \in -SkewBound..SkewBound

(* handleIngestSamples up to its call of IngestBatch: authAgent, then the   *)
(* central's time is read once and the timestamps checked against it.       *)
HandleIngestSamples(c) ==
  /\ reqSt[c] = "sent"
  /\ \/ ~token /\ Reply(c, "unauthorized")
     \/ token /\ ~ClockSkewOK(reqBatch[c], now) /\ Reply(c, "drop")
     \/ token /\ ClockSkewOK(reqBatch[c], now)
        /\ SetRequest(c, "handling", reqOwner[c], reqBatch[c], now)
  /\ UNCHANGED <<agentVars, batchVars, givenUp, centralVars>>

(* Store.IngestBatch: the dedup row and the data commit together; a batch   *)
(* already in ingest_log is acknowledged and not written.                   *)
IngestBatch(c) ==
  /\ reqSt[c] = "handling"
  /\ LET b == reqBatch[c] IN
       IF b \in logged
       THEN UNCHANGED <<logged, loggedAt, copies>>
       ELSE /\ logged' = logged \cup {b}
            /\ loggedAt' = [loggedAt EXCEPT ![b] = reqAt[c]]
            /\ copies' = [copies EXCEPT ![b] = @ + 1]
  /\ Reply(c, "ok")
  /\ UNCHANGED <<agentVars, batchVars, givenUp, now, token>>

(* The request never arrives, the central restarts, or IngestBatch fails    *)
(* and rolls back: 5xx or a broken connection.                              *)
IngestFails(c) ==
  /\ reqSt[c] \in {"sent", "handling"}
  /\ Reply(c, "retry")
  /\ UNCHANGED <<agentVars, batchVars, givenUp, centralVars>>

(* Mutant: received_at <= cutoff.                                           *)
ExpiredInclusive == {b \in logged : loggedAt[b] <= now - DedupWindow}

(* The retention worker's DeleteIngestLogOlderThan(now - 24h).              *)
Expired == {b \in logged : loggedAt[b] < now - DedupWindow}

DeleteIngestLogOlderThan ==
  /\ Expired # {} /\ logged' = logged \ Expired
  /\ UNCHANGED <<agentVars, batchVars, givenUp, reqVars, now, token, loggedAt, copies>>

(* The operator revokes the probe's token.                                  *)
RevokeToken ==
  /\ token /\ token' = FALSE
  /\ UNCHANGED <<agentVars, batchVars, givenUp, reqVars, now, logged, loggedAt, copies>>

Tick ==
  /\ now < MaxTime
  /\ \A c \in Conn : reqSt[c] = "handling" => now < reqAt[c] + MaxStall
  /\ now' = now + 1
  /\ UNCHANGED <<agentVars, batchVars, givenUp, reqVars, token, logged, loggedAt, copies>>

-----------------------------------------------------------------------------
Agent ==
  \/ \E s \in Sample : WriteSample(s)
  \/ FlushOnce \/ FinalFlush \/ BufferAdd \/ BufferAddFails \/ DrainPost
  \/ \E c \in Conn : LiveAnswer(c) \/ LiveTimeout(c) \/ DrainAnswer(c) \/ DrainTimeout(c)
  \/ Sigterm \/ FatalExit \/ PipesDrained \/ Exit \/ Crash \/ Restart

Central ==
  \/ \E c \in Conn : HandleIngestSamples(c) \/ IngestBatch(c) \/ IngestFails(c)
  \/ DeleteIngestLogOlderThan \/ RevokeToken \/ Tick

Next == Agent \/ Central
Spec == Init /\ [][Next]_vars

(* Fairness.  The probe's loops keep running; posting is strongly fair only  *)
(* because Conn bounds connections that the program opens at will.  A        *)
(* request that is tried again and again is eventually received, committed,  *)
(* answered and its row deleted: an outage ends.  Nothing is assumed of the  *)
(* operator, the clock, signals, crashes or the pruning.                     *)
Delivered(c) == DrainAnswer(c) /\ reqSt[c] \in {"ok", "drop"} /\ drainBatch \notin buffer'

Fairness ==
  /\ SF_vars(FlushOnce) /\ SF_vars(DrainPost) /\ WF_vars(BufferAdd \/ BufferAddFails)
  /\ \A c \in Conn : /\ WF_vars(LiveAnswer(c) \/ LiveTimeout(c))
                      /\ SF_vars(HandleIngestSamples(c)) /\ SF_vars(IngestBatch(c))
                      /\ SF_vars(DrainAnswer(c)) /\ SF_vars(Delivered(c))

FairSpec == Spec /\ Fairness

-----------------------------------------------------------------------------
(* Properties.                                                               *)

AgentType ==
  /\ phase \in Phase /\ pipes \in BOOLEAN /\ mem \subseteq Sample
  /\ liveSt \in LiveState /\ liveBatch \in 0..MaxBatch /\ liveCtx \in Ctx
  /\ Flushing => liveBatch \in Batch
  /\ drainSt \in {"idle", "posting"} /\ drainBatch \in 0..MaxBatch
  /\ buffer \subseteq Batch /\ fatal \in BOOLEAN
BatchType ==
  /\ nextBatch \in 1..(MaxBatch + 1) /\ content \in [Batch -> SUBSET Sample]
  /\ taken \subseteq Sample /\ ts \in [Sample -> Int]
RequestType ==
  /\ reqSt \in [Conn -> ReqState] /\ reqOwner \in [Conn -> Owner]
  /\ reqBatch \in [Conn -> 0..MaxBatch] /\ reqAt \in [Conn -> Nat]
  /\ \A c \in Conn : reqSt[c] # "free" => reqBatch[c] \in Batch
CentralType ==
  /\ now \in 0..MaxTime /\ token \in BOOLEAN
  /\ logged \subseteq Batch /\ loggedAt \in [Batch -> Nat] /\ copies \in [Batch -> Nat]

(* The values every variable may take.                                       *)
TypeOK ==
  AgentType /\ BatchType /\ RequestType /\ CentralType /\ givenUp \in [Sample -> Cause]

Held    == mem \cup InFlush \cup Payload(buffer)
Stored  == Payload({b \in Batch : copies[b] > 0})

(* Replays are harmless as long as the dedup window is longer than the time  *)
(* during which a batch is still accepted: the skew bound, plus the probe's  *)
(* clock lead, plus the time a handler may hold a timestamp it has read.     *)
WindowCoversReplays ==
  \A d \in AgentSkew : DedupWindow >= SkewBound + MaxStall + d

(* ingest_log dedups every replay (lost answer, failed delete, restart,      *)
(* abandoned request that is handled late): no batch is inserted twice.      *)
ExactlyOnce == WindowCoversReplays => \A b \in Batch : copies[b] <= 1

(* Every measurement is still held by the probe, in the central's database,  *)
(* or was given up on a path that logs why.                                  *)
NoSampleVanishes ==
  \A s \in taken : s \in Held \/ s \in Stored \/ givenUp[s] # "none"

(* A row leaves pending_batches only before every row that is newer,         *)
(* whether the drain loop deletes it or Buffer.Add evicts it.                *)
OldestFirst ==
  [][\A b \in buffer \ buffer', k \in buffer' : b < k]_buffer

(* With a probe clock within the skew bound, the central refuses a batch     *)
(* only once it holds a measurement older than the bound: an outage shorter  *)
(* than the bound loses nothing to the skew check.                           *)
RefusedOnlyWhenOld ==
  (\A d \in AgentSkew : d \in -SkewBound..SkewBound) =>
    \A s \in Sample : givenUp[s] = "rejected" =>
      \E b \in Batch : s \in content[b] /\ \E x \in content[b] : ts[x] + SkewBound < now

(* Once the probe stays up with a valid token, every measurement ends up in  *)
(* the database or is given up with a reason; none waits for ever.           *)
EventuallySettled ==
  <>[](phase = "run" /\ token) =>
    \A s \in Sample : s \in taken ~> (s \in Stored \/ givenUp[s] # "none")

-----------------------------------------------------------------------------
(* The invariants the proofs rest on.                                        *)

(* A batch gets its content once, from samples no other batch has; whatever  *)
(* names a batch names one that has content.                                 *)
BatchInv ==
  /\ mem \subseteq taken
  /\ \A b \in Batch : b >= nextBatch => content[b] = {}
  /\ \A b \in Batch : content[b] \subseteq taken /\ content[b] \cap mem = {}
  /\ \A b, k \in Batch : b # k => content[b] \cap content[k] = {}
  /\ \A b \in logged \cup buffer : content[b] # {}
  /\ \A b \in Batch : copies[b] > 0 => content[b] # {}
  /\ \A c \in Conn : reqSt[c] # "free" => content[reqBatch[c]] # {}
  /\ Flushing => content[liveBatch] # {}

(* A timestamp is ahead of the central's time t by no more than some lead of *)
(* the probe's clock.                                                        *)
LedBy(s, t) == \E d \in AgentSkew : ts[s] <= t + d

(* What a handler that has read the time, and a row of ingest_log, say about *)
(* the timestamps of their batch.                                            *)
ClockInv ==
  /\ \A s \in taken : LedBy(s, now)
  /\ \A c \in Conn : reqSt[c] = "handling" =>
       /\ reqAt[c] <= now /\ now <= reqAt[c] + MaxStall
       /\ \A s \in content[reqBatch[c]] : LedBy(s, reqAt[c]) /\ ts[s] >= reqAt[c] - SkewBound
  /\ \A b \in logged : \A s \in content[b] : LedBy(s, loggedAt[b])

(* A stored batch is in ingest_log, or so old that no handler, not even one  *)
(* that has already read the time, accepts it again.                         *)
OnceInv ==
  /\ \A b \in logged : copies[b] = 1
  /\ \A b \in Batch \ logged :
       \/ copies[b] = 0
       \/ copies[b] = 1 /\ \A s \in content[b] : ts[s] < now - SkewBound - MaxStall

(* The inductive invariant behind ExactlyOnce.                               *)
DedupInv == BatchInv /\ ClockInv /\ (WindowCoversReplays => OnceInv)

(* The live loop and the drain loop wait for one exchange each, that of the  *)
(* batch they are delivering.                                                *)
OwnerInv ==
  /\ \A c \in Conn : /\ reqOwner[c] = "live" => liveSt = "posting" /\ reqBatch[c] = liveBatch
                     /\ reqOwner[c] = "drain" => drainSt = "posting" /\ reqBatch[c] = drainBatch
  /\ \A c, k \in Conn : reqOwner[c] = reqOwner[k] /\ reqOwner[c] # "nobody" => c = k

(* The batch in flushOnce is newer than every row of the buffer; the batch   *)
(* the drain loop has read is older than every other row that is left.       *)
OrderInv ==
  /\ \A b \in buffer : b < nextBatch
  /\ Flushing => liveBatch < nextBatch /\ \A b \in buffer : b < liveBatch
  /\ drainSt = "posting" => /\ drainBatch \in Batch /\ drainBatch < nextBatch
                            /\ Flushing => drainBatch < liveBatch
                            /\ \A k \in buffer : drainBatch <= k

(* A batch in ingest_log, and one whose acknowledgement is on its way back,  *)
(* has its rows.                                                             *)
AckInv ==
  /\ \A b \in logged : copies[b] > 0
  /\ \A c \in Conn : reqSt[c] = "ok" => copies[reqBatch[c]] > 0

(* A batch is a finite set of samples.                                       *)
FiniteInv == IsFiniteSet(mem) /\ \A b \in Batch : IsFiniteSet(content[b])

(* The inductive invariant behind NoSampleVanishes and OldestFirst.          *)
CustodyInv == OwnerInv /\ OrderInv /\ AckInv /\ FiniteInv /\ NoSampleVanishes

SkewWithinBound == \A d \in AgentSkew : d \in -SkewBound..SkewBound

TooOld(b) == \E x \in content[b] : ts[x] + SkewBound < now

(* A refusal on its way back, and one the probe has acted on, is of a batch  *)
(* that holds a measurement older than the bound.                            *)
RefusalInv ==
  SkewWithinBound =>
    /\ \A c \in Conn : reqSt[c] = "drop" => TooOld(reqBatch[c])
    /\ \A s \in Sample : givenUp[s] = "rejected" => \E b \in Batch : s \in content[b] /\ TooOld(b)
=============================================================================
