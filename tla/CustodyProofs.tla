--------------------------- MODULE CustodyProofs ---------------------------
(* Theorems about Delivery: no sample is lost without a reason, rows leave   *)
(* the buffer oldest first, a refusal has its cause, and Delivery implements *)
(* DeliveryContract.                                                         *)
EXTENDS DeliveryProofs, DeliveryRefinement, FiniteSetTheorems

USE DeliveryAssumption

-----------------------------------------------------------------------------
(* What the pieces actions are made of do to the exchanges.                  *)

(* No exchange gets a new owner or another batch.                            *)
OwnersShrink ==
  \A k \in Conn : reqOwner'[k] # "nobody" =>
    reqOwner'[k] = reqOwner[k] /\ reqBatch'[k] = reqBatch[k]

(* No answer is given, except perhaps to c.                                  *)
AnswersShrink(C) ==
  \A k \in Conn \ C : reqSt'[k] \in Answer =>
    reqSt'[k] = reqSt[k] /\ reqBatch'[k] = reqBatch[k]

LEMMA CloseOwners ==
  ASSUME RequestType, NEW c \in Conn, Close(c)
  PROVE  OwnersShrink /\ AnswersShrink({}) /\ reqOwner'[c] = "nobody"
BY DEF RequestType, Close, SetRequest, OwnersShrink, AnswersShrink, Answer

LEMMA AbandonOwners ==
  ASSUME RequestType, NEW c \in Conn, Abandon(c)
  PROVE  OwnersShrink /\ AnswersShrink({}) /\ reqOwner'[c] = "nobody"
BY CloseOwners DEF RequestType, Abandon, SetRequest, OwnersShrink, AnswersShrink, Answer

LEMMA ReplyOwners ==
  ASSUME RequestType, NEW c \in Conn, NEW a \in Answer, Reply(c, a)
  PROVE  /\ OwnersShrink /\ AnswersShrink({c})
         /\ reqSt'[c] \in Answer => reqSt'[c] = a /\ reqBatch'[c] = reqBatch[c]
<1>1. CASE reqOwner[c] = "nobody"
  <2>1. Close(c) /\ reqSt'[c] = "free"
    BY <1>1 DEF Reply, Close, SetRequest, RequestType
  <2>2. QED
    BY <2>1, CloseOwners DEF AnswersShrink, Answer
<1>2. CASE reqOwner[c] # "nobody"
  BY <1>2 DEF Reply, SetRequest, RequestType, OwnersShrink, AnswersShrink
<1>3. QED
  BY <1>1, <1>2

LEMMA PostOwners ==
  ASSUME RequestType, NEW o \in Owner, NEW b, Post(o, b)
  PROVE  /\ AnswersShrink({})
         /\ \E c \in Conn : /\ reqOwner'[c] = o /\ reqBatch'[c] = b
                            /\ \A k \in Conn \ {c} : /\ reqOwner'[k] = reqOwner[k]
                                                     /\ reqBatch'[k] = reqBatch[k]
<1>1. PICK c \in Conn : SetRequest(c, "sent", o, b, 0)
  BY DEF Post
<1>2. /\ reqOwner'[c] = o /\ reqBatch'[c] = b /\ reqSt'[c] = "sent"
      /\ \A k \in Conn \ {c} : /\ reqOwner'[k] = reqOwner[k] /\ reqBatch'[k] = reqBatch[k]
                               /\ reqSt'[k] = reqSt[k]
  BY <1>1 DEF SetRequest, RequestType
<1>3. QED
  BY <1>2 DEF AnswersShrink, Answer

LEMMA DieOwners ==
  ASSUME RequestType, Die
  PROVE  OwnersShrink /\ AnswersShrink({}) /\ \A c \in Conn : reqOwner'[c] = "nobody"
BY DEF RequestType, Die, OwnersShrink, AnswersShrink, Answer

LEMMA SameOwners ==
  ASSUME UNCHANGED reqVars
  PROVE  OwnersShrink /\ AnswersShrink({})
BY DEF reqVars, OwnersShrink, AnswersShrink

(* The central's handler answers a request and tells nobody else.            *)
LEMMA HandlerOwners ==
  ASSUME RequestType, NEW c \in Conn,
         HandleIngestSamples(c) \/ IngestBatch(c) \/ IngestFails(c)
  PROVE  /\ OwnersShrink /\ AnswersShrink({c})
         /\ reqSt'[c] \in Answer => /\ reqBatch'[c] = reqBatch[c]
                                    /\ reqSt'[c] = "ok" => IngestBatch(c)
                                    /\ reqSt'[c] = "drop" => ~ClockSkewOK(reqBatch[c], now)
<1>1. CASE HandleIngestSamples(c)
  <2>1. CASE SetRequest(c, "handling", reqOwner[c], reqBatch[c], now)
    BY <2>1 DEF SetRequest, RequestType, OwnersShrink, AnswersShrink, Answer
  <2>2. CASE Reply(c, "unauthorized")
    BY <2>2, ReplyOwners DEF Answer
  <2>3. CASE ~ClockSkewOK(reqBatch[c], now) /\ Reply(c, "drop")
    BY <2>3, ReplyOwners DEF Answer
  <2>4. QED
    BY <1>1, <2>1, <2>2, <2>3 DEF HandleIngestSamples
<1>2. CASE IngestBatch(c)
  BY <1>2, ReplyOwners DEF IngestBatch, Answer
<1>3. CASE IngestFails(c)
  BY <1>3, ReplyOwners DEF IngestFails, Answer
<1>4. QED
  BY <1>1, <1>2, <1>3

-----------------------------------------------------------------------------
(* Each loop waits for the exchange of its own batch.                        *)
LEMMA OwnerStep ==
  ASSUME TypeOK, OwnerInv, [Next]_vars
  PROVE  OwnerInv'
<1>t. RequestType
  BY DEF TypeOK
<1>1. ASSUME OwnersShrink, UNCHANGED <<liveSt, liveBatch, drainSt, drainBatch>> PROVE OwnerInv'
  BY <1>t, <1>1 DEF OwnerInv, OwnersShrink, RequestType
<1>2. ASSUME OwnersShrink, \A c \in Conn : reqOwner'[c] # "live",
             UNCHANGED <<drainSt, drainBatch>>
      PROVE  OwnerInv'
  BY <1>t, <1>2 DEF OwnerInv, OwnersShrink, RequestType
<1>3. ASSUME OwnersShrink, \A c \in Conn : reqOwner'[c] # "drain",
             UNCHANGED <<liveSt, liveBatch>>
      PROVE  OwnerInv'
  BY <1>t, <1>3 DEF OwnerInv, OwnersShrink, RequestType
<1>4. ASSUME UNCHANGED reqVars,
             UNCHANGED <<liveSt, liveBatch, drainSt, drainBatch>>
      PROVE  OwnerInv'
  BY <1>1, <1>4, SameOwners
<1>5. CASE \/ \E s \in Sample : WriteSample(s)
           \/ Sigterm \/ FatalExit \/ PipesDrained \/ Restart
           \/ DeleteIngestLogOlderThan \/ RevokeToken \/ Tick \/ UNCHANGED vars
  BY <1>4, <1>5 DEF WriteSample, Sigterm, FatalExit, PipesDrained, Restart,
                    DeleteIngestLogOlderThan, RevokeToken, Tick, vars, agentVars
<1>6. CASE BufferAdd \/ BufferAddFails
  <2>1. liveSt = "spilling" /\ UNCHANGED reqVars /\ UNCHANGED <<drainSt, drainBatch>>
    BY <1>6 DEF BufferAdd, BufferAddFails
  <2>2. \A c \in Conn : reqOwner'[c] # "live"
    BY <2>1 DEF OwnerInv, reqVars
  <2>3. QED
    BY <1>2, <2>1, <2>2, SameOwners
<1>7. CASE FlushOnce \/ FinalFlush
  <2>1. /\ liveSt = "idle" /\ UNCHANGED <<drainSt, drainBatch>>
        /\ \/ UNCHANGED reqVars
           \/ Post("live", nextBatch) /\ liveSt' = "posting" /\ liveBatch' = nextBatch
    BY <1>7 DEF FlushOnce, FinalFlush, NewBatch
  <2>2. \A c \in Conn : reqOwner[c] # "live"
    BY <2>1 DEF OwnerInv
  <2>3. CASE UNCHANGED reqVars
    BY <1>2, <2>1, <2>2, <2>3, SameOwners DEF reqVars
  <2>4. CASE Post("live", nextBatch) /\ liveSt' = "posting" /\ liveBatch' = nextBatch
    <3>1. PICK c \in Conn : /\ reqOwner'[c] = "live" /\ reqBatch'[c] = nextBatch
                            /\ \A k \in Conn \ {c} : /\ reqOwner'[k] = reqOwner[k]
                                                     /\ reqBatch'[k] = reqBatch[k]
      BY <1>t, <2>4, PostOwners DEF Owner
    <3>2. QED
      BY <2>1, <2>2, <2>4, <3>1 DEF OwnerInv
  <2>5. QED
    BY <2>1, <2>3, <2>4
<1>8. CASE DrainPost
  <2>1. /\ drainSt = "idle" /\ UNCHANGED <<liveSt, liveBatch>> /\ Post("drain", Oldest)
        /\ drainSt' = "posting" /\ drainBatch' = Oldest
    BY <1>8 DEF DrainPost
  <2>2. \A c \in Conn : reqOwner[c] # "drain"
    BY <2>1 DEF OwnerInv
  <2>3. PICK c \in Conn : /\ reqOwner'[c] = "drain" /\ reqBatch'[c] = Oldest
                          /\ \A k \in Conn \ {c} : /\ reqOwner'[k] = reqOwner[k]
                                                   /\ reqBatch'[k] = reqBatch[k]
    BY <1>t, <2>1, PostOwners DEF Owner
  <2>4. QED
    BY <2>1, <2>2, <2>3 DEF OwnerInv
<1>9. ASSUME NEW c \in Conn, LiveAnswer(c) \/ LiveTimeout(c) PROVE OwnerInv'
  <2>1. reqOwner[c] = "live" /\ (Close(c) \/ Abandon(c)) /\ UNCHANGED <<drainSt, drainBatch>>
    BY <1>9 DEF LiveAnswer, LiveTimeout
  <2>2. OwnersShrink /\ reqOwner'[c] = "nobody"
    BY <1>t, <2>1, CloseOwners, AbandonOwners
  <2>3. \A k \in Conn : reqOwner'[k] # "live"
    BY <2>1, <2>2 DEF OwnerInv, OwnersShrink
  <2>4. QED
    BY <1>2, <2>1, <2>2, <2>3
<1>10. ASSUME NEW c \in Conn, DrainAnswer(c) \/ DrainTimeout(c) PROVE OwnerInv'
  <2>1. reqOwner[c] = "drain" /\ (Close(c) \/ Abandon(c)) /\ UNCHANGED <<liveSt, liveBatch>>
    BY <1>10 DEF DrainAnswer, DrainTimeout
  <2>2. OwnersShrink /\ reqOwner'[c] = "nobody"
    BY <1>t, <2>1, CloseOwners, AbandonOwners
  <2>3. \A k \in Conn : reqOwner'[k] # "drain"
    BY <2>1, <2>2 DEF OwnerInv, OwnersShrink
  <2>4. QED
    BY <1>3, <2>1, <2>2, <2>3
<1>11. CASE Exit \/ Crash
  <2>1. \A c \in Conn : reqOwner'[c] = "nobody"
    BY <1>t, <1>11, DieOwners DEF Exit, Crash
  <2>2. QED
    BY <2>1 DEF OwnerInv
<1>12. ASSUME NEW c \in Conn, HandleIngestSamples(c) \/ IngestBatch(c) \/ IngestFails(c)
       PROVE  OwnerInv'
  <2>1. UNCHANGED agentVars
    BY <1>12 DEF HandleIngestSamples, IngestBatch, IngestFails
  <2>2. QED
    BY <1>t, <1>1, <1>12, <2>1, HandlerOwners DEF agentVars
<1>13. QED
  BY <1>5, <1>6, <1>7, <1>8, <1>9, <1>10, <1>11, <1>12 DEF Next, Agent, Central

-----------------------------------------------------------------------------
(* An acknowledged batch is stored.                                          *)

(* The steps of the probe, which write nothing at the central and give no    *)
(* answers.                                                                  *)
LEMMA AgentAnswers ==
  ASSUME TypeOK, Agent
  PROVE  AnswersShrink({}) /\ UNCHANGED centralVars
<1>t. RequestType
  BY DEF TypeOK
<1>1. CASE \/ \E s \in Sample : WriteSample(s)
           \/ Sigterm \/ FatalExit \/ PipesDrained \/ Restart \/ BufferAdd \/ BufferAddFails
  BY <1>1, SameOwners DEF WriteSample, Sigterm, FatalExit, PipesDrained, Restart, BufferAdd,
                          BufferAddFails
<1>2. CASE FlushOnce \/ FinalFlush
  <2>1. (UNCHANGED reqVars \/ Post("live", nextBatch)) /\ UNCHANGED centralVars
    BY <1>2 DEF FlushOnce, FinalFlush
  <2>2. QED
    BY <1>t, <2>1, SameOwners, PostOwners DEF Owner
<1>3. CASE DrainPost
  BY <1>t, <1>3, PostOwners DEF DrainPost, Owner
<1>4. ASSUME NEW c \in Conn,
             LiveAnswer(c) \/ LiveTimeout(c) \/ DrainAnswer(c) \/ DrainTimeout(c)
      PROVE  AnswersShrink({}) /\ UNCHANGED centralVars
  <2>1. (Close(c) \/ Abandon(c)) /\ UNCHANGED centralVars
    BY <1>4 DEF LiveAnswer, LiveTimeout, DrainAnswer, DrainTimeout
  <2>2. QED
    BY <1>t, <2>1, CloseOwners, AbandonOwners
<1>5. CASE Exit \/ Crash
  BY <1>t, <1>5, DieOwners DEF Exit, Crash, Die
<1>6. QED
  BY <1>1, <1>2, <1>3, <1>4, <1>5 DEF Agent

LEMMA AckStep ==
  ASSUME TypeOK, AckInv, [Next]_vars
  PROVE  AckInv'
<1>t. RequestType /\ CentralType
  BY DEF TypeOK
<1>1. ASSUME AnswersShrink({}), UNCHANGED copies, logged' \subseteq logged PROVE AckInv'
  BY <1>1 DEF AckInv, AnswersShrink, Answer
<1>2. CASE Agent
  BY <1>1, <1>2, AgentAnswers DEF centralVars
<1>3. CASE DeleteIngestLogOlderThan \/ RevokeToken \/ Tick \/ UNCHANGED vars
  <2>1. UNCHANGED reqVars /\ UNCHANGED copies /\ logged' \subseteq logged
    BY <1>3 DEF DeleteIngestLogOlderThan, RevokeToken, Tick, vars, centralVars
  <2>2. QED
    BY <1>1, <2>1, SameOwners
<1>4. ASSUME NEW c \in Conn, IngestBatch(c) PROVE AckInv'
  <2>1. /\ AnswersShrink({c}) /\ reqBatch[c] \in Batch
        /\ reqSt'[c] \in Answer => reqBatch'[c] = reqBatch[c]
    BY <1>t, <1>4, HandlerOwners DEF IngestBatch, RequestType
  <2>2. /\ \A b \in Batch : copies[b] > 0 => copies'[b] > 0
        /\ \A b \in logged' : copies'[b] > 0
        /\ copies'[reqBatch[c]] > 0
    <3>1. CASE reqBatch[c] \in logged
      BY <1>4, <3>1 DEF IngestBatch, AckInv
    <3>2. CASE reqBatch[c] \notin logged
      <4>1. /\ logged' = logged \cup {reqBatch[c]}
            /\ copies' = [copies EXCEPT ![reqBatch[c]] = @ + 1]
        BY <1>4, <3>2 DEF IngestBatch
      <4>2. QED
        BY <1>t, <2>1, <4>1 DEF CentralType, AckInv
    <3>3. QED
      BY <3>1, <3>2
  <2>3. ASSUME NEW k \in Conn, reqSt'[k] = "ok" PROVE copies'[reqBatch'[k]] > 0
    <3>1. CASE k = c
      BY <2>1, <2>2, <2>3, <3>1 DEF Answer
    <3>2. CASE k # c
      BY <1>t, <2>1, <2>2, <2>3, <3>2 DEF AnswersShrink, Answer, AckInv, RequestType
    <3>3. QED
      BY <3>1, <3>2
  <2>4. QED
    BY <2>2, <2>3 DEF AckInv
<1>5. ASSUME NEW c \in Conn, HandleIngestSamples(c) \/ IngestFails(c), ~IngestBatch(c)
      PROVE  AckInv'
  <2>1. AnswersShrink({c}) /\ reqSt'[c] # "ok"
    BY <1>t, <1>5, HandlerOwners DEF Answer
  <2>2. UNCHANGED <<copies, logged>>
    BY <1>5 DEF HandleIngestSamples, IngestFails, centralVars
  <2>3. QED
    BY <2>1, <2>2 DEF AckInv, AnswersShrink, Answer
<1>6. QED
  BY <1>2, <1>3, <1>4, <1>5 DEF Next, Central

-----------------------------------------------------------------------------
(* Batches are finite, and ordered the way they were made.                   *)

LEMMA FiniteStep ==
  ASSUME TypeOK, FiniteInv, [Next]_vars
  PROVE  FiniteInv'
<1>1. ASSUME UNCHANGED content, mem' \subseteq mem PROVE FiniteInv'
  BY <1>1, FS_Subset DEF FiniteInv
<1>2. ASSUME NEW s \in Sample, WriteSample(s) PROVE FiniteInv'
  <2>1. mem' = mem \cup {s} /\ content' = content
    BY <1>2 DEF WriteSample
  <2>2. IsFiniteSet(mem')
    BY <2>1, FS_AddElement DEF FiniteInv
  <2>3. QED
    BY <2>1, <2>2 DEF FiniteInv
<1>3. CASE NewBatch
  <2>1. /\ nextBatch \in Batch /\ content' = [content EXCEPT ![nextBatch] = mem] /\ mem' = {}
        /\ content \in [Batch -> SUBSET Sample]
    BY <1>3 DEF TypeOK, BatchType, NewBatch, Batch
  <2>2. QED
    BY <2>1, FS_EmptySet DEF FiniteInv
<1>4. CASE UNCHANGED batchVars /\ mem' \subseteq mem
  BY <1>1, <1>4 DEF batchVars
<1>5. Agent => \/ \E s \in Sample : WriteSample(s)
               \/ NewBatch
               \/ UNCHANGED batchVars /\ mem' \subseteq mem
  BY DEF Agent, FlushOnce, FinalFlush, BufferAdd, BufferAddFails, DrainPost, LiveAnswer,
         LiveTimeout, DrainAnswer, DrainTimeout, Sigterm, FatalExit, PipesDrained, Exit, Crash,
         Die, Restart
<1>6. Central \/ UNCHANGED vars => UNCHANGED batchVars /\ mem' \subseteq mem
  BY DEF Central, HandleIngestSamples, IngestBatch, IngestFails, DeleteIngestLogOlderThan,
         RevokeToken, Tick, vars, agentVars
<1>7. QED
  BY <1>2, <1>3, <1>4, <1>5, <1>6 DEF Next

LEMMA OrderStep ==
  ASSUME TypeOK, OrderInv, [Next]_vars
  PROVE  OrderInv'
<1>t. /\ liveBatch \in Int /\ drainBatch \in Int /\ nextBatch \in Int /\ buffer \subseteq Batch
      /\ Batch \subseteq Int
  BY DEF TypeOK, AgentType, BatchType, Batch
\* Nothing is added to the buffer and no loop takes up a new batch.
<1>1. ASSUME nextBatch' = nextBatch, buffer' \subseteq buffer,
             Flushing' => Flushing /\ liveBatch' = liveBatch,
             drainSt' = "posting" => drainSt = "posting" /\ drainBatch' = drainBatch
      PROVE  OrderInv'
  BY <1>1 DEF OrderInv
<1>2. CASE BufferAdd
  <2>1. /\ Flushing /\ buffer' \subseteq buffer \cup {liveBatch} /\ ~Flushing'
        /\ UNCHANGED <<nextBatch, drainSt, drainBatch>>
    BY <1>2 DEF BufferAdd, Fitting, Flushing, AfterFlush, batchVars
  <2>2. QED
    BY <1>t, <2>1 DEF OrderInv
<1>3. CASE NewBatch /\ UNCHANGED <<buffer, drainSt, drainBatch>> /\ ~Flushing
  <2>1. nextBatch' = nextBatch + 1 /\ liveBatch' = nextBatch /\ nextBatch \in Batch
    BY <1>3 DEF NewBatch, TypeOK, BatchType, Batch
  <2>2. \A b \in buffer : b < nextBatch + 1
    BY <1>t DEF OrderInv
  <2>3. drainSt = "posting" => drainBatch < nextBatch + 1
    BY <1>t DEF OrderInv
  <2>4. nextBatch < nextBatch + 1
    BY <1>t
  <2>5. QED
    BY <1>3, <2>1, <2>2, <2>3, <2>4 DEF OrderInv
<1>4. CASE DrainPost
  <2>1. /\ UNCHANGED <<buffer, nextBatch, liveSt, liveBatch>> /\ drainBatch' = Oldest
        /\ Oldest \in buffer /\ \A k \in buffer : Oldest <= k
    BY <1>t, <1>4, OldestIs DEF DrainPost, batchVars
  <2>2. QED
    BY <1>t, <2>1 DEF OrderInv, Flushing
<1>5. Agent => \/ BufferAdd \/ DrainPost
               \/ NewBatch /\ UNCHANGED <<buffer, drainSt, drainBatch>> /\ ~Flushing
               \/ /\ nextBatch' = nextBatch /\ buffer' \subseteq buffer
                  /\ Flushing' => Flushing /\ liveBatch' = liveBatch
                  /\ drainSt' = "posting" => drainSt = "posting" /\ drainBatch' = drainBatch
  <2>1. CASE FlushOnce \/ FinalFlush
    BY <2>1 DEF FlushOnce, FinalFlush, Flushing, batchVars
  <2>2. CASE \E c \in Conn : LiveAnswer(c) \/ LiveTimeout(c) \/ DrainAnswer(c) \/ DrainTimeout(c)
    BY <2>2 DEF LiveAnswer, LiveTimeout, DrainAnswer, DrainTimeout, Flushing, AfterAnswer,
                AfterFlush, batchVars
  <2>3. CASE BufferAddFails \/ Sigterm \/ FatalExit \/ PipesDrained \/ Exit \/ Crash \/ Restart
    BY <2>3 DEF BufferAddFails, AfterFlush, Sigterm, FatalExit, PipesDrained, Exit, Crash, Die,
                Restart, Flushing, batchVars
  <2>4. CASE \E s \in Sample : WriteSample(s)
    BY <2>4 DEF WriteSample, Flushing
  <2>5. QED
    BY <2>1, <2>2, <2>3, <2>4 DEF Agent
<1>6. CASE Central \/ UNCHANGED vars
  <2>1. UNCHANGED agentVars /\ UNCHANGED batchVars
    BY <1>6 DEF Central, HandleIngestSamples, IngestBatch, IngestFails,
                DeleteIngestLogOlderThan, RevokeToken, Tick, vars
  <2>2. QED
    BY <1>1, <2>1 DEF agentVars, batchVars, Flushing
<1>7. QED
  BY <1>1, <1>2, <1>3, <1>4, <1>5, <1>6 DEF Next

-----------------------------------------------------------------------------
(* No sample vanishes.                                                       *)

LEMMA InHeld ==
  ASSUME NEW s
  PROVE  s \in Held <=> \/ s \in mem
                        \/ Flushing /\ s \in content[liveBatch]
                        \/ \E b \in buffer : s \in content[b]
BY DEF Held, InFlush, Payload

LEMMA InHeldNext ==
  ASSUME NEW s
  PROVE  s \in Held' <=> \/ s \in mem'
                         \/ Flushing' /\ s \in content'[liveBatch']
                         \/ \E b \in buffer' : s \in content'[b]
BY DEF Held, InFlush, Payload

LEMMA InStored ==
  ASSUME NEW s
  PROVE  /\ s \in Stored <=> \E b \in Batch : copies[b] > 0 /\ s \in content[b]
         /\ s \in Stored' <=> \E b \in Batch : copies'[b] > 0 /\ s \in content'[b]
BY DEF Stored, Payload

(* What is given up has a reason, and keeps the first one.                   *)
LEMMA GiveUpWhy ==
  ASSUME givenUp \in [Sample -> Cause], NEW S, NEW why \in Cause \ {"none"}, GiveUp(S, why)
  PROVE  \A s \in Sample : /\ givenUp[s] # "none" => givenUp'[s] = givenUp[s]
                           /\ s \in S => givenUp'[s] # "none"
                           /\ s \notin S => givenUp'[s] = givenUp[s]
                           /\ givenUp'[s] # givenUp[s] => givenUp'[s] = why
BY DEF GiveUp

(* Buffer.Add keeps the batch it was given: it is the newest and it fits.    *)
LEMMA NewestFits ==
  ASSUME TypeOK, OrderInv, BufferAdd
  PROVE  liveBatch \in Fitting(buffer \cup {liveBatch})
<1>1. /\ Flushing /\ liveBatch \in Batch /\ Size({liveBatch}) <= MaxBytes
      /\ \A b \in buffer : b \in Int /\ b < liveBatch
  BY DEF BufferAdd, Flushing, TypeOK, AgentType, OrderInv, Batch
<1>2. {k \in buffer \cup {liveBatch} : k >= liveBatch} = {liveBatch}
  BY <1>1 DEF Batch
<1>3. QED
  BY <1>1, <1>2 DEF Fitting

(* A step that keeps stored batches stored, and loses nothing it held        *)
(* without giving it up.                                                     *)
LEMMA KeepsAll ==
  ASSUME TypeOK, NoSampleVanishes, taken' = taken,
         \A b \in Batch : copies[b] > 0 => copies'[b] > 0 /\ content'[b] = content[b],
         \A s \in Sample : givenUp[s] # "none" => givenUp'[s] # "none",
         \A s \in taken : s \in Held => s \in Held' \/ s \in Stored' \/ givenUp'[s] # "none"
  PROVE  NoSampleVanishes'
<1>1. taken \subseteq Sample
  BY DEF TypeOK, BatchType
<1>2. \A s \in taken : s \in Stored => s \in Stored'
  BY InStored
<1>3. QED
  BY <1>1, <1>2 DEF NoSampleVanishes

LEMMA VanishStep ==
  ASSUME TypeOK, DedupInv, CustodyInv, [Next]_vars
  PROVE  NoSampleVanishes'
<1>t. /\ AgentType /\ BatchType /\ RequestType /\ CentralType /\ taken \subseteq Sample
      /\ givenUp \in [Sample -> Cause] /\ mem \subseteq Sample
  BY DEF TypeOK, AgentType, BatchType
<1>i. NoSampleVanishes /\ OwnerInv /\ OrderInv /\ AckInv /\ BatchInv
  BY DEF CustodyInv, DedupInv
\* Steps that touch nothing a sample can be in.
<1>1. ASSUME UNCHANGED <<mem, liveBatch, buffer, content, copies, taken, givenUp>>,
             Flushing' = Flushing
      PROVE  NoSampleVanishes'
  BY <1>i, <1>1, KeepsAll, InHeld, InHeldNext
<1>2. CASE \/ Sigterm \/ FatalExit \/ PipesDrained \/ Restart \/ DrainPost
           \/ DeleteIngestLogOlderThan \/ RevokeToken \/ Tick \/ UNCHANGED vars
           \/ \E c \in Conn : \/ DrainTimeout(c) \/ LiveTimeout(c)
                              \/ HandleIngestSamples(c) \/ IngestFails(c)
  BY <1>1, <1>2 DEF Sigterm, FatalExit, PipesDrained, Restart, DrainPost,
       DeleteIngestLogOlderThan, RevokeToken, Tick, DrainTimeout, LiveTimeout,
       HandleIngestSamples, IngestFails, vars, agentVars, batchVars, centralVars, Flushing
<1>3. ASSUME NEW x \in Sample, WriteSample(x) PROVE NoSampleVanishes'
  <2>1. /\ UNCHANGED <<liveBatch, buffer, content, copies, givenUp, liveSt>>
        /\ taken' = taken \cup {x} /\ mem' = mem \cup {x}
    BY <1>3 DEF WriteSample, centralVars
  <2>2. \A s : s \in Held' <=> s \in Held \/ s = x
    BY <2>1, InHeld, InHeldNext DEF Flushing
  <2>3. Stored' = Stored
    BY <2>1 DEF Stored, Payload
  <2>4. QED
    BY <1>i, <2>1, <2>2, <2>3 DEF NoSampleVanishes
<1>4. ASSUME NewBatch, Flushing', UNCHANGED <<buffer, copies, givenUp>>, ~Flushing
      PROVE  NoSampleVanishes'
  <2>1. /\ nextBatch \in Batch /\ content' = [content EXCEPT ![nextBatch] = mem]
        /\ liveBatch' = nextBatch /\ mem' = {} /\ content[nextBatch] = {} /\ taken' = taken
    BY <1>t, <1>i, <1>4 DEF NewBatch, BatchType, BatchInv, Batch
  <2>2. \A b \in Batch : content[b] # {} => content'[b] = content[b]
    BY <1>t, <2>1 DEF BatchType
  <2>3. \A b \in Batch : copies[b] > 0 => copies'[b] > 0 /\ content'[b] = content[b]
    BY <1>i, <1>4, <2>2 DEF BatchInv
  <2>4. \A s \in taken : s \in Held => s \in Held'
    BY <1>t, <1>i, <1>4, <2>1, <2>2, InHeld, InHeldNext DEF AgentType, BatchType
  <2>5. QED
    BY <1>i, <1>4, <2>1, <2>3, <2>4, KeepsAll
<1>5. CASE FlushOnce
  BY <1>4, <1>5 DEF FlushOnce, Flushing, centralVars
<1>6. CASE FinalFlush
  <2>1. CASE mem = {}
    BY <1>1, <1>6, <2>1 DEF FinalFlush, batchVars, centralVars, Flushing
  <2>2. CASE mem # {}
    BY <1>4, <1>6, <2>2 DEF FinalFlush, Flushing, centralVars
  <2>3. QED
    BY <2>1, <2>2
<1>7. ASSUME NEW c \in Conn, LiveAnswer(c) PROVE NoSampleVanishes'
  <2>1. /\ Flushing /\ liveBatch \in Batch /\ reqBatch[c] = liveBatch /\ reqSt[c] \in Answer
        /\ UNCHANGED <<mem, buffer, content, copies, taken>>
        /\ liveSt' = AfterAnswer(reqSt[c])
        /\ liveBatch' = IF reqSt[c] = "retry" THEN liveBatch ELSE 0
    BY <1>t, <1>i, <1>7 DEF LiveAnswer, Flushing, AgentType, OwnerInv, batchVars, centralVars
  <2>2. CASE reqSt[c] = "ok"
    <3>1. copies[liveBatch] > 0 /\ UNCHANGED givenUp
      BY <1>i, <1>7, <2>1, <2>2 DEF LiveAnswer, AckInv
    <3>2. \A s \in taken : s \in Held => s \in Held' \/ s \in Stored'
      BY <2>1, <3>1, InHeld, InHeldNext, InStored
    <3>3. QED
      BY <1>i, <2>1, <3>1, <3>2, KeepsAll
  <2>3. CASE reqSt[c] = "retry"
    <3>1. Flushing' /\ liveBatch' = liveBatch /\ UNCHANGED givenUp
      BY <1>7, <2>1, <2>3 DEF LiveAnswer, AfterAnswer, Flushing
    <3>2. QED
      BY <1>1, <2>1, <3>1
  <2>4. CASE reqSt[c] \in {"drop", "unauthorized"}
    <3>1. PICK why \in Cause \ {"none"} : GiveUp(content[liveBatch], why)
      BY <1>7, <2>4 DEF LiveAnswer, Cause
    <3>2. /\ \A s \in Sample : givenUp[s] # "none" => givenUp'[s] # "none"
          /\ \A s \in Sample : s \in content[liveBatch] => givenUp'[s] # "none"
      BY <1>t, <3>1, GiveUpWhy
    <3>3. \A s \in taken : s \in Held => s \in Held' \/ givenUp'[s] # "none"
      BY <1>t, <2>1, <3>2, InHeld, InHeldNext
    <3>4. QED
      BY <1>i, <2>1, <3>2, <3>3, KeepsAll
  <2>5. QED
    BY <2>1, <2>2, <2>3, <2>4 DEF Answer
<1>8. CASE BufferAdd
  <2> DEFINE F == Fitting(buffer \cup {liveBatch})
  <2>1. /\ Flushing /\ buffer' = F /\ GiveUp(Payload(buffer \ F), "evicted") /\ liveBatch \in F
        /\ UNCHANGED <<mem, content, copies, taken>>
    BY <1>i, <1>8, NewestFits DEF BufferAdd, Flushing, batchVars, centralVars
  <2> HIDE DEF F
  <2>2. \A s \in Sample : /\ givenUp[s] # "none" => givenUp'[s] # "none"
                          /\ s \in Payload(buffer \ F) => givenUp'[s] # "none"
    BY <1>t, <2>1, GiveUpWhy DEF Cause
  <2>3. \A s, b : b \in buffer \ F /\ s \in content[b] => s \in Payload(buffer \ F)
    BY DEF Payload
  <2>4. \A s \in taken : s \in Held => s \in Held' \/ givenUp'[s] # "none"
    BY <1>t, <2>1, <2>2, <2>3, InHeld, InHeldNext
  <2>5. QED
    BY <1>i, <2>1, <2>2, <2>4, KeepsAll
<1>9. CASE BufferAddFails
  <2>1. /\ Flushing /\ UNCHANGED <<mem, buffer, content, copies, taken>>
        /\ \E why \in Cause \ {"none"} : GiveUp(content[liveBatch], why)
    BY <1>9 DEF BufferAddFails, Flushing, batchVars, centralVars, Cause
  <2>2. /\ \A s \in Sample : givenUp[s] # "none" => givenUp'[s] # "none"
        /\ \A s \in Sample : s \in content[liveBatch] => givenUp'[s] # "none"
    BY <1>t, <2>1, GiveUpWhy
  <2>3. \A s \in taken : s \in Held => s \in Held' \/ givenUp'[s] # "none"
    BY <1>t, <2>1, <2>2, InHeld, InHeldNext
  <2>4. QED
    BY <1>i, <2>1, <2>2, <2>3, KeepsAll
<1>10. ASSUME NEW c \in Conn, DrainAnswer(c) PROVE NoSampleVanishes'
  <2>1. /\ reqBatch[c] = drainBatch /\ drainBatch \in Batch
        /\ UNCHANGED <<mem, liveSt, liveBatch, content, copies, taken>>
    BY <1>i, <1>10 DEF DrainAnswer, OwnerInv, OrderInv, batchVars, centralVars
  <2>2. CASE UNCHANGED <<buffer, givenUp>>
    BY <1>1, <2>1, <2>2 DEF Flushing
  <2>3. CASE /\ reqSt[c] = "ok" /\ buffer' = buffer \ {drainBatch} /\ UNCHANGED givenUp
    <3>1. copies[drainBatch] > 0
      BY <1>i, <2>1, <2>3 DEF AckInv
    <3>2. \A s \in taken : s \in Held => s \in Held' \/ s \in Stored'
      BY <2>1, <2>3, <3>1, InHeld, InHeldNext, InStored DEF Flushing
    <3>3. QED
      BY <1>i, <2>1, <2>3, <3>2, KeepsAll
  <2>4. CASE /\ buffer' = buffer \ {drainBatch}
             /\ IF drainBatch \in buffer THEN GiveUp(content[drainBatch], "rejected")
                ELSE UNCHANGED givenUp
    <3>1. /\ \A s \in Sample : givenUp[s] # "none" => givenUp'[s] # "none"
          /\ drainBatch \in buffer =>
               \A s \in Sample : s \in content[drainBatch] => givenUp'[s] # "none"
      BY <1>t, <2>4, GiveUpWhy DEF Cause
    <3>2. \A s \in taken : s \in Held => s \in Held' \/ givenUp'[s] # "none"
      BY <1>t, <2>1, <2>4, <3>1, InHeld, InHeldNext DEF Flushing
    <3>3. QED
      BY <1>i, <2>1, <3>1, <3>2, KeepsAll
  <2>5. QED
    BY <1>10, <2>2, <2>3, <2>4 DEF DrainAnswer
<1>11. CASE Exit \/ Crash
  <2>1. /\ UNCHANGED <<buffer, content, copies, taken>>
        /\ \E why \in Cause \ {"none"} : GiveUp(mem \cup InFlush, why)
    <3>1. Exit => InFlush = {} /\ GiveUp(mem, "late")
      BY DEF Exit, InFlush, Flushing
    <3>2. QED
      BY <1>11, <3>1 DEF Exit, Crash, Die, batchVars, centralVars, Cause
  <2>2. /\ \A s \in Sample : givenUp[s] # "none" => givenUp'[s] # "none"
        /\ \A s \in Sample : s \in mem \cup InFlush => givenUp'[s] # "none"
    BY <1>t, <2>1, GiveUpWhy
  <2>3. \A s \in taken : s \in Held => s \in Held' \/ givenUp'[s] # "none"
    BY <1>t, <2>1, <2>2, InHeld, InHeldNext DEF InFlush
  <2>4. QED
    BY <1>i, <2>1, <2>2, <2>3, KeepsAll
<1>12. ASSUME NEW c \in Conn, IngestBatch(c) PROVE NoSampleVanishes'
  <2>1. /\ UNCHANGED <<mem, liveSt, liveBatch, buffer, content, taken, givenUp>>
        /\ \A b \in Batch : copies[b] > 0 => copies'[b] > 0
    BY <1>t, <1>12 DEF IngestBatch, agentVars, batchVars, CentralType
  <2>2. \A s \in taken : s \in Held => s \in Held'
    BY <2>1, InHeld, InHeldNext DEF Flushing
  <2>3. QED
    BY <1>i, <2>1, <2>2, KeepsAll
<1>13. QED
  BY <1>2, <1>3, <1>5, <1>6, <1>7, <1>8, <1>9, <1>10, <1>11, <1>12 DEF Next, Agent, Central

LEMMA CustodyInvariant == Spec => []CustodyInv
<1>1. Init => CustodyInv
  <2> SUFFICES ASSUME Init PROVE CustodyInv
    OBVIOUS
  <2>1. OwnerInv /\ OrderInv /\ AckInv
    BY DEF Init, OwnerInv, OrderInv, AckInv, Flushing
  <2>2. FiniteInv
    BY FS_EmptySet DEF Init, FiniteInv
  <2>3. NoSampleVanishes
    BY DEF Init, NoSampleVanishes
  <2>4. QED
    BY <2>1, <2>2, <2>3 DEF CustodyInv
<1>2. TypeOK /\ DedupInv /\ CustodyInv /\ [Next]_vars => CustodyInv'
  BY OwnerStep, OrderStep, AckStep, FiniteStep, VanishStep DEF CustodyInv
<1>3. QED
  BY <1>1, <1>2, TypeCorrect, DedupInvariant, PTL DEF Spec

(* Through retries, evictions, failed deletes, crashes and restarts, every   *)
(* measurement is still held by the probe, in the central's database, or     *)
(* given up with a reason.                                                   *)
THEOREM NothingVanishes == Spec => []NoSampleVanishes
<1>1. CustodyInv => NoSampleVanishes
  BY DEF CustodyInv
<1>2. QED
  BY <1>1, CustodyInvariant, PTL

-----------------------------------------------------------------------------
(* Rows leave the buffer oldest first.                                       *)

(* The payload of batches is finite.                                         *)
LEMMA FinitePayload ==
  ASSUME BatchType, FiniteInv, NEW B, B \subseteq Batch
  PROVE  IsFiniteSet(Payload(B))
<1> DEFINE C == {content[b] : b \in B}
           f == [b \in B |-> content[b]]
<1>1. IsFiniteSet(B)
  <2>1. IsFiniteSet(Batch)
    BY FS_Interval DEF Batch
  <2>2. QED
    BY <2>1, FS_Subset
<1>2. f \in Surjection(B, C)
  BY DEF Surjection
<1>3. IsFiniteSet(C)
  <2> HIDE DEF C, f
  <2> QED
    BY <1>1, <1>2, FS_Surjection
<1>4. \A T \in C : IsFiniteSet(T)
  BY DEF FiniteInv
<1>5. QED
  <2> HIDE DEF C
  <2>1. IsFiniteSet(UNION C)
    BY <1>3, <1>4, FS_UNION
  <2>2. QED
    BY <2>1 DEF C, Payload

(* The batches Buffer.Add keeps are newer than the ones it evicts.           *)
LEMMA FittingIsSuffix ==
  ASSUME BatchType, FiniteInv, NEW B, B \subseteq Batch,
         NEW b \in B \ Fitting(B), NEW k \in Fitting(B)
  PROVE  b < k
<1> DEFINE From(j) == {i \in B : i >= j}
<1>0. b \in Int /\ k \in Int /\ k \in B /\ \A i \in B : i \in Int
  BY DEF Fitting, Batch
<1>1. Size(From(k)) <= MaxBytes /\ ~(Size(From(b)) <= MaxBytes)
  BY DEF Fitting
<1>2. SUFFICES ASSUME k <= b PROVE FALSE
  BY <1>0
<1>3. Payload(From(b)) \subseteq Payload(From(k))
  <2>0. ASSUME NEW i \in B, i >= b PROVE i >= k
    <3>1. i \in Int
      BY <1>0
    <3>2. QED
      BY <1>0, <1>2, <2>0, <3>1
  <2>1. From(b) \subseteq From(k)
    BY <2>0
  <2> HIDE DEF From
  <2>2. QED
    BY <2>1 DEF Payload
<1>4. IsFiniteSet(Payload(From(k)))
  BY FinitePayload
<1> HIDE DEF From
<1>5. Size(From(b)) <= Size(From(k)) /\ Size(From(b)) \in Nat /\ Size(From(k)) \in Nat
  BY <1>3, <1>4, FS_Subset, FS_CardinalityType DEF Size
<1>6. QED
  BY <1>1, <1>5

(* The drain loop deletes and Buffer.Add evicts the oldest rows, also when a *)
(* batch is evicted while the drain loop waits for its answer.               *)
THEOREM RowsLeaveOldestFirst == Spec => OldestFirst
<1>1. TypeOK /\ CustodyInv /\ [Next]_vars =>
        [\A b \in buffer \ buffer', k \in buffer' : b < k]_buffer
  <2> SUFFICES ASSUME TypeOK, CustodyInv, [Next]_vars, buffer' # buffer,
                      NEW b \in buffer \ buffer', NEW k \in buffer'
               PROVE  b < k
    OBVIOUS
  <2>t. buffer \subseteq Batch /\ BatchType /\ FiniteInv /\ OrderInv /\ (Flushing => liveBatch \in Batch)
    BY DEF TypeOK, AgentType, CustodyInv
  <2>1. CASE BufferAdd
    <3>1. buffer' = Fitting(buffer \cup {liveBatch}) /\ buffer \cup {liveBatch} \subseteq Batch
      BY <2>t, <2>1 DEF BufferAdd, Flushing
    <3>2. QED
      BY <2>t, <3>1, FittingIsSuffix
  <2>2. ASSUME NEW c \in Conn, DrainAnswer(c) PROVE b < k
    <3>1. buffer' = buffer \ {drainBatch} /\ b = drainBatch /\ drainSt = "posting"
      BY <2>2 DEF DrainAnswer
    <3>2. drainBatch <= k /\ drainBatch # k /\ k \in Batch /\ drainBatch \in Batch
      BY <2>t, <3>1 DEF OrderInv
    <3>3. QED
      BY <3>1, <3>2 DEF Batch
  <2>3. BufferAdd \/ \E c \in Conn : DrainAnswer(c)
    BY DEF Next, Agent, Central, WriteSample, FlushOnce, FinalFlush, BufferAddFails, DrainPost,
           LiveAnswer, LiveTimeout, DrainTimeout, Sigterm, FatalExit, PipesDrained, Exit, Crash,
           Die, Restart, HandleIngestSamples, IngestBatch, IngestFails,
           DeleteIngestLogOlderThan, RevokeToken, Tick, vars, agentVars
  <2>4. QED
    BY <2>1, <2>2, <2>3
<1>2. QED
  BY <1>1, TypeCorrect, CustodyInvariant, PTL DEF Spec, OldestFirst

-----------------------------------------------------------------------------
(* A refusal has its cause.                                                  *)

(* A batch keeps its content and its timestamps; the clock never goes back.  *)
LEMMA OldStays ==
  ASSUME TypeOK, DedupInv, [Next]_vars
  PROVE  /\ \A b \in Batch : content[b] # {} => content'[b] = content[b]
         /\ \A b \in Batch : TooOld(b) => TooOld(b)'
<1>t. BatchType /\ CentralType /\ BatchInv
  BY DEF TypeOK, DedupInv
<1>1. ASSUME UNCHANGED <<content, ts, now>>
      PROVE  /\ \A b \in Batch : content[b] # {} => content'[b] = content[b]
             /\ \A b \in Batch : TooOld(b) => TooOld(b)'
  BY <1>1 DEF TooOld
<1>2. ASSUME NEW x \in Sample, WriteSample(x)
      PROVE  /\ \A b \in Batch : content[b] # {} => content'[b] = content[b]
             /\ \A b \in Batch : TooOld(b) => TooOld(b)'
  <2>1. UNCHANGED <<content, now>> /\ x \notin taken
    BY <1>2 DEF WriteSample, centralVars
  <2>2. \A s \in taken : ts'[s] = ts[s]
    BY <1>t, <1>2, <2>1 DEF WriteSample, BatchType
  <2>3. \A b \in Batch : content[b] \subseteq taken
    BY <1>t DEF BatchInv
  <2>4. QED
    BY <2>1, <2>2, <2>3 DEF TooOld
<1>3. ASSUME NewBatch, UNCHANGED <<ts, now>>
      PROVE  /\ \A b \in Batch : content[b] # {} => content'[b] = content[b]
             /\ \A b \in Batch : TooOld(b) => TooOld(b)'
  <2>1. /\ nextBatch \in Batch /\ content' = [content EXCEPT ![nextBatch] = mem]
        /\ content[nextBatch] = {}
    BY <1>t, <1>3 DEF NewBatch, BatchType, BatchInv, Batch
  <2>2. \A b \in Batch : content[b] # {} => content'[b] = content[b]
    BY <1>t, <2>1 DEF BatchType
  <2>3. QED
    BY <1>3, <2>2 DEF TooOld
<1>4. CASE Tick
  <2>1. UNCHANGED <<content, ts>> /\ now' = now + 1 /\ now \in Int
    BY <1>t, <1>4 DEF Tick, batchVars, CentralType
  <2>2. ASSUME NEW b \in Batch, NEW x \in content[b], ts[x] + SkewBound < now
        PROVE  ts[x] + SkewBound < now'
    <3>1. ts[x] \in Int
      BY <1>t DEF BatchType
    <3>2. QED
      BY <2>1, <2>2, <3>1
  <2>3. QED
    BY <2>1, <2>2 DEF TooOld
<1>5. Agent => \/ \E s \in Sample : WriteSample(s)
               \/ NewBatch /\ UNCHANGED <<ts, now>>
               \/ UNCHANGED <<content, ts, now>>
  BY DEF Agent, FlushOnce, FinalFlush, NewBatch, BufferAdd, BufferAddFails, DrainPost,
         LiveAnswer, LiveTimeout, DrainAnswer, DrainTimeout, Sigterm, FatalExit, PipesDrained,
         Exit, Crash, Die, Restart, batchVars, centralVars
<1>6. Central \/ UNCHANGED vars => Tick \/ UNCHANGED <<content, ts, now>>
  BY DEF Central, HandleIngestSamples, IngestBatch, IngestFails, DeleteIngestLogOlderThan,
         RevokeToken, vars, batchVars, centralVars
<1>7. QED
  BY <1>1, <1>2, <1>3, <1>4, <1>5, <1>6 DEF Next

(* The skew check of a probe clock within the bound fails on old samples     *)
(* only.                                                                     *)
LEMMA SkewMeansOld ==
  ASSUME TypeOK, DedupInv, SkewWithinBound, NEW b \in Batch, ~ClockSkewOK(b, now)
  PROVE  TooOld(b)
<1>1. PICK x \in content[b] : ~(ts[x] - now \in -SkewBound..SkewBound)
  BY DEF ClockSkewOK
<1>2. x \in taken /\ ts[x] \in Int /\ now \in Int
  BY DEF TypeOK, BatchType, CentralType, DedupInv, BatchInv
<1>3. PICK d \in AgentSkew : ts[x] <= now + d
  BY <1>2 DEF DedupInv, ClockInv, LedBy
<1>4. d \in Int /\ d <= SkewBound
  <2>1. d \in -SkewBound..SkewBound /\ SkewBound \in Int
    BY DeliveryAssumption DEF SkewWithinBound
  <2>2. QED
    BY <2>1
<1>5. ts[x] + SkewBound < now
  BY <1>1, <1>2, <1>3, <1>4
<1>6. QED
  BY <1>5 DEF TooOld

LEMMA RefusalStep ==
  ASSUME TypeOK, DedupInv, CustodyInv, RefusalInv, [Next]_vars
  PROVE  RefusalInv'
<1> SUFFICES ASSUME SkewWithinBound
             PROVE  /\ \A c \in Conn : reqSt'[c] = "drop" => TooOld(reqBatch[c])'
                    /\ \A s \in Sample : givenUp'[s] = "rejected" =>
                         \E b \in Batch : s \in content'[b] /\ TooOld(b)'
  BY DEF RefusalInv, SkewWithinBound
<1>t. /\ RequestType /\ AgentType /\ givenUp \in [Sample -> Cause]
      /\ \A c \in Conn : reqSt[c] = "drop" => TooOld(reqBatch[c]) /\ reqBatch[c] \in Batch
      /\ \A s \in Sample : givenUp[s] = "rejected" => \E b \in Batch : s \in content[b] /\ TooOld(b)
  BY DEF TypeOK, RefusalInv, RequestType
\* Answers on their way.
<1>1. ASSUME NEW c \in Conn, reqSt'[c] = "drop" PROVE TooOld(reqBatch[c])'
  <2>1. ASSUME AnswersShrink({}) PROVE TooOld(reqBatch[c])'
    <3>1. reqSt[c] = "drop" /\ reqBatch'[c] = reqBatch[c]
      BY <1>1, <2>1 DEF AnswersShrink, Answer
    <3>2. TooOld(reqBatch[c]) /\ reqBatch[c] \in Batch
      BY <1>t, <3>1
    <3>3. QED
      BY <3>1, <3>2, OldStays DEF TooOld
  <2>2. CASE Agent
    BY <2>1, <2>2, AgentAnswers
  <2>3. CASE DeleteIngestLogOlderThan \/ RevokeToken \/ Tick \/ UNCHANGED vars
    BY <2>1, <2>3, SameOwners DEF DeleteIngestLogOlderThan, RevokeToken, Tick, vars
  <2>4. ASSUME NEW k \in Conn, HandleIngestSamples(k) \/ IngestBatch(k) \/ IngestFails(k)
        PROVE  TooOld(reqBatch[c])'
    <3>1. /\ AnswersShrink({k})
          /\ reqSt'[k] = "drop" => reqBatch'[k] = reqBatch[k] /\ ~ClockSkewOK(reqBatch[k], now)
      BY <1>t, <2>4, HandlerOwners DEF Answer
    <3>2. CASE c = k
      <4>1. reqBatch[c] \in Batch
        BY <1>t, <2>4, <3>2 DEF HandleIngestSamples, IngestBatch, IngestFails, RequestType
      <4>2. TooOld(reqBatch[c]) /\ reqBatch'[c] = reqBatch[c]
        BY <1>1, <3>1, <3>2, <4>1, SkewMeansOld
      <4>3. QED
        BY <4>1, <4>2, OldStays DEF TooOld
    <3>3. CASE c # k
      <4>1. reqSt[c] = "drop" /\ reqBatch'[c] = reqBatch[c]
        BY <1>1, <3>1, <3>3 DEF AnswersShrink, Answer
      <4>2. QED
        BY <1>t, <4>1, OldStays DEF TooOld
    <3>4. QED
      BY <3>2, <3>3
  <2>5. QED
    BY <2>2, <2>3, <2>4 DEF Next, Central
\* Samples the probe has let go of.
<1>2. ASSUME NEW s \in Sample, givenUp'[s] = "rejected"
      PROVE  \E b \in Batch : s \in content'[b] /\ TooOld(b)'
  <2>0. \A b \in Batch : s \in content[b] /\ TooOld(b) => s \in content'[b] /\ TooOld(b)'
    BY OldStays
  <2>1. CASE givenUp[s] = "rejected"
    BY <1>t, <2>0, <2>1
  <2>2. CASE givenUp[s] # "rejected"
    <3>1. \/ \E c \in Conn : LiveAnswer(c) /\ reqSt[c] = "drop" /\ GiveUp(content[liveBatch], "rejected")
          \/ \E c \in Conn : DrainAnswer(c) /\ reqSt[c] = "drop" /\ GiveUp(content[drainBatch], "rejected")
      <4>1. ASSUME NEW S, NEW why \in Cause \ {"none", "rejected"}, GiveUp(S, why) PROVE FALSE
        BY <1>t, <1>2, <2>2, <4>1, GiveUpWhy
      <4>2. ASSUME UNCHANGED givenUp PROVE FALSE
        BY <1>2, <2>2, <4>2
      <4>3. ASSUME NEW c \in Conn, LiveAnswer(c)
            PROVE  reqSt[c] = "drop" /\ GiveUp(content[liveBatch], "rejected")
        BY <4>1, <4>2, <4>3 DEF LiveAnswer, Cause
      <4>4. ASSUME NEW c \in Conn, DrainAnswer(c)
            PROVE  reqSt[c] = "drop" /\ GiveUp(content[drainBatch], "rejected")
        BY <4>2, <4>4 DEF DrainAnswer
      <4>5. ~(BufferAdd \/ BufferAddFails \/ Exit \/ Crash)
        BY <4>1 DEF BufferAdd, BufferAddFails, Exit, Crash, Cause
      <4>6. ~(UNCHANGED vars \/ Central)
        BY <4>2 DEF Central, HandleIngestSamples, IngestBatch, IngestFails,
                    DeleteIngestLogOlderThan, RevokeToken, Tick, vars
      <4>7. ASSUME NEW c \in Conn, LiveTimeout(c) \/ DrainTimeout(c) PROVE FALSE
        BY <4>2, <4>7 DEF LiveTimeout, DrainTimeout
      <4>8. ~(\/ \E x \in Sample : WriteSample(x)
              \/ FlushOnce \/ FinalFlush \/ DrainPost \/ Sigterm \/ FatalExit \/ PipesDrained \/ Restart)
        BY <4>2 DEF WriteSample, FlushOnce, FinalFlush, DrainPost, Sigterm, FatalExit,
                    PipesDrained, Restart
      <4>9. QED
        BY <4>3, <4>4, <4>5, <4>6, <4>7, <4>8 DEF Next, Agent
    <3>2. \E c \in Conn : reqSt[c] = "drop" /\ s \in content[reqBatch[c]]
      <4>1. ASSUME NEW S, GiveUp(S, "rejected") PROVE s \in S
        BY <1>t, <1>2, <2>2, <4>1, GiveUpWhy DEF Cause
      <4>2. QED
        BY <3>1, <4>1 DEF LiveAnswer, DrainAnswer, CustodyInv, OwnerInv
    <3>3. QED
      BY <1>t, <2>0, <3>2
  <2>3. QED
    BY <2>1, <2>2
<1>3. QED
  BY <1>1, <1>2

(* With a probe clock within the skew bound, a sample given up as rejected   *)
(* was in a batch that holds a measurement older than the bound: an outage   *)
(* shorter than the bound loses nothing to the skew check.                   *)
THEOREM RefusalsAreOld == Spec => []RefusedOnlyWhenOld
<1>1. Init => RefusalInv
  BY DEF Init, RefusalInv
<1>2. RefusalInv => RefusedOnlyWhenOld
  BY DEF RefusalInv, RefusedOnlyWhenOld, SkewWithinBound, TooOld
<1>3. TypeOK /\ DedupInv /\ CustodyInv /\ RefusalInv /\ [Next]_vars => RefusalInv'
  BY RefusalStep
<1>4. QED
  BY <1>1, <1>2, <1>3, TypeCorrect, DedupInvariant, CustodyInvariant, PTL DEF Spec

-----------------------------------------------------------------------------
(* Delivery implements DeliveryContract.                                     *)

LEMMA RowsAre ==
  ASSUME BatchInv, NEW b \in Batch, NEW s \in content[b]
  PROVE  RowsOf(s) = copies[b]
<1>1. \A k \in Batch : s \in content[k] => k = b
  BY DEF BatchInv
<1>2. QED
  BY <1>1 DEF RowsOf

LEMMA RowsAreNext ==
  ASSUME BatchInv', NEW b \in Batch, NEW s \in content'[b]
  PROVE  RowsOf(s)' = copies'[b]
<1>1. \A k \in Batch : s \in content'[k] => k = b
  BY DEF BatchInv
<1>2. QED
  BY <1>1 DEF RowsOf

LEMMA NoRows ==
  ASSUME NEW s
  PROVE  /\ (\A b \in Batch : s \notin content[b]) => RowsOf(s) = 0
         /\ (\A b \in Batch : s \notin content'[b]) => RowsOf(s)' = 0
BY DEF RowsOf

(* A step that stores nothing leaves the rows of every sample alone, also    *)
(* when it makes a batch: the new batch has no rows yet.                     *)
LEMMA RowsKept ==
  ASSUME TypeOK, BatchInv, BatchInv', copies' = copies, UNCHANGED content \/ NewBatch
  PROVE  \A s \in Sample : RowsOf(s)' = RowsOf(s)
<1>1. CASE UNCHANGED content
  BY <1>1 DEF RowsOf
<1>2. CASE NewBatch
  <2>1. /\ nextBatch \in Batch /\ content' = [content EXCEPT ![nextBatch] = mem]
        /\ content[nextBatch] = {} /\ copies[nextBatch] = 0
    <3>1. nextBatch \in Batch /\ content' = [content EXCEPT ![nextBatch] = mem]
      BY <1>2, DeliveryAssumption DEF TypeOK, NewBatch, BatchType, Batch
    <3>2. content[nextBatch] = {}
      <4>1. nextBatch >= nextBatch
        BY DeliveryAssumption DEF TypeOK, BatchType
      <4>2. QED
        BY <3>1, <4>1 DEF BatchInv
    <3>3. copies[nextBatch] \in Nat /\ ~(copies[nextBatch] > 0)
      BY <3>1, <3>2 DEF TypeOK, CentralType, BatchInv
    <3>4. QED
      BY <3>1, <3>2, <3>3
  <2>2. ASSUME NEW s \in Sample PROVE RowsOf(s)' = RowsOf(s)
    <3>1. CASE s \in mem
      <4>1. RowsOf(s)' = 0
        BY <2>1, <3>1, RowsAreNext DEF TypeOK, BatchType
      <4>2. RowsOf(s) = 0
        BY <3>1, NoRows DEF BatchInv
      <4>3. QED
        BY <4>1, <4>2
    <3>2. CASE s \notin mem
      <4>1. \A b \in Batch : s \in content'[b] <=> s \in content[b]
        BY <2>1, <3>2 DEF TypeOK, BatchType
      <4>2. QED
        BY <4>1, RowsAre, RowsAreNext, NoRows
    <3>3. QED
      BY <3>1, <3>2
  <2>3. QED
    BY <2>2
<1>3. QED
  BY <1>1, <1>2

(* A step that takes nothing in and stores nothing is a Settle: what the     *)
(* probe lets go of is stored once or written off in this step.              *)
LEMMA LetsGo ==
  ASSUME taken' = taken, \A s \in Sample : RowsOf(s)' = RowsOf(s),
         Held \subseteq Sample, Held' \subseteq Held,
         \A s \in Sample : givenUp[s] # "none" => givenUp'[s] # "none",
         \A s \in Sample : givenUp[s] = "none" /\ givenUp'[s] # "none" => s \in Held \ Held',
         \A s \in Held \ Held' : RowsOf(s) = 1 \/ givenUp'[s] # "none"
  PROVE  Contract!Next
<1> DEFINE off == {s \in Sample : givenUp[s] # "none"}
           offNext == {s \in Sample : givenUp'[s] # "none"}
<1>1. PICK S : S = Held \ Held'
  OBVIOUS
<1>2. PICK W : W = {s \in S : givenUp[s] = "none" /\ givenUp'[s] # "none"}
  OBVIOUS
<1>3. S \in SUBSET Sample /\ W \in SUBSET S
  BY <1>1, <1>2
<1>4. /\ S \subseteq Held /\ Held' = Held \ S /\ offNext = off \cup W
      /\ \A s \in S \ W : RowsOf(s) = 1 \/ s \in off
  BY <1>1, <1>2
<1>5. [s \in Sample |-> RowsOf(s)]' = [s \in Sample |-> RowsOf(s)]
  OBVIOUS
<1>6. \A s \in S \ W : [x \in Sample |-> RowsOf(x)][s] = 1 \/ s \in off
  BY <1>3, <1>4
<1>7. Contract!Settle(S, W)
  BY <1>3, <1>4, <1>5, <1>6 DEF Contract!Settle
<1>8. QED
  BY <1>3, <1>7 DEF Contract!Next

LEMMA HeldIsSample ==
  ASSUME TypeOK
  PROVE  Held \subseteq Sample
BY InHeld DEF TypeOK, AgentType, BatchType

LEMMA ContractStep ==
  ASSUME TypeOK, DedupInv, CustodyInv, DedupInv', WindowCoversReplays, [Next]_vars
  PROVE  Contract!Next \/ UNCHANGED Contract!vars
<1>t. /\ AgentType /\ BatchType /\ RequestType /\ CentralType /\ taken \subseteq Sample
      /\ givenUp \in [Sample -> Cause] /\ mem \subseteq Sample /\ Held \subseteq Sample
  BY HeldIsSample DEF TypeOK, AgentType, BatchType
<1>i. OwnerInv /\ OrderInv /\ AckInv /\ BatchInv /\ OnceInv /\ ClockInv /\ BatchInv'
  BY DEF CustodyInv, DedupInv
\* Steps that touch nothing the contract speaks of.
<1>1. ASSUME UNCHANGED <<mem, liveBatch, buffer, content, copies, taken, givenUp>>,
             Flushing' = Flushing
      PROVE  Contract!Next
  <2>1. \A s : s \in Held' <=> s \in Held
    BY <1>1, InHeld, InHeldNext
  <2>2. QED
    BY <1>t, <1>i, <1>1, <2>1, RowsKept, LetsGo
<1>2. CASE \/ Sigterm \/ FatalExit \/ PipesDrained \/ Restart \/ DrainPost
           \/ DeleteIngestLogOlderThan \/ RevokeToken \/ Tick \/ UNCHANGED vars
           \/ \E c \in Conn : \/ DrainTimeout(c) \/ LiveTimeout(c)
                              \/ HandleIngestSamples(c) \/ IngestFails(c)
  BY <1>1, <1>2 DEF Sigterm, FatalExit, PipesDrained, Restart, DrainPost,
       DeleteIngestLogOlderThan, RevokeToken, Tick, DrainTimeout, LiveTimeout,
       HandleIngestSamples, IngestFails, vars, agentVars, batchVars, centralVars, Flushing
<1>3. ASSUME NEW x \in Sample, WriteSample(x) PROVE Contract!Next
  <2>1. /\ UNCHANGED <<liveBatch, buffer, content, copies, givenUp, liveSt>>
        /\ x \notin taken /\ taken' = taken \cup {x} /\ mem' = mem \cup {x}
    BY <1>3 DEF WriteSample, centralVars
  <2>2. Held' = Held \cup {x}
    BY <2>1, InHeld, InHeldNext DEF Flushing
  <2>3. \A s \in Sample : RowsOf(s)' = RowsOf(s)
    BY <1>i, <2>1, RowsKept
  <2>4. Contract!Accept(x)
    BY <2>1, <2>2, <2>3 DEF Contract!Accept
  <2>5. QED
    BY <2>4 DEF Contract!Next
\* flushOnce makes a batch of what was queued: it changes hands inside the probe.
<1>4. ASSUME NewBatch, Flushing', UNCHANGED <<buffer, copies, givenUp>>, ~Flushing
      PROVE  Contract!Next
  <2>1. /\ nextBatch \in Batch /\ content' = [content EXCEPT ![nextBatch] = mem]
        /\ liveBatch' = nextBatch /\ mem' = {} /\ content[nextBatch] = {} /\ taken' = taken
    BY <1>t, <1>i, <1>4 DEF NewBatch, BatchType, BatchInv, Batch
  <2>2. \A b \in buffer : content'[b] = content[b]
    BY <1>t, <1>i, <2>1 DEF AgentType, BatchType, BatchInv
  <2>3. \A s : s \in Held <=> s \in Held'
    BY <1>t, <1>4, <2>1, <2>2, InHeld, InHeldNext DEF BatchType
  <2>4. QED
    BY <1>t, <1>i, <1>4, <2>1, <2>3, RowsKept, LetsGo
<1>5. CASE FlushOnce
  BY <1>4, <1>5 DEF FlushOnce, Flushing, centralVars
<1>6. CASE FinalFlush
  <2>1. CASE mem = {}
    BY <1>1, <1>6, <2>1 DEF FinalFlush, batchVars, centralVars, Flushing
  <2>2. CASE mem # {}
    BY <1>4, <1>6, <2>2 DEF FinalFlush, Flushing, centralVars
  <2>3. QED
    BY <2>1, <2>2
\* flushOnce lets go of its batch, which nothing else holds.
<1>7. ASSUME Flushing, ~Flushing', UNCHANGED <<mem, buffer, content, copies, taken>>,
             \/ copies[liveBatch] > 0 /\ UNCHANGED givenUp
             \/ \E why \in Cause \ {"none"} : GiveUp(content[liveBatch], why)
      PROVE  Contract!Next
  <2>1. liveBatch \in Batch /\ liveBatch \notin buffer
    BY <1>t, <1>i, <1>7 DEF AgentType, OrderInv, Batch
  <2>2. \A s \in content[liveBatch] : /\ s \notin mem /\ RowsOf(s) = copies[liveBatch]
                                      /\ \A b \in buffer : s \notin content[b]
    BY <1>t, <1>i, <2>1, RowsAre DEF BatchInv, AgentType
  <2>3. /\ Held' \subseteq Held /\ \A s : s \in Held \ Held' <=> s \in content[liveBatch]
    BY <1>7, <2>2, InHeld, InHeldNext
  <2>4. copies[liveBatch] > 0 => copies[liveBatch] = 1
    BY <1>i, <2>1 DEF OnceInv
  <2>5. \A s \in Sample : RowsOf(s)' = RowsOf(s)
    BY <1>i, <1>7, RowsKept
  <2>6. CASE copies[liveBatch] > 0 /\ UNCHANGED givenUp
    BY <1>t, <1>7, <2>2, <2>3, <2>4, <2>5, <2>6, LetsGo
  <2>7. CASE \E why \in Cause \ {"none"} : GiveUp(content[liveBatch], why)
    <3>1. \A s \in Sample : /\ givenUp[s] # "none" => givenUp'[s] # "none"
                            /\ s \in content[liveBatch] => givenUp'[s] # "none"
                            /\ s \notin content[liveBatch] => givenUp'[s] = givenUp[s]
      BY <1>t, <2>7, GiveUpWhy
    <3>2. QED
      BY <1>t, <1>7, <2>3, <2>5, <3>1, LetsGo
  <2>8. QED
    BY <1>7, <2>6, <2>7
<1>8. ASSUME NEW c \in Conn, LiveAnswer(c) PROVE Contract!Next
  <2>1. /\ Flushing /\ reqBatch[c] = liveBatch /\ reqSt[c] \in Answer
        /\ UNCHANGED <<mem, buffer, content, copies, taken>>
        /\ liveSt' = AfterAnswer(reqSt[c])
        /\ liveBatch' = IF reqSt[c] = "retry" THEN liveBatch ELSE 0
    BY <1>t, <1>i, <1>8 DEF LiveAnswer, Flushing, AgentType, OwnerInv, batchVars, centralVars
  <2>2. CASE reqSt[c] = "retry"
    <3>1. Flushing' /\ liveBatch' = liveBatch /\ UNCHANGED givenUp
      BY <1>8, <2>1, <2>2 DEF LiveAnswer, AfterAnswer, Flushing
    <3>2. QED
      BY <1>1, <2>1, <3>1
  <2>3. CASE reqSt[c] # "retry"
    <3>1. ~Flushing'
      BY <2>1, <2>3 DEF AfterAnswer, AfterFlush, Flushing
    <3>2. \/ copies[liveBatch] > 0 /\ UNCHANGED givenUp
          \/ \E why \in Cause \ {"none"} : GiveUp(content[liveBatch], why)
      BY <1>i, <1>8, <2>1, <2>3 DEF LiveAnswer, AckInv, Cause
    <3>3. QED
      BY <1>7, <2>1, <3>1, <3>2
  <2>4. QED
    BY <2>2, <2>3
<1>9. CASE BufferAddFails
  <2>1. /\ Flushing /\ UNCHANGED <<mem, buffer, content, copies, taken>> /\ ~Flushing'
        /\ \E why \in Cause \ {"none"} : GiveUp(content[liveBatch], why)
    BY <1>9 DEF BufferAddFails, Flushing, AfterFlush, batchVars, centralVars, Cause
  <2>2. QED
    BY <1>7, <2>1
<1>10. CASE BufferAdd
  <2> DEFINE F == Fitting(buffer \cup {liveBatch})
  <2>1. /\ Flushing /\ ~Flushing' /\ buffer' = F /\ GiveUp(Payload(buffer \ F), "evicted")
        /\ liveBatch \in F /\ F \subseteq buffer \cup {liveBatch} /\ liveBatch \in Batch
        /\ liveBatch \notin buffer
        /\ UNCHANGED <<mem, content, copies, taken>>
    BY <1>t, <1>i, <1>10, NewestFits
       DEF BufferAdd, Flushing, AfterFlush, Fitting, batchVars, centralVars, AgentType, OrderInv, Batch
  <2> HIDE DEF F
  <2>2. \A s \in Sample : /\ givenUp[s] # "none" => givenUp'[s] # "none"
                          /\ s \in Payload(buffer \ F) => givenUp'[s] # "none"
                          /\ s \notin Payload(buffer \ F) => givenUp'[s] = givenUp[s]
    BY <1>t, <2>1, GiveUpWhy DEF Cause
  <2>3. \A s : s \in Payload(buffer \ F) <=> \E b \in buffer \ F : s \in content[b]
    BY DEF Payload
  <2>4. \A s \in Payload(buffer \ F) : s \in Held /\ s \notin Held'
    <3>1. ASSUME NEW s, NEW b \in buffer \ F, s \in content[b]
          PROVE  s \in Held /\ s \notin Held'
      <4>1. \A k \in Batch : s \in content[k] => k = b
        BY <1>t, <1>i, <3>1 DEF BatchInv, AgentType
      <4>2. s \notin mem
        BY <1>t, <1>i, <3>1 DEF BatchInv, AgentType
      <4>3. QED
        BY <1>t, <2>1, <3>1, <4>1, <4>2, InHeld, InHeldNext DEF AgentType
    <3>2. QED
      BY <2>3, <3>1
  <2>5. \A s : s \in Held => s \in Held' \/ s \in Payload(buffer \ F)
    BY <2>1, <2>3, InHeld, InHeldNext
  <2>6. Held' \subseteq Held
    BY <2>1, InHeld, InHeldNext
  <2>7. \A s \in Sample : RowsOf(s)' = RowsOf(s)
    BY <1>i, <2>1, RowsKept
  <2>8. QED
    BY <1>t, <2>1, <2>2, <2>4, <2>5, <2>6, <2>7, LetsGo
\* drainBuffer deletes the row of its batch, unless Buffer.Add has evicted it.
<1>11. ASSUME NEW c \in Conn, DrainAnswer(c) PROVE Contract!Next
  <2>1. /\ reqBatch[c] = drainBatch /\ drainBatch \in Batch
        /\ UNCHANGED <<mem, liveSt, liveBatch, content, copies, taken>>
        /\ Flushing => drainBatch # liveBatch
    BY <1>t, <1>i, <1>11 DEF DrainAnswer, OwnerInv, OrderInv, batchVars, centralVars, AgentType, Batch
  <2>2. CASE UNCHANGED <<buffer, givenUp>>
    BY <1>1, <2>1, <2>2 DEF Flushing
  <2>3. CASE drainBatch \in buffer /\ buffer' = buffer \ {drainBatch}
    <3>1. \A s \in content[drainBatch] :
            /\ s \in Held /\ s \notin mem /\ RowsOf(s) = copies[drainBatch]
            /\ \A b \in Batch : s \in content[b] => b = drainBatch
      BY <1>t, <1>i, <2>1, <2>3, RowsAre, InHeld DEF BatchInv
    <3>2. \A s \in content[drainBatch] : s \notin Held'
      BY <1>t, <2>1, <2>3, <3>1, InHeldNext DEF Flushing, AgentType
    <3>3. Held' \subseteq Held /\ \A s \in Held \ Held' : s \in content[drainBatch]
      BY <2>1, <2>3, InHeld, InHeldNext DEF Flushing
    <3>4. \A s \in Sample : RowsOf(s)' = RowsOf(s)
      BY <1>i, <2>1, RowsKept
    <3>5. CASE reqSt[c] = "ok" /\ UNCHANGED givenUp
      <4>1. copies[drainBatch] = 1
        BY <1>t, <1>i, <2>1, <3>5 DEF AckInv, OnceInv, CentralType
      <4>2. QED
        BY <1>t, <2>1, <3>1, <3>3, <3>4, <3>5, <4>1, LetsGo
    <3>6. CASE GiveUp(content[drainBatch], "rejected")
      <4>1. \A s \in Sample : /\ givenUp[s] # "none" => givenUp'[s] # "none"
                              /\ s \in content[drainBatch] => givenUp'[s] # "none"
                              /\ s \notin content[drainBatch] => givenUp'[s] = givenUp[s]
        BY <1>t, <3>6, GiveUpWhy DEF Cause
      <4>2. QED
        BY <1>t, <2>1, <3>1, <3>2, <3>3, <3>4, <4>1, LetsGo
    <3>7. QED
      BY <1>11, <2>2, <2>3, <3>5, <3>6 DEF DrainAnswer
  <2>4. CASE drainBatch \notin buffer
    <3>1. UNCHANGED <<buffer, givenUp>>
      BY <1>11, <2>4 DEF DrainAnswer
    <3>2. QED
      BY <2>2, <3>1
  <2>5. QED
    BY <1>11, <2>2, <2>3, <2>4 DEF DrainAnswer
\* The death of the process: what was in memory only is given up.
<1>12. CASE Exit \/ Crash
  <2>1. /\ UNCHANGED <<buffer, content, copies, taken>> /\ mem' = {} /\ ~Flushing'
        /\ \E why \in Cause \ {"none"} : GiveUp(mem \cup InFlush, why)
    <3>1. Exit => InFlush = {} /\ GiveUp(mem, "late")
      BY DEF Exit, InFlush, Flushing
    <3>2. QED
      BY <1>12, <3>1 DEF Exit, Crash, Die, batchVars, centralVars, Cause, Flushing
  <2>2. \A s \in Sample : /\ givenUp[s] # "none" => givenUp'[s] # "none"
                          /\ s \in mem \cup InFlush => givenUp'[s] # "none"
                          /\ s \notin mem \cup InFlush => givenUp'[s] = givenUp[s]
    BY <1>t, <2>1, GiveUpWhy
  <2>3. \A s : s \in Held' <=> \E b \in buffer : s \in content[b]
    BY <2>1, InHeldNext
  <2>4. \A s \in mem \cup InFlush : s \in Held /\ s \notin Held'
    <3>1. ASSUME NEW s \in mem \cup InFlush, NEW b \in buffer, s \in content[b] PROVE FALSE
      <4>1. s \notin mem
        BY <1>t, <1>i, <3>1 DEF BatchInv, AgentType
      <4>2. Flushing /\ s \in content[liveBatch]
        BY <3>1, <4>1 DEF InFlush
      <4>3. b # liveBatch /\ b \in Batch /\ liveBatch \in Batch
        BY <1>t, <1>i, <3>1, <4>2 DEF OrderInv, AgentType, Batch
      <4>4. QED
        BY <1>i, <3>1, <4>2, <4>3 DEF BatchInv
    <3>2. mem \cup InFlush \subseteq Held
      BY DEF Held
    <3>3. QED
      BY <2>3, <3>1, <3>2
  <2>5. \A s \in Held \ Held' : s \in mem \cup InFlush
    BY <2>3, InHeld DEF InFlush
  <2>6. Held' \subseteq Held
    BY <2>3, InHeld
  <2>7. \A s \in Sample : RowsOf(s)' = RowsOf(s)
    BY <1>i, <2>1, RowsKept
  <2>8. QED
    BY <1>t, <2>1, <2>2, <2>4, <2>5, <2>6, <2>7, LetsGo
<1>13. ASSUME NEW c \in Conn, IngestBatch(c) PROVE Contract!Next
  <2> DEFINE b == reqBatch[c]
  <2>1. /\ UNCHANGED <<mem, liveSt, liveBatch, buffer, content, taken, givenUp>>
        /\ reqSt[c] = "handling" /\ b \in Batch
    BY <1>t, <1>13 DEF IngestBatch, agentVars, batchVars, RequestType
  <2>2. CASE b \in logged
    BY <1>1, <1>13, <2>1, <2>2 DEF IngestBatch, Flushing
  <2>3. CASE b \notin logged
    <3>1. copies' = [copies EXCEPT ![b] = @ + 1]
      BY <1>13, <2>3 DEF IngestBatch
    <3>2. copies[b] = 0
      <4>1. PICK x \in content[b] : TRUE
        BY <1>i, <2>1 DEF BatchInv
      <4>2. ts[x] >= reqAt[c] - SkewBound /\ now <= reqAt[c] + MaxStall
        BY <1>i, <2>1, <4>1 DEF ClockInv
      <4>3. ts[x] \in Int /\ reqAt[c] \in Int /\ now \in Int /\ SkewBound \in Int /\ MaxStall \in Int
        BY <1>t, <2>1, <4>1 DEF BatchType, RequestType, CentralType
      <4>4. ~(ts[x] < now - SkewBound - MaxStall)
        BY <4>2, <4>3
      <4>5. QED
        BY <1>i, <2>1, <2>3, <4>1, <4>4 DEF OnceInv
    <3>3. /\ content[b] # {} /\ content[b] \subseteq taken /\ content[b] \in SUBSET Sample
          /\ \A s \in content[b] : RowsOf(s) = 0
      BY <1>t, <1>i, <2>1, <3>2, RowsAre DEF BatchInv, BatchType
    <3>4. \A s \in Sample : RowsOf(s)' = IF s \in content[b] THEN 1 ELSE RowsOf(s)
      <4>1. ASSUME NEW s \in content[b] PROVE RowsOf(s)' = 1
        BY <1>t, <1>i, <2>1, <3>1, <3>2, <4>1, RowsAreNext DEF CentralType
      <4>2. ASSUME NEW s \in Sample, s \notin content[b] PROVE RowsOf(s)' = RowsOf(s)
        <5>1. CASE \E k \in Batch : s \in content[k]
          <6>1. PICK k \in Batch : s \in content[k]
            BY <5>1
          <6>2. k # b /\ copies'[k] = copies[k]
            BY <1>t, <2>1, <3>1, <4>2, <6>1 DEF CentralType
          <6>3. QED
            BY <1>i, <2>1, <6>1, <6>2, RowsAre, RowsAreNext
        <5>2. CASE ~\E k \in Batch : s \in content[k]
          BY <2>1, <5>2, NoRows
        <5>3. QED
          BY <5>1, <5>2
      <4>3. QED
        BY <4>1, <4>2
    <3>5. Held' = Held
      BY <2>1, InHeld, InHeldNext DEF Flushing
    <3>6. Contract!Store(content[b])
      <4> HIDE DEF b
      <4>1. \A s \in content[b] : [x \in Sample |-> RowsOf(x)][s] = 0
        BY <3>3
      <4>2. [s \in Sample |-> RowsOf(s)]' =
              [s \in Sample |-> IF s \in content[b] THEN 1 ELSE [x \in Sample |-> RowsOf(x)][s]]
        BY <3>4
      <4>3. QED
        BY <2>1, <3>3, <3>5, <4>1, <4>2 DEF Contract!Store
    <3>7. \E S \in SUBSET Sample : Contract!Store(S)
      BY <3>3, <3>6
    <3>8. QED
      BY <3>7 DEF Contract!Next
  <2>4. QED
    BY <2>2, <2>3
<1>14. QED
  BY <1>2, <1>3, <1>5, <1>6, <1>8, <1>9, <1>10, <1>11, <1>12, <1>13 DEF Next, Agent, Central

(* When the dedup window covers replays, the probe, its buffer, the network  *)
(* and the central together implement the contract of the sink: what a       *)
(* pipeline hands over stays in custody until it is stored, exactly once and *)
(* with its whole batch, or is written off; and nothing else ever happens to *)
(* it.                                                                       *)
THEOREM KeepsTheContract == WindowCoversReplays => (Spec => ImplementsContract)
<1> SUFFICES ASSUME WindowCoversReplays PROVE Spec => ImplementsContract
  OBVIOUS
<1>1. Init => Contract!Init
  <2> SUFFICES ASSUME Init PROVE Contract!Init
    OBVIOUS
  <2>1. Held = {}
    BY InHeld DEF Init, Flushing
  <2>2. \A s \in Sample : RowsOf(s) = 0
    BY NoRows DEF Init
  <2>3. {s \in Sample : givenUp[s] # "none"} = {}
    BY DEF Init
  <2>4. QED
    BY <2>1, <2>2, <2>3 DEF Init, Contract!Init
<1>2. /\ TypeOK /\ DedupInv /\ CustodyInv /\ DedupInv' /\ [Next]_vars
      => [Contract!Next]_(Contract!vars)
  BY ContractStep
<1>3. QED
  BY <1>1, <1>2, TypeCorrect, DedupInvariant, CustodyInvariant, PTL
     DEF Spec, ImplementsContract, Contract!Spec
=============================================================================
