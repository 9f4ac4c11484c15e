--------------------------- MODULE DeliveryProofs ---------------------------
(* Theorems about Delivery, for every value of its constants.                *)
EXTENDS Delivery, WellFoundedInduction, TLAPS

USE DeliveryAssumption

-----------------------------------------------------------------------------
(* Types of the pieces actions are made of.                                  *)

(* Writing an exchange keeps the request table well typed.                   *)
LEMMA SetRequestType ==
  ASSUME RequestType, NEW c \in Conn, NEW st \in ReqState, NEW o \in Owner,
         NEW b \in 0..MaxBatch, NEW t \in Nat, st # "free" => b \in Batch,
         SetRequest(c, st, o, b, t)
  PROVE  RequestType'
BY DEF RequestType, SetRequest

LEMMA CloseType ==
  ASSUME RequestType, NEW c \in Conn, Close(c)
  PROVE  RequestType'
BY SetRequestType DEF Close, ReqState, Owner

LEMMA ReplyType ==
  ASSUME RequestType, NEW c \in Conn, NEW a \in Answer, reqSt[c] # "free", Reply(c, a)
  PROVE  RequestType'
<1>1. /\ a \in ReqState /\ reqOwner[c] \in Owner
      /\ reqBatch[c] \in 0..MaxBatch /\ reqBatch[c] \in Batch
  BY DEF RequestType, ReqState
<1>2. QED
  BY <1>1, SetRequestType, CloseType DEF Reply

LEMMA AbandonType ==
  ASSUME RequestType, NEW c \in Conn, Abandon(c)
  PROVE  RequestType'
<1>1. /\ reqSt[c] \in ReqState /\ "nobody" \in Owner /\ reqBatch[c] \in 0..MaxBatch
      /\ reqAt[c] \in Nat /\ (reqSt[c] # "free" => reqBatch[c] \in Batch)
  BY DEF RequestType, Owner
<1>2. QED
  BY <1>1, SetRequestType, CloseType DEF Abandon

LEMMA PostType ==
  ASSUME RequestType, NEW o \in Owner, NEW b \in Batch, Post(o, b)
  PROVE  RequestType'
BY SetRequestType DEF Post, ReqState, Batch

(* A written-off sample gets one of the named causes.                        *)
LEMMA GiveUpType ==
  ASSUME givenUp \in [Sample -> Cause], NEW S, NEW why \in Cause, GiveUp(S, why)
  PROVE  givenUp' \in [Sample -> Cause]
BY DEF GiveUp

LEMMA NewBatchType ==
  ASSUME AgentType, BatchType, NewBatch
  PROVE  BatchType' /\ nextBatch \in Batch /\ liveBatch' = nextBatch /\ mem' = {}
<1>1. nextBatch \in Batch /\ nextBatch + 1 \in 1..(MaxBatch + 1)
  BY DEF NewBatch, BatchType, Batch
<1>2. content' \in [Batch -> SUBSET Sample]
  BY <1>1 DEF NewBatch, BatchType, AgentType
<1>3. QED
  BY <1>1, <1>2 DEF NewBatch, BatchType

(* A nonempty set of naturals has a least element.                           *)
LEMMA LeastExists ==
  ASSUME NEW T, T \subseteq Nat, T # {}
  PROVE  \E x \in T : \A y \in T : x <= y
<1> DEFINE R == {p \in Nat \X Nat : p[1] < p[2]}
<1>1. IsWellFoundedOn(R, Nat)
  BY NatLessThanWellFounded DEF OpToRel
<1>2. \E x \in T : \A y \in T : ~ (<<y, x>> \in R)
  <2> HIDE DEF R
  <2> QED BY <1>1, WFMin
<1>3. \A x, y \in Nat : <<y, x>> \in R <=> y < x
  OBVIOUS
<1> HIDE DEF R
<1>4. PICK x \in T : \A y \in T : ~ (<<y, x>> \in R)
  BY <1>2
<1>5. ASSUME NEW y \in T PROVE x <= y
  <2>1. x \in Nat /\ y \in Nat /\ ~(y < x)
    BY <1>3, <1>4
  <2>2. QED
    BY <2>1
<1>6. QED
  BY <1>5

(* Buffer.Oldest returns a row, and none is older.                           *)
LEMMA OldestIs ==
  ASSUME buffer \subseteq Batch, Pending
  PROVE  Oldest \in buffer /\ \A k \in buffer : Oldest <= k
<1>1. buffer \subseteq Nat
  BY DEF Batch
<1>2. \E b \in buffer : \A k \in buffer : b <= k
  BY <1>1, LeastExists DEF Pending
<1>3. QED
  BY <1>2 DEF Oldest

(* Every variable of the probe and of the central keeps its type, whatever   *)
(* the interleaving of loops, requests, crashes and restarts.                *)
LEMMA TypeStep == TypeOK /\ [Next]_vars => TypeOK'
<1> SUFFICES ASSUME TypeOK, [Next]_vars PROVE TypeOK'
  OBVIOUS
<1>t. AgentType /\ BatchType /\ RequestType /\ CentralType /\ givenUp \in [Sample -> Cause]
  BY DEF TypeOK
<1>r. UNCHANGED reqVars => RequestType'
  BY <1>t DEF RequestType, reqVars
<1>b. UNCHANGED batchVars => BatchType'
  BY <1>t DEF BatchType, batchVars
<1>c. UNCHANGED centralVars => CentralType'
  BY <1>t DEF CentralType, centralVars
<1>a. UNCHANGED agentVars => AgentType'
  BY <1>t DEF AgentType, agentVars, Flushing
<1>l. liveBatch \in 0..MaxBatch /\ AfterFlush \in LiveState /\ 0 \in 0..MaxBatch
  BY <1>t DEF AgentType, AfterFlush, LiveState
<1>1. ASSUME NEW s \in Sample, WriteSample(s) PROVE TypeOK'
  <2>1. ts' \in [Sample -> Int]
    BY <1>t, <1>1 DEF WriteSample, BatchType, CentralType
  <2>2. AgentType' /\ BatchType'
    BY <1>t, <1>1, <2>1 DEF WriteSample, AgentType, BatchType, Flushing
  <2>3. QED
    BY <1>t, <1>1, <1>r, <1>c, <2>2 DEF WriteSample, TypeOK
<1>2. CASE FlushOnce
  <2>1. NewBatch /\ liveSt' \in {"posting", "spilling"} /\ liveCtx' = "run"
    BY <1>2 DEF FlushOnce
  <2>2. BatchType' /\ nextBatch \in Batch /\ liveBatch' = nextBatch /\ mem' = {}
    BY <1>t, <2>1, NewBatchType
  <2>3. AgentType'
    BY <1>t, <1>2, <2>1, <2>2 DEF FlushOnce, AgentType, LiveState, Ctx, Flushing, Batch
  <2>4. RequestType'
    BY <1>t, <1>r, <1>2, <2>2, PostType DEF FlushOnce, Owner
  <2>5. QED
    BY <1>t, <1>c, <1>2, <2>2, <2>3, <2>4 DEF FlushOnce, TypeOK
<1>3. CASE FinalFlush
  <2>1. CASE mem = {}
    <3>1. AgentType'
      BY <1>t, <1>3, <2>1 DEF FinalFlush, AgentType, LiveState, Flushing
    <3>2. QED
      BY <1>t, <1>r, <1>b, <1>c, <1>3, <2>1, <3>1 DEF FinalFlush, TypeOK
  <2>2. CASE mem # {}
    <3>1. BatchType' /\ nextBatch \in Batch /\ liveBatch' = nextBatch /\ mem' = {}
      BY <1>t, <1>3, <2>2, NewBatchType DEF FinalFlush
    <3>2. AgentType'
      BY <1>t, <1>3, <2>2, <3>1 DEF FinalFlush, AgentType, LiveState, Ctx, Flushing, Batch
    <3>3. RequestType'
      BY <1>t, <1>3, <2>2, <3>1, PostType DEF FinalFlush, Owner
    <3>4. QED
      BY <1>t, <1>c, <1>3, <2>2, <3>1, <3>2, <3>3 DEF FinalFlush, TypeOK
  <2>3. QED
    BY <2>1, <2>2
<1>4. CASE BufferAdd
  <2>1. liveBatch \in Batch /\ "evicted" \in Cause
    BY <1>t, <1>4 DEF BufferAdd, AgentType, Flushing, Cause
  <2>2. buffer' \subseteq Batch
    BY <1>t, <1>4, <2>1 DEF BufferAdd, AgentType, Fitting
  <2>3. AgentType'
    BY <1>t, <1>l, <1>4, <2>2 DEF BufferAdd, AgentType, Flushing, AfterFlush
  <2>4. QED
    BY <1>t, <1>r, <1>b, <1>c, <1>4, <2>1, <2>3, GiveUpType DEF BufferAdd, TypeOK
<1>5. CASE BufferAddFails
  <2>1. AgentType'
    BY <1>t, <1>l, <1>5 DEF BufferAddFails, AgentType, Flushing, AfterFlush
  <2>2. (IF CtxDead THEN "deadctx" ELSE "disk") \in Cause
    BY DEF Cause
  <2>3. QED
    BY <1>t, <1>r, <1>b, <1>c, <1>5, <2>1, <2>2, GiveUpType DEF BufferAddFails, TypeOK
<1>6. CASE DrainPost
  <2>1. Oldest \in Batch
    BY <1>t, <1>6, OldestIs DEF DrainPost, AgentType
  <2>2. AgentType'
    BY <1>t, <1>6, <2>1 DEF DrainPost, AgentType, Flushing, Batch
  <2>3. RequestType'
    BY <1>t, <1>6, <2>1, PostType DEF DrainPost, Owner
  <2>4. QED
    BY <1>t, <1>b, <1>c, <1>6, <2>2, <2>3 DEF DrainPost, TypeOK
<1>7. ASSUME NEW c \in Conn, LiveAnswer(c) PROVE TypeOK'
  <2>1. AfterAnswer(reqSt[c]) \in LiveState
    BY <1>l DEF AfterAnswer, LiveState
  <2>2. reqSt[c] # "retry" => AfterAnswer(reqSt[c]) \in {"idle", "done"}
    BY DEF AfterAnswer, AfterFlush
  <2>3. AgentType'
    BY <1>t, <1>l, <1>7, <2>1, <2>2 DEF LiveAnswer, AgentType, Flushing
  <2>4. givenUp' \in [Sample -> Cause]
    BY <1>t, <1>7, GiveUpType DEF LiveAnswer, Cause
  <2>5. QED
    BY <1>t, <1>b, <1>c, <1>7, <2>3, <2>4, CloseType DEF LiveAnswer, TypeOK
<1>8. ASSUME NEW c \in Conn, LiveTimeout(c) PROVE TypeOK'
  <2>1. AgentType'
    BY <1>t, <1>8 DEF LiveTimeout, AgentType, Flushing, LiveState, Ctx
  <2>2. QED
    BY <1>t, <1>b, <1>c, <1>8, <2>1, AbandonType DEF LiveTimeout, TypeOK
<1>9. ASSUME NEW c \in Conn, DrainAnswer(c) PROVE TypeOK'
  <2>1. AgentType'
    BY <1>t, <1>l, <1>9 DEF DrainAnswer, AgentType, Flushing
  <2>2. givenUp' \in [Sample -> Cause]
    BY <1>t, <1>9, GiveUpType DEF DrainAnswer, Cause
  <2>3. QED
    BY <1>t, <1>b, <1>c, <1>9, <2>1, <2>2, CloseType DEF DrainAnswer, TypeOK
<1>10. ASSUME NEW c \in Conn, DrainTimeout(c) PROVE TypeOK'
  <2>1. AgentType'
    BY <1>t, <1>l, <1>10 DEF DrainTimeout, AgentType, Flushing
  <2>2. QED
    BY <1>t, <1>b, <1>c, <1>10, <2>1, AbandonType DEF DrainTimeout, TypeOK
<1>11. CASE Sigterm \/ FatalExit \/ PipesDrained \/ Restart
  <2>1. AgentType'
    BY <1>t, <1>11 DEF Sigterm, FatalExit, PipesDrained, Restart, AgentType, Flushing, Phase
  <2>2. UNCHANGED reqVars /\ UNCHANGED batchVars /\ UNCHANGED centralVars /\ UNCHANGED givenUp
    BY <1>11 DEF Sigterm, FatalExit, PipesDrained, Restart
  <2>3. QED
    BY <1>t, <1>r, <1>b, <1>c, <2>1, <2>2 DEF TypeOK
<1>12. CASE Exit \/ Crash
  <2>1. Die
    BY <1>12 DEF Exit, Crash
  <2>2. AgentType'
    BY <1>t, <1>l, <2>1 DEF Die, AgentType, Flushing, Phase, LiveState, Ctx
  <2>3. RequestType'
    BY <1>t, <1>l, <2>1 DEF Die, RequestType, Owner, ReqState
  <2>4. givenUp' \in [Sample -> Cause]
    BY <1>t, <1>12, GiveUpType DEF Exit, Crash, Cause
  <2>5. QED
    BY <1>t, <1>b, <1>c, <2>1, <2>2, <2>3, <2>4 DEF Die, TypeOK
<1>13. ASSUME NEW c \in Conn, HandleIngestSamples(c) PROVE TypeOK'
  <2>1. /\ "unauthorized" \in Answer /\ "drop" \in Answer /\ "handling" \in ReqState
        /\ reqOwner[c] \in Owner /\ reqBatch[c] \in 0..MaxBatch /\ now \in Nat
        /\ reqSt[c] # "free" /\ reqBatch[c] \in Batch
    BY <1>t, <1>13 DEF HandleIngestSamples, Answer, ReqState, RequestType, CentralType
  <2>2. RequestType'
    BY <1>t, <1>13, <2>1, ReplyType, SetRequestType DEF HandleIngestSamples
  <2>3. QED
    BY <1>t, <1>a, <1>b, <1>c, <1>13, <2>2 DEF HandleIngestSamples, TypeOK
<1>14. ASSUME NEW c \in Conn, IngestBatch(c) PROVE TypeOK'
  <2>1. reqAt[c] \in Nat /\ "ok" \in Answer /\ reqSt[c] # "free" /\ reqBatch[c] \in Batch
    BY <1>t, <1>14 DEF IngestBatch, RequestType, Answer
  <2>2. CentralType'
    BY <1>t, <1>14, <2>1 DEF IngestBatch, CentralType
  <2>3. QED
    BY <1>t, <1>a, <1>b, <1>14, <2>1, <2>2, ReplyType DEF IngestBatch, TypeOK
<1>15. ASSUME NEW c \in Conn, IngestFails(c) PROVE TypeOK'
  <2>1. "retry" \in Answer /\ reqSt[c] # "free"
    BY <1>15 DEF IngestFails, Answer
  <2>2. QED
    BY <1>t, <1>a, <1>b, <1>c, <1>15, <2>1, ReplyType DEF IngestFails, TypeOK
<1>16. CASE DeleteIngestLogOlderThan \/ RevokeToken \/ Tick
  <2>1. CentralType'
    <3>1. CASE DeleteIngestLogOlderThan
      BY <1>t, <3>1 DEF DeleteIngestLogOlderThan, CentralType
    <3>2. CASE RevokeToken
      BY <1>t, <3>2 DEF RevokeToken, CentralType
    <3>3. CASE Tick
      BY <1>t, <3>3 DEF Tick, CentralType
    <3>4. QED
      BY <1>16, <3>1, <3>2, <3>3
  <2>2. UNCHANGED agentVars /\ UNCHANGED reqVars /\ UNCHANGED batchVars /\ UNCHANGED givenUp
    BY <1>16 DEF DeleteIngestLogOlderThan, RevokeToken, Tick
  <2>3. QED
    BY <1>t, <1>r, <1>b, <1>a, <2>1, <2>2 DEF TypeOK
<1>17. CASE UNCHANGED vars
  BY <1>t, <1>a, <1>r, <1>b, <1>c, <1>17 DEF vars, TypeOK
<1>18. QED
  BY <1>1, <1>2, <1>3, <1>4, <1>5, <1>6, <1>7, <1>8, <1>9, <1>10, <1>11, <1>12,
     <1>13, <1>14, <1>15, <1>16, <1>17 DEF Next, Agent, Central

THEOREM TypeCorrect == Spec => []TypeOK
<1>1. Init => TypeOK
  <2> SUFFICES ASSUME Init PROVE TypeOK
    OBVIOUS
  <2>1. AgentType
    <3>1. pipes \in BOOLEAN /\ fatal \in BOOLEAN /\ ~Flushing
      BY DEF Init, Flushing
    <3>2. 0 \in 0..MaxBatch
      OBVIOUS
    <3>3. QED
      BY <3>1, <3>2 DEF Init, AgentType, Phase, LiveState, Ctx
  <2>2. BatchType
    BY DEF Init, BatchType, Batch
  <2>3. RequestType
    BY DEF Init, RequestType, Owner, ReqState
  <2>4. CentralType
    BY DEF Init, CentralType
  <2>5. QED
    BY <2>1, <2>2, <2>3, <2>4 DEF Init, TypeOK, Cause
<1>2. QED
  BY <1>1, TypeStep, PTL DEF Spec

-----------------------------------------------------------------------------
(* ExactlyOnce.  Most steps are quiet: they start no request, read no clock, *)
(* make no batch and write nothing at the central.                           *)

RequestsShrink ==
  \A c \in Conn :
    /\ reqSt'[c] # "free" => reqSt[c] # "free" /\ reqBatch'[c] = reqBatch[c]
    /\ reqSt'[c] = "handling" => reqSt[c] = "handling" /\ reqAt'[c] = reqAt[c]

Quiet ==
  /\ RequestsShrink
  /\ UNCHANGED <<nextBatch, content, taken, ts, now, logged, loggedAt, copies>>
  /\ mem' \subseteq mem
  /\ buffer' \subseteq buffer \cup (IF Flushing THEN {liveBatch} ELSE {})
  /\ Flushing' => Flushing /\ liveBatch' = liveBatch

LEMMA CloseShrinks ==
  ASSUME RequestType, NEW c \in Conn, Close(c)
  PROVE  RequestsShrink
BY DEF RequestType, Close, SetRequest, RequestsShrink

LEMMA AbandonShrinks ==
  ASSUME RequestType, NEW c \in Conn, Abandon(c)
  PROVE  RequestsShrink
BY CloseShrinks DEF RequestType, Abandon, SetRequest, RequestsShrink

LEMMA ReplyShrinks ==
  ASSUME RequestType, NEW c \in Conn, NEW a \in Answer, reqSt[c] # "free", Reply(c, a)
  PROVE  RequestsShrink
BY CloseShrinks DEF RequestType, Reply, SetRequest, RequestsShrink, Answer

(* A quiet step keeps the dedup invariant.                                   *)
LEMMA QuietStep ==
  ASSUME TypeOK, DedupInv, Quiet
  PROVE  DedupInv'
<1>1. BatchInv'
  <2>1. \A b \in logged' \cup buffer' : content'[b] # {}
    BY DEF DedupInv, BatchInv, Quiet
  <2>2. \A c \in Conn : reqSt'[c] # "free" => content'[reqBatch'[c]] # {}
    BY DEF DedupInv, BatchInv, Quiet, RequestsShrink
  <2>3. \A b \in Batch : content'[b] \subseteq taken' /\ content'[b] \cap mem' = {}
    BY DEF DedupInv, BatchInv, Quiet
  <2>4. Flushing' => content'[liveBatch'] # {}
    BY DEF DedupInv, BatchInv, Quiet
  <2>5. QED
    BY <2>1, <2>2, <2>3, <2>4 DEF DedupInv, BatchInv, Quiet
<1>2. ClockInv'
  BY DEF DedupInv, ClockInv, LedBy, Quiet, RequestsShrink, TypeOK, RequestType
<1>3. WindowCoversReplays => OnceInv'
  BY DEF DedupInv, OnceInv, Quiet
<1>4. QED
  BY <1>1, <1>2, <1>3 DEF DedupInv, WindowCoversReplays

(* Starting a request for a batch that has content keeps BatchInv's part on  *)
(* requests and opens no handler.                                            *)
LEMMA PostAdds ==
  ASSUME RequestType, NEW o, NEW b, Post(o, b)
  PROVE  \A c \in Conn :
           /\ reqSt'[c] # "free" => \/ reqBatch'[c] = b
                                    \/ reqSt[c] # "free" /\ reqBatch'[c] = reqBatch[c]
           /\ reqSt'[c] = "handling" => /\ reqSt[c] = "handling" /\ reqAt'[c] = reqAt[c]
                                        /\ reqBatch'[c] = reqBatch[c]
BY DEF RequestType, Post, SetRequest

(* flushOnce makes a batch of the queued samples and posts or spills it.     *)
LEMMA NewBatchStep ==
  ASSUME TypeOK, DedupInv, NewBatch, UNCHANGED <<centralVars, buffer>>,
         UNCHANGED reqVars \/ Post("live", nextBatch)
  PROVE  DedupInv'
<1> DEFINE n == nextBatch
<1>t. BatchType /\ RequestType /\ CentralType /\ AgentType
  BY DEF TypeOK
<1>1. /\ n \in Batch /\ content[n] = {} /\ mem # {} /\ liveBatch' = n /\ mem' = {}
      /\ content' = [content EXCEPT ![n] = mem] /\ nextBatch' = n + 1
      /\ taken' = taken /\ ts' = ts
  BY <1>t DEF NewBatch, BatchType, Batch, DedupInv, BatchInv
<1>2. /\ content'[n] = mem
      /\ \A b \in Batch : b # n => content'[b] = content[b]
      /\ \A b \in Batch : content[b] # {} => b # n /\ content'[b] = content[b]
  BY <1>t, <1>1 DEF BatchType
<1>3. /\ now' = now /\ logged' = logged /\ loggedAt' = loggedAt /\ copies' = copies
      /\ buffer' = buffer
  BY DEF centralVars
<1>4. \A c \in Conn :
        /\ reqSt'[c] # "free" => \/ reqBatch'[c] = n
                                 \/ reqSt[c] # "free" /\ reqBatch'[c] = reqBatch[c]
        /\ reqSt'[c] = "handling" => /\ reqSt[c] = "handling" /\ reqAt'[c] = reqAt[c]
                                     /\ reqBatch'[c] = reqBatch[c]
  BY <1>t, PostAdds DEF reqVars
<1> HIDE DEF n
<1>5. BatchInv'
  <2>1. \A b \in Batch : b >= nextBatch' => content'[b] = {}
    BY <1>t, <1>1, <1>2 DEF DedupInv, BatchInv, n, BatchType, Batch
  <2>2. /\ mem' \subseteq taken'
        /\ \A b \in Batch : content'[b] \subseteq taken' /\ content'[b] \cap mem' = {}
    BY <1>1, <1>2 DEF DedupInv, BatchInv
  <2>3. \A b, k \in Batch : b # k => content'[b] \cap content'[k] = {}
    BY <1>1, <1>2 DEF DedupInv, BatchInv
  <2>4. \A b \in logged' \cup buffer' : content'[b] # {}
    BY <1>t, <1>1, <1>2, <1>3 DEF DedupInv, BatchInv, CentralType, AgentType
  <2>5. \A b \in Batch : copies'[b] > 0 => content'[b] # {}
    BY <1>1, <1>2, <1>3 DEF DedupInv, BatchInv
  <2>6. \A c \in Conn : reqSt'[c] # "free" => content'[reqBatch'[c]] # {}
    BY <1>t, <1>1, <1>2, <1>4 DEF DedupInv, BatchInv, RequestType
  <2>7. content'[liveBatch'] # {}
    BY <1>1, <1>2
  <2>8. QED
    BY <2>1, <2>2, <2>3, <2>4, <2>5, <2>6, <2>7 DEF BatchInv
<1>6. ClockInv'
  <2>1. \A s \in taken' : LedBy(s, now)'
    BY <1>1, <1>3 DEF DedupInv, ClockInv, LedBy
  <2>2. ASSUME NEW c \in Conn, reqSt'[c] = "handling"
        PROVE  /\ reqAt'[c] <= now' /\ now' <= reqAt'[c] + MaxStall
               /\ \A s \in content'[reqBatch'[c]] :
                    LedBy(s, reqAt[c])' /\ ts'[s] >= reqAt'[c] - SkewBound
    <3>1. /\ reqSt[c] = "handling" /\ reqAt'[c] = reqAt[c] /\ reqBatch'[c] = reqBatch[c]
          /\ reqBatch[c] \in Batch /\ content[reqBatch[c]] # {}
      BY <1>t, <1>4, <2>2 DEF RequestType, DedupInv, BatchInv
    <3>2. content'[reqBatch'[c]] = content[reqBatch[c]]
      BY <1>2, <3>1
    <3>3. QED
      BY <1>1, <1>3, <3>1, <3>2 DEF DedupInv, ClockInv, LedBy
  <2>3. \A b \in logged' : \A s \in content'[b] : LedBy(s, loggedAt[b])'
    BY <1>t, <1>1, <1>2, <1>3 DEF DedupInv, BatchInv, ClockInv, LedBy, CentralType
  <2>4. QED
    BY <2>1, <2>2, <2>3 DEF ClockInv
<1>7. ASSUME WindowCoversReplays PROVE OnceInv'
  BY <1>t, <1>1, <1>2, <1>3, <1>7 DEF DedupInv, BatchInv, OnceInv, CentralType
<1>8. QED
  BY <1>5, <1>6, <1>7 DEF DedupInv, WindowCoversReplays

(* Store.IngestBatch: a batch that is not in ingest_log has no rows, because *)
(* a handler that passed the skew check holds one young enough to be there.  *)
LEMMA IngestStep ==
  ASSUME TypeOK, DedupInv, NEW c \in Conn, IngestBatch(c)
  PROVE  DedupInv'
<1> DEFINE k == reqBatch[c]
<1>t. BatchType /\ RequestType /\ CentralType /\ reqSt[c] = "handling" /\ k \in Batch
  BY DEF TypeOK, IngestBatch, RequestType
<1>s. RequestsShrink
  BY <1>t, ReplyShrinks DEF IngestBatch, Answer
<1>u. /\ UNCHANGED agentVars /\ UNCHANGED batchVars /\ UNCHANGED <<now, token>>
      /\ UNCHANGED <<mem, liveSt, liveBatch, buffer>> /\ Flushing' = Flushing
      /\ UNCHANGED <<nextBatch, content, taken, ts>>
  BY DEF IngestBatch, agentVars, batchVars, Flushing
<1>1. CASE k \in logged
  <2>1. Quiet
    BY <1>s, <1>u, <1>1 DEF IngestBatch, Quiet
  <2>2. QED
    BY <2>1, QuietStep
<1>2. CASE k \notin logged
  <2>1. /\ logged' = logged \cup {k} /\ loggedAt' = [loggedAt EXCEPT ![k] = reqAt[c]]
        /\ copies' = [copies EXCEPT ![k] = @ + 1]
    BY <1>2 DEF IngestBatch
  <2>2. content[k] # {}
    BY <1>t DEF DedupInv, BatchInv
  <2>3. BatchInv'
    <3>1. \A b \in Batch : copies'[b] > 0 => content'[b] # {}
      BY <1>t, <1>u, <2>1, <2>2 DEF DedupInv, BatchInv, CentralType
    <3>2. \A x \in Conn : reqSt'[x] # "free" => content'[reqBatch'[x]] # {}
      BY <1>s, <1>u DEF DedupInv, BatchInv, RequestsShrink
    <3>3. \A b \in logged' \cup buffer' : content'[b] # {}
      BY <1>u, <2>1, <2>2 DEF DedupInv, BatchInv
    <3>4. QED
      BY <1>u, <3>1, <3>2, <3>3 DEF DedupInv, BatchInv
  <2>4. ClockInv'
    <3>1. ASSUME NEW b \in logged', NEW s \in content'[b] PROVE LedBy(s, loggedAt[b])'
      <4>1. CASE b = k
        <5>1. loggedAt'[b] = reqAt[c] /\ LedBy(s, reqAt[c])
          BY <1>t, <1>u, <2>1, <3>1, <4>1 DEF CentralType, DedupInv, ClockInv
        <5>2. QED
          BY <1>u, <5>1 DEF LedBy
      <4>2. CASE b # k
        <5>1. loggedAt'[b] = loggedAt[b] /\ LedBy(s, loggedAt[b])
          BY <1>t, <1>u, <2>1, <3>1, <4>2 DEF CentralType, DedupInv, ClockInv
        <5>2. QED
          BY <1>u, <5>1 DEF LedBy
      <4>3. QED
        BY <4>1, <4>2
    <3>2. QED
      BY <1>t, <1>s, <1>u, <3>1 DEF DedupInv, ClockInv, LedBy, RequestsShrink
  <2>5. ASSUME WindowCoversReplays PROVE OnceInv'
    <3>1. PICK s \in content[k] : TRUE
      BY <2>2
    <3>2. /\ s \in Sample /\ ts[s] \in Int /\ reqAt[c] \in Nat /\ now \in Int
          /\ ts[s] >= reqAt[c] - SkewBound /\ now <= reqAt[c] + MaxStall
      BY <1>t, <3>1 DEF DedupInv, ClockInv, BatchType, RequestType, CentralType
    <3>3. ~(ts[s] < now - SkewBound - MaxStall)
      BY <3>2
    <3>4. copies[k] = 0
      BY <1>t, <1>2, <2>5, <3>1, <3>3 DEF DedupInv, OnceInv
    <3>5. QED
      BY <1>t, <1>u, <2>1, <2>5, <3>4 DEF DedupInv, OnceInv, CentralType
  <2>6. QED
    BY <2>3, <2>4, <2>5 DEF DedupInv, WindowCoversReplays
<1>3. QED
  BY <1>1, <1>2

(* The retention worker: a row it deletes is older than every handler's      *)
(* acceptance, provided the window covers replays.                           *)
LEMMA PruneStep ==
  ASSUME TypeOK, DedupInv, DeleteIngestLogOlderThan
  PROVE  DedupInv'
<1>t. BatchType /\ CentralType
  BY DEF TypeOK
<1>u. /\ UNCHANGED <<mem, liveSt, liveBatch, buffer, nextBatch, content, taken, ts>>
      /\ UNCHANGED <<reqSt, reqBatch, reqAt, now, loggedAt, copies>>
      /\ Flushing' = Flushing /\ logged' \subseteq logged
      /\ \A b \in logged \ logged' : loggedAt[b] < now - DedupWindow
  BY DEF DeleteIngestLogOlderThan, agentVars, batchVars, reqVars, Flushing, Expired
<1>1. BatchInv'
  BY <1>u DEF DedupInv, BatchInv
<1>2. ClockInv'
  BY <1>u DEF DedupInv, ClockInv, LedBy
<1>3. ASSUME WindowCoversReplays PROVE OnceInv'
  <2>1. ASSUME NEW b \in logged \ logged', NEW s \in content[b]
        PROVE  ts[s] < now - SkewBound - MaxStall
    <3>1. PICK d \in AgentSkew : ts[s] <= loggedAt[b] + d
      BY <2>1 DEF DedupInv, ClockInv, LedBy
    <3>2. /\ d \in Int /\ DedupWindow >= SkewBound + MaxStall + d
          /\ loggedAt[b] \in Nat /\ loggedAt[b] < now - DedupWindow /\ now \in Int
          /\ ts[s] \in Int
      BY <1>t, <1>u, <1>3, <2>1 DEF WindowCoversReplays, CentralType, BatchType
    <3>3. QED
      BY <3>1, <3>2
  <2>2. QED
    BY <1>t, <1>u, <1>3, <2>1 DEF DedupInv, OnceInv, CentralType
<1>4. QED
  BY <1>1, <1>2, <1>3 DEF DedupInv, WindowCoversReplays

(* The clock: a handler's time is at most MaxStall old.                      *)
LEMMA TickStep ==
  ASSUME TypeOK, DedupInv, Tick
  PROVE  DedupInv'
<1>t. BatchType /\ CentralType /\ RequestType /\ now \in Int
  BY DEF TypeOK, CentralType
<1>u. /\ UNCHANGED <<mem, liveSt, liveBatch, buffer, nextBatch, content, taken, ts>>
      /\ UNCHANGED <<reqSt, reqBatch, reqAt, logged, loggedAt, copies>>
      /\ Flushing' = Flushing /\ now' = now + 1
      /\ \A c \in Conn : reqSt[c] = "handling" => now < reqAt[c] + MaxStall
  BY DEF Tick, agentVars, batchVars, reqVars, Flushing
<1>1. BatchInv'
  BY <1>u DEF DedupInv, BatchInv
<1>2. ClockInv'
  <2>1. ASSUME NEW s \in taken PROVE LedBy(s, now)'
    <3>1. PICK d \in AgentSkew : ts[s] <= now + d
      BY DEF DedupInv, ClockInv, LedBy
    <3>2. d \in Int /\ ts[s] \in Int
      BY <1>t DEF BatchType
    <3>3. ts'[s] <= now' + d
      BY <1>t, <1>u, <3>1, <3>2
    <3>4. QED
      BY <3>3 DEF LedBy
  <2>2. ASSUME NEW c \in Conn, reqSt[c] = "handling"
        PROVE  reqAt[c] <= now' /\ now' <= reqAt[c] + MaxStall
    BY <1>t, <1>u, <2>2 DEF DedupInv, ClockInv, RequestType
  <2>3. QED
    BY <1>u, <2>1, <2>2 DEF DedupInv, ClockInv, LedBy
<1>3. ASSUME WindowCoversReplays PROVE OnceInv'
  <2>1. ASSUME NEW b \in Batch, NEW s \in content[b], ts[s] < now - SkewBound - MaxStall
        PROVE  ts[s] < now' - SkewBound - MaxStall
    <3>1. ts[s] \in Int
      BY <1>t DEF BatchType
    <3>2. QED
      BY <1>t, <1>u, <2>1, <3>1
  <2>2. QED
    BY <1>t, <1>u, <1>3, <2>1 DEF DedupInv, OnceInv
<1>4. QED
  BY <1>1, <1>2, <1>3 DEF DedupInv, WindowCoversReplays

(* A new measurement is in no batch yet.                                     *)
LEMMA WriteStep ==
  ASSUME TypeOK, DedupInv, NEW x \in Sample, WriteSample(x)
  PROVE  DedupInv'
<1>t. AgentType /\ BatchType /\ CentralType /\ RequestType
  BY DEF TypeOK
<1>u. /\ UNCHANGED <<liveSt, liveBatch, buffer, nextBatch, content>>
      /\ UNCHANGED <<reqSt, reqBatch, reqAt, now, logged, loggedAt, copies>>
      /\ Flushing' = Flushing /\ x \notin taken
      /\ taken' = taken \cup {x} /\ mem' = mem \cup {x}
  BY DEF WriteSample, centralVars, reqVars, Flushing
<1>1. BatchInv'
  <2>1. \A b \in Batch : content'[b] \subseteq taken' /\ content'[b] \cap mem' = {}
    BY <1>u DEF DedupInv, BatchInv
  <2>2. QED
    BY <1>u, <2>1 DEF DedupInv, BatchInv
<1>2. PICK d \in AgentSkew : ts' = [ts EXCEPT ![x] = now + d]
  BY DEF WriteSample
<1>3. \A s \in taken : ts'[s] = ts[s]
  BY <1>t, <1>u, <1>2 DEF BatchType
<1>4. \A b \in Batch : \A s \in content[b] : ts'[s] = ts[s]
  BY <1>3 DEF DedupInv, BatchInv
<1>5. ClockInv'
  <2>1. ASSUME NEW s \in taken' PROVE LedBy(s, now)'
    <3>1. CASE s = x
      <4>1. ts'[s] = now + d /\ now + d \in Int
        BY <1>t, <1>2, <3>1 DEF BatchType, CentralType
      <4>2. ts'[s] <= now' + d
        BY <1>u, <4>1
      <4>3. QED
        BY <4>2 DEF LedBy
    <3>2. CASE s # x
      BY <1>u, <1>3, <2>1, <3>2 DEF DedupInv, ClockInv, LedBy
    <3>3. QED
      BY <3>1, <3>2
  <2>2. ASSUME NEW c \in Conn, reqSt'[c] = "handling"
        PROVE  /\ reqAt'[c] <= now' /\ now' <= reqAt'[c] + MaxStall
               /\ \A s \in content'[reqBatch'[c]] :
                    LedBy(s, reqAt[c])' /\ ts'[s] >= reqAt'[c] - SkewBound
    <3>1. reqSt[c] = "handling" /\ reqBatch[c] \in Batch
      BY <1>t, <1>u, <2>2 DEF RequestType
    <3>2. QED
      BY <1>u, <1>4, <3>1 DEF DedupInv, ClockInv, LedBy
  <2>3. \A b \in logged' : \A s \in content'[b] : LedBy(s, loggedAt[b])'
    BY <1>t, <1>u, <1>4 DEF DedupInv, ClockInv, LedBy, CentralType
  <2>4. QED
    BY <2>1, <2>2, <2>3 DEF ClockInv
<1>6. ASSUME WindowCoversReplays PROVE OnceInv'
  BY <1>u, <1>4, <1>6 DEF DedupInv, OnceInv
<1>7. QED
  BY <1>1, <1>5, <1>6 DEF DedupInv, WindowCoversReplays

(* The drain loop posts a batch that is in the buffer.                       *)
LEMMA DrainPostStep ==
  ASSUME TypeOK, DedupInv, DrainPost
  PROVE  DedupInv'
<1>t. AgentType /\ RequestType /\ CentralType
  BY DEF TypeOK
<1>u. /\ UNCHANGED <<mem, liveSt, liveBatch, buffer, nextBatch, content, taken, ts>>
      /\ UNCHANGED <<now, logged, loggedAt, copies>> /\ Flushing' = Flushing
      /\ Post("drain", Oldest) /\ Oldest \in buffer
  BY <1>t, OldestIs DEF DrainPost, batchVars, centralVars, Flushing, AgentType
<1>p. \A c \in Conn :
        /\ reqSt'[c] # "free" => \/ reqBatch'[c] = Oldest
                                 \/ reqSt[c] # "free" /\ reqBatch'[c] = reqBatch[c]
        /\ reqSt'[c] = "handling" => /\ reqSt[c] = "handling" /\ reqAt'[c] = reqAt[c]
                                     /\ reqBatch'[c] = reqBatch[c]
  BY <1>t, <1>u, PostAdds
<1>1. BatchInv'
  <2>1. \A c \in Conn : reqSt'[c] # "free" => content'[reqBatch'[c]] # {}
    BY <1>u, <1>p DEF DedupInv, BatchInv
  <2>2. QED
    BY <1>u, <2>1 DEF DedupInv, BatchInv
<1>2. ClockInv'
  BY <1>u, <1>p DEF DedupInv, ClockInv, LedBy
<1>3. WindowCoversReplays => OnceInv'
  BY <1>u DEF DedupInv, OnceInv
<1>4. QED
  BY <1>1, <1>2, <1>3 DEF DedupInv, WindowCoversReplays

(* A handler that accepts a batch has just read the clock it was checked     *)
(* against; one that refuses it is quiet.                                    *)
LEMMA HandleStep ==
  ASSUME TypeOK, DedupInv, NEW c \in Conn, HandleIngestSamples(c)
  PROVE  DedupInv'
<1>t. AgentType /\ RequestType /\ CentralType /\ BatchType /\ reqSt[c] # "free"
  BY DEF TypeOK, HandleIngestSamples
<1>u. /\ UNCHANGED <<mem, liveSt, liveBatch, buffer, nextBatch, content, taken, ts>>
      /\ UNCHANGED <<now, logged, loggedAt, copies>> /\ Flushing' = Flushing
  BY DEF HandleIngestSamples, agentVars, batchVars, centralVars, Flushing
<1>1. CASE Reply(c, "unauthorized") \/ Reply(c, "drop")
  <2>1. RequestsShrink
    BY <1>t, <1>1, ReplyShrinks DEF Answer
  <2>2. QED
    BY <1>u, <2>1, QuietStep DEF Quiet
<1>2. CASE /\ ClockSkewOK(reqBatch[c], now)
           /\ SetRequest(c, "handling", reqOwner[c], reqBatch[c], now)
  <2>1. /\ reqBatch[c] \in Batch /\ reqBatch' = reqBatch /\ reqAt'[c] = now
        /\ \A x \in Conn : x # c => reqSt'[x] = reqSt[x] /\ reqAt'[x] = reqAt[x]
    BY <1>t, <1>2 DEF SetRequest, RequestType
  <2>2. BatchInv'
    BY <1>t, <1>u, <2>1 DEF DedupInv, BatchInv
  <2>3. ASSUME NEW s \in content[reqBatch[c]]
        PROVE  LedBy(s, now) /\ ts[s] >= now - SkewBound
    <3>1. s \in taken /\ ts[s] \in Int /\ now \in Int
      BY <1>t, <2>1 DEF DedupInv, BatchInv, BatchType, CentralType
    <3>2. ts[s] - now \in -SkewBound..SkewBound
      BY <1>2 DEF ClockSkewOK
    <3>3. ts[s] >= now - SkewBound
      BY <3>1, <3>2
    <3>4. QED
      BY <3>1, <3>3 DEF DedupInv, ClockInv
  <2>4. ClockInv'
    <3>1. ASSUME NEW x \in Conn, reqSt'[x] = "handling"
          PROVE  /\ reqAt'[x] <= now' /\ now' <= reqAt'[x] + MaxStall
                 /\ \A s \in content'[reqBatch'[x]] :
                      LedBy(s, reqAt[x])' /\ ts'[s] >= reqAt'[x] - SkewBound
      <4>1. CASE x = c
        <5>1. now \in Int /\ now <= now + MaxStall /\ now <= now
          BY <1>t DEF CentralType
        <5>2. QED
          BY <1>u, <2>1, <2>3, <4>1, <5>1 DEF LedBy
      <4>2. CASE x # c
        BY <1>u, <2>1, <3>1, <4>2 DEF DedupInv, ClockInv, LedBy
      <4>3. QED
        BY <4>1, <4>2
    <3>2. QED
      BY <1>u, <3>1 DEF DedupInv, ClockInv, LedBy
  <2>5. WindowCoversReplays => OnceInv'
    BY <1>u DEF DedupInv, OnceInv
  <2>6. QED
    BY <2>2, <2>4, <2>5 DEF DedupInv, WindowCoversReplays
<1>3. QED
  BY <1>1, <1>2 DEF HandleIngestSamples

(* The probe's own steps other than new samples, batches and posts.          *)
LEMMA AgentQuiet ==
  ASSUME TypeOK,
         \/ BufferAdd \/ BufferAddFails \/ Sigterm \/ FatalExit \/ PipesDrained
         \/ Exit \/ Crash \/ Restart \/ RevokeToken \/ UNCHANGED vars
         \/ FinalFlush /\ mem = {}
         \/ \E c \in Conn : \/ LiveAnswer(c) \/ LiveTimeout(c) \/ DrainAnswer(c)
                            \/ DrainTimeout(c) \/ IngestFails(c)
  PROVE  Quiet
<1>t. RequestType
  BY DEF TypeOK
<1> USE DEF Quiet, batchVars, centralVars, Flushing
<1>0. UNCHANGED reqVars => RequestsShrink
  BY DEF reqVars, RequestsShrink
<1>1. CASE BufferAdd
  BY <1>0, <1>1 DEF BufferAdd, AfterFlush, Fitting
<1>2. CASE BufferAddFails
  BY <1>0, <1>2 DEF BufferAddFails, AfterFlush
<1>3. CASE Sigterm \/ FatalExit \/ PipesDrained \/ Restart \/ RevokeToken
  BY <1>0, <1>3 DEF Sigterm, FatalExit, PipesDrained, Restart, RevokeToken, agentVars
<1>4. CASE Exit \/ Crash
  <2>1. Die
    BY <1>4 DEF Exit, Crash
  <2>2. RequestsShrink
    BY <1>t, <2>1 DEF Die, RequestsShrink, RequestType, Answer
  <2>3. QED
    BY <2>1, <2>2 DEF Die
<1>5. CASE UNCHANGED vars
  BY <1>0, <1>5 DEF vars, agentVars
<1>6. CASE FinalFlush /\ mem = {}
  BY <1>0, <1>6 DEF FinalFlush
<1>7. ASSUME NEW c \in Conn, LiveAnswer(c) PROVE Quiet
  BY <1>t, <1>7, CloseShrinks DEF LiveAnswer, AfterAnswer, AfterFlush
<1>8. ASSUME NEW c \in Conn, LiveTimeout(c) PROVE Quiet
  BY <1>t, <1>8, AbandonShrinks DEF LiveTimeout
<1>9. ASSUME NEW c \in Conn, DrainAnswer(c) PROVE Quiet
  BY <1>t, <1>9, CloseShrinks DEF DrainAnswer
<1>10. ASSUME NEW c \in Conn, DrainTimeout(c) PROVE Quiet
  BY <1>t, <1>10, AbandonShrinks DEF DrainTimeout
<1>11. ASSUME NEW c \in Conn, IngestFails(c) PROVE Quiet
  BY <1>t, <1>11, ReplyShrinks DEF IngestFails, Answer, agentVars
<1>12. QED
  BY <1>1, <1>2, <1>3, <1>4, <1>5, <1>6, <1>7, <1>8, <1>9, <1>10, <1>11

LEMMA DedupStep == TypeOK /\ DedupInv /\ [Next]_vars => DedupInv'
<1> SUFFICES ASSUME TypeOK, DedupInv, [Next]_vars PROVE DedupInv'
  OBVIOUS
<1>1. CASE FlushOnce
  BY <1>1, NewBatchStep DEF FlushOnce
<1>2. CASE FinalFlush /\ mem # {}
  BY <1>2, NewBatchStep DEF FinalFlush
<1>3. QED
  BY <1>1, <1>2, WriteStep, DrainPostStep, HandleStep, IngestStep, PruneStep, TickStep,
     AgentQuiet, QuietStep DEF Next, Agent, Central

LEMMA DedupInvariant == Spec => []DedupInv
<1>1. Init => DedupInv
  <2> SUFFICES ASSUME Init PROVE DedupInv
    OBVIOUS
  <2>1. BatchInv
    BY DEF Init, BatchInv, Flushing
  <2>2. ClockInv
    BY DEF Init, ClockInv
  <2>3. OnceInv
    BY DEF Init, OnceInv
  <2>4. QED
    BY <2>1, <2>2, <2>3 DEF DedupInv
<1>2. QED
  BY <1>1, DedupStep, TypeCorrect, PTL DEF Spec

(* Whatever is lost, delayed, retried, replayed after a restart or pruned:   *)
(* when the dedup window covers the skew bound, the probe's clock lead and   *)
(* the handler's stall, no batch is inserted twice.                          *)
THEOREM NoDoubleInsert == Spec => []ExactlyOnce
<1>1. TypeOK /\ DedupInv => ExactlyOnce
  BY DEF DedupInv, OnceInv, ExactlyOnce, TypeOK, CentralType
<1>2. QED
  BY <1>1, TypeCorrect, DedupInvariant, PTL
=============================================================================
