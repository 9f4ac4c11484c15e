--------------------------- MODULE ServicesProofs ---------------------------
(* Theorems about the services of the process, each by itself, for every     *)
(* value of their constants.                                                 *)
EXTENDS MCServices, Sequences, SequenceTheorems, FiniteSetTheorems, TLAPS

USE ServicesAssumption

-----------------------------------------------------------------------------
(* Gate.                                                                     *)

(* An instance has its own copy of the operators it extends.                 *)
LEMMA GateCard ==
  /\ \A S : Store!IsFiniteSet(S) <=> IsFiniteSet(S)
  /\ \A S : Store!Cardinality(S) = Cardinality(S)
<1>1. \A S : Store!IsFiniteSet(S) <=> IsFiniteSet(S)
  BY DEF Store!IsFiniteSet, IsFiniteSet
<1>2. \A S : Store!Cardinality(S) = Cardinality(S)
  BY DEF Store!Cardinality, Cardinality
<1>3. QED
  BY <1>1, <1>2

(* What a step of one request does to the connections in use and to the      *)
(* statements that run.                                                      *)
LEMMA GateGo ==
  ASSUME Store!QuietInv, NEW r \in Request,
         NEW from \in {"away", "door", "inside", "running", "open"},
         NEW to \in {"away", "door", "inside", "running", "open"}, Store!Go(r, from, to)
  PROVE  /\ rpc' \in [Request -> {"away", "door", "inside", "running", "open"}]
         /\ Store!Holding' = IF to \in {"running", "open"} THEN Store!Holding \cup {r}
                             ELSE Store!Holding \ {r}
         /\ r \in Store!Holding <=> from \in {"running", "open"}
         /\ r \in Store!Inside <=> from \in {"inside", "running"}
         /\ to \notin {"inside", "running"} => Store!Inside' \subseteq Store!Inside
BY DEF Store!Go, Store!Holding, Store!Inside, Store!QuietInv

LEMMA GateRequest ==
  ASSUME Store!QuietInv, NEW r \in Request, Store!RequestStep(r)
  PROVE  Store!QuietInv'
<1>k. UNCHANGED <<cpc, held, attempts>> /\ Store!Locked' = Store!Locked
  BY DEF Store!RequestStep, Store!Arrive, Store!Enter, Store!Connect, Store!Finish, Store!GiveUp,
         Store!Open, Store!CloseRows, Store!KeepCheckpoint, Store!Locked
<1>i. /\ held \in Nat /\ IsFiniteSet(Store!Holding) /\ Cardinality(Store!Holding) \in Nat
      /\ Cardinality(Store!Holding) + held <= MaxConns
      /\ (Store!Locked => Store!Inside = {}) /\ (cpc = "truncate" => held = MaxConns)
  BY GateCard, FS_CardinalityType DEF Store!QuietInv
\* A step that takes no connection and starts no statement behind the gate.
<1>1. ASSUME NEW from \in {"away", "door", "inside", "running", "open"},
             NEW to \in {"away", "door", "inside", "running", "open"},
             Store!Go(r, from, to),
             from \in {"running", "open"} \/ to \notin {"running", "open"},
             Store!Locked => to \notin {"inside", "running"}
      PROVE  Store!QuietInv'
  <2>1. /\ rpc' \in [Request -> {"away", "door", "inside", "running", "open"}]
        /\ Store!Holding' \subseteq Store!Holding
        /\ Store!Locked => Store!Inside' \subseteq Store!Inside
    BY <1>1, GateGo
  <2>2. /\ IsFiniteSet(Store!Holding') /\ Cardinality(Store!Holding') \in Nat
        /\ Cardinality(Store!Holding') <= Cardinality(Store!Holding)
    BY <1>i, <2>1, FS_Subset, FS_CardinalityType
  <2>3. Cardinality(Store!Holding') + held <= MaxConns
    BY <1>i, <2>2
  <2>4. QED
    BY <1>i, <1>k, <2>1, <2>2, <2>3, GateCard DEF Store!QuietInv
<1>2. CASE Store!Connect(r)
  <2>1. /\ rpc' \in [Request -> {"away", "door", "inside", "running", "open"}]
        /\ Store!Holding' = Store!Holding \cup {r} /\ r \notin Store!Holding
        /\ ~Store!Locked
    BY <1>2, <1>i, GateGo DEF Store!Connect
  <2>2. /\ IsFiniteSet(Store!Holding')
        /\ Cardinality(Store!Holding') = Cardinality(Store!Holding) + 1
    BY <1>i, <2>1, FS_AddElement
  <2>3. Cardinality(Store!Holding') + held <= MaxConns
    BY <1>2, <1>i, <2>2, GateCard DEF Store!Connect, Store!ConnFree
  <2>4. QED
    BY <1>i, <1>k, <2>1, <2>2, <2>3, GateCard DEF Store!QuietInv
<1>3. CASE Store!Arrive(r) \/ Store!Finish(r) \/ Store!GiveUp(r) \/ Store!Open(r) \/ Store!CloseRows(r)
  BY <1>1, <1>3 DEF Store!Arrive, Store!Finish, Store!GiveUp, Store!Open, Store!CloseRows
<1>4. CASE Store!Enter(r)
  BY <1>1, <1>4 DEF Store!Enter, Store!MayEnter
<1>5. QED
  BY <1>2, <1>3, <1>4 DEF Store!RequestStep

LEMMA GateCheckpoint ==
  ASSUME Store!QuietInv, Store!CheckpointStep
  PROVE  Store!QuietInv'
<1>k. rpc' = rpc /\ Store!Holding' = Store!Holding /\ Store!Inside' = Store!Inside
  BY DEF Store!CheckpointStep, Store!Checkpoint, Store!Lock, Store!AcquireConn, Store!StartTruncate,
         Store!AcquireTimesOut, Store!TruncateBusy, Store!Truncate, Store!Retry, Store!Failed,
         Store!Return, Store!Holding, Store!Inside
<1>i. /\ held \in Nat /\ IsFiniteSet(Store!Holding) /\ Cardinality(Store!Holding) \in Nat
      /\ Cardinality(Store!Holding) + held <= MaxConns
      /\ (Store!Locked => Store!Inside = {}) /\ (cpc = "truncate" => held = MaxConns)
  BY GateCard, FS_CardinalityType DEF Store!QuietInv
<1>1. CASE Store!Checkpoint \/ Store!Retry \/ Store!Lock \/ Store!StartTruncate
  BY <1>1, <1>k, <1>i, GateCard DEF Store!QuietInv, Store!Checkpoint, Store!Retry, Store!Lock,
     Store!StartTruncate, Store!Locked, Store!Quiesced
<1>2. CASE Store!AcquireConn
  BY <1>2, <1>k, <1>i, GateCard DEF Store!QuietInv, Store!AcquireConn, Store!ConnFree, Store!Locked
<1>3. ASSUME NEW to \in {"rest", "pause"}, Store!Return(to) PROVE Store!QuietInv'
  BY <1>3, <1>k, <1>i, GateCard DEF Store!QuietInv, Store!Return, Store!Locked
<1>4. QED
  BY <1>1, <1>2, <1>3 DEF Store!CheckpointStep, Store!AcquireTimesOut, Store!TruncateBusy,
     Store!Truncate, Store!Failed

LEMMA GateStart == Store!Init => Store!QuietInv
<1> SUFFICES ASSUME Store!Init PROVE Store!QuietInv
  OBVIOUS
<1>1. Store!Holding = {} /\ Store!Inside = {}
  BY DEF Store!Init, Store!Holding, Store!Inside
<1>2. QED
  BY <1>1, FS_EmptySet, GateCard DEF Store!Init, Store!QuietInv, Store!Locked

LEMMA GateStep == Store!QuietInv /\ [Store!Next]_(Store!vars) => Store!QuietInv'
<1>1. Store!QuietInv /\ Store!Next => Store!QuietInv'
  BY GateRequest, GateCheckpoint DEF Store!Next
<1>2. Store!QuietInv /\ UNCHANGED Store!vars => Store!QuietInv'
  BY DEF Store!QuietInv, Store!vars, Store!Holding, Store!Inside, Store!Locked
<1>3. QED
  BY <1>1, <1>2

(* While CheckpointWAL truncates the log no statement runs and no rows and   *)
(* no transaction are open: it holds every connection of the pool, and       *)
(* behind the gate nothing starts.                                           *)
THEOREM TruncatesInQuiet == Store!Spec => []TruncatesAlone
<1>1. Store!QuietInv => TruncatesAlone
  <2> SUFFICES ASSUME Store!QuietInv, cpc = "truncate" PROVE Store!Inside = {} /\ Store!Holding = {}
    BY DEF TruncatesAlone, Store!TruncatesAlone
  <2>1. Cardinality(Store!Holding) \in Nat /\ Cardinality(Store!Holding) + MaxConns <= MaxConns
    BY GateCard, FS_CardinalityType DEF Store!QuietInv
  <2>2. Cardinality(Store!Holding) = 0
    BY <2>1
  <2>3. QED
    BY <2>2, FS_EmptySet, GateCard DEF Store!QuietInv, Store!Locked
<1>2. QED
  BY <1>1, GateStart, GateStep, PTL DEF Store!Spec

(* What QuietInv leaves open: between checkpoints no connection is held, a   *)
(* pause is followed by an attempt that is still allowed, and only a request *)
(* that keeps its connection is slow.                                        *)
RestInv ==
  /\ cpc \in {"rest", "lock", "acquire", "truncate", "pause"}
  /\ cpc \in {"rest", "lock", "pause"} => held = 0
  /\ attempts \in 0..MaxAttempts /\ (cpc = "pause" => attempts < MaxAttempts)
  /\ slow \subseteq {r \in Request : rpc[r] = "open"}

LEMMA RestStep ==
  ASSUME Store!QuietInv, RestInv, [Store!Next]_(Store!vars)
  PROVE  RestInv'
<1> USE DEF RestInv
<1>t. rpc \in [Request -> {"away", "door", "inside", "running", "open"}] /\ MaxAttempts \in Nat
      /\ MaxAttempts >= 1
  BY DEF Store!QuietInv
<1>1. ASSUME NEW r \in Request, Store!RequestStep(r)
      PROVE  RestInv'
  <2>1. UNCHANGED <<cpc, held, attempts>>
    BY <1>1 DEF Store!RequestStep, Store!Arrive, Store!Enter, Store!Connect, Store!Finish,
       Store!GiveUp, Store!Open, Store!CloseRows, Store!KeepCheckpoint
  <2>2. CASE Store!Open(r)
    BY <2>1, <2>2, <1>t DEF Store!Open, Store!Go
  <2>3. CASE Store!CloseRows(r)
    BY <2>1, <2>3, <1>t DEF Store!CloseRows, Store!Go
  <2>4. CASE Store!Arrive(r) \/ Store!Enter(r) \/ Store!Connect(r) \/ Store!Finish(r) \/ Store!GiveUp(r)
    BY <2>1, <2>4, <1>t DEF Store!Arrive, Store!Enter, Store!Connect, Store!Finish, Store!GiveUp, Store!Go
  <2>5. QED
    BY <1>1, <2>2, <2>3, <2>4 DEF Store!RequestStep
<1>2. CASE Store!CheckpointStep
  <2>1. UNCHANGED <<rpc, slow>>
    BY <1>2 DEF Store!CheckpointStep, Store!Checkpoint, Store!Lock, Store!AcquireConn,
       Store!StartTruncate, Store!AcquireTimesOut, Store!TruncateBusy, Store!Truncate, Store!Retry,
       Store!Failed, Store!Return
  <2>2. CASE Store!Checkpoint
    BY <2>1, <2>2, <1>t DEF Store!Checkpoint
  <2>3. CASE Store!Lock \/ Store!AcquireConn \/ Store!StartTruncate
    BY <2>1, <2>3, <1>t DEF Store!Lock, Store!AcquireConn, Store!StartTruncate
  <2>4. CASE Store!Failed
    BY <2>1, <2>4, <1>t DEF Store!Failed, Store!Return, Store!Retries
  <2>5. CASE Store!Truncate
    BY <2>1, <2>5, <1>t DEF Store!Truncate, Store!Return
  <2>6. CASE Store!Retry
    BY <2>1, <2>6, <1>t DEF Store!Retry
  <2>7. QED
    BY <1>2, <2>2, <2>3, <2>4, <2>5, <2>6 DEF Store!CheckpointStep, Store!AcquireTimesOut,
       Store!TruncateBusy
<1>3. CASE UNCHANGED Store!vars
  BY <1>3 DEF Store!vars
<1>4. QED
  BY <1>1, <1>2, <1>3 DEF Store!Next

(* Every return of CheckpointWAL hands its connections back: none is held    *)
(* while the worker rests, waits for the gate or pauses, the pool is never   *)
(* overdrawn, and checkpointWithRetry makes no more attempts than allowed.   *)
THEOREM CheckpointHandsBack ==
  Store!Spec => [](Store!TypeOK /\ (cpc \in {"rest", "lock", "pause"} => held = 0))
<1>1. Store!Init => RestInv
  BY DEF Store!Init, RestInv
<1>2. Store!QuietInv /\ RestInv => Store!TypeOK /\ (cpc \in {"rest", "lock", "pause"} => held = 0)
  <2> SUFFICES ASSUME Store!QuietInv, RestInv
               PROVE  Store!TypeOK
    BY DEF RestInv
  <2>1. Cardinality(Store!Holding) \in Nat /\ Cardinality(Store!Holding) + held <= MaxConns
        /\ held \in Nat
    BY GateCard, FS_CardinalityType DEF Store!QuietInv
  <2>2. held \in 0..MaxConns
    BY <2>1
  <2>3. QED
    BY <2>2 DEF Store!TypeOK, Store!QuietInv, RestInv
<1>3. QED
  BY <1>1, <1>2, GateStart, GateStep, RestStep, PTL DEF Store!Spec

-----------------------------------------------------------------------------
(* Prober.                                                                   *)

(* Two numbers that are equal modulo SeqSpace are a whole round apart.       *)
LEMMA RoundApart ==
  ASSUME NEW a \in Nat, NEW b \in Nat, Shared!SeqOf(a) = Shared!SeqOf(b), a < b
  PROVE  b >= a + SeqSpace
<1> DEFINE S == SeqSpace
<1>1. S \in Int /\ S > 0 /\ a % S = b % S
  BY DEF Shared!SeqOf
<1>2. a \div S \in Int /\ a = S * (a \div S) + (a % S)
  BY <1>1
<1>3. b \div S \in Int /\ b = S * (b \div S) + (b % S)
  BY <1>1
<1> DEFINE i == a \div S
           j == b \div S
<1>4. /\ a % S \in Int /\ i \in Int /\ j \in Int
      /\ a = S * i + (a % S) /\ b = S * j + (b % S)
  BY <1>1, <1>2, <1>3
<1> HIDE DEF i, j
<1>5. b - a = S * (j - i)
  BY <1>1, <1>4
<1>6. j - i >= 1
  BY <1>1, <1>4, <1>5
<1>7. S * (j - i) >= S
  BY <1>1, <1>4, <1>6
<1>8. QED
  BY <1>1, <1>5, <1>7

(* A call that has returned is no longer pending; the others are as before.  *)
LEMMA ProberReturn ==
  ASSUME Shared!OwnInv, NEW c \in Caller, Shared!Return(c), mu' = "unlocked",
         pc[c] = "locked" \/ mu = "unlocked"
  PROVE  Shared!OwnInv'
<1>1. Shared!ProberType' /\ Shared!Pending' = Shared!Pending \ {c}
  BY DEF Shared!OwnInv, Shared!ProberType, Shared!Return, Shared!Pending
<1>2. \A k \in Caller \ {c} : /\ stamp'[k] = stamp[k] /\ inbox'[k] = inbox[k] /\ pc'[k] = pc[k]
                              /\ ttl'[k] = ttl[k]
  BY DEF Shared!OwnInv, Shared!ProberType, Shared!Return
<1>3. \A k \in Shared!Pending' : k \in Shared!Pending /\ stamp'[k] = stamp[k] /\ inbox'[k] = inbox[k]
  BY <1>1, <1>2 DEF Shared!Pending
<1>4. UNCHANGED <<total, sockTTL, wire, reading>>
  BY DEF Shared!Return
<1>5. Shared!SocketInv'
  <2>1. ASSUME NEW k \in Caller, pc'[k] = "locked" PROVE FALSE
    <3>1. k # c
      BY <2>1 DEF Shared!OwnInv, Shared!ProberType, Shared!Return
    <3>2. pc[k] = "locked" /\ mu = k
      BY <1>2, <2>1, <3>1 DEF Shared!OwnInv, Shared!SocketInv
    <3>3. pc[c] = "locked" => mu = c
      BY DEF Shared!OwnInv, Shared!SocketInv
    <3>4. QED
      BY <3>1, <3>2, <3>3
  <2>2. QED
    BY <2>1 DEF Shared!SocketInv
<1>6. Shared!NumberInv'
  BY <1>3, <1>4 DEF Shared!OwnInv, Shared!NumberInv
<1>7. Shared!ReadingInv' /\ Shared!OwnProbe'
  BY <1>3, <1>4 DEF Shared!OwnInv, Shared!ReadingInv, Shared!OwnProbe, Shared!OwnReply, Shared!OwnTTL
<1>8. QED
  BY <1>1, <1>5, <1>6, <1>7 DEF Shared!OwnInv

LEMMA ProberStep ==
  ASSUME Shared!OwnInv, Shared!Next
  PROVE  Shared!OwnInv'
<1>i. /\ Shared!ProberType /\ Shared!SocketInv /\ Shared!NumberInv /\ Shared!ReadingInv
      /\ Shared!OwnReply /\ Shared!OwnTTL
  BY DEF Shared!OwnInv, Shared!OwnProbe
<1>t. /\ total \in Nat /\ stamp \in [Caller -> Nat] /\ inbox \in [Caller -> Nat]
      /\ pc \in [Caller -> {"idle", "registered", "locked", "waiting"}]
      /\ ttl \in [Caller -> HopTTL \cup {0}]
      /\ reading \in [to : Nat, of : Nat] /\ \A p \in wire : p.of \in Nat
  BY <1>i DEF Shared!ProberType
\* register: the number is free and above every number given out before.
<1>1. ASSUME NEW c \in Caller, NEW t \in HopTTL, NEW n \in total..(total + SeqSpace),
             Shared!Register(c, t, n)
      PROVE  Shared!OwnInv'
  <2>1. /\ pc[c] = "idle" /\ n \in Nat /\ n >= total /\ total' = n + 1
        /\ stamp' = [stamp EXCEPT ![c] = n] /\ pc' = [pc EXCEPT ![c] = "registered"]
        /\ ttl' = [ttl EXCEPT ![c] = t] /\ inbox' = [inbox EXCEPT ![c] = 0]
        /\ UNCHANGED <<mu, sockTTL, wire, reading>>
        /\ \A k \in Shared!Pending : Shared!SeqOf(stamp[k]) # Shared!SeqOf(n)
    BY <1>1, <1>t DEF Shared!Register, Shared!Registers, Shared!Busy
  <2>2. /\ Shared!Pending' = Shared!Pending \cup {c} /\ c \notin Shared!Pending
        /\ stamp'[c] = n /\ inbox'[c] = 0 /\ pc'[c] = "registered"
        /\ \A k \in Caller \ {c} : /\ stamp'[k] = stamp[k] /\ inbox'[k] = inbox[k] /\ pc'[k] = pc[k]
                                   /\ ttl'[k] = ttl[k]
    BY <1>t, <2>1 DEF Shared!Pending
  <2>3. Shared!ProberType'
    BY <1>t, <2>1 DEF Shared!ProberType
  <2>4. Shared!SocketInv'
    BY <1>i, <2>1, <2>2 DEF Shared!SocketInv
  <2>5. Shared!NumberInv'
    <3>1. \A k \in Shared!Pending' : stamp'[k] < total'
      BY <1>i, <1>t, <2>1, <2>2 DEF Shared!NumberInv, Shared!Pending
    <3>2. \A k, m \in Shared!Pending' : Shared!SeqOf(stamp'[k]) = Shared!SeqOf(stamp'[m]) => k = m
      BY <1>i, <2>1, <2>2 DEF Shared!NumberInv, Shared!Pending
    <3>3. ASSUME NEW p \in wire
          PROVE  /\ p.of < total'
                 /\ \A k \in Shared!Pending' :
                      Shared!SeqOf(stamp'[k]) = Shared!SeqOf(p.of) => p.of <= stamp'[k]
      <4>1. p.of \in Nat /\ p.of < total
        BY <1>i, <1>t DEF Shared!NumberInv
      <4>2. p.of < total' /\ p.of <= n
        BY <1>t, <2>1, <4>1
      <4>3. QED
        BY <1>i, <2>2, <4>2 DEF Shared!NumberInv, Shared!Pending
    <3>4. QED
      BY <2>1, <3>1, <3>2, <3>3 DEF Shared!NumberInv, Shared!SeqOf
  <2>6. Shared!ReadingInv' /\ Shared!OwnProbe'
    BY <1>i, <2>1, <2>2
       DEF Shared!ReadingInv, Shared!OwnProbe, Shared!OwnReply, Shared!OwnTTL, Shared!Pending
  <2>7. QED
    BY <2>3, <2>4, <2>5, <2>6 DEF Shared!OwnInv
<1>2. ASSUME NEW c \in Caller, Shared!SetTTL(c) PROVE Shared!OwnInv'
  <2>1. /\ pc[c] = "registered" /\ mu = "unlocked" /\ mu' = c /\ sockTTL' = ttl[c]
        /\ pc' = [pc EXCEPT ![c] = "locked"]
        /\ UNCHANGED <<total, stamp, ttl, inbox, wire, reading>>
    BY <1>2 DEF Shared!SetTTL, Shared!MayLock, Shared!Unlocked
  <2>2. Shared!Pending' = Shared!Pending
    BY <1>t, <2>1 DEF Shared!Pending
  <2>3. Shared!SocketInv'
    BY <1>i, <1>t, <2>1 DEF Shared!SocketInv
  <2>4. Shared!ProberType'
    BY <1>t, <2>1 DEF Shared!ProberType
  <2>5. Shared!NumberInv' /\ Shared!ReadingInv' /\ Shared!OwnProbe'
    BY <1>i, <2>1, <2>2 DEF Shared!NumberInv, Shared!ReadingInv, Shared!OwnProbe, Shared!OwnReply,
       Shared!OwnTTL, Shared!SeqOf
  <2>6. QED
    BY <2>3, <2>4, <2>5 DEF Shared!OwnInv
<1>3. ASSUME NEW c \in Caller, Shared!WriteTo(c) PROVE Shared!OwnInv'
  <2> DEFINE q == [of |-> stamp[c], asked |-> ttl[c], sent |-> sockTTL]
  <2>1. /\ pc[c] = "locked" /\ wire' = wire \cup {q}
        /\ pc' = [pc EXCEPT ![c] = "waiting"]
        /\ UNCHANGED <<total, stamp, ttl, inbox, sockTTL, reading>>
    BY <1>3 DEF Shared!WriteTo
  <2>2. Shared!Pending' = Shared!Pending /\ c \in Shared!Pending
    BY <1>t, <2>1 DEF Shared!Pending
  <2>3. q.of = stamp[c] /\ q.sent = q.asked
    BY <1>i, <2>1 DEF Shared!SocketInv
  <2> HIDE DEF q
  <2>4. Shared!ProberType'
    BY <1>t, <2>1, <2>3 DEF Shared!ProberType
  <2>5. Shared!SocketInv'
    <3>1. ASSUME NEW k \in Caller, pc'[k] = "locked" PROVE FALSE
      BY <1>i, <1>t, <2>1, <3>1 DEF Shared!SocketInv
    <3>2. QED
      BY <3>1 DEF Shared!SocketInv
  <2>6. Shared!NumberInv'
    <3>1. \A k \in Shared!Pending : Shared!SeqOf(stamp[k]) = Shared!SeqOf(q.of) => q.of <= stamp[k]
      BY <1>i, <1>t, <2>2, <2>3 DEF Shared!NumberInv
    <3>2. q.of < total
      BY <1>i, <2>2, <2>3 DEF Shared!NumberInv
    <3>3. QED
      BY <1>i, <2>1, <2>2, <3>1, <3>2 DEF Shared!NumberInv, Shared!SeqOf
  <2>7. Shared!ReadingInv' /\ Shared!OwnProbe'
    BY <1>i, <2>1, <2>2, <2>3 DEF Shared!ReadingInv, Shared!OwnProbe, Shared!OwnReply, Shared!OwnTTL
  <2>8. QED
    BY <2>4, <2>5, <2>6, <2>7 DEF Shared!OwnInv
<1>4. ASSUME NEW c \in Caller, Shared!WriteFails(c) \/ Shared!TimesOut(c) \/ Shared!Receives(c)
      PROVE  Shared!OwnInv'
  BY <1>4, ProberReturn DEF Shared!WriteFails, Shared!TimesOut, Shared!Receives, Shared!Unlocked
\* The reply is for a pending call with the number of the probe answered.
<1>5. ASSUME NEW p \in wire, NEW again \in BOOLEAN, Shared!Lookup(p, again) PROVE Shared!OwnInv'
  <2>1. /\ wire' \subseteq wire /\ UNCHANGED <<total, pc, stamp, ttl, inbox, mu, sockTTL>>
    BY <1>5 DEF Shared!Lookup
  <2>2. reading' \in [to : Nat, of : Nat] /\ Shared!ReadingInv'
    <3>1. CASE \E c \in Shared!Pending : Shared!SeqOf(stamp[c]) = Shared!SeqOf(p.of)
      <4>1. PICK c \in Shared!Pending : /\ Shared!SeqOf(stamp[c]) = Shared!SeqOf(p.of)
                                        /\ reading' = [to |-> stamp[c], of |-> p.of]
        BY <1>5, <3>1 DEF Shared!Lookup
      <4>2. c \in Caller /\ stamp[c] \in Nat /\ p.of \in Nat /\ p.of <= stamp[c]
        BY <1>i, <1>t, <4>1 DEF Shared!NumberInv, Shared!Pending
      <4>3. p.of = stamp[c] \/ stamp[c] >= p.of + SeqSpace
        BY <4>1, <4>2, RoundApart
      <4>4. QED
        BY <4>1, <4>2, <4>3 DEF Shared!ReadingInv
    <3>2. CASE ~\E c \in Shared!Pending : Shared!SeqOf(stamp[c]) = Shared!SeqOf(p.of)
      BY <1>5, <3>2 DEF Shared!Lookup, Shared!Nobody, Shared!ReadingInv
    <3>3. QED
      BY <3>1, <3>2
  <2>3. Shared!ProberType'
    BY <1>t, <2>1, <2>2 DEF Shared!ProberType
  <2>4. Shared!SocketInv' /\ Shared!NumberInv' /\ Shared!OwnProbe'
    BY <1>i, <2>1 DEF Shared!SocketInv, Shared!NumberInv, Shared!OwnProbe, Shared!OwnReply,
       Shared!OwnTTL, Shared!Pending, Shared!SeqOf
  <2>5. QED
    BY <2>2, <2>3, <2>4 DEF Shared!OwnInv
<1>6. CASE Shared!Deliver
  <2>1. /\ reading' = Shared!Nobody /\ UNCHANGED <<total, pc, stamp, ttl, mu, sockTTL, wire>>
        /\ inbox' = [c \in Caller |->
             IF c \in Shared!Pending /\ stamp[c] = reading.to /\ inbox[c] = 0
             THEN reading.of ELSE inbox[c]]
    BY <1>6 DEF Shared!Deliver
  <2>2. Shared!ProberType' /\ Shared!ReadingInv'
    BY <1>t, <2>1 DEF Shared!ProberType, Shared!ReadingInv, Shared!Nobody
  <2>3. Shared!OwnReply'
    BY <1>i, <1>t, <2>1 DEF Shared!OwnReply, Shared!ReadingInv, Shared!Pending
  <2>4. Shared!SocketInv' /\ Shared!NumberInv' /\ Shared!OwnTTL'
    BY <1>i, <2>1 DEF Shared!SocketInv, Shared!NumberInv, Shared!OwnTTL, Shared!Pending, Shared!SeqOf
  <2>5. QED
    BY <2>2, <2>3, <2>4 DEF Shared!OwnInv, Shared!OwnProbe
<1>7. ASSUME wire' \subseteq wire, UNCHANGED <<total, pc, stamp, ttl, inbox, mu, sockTTL, reading>>
      PROVE  Shared!OwnInv'
  BY <1>i, <1>7 DEF Shared!OwnInv, Shared!ProberType, Shared!SocketInv, Shared!NumberInv,
     Shared!ReadingInv, Shared!OwnProbe, Shared!OwnReply, Shared!OwnTTL, Shared!Pending, Shared!SeqOf
<1>8. ASSUME NEW p \in wire, Shared!Lose(p) PROVE Shared!OwnInv'
  BY <1>7, <1>8 DEF Shared!Lose
<1>9. CASE Shared!Close
  BY <1>7, <1>9 DEF Shared!Close
<1>10. QED
  BY <1>1, <1>2, <1>3, <1>4, <1>5, <1>6, <1>8, <1>9 DEF Shared!Next, Shared!CallStep

LEMMA ProberStart == Shared!Init => Shared!OwnInv
BY DEF Shared!Init, Shared!OwnInv, Shared!ProberType, Shared!SocketInv, Shared!NumberInv,
   Shared!ReadingInv, Shared!OwnProbe, Shared!OwnReply, Shared!OwnTTL, Shared!Pending, Shared!Nobody

LEMMA ProberGoesOn == Shared!OwnInv /\ [Shared!Next]_(Shared!vars) => Shared!OwnInv'
<1>1. Shared!OwnInv /\ UNCHANGED Shared!vars => Shared!OwnInv'
  BY DEF Shared!vars, Shared!OwnInv, Shared!ProberType, Shared!SocketInv, Shared!NumberInv,
     Shared!ReadingInv, Shared!OwnProbe, Shared!OwnReply, Shared!OwnTTL, Shared!Pending, Shared!SeqOf
<1>2. QED
  BY <1>1, ProberStep

(* Concurrent calls of Probe on the one socket do not mix: each gets the     *)
(* reply to its own probe, or one that is a whole round of sequence numbers  *)
(* late, and its probe leaves with the TTL it asked for.                     *)
THEOREM CallsDoNotMix == Shared!Spec => []OwnProbe
<1>1. Shared!OwnInv => OwnProbe
  BY DEF Shared!OwnInv, OwnProbe
<1>2. QED
  BY <1>1, ProberStart, ProberGoesOn, PTL DEF Shared!Spec

(* The ranges of the calls, and who holds the mutex.                         *)
CallType ==
  /\ total \in 1..MaxTotal + 1 /\ closed \in BOOLEAN
  /\ stamp \in [Caller -> 0..MaxTotal] /\ inbox \in [Caller -> 0..MaxTotal]
  /\ sockTTL \in HopTTL \cup {0} /\ reading \in [to : 0..MaxTotal, of : 0..MaxTotal]
  /\ wire \subseteq [of : 1..MaxTotal, asked : HopTTL, sent : HopTTL]
  /\ mu \in Caller \cup {"unlocked"} /\ (mu # "unlocked" => pc[mu] = "locked")
  /\ \A c \in Caller : pc[c] # "idle" => ttl[c] \in HopTTL /\ stamp[c] # 0

LEMMA CallStep ==
  ASSUME Shared!OwnInv, CallType, [Shared!Next]_(Shared!vars)
  PROVE  CallType'
<1> USE DEF CallType, Shared!Unlocked
<1>t. /\ pc \in [Caller -> {"idle", "registered", "locked", "waiting"}]
      /\ ttl \in [Caller -> HopTTL \cup {0}]
      /\ \A c \in Caller : pc[c] = "locked" => mu = c /\ sockTTL = ttl[c]
      /\ MaxTotal \in Nat
  BY DEF Shared!OwnInv, Shared!ProberType, Shared!SocketInv
<1>1. ASSUME NEW c \in Caller, NEW t \in HopTTL, NEW n \in total..(total + SeqSpace),
             Shared!Register(c, t, n)
      PROVE  CallType'
  <2>1. n \in 1..MaxTotal /\ n + 1 \in 1..MaxTotal + 1
    BY <1>1, <1>t DEF Shared!Register
  <2>2. /\ total' = n + 1 /\ stamp' = [stamp EXCEPT ![c] = n]
        /\ pc' = [pc EXCEPT ![c] = "registered"] /\ ttl' = [ttl EXCEPT ![c] = t]
        /\ inbox' = [inbox EXCEPT ![c] = 0] /\ mu = "unlocked"
        /\ UNCHANGED <<mu, sockTTL, wire, reading, closed>>
    BY <1>1 DEF Shared!Register
  <2>3. \A k \in Caller : pc'[k] # "idle" => ttl'[k] \in HopTTL /\ stamp'[k] # 0
    BY <2>1, <2>2, <1>t
  <2>4. stamp' \in [Caller -> 0..MaxTotal] /\ inbox' \in [Caller -> 0..MaxTotal]
    BY <2>1, <2>2, <1>t
  <2>5. QED
    BY <2>1, <2>2, <2>3, <2>4
<1>2. ASSUME NEW c \in Caller, Shared!SetTTL(c)
      PROVE  CallType'
  <2>1. /\ pc[c] = "registered" /\ mu = "unlocked" /\ mu' = c /\ sockTTL' = ttl[c]
        /\ pc' = [pc EXCEPT ![c] = "locked"]
        /\ UNCHANGED <<total, stamp, ttl, inbox, wire, reading, closed>>
    BY <1>2 DEF Shared!SetTTL, Shared!MayLock
  <2>2. \A k \in Caller : pc'[k] # "idle" => ttl'[k] \in HopTTL /\ stamp'[k] # 0
    BY <2>1, <1>t
  <2>3. QED
    BY <2>1, <2>2, <1>t
<1>3. ASSUME NEW c \in Caller, Shared!WriteTo(c)
      PROVE  CallType'
  <2>1. /\ pc[c] = "locked" /\ mu' = "unlocked" /\ pc' = [pc EXCEPT ![c] = "waiting"]
        /\ wire' = wire \cup {[of |-> stamp[c], asked |-> ttl[c], sent |-> sockTTL]}
        /\ UNCHANGED <<total, stamp, ttl, inbox, sockTTL, reading, closed>>
    BY <1>3 DEF Shared!WriteTo
  <2>2. stamp[c] \in 1..MaxTotal /\ ttl[c] \in HopTTL /\ sockTTL = ttl[c]
    BY <2>1, <1>t
  <2>3. wire' \subseteq [of : 1..MaxTotal, asked : HopTTL, sent : HopTTL]
    BY <2>1, <2>2
  <2>4. \A k \in Caller : pc'[k] # "idle" => ttl'[k] \in HopTTL /\ stamp'[k] # 0
    BY <2>1, <1>t
  <2>5. QED
    BY <2>1, <2>3, <2>4
<1>4. ASSUME NEW c \in Caller, Shared!WriteFails(c) \/ Shared!TimesOut(c) \/ Shared!Receives(c)
      PROVE  CallType'
  <2>1. /\ pc' = [pc EXCEPT ![c] = "idle"] /\ stamp' = [stamp EXCEPT ![c] = 0]
        /\ ttl' = [ttl EXCEPT ![c] = 0] /\ inbox' = [inbox EXCEPT ![c] = 0] /\ mu' = "unlocked"
        /\ UNCHANGED <<total, sockTTL, wire, reading, closed>>
    BY <1>4 DEF Shared!WriteFails, Shared!TimesOut, Shared!Receives, Shared!Return
  <2>2. \A k \in Caller : pc'[k] # "idle" => ttl'[k] \in HopTTL /\ stamp'[k] # 0
    BY <2>1, <1>t
  <2>3. stamp' \in [Caller -> 0..MaxTotal] /\ inbox' \in [Caller -> 0..MaxTotal]
    BY <2>1, <1>t
  <2>4. QED
    BY <2>1, <2>2, <2>3
<1>5. ASSUME NEW p \in wire, NEW again \in BOOLEAN, Shared!Lookup(p, again)
      PROVE  CallType'
  <2>1. /\ wire' \subseteq wire
        /\ UNCHANGED <<total, pc, stamp, ttl, inbox, mu, sockTTL, closed>>
    BY <1>5 DEF Shared!Lookup
  <2>2. p.of \in 0..MaxTotal
    OBVIOUS
  <2>3. reading' \in [to : 0..MaxTotal, of : 0..MaxTotal]
    <3> DEFINE Q(c) == Shared!SeqOf(stamp[c]) = Shared!SeqOf(p.of)
    <3>1. CASE \E c \in Shared!Pending : Q(c)
      <4>1. PICK c : c = CHOOSE k \in Shared!Pending : Q(k)
        OBVIOUS
      <4>2. reading' = [to |-> stamp[c], of |-> p.of]
        BY <1>5, <3>1, <4>1 DEF Shared!Lookup
      <4>3. c \in Caller
        <5> HIDE DEF Q
        <5>1. c \in Shared!Pending
          BY <3>1, <4>1
        <5>2. QED
          BY <5>1 DEF Shared!Pending
      <4>4. QED
        BY <2>2, <4>2, <4>3
    <3>2. CASE ~\E c \in Shared!Pending : Q(c)
      <4>1. reading' = [to |-> 0, of |-> 0] /\ 0 \in 0..MaxTotal
        BY <1>5, <3>2 DEF Shared!Lookup, Shared!Nobody
      <4>2. QED
        BY <4>1
    <3>3. QED
      BY <3>1, <3>2
  <2>4. QED
    BY <2>1, <2>3
<1>6. CASE Shared!Deliver
  <2>1. /\ reading' = [to |-> 0, of |-> 0]
        /\ UNCHANGED <<total, pc, stamp, ttl, mu, sockTTL, wire, closed>>
    BY <1>6 DEF Shared!Deliver, Shared!Nobody
  <2>2. inbox' \in [Caller -> 0..MaxTotal]
    BY <1>6 DEF Shared!Deliver
  <2>3. QED
    BY <2>1, <2>2, <1>t
<1>7. ASSUME NEW p \in wire, Shared!Lose(p)
      PROVE  CallType'
  BY <1>7 DEF Shared!Lose
<1>8. CASE Shared!Close
  BY <1>8 DEF Shared!Close
<1>9. CASE UNCHANGED Shared!vars
  BY <1>9 DEF Shared!vars
<1>10. QED
  BY <1>1, <1>2, <1>3, <1>4, <1>5, <1>6, <1>7, <1>8, <1>9 DEF Shared!Next, Shared!CallStep

(* The mutex of the prober is never left locked: whoever holds it is on its  *)
(* way from SetTTL to WriteTo, whatever fails; and every packet has a        *)
(* sequence number and TTL that a caller was given (Probe).                  *)
THEOREM MutexComesBack ==
  Shared!Spec => [](Shared!TypeOK /\ (mu # "unlocked" => pc[mu] = "locked"))
<1>1. Shared!Init => CallType
  <2>1. 1 \in 1..MaxTotal + 1 /\ 0 \in 0..MaxTotal
    OBVIOUS
  <2>2. ASSUME Shared!Init
        PROVE  CallType
    <3>1. /\ total = 1 /\ closed = FALSE /\ pc = [c \in Caller |-> "idle"]
          /\ stamp = [c \in Caller |-> 0] /\ inbox = [c \in Caller |-> 0]
          /\ mu = "unlocked" /\ sockTTL = 0 /\ wire = {} /\ reading = [to |-> 0, of |-> 0]
      BY <2>2 DEF Shared!Init, Shared!Unlocked, Shared!Nobody
    <3>2. stamp \in [Caller -> 0..MaxTotal] /\ inbox \in [Caller -> 0..MaxTotal]
      BY <2>1, <3>1
    <3>3. reading \in [to : 0..MaxTotal, of : 0..MaxTotal]
      BY <2>1, <3>1
    <3>4. QED
      BY <2>1, <3>1, <3>2, <3>3 DEF CallType
  <2>3. QED
    BY <2>2
<1>2. Shared!OwnInv /\ CallType => Shared!TypeOK /\ (mu # "unlocked" => pc[mu] = "locked")
  BY DEF Shared!OwnInv, Shared!ProberType, CallType, Shared!TypeOK, Shared!Unlocked
<1>3. QED
  BY <1>1, <1>2, ProberStart, ProberGoesOn, CallStep, PTL DEF Shared!Spec

-----------------------------------------------------------------------------
(* AgentTargets.                                                             *)

Pipe == [addr : Addr \cup Target \cup {Nil}, live : BOOLEAN,
         loop : {"none", "wait", "changed"}, post : {"none", "sent", "admitted"}]

(* A pipeline whose loop or POST ends is not brought to life by it, and one  *)
(* that is cancelled no longer probes.                                       *)
LEMMA PipePieces ==
  ASSUME NEW r \in Pipe
  PROVE  /\ Agent!Free \in Pipe /\ ~Agent!Free.live
         /\ Agent!Settled(r) \in Pipe /\ (Agent!Settled(r).live <=> r.live)
         /\ Agent!Cancelled(r) \in Pipe /\ ~Agent!Cancelled(r).live
         /\ [r EXCEPT !.loop = "none"] \in Pipe /\ [r EXCEPT !.loop = "none"].live = r.live
         /\ [r EXCEPT !.post = "none"] \in Pipe /\ [r EXCEPT !.post = "none"].live = r.live
<1>1. Agent!Free \in Pipe /\ ~Agent!Free.live
  BY DEF Agent!Free, Pipe
<1>2. ASSUME NEW x \in Pipe PROVE Agent!Settled(x) \in Pipe /\ (Agent!Settled(x).live <=> x.live)
  BY <1>1 DEF Agent!Settled, Pipe
<1>3. [r EXCEPT !.live = FALSE] \in Pipe /\ ~[r EXCEPT !.live = FALSE].live
  BY DEF Pipe
<1>4. Agent!Cancelled(r) \in Pipe /\ ~Agent!Cancelled(r).live
  BY <1>2, <1>3 DEF Agent!Cancelled
<1>5. /\ [r EXCEPT !.loop = "none"] \in Pipe /\ [r EXCEPT !.loop = "none"].live = r.live
      /\ [r EXCEPT !.post = "none"] \in Pipe /\ [r EXCEPT !.post = "none"].live = r.live
  BY DEF Pipe
<1>6. QED
  BY <1>1, <1>2, <1>4, <1>5

LEMMA BuiltPipe ==
  ASSUME Agent!RunnerType, NEW t \in Target
  PROVE  Agent!BuildPipeline(t) \in Pipe
BY DEF Agent!RunnerType, Agent!BuildPipeline, Agent!Resolve, Pipe

(* A step that neither builds a pipeline nor touches the map.                *)
LEMMA NothingBuilt ==
  ASSUME Agent!ControlInv, dns' \in [Host -> Addr \cup {Nil}],
         proc' \in {"up", "stopped", "drained", "down"}, pipelines' = pipelines,
         pipe' \in [Target \X Slot -> Pipe],
         \A t \in Target, s \in Slot : pipe'[<<t, s>>].live => pipe[<<t, s>>].live,
         proc' \in {"drained", "down"} => proc \in {"drained", "down"}
  PROVE  Agent!ControlInv'
<1>1. Agent!RunnerType'
  BY DEF Agent!ControlInv, Agent!RunnerType, Pipe
<1>2. Agent!NoStrayPipeline'
  BY DEF Agent!ControlInv, Agent!RunnerInControl, Agent!NoStrayPipeline
<1>3. ASSUME proc' \in {"drained", "down"}, NEW p \in DOMAIN pipe' PROVE ~pipe'[p].live
  <2>1. PICK t \in Target, s \in Slot : p = <<t, s>>
    BY <1>3
  <2>2. p \in DOMAIN pipe
    BY <1>3 DEF Agent!ControlInv, Agent!RunnerType
  <2>3. QED
    BY <1>3, <2>1, <2>2 DEF Agent!ControlInv, Agent!RunnerInControl, Agent!StopsForGood
<1>4. QED
  BY <1>1, <1>2, <1>3 DEF Agent!ControlInv, Agent!RunnerInControl, Agent!StopsForGood

(* One pipeline of the runner changes; the map does not.                     *)
LEMMA OnePipe ==
  ASSUME Agent!ControlInv, NEW t \in Target, NEW s \in Slot, NEW r \in Pipe,
         pipe' = [pipe EXCEPT ![<<t, s>>] = r], r.live => pipe[<<t, s>>].live,
         UNCHANGED <<dns, proc, pipelines>>
  PROVE  Agent!ControlInv'
<1>1. pipe \in [Target \X Slot -> Pipe] /\ dns \in [Host -> Addr \cup {Nil}]
      /\ proc \in {"up", "stopped", "drained", "down"}
  BY DEF Agent!ControlInv, Agent!RunnerType, Pipe
<1>2. pipe' \in [Target \X Slot -> Pipe]
  BY <1>1
<1>3. \A u \in Target, k \in Slot : pipe'[<<u, k>>].live => pipe[<<u, k>>].live
  BY <1>1
<1>4. QED
  BY <1>1, <1>2, <1>3, NothingBuilt

(* A step that leaves at most one pipeline of a target alive, the one in the *)
(* map, while the probe is up.                                               *)
LEMMA MapRules ==
  ASSUME Agent!ControlInv, UNCHANGED <<dns, proc>>, proc = "up",
         pipelines' \in [Target -> Slot \cup {Nil}], pipe' \in [Target \X Slot -> Pipe],
         \A t \in Target, s \in Slot : pipe'[<<t, s>>].live => pipelines'[t] = s
  PROVE  Agent!ControlInv'
BY DEF Agent!ControlInv, Agent!RunnerType, Pipe, Agent!RunnerInControl, Agent!NoStrayPipeline,
       Agent!StopsForGood

LEMMA ReconcileStep ==
  ASSUME Agent!ControlInv, NEW set, Agent!Reconcile(set),
         UNCHANGED <<dns, proc>>
  PROVE  Agent!ControlInv'
<1>t. /\ pipe \in [Target \X Slot -> Pipe] /\ pipelines \in [Target -> Slot \cup {Nil}]
      /\ dns \in [Host -> Addr \cup {Nil}] /\ proc \in {"up", "stopped", "drained", "down"}
      /\ Agent!NoStrayPipeline /\ Agent!RunnerType
  BY DEF Agent!ControlInv, Agent!RunnerType, Pipe, Agent!RunnerInControl
<1>1. CASE ~Agent!Reconciles
  BY <1>1, <1>t, NothingBuilt DEF Agent!Reconcile
<1>2. CASE Agent!Reconciles
  <2> DEFINE gone == Agent!Unwanted(set)
             new  == Agent!Missing(set)
  <2>1. /\ \A t \in new : Agent!Spare(t) # {}
        /\ pipelines' = [t \in Target |-> IF t \in gone THEN Nil
                                          ELSE IF t \in new THEN Agent!NextSlot(t)
                                          ELSE pipelines[t]]
        /\ pipe' = [p \in Target \X Slot |->
             IF p[1] \in gone /\ p[2] = pipelines[p[1]] THEN Agent!Cancelled(pipe[p])
             ELSE IF p[1] \in new /\ p[2] = Agent!NextSlot(p[1]) THEN Agent!BuildPipeline(p[1])
             ELSE pipe[p]]
    BY <1>2 DEF Agent!Reconcile
  <2>2. /\ \A t \in gone : t \in Target
        /\ \A t \in new : pipelines[t] = Nil
    BY DEF Agent!Unwanted, Agent!Missing
  <2> HIDE DEF gone, new
  <2>3. \A t \in new : Agent!NextSlot(t) \in Slot
    BY <2>1 DEF Agent!NextSlot, Agent!Spare
  <2>4. pipelines' \in [Target -> Slot \cup {Nil}]
    BY <1>t, <2>1, <2>3
  <2>5. ASSUME NEW t \in Target, NEW s \in Slot
        PROVE  /\ pipe'[<<t, s>>] \in Pipe
               /\ pipe'[<<t, s>>].live => pipelines'[t] = s
    <3>1. pipe'[<<t, s>>] = IF t \in gone /\ s = pipelines[t] THEN Agent!Cancelled(pipe[<<t, s>>])
                            ELSE IF t \in new /\ s = Agent!NextSlot(t) THEN Agent!BuildPipeline(t)
                            ELSE pipe[<<t, s>>]
      BY <2>1
    <3>2. pipe[<<t, s>>] \in Pipe /\ (pipe[<<t, s>>].live => pipelines[t] = s)
      BY <1>t DEF Agent!NoStrayPipeline
    <3>3. CASE t \in gone /\ s = pipelines[t]
      <4>1. Agent!Cancelled(pipe[<<t, s>>]) \in Pipe /\ ~Agent!Cancelled(pipe[<<t, s>>]).live
        BY <3>2, PipePieces
      <4>2. QED
        BY <3>1, <3>3, <4>1
    <3>4. CASE t \notin gone /\ t \in new /\ s = Agent!NextSlot(t)
      BY <1>t, <2>1, <3>1, <3>4, BuiltPipe
    <3>5. CASE t \in gone /\ s # pipelines[t]
      <4>1. t \notin new
        BY <3>5, <2>2 DEF gone, Agent!Unwanted
      <4>2. QED
        BY <3>1, <3>2, <3>5, <4>1
    <3>6. CASE t \notin gone /\ t \in new /\ s # Agent!NextSlot(t)
      BY <2>2, <3>1, <3>2, <3>6
    <3>7. CASE t \notin gone /\ t \notin new
      BY <2>1, <3>1, <3>2, <3>7
    <3>8. QED
      BY <3>3, <3>4, <3>5, <3>6, <3>7
  <2>6. pipe' \in [Target \X Slot -> Pipe]
    <3>1. pipe' = [p \in Target \X Slot |-> pipe'[p]]
      BY <2>1
    <3>2. \A p \in Target \X Slot : pipe'[p] \in Pipe
      BY <2>5
    <3>3. QED
      BY <3>1, <3>2
  <2>7. proc = "up"
    BY <1>2 DEF Agent!Reconciles
  <2>8. QED
    BY <2>4, <2>5, <2>6, <2>7, MapRules
<1>3. QED
  BY <1>1, <1>2

(* runReresolve: whichever pipeline the map has is stopped before the new    *)
(* one is put into the map.                                                  *)
LEMMA RebuildStep ==
  ASSUME Agent!ControlInv, NEW t \in Target, NEW s \in Slot, Agent!ReresolveRebuild(t, s)
  PROVE  Agent!ControlInv'
<1>t. /\ pipe \in [Target \X Slot -> Pipe] /\ pipelines \in [Target -> Slot \cup {Nil}]
      /\ Agent!NoStrayPipeline /\ Agent!RunnerType
  BY DEF Agent!ControlInv, Agent!RunnerType, Pipe, Agent!RunnerInControl
<1> DEFINE e     == Agent!Settled([pipe[<<t, s>>] EXCEPT !.loop = "none"])
           ended == [pipe EXCEPT ![<<t, s>>] = e]
           v     == pipelines[t]
           freed == [ended EXCEPT ![<<t, v>>] = Agent!Cancelled(ended[<<t, v>>])]
           spare == {n \in Slot : freed[<<t, n>>].addr = Nil}
           m     == CHOOSE k \in spare : TRUE
<1>1. /\ UNCHANGED <<dns, proc>>
      /\ \/ pipe' = ended /\ UNCHANGED pipelines
         \/ /\ proc = "up" /\ v # Nil
            /\ pipe' = freed /\ pipelines' = [pipelines EXCEPT ![t] = Nil]
         \/ /\ proc = "up" /\ v # Nil /\ spare # {}
            /\ pipe' = [freed EXCEPT ![<<t, m>>] = Agent!BuildPipeline(t)]
            /\ pipelines' = [pipelines EXCEPT ![t] = m]
  BY DEF Agent!ReresolveRebuild, Agent!Victim, Agent!environment
<1>2. e \in Pipe /\ (e.live => pipe[<<t, s>>].live)
  <2> DEFINE r == pipe[<<t, s>>]
             q == [r EXCEPT !.loop = "none"]
  <2>1. r \in Pipe
    BY <1>t
  <2> HIDE DEF r
  <2>2. q \in Pipe /\ q.live = r.live
    BY <2>1, PipePieces
  <2> HIDE DEF q
  <2>3. Agent!Settled(q) \in Pipe /\ (Agent!Settled(q).live <=> q.live)
    BY <2>2, PipePieces
  <2>4. QED
    BY <2>2, <2>3 DEF q, r
<1> HIDE DEF e
<1>3. /\ ended \in [Target \X Slot -> Pipe]
      /\ \A u \in Target, k \in Slot : ended[<<u, k>>].live => pipelines[u] = k
  BY <1>t, <1>2 DEF Agent!NoStrayPipeline
<1> HIDE DEF ended
<1>4. ASSUME v # Nil
      PROVE  /\ freed \in [Target \X Slot -> Pipe]
             /\ \A u \in Target, k \in Slot : freed[<<u, k>>].live => u # t /\ pipelines[u] = k
  <2>1. v \in Slot /\ ended[<<t, v>>] \in Pipe
    BY <1>t, <1>3, <1>4
  <2>2. Agent!Cancelled(ended[<<t, v>>]) \in Pipe /\ ~Agent!Cancelled(ended[<<t, v>>]).live
    BY <2>1, PipePieces
  <2>3. QED
    BY <1>3, <2>1, <2>2
<1>5. spare # {} => m \in Slot
  OBVIOUS
<1>6. CASE pipe' = ended /\ UNCHANGED pipelines
  BY <1>1, <1>2, <1>6, OnePipe DEF ended
<1> HIDE DEF freed, m, spare
<1>7. CASE proc = "up" /\ v # Nil /\ pipe' = freed /\ pipelines' = [pipelines EXCEPT ![t] = Nil]
  <2>1. pipelines' \in [Target -> Slot \cup {Nil}]
    BY <1>t, <1>7
  <2>2. \A u \in Target, k \in Slot : pipe'[<<u, k>>].live => pipelines'[u] = k
    BY <1>t, <1>4, <1>7
  <2>3. QED
    BY <1>1, <1>4, <1>7, <2>1, <2>2, MapRules
<1>8. CASE /\ proc = "up" /\ v # Nil /\ spare # {}
           /\ pipe' = [freed EXCEPT ![<<t, m>>] = Agent!BuildPipeline(t)]
           /\ pipelines' = [pipelines EXCEPT ![t] = m]
  <2>1. m \in Slot /\ Agent!BuildPipeline(t) \in Pipe
    BY <1>t, <1>5, <1>8, BuiltPipe
  <2>2. pipelines' \in [Target -> Slot \cup {Nil}] /\ pipe' \in [Target \X Slot -> Pipe]
    BY <1>t, <1>4, <1>8, <2>1
  <2>3. \A u \in Target, k \in Slot : pipe'[<<u, k>>].live => pipelines'[u] = k
    BY <1>t, <1>4, <1>8, <2>1
  <2>4. QED
    BY <1>1, <1>8, <2>2, <2>3, MapRules
<1>9. QED
  BY <1>1, <1>6, <1>7, <1>8

LEMMA AgentStep ==
  ASSUME Agent!ControlInv, Agent!Next
  PROVE  Agent!ControlInv'
<1>t. /\ pipe \in [Target \X Slot -> Pipe] /\ pipelines \in [Target -> Slot \cup {Nil}]
      /\ dns \in [Host -> Addr \cup {Nil}] /\ proc \in {"up", "stopped", "drained", "down"}
      /\ Agent!NoStrayPipeline
  BY DEF Agent!ControlInv, Agent!RunnerType, Pipe, Agent!RunnerInControl
\* Steps of the central, the operator, the resolver and the process itself.
<1>1. ASSUME dns' \in [Host -> Addr \cup {Nil}], UNCHANGED <<pipelines, pipe>>,
             proc' \in {"up", "stopped", proc}
      PROVE  Agent!ControlInv'
  BY <1>t, <1>1, NothingBuilt
<1>2. CASE Agent!HandleIngestHeartbeat \/ Agent!BeatFails \/ Agent!DeleteProbeToken \/ Agent!DeleteProbe
  BY <1>t, <1>1, <1>2 DEF Agent!HandleIngestHeartbeat, Agent!BeatFails, Agent!DeleteProbeToken,
     Agent!DeleteProbe, Agent!environment
<1>3. CASE Agent!SinkFatal
  BY <1>t, <1>1, <1>3 DEF Agent!SinkFatal, Agent!MarkStopped, Agent!environment
<1>4. ASSUME NEW set \in SUBSET Target, Agent!SetTargets(set) PROVE Agent!ControlInv'
  BY <1>t, <1>1, <1>4 DEF Agent!SetTargets
<1>5. ASSUME NEW h \in Host, NEW a \in Addr \cup {Nil}, Agent!ResolverChanges(h, a)
      PROVE  Agent!ControlInv'
  BY <1>t, <1>1, <1>5 DEF Agent!ResolverChanges
<1>6. ASSUME NEW tok, Agent!Start(tok) PROVE Agent!ControlInv'
  BY <1>t, <1>1, <1>6 DEF Agent!Start
<1>7. CASE Agent!BeatOnce
  <2>1. CASE reply.ok
    BY <1>7, <2>1, ReconcileStep DEF Agent!BeatOnce, Agent!environment
  <2>2. CASE ~reply.ok
    BY <1>t, <1>1, <1>7, <2>2 DEF Agent!BeatOnce, Agent!OnRefused, Agent!MarkStopped, Agent!environment
  <2>3. QED
    BY <2>1, <2>2
\* Steps of one pipeline's loop or POST.
<1>8. ASSUME NEW t \in Target, NEW s \in Slot, Agent!Step(t, s) PROVE Agent!ControlInv'
  <2> DEFINE r == pipe[<<t, s>>]
  <2>1. r \in Pipe
    BY <1>t
  <2>2. ASSUME NEW q \in Pipe, q.live = r.live, pipe' = [pipe EXCEPT ![<<t, s>>] = q],
               UNCHANGED <<dns, proc, pipelines>>
        PROVE  Agent!ControlInv'
    BY <2>2, OnePipe
  <2>3. ASSUME NEW q \in Pipe, q.live = r.live, pipe' = [pipe EXCEPT ![<<t, s>>] = Agent!Settled(q)],
               UNCHANGED <<dns, proc, pipelines>>
        PROVE  Agent!ControlInv'
    <3>1. Agent!Settled(q) \in Pipe /\ (Agent!Settled(q).live <=> q.live)
      BY <2>3, PipePieces
    <3>2. QED
      BY <2>3, <3>1, OnePipe
  <2>4. CASE Agent!ReresolveTick(t, s)
    <3>1. Agent!Lookup(t, s) \in Pipe /\ Agent!Lookup(t, s).live = r.live
      BY <2>1 DEF Agent!Lookup, Pipe
    <3>2. QED
      BY <2>2, <2>4, <3>1 DEF Agent!ReresolveTick, Agent!environment
  <2>5. CASE Agent!ReresolveRebuild(t, s)
    BY <2>5, RebuildStep
  <2>6. CASE Agent!ReresolveEnds(t, s)
    <3>1. [r EXCEPT !.loop = "none"] \in Pipe /\ [r EXCEPT !.loop = "none"].live = r.live
      BY <2>1 DEF Pipe
    <3>2. QED
      BY <2>3, <2>6, <3>1 DEF Agent!ReresolveEnds, Agent!environment
  <2>7. ASSUME NEW x \in {"none", "sent", "admitted"}, pipe' = [pipe EXCEPT ![<<t, s>>].post = x],
               UNCHANGED <<dns, proc, pipelines>>
        PROVE  Agent!ControlInv'
    <3>1. [r EXCEPT !.post = x] \in Pipe /\ [r EXCEPT !.post = x].live = r.live
      BY <2>1 DEF Pipe
    <3>2. pipe' = [pipe EXCEPT ![<<t, s>>] = [r EXCEPT !.post = x]]
      BY <2>7
    <3>3. QED
      BY <2>2, <2>7, <3>1, <3>2
  <2>8. CASE Agent!PostSnapshot(t, s) \/ Agent!HandleIngestPath(t, s) \/ Agent!PostFails(t, s)
    BY <2>7, <2>8 DEF Agent!PostSnapshot, Agent!HandleIngestPath, Agent!PostFails, Agent!environment
  <2>9. CASE Agent!StorePath(t, s) \/ Agent!PostEnds(t, s)
    <3>1. [r EXCEPT !.post = "none"] \in Pipe /\ [r EXCEPT !.post = "none"].live = r.live
      BY <2>1 DEF Pipe
    <3>2. QED
      BY <2>3, <2>9, <3>1 DEF Agent!StorePath, Agent!PostEnds, Agent!environment
  <2>10. QED
    BY <1>8, <2>4, <2>5, <2>6, <2>8, <2>9 DEF Agent!Step
\* Steps after which nothing probes.
<1>9. ASSUME UNCHANGED dns, proc' \in {"up", "stopped", "drained", "down"},
             pipelines' = [t \in Target |-> Nil], pipe' \in [Target \X Slot -> Pipe],
             \A p \in Target \X Slot : ~pipe'[p].live
      PROVE  Agent!ControlInv'
  BY <1>t, <1>9 DEF Agent!ControlInv, Agent!RunnerType, Pipe, Agent!RunnerInControl,
     Agent!NoStrayPipeline, Agent!StopsForGood
<1>10. CASE Agent!Shutdown
  <2>1. /\ UNCHANGED dns /\ proc' = "drained" /\ pipelines' = [t \in Target |-> Nil]
        /\ pipe' = [p \in Target \X Slot |->
             IF p[2] = pipelines[p[1]] THEN Agent!Cancelled(pipe[p]) ELSE pipe[p]]
    BY <1>10 DEF Agent!Shutdown, Agent!environment
  <2>2. ASSUME NEW p \in Target \X Slot PROVE pipe'[p] \in Pipe /\ ~pipe'[p].live
    <3>1. PICK t \in Target, s \in Slot : p = <<t, s>>
      BY <2>2
    <3>2. pipe[p] \in Pipe /\ (pipe[p].live => pipelines[t] = s)
      BY <1>t, <3>1 DEF Agent!NoStrayPipeline
    <3>3. Agent!Cancelled(pipe[p]) \in Pipe /\ ~Agent!Cancelled(pipe[p]).live
      BY <3>2, PipePieces
    <3>4. pipe'[p] = IF s = pipelines[t] THEN Agent!Cancelled(pipe[p]) ELSE pipe[p]
      BY <2>1, <3>1
    <3>5. QED
      BY <3>2, <3>3, <3>4
  <2>3. pipe' \in [Target \X Slot -> Pipe]
    BY <2>1, <2>2
  <2>4. QED
    BY <1>9, <2>1, <2>2, <2>3
<1>11. CASE Agent!Exit
  <2>1. /\ UNCHANGED dns /\ proc' = "down" /\ pipelines' = [t \in Target |-> Nil]
        /\ pipe' = [p \in Target \X Slot |->
             Agent!Settled([pipe[p] EXCEPT !.live = FALSE, !.loop = "none"])]
    BY <1>11 DEF Agent!Exit
  <2>2. ASSUME NEW p \in Target \X Slot PROVE pipe'[p] \in Pipe /\ ~pipe'[p].live
    <3> DEFINE q == [pipe[p] EXCEPT !.live = FALSE, !.loop = "none"]
    <3>1. pipe[p] \in Pipe
      BY <1>t
    <3>2. q \in Pipe /\ ~q.live
      BY <3>1 DEF Pipe
    <3>3. pipe'[p] = Agent!Settled(q)
      BY <2>1
    <3> HIDE DEF q
    <3>4. Agent!Settled(q) \in Pipe /\ (Agent!Settled(q).live <=> q.live)
      BY <3>2, PipePieces
    <3>5. QED
      BY <3>2, <3>3, <3>4
  <2>3. pipe' \in [Target \X Slot -> Pipe]
    BY <2>1, <2>2
  <2>4. QED
    BY <1>9, <2>1, <2>2, <2>3
<1>12. QED
  BY <1>2, <1>3, <1>4, <1>5, <1>6, <1>7, <1>8, <1>10, <1>11 DEF Agent!Next

LEMMA AgentStart == Agent!Init => Agent!ControlInv
<1> SUFFICES ASSUME Agent!Init PROVE Agent!ControlInv
  OBVIOUS
<1>1. Agent!Free \in Pipe /\ ~Agent!Free.live
  BY DEF Agent!Free, Pipe
<1>2. pipe \in [Target \X Slot -> Pipe] /\ \A p \in Target \X Slot : ~pipe[p].live
  BY <1>1 DEF Agent!Init
<1>3. QED
  BY <1>2 DEF Agent!Init, Agent!ControlInv, Agent!RunnerType, Pipe, Agent!RunnerInControl,
     Agent!NoStrayPipeline, Agent!StopsForGood

LEMMA AgentGoesOn == Agent!ControlInv /\ [Agent!Next]_(Agent!vars) => Agent!ControlInv'
<1>1. Agent!ControlInv /\ UNCHANGED Agent!vars => Agent!ControlInv'
  BY DEF Agent!vars, Agent!ControlInv, Agent!RunnerType, Agent!RunnerInControl,
     Agent!NoStrayPipeline, Agent!StopsForGood
<1>2. QED
  BY <1>1, AgentStep

(* Whatever the order in which replies, lookups and the shutdown reach the   *)
(* lock of the runner, a pipeline that probes is the one in r.pipelines for  *)
(* its target, and after the shutdown none probes.                           *)
THEOREM RunnerKeepsControl == Agent!Spec => []RunnerInControl
<1>1. Agent!ControlInv => RunnerInControl
  BY DEF Agent!ControlInv, RunnerInControl
<1>2. QED
  BY <1>1, AgentStart, AgentGoesOn, PTL DEF Agent!Spec

(* What ControlInv leaves open of the ranges.                                *)
AgentType ==
  /\ assigned \subseteq Target /\ budget \in 0..Changes
  /\ token \in {"bound", "yaml", "another", "unknown"}
  /\ reply \in {Nil} \cup [ok : BOOLEAN, set : SUBSET Target]
  /\ shown \in [Target -> Addr \cup Target \cup {Nil}]

LEMMA AgentTypeStep ==
  ASSUME Agent!ControlInv, AgentType, [Agent!Next]_(Agent!vars)
  PROVE  AgentType'
<1> USE DEF AgentType, Agent!environment
<1>t. \A t \in Target, s \in Slot : pipe[<<t, s>>].addr \in Addr \cup Target \cup {Nil}
  BY DEF Agent!ControlInv, Agent!RunnerType
<1>c. Agent!Change => budget' \in 0..Changes
  BY DEF Agent!Change
<1>1. CASE Agent!HandleIngestHeartbeat
  <2>1. (Agent!AuthAgent /\ Agent!RequireProbeBinding) \in BOOLEAN
    BY DEF Agent!AuthAgent, Agent!RequireProbeBinding
  <2>2. PICK ok \in BOOLEAN : reply' = [ok |-> ok, set |-> assigned]
    BY <1>1, <2>1 DEF Agent!HandleIngestHeartbeat
  <2>3. QED
    BY <1>1, <2>2 DEF Agent!HandleIngestHeartbeat
<1>2. CASE Agent!BeatOnce
  BY <1>2 DEF Agent!BeatOnce
<1>3. CASE Agent!BeatFails
  BY <1>3, <1>c DEF Agent!BeatFails
<1>4. ASSUME NEW set \in SUBSET Target, Agent!SetTargets(set)
      PROVE  AgentType'
  BY <1>4, <1>c DEF Agent!SetTargets
<1>5. ASSUME NEW h \in Host, NEW a \in Addr \cup {Nil}, Agent!ResolverChanges(h, a)
      PROVE  AgentType'
  BY <1>5, <1>c DEF Agent!ResolverChanges
<1>6. CASE Agent!DeleteProbeToken
  BY <1>6, <1>c DEF Agent!DeleteProbeToken
<1>7. CASE Agent!DeleteProbe
  BY <1>7, <1>c DEF Agent!DeleteProbe
<1>8. ASSUME NEW t \in Target, NEW s \in Slot, Agent!Step(t, s)
      PROVE  AgentType'
  <2>1. CASE Agent!StorePath(t, s)
    BY <2>1, <1>t DEF Agent!StorePath, Agent!UpsertPathSnapshot
  <2>2. CASE Agent!PostFails(t, s)
    BY <2>2, <1>c DEF Agent!PostFails
  <2>3. CASE UNCHANGED <<assigned, budget, token, reply, shown>>
    BY <2>3
  <2>4. QED
    BY <1>8, <2>1, <2>2, <2>3 DEF Agent!Step, Agent!ReresolveTick, Agent!ReresolveRebuild,
       Agent!ReresolveEnds, Agent!PostSnapshot, Agent!HandleIngestPath, Agent!PostEnds
<1>9. CASE Agent!SinkFatal
  BY <1>9 DEF Agent!SinkFatal
<1>10. CASE Agent!Shutdown
  BY <1>10 DEF Agent!Shutdown
<1>11. CASE Agent!Exit
  <2>1. budget' \in 0..Changes
    BY <1>11, <1>c DEF Agent!Exit
  <2>2. reply' = Nil /\ UNCHANGED <<assigned, token, shown>>
    BY <1>11 DEF Agent!Exit
  <2>3. QED
    BY <2>1, <2>2
<1>12. ASSUME NEW tok \in {"bound", "yaml", "another", "unknown"}, Agent!Start(tok)
       PROVE  AgentType'
  BY <1>12, <1>c DEF Agent!Start
<1>13. CASE UNCHANGED Agent!vars
  BY <1>13 DEF Agent!vars
<1>14. QED
  BY <1>1, <1>2, <1>3, <1>4, <1>5, <1>6, <1>7, <1>8, <1>9, <1>10, <1>11, <1>12, <1>13 DEF Agent!Next

(* The runner, the central's tables and the answers between them keep to     *)
(* their ranges, for any targets, addresses and number of losses.            *)
THEOREM AgentTypes ==
  Token \subseteq {"bound", "yaml", "another", "unknown"} => (Agent!Spec => []Agent!TypeOK)
<1> SUFFICES ASSUME Token \subseteq {"bound", "yaml", "another", "unknown"}
             PROVE  Agent!Spec => []Agent!TypeOK
  OBVIOUS
<1>1. Agent!Init => AgentType
  BY DEF Agent!Init, AgentType
<1>2. Agent!ControlInv /\ AgentType => Agent!TypeOK
  BY DEF Agent!ControlInv, AgentType, Agent!TypeOK
<1>3. QED
  BY <1>1, <1>2, AgentStart, AgentGoesOn, AgentTypeStep, PTL DEF Agent!Spec

-----------------------------------------------------------------------------
(* LocalSink.                                                                *)

LEMMA SinkCard ==
  /\ \A S : Sink!IsFiniteSet(S) <=> IsFiniteSet(S)
  /\ \A S : Sink!Cardinality(S) = Cardinality(S)
<1>1. \A S : Sink!IsFiniteSet(S) <=> IsFiniteSet(S)
  BY DEF Sink!IsFiniteSet, IsFiniteSet
<1>2. \A S : Sink!Cardinality(S) = Cardinality(S)
  BY DEF Sink!Cardinality, Cardinality
<1>3. QED
  BY <1>1, <1>2

(* Runs of consecutive numbers.                                              *)
LEMMA RunSeq ==
  ASSUME NEW a \in Nat, NEW b \in Nat, a <= b
  PROVE  /\ Sink!Run(a, b) \in Seq(Nat) /\ Len(Sink!Run(a, b)) = b - a
         /\ \A i \in 1..(b - a) : Sink!Run(a, b)[i] = a + i
         /\ Sink!ToSet(Sink!Run(a, b)) = (a + 1)..b
         /\ Sink!Run(a, a) = <<>>
<1>1. /\ Sink!Run(a, b) \in Seq(Nat) /\ Len(Sink!Run(a, b)) = b - a
      /\ \A i \in 1..(b - a) : Sink!Run(a, b)[i] = a + i
  BY DEF Sink!Run
<1>2. \A y \in (a + 1)..b : y - a \in 1..(b - a) /\ a + (y - a) = y
  OBVIOUS
<1>3. Sink!ToSet(Sink!Run(a, b)) = (a + 1)..b
  BY <1>1, <1>2 DEF Sink!ToSet, Sink!Run
<1>4. Sink!Run(a, a) = <<>>
  BY DEF Sink!Run
<1>5. QED
  BY <1>1, <1>3, <1>4

LEMMA RunIs ==
  ASSUME NEW a \in Nat, NEW b \in Nat, a <= b, NEW s, s \in Seq(Nat), Len(s) = b - a,
         \A i \in 1..(b - a) : s[i] = a + i
  PROVE  s = Sink!Run(a, b)
<1>1. /\ Sink!Run(a, b) \in Seq(Nat) /\ Len(Sink!Run(a, b)) = b - a
      /\ \A i \in 1..(b - a) : Sink!Run(a, b)[i] = a + i
  BY RunSeq
<1>2. QED
  BY <1>1, SeqEqual

LEMMA RunConcat ==
  ASSUME NEW a \in Nat, NEW b \in Nat, NEW c \in Nat, a <= b, b <= c
  PROVE  Sink!Run(a, b) \o Sink!Run(b, c) = Sink!Run(a, c)
<1> DEFINE s == Sink!Run(a, b)  t == Sink!Run(b, c)
<1>1. /\ s \in Seq(Nat) /\ Len(s) = b - a /\ \A i \in 1..(b - a) : s[i] = a + i
      /\ t \in Seq(Nat) /\ Len(t) = c - b /\ \A i \in 1..(c - b) : t[i] = b + i
  BY RunSeq
<1>h. HIDE DEF s, t
<1>2. s \o t \in Seq(Nat) /\ Len(s \o t) = c - a
  <2>1. s \o t \in Seq(Nat) /\ Len(s \o t) = Len(s) + Len(t)
    BY <1>1, ConcatProperties
  <2>2. (b - a) + (c - b) = c - a
    OBVIOUS
  <2>3. QED
    BY <1>1, <2>1, <2>2
<1>3. ASSUME NEW i \in 1..(c - a) PROVE (s \o t)[i] = a + i
  <2>1. (s \o t)[i] = IF i <= Len(s) THEN s[i] ELSE t[i - Len(s)]
    BY <1>1, ConcatProperties
  <2>2. i > b - a => i - Len(s) \in 1..(c - b) /\ b + (i - Len(s)) = a + i
    BY <1>1
  <2>3. i <= b - a => i \in 1..(b - a)
    OBVIOUS
  <2>4. QED
    BY <1>1, <2>1, <2>2, <2>3
<1>4. a <= c
  OBVIOUS
<1>5. s \o t = Sink!Run(a, c)
  BY <1>2, <1>3, <1>4, RunIs
<1>6. QED
  BY <1>5 DEF s, t

LEMMA RunAppend ==
  ASSUME NEW a \in Nat, NEW b \in Nat, a <= b
  PROVE  Append(Sink!Run(a, b), b + 1) = Sink!Run(a, b + 1)
<1> DEFINE s == Sink!Run(a, b)
<1>1. s \in Seq(Nat) /\ Len(s) = b - a /\ \A i \in 1..(b - a) : s[i] = a + i
  BY RunSeq
<1>h. HIDE DEF s
<1>2. Append(s, b + 1) \in Seq(Nat) /\ Len(Append(s, b + 1)) = (b + 1) - a
  BY <1>1
<1>3. \A i \in 1..((b + 1) - a) : Append(s, b + 1)[i] = a + i
  BY <1>1
<1>4. b + 1 \in Nat /\ a <= b + 1
  OBVIOUS
<1>5. Append(s, b + 1) = Sink!Run(a, b + 1)
  BY <1>2, <1>3, <1>4, RunIs
<1>6. QED
  BY <1>5 DEF s

(* Drop-oldest on a sequence that ends in a run, when part of the run fills  *)
(* the buffer.                                                               *)
LEMMA CappedTail ==
  ASSUME NEW s \in Seq(Nat), NEW a \in Nat, NEW b \in Nat, NEW c \in Nat, a <= c, c <= b,
         b - c = BufferCap
  PROVE  /\ Sink!Capped(s \o Sink!Run(a, b)) = Sink!Run(c, b)
         /\ Sink!Over(s \o Sink!Run(a, b)) = Len(s) + (c - a)
<1>1. PICK t \in Seq(Nat) : /\ t = Sink!Run(a, b) /\ Len(t) = b - a
                            /\ \A i \in 1..(b - a) : t[i] = a + i
  <2>1. a <= b
    OBVIOUS
  <2>2. /\ Sink!Run(a, b) \in Seq(Nat) /\ Len(Sink!Run(a, b)) = b - a
        /\ \A i \in 1..(b - a) : Sink!Run(a, b)[i] = a + i
    BY <2>1, RunSeq, Zenon
  <2>3. QED
    BY <2>2, Zenon
<1>2. PICK u : u = s \o t
  OBVIOUS
<1>3. PICK n \in Nat : n = b - c
  OBVIOUS
<1>4. Len(s) \in Nat
  BY LenProperties
<1>5. PICK l \in Nat : l = Len(s) + (b - a)
  <2>1. Len(s) + (b - a) \in Nat
    BY <1>4
  <2>2. QED
    BY <2>1
<1>6. u \in Seq(Nat) /\ Len(u) = Len(s) + Len(t)
  BY <1>2
<1>7. /\ Len(u) = l /\ n <= l /\ n = IF l > BufferCap THEN BufferCap ELSE l
  <2>1. Len(u) = l
    BY <1>1, <1>5, <1>6
  <2>2. ASSUME NEW p \in Nat, p = Len(s)
        PROVE  n <= l /\ n = IF l > BufferCap THEN BufferCap ELSE l
    <3>1. l = p + (b - a) /\ n = b - c
      BY <1>3, <1>5, <2>2
    <3>2. QED
      BY <3>1
  <2>3. QED
    BY <1>4, <2>1, <2>2
<1>8. \A j \in 1..(Len(s) + Len(t)) : u[j] = IF j <= Len(s) THEN s[j] ELSE t[j - Len(s)]
  BY <1>2, ConcatProperties
<1>9. ASSUME NEW i \in 1..n PROVE u[l - n + i] = c + i
  <2>1. /\ l - n + i \in 1..(Len(s) + Len(t)) /\ ~(l - n + i <= Len(s))
        /\ (l - n + i) - Len(s) \in 1..(b - a) /\ a + ((l - n + i) - Len(s)) = c + i
    BY <1>1, <1>3, <1>4, <1>5
  <2>2. u[l - n + i] = t[(l - n + i) - Len(s)]
    BY <1>8, <2>1
  <2>3. QED
    BY <1>1, <2>1, <2>2
<1>10. PICK v : v = SubSeq(u, l - n + 1, l)
  OBVIOUS
<1>11. /\ v \in Seq(Nat) /\ Len(v) = n
       /\ \A i \in 1..n : v[i] = u[l - n + i]
  <2>1. l - n + 1 \in Int /\ l \in Int /\ l - n + 1 >= 1
    BY <1>7
  <2>2. ASSUME NEW i \in (l - n + 1)..l PROVE u[i] \in Nat
    <3>1. i \in 1..Len(u)
      BY <1>7, <2>1
    <3>2. QED
      BY <1>6, <3>1, ElementOfSeq
  <2>3. /\ v \in Seq(Nat)
        /\ Len(v) = IF l - n + 1 <= l THEN l - (l - n + 1) + 1 ELSE 0
        /\ \A i \in 1..(l - (l - n + 1) + 1) : v[i] = u[(l - n + 1) + i - 1]
    BY <1>10, <2>1, <2>2, SubSeqProperties
  <2>4. l - (l - n + 1) + 1 = n /\ (~(l - n + 1 <= l) => n = 0)
    BY <1>7
  <2>5. \A i \in 1..n : (l - n + 1) + i - 1 = l - n + i
    BY <1>7
  <2>6. QED
    BY <2>3, <2>4, <2>5
<1>12. Len(v) = b - c /\ \A i \in 1..(b - c) : v[i] = c + i
  BY <1>3, <1>9, <1>11
<1>13. v = Sink!Run(c, b)
  BY <1>11, <1>12, RunIs
<1>14. Sink!Capped(u) = v
  BY <1>7, <1>10 DEF Sink!Capped
<1>15. Sink!Over(u) = l - n
  BY <1>7, <1>11, <1>14 DEF Sink!Over
<1>16. l - n = Len(s) + (c - a)
  BY <1>3, <1>4, <1>5
<1>17. QED
  BY <1>1, <1>2, <1>13, <1>14, <1>15, <1>16

(* Drop-oldest on a run.                                                     *)
LEMMA CappedRun ==
  ASSUME NEW a \in Nat, NEW b \in Nat, a <= b
  PROVE  \E c \in a..b :
           /\ Sink!Capped(Sink!Run(a, b)) = Sink!Run(c, b)
           /\ Sink!Over(Sink!Run(a, b)) = c - a /\ b - c <= BufferCap
           /\ c = a \/ b - c = BufferCap
<1>1. PICK r \in Seq(Nat) : r = Sink!Run(a, b) /\ Len(r) = b - a
  BY RunSeq
<1>2. CASE b - a > BufferCap
  <2>1. PICK c \in Nat : c = b - BufferCap
    <3>1. b - BufferCap \in Nat
      BY <1>2
    <3>2. QED
      BY <3>1
  <2>2. a <= c /\ c <= b /\ b - c = BufferCap /\ b - c <= BufferCap
    BY <1>2, <2>1
  <2>3. PICK e \in Seq(Nat) : Len(e) = 0 /\ e \o r = r
    <3>1. <<>> \in Seq(Nat) /\ Len(<<>>) = 0 /\ <<>> \o r = r
      OBVIOUS
    <3>2. QED
      BY <3>1
  <2>4. /\ Sink!Capped(e \o Sink!Run(a, b)) = Sink!Run(c, b)
        /\ Sink!Over(e \o Sink!Run(a, b)) = Len(e) + (c - a)
    BY <2>2, CappedTail
  <2>5. c \in a..b /\ 0 + (c - a) = c - a
    BY <2>2
  <2>6. QED
    BY <1>1, <2>2, <2>3, <2>4, <2>5
<1>3. CASE ~(b - a > BufferCap)
  <2>1. SubSeq(r, 1, Len(r)) = r
    BY SubSeqFull
  <2>2. (b - a) - (b - a) + 1 = 1 /\ (b - a) - (b - a) = a - a
    OBVIOUS
  <2>3. Sink!Capped(r) = r
    BY <1>1, <1>3, <2>1, <2>2 DEF Sink!Capped
  <2>4. Sink!Over(r) = a - a
    BY <1>1, <2>2, <2>3 DEF Sink!Over
  <2>5. a \in a..b /\ b - a <= BufferCap
    BY <1>3
  <2>6. QED
    BY <1>1, <2>3, <2>4, <2>5
<1>4. QED
  BY <1>2, <1>3

(* Drop-oldest on a batch in front of a full buffer leaves the buffer.       *)
LEMMA CappedFull ==
  ASSUME NEW s \in Seq(Nat), NEW a \in Nat, NEW b \in Nat, a <= b, b - a = BufferCap
  PROVE  /\ Sink!Capped(s \o Sink!Run(a, b)) = Sink!Run(a, b)
         /\ Sink!Over(s \o Sink!Run(a, b)) = Len(s)
<1>1. a <= a
  OBVIOUS
<1>2. /\ Sink!Capped(s \o Sink!Run(a, b)) = Sink!Run(a, b)
      /\ Sink!Over(s \o Sink!Run(a, b)) = Len(s) + (a - a)
  BY <1>1, CappedTail
<1>3. Len(s) + (a - a) = Len(s)
  BY LenProperties
<1>4. QED
  BY <1>2, <1>3

(* The numbers in a run.                                                     *)
LEMMA RunCount ==
  ASSUME NEW a \in Nat, NEW b \in Nat, a <= b
  PROVE  Cardinality((a + 1)..b) = b - a
<1>1. a + 1 \in Int /\ b \in Int
  OBVIOUS
<1>2. Cardinality((a + 1)..b) = IF a + 1 > b THEN 0 ELSE b - (a + 1) + 1
  BY <1>1, FS_Interval
<1>3. QED
  BY <1>2

(* Both: what requeue leaves of a batch and of the buffer behind it.         *)
LEMMA CappedMerged ==
  ASSUME NEW k \in Nat, NEW m \in Nat, NEW lo \in Nat, NEW w \in Nat, k <= m, m <= lo, lo <= w,
         m = lo \/ w - lo = BufferCap, w - lo <= BufferCap
  PROVE  LET u == Sink!Run(k, m) \o Sink!Run(lo, w)
             K == ((k + 1)..m) \cup ((lo + 1)..w)
         IN \E c \in k..w :
              /\ Sink!Capped(u) = Sink!Run(c, w) /\ w - c <= BufferCap
              /\ (c + 1)..w \subseteq K
              /\ Sink!Over(u) = Cardinality(K \ ((c + 1)..w)) /\ Sink!Over(u) \in Nat
<1>1. PICK u : u = Sink!Run(k, m) \o Sink!Run(lo, w)
  OBVIOUS
<1>2. PICK K : K = ((k + 1)..m) \cup ((lo + 1)..w)
  OBVIOUS
<1>3. ASSUME NEW c \in Nat, k <= c, c <= w, NEW e \in Nat, k <= e, (c + 1)..w \subseteq K,
             Sink!Capped(u) = Sink!Run(c, w), w - c <= BufferCap,
             Sink!Over(u) = e - k, K \ ((c + 1)..w) = (k + 1)..e
      PROVE  \E d \in k..w :
              /\ Sink!Capped(u) = Sink!Run(d, w) /\ w - d <= BufferCap
              /\ (d + 1)..w \subseteq K
              /\ Sink!Over(u) = Cardinality(K \ ((d + 1)..w)) /\ Sink!Over(u) \in Nat
  <2>1. Cardinality(K \ ((c + 1)..w)) = e - k
    BY <1>3, RunCount
  <2>2. c \in k..w /\ e - k \in Nat
    BY <1>3
  <2>3. QED
    BY <1>3, <2>1, <2>2
<1>4. CASE m = lo
  <2>0. u = Sink!Run(k, lo) \o Sink!Run(lo, w) /\ k <= lo /\ k <= w
    BY <1>1, <1>4
  <2>1. u = Sink!Run(k, w) /\ k <= w
    BY <2>0, RunConcat, Zenon
  <2>2. PICK c \in k..w : /\ Sink!Capped(u) = Sink!Run(c, w) /\ Sink!Over(u) = c - k
                          /\ w - c <= BufferCap
    BY <2>1, CappedRun
  <2>3. c \in Nat /\ k <= c /\ c <= w
    OBVIOUS
  <2>4. K = (k + 1)..w
    BY <1>2, <1>4
  <2>5. K \ ((c + 1)..w) = (k + 1)..c /\ (c + 1)..w \subseteq K
    BY <2>3, <2>4
  <2>6. QED
    BY <1>1, <1>2, <1>3, <2>2, <2>3, <2>5
<1>5. CASE m # lo
  <2>1. Sink!Run(k, m) \in Seq(Nat) /\ Len(Sink!Run(k, m)) = m - k
    BY RunSeq
  <2>2. Sink!Capped(u) = Sink!Run(lo, w) /\ Sink!Over(u) = m - k
    BY <1>1, <1>5, <2>1, CappedFull
  <2>3. K \ ((lo + 1)..w) = (k + 1)..m /\ (lo + 1)..w \subseteq K /\ k <= lo
    BY <1>2, <1>5
  <2>4. QED
    BY <1>1, <1>2, <1>3, <2>2, <2>3
<1>6. QED
  BY <1>4, <1>5

(* A difference of a set and a part of it.                                   *)
LEMMA SplitCount ==
  ASSUME NEW A, NEW B, IsFiniteSet(A), B \subseteq A
  PROVE  /\ IsFiniteSet(B) /\ IsFiniteSet(A \ B) /\ Cardinality(A) \in Nat
         /\ Cardinality(B) \in Nat /\ Cardinality(A \ B) \in Nat
         /\ Cardinality(A) = Cardinality(B) + Cardinality(A \ B)
<1>1. IsFiniteSet(B) /\ IsFiniteSet(A \ B)
  BY FS_Subset, A \ B \subseteq A
<1>2. Cardinality(A) \in Nat /\ Cardinality(B) \in Nat /\ Cardinality(A \ B) \in Nat
  BY <1>1, FS_CardinalityType
<1>3. Cardinality(A \ B) = Cardinality(A) - Cardinality(A \cap B)
  BY FS_Difference
<1>4. A \cap B = B
  OBVIOUS
<1>5. Cardinality(A \cap B) = Cardinality(B)
  BY <1>4
<1>6. QED
  BY <1>1, <1>2, <1>3, <1>5

(* Dropping the members of K outside L, and counting each of them, keeps the *)
(* count between what is lost and what is lost or in doubt.                  *)
LEMMA DropCount ==
  ASSUME NEW W, NEW S, NEW K, NEW L, NEW Dd, NEW n \in Nat,
         IsFiniteSet(W), IsFiniteSet(Dd), L \subseteq K, K \subseteq W, S \cap K \subseteq Dd,
         Cardinality(W \ (S \cup K)) <= n,
         n <= Cardinality(W \ (S \cup K)) + Cardinality(Dd \ K)
  PROVE  /\ Cardinality(W \ (S \cup L)) <= n + Cardinality(K \ L)
         /\ n + Cardinality(K \ L) <= Cardinality(W \ (S \cup L)) + Cardinality(Dd \ L)
<1>0. PICK X : X = K \ L
  OBVIOUS
<1>1. IsFiniteSet(K) /\ IsFiniteSet(X) /\ IsFiniteSet(W \ (S \cup L)) /\ IsFiniteSet(Dd \ L)
  BY <1>0, FS_Subset, X \subseteq K, W \ (S \cup L) \subseteq W, Dd \ L \subseteq Dd
<1>2. /\ Cardinality(X) = Cardinality(X \ S) + Cardinality(X \cap S)
      /\ Cardinality(X) \in Nat /\ Cardinality(X \ S) \in Nat /\ Cardinality(X \cap S) \in Nat
  <2>1. Cardinality(X \ S) = Cardinality(X) - Cardinality(X \cap S)
    BY <1>1, FS_Difference
  <2>2. IsFiniteSet(X \ S) /\ IsFiniteSet(X \cap S)
    BY <1>1, FS_Subset, X \ S \subseteq X, X \cap S \subseteq X
  <2>3. Cardinality(X) \in Nat /\ Cardinality(X \ S) \in Nat /\ Cardinality(X \cap S) \in Nat
    BY <1>1, <2>2, FS_CardinalityType
  <2>4. QED
    BY <2>1, <2>3
<1>3. /\ Cardinality(W \ (S \cup L)) = Cardinality(W \ (S \cup K)) + Cardinality(X \ S)
      /\ Cardinality(W \ (S \cup L)) \in Nat /\ Cardinality(W \ (S \cup K)) \in Nat
  <2>1. PICK A, B, C : A = W \ (S \cup L) /\ B = W \ (S \cup K) /\ C = X \ S
    OBVIOUS
  <2>2. IsFiniteSet(A) /\ B \subseteq A /\ A \ B = C
    BY <1>0, <1>1, <2>1
  <2>3. Cardinality(A) = Cardinality(B) + Cardinality(A \ B) /\ Cardinality(A) \in Nat
        /\ Cardinality(B) \in Nat /\ Cardinality(A \ B) \in Nat
    BY <2>2, SplitCount
  <2>4. QED
    BY <2>1, <2>2, <2>3
<1>4. /\ Cardinality(Dd \ L) = Cardinality(Dd \ K) + Cardinality(Dd \cap X)
      /\ Cardinality(Dd \ L) \in Nat /\ Cardinality(Dd \ K) \in Nat
      /\ Cardinality(Dd \cap X) \in Nat
  <2>1. PICK A, B, C : A = Dd \ L /\ B = Dd \ K /\ C = Dd \cap X
    OBVIOUS
  <2>2. IsFiniteSet(A) /\ B \subseteq A /\ A \ B = C
    BY <1>0, <1>1, <2>1
  <2>3. Cardinality(A) = Cardinality(B) + Cardinality(A \ B) /\ Cardinality(A) \in Nat
        /\ Cardinality(B) \in Nat /\ Cardinality(A \ B) \in Nat
    BY <2>2, SplitCount
  <2>4. QED
    BY <2>1, <2>2, <2>3
<1>5. Cardinality(X \cap S) <= Cardinality(Dd \cap X)
  <2>1. X \cap S \subseteq Dd \cap X
    BY <1>0
  <2>2. IsFiniteSet(Dd \cap X)
    BY FS_Subset, Dd \cap X \subseteq Dd
  <2>3. QED
    BY <2>1, <2>2, FS_Subset
<1>6. QED
  BY <1>0, <1>2, <1>3, <1>4, <1>5

(* Rows that a batch adds behind the table.                                  *)
LEMMA RowsAdded ==
  ASSUME NEW w \in Nat, NEW k \in Nat, NEW m \in Nat, k <= m, m <= w, NEW D,
         NEW st \in Seq(1..w),
         Sink!Ordered(st, D), Sink!Ahead(Sink!ToSet(st), Sink!ToSet(Sink!Run(k, m)), D)
  PROVE  /\ st \o Sink!Run(k, m) \in Seq(1..w) /\ Sink!Ordered(st \o Sink!Run(k, m), D)
         /\ Sink!ToSet(st \o Sink!Run(k, m)) = Sink!ToSet(st) \cup Sink!ToSet(Sink!Run(k, m))
<1>1. PICK t : t = Sink!Run(k, m)
  OBVIOUS
<1>2. /\ t \in Seq(Nat) /\ Len(t) = m - k /\ \A i \in 1..(m - k) : t[i] = k + i
      /\ Sink!ToSet(t) = (k + 1)..m
  <2>1. /\ Sink!Run(k, m) \in Seq(Nat) /\ Len(Sink!Run(k, m)) = m - k
        /\ \A i \in 1..(m - k) : Sink!Run(k, m)[i] = k + i
        /\ Sink!ToSet(Sink!Run(k, m)) = (k + 1)..m
    BY RunSeq, Zenon
  <2>2. QED
    BY <1>1, <2>1, Zenon
<1>3. DOMAIN t = 1..(m - k) /\ DOMAIN st = 1..Len(st) /\ Len(st) \in Nat
  BY <1>2, LenProperties
<1>4. t \in Seq(1..w)
  <2>1. \A i \in 1..(m - k) : t[i] \in 1..w
    BY <1>2
  <2>2. m - k \in Nat /\ t \in [1..(m - k) -> 1..w]
    BY <1>2, <2>1
  <2>3. QED
    BY <2>2, SeqDef
<1>5. PICK all : all = st \o t
  OBVIOUS
<1>6. /\ all \in Seq(1..w) /\ Len(all) = Len(st) + (m - k)
      /\ \A i \in 1..(Len(st) + (m - k)) : all[i] = IF i <= Len(st) THEN st[i] ELSE t[i - Len(st)]
  <2>1. /\ all \in Seq(1..w) /\ Len(all) = Len(st) + Len(t)
        /\ \A i \in 1..(Len(st) + Len(t)) : all[i] = IF i <= Len(st) THEN st[i] ELSE t[i - Len(st)]
    BY <1>4, <1>5, ConcatProperties
  <2>2. QED
    BY <1>2, <2>1
<1>7. DOMAIN all = 1..(Len(st) + (m - k))
  BY <1>6, LenProperties
<1>8. ASSUME NEW i \in DOMAIN all
      PROVE  \/ i \in DOMAIN st /\ all[i] = st[i]
             \/ i > Len(st) /\ i - Len(st) \in 1..(m - k) /\ all[i] = k + (i - Len(st))
  <2>1. i \in 1..(Len(st) + (m - k)) /\ i \in Int
    BY <1>3, <1>7
  <2>2. i <= Len(st) => i \in DOMAIN st
    BY <1>3, <2>1
  <2>3. ~(i <= Len(st)) => i > Len(st) /\ i - Len(st) \in 1..(m - k)
    BY <1>3, <2>1
  <2>4. QED
    BY <1>2, <1>6, <2>1, <2>2, <2>3
<1>9. ASSUME NEW i \in DOMAIN all, NEW j \in DOMAIN all, i < j, all[i] >= all[j]
      PROVE  all[j] \in D
  <2>1. CASE i \in DOMAIN st /\ all[i] = st[i] /\ j \in DOMAIN st /\ all[j] = st[j]
    BY <1>9, <2>1 DEF Sink!Ordered
  <2>2. CASE i \in DOMAIN st /\ all[i] = st[i] /\ j > Len(st) /\ j - Len(st) \in 1..(m - k)
             /\ all[j] = k + (j - Len(st))
    <3>1. st[i] \in Sink!ToSet(st)
      BY <2>2 DEF Sink!ToSet
    <3>2. all[j] \in (k + 1)..m
      BY <1>3, <2>2
    <3>3. st[i] < all[j] \/ all[j] \in D
      BY <1>1, <1>2, <3>1, <3>2 DEF Sink!Ahead
    <3>4. st[i] \in Int /\ all[j] \in Int
      BY <1>6, <3>2, <2>2, <1>3, ElementOfSeq
    <3>5. QED
      BY <1>9, <2>2, <3>3, <3>4
  <2>3. CASE i > Len(st) /\ i - Len(st) \in 1..(m - k) /\ all[i] = k + (i - Len(st))
             /\ j > Len(st) /\ j - Len(st) \in 1..(m - k) /\ all[j] = k + (j - Len(st))
    <3>1. i \in Int /\ j \in Int
      BY <1>3, <1>7
    <3>2. QED
      BY <1>3, <1>9, <2>3, <3>1
  <2>4. ~(i > Len(st) /\ j \in DOMAIN st)
    BY <1>3, <1>7, <1>9
  <2>5. QED
    BY <1>8, <2>1, <2>2, <2>3, <2>4
<1>10. Sink!ToSet(all) = Sink!ToSet(st) \cup ((k + 1)..m)
  <2>1. ASSUME NEW x \in Sink!ToSet(all) PROVE x \in Sink!ToSet(st) \cup ((k + 1)..m)
    <3>1. PICK i \in DOMAIN all : x = all[i]
      BY <2>1 DEF Sink!ToSet
    <3>2. CASE i \in DOMAIN st /\ all[i] = st[i]
      BY <3>1, <3>2 DEF Sink!ToSet
    <3>3. CASE i > Len(st) /\ i - Len(st) \in 1..(m - k) /\ all[i] = k + (i - Len(st))
      BY <3>1, <3>3
    <3>4. QED
      BY <1>8, <3>2, <3>3
  <2>2. ASSUME NEW i \in DOMAIN st PROVE i \in DOMAIN all /\ all[i] = st[i]
    <3>1. i \in 1..(Len(st) + (m - k)) /\ i <= Len(st)
      BY <1>3
    <3>2. QED
      BY <1>6, <1>7, <3>1
  <2>3. ASSUME NEW y \in (k + 1)..m PROVE y \in Sink!ToSet(all)
    <3>0. Len(st) + (y - k) \in Int
      BY <1>3
    <3>1. PICK i \in Int : i = Len(st) + (y - k)
      BY <3>0
    <3>2. i \in DOMAIN all /\ ~(i <= Len(st)) /\ i - Len(st) = y - k /\ y - k \in 1..(m - k)
      BY <1>3, <1>7, <3>1
    <3>3. all[i] = k + (y - k)
      BY <1>2, <1>6, <1>7, <3>2
    <3>4. k + (y - k) = y
      OBVIOUS
    <3>5. QED
      BY <3>2, <3>3, <3>4 DEF Sink!ToSet
  <2>4. QED
    BY <2>1, <2>2, <2>3 DEF Sink!ToSet
<1>11. Sink!Ordered(all, D)
  BY <1>9 DEF Sink!Ordered
<1>12. QED
  BY <1>1, <1>2, <1>5, <1>6, <1>10, <1>11

(* The two runs of the queue.                                                *)
LEMMA QueueRuns ==
  ASSUME Sink!QueueInv
  PROVE  \E lo \in Nat, m \in Nat, k \in Nat :
           /\ k <= m /\ m <= lo /\ lo <= wrote
           /\ samples = Sink!Run(lo, wrote) /\ wrote - lo <= BufferCap
           /\ batch = Sink!Run(k, m) /\ (m = lo \/ wrote - lo = BufferCap)
<1>1. wrote \in Nat
  BY DEF Sink!QueueInv
<1>2. PICK lo \in 0..wrote : \E m \in 0..lo : \E k \in 0..m :
        /\ samples = Sink!Run(lo, wrote) /\ wrote - lo <= BufferCap
        /\ batch = Sink!Run(k, m) /\ (m = lo \/ wrote - lo = BufferCap)
  BY DEF Sink!QueueInv
<1>3. PICK m \in 0..lo : \E k \in 0..m :
        /\ samples = Sink!Run(lo, wrote) /\ wrote - lo <= BufferCap
        /\ batch = Sink!Run(k, m) /\ (m = lo \/ wrote - lo = BufferCap)
  BY <1>2
<1>4. PICK k \in 0..m :
        /\ samples = Sink!Run(lo, wrote) /\ wrote - lo <= BufferCap
        /\ batch = Sink!Run(k, m) /\ (m = lo \/ wrote - lo = BufferCap)
  BY <1>3
<1>5. /\ lo \in Nat /\ m \in Nat /\ k \in Nat /\ k <= m /\ m <= lo /\ lo <= wrote
  BY <1>1
<1>6. QED
  BY <1>4, <1>5

(* requeue keeps the queue in shape and counts what it drops, whatever the   *)
(* tables hold.                                                              *)
LEMMA SinkRequeue ==
  ASSUME Sink!QueueInv, Sink!Requeue, NEW S, NEW Dd, Dd \subseteq 1..wrote,
         Sink!Ahead(S, Sink!OnItsWay, Dd),
         dropped \in Nat, reported \in Nat,
         Cardinality((1..wrote) \ (S \cup Sink!OnItsWay)) <= dropped + reported,
         dropped + reported <= Cardinality((1..wrote) \ (S \cup Sink!OnItsWay))
                                 + Cardinality(Dd \ Sink!OnItsWay)
  PROVE  /\ Sink!QueueInv' /\ Sink!OnItsWay' \subseteq Sink!OnItsWay
         /\ dropped' \in Nat /\ reported' \in Nat
         /\ Cardinality((1..wrote) \ (S \cup Sink!OnItsWay')) <= dropped' + reported'
         /\ dropped' + reported' <= Cardinality((1..wrote) \ (S \cup Sink!OnItsWay'))
                                      + Cardinality(Dd \ Sink!OnItsWay')
<1>1. wrote \in Nat /\ fpc \in {"idle", "writing", "final", "stopped"}
  BY DEF Sink!QueueInv
<1>2. PICK lo \in Nat, m \in Nat, k \in Nat :
        /\ k <= m /\ m <= lo /\ lo <= wrote
        /\ samples = Sink!Run(lo, wrote) /\ wrote - lo <= BufferCap
        /\ batch = Sink!Run(k, m) /\ (m = lo \/ wrote - lo = BufferCap)
  BY QueueRuns
<1>3. /\ lo \in Nat /\ m \in Nat /\ k \in Nat /\ k <= m /\ m <= lo /\ lo <= wrote
  BY <1>2
<1>4. Sink!OnItsWay = ((k + 1)..m) \cup ((lo + 1)..wrote)
  BY <1>1, <1>2, <1>3, RunSeq DEF Sink!OnItsWay
<1>5. PICK u : u = batch \o samples
  OBVIOUS
<1>6. PICK c \in k..wrote :
        /\ Sink!Capped(u) = Sink!Run(c, wrote) /\ wrote - c <= BufferCap
        /\ (c + 1)..wrote \subseteq Sink!OnItsWay
        /\ Sink!Over(u) = Cardinality(Sink!OnItsWay \ ((c + 1)..wrote)) /\ Sink!Over(u) \in Nat
  BY <1>1, <1>2, <1>3, <1>4, <1>5, CappedMerged
<1>7. c \in Nat /\ c <= wrote /\ c \in 0..wrote /\ c \in 0..c
  BY <1>1, <1>3
<1>8. /\ samples' = Sink!Run(c, wrote) /\ batch' = <<>> /\ batchChanges' = <<>>
      /\ wrote' = wrote /\ fpc' \in {"idle", "stopped"}
      /\ dropped' = IF fpc = "final" THEN 0 ELSE dropped + Sink!Over(u)
      /\ reported' = IF fpc = "final" THEN reported + (dropped + Sink!Over(u)) ELSE reported
  BY <1>5, <1>6 DEF Sink!Requeue, Sink!Merged, Sink!AfterFlush
<1>9. /\ Sink!Run(c, c) = <<>> /\ Sink!ToSet(Sink!Run(c, wrote)) = (c + 1)..wrote
      /\ Sink!ToSet(Sink!Run(c, c)) = (c + 1)..c
  BY <1>1, <1>7, RunSeq
<1>10. Sink!OnItsWay' = (c + 1)..wrote
  <2>1. Sink!OnItsWay' = Sink!ToSet(samples') \cup Sink!ToSet(batch')
    BY DEF Sink!OnItsWay
  <2>2. (c + 1)..c = {}
    BY <1>7
  <2>3. QED
    BY <1>8, <1>9, <2>1, <2>2
<1>11. Sink!QueueInv'
  <2>1. batch' = Sink!Run(c, c)
    BY <1>8, <1>9
  <2>2. QED
    BY <1>1, <1>6, <1>7, <1>8, <2>1 DEF Sink!QueueInv
<1>12. PICK n \in Nat : n = dropped + reported
  OBVIOUS
<1>13. dropped' \in Nat /\ reported' \in Nat /\ dropped' + reported' = n + Sink!Over(u)
  <2>1. PICK v \in Nat : v = Sink!Over(u)
    BY <1>6
  <2>2. /\ dropped' = IF fpc = "final" THEN 0 ELSE dropped + v
        /\ reported' = IF fpc = "final" THEN reported + (dropped + v) ELSE reported
    BY <1>8, <2>1
  <2>3. CASE fpc = "final"
    BY <1>12, <2>1, <2>2, <2>3
  <2>4. CASE fpc # "final"
    BY <1>12, <2>1, <2>2, <2>4
  <2>5. QED
    BY <2>3, <2>4
<1>14. /\ IsFiniteSet(1..wrote) /\ IsFiniteSet(Dd)
  <2>1. 1 \in Int /\ wrote \in Int
    BY <1>1
  <2>2. IsFiniteSet(1..wrote)
    BY <2>1, FS_Interval
  <2>3. QED
    BY <2>2, FS_Subset
<1>15. /\ Sink!OnItsWay \subseteq 1..wrote
  BY <1>1, <1>3, <1>4
<1>16. S \cap Sink!OnItsWay \subseteq Dd
  <2>1. ASSUME NEW x \in S \cap Sink!OnItsWay PROVE x \in Dd
    <3>1. x < x \/ x \in Dd
      BY DEF Sink!Ahead
    <3>2. x \in Int
      BY <1>1, <1>15, x \in 1..wrote
    <3>3. QED
      BY <3>1, <3>2
  <2>2. QED
    BY <2>1
<1>17. /\ Cardinality((1..wrote) \ (S \cup Sink!OnItsWay')) <= n + Sink!Over(u)
       /\ n + Sink!Over(u) <= Cardinality((1..wrote) \ (S \cup Sink!OnItsWay'))
                                + Cardinality(Dd \ Sink!OnItsWay')
  <2>1. PICK K, L : K = Sink!OnItsWay /\ L = (c + 1)..wrote
    OBVIOUS
  <2>2. /\ L \subseteq K /\ K \subseteq 1..wrote /\ S \cap K \subseteq Dd
        /\ Cardinality((1..wrote) \ (S \cup K)) <= n
        /\ n <= Cardinality((1..wrote) \ (S \cup K)) + Cardinality(Dd \ K)
    BY <1>6, <1>12, <1>15, <1>16, <2>1
  <2>3. /\ Cardinality((1..wrote) \ (S \cup L)) <= n + Cardinality(K \ L)
        /\ n + Cardinality(K \ L) <= Cardinality((1..wrote) \ (S \cup L)) + Cardinality(Dd \ L)
    BY <1>14, <2>2, DropCount
  <2>4. QED
    BY <1>6, <1>10, <2>1, <2>3
<1>18. QED
  BY <1>6, <1>10, <1>11, <1>13, <1>17

(* What InOrder and Accounted say of the state, with the library's own       *)
(* cardinality.                                                              *)
LEMMA CountIs ==
  /\ Sink!CountInv <=>
       /\ dropped \in Nat /\ reported \in Nat
       /\ Cardinality((1..wrote) \ (Sink!ToSet(stored) \cup Sink!OnItsWay)) <= dropped + reported
       /\ dropped + reported
            <= Cardinality((1..wrote) \ (Sink!ToSet(stored) \cup Sink!OnItsWay))
                 + Cardinality(doubted \ Sink!OnItsWay)
  /\ Sink!CountInv' <=>
       /\ dropped' \in Nat /\ reported' \in Nat
       /\ Cardinality((1..wrote') \ (Sink!ToSet(stored') \cup Sink!OnItsWay'))
            <= dropped' + reported'
       /\ dropped' + reported'
            <= Cardinality((1..wrote') \ (Sink!ToSet(stored') \cup Sink!OnItsWay'))
                 + Cardinality(doubted' \ Sink!OnItsWay')
BY SinkCard DEF Sink!CountInv, Sink!Lost

(* The part of the invariant about route changes.                            *)
LEMMA ChangeStep ==
  ASSUME Sink!SinkInv, Sink!Next
  PROVE  Sink!ChangeInv'
<1>1. wroteChanges \in Nat /\ doubts \in Nat
  BY DEF Sink!SinkInv, Sink!ChangeInv
<1>2. wroteChanges' \in Nat /\ doubts' \in Nat /\ (doubts' = 0 => doubts = 0)
  BY <1>1 DEF Sink!Next, Sink!WriteSample, Sink!WriteRouteChange, Sink!Flush, Sink!TickFlush,
     Sink!SignalFlush, Sink!FinalFlush, Sink!Drain, Sink!Commit, Sink!FlushFails,
     Sink!CommitInDoubt, Sink!Requeue, Sink!LogDropped, Sink!Cancel, Sink!Done, Sink!tableVars,
     Sink!bufferVars, Sink!vars
<1>3. SUFFICES ASSUME doubts' = 0
               PROVE  \E b \in 0..wroteChanges' : \E a \in 0..b :
                        /\ storedChanges' = Sink!Run(0, a) /\ batchChanges' = Sink!Run(a, b)
                        /\ changes' = Sink!Run(b, wroteChanges')
  BY <1>2 DEF Sink!ChangeInv
<1>4. PICK b \in 0..wroteChanges : \E a \in 0..b :
        /\ storedChanges = Sink!Run(0, a) /\ batchChanges = Sink!Run(a, b)
        /\ changes = Sink!Run(b, wroteChanges)
  BY <1>2, <1>3 DEF Sink!SinkInv, Sink!ChangeInv
<1>5. PICK a \in 0..b :
        /\ storedChanges = Sink!Run(0, a) /\ batchChanges = Sink!Run(a, b)
        /\ changes = Sink!Run(b, wroteChanges)
  BY <1>4
<1>6. a \in Nat /\ b \in Nat /\ 0 <= a /\ a <= b /\ b <= wroteChanges /\ a \in 0..a
      /\ a \in 0..wroteChanges /\ wroteChanges \in 0..wroteChanges /\ b \in 0..b
  BY <1>1
<1>7. ASSUME UNCHANGED <<wroteChanges, changes, batchChanges, storedChanges>>
      PROVE  \E d \in 0..wroteChanges' : \E e \in 0..d :
                        /\ storedChanges' = Sink!Run(0, e) /\ batchChanges' = Sink!Run(e, d)
                        /\ changes' = Sink!Run(d, wroteChanges')
  BY <1>5, <1>7
<1>8. CASE \/ Sink!WriteSample \/ Sink!LogDropped \/ Sink!Cancel \/ Sink!Done
  BY <1>7, <1>8 DEF Sink!WriteSample, Sink!LogDropped, Sink!Cancel, Sink!Done, Sink!tableVars,
     Sink!bufferVars, Sink!vars
<1>9. CASE Sink!WriteRouteChange
  <2>1. /\ wroteChanges' = wroteChanges + 1 /\ changes' = Append(changes, wroteChanges + 1)
        /\ UNCHANGED <<batchChanges, storedChanges>>
    BY <1>9 DEF Sink!WriteRouteChange, Sink!tableVars
  <2>2. changes' = Sink!Run(b, wroteChanges')
    BY <1>1, <1>5, <1>6, <2>1, RunAppend
  <2>3. b \in 0..wroteChanges'
    BY <1>1, <2>1
  <2>4. QED
    BY <1>5, <2>1, <2>2, <2>3
<1>10. CASE Sink!Flush
  <2>1. /\ fpc = "idle" /\ UNCHANGED <<wroteChanges, storedChanges>>
        /\ batchChanges' = changes /\ changes' = <<>>
    BY <1>10 DEF Sink!Flush, Sink!TickFlush, Sink!SignalFlush, Sink!FinalFlush, Sink!Drain,
       Sink!tableVars
  <2>2. batchChanges = <<>>
    BY <2>1 DEF Sink!SinkInv, Sink!QueueInv
  <2>3. Len(batchChanges) = 0 /\ Len(batchChanges) = b - a
    BY <1>5, <1>6, <2>2, RunSeq
  <2>4. a = b
    BY <1>6, <2>3
  <2>5. changes' = Sink!Run(wroteChanges, wroteChanges)
    BY <1>1, <2>1, RunSeq
  <2>6. QED
    BY <1>5, <1>6, <2>1, <2>4, <2>5
<1>11. CASE Sink!Commit
  <2>1. /\ UNCHANGED <<wroteChanges, changes>> /\ batchChanges' = <<>>
        /\ storedChanges' = storedChanges \o batchChanges
    BY <1>11 DEF Sink!Commit, Sink!Insert, Sink!InsertRouteChanges, Sink!AfterFlush
  <2>2. storedChanges' = Sink!Run(0, b)
    BY <1>5, <1>6, <2>1, RunConcat
  <2>3. batchChanges' = Sink!Run(b, b)
    BY <1>6, <2>1, RunSeq
  <2>4. QED
    BY <1>5, <1>6, <2>1, <2>2, <2>3
<1>12. CASE Sink!FlushFails
  <2>1. /\ UNCHANGED <<wroteChanges, storedChanges>> /\ batchChanges' = <<>>
        /\ changes' = batchChanges \o changes
    BY <1>12 DEF Sink!FlushFails, Sink!Requeue, Sink!Merged, Sink!AfterFlush, Sink!tableVars
  <2>2. changes' = Sink!Run(a, wroteChanges)
    BY <1>1, <1>5, <1>6, <2>1, RunConcat
  <2>3. batchChanges' = Sink!Run(a, a)
    BY <1>6, <2>1, RunSeq
  <2>4. QED
    BY <1>5, <1>6, <2>1, <2>2, <2>3
<1>13. CASE Sink!CommitInDoubt
  BY <1>1, <1>3, <1>13 DEF Sink!CommitInDoubt
<1>14. QED
  BY <1>8, <1>9, <1>10, <1>11, <1>12, <1>13 DEF Sink!Next

(* The state of the queue and the tables in terms of the two runs.           *)
LEMMA SinkState ==
  ASSUME Sink!QueueInv, Sink!OrderInv, NEW lo \in Nat, NEW m \in Nat, NEW k \in Nat,
         k <= m, m <= lo, lo <= wrote, samples = Sink!Run(lo, wrote), batch = Sink!Run(k, m)
  PROVE  /\ wrote \in Nat
         /\ Sink!ToSet(samples) = (lo + 1)..wrote /\ Sink!ToSet(batch) = (k + 1)..m
         /\ Sink!OnItsWay = ((lo + 1)..wrote) \cup ((k + 1)..m)
         /\ Sink!OnItsWay \subseteq 1..wrote /\ Sink!ToSet(stored) \subseteq 1..wrote
         /\ IsFiniteSet(1..wrote) /\ IsFiniteSet(doubted) /\ doubted \subseteq 1..wrote
<1>1. wrote \in Nat /\ stored \in Seq(1..wrote) /\ doubted \subseteq 1..wrote
  BY DEF Sink!QueueInv, Sink!OrderInv
<1>2. Sink!ToSet(samples) = (lo + 1)..wrote /\ Sink!ToSet(batch) = (k + 1)..m
  BY <1>1, RunSeq
<1>3. Sink!OnItsWay = ((lo + 1)..wrote) \cup ((k + 1)..m)
  BY <1>2 DEF Sink!OnItsWay
<1>4. Sink!OnItsWay \subseteq 1..wrote
  BY <1>1, <1>3
<1>5. Sink!ToSet(stored) \subseteq 1..wrote
  BY <1>1, ElementOfSeq, LenProperties DEF Sink!ToSet
<1>6. IsFiniteSet(1..wrote)
  <2>1. 1 \in Int /\ wrote \in Int
    BY <1>1
  <2>2. QED
    BY <2>1, FS_Interval
<1>7. QED
  BY <1>1, <1>2, <1>3, <1>4, <1>5, <1>6, FS_Subset

LEMMA SinkWrite ==
  ASSUME Sink!SinkInv, Sink!WriteSample
  PROVE  Sink!QueueInv' /\ Sink!OrderInv' /\ Sink!CountInv'
<1>0. Sink!QueueInv /\ Sink!OrderInv /\ Sink!CountInv
  BY DEF Sink!SinkInv
<1>1. PICK lo \in Nat, m \in Nat, k \in Nat :
        /\ k <= m /\ m <= lo /\ lo <= wrote
        /\ samples = Sink!Run(lo, wrote) /\ wrote - lo <= BufferCap
        /\ batch = Sink!Run(k, m) /\ (m = lo \/ wrote - lo = BufferCap)
  BY <1>0, QueueRuns
<1>2. /\ wrote \in Nat
      /\ Sink!OnItsWay = ((lo + 1)..wrote) \cup ((k + 1)..m)
      /\ Sink!OnItsWay \subseteq 1..wrote /\ Sink!ToSet(stored) \subseteq 1..wrote
      /\ IsFiniteSet(doubted) /\ doubted \subseteq 1..wrote /\ Sink!ToSet(batch) = (k + 1)..m
  BY <1>0, <1>1, SinkState
<1>3. PICK w \in Nat : w = wrote + 1 /\ w > wrote /\ lo <= w /\ m <= w
  BY <1>1, <1>2
<1>4. Append(samples, wrote + 1) = Sink!Run(lo, w)
  BY <1>1, <1>2, <1>3, RunAppend
<1>5. PICK c \in lo..w : /\ Sink!Capped(Sink!Run(lo, w)) = Sink!Run(c, w)
                         /\ Sink!Over(Sink!Run(lo, w)) = c - lo /\ w - c <= BufferCap
                         /\ c = lo \/ w - c = BufferCap
  BY <1>3, CappedRun
<1>6. c \in Nat /\ lo <= c /\ c <= w
  BY <1>3
<1>7. /\ wrote' = w /\ samples' = Sink!Run(c, w) /\ dropped' = dropped + (c - lo)
      /\ UNCHANGED <<batch, batchChanges, fpc, reported, stored, doubted>>
  BY <1>3, <1>4, <1>5 DEF Sink!WriteSample, Sink!tableVars
<1>8. Sink!QueueInv'
  <2>1. m = c \/ w - c = BufferCap
    BY <1>1, <1>2, <1>3, <1>5, <1>6
  <2>2. c \in 0..w /\ m \in 0..c /\ k \in 0..m
    BY <1>1, <1>6
  <2>3. \E d \in 0..wrote' : \E e \in 0..d : \E f \in 0..e :
          /\ samples' = Sink!Run(d, wrote') /\ wrote' - d <= BufferCap
          /\ batch' = Sink!Run(f, e) /\ (e = d \/ wrote' - d = BufferCap)
    BY <1>1, <1>5, <1>7, <2>1, <2>2
  <2>4. QED
    BY <1>0, <1>3, <1>7, <2>3 DEF Sink!QueueInv
<1>9. Sink!OnItsWay' = ((c + 1)..w) \cup ((k + 1)..m)
  <2>1. Sink!OnItsWay' = Sink!ToSet(samples') \cup Sink!ToSet(batch')
    BY DEF Sink!OnItsWay
  <2>2. Sink!ToSet(samples') = (c + 1)..w
    BY <1>3, <1>6, <1>7, RunSeq
  <2>3. Sink!ToSet(batch') = (k + 1)..m
    BY <1>2, <1>7
  <2>4. QED
    BY <2>1, <2>2, <2>3
<1>10. PICK K : K = Sink!OnItsWay \cup {w}
  OBVIOUS
<1>11. /\ K = ((lo + 1)..w) \cup ((k + 1)..m) /\ K \subseteq 1..w /\ Sink!OnItsWay' \subseteq K
       /\ K \ Sink!OnItsWay' = (lo + 1)..c
  <2>1. K = ((lo + 1)..w) \cup ((k + 1)..m)
    BY <1>1, <1>2, <1>3, <1>10
  <2>2. K \subseteq 1..w
    BY <1>1, <1>3, <2>1
  <2>3. Sink!OnItsWay' \subseteq K
    BY <1>6, <1>9, <2>1
  <2>4. (((lo + 1)..w) \cup ((k + 1)..m)) \ (((c + 1)..w) \cup ((k + 1)..m)) = (lo + 1)..c
    BY <1>1, <1>3, <1>6
  <2>5. QED
    BY <1>9, <2>1, <2>2, <2>3, <2>4
<1>12. Sink!OrderInv'
  <2>1. 1..wrote \subseteq 1..w /\ stored \in Seq(1..wrote)
    BY <1>0, <1>2, <1>3 DEF Sink!OrderInv
  <2>2. stored \in Seq(1..w)
    <3>1. Len(stored) \in Nat /\ stored \in [1..Len(stored) -> 1..wrote]
      BY <2>1, LenProperties
    <3>2. stored \in [1..Len(stored) -> 1..w]
      BY <2>1, <3>1
    <3>3. QED
      BY <3>1, <3>2, SeqDef
  <2>3. ASSUME NEW x \in Sink!ToSet(stored), NEW y \in Sink!OnItsWay'
        PROVE  x < y \/ y \in doubted
    <3>1. CASE y = w
      BY <1>2, <1>3, <3>1
    <3>2. CASE y # w
      <4>1. y \in Sink!OnItsWay
        BY <1>10, <1>11, <3>2
      <4>2. QED
        BY <1>0, <4>1 DEF Sink!OrderInv, Sink!Ahead
    <3>3. QED
      BY <3>1, <3>2
  <2>4. doubted \subseteq 1..w
    BY <1>2, <2>1
  <2>5. Sink!Ordered(stored, doubted)
    BY <1>0 DEF Sink!OrderInv
  <2>6. Sink!Ahead(Sink!ToSet(stored), Sink!OnItsWay', doubted)
    BY <2>3 DEF Sink!Ahead
  <2>7. QED
    BY <1>7, <2>2, <2>4, <2>5, <2>6 DEF Sink!OrderInv
<1>13. /\ dropped \in Nat /\ reported \in Nat
       /\ Cardinality((1..wrote) \ (Sink!ToSet(stored) \cup Sink!OnItsWay)) <= dropped + reported
       /\ dropped + reported
            <= Cardinality((1..wrote) \ (Sink!ToSet(stored) \cup Sink!OnItsWay))
                 + Cardinality(doubted \ Sink!OnItsWay)
  BY <1>0, CountIs
<1>14. /\ (1..wrote) \ (Sink!ToSet(stored) \cup Sink!OnItsWay) = (1..w) \ (Sink!ToSet(stored) \cup K)
       /\ doubted \ Sink!OnItsWay = doubted \ K
  <2>1. 1..w = (1..wrote) \cup {w} /\ w \notin 1..wrote
    BY <1>2, <1>3
  <2>2. QED
    BY <1>2, <1>10, <2>1
<1>15. PICK n \in Nat : n = dropped + reported
  BY <1>13
<1>16. Cardinality(K \ Sink!OnItsWay') = c - lo
  BY <1>6, <1>11, RunCount
<1>17. PICK S, L : S = Sink!ToSet(stored) /\ L = Sink!OnItsWay'
  OBVIOUS
<1>18. /\ Cardinality((1..w) \ (S \cup L)) <= n + Cardinality(K \ L)
       /\ n + Cardinality(K \ L) <= Cardinality((1..w) \ (S \cup L)) + Cardinality(doubted \ L)
  <2>1. IsFiniteSet(1..w)
    <3>1. 1 \in Int /\ w \in Int
      OBVIOUS
    <3>2. QED
      BY <3>1, FS_Interval
  <2>2. S \cap K \subseteq doubted
    <3>1. ASSUME NEW x \in S, x \in K PROVE x \in doubted
      <4>1. x \in 1..wrote /\ x # w
        BY <1>2, <1>3, <1>17, <3>1
      <4>2. x \in Sink!OnItsWay
        BY <1>10, <3>1, <4>1
      <4>3. x < x \/ x \in doubted
        BY <1>0, <1>17, <4>2 DEF Sink!OrderInv, Sink!Ahead
      <4>4. QED
        BY <1>2, <4>1, <4>3
    <3>2. QED
      BY <3>1
  <2>3. /\ Cardinality((1..w) \ (S \cup K)) <= n
        /\ n <= Cardinality((1..w) \ (S \cup K)) + Cardinality(doubted \ K)
    BY <1>13, <1>14, <1>15, <1>17
  <2>4. L \subseteq K /\ K \subseteq 1..w /\ IsFiniteSet(doubted)
    BY <1>2, <1>11, <1>17
  <2>5. QED
    BY <2>1, <2>2, <2>3, <2>4, DropCount
<1>19. dropped' \in Nat /\ reported' \in Nat /\ dropped' + reported' = n + Cardinality(K \ L)
  BY <1>6, <1>7, <1>13, <1>15, <1>16, <1>17
<1>20. Sink!CountInv'
  BY <1>7, <1>17, <1>18, <1>19, CountIs
<1>21. QED
  BY <1>8, <1>12, <1>20

LEMMA SinkFlush ==
  ASSUME Sink!SinkInv, Sink!Flush
  PROVE  Sink!QueueInv' /\ Sink!OrderInv' /\ Sink!CountInv'
<1>0. Sink!QueueInv /\ Sink!OrderInv /\ Sink!CountInv
  BY DEF Sink!SinkInv
<1>1. PICK lo \in Nat, m \in Nat, k \in Nat :
        /\ k <= m /\ m <= lo /\ lo <= wrote
        /\ samples = Sink!Run(lo, wrote) /\ wrote - lo <= BufferCap
        /\ batch = Sink!Run(k, m) /\ (m = lo \/ wrote - lo = BufferCap)
  BY <1>0, QueueRuns
<1>2. /\ fpc = "idle" /\ batch' = samples /\ samples' = <<>> /\ batchChanges' = changes
      /\ fpc' \in {"idle", "writing", "final"}
      /\ fpc' = "idle" => samples = <<>> /\ changes = <<>>
      /\ UNCHANGED <<wrote, dropped, reported, stored, doubted>>
  BY DEF Sink!Flush, Sink!TickFlush, Sink!SignalFlush, Sink!FinalFlush, Sink!Drain,
     Sink!tableVars
<1>3. wrote \in Nat /\ batch = <<>>
  BY <1>0, <1>2 DEF Sink!QueueInv
<1>4. samples' = Sink!Run(wrote, wrote) /\ wrote - wrote <= BufferCap
  BY <1>2, <1>3, RunSeq
<1>5. Sink!QueueInv'
  <2>1. wrote \in 0..wrote /\ lo \in 0..wrote
    BY <1>1, <1>3
  <2>2. \E d \in 0..wrote' : \E e \in 0..d : \E f \in 0..e :
          /\ samples' = Sink!Run(d, wrote') /\ wrote' - d <= BufferCap
          /\ batch' = Sink!Run(f, e) /\ (e = d \/ wrote' - d = BufferCap)
    BY <1>1, <1>2, <1>4, <2>1
  <2>3. QED
    BY <1>2, <1>3, <2>2 DEF Sink!QueueInv
<1>6. Sink!OnItsWay' = Sink!OnItsWay
  BY <1>2, <1>3 DEF Sink!OnItsWay
<1>7. Sink!OrderInv'
  BY <1>0, <1>2, <1>6 DEF Sink!OrderInv
<1>8. Sink!CountInv'
  BY <1>0, <1>2, <1>6 DEF Sink!CountInv, Sink!Lost
<1>9. QED
  BY <1>5, <1>7, <1>8

(* The rows of the batch in the table, and what stays on its way.            *)
LEMMA SinkInsert ==
  ASSUME Sink!QueueInv, Sink!OrderInv, NEW D, doubted \subseteq D,
         NEW all, all = stored \o batch
  PROVE  /\ all \in Seq(1..wrote) /\ Sink!Ordered(all, D)
         /\ Sink!ToSet(all) = Sink!ToSet(stored) \cup Sink!ToSet(batch)
         /\ Sink!Ahead(Sink!ToSet(all), Sink!ToSet(samples), D)
<1>1. PICK lo \in Nat, m \in Nat, k \in Nat :
        /\ k <= m /\ m <= lo /\ lo <= wrote
        /\ samples = Sink!Run(lo, wrote) /\ batch = Sink!Run(k, m)
  BY QueueRuns
<1>2. /\ wrote \in Nat /\ Sink!ToSet(samples) = (lo + 1)..wrote
      /\ Sink!ToSet(batch) = (k + 1)..m
      /\ Sink!OnItsWay = ((lo + 1)..wrote) \cup ((k + 1)..m)
  BY <1>1, SinkState
<1>3. /\ stored \in Seq(1..wrote) /\ Sink!Ordered(stored, D)
      /\ \A x \in Sink!ToSet(stored), y \in Sink!OnItsWay : x < y \/ y \in D
  BY DEF Sink!OrderInv, Sink!Ordered, Sink!Ahead
<1>4. m <= wrote /\ Sink!Ahead(Sink!ToSet(stored), (k + 1)..m, D)
  BY <1>1, <1>2, <1>3 DEF Sink!Ahead
<1>5. /\ all \in Seq(1..wrote) /\ Sink!Ordered(all, D)
      /\ Sink!ToSet(all) = Sink!ToSet(stored) \cup Sink!ToSet(batch)
  <2>1. PICK w, st : w = wrote /\ st = stored
    OBVIOUS
  <2>2. /\ w \in Nat /\ st \in Seq(1..w) /\ Sink!Ordered(st, D) /\ m <= w /\ k <= m
        /\ Sink!Ahead(Sink!ToSet(st), Sink!ToSet(Sink!Run(k, m)), D)
    BY <1>1, <1>2, <1>3, <1>4, <2>1
  <2>3. /\ st \o Sink!Run(k, m) \in Seq(1..w) /\ Sink!Ordered(st \o Sink!Run(k, m), D)
        /\ Sink!ToSet(st \o Sink!Run(k, m)) = Sink!ToSet(st) \cup Sink!ToSet(Sink!Run(k, m))
    BY <2>2, RowsAdded
  <2>4. QED
    BY <1>1, <2>1, <2>3
<1>6. ASSUME NEW x \in Sink!ToSet(all), NEW y \in Sink!ToSet(samples) PROVE x < y \/ y \in D
  <2>1. CASE x \in Sink!ToSet(stored)
    BY <1>2, <1>3, <2>1
  <2>2. CASE x \in Sink!ToSet(batch)
    BY <1>1, <1>2, <2>2
  <2>3. QED
    BY <1>5, <2>1, <2>2
<1>7. QED
  BY <1>5, <1>6 DEF Sink!Ahead

LEMMA SinkCommit ==
  ASSUME Sink!SinkInv, Sink!Commit
  PROVE  Sink!QueueInv' /\ Sink!OrderInv' /\ Sink!CountInv'
<1>0. Sink!QueueInv /\ Sink!OrderInv /\ Sink!CountInv
  BY DEF Sink!SinkInv
<1>1. PICK lo \in Nat, m \in Nat, k \in Nat :
        /\ k <= m /\ m <= lo /\ lo <= wrote
        /\ samples = Sink!Run(lo, wrote) /\ wrote - lo <= BufferCap
        /\ batch = Sink!Run(k, m) /\ (m = lo \/ wrote - lo = BufferCap)
  BY <1>0, QueueRuns
<1>2. /\ wrote \in Nat /\ IsFiniteSet(doubted) /\ doubted \subseteq 1..wrote
      /\ IsFiniteSet(1..wrote)
  BY <1>0, <1>1, SinkState
<1>3. /\ stored' = stored \o batch /\ batch' = <<>> /\ batchChanges' = <<>>
      /\ fpc' \in {"idle", "stopped"} /\ UNCHANGED <<wrote, samples, doubted>>
      /\ dropped' = IF fpc = "final" THEN 0 ELSE dropped
      /\ reported' = IF fpc = "final" THEN reported + dropped ELSE reported
  BY DEF Sink!Commit, Sink!Insert, Sink!InsertSamples, Sink!AfterFlush
<1>4. Sink!QueueInv'
  <2>1. batch' = Sink!Run(lo, lo)
    BY <1>3, RunSeq
  <2>2. lo \in 0..wrote /\ lo \in 0..lo
    BY <1>1, <1>2
  <2>3. \E d \in 0..wrote' : \E e \in 0..d : \E f \in 0..e :
          /\ samples' = Sink!Run(d, wrote') /\ wrote' - d <= BufferCap
          /\ batch' = Sink!Run(f, e) /\ (e = d \/ wrote' - d = BufferCap)
    BY <1>1, <1>3, <2>1, <2>2
  <2>4. QED
    BY <1>2, <1>3, <2>3 DEF Sink!QueueInv
<1>5. Sink!OnItsWay' = Sink!ToSet(samples)
  BY <1>3 DEF Sink!OnItsWay, Sink!ToSet
<1>6. PICK all : all = stored \o batch
  OBVIOUS
<1>7. /\ all \in Seq(1..wrote) /\ Sink!Ordered(all, doubted)
      /\ Sink!ToSet(all) = Sink!ToSet(stored) \cup Sink!ToSet(batch)
      /\ Sink!Ahead(Sink!ToSet(all), Sink!ToSet(samples), doubted)
  BY <1>0, <1>6, SinkInsert
<1>8. Sink!OrderInv'
  <2>1. stored' = all /\ doubted' = doubted /\ wrote' = wrote
    BY <1>3, <1>6
  <2>2. QED
    BY <1>2, <1>5, <1>7, <2>1 DEF Sink!OrderInv
<1>9. Sink!CountInv'
  <2>1. /\ dropped \in Nat /\ reported \in Nat
        /\ Cardinality((1..wrote) \ (Sink!ToSet(stored) \cup Sink!OnItsWay)) <= dropped + reported
        /\ dropped + reported
            <= Cardinality((1..wrote) \ (Sink!ToSet(stored) \cup Sink!OnItsWay))
                 + Cardinality(doubted \ Sink!OnItsWay)
    BY <1>0, CountIs
  <2>2. Sink!ToSet(stored') \cup Sink!OnItsWay' = Sink!ToSet(stored) \cup Sink!OnItsWay
    BY <1>3, <1>5, <1>6, <1>7 DEF Sink!OnItsWay
  <2>3. Sink!OnItsWay' \subseteq Sink!OnItsWay
    BY <1>5 DEF Sink!OnItsWay
  <2>4. PICK A, B : A = doubted \ Sink!OnItsWay /\ B = doubted \ Sink!OnItsWay'
    OBVIOUS
  <2>5. A \subseteq B /\ B \subseteq doubted
    BY <2>3, <2>4
  <2>6. /\ Cardinality(A) <= Cardinality(B) /\ Cardinality(A) \in Nat /\ Cardinality(B) \in Nat
    <3>1. IsFiniteSet(B)
      BY <1>2, <2>5, FS_Subset
    <3>2. IsFiniteSet(A) /\ Cardinality(A) <= Cardinality(B)
      BY <2>5, <3>1, FS_Subset
    <3>3. QED
      BY <3>1, <3>2, FS_CardinalityType
  <2>7. PICK l : l = Cardinality((1..wrote) \ (Sink!ToSet(stored) \cup Sink!OnItsWay))
    OBVIOUS
  <2>8. l \in Nat
    <3>1. IsFiniteSet((1..wrote) \ (Sink!ToSet(stored) \cup Sink!OnItsWay))
      BY <1>2, FS_Subset
    <3>2. QED
      BY <2>7, <3>1, FS_CardinalityType
  <2>9. dropped' \in Nat /\ reported' \in Nat /\ dropped' + reported' = dropped + reported
    BY <1>3, <2>1
  <2>10. l <= dropped + reported /\ dropped + reported <= l + Cardinality(A)
    BY <2>1, <2>4, <2>7
  <2>11. dropped + reported <= l + Cardinality(B)
    BY <2>1, <2>6, <2>8, <2>10
  <2>12. /\ l = Cardinality((1..wrote') \ (Sink!ToSet(stored') \cup Sink!OnItsWay'))
         /\ doubted' \ Sink!OnItsWay' = B
    BY <1>3, <2>2, <2>4, <2>7
  <2>13. QED
    BY <2>9, <2>10, <2>11, <2>12, CountIs
<1>10. QED
  BY <1>4, <1>8, <1>9

LEMMA SinkFails ==
  ASSUME Sink!SinkInv, Sink!FlushFails \/ Sink!CommitInDoubt
  PROVE  Sink!QueueInv' /\ Sink!OrderInv' /\ Sink!CountInv'
<1>0. Sink!QueueInv /\ Sink!OrderInv /\ Sink!CountInv
  BY DEF Sink!SinkInv
<1>1. PICK S, Dd : S = Sink!ToSet(stored') /\ Dd = doubted'
  OBVIOUS
<1>2. Sink!Requeue /\ wrote' = wrote
  BY DEF Sink!FlushFails, Sink!CommitInDoubt, Sink!Requeue
<1>3. PICK lo \in Nat, m \in Nat, k \in Nat :
        /\ k <= m /\ m <= lo /\ lo <= wrote
        /\ samples = Sink!Run(lo, wrote) /\ batch = Sink!Run(k, m)
  BY <1>0, QueueRuns
<1>4. /\ wrote \in Nat /\ doubted \subseteq 1..wrote /\ Sink!OnItsWay \subseteq 1..wrote
  BY <1>0, <1>3, SinkState
\* The tables after the insert and before the requeue.
<1>5. /\ stored' \in Seq(1..wrote) /\ doubted' \subseteq 1..wrote
      /\ Sink!Ordered(stored', doubted') /\ Sink!Ahead(S, Sink!OnItsWay, Dd)
      /\ S \cup Sink!OnItsWay = Sink!ToSet(stored) \cup Sink!OnItsWay
      /\ Dd \ Sink!OnItsWay = doubted \ Sink!OnItsWay
  <2>1. CASE Sink!FlushFails
    <3>1. stored' = stored /\ doubted' = doubted
      BY <2>1 DEF Sink!FlushFails, Sink!tableVars
    <3>2. QED
      BY <1>0, <1>1, <3>1 DEF Sink!OrderInv
  <2>2. CASE Sink!CommitInDoubt
    <3>1. stored' = stored \o batch /\ doubted' = doubted \cup Sink!ToSet(batch)
      BY <2>2 DEF Sink!CommitInDoubt, Sink!Insert, Sink!InsertSamples
    <3>2. PICK all, D : all = stored \o batch /\ D = doubted \cup Sink!ToSet(batch)
      OBVIOUS
    <3>3. doubted \subseteq D
      BY <3>2
    <3>4. /\ all \in Seq(1..wrote) /\ Sink!Ordered(all, D)
          /\ Sink!ToSet(all) = Sink!ToSet(stored) \cup Sink!ToSet(batch)
          /\ Sink!Ahead(Sink!ToSet(all), Sink!ToSet(samples), D)
      BY <1>0, <3>2, <3>3, SinkInsert
    <3>5. stored' = all /\ doubted' = D /\ S = Sink!ToSet(all) /\ Dd = D
      BY <1>1, <3>1, <3>2
    <3>6. Sink!ToSet(batch) \subseteq Sink!OnItsWay
      BY DEF Sink!OnItsWay
    <3>7. Sink!Ahead(S, Sink!OnItsWay, Dd)
      BY <3>2, <3>4, <3>5 DEF Sink!OnItsWay, Sink!Ahead
    <3>8. D \subseteq 1..wrote
      BY <1>4, <3>2, <3>6
    <3>9. /\ S \cup Sink!OnItsWay = Sink!ToSet(stored) \cup Sink!OnItsWay
          /\ Dd \ Sink!OnItsWay = doubted \ Sink!OnItsWay
      BY <3>2, <3>4, <3>5, <3>6
    <3>10. QED
      BY <3>4, <3>5, <3>7, <3>8, <3>9
  <2>3. QED
    BY <2>1, <2>2
<1>6. /\ dropped \in Nat /\ reported \in Nat
      /\ Cardinality((1..wrote) \ (S \cup Sink!OnItsWay)) <= dropped + reported
      /\ dropped + reported <= Cardinality((1..wrote) \ (S \cup Sink!OnItsWay))
                                 + Cardinality(Dd \ Sink!OnItsWay)
  BY <1>0, <1>5, CountIs
<1>7. /\ Sink!QueueInv' /\ Sink!OnItsWay' \subseteq Sink!OnItsWay
      /\ dropped' \in Nat /\ reported' \in Nat
      /\ Cardinality((1..wrote) \ (S \cup Sink!OnItsWay')) <= dropped' + reported'
      /\ dropped' + reported' <= Cardinality((1..wrote) \ (S \cup Sink!OnItsWay'))
                                   + Cardinality(Dd \ Sink!OnItsWay')
  <2>1. Dd \subseteq 1..wrote
    BY <1>1, <1>5
  <2>2. QED
    BY <1>0, <1>2, <1>5, <1>6, <2>1, SinkRequeue
<1>8. Sink!CountInv'
  BY <1>1, <1>2, <1>7, CountIs
<1>9. Sink!OrderInv'
  <2>1. Sink!Ahead(S, Sink!OnItsWay', Dd)
    BY <1>5, <1>7 DEF Sink!Ahead
  <2>2. QED
    BY <1>1, <1>2, <1>5, <2>1 DEF Sink!OrderInv
<1>10. QED
  BY <1>7, <1>8, <1>9

LEMMA SinkStep ==
  ASSUME Sink!SinkInv, [Sink!Next]_(Sink!vars)
  PROVE  Sink!SinkInv'
<1>1. ASSUME UNCHANGED <<wrote, samples, batch, batchChanges, fpc, stored, doubted>>,
             dropped' \in Nat, reported' \in Nat, dropped' + reported' = dropped + reported
      PROVE  Sink!QueueInv' /\ Sink!OrderInv' /\ Sink!CountInv'
  <2>1. Sink!QueueInv /\ Sink!OrderInv /\ Sink!CountInv
    BY DEF Sink!SinkInv
  <2>2. Sink!OnItsWay' = Sink!OnItsWay
    BY <1>1 DEF Sink!OnItsWay
  <2>3. Sink!QueueInv'
    BY <1>1, <2>1 DEF Sink!QueueInv
  <2>4. Sink!OrderInv'
    BY <1>1, <2>1, <2>2 DEF Sink!OrderInv
  <2>5. Sink!CountInv'
    BY <1>1, <2>1, <2>2, CountIs
  <2>6. QED
    BY <2>3, <2>4, <2>5
<1>2. dropped \in Nat /\ reported \in Nat
  BY DEF Sink!SinkInv, Sink!CountInv
<1>3. CASE Sink!LogDropped
  <2>1. /\ UNCHANGED <<wrote, samples, batch, batchChanges, fpc, stored, doubted>>
        /\ reported' = reported + dropped /\ dropped' = 0
    BY <1>3 DEF Sink!LogDropped, Sink!tableVars
  <2>2. dropped' \in Nat /\ reported' \in Nat /\ dropped' + reported' = dropped + reported
    BY <1>2, <2>1
  <2>3. QED
    BY <1>1, <1>3, <2>1, <2>2, ChangeStep DEF Sink!SinkInv, Sink!Next
<1>4. CASE Sink!WriteRouteChange \/ Sink!Cancel \/ Sink!Done
  <2>1. UNCHANGED <<wrote, samples, batch, batchChanges, fpc, stored, doubted, dropped, reported>>
    BY <1>4 DEF Sink!WriteRouteChange, Sink!Cancel, Sink!Done, Sink!vars, Sink!tableVars,
       Sink!bufferVars
  <2>2. dropped' \in Nat /\ reported' \in Nat /\ dropped' + reported' = dropped + reported
    BY <1>2, <2>1
  <2>3. QED
    BY <1>1, <1>4, <2>1, <2>2, ChangeStep DEF Sink!SinkInv, Sink!Next
<1>5. CASE UNCHANGED Sink!vars
  <2>1. /\ UNCHANGED <<wrote, samples, batch, batchChanges, fpc, stored, doubted, dropped, reported>>
        /\ UNCHANGED <<wroteChanges, changes, storedChanges, doubts>>
    BY <1>5 DEF Sink!vars, Sink!tableVars, Sink!bufferVars
  <2>2. dropped' \in Nat /\ reported' \in Nat /\ dropped' + reported' = dropped + reported
    BY <1>2, <2>1
  <2>3. Sink!ChangeInv'
    BY <2>1 DEF Sink!SinkInv, Sink!ChangeInv
  <2>4. QED
    BY <1>1, <2>1, <2>2, <2>3 DEF Sink!SinkInv
<1>6. CASE Sink!WriteSample \/ Sink!Flush \/ Sink!Commit \/ Sink!FlushFails \/ Sink!CommitInDoubt
  BY <1>6, SinkWrite, SinkFlush, SinkCommit, SinkFails, ChangeStep DEF Sink!SinkInv, Sink!Next
<1>7. QED
  BY <1>3, <1>4, <1>5, <1>6 DEF Sink!Next

LEMMA SinkStart ==
  ASSUME Sink!Init
  PROVE  Sink!SinkInv
<1>1. Sink!Run(0, 0) = <<>> /\ 0 - 0 <= BufferCap /\ 0 \in 0..0
  BY RunSeq
<1>2. /\ wrote = 0 /\ wroteChanges = 0 /\ samples = <<>> /\ changes = <<>> /\ batch = <<>>
      /\ batchChanges = <<>> /\ fpc = "idle" /\ dropped = 0 /\ reported = 0 /\ stored = <<>>
      /\ storedChanges = <<>> /\ doubted = {} /\ doubts = 0
  BY DEF Sink!Init
<1>3. Sink!QueueInv
  BY <1>1, <1>2 DEF Sink!QueueInv
<1>4. Sink!ToSet(stored) = {} /\ Sink!OnItsWay = {}
  BY <1>2 DEF Sink!ToSet, Sink!OnItsWay
<1>5. Sink!OrderInv
  <2>1. stored \in Seq(1..wrote) /\ DOMAIN stored = {}
    BY <1>2
  <2>2. QED
    BY <1>2, <1>4, <2>1 DEF Sink!OrderInv, Sink!Ordered, Sink!Ahead
<1>6. Sink!ChangeInv
  BY <1>1, <1>2 DEF Sink!ChangeInv
<1>7. Sink!CountInv
  <2>1. (1..wrote) \ (Sink!ToSet(stored) \cup Sink!OnItsWay) = {} /\ doubted \ Sink!OnItsWay = {}
    BY <1>2
  <2>2. Cardinality({}) = 0
    BY FS_EmptySet
  <2>3. QED
    BY <1>2, <2>1, <2>2, CountIs
<1>8. QED
  BY <1>3, <1>5, <1>6, <1>7 DEF Sink!SinkInv

(* Whatever fails and is retried, only the oldest samples are dropped, rows  *)
(* are inserted in the order in which they were measured except for a batch  *)
(* whose commit was in doubt, and so are route changes.                      *)
THEOREM RowsInOrder == Sink!Spec => []InOrder
<1>1. Sink!SinkInv => InOrder
  <2> SUFFICES ASSUME Sink!SinkInv PROVE InOrder
    OBVIOUS
  <2>1. PICK lo \in Nat, m \in Nat, k \in Nat :
          k <= m /\ m <= lo /\ lo <= wrote /\ samples = Sink!Run(lo, wrote)
    BY QueueRuns DEF Sink!SinkInv
  <2>2. wrote \in Nat /\ Len(samples) = wrote - lo
    BY <2>1, RunSeq DEF Sink!SinkInv, Sink!QueueInv
  <2>3. wrote - Len(samples) = lo
    BY <2>2
  <2>4. Sink!NoHole
    BY <2>1, <2>2, <2>3 DEF Sink!NoHole, Sink!Run
  <2>5. Sink!Ordered(stored, doubted)
    BY DEF Sink!SinkInv, Sink!OrderInv
  <2>6. ASSUME doubts = 0, NEW i \in DOMAIN storedChanges, NEW j \in DOMAIN storedChanges, i < j
        PROVE  storedChanges[i] < storedChanges[j]
    <3>1. PICK b \in 0..wroteChanges : \E a \in 0..b : storedChanges = Sink!Run(0, a)
      BY <2>6 DEF Sink!SinkInv, Sink!ChangeInv
    <3>2. PICK a \in 0..b : storedChanges = Sink!Run(0, a)
      BY <3>1
    <3>3. a \in Nat /\ 0 <= a /\ a - 0 = a
      BY DEF Sink!SinkInv, Sink!ChangeInv
    <3>4. /\ storedChanges \in Seq(Nat) /\ Len(storedChanges) = a
          /\ \A q \in 1..a : storedChanges[q] = 0 + q
      BY <3>2, <3>3, RunSeq
    <3>5. i \in 1..a /\ j \in 1..a
      BY <3>4, LenProperties
    <3>6. storedChanges[i] = 0 + i /\ storedChanges[j] = 0 + j
      BY <3>4, <3>5
    <3>7. QED
      BY <2>6, <3>3, <3>5, <3>6
  <2>7. QED
    BY <2>4, <2>5, <2>6 DEF InOrder, Sink!InOrder
<1>2. QED
  BY <1>1, SinkStart, SinkStep, PTL DEF Sink!Spec

(* Every sample is stored, on its way or counted as dropped, and nothing is  *)
(* counted that was not lost or in doubt.                                    *)
THEOREM SamplesAccounted == Sink!Spec => []Accounted
<1>1. Sink!SinkInv => Accounted
  <2> SUFFICES ASSUME Sink!SinkInv PROVE Accounted
    OBVIOUS
  <2>1. PICK lo \in Nat, m \in Nat, k \in Nat :
        /\ k <= m /\ m <= lo /\ lo <= wrote
        /\ samples = Sink!Run(lo, wrote) /\ batch = Sink!Run(k, m)
    BY QueueRuns DEF Sink!SinkInv
  <2>2. IsFiniteSet(doubted) /\ IsFiniteSet(1..wrote)
    BY <2>1, SinkState DEF Sink!SinkInv
  <2>3. /\ dropped \in Nat /\ reported \in Nat
        /\ Cardinality((1..wrote) \ (Sink!ToSet(stored) \cup Sink!OnItsWay)) <= dropped + reported
        /\ dropped + reported
             <= Cardinality((1..wrote) \ (Sink!ToSet(stored) \cup Sink!OnItsWay))
                  + Cardinality(doubted \ Sink!OnItsWay)
    BY CountIs DEF Sink!SinkInv
  <2>4. /\ Cardinality(doubted \ Sink!OnItsWay) <= Cardinality(doubted)
        /\ Cardinality(doubted \ Sink!OnItsWay) \in Nat /\ Cardinality(doubted) \in Nat
    <3>1. IsFiniteSet(doubted \ Sink!OnItsWay)
           /\ Cardinality(doubted \ Sink!OnItsWay) <= Cardinality(doubted)
      BY <2>2, FS_Subset, doubted \ Sink!OnItsWay \subseteq doubted
    <3>2. QED
      BY <2>2, <3>1, FS_CardinalityType
  <2>5. PICK L : L = (1..wrote) \ (Sink!ToSet(stored) \cup Sink!OnItsWay)
    OBVIOUS
  <2>6. Cardinality(L) \in Nat
    <3>1. IsFiniteSet(L)
      BY <2>2, <2>5, FS_Subset
    <3>2. QED
      BY <3>1, FS_CardinalityType
  <2>7. Cardinality(L) <= dropped + reported
        /\ dropped + reported <= Cardinality(L) + Cardinality(doubted)
    BY <2>3, <2>4, <2>5, <2>6
  <2>8. (1..wrote) \ (Sink!ToSet(stored) \cup Sink!ToSet(samples) \cup Sink!ToSet(batch)) = L
    BY <2>5 DEF Sink!OnItsWay
  <2>9. QED
    BY <2>7, <2>8, SinkCard DEF Accounted, Sink!Accounted
<1>2. QED
  BY <1>1, SinkStart, SinkStep, PTL DEF Sink!Spec

(* What SinkInv leaves open of the ranges: a batch is no longer than the     *)
(* buffer was, and what is in doubt is in the table.                         *)
BufferInv ==
  /\ wrote <= MaxSamples /\ wroteChanges <= MaxChanges /\ doubts <= MaxDoubts
  /\ changes \in Seq(1..MaxChanges) /\ batchChanges \in Seq(1..MaxChanges)
  /\ storedChanges \in Seq(1..MaxChanges)
  /\ signal \in BOOLEAN /\ stopping \in BOOLEAN
  /\ Len(batch) <= BufferCap /\ doubted \subseteq Sink!ToSet(stored)

LEMMA InSeq ==
  ASSUME NEW T, NEW S, NEW s \in Seq(T), \A i \in 1..Len(s) : s[i] \in S
  PROVE  s \in Seq(S)
<1>1. Len(s) \in Nat /\ s \in [1..Len(s) -> T] /\ DOMAIN s = 1..Len(s)
  BY LenProperties
<1>2. s \in [1..Len(s) -> S]
  BY <1>1
<1>3. QED
  BY <1>1, <1>2, SeqDef

LEMMA SinkLengths ==
  ASSUME Sink!SinkInv
  PROVE  /\ wrote \in Nat /\ wroteChanges \in Nat /\ doubts \in Nat
         /\ stored \in Seq(Nat) /\ samples \in Seq(1..wrote) /\ batch \in Seq(1..wrote)
         /\ Len(samples) <= BufferCap
<1>1. wrote \in Nat /\ wroteChanges \in Nat /\ doubts \in Nat /\ stored \in Seq(1..wrote)
  BY DEF Sink!SinkInv, Sink!QueueInv, Sink!ChangeInv, Sink!OrderInv
<1>2. stored \in Seq(Nat)
  <2>1. \A i \in 1..Len(stored) : stored[i] \in Nat
    BY <1>1, ElementOfSeq
  <2>2. QED
    BY <1>1, <2>1, InSeq
<1>3. PICK lo \in Nat, m \in Nat, k \in Nat :
        /\ k <= m /\ m <= lo /\ lo <= wrote
        /\ samples = Sink!Run(lo, wrote) /\ wrote - lo <= BufferCap
        /\ batch = Sink!Run(k, m)
  BY QueueRuns DEF Sink!SinkInv
<1>4. ASSUME NEW a \in Nat, NEW b \in Nat, a <= b, b <= wrote
      PROVE  Sink!Run(a, b) \in Seq(1..wrote) /\ Len(Sink!Run(a, b)) = b - a
  <2>1. PICK s : s = Sink!Run(a, b)
    OBVIOUS
  <2>2. s \in Seq(Nat) /\ Len(s) = b - a /\ \A i \in 1..(b - a) : s[i] = a + i
    <3>1. /\ Sink!Run(a, b) \in Seq(Nat) /\ Len(Sink!Run(a, b)) = b - a
          /\ \A i \in 1..(b - a) : Sink!Run(a, b)[i] = a + i
      BY <1>4, RunSeq, Zenon
    <3>2. QED
      BY <2>1, <3>1, Zenon
  <2>3. \A i \in 1..Len(s) : s[i] \in 1..wrote
    BY <1>1, <1>4, <2>2
  <2>4. QED
    BY <2>1, <2>2, <2>3, InSeq
<1>5. m <= wrote /\ wrote <= wrote
  BY <1>1, <1>3
<1>6. QED
  BY <1>1, <1>2, <1>3, <1>4, <1>5

(* Both sequences are found in their concatenation.                          *)
LEMMA RangeConcat ==
  ASSUME NEW s \in Seq(Nat), NEW t \in Seq(Nat)
  PROVE  Sink!ToSet(s) \cup Sink!ToSet(t) \subseteq Sink!ToSet(s \o t)
<1>1. /\ Len(s) \in Nat /\ Len(t) \in Nat /\ DOMAIN s = 1..Len(s) /\ DOMAIN t = 1..Len(t)
      /\ s \o t \in Seq(Nat) /\ Len(s \o t) = Len(s) + Len(t) /\ DOMAIN (s \o t) = 1..Len(s \o t)
      /\ \A i \in 1..(Len(s) + Len(t)) : (s \o t)[i] = IF i <= Len(s) THEN s[i] ELSE t[i - Len(s)]
  BY LenProperties, ConcatProperties
<1>2. PICK n \in Nat, l \in Nat : n = Len(s) /\ l = Len(t)
  BY <1>1
<1>3. PICK u : u = s \o t
  OBVIOUS
<1>4. DOMAIN u = 1..(n + l)
      /\ \A i \in 1..(n + l) : u[i] = IF i <= n THEN s[i] ELSE t[i - n]
  BY <1>1, <1>2, <1>3
<1>5. \A i \in 1..n : i \in DOMAIN u /\ u[i] = s[i]
  BY <1>4
<1>6. ASSUME NEW j \in 1..l
      PROVE  n + j \in DOMAIN u /\ u[n + j] = t[j]
  <2>1. n + j \in 1..(n + l) /\ ~(n + j <= n) /\ (n + j) - n = j
    OBVIOUS
  <2>2. QED
    BY <1>4, <2>1
<1>7. \A x \in Sink!ToSet(s) : \E i \in 1..n : x = s[i]
  BY <1>1, <1>2 DEF Sink!ToSet
<1>8. \A x \in Sink!ToSet(t) : \E j \in 1..l : x = t[j]
  BY <1>1, <1>2 DEF Sink!ToSet
<1>9. Sink!ToSet(s) \subseteq Sink!ToSet(u)
  BY <1>5, <1>7 DEF Sink!ToSet
<1>10. Sink!ToSet(t) \subseteq Sink!ToSet(u)
  <2>1. \A y \in DOMAIN u : u[y] \in Sink!ToSet(u)
    BY DEF Sink!ToSet
  <2>2. \A j \in 1..l : t[j] \in Sink!ToSet(u)
    BY <1>6, <2>1
  <2>3. QED
    BY <1>8, <2>2
<1>11. QED
  BY <1>3, <1>9, <1>10

LEMMA BufferStep ==
  ASSUME Sink!SinkInv, BufferInv, [Sink!Next]_(Sink!vars)
  PROVE  BufferInv'
<1> USE DEF BufferInv
<1>i. /\ wrote \in Nat /\ wroteChanges \in Nat /\ doubts \in Nat
      /\ stored \in Seq(Nat) /\ batch \in Seq(Nat) /\ Len(samples) <= BufferCap
  <2>1. batch \in Seq(1..wrote) /\ wrote \in Nat
    BY SinkLengths
  <2>2. \A i \in 1..Len(batch) : batch[i] \in Nat
    BY <2>1, ElementOfSeq
  <2>3. batch \in Seq(Nat)
    BY <2>1, <2>2, InSeq
  <2>4. QED
    BY <2>3, SinkLengths
<1>n. <<>> \in Seq(1..MaxChanges) /\ Len(<<>>) <= BufferCap
  OBVIOUS
<1>1. CASE Sink!WriteSample
  <2>1. wrote' <= MaxSamples
    BY <1>1, <1>i DEF Sink!WriteSample
  <2>2. signal' \in BOOLEAN
    BY <1>1 DEF Sink!WriteSample
  <2>3. UNCHANGED <<wroteChanges, changes, batch, batchChanges, stopping, stored, storedChanges,
                    doubted, doubts>>
    BY <1>1 DEF Sink!WriteSample, Sink!tableVars
  <2>4. QED
    BY <2>1, <2>2, <2>3
<1>2. CASE Sink!WriteRouteChange
  <2>1. /\ wroteChanges < MaxChanges /\ wroteChanges' = wroteChanges + 1
        /\ changes' = Append(changes, wroteChanges + 1)
        /\ UNCHANGED <<wrote, signal, batch, batchChanges, stopping, stored, storedChanges,
                       doubted, doubts>>
    BY <1>2 DEF Sink!WriteRouteChange, Sink!tableVars
  <2>2. wroteChanges + 1 \in 1..MaxChanges
    BY <2>1, <1>i
  <2>3. QED
    BY <2>1, <2>2
<1>3. CASE Sink!Flush
  <2>1. /\ batch' = samples /\ batchChanges' = changes /\ changes' = <<>> /\ signal' \in {signal, FALSE}
        /\ UNCHANGED <<wrote, wroteChanges, stopping, stored, storedChanges, doubted, doubts>>
    BY <1>3 DEF Sink!Flush, Sink!TickFlush, Sink!SignalFlush, Sink!FinalFlush, Sink!Drain, Sink!tableVars
  <2>2. QED
    BY <2>1, <1>i, <1>n
<1>4. CASE Sink!Commit
  <2>1. /\ batch' = <<>> /\ batchChanges' = <<>>
        /\ stored' = stored \o batch /\ storedChanges' = storedChanges \o batchChanges
        /\ UNCHANGED <<wrote, wroteChanges, changes, signal, stopping, doubted, doubts>>
    BY <1>4 DEF Sink!Commit, Sink!Insert, Sink!InsertSamples, Sink!InsertRouteChanges, Sink!AfterFlush
  <2>2. doubted \subseteq Sink!ToSet(stored \o batch)
    BY <1>i, RangeConcat
  <2>3. storedChanges \o batchChanges \in Seq(1..MaxChanges)
    OBVIOUS
  <2>4. QED
    BY <2>1, <2>2, <2>3, <1>n
<1>5. CASE Sink!FlushFails \/ Sink!CommitInDoubt
  <2>1. /\ batch' = <<>> /\ batchChanges' = <<>> /\ changes' = batchChanges \o changes
        /\ UNCHANGED <<wrote, wroteChanges, signal, stopping>>
    BY <1>5 DEF Sink!FlushFails, Sink!CommitInDoubt, Sink!Requeue, Sink!Merged, Sink!AfterFlush
  <2>2. batchChanges \o changes \in Seq(1..MaxChanges)
    OBVIOUS
  <2>3. \/ UNCHANGED <<stored, storedChanges, doubted, doubts>>
        \/ /\ stored' = stored \o batch /\ storedChanges' = storedChanges \o batchChanges
           /\ doubted' = doubted \cup Sink!ToSet(batch) /\ doubts' = doubts + 1 /\ doubts < MaxDoubts
    BY <1>5 DEF Sink!FlushFails, Sink!CommitInDoubt, Sink!Insert, Sink!InsertSamples,
                Sink!InsertRouteChanges, Sink!tableVars
  <2>4. doubted \cup Sink!ToSet(batch) \subseteq Sink!ToSet(stored \o batch)
    BY <1>i, RangeConcat
  <2>5. storedChanges \o batchChanges \in Seq(1..MaxChanges)
    OBVIOUS
  <2>6. storedChanges' \in Seq(1..MaxChanges) /\ doubts' <= MaxDoubts
    <3>1. CASE UNCHANGED <<stored, storedChanges, doubted, doubts>>
      BY <3>1
    <3>2. CASE storedChanges' = storedChanges \o batchChanges /\ doubts' = doubts + 1 /\ doubts < MaxDoubts
      <4>1. doubts' <= MaxDoubts
        BY <3>2, <1>i
      <4>2. QED
        BY <3>2, <4>1, <2>5
    <3>3. QED
      BY <3>1, <3>2, <2>3
  <2>7. doubted' \subseteq Sink!ToSet(stored')
    BY <2>3, <2>4
  <2>8. QED
    BY <2>1, <2>2, <2>6, <2>7, <1>n
<1>6. CASE Sink!LogDropped \/ Sink!Done \/ UNCHANGED Sink!vars
  BY <1>6 DEF Sink!LogDropped, Sink!Done, Sink!vars, Sink!tableVars, Sink!bufferVars
<1>7. CASE Sink!Cancel
  BY <1>7 DEF Sink!Cancel, Sink!tableVars, Sink!bufferVars
<1>8. QED
  BY <1>1, <1>2, <1>3, <1>4, <1>5, <1>6, <1>7 DEF Sink!Next

(* The sink's memory stays within bufferCap, in the buffer as in the batch   *)
(* that is out, however long the store refuses; and no sample is counted as  *)
(* dropped twice (WriteSample, requeue, logDropped).                         *)
THEOREM SinkIsBounded == Sink!Spec => []Sink!TypeOK
<1>1. Sink!Init => BufferInv
  <2>1. <<>> \in Seq(1..MaxChanges) /\ Len(<<>>) <= BufferCap
    OBVIOUS
  <2>2. ASSUME Sink!Init
        PROVE  BufferInv
    <3>1. /\ wrote = 0 /\ wroteChanges = 0 /\ doubts = 0 /\ doubted = {}
          /\ changes = <<>> /\ batchChanges = <<>> /\ storedChanges = <<>> /\ batch = <<>>
          /\ signal = FALSE /\ stopping = FALSE
      BY <2>2 DEF Sink!Init
    <3>2. wrote <= MaxSamples /\ wroteChanges <= MaxChanges /\ doubts <= MaxDoubts
      BY <3>1
    <3>3. QED
      BY <2>1, <3>1, <3>2 DEF BufferInv
  <2>3. QED
    BY <2>2
<1>2. Sink!SinkInv /\ BufferInv => Sink!TypeOK
  <2> SUFFICES ASSUME Sink!SinkInv, BufferInv
               PROVE  Sink!TypeOK
    OBVIOUS
  <2>i. /\ wrote \in Nat /\ wroteChanges \in Nat /\ doubts \in Nat /\ wrote <= MaxSamples
        /\ fpc \in {"idle", "writing", "final", "stopped"}
        /\ stored \in Seq(1..wrote) /\ samples \in Seq(1..wrote) /\ batch \in Seq(1..wrote)
        /\ Len(samples) <= BufferCap
    BY SinkLengths DEF BufferInv, Sink!SinkInv, Sink!QueueInv, Sink!OrderInv
  <2>1. 1..wrote \subseteq 1..MaxSamples
    BY <2>i
  <2>2. \A s \in Seq(1..wrote) : s \in Seq(1..MaxSamples)
    <3>1. ASSUME NEW s \in Seq(1..wrote)
          PROVE  s \in Seq(1..MaxSamples)
      <4>1. \A i \in 1..Len(s) : s[i] \in 1..MaxSamples
        BY <2>1, ElementOfSeq
      <4>2. QED
        BY <4>1, InSeq
    <3>2. QED
      BY <3>1
  <2>3. dropped + reported \in 0..wrote
    <3>1. PICK lo \in Nat, m \in Nat, k \in Nat :
          /\ k <= m /\ m <= lo /\ lo <= wrote
          /\ samples = Sink!Run(lo, wrote) /\ batch = Sink!Run(k, m)
      BY QueueRuns DEF Sink!SinkInv
    <3>2. PICK L, Dd : /\ L = (1..wrote) \ (Sink!ToSet(stored) \cup Sink!OnItsWay)
                       /\ Dd = doubted \ Sink!OnItsWay
      OBVIOUS
    <3>3. IsFiniteSet(1..wrote) /\ doubted \subseteq 1..wrote
      BY <3>1, SinkState DEF Sink!SinkInv
    <3>4. dropped \in Nat /\ reported \in Nat /\ dropped + reported <= Cardinality(L) + Cardinality(Dd)
      BY <3>2, CountIs DEF Sink!SinkInv
    <3>5. L \cap Dd = {} /\ L \cup Dd \subseteq 1..wrote
      BY <3>2, <3>3 DEF BufferInv
    <3>6. IsFiniteSet(L \cup Dd) /\ Cardinality(L \cup Dd) <= Cardinality(1..wrote)
      BY <3>3, <3>5, FS_Subset
    <3>7. /\ Cardinality(L \cup Dd) = Cardinality(L) + Cardinality(Dd)
          /\ Cardinality(L) \in Nat /\ Cardinality(Dd) \in Nat
      <4>1. IsFiniteSet(L) /\ IsFiniteSet(Dd)
        BY <3>6, FS_Subset, L \subseteq L \cup Dd, Dd \subseteq L \cup Dd
      <4>2. Cardinality(L) \in Nat /\ Cardinality(Dd) \in Nat
        BY <4>1, FS_CardinalityType
      <4>3. Cardinality(L \cup Dd) = Cardinality(L) + Cardinality(Dd) - Cardinality(L \cap Dd)
        BY <4>1, FS_Union
      <4>4. Cardinality(L \cap Dd) = 0
        BY <3>5, FS_EmptySet
      <4>5. QED
        BY <4>2, <4>3, <4>4
    <3>8. Cardinality(1..wrote) = wrote
      <4>1. Cardinality(1..wrote) = IF 1 > wrote THEN 0 ELSE wrote - 1 + 1
        BY <2>i, 1 \in Int, wrote \in Int, FS_Interval
      <4>2. QED
        BY <4>1, <2>i
    <3>9. QED
      BY <2>i, <3>4, <3>6, <3>7, <3>8
  <2>4. QED
    BY <2>i, <2>2, <2>3 DEF Sink!TypeOK, BufferInv
<1>3. QED
  BY <1>1, <1>2, SinkStart, SinkStep, BufferStep, PTL DEF Sink!Spec

-----------------------------------------------------------------------------
(* LogRing.                                                                  *)

(* A slot and the slots of the seqs around it.                               *)
LEMMA ModDiv ==
  ASSUME NEW x \in Nat, NEW n \in Nat \ {0}
  PROVE  /\ x = n * (x \div n) + (x % n) /\ x \div n \in Int
         /\ x % n \in 0..(n - 1) /\ (x < n => x % n = x)
OBVIOUS

LEMMA ModApart ==
  ASSUME NEW x \in Nat, NEW y \in Nat, NEW n \in Nat \ {0}, x < y, y - x < n
  PROVE  x % n # y % n
<1> SUFFICES ASSUME x % n = y % n PROVE FALSE
  OBVIOUS
<1>0. x \div n \in Int /\ y \div n \in Int /\ x % n \in Int
  BY ModDiv
<1>1. PICK p \in Int, q \in Int, r \in Int : p = x \div n /\ q = y \div n /\ r = x % n
  BY <1>0
<1>2. x = n * p + r /\ y = n * q + r
  BY <1>1, ModDiv
<1>3. ASSUME NEW d \in Int, 0 < n * d, n * d < n PROVE FALSE
  <2>1. d >= 1 => n * d >= n
    OBVIOUS
  <2>2. d <= 0 => n * d <= 0
    OBVIOUS
  <2>3. QED
    BY <1>3, <2>1, <2>2
<1>4. y - x = n * (q - p)
  BY <1>2
<1>5. QED
  BY <1>3, <1>4

(* What a poll returns: the newest of the records above the seq that ring    *)
(* and limit allow.                                                          *)
LEMMA SinceIs ==
  ASSUME Log!RingInv, NEW after \in Int, after >= -1, NEW limit \in Nat,
         NEW above \in Nat, above = IF next - 1 > after THEN next - 1 - after ELSE 0,
         NEW size \in Nat, size <= above, size <= Cap, size <= limit,
         size \in {above, Cap, limit}
  PROVE  Log!Since(after, limit) = [i \in 1..size |-> logged - size + i - 1]
<1>1. /\ next \in Nat /\ logged \in Nat /\ next <= logged /\ buf \in Seq(Nat)
      /\ Len(buf) = IF next < Cap THEN next ELSE Cap
      /\ \A seq \in (next - Len(buf))..(next - 1) : buf[Log!SlotOf(seq)] = Log!Base + seq
  BY DEF Log!RingInv
<1>2. PICK l \in Nat : l = Len(buf) /\ l = IF next < Cap THEN next ELSE Cap
  BY <1>1
<1>3. l <= next /\ (buf = <<>> <=> next = 0)
  <2>1. buf = <<>> <=> l = 0
    BY <1>1, <1>2, EmptySeq
  <2>2. QED
    BY <1>2, <2>1
<1>4. PICK wanted \in Int : wanted = IF after + 1 < next - l THEN next - l ELSE after + 1
  <2>1. (IF after + 1 < next - l THEN next - l ELSE after + 1) \in Int
    BY <1>1
  <2>2. QED
    BY <2>1
<1>5. PICK from \in Int : from = IF next - wanted > limit THEN next - limit ELSE wanted
  <2>1. (IF next - wanted > limit THEN next - limit ELSE wanted) \in Int
    BY <1>1
  <2>2. QED
    BY <2>1
<1>6. Log!Since(after, limit) = IF limit < 1 \/ buf = <<>> THEN <<>>
                                ELSE [i \in 1..(next - from) |-> buf[Log!SlotOf(from + i - 1)]]
  BY <1>2, <1>4, <1>5 DEF Log!Since, Log!Start
<1>7. CASE limit < 1 \/ buf = <<>>
  <2>1. size = 0
    BY <1>1, <1>3, <1>7
  <2>2. [i \in 1..size |-> logged - size + i - 1] = <<>>
    BY <2>1
  <2>3. QED
    BY <1>6, <1>7, <2>2
<1>8. CASE ~(limit < 1 \/ buf = <<>>)
  <2>1. next > 0 /\ limit >= 1
    BY <1>1, <1>3, <1>8
  <2>2. /\ 1..(next - from) = 1..size
        /\ size > 0 => from = next - size /\ size <= l
    <3>1. CASE next - 1 > after
      <4>1. above = next - 1 - after
        BY <3>1
      <4>2. next - wanted = IF above > l THEN l ELSE above
        BY <1>1, <1>3, <1>4, <4>1
      <4>3. next - from = size /\ size <= l
        BY <1>1, <1>2, <1>5, <4>1, <4>2
      <4>4. QED
        BY <1>1, <4>3
    <3>2. CASE ~(next - 1 > after)
      <4>1. size = 0 /\ above = 0
        BY <3>2
      <4>2. wanted = after + 1
        BY <1>1, <1>3, <1>4, <3>2
      <4>3. next - from <= 0
        BY <1>1, <1>5, <2>1, <3>2, <4>2
      <4>4. 1..(next - from) = {} /\ 1..size = {}
        BY <1>1, <4>1, <4>3
      <4>5. QED
        BY <4>1, <4>4
    <3>3. QED
      BY <3>1, <3>2
  <2>3. ASSUME NEW i \in 1..size
        PROVE  buf[Log!SlotOf(from + i - 1)] = logged - size + i - 1
    <3>1. from = next - size /\ size <= l
      BY <2>2
    <3>2. PICK seq \in Int : seq = from + i - 1
      BY <1>1
    <3>3. seq \in (next - Len(buf))..(next - 1)
      BY <1>1, <1>2, <3>1, <3>2
    <3>4. buf[Log!SlotOf(seq)] = Log!Base + seq
      BY <1>1, <3>3
    <3>5. Log!Base + seq = logged - size + i - 1
      BY <1>1, <3>1, <3>2 DEF Log!Base
    <3>6. QED
      BY <3>2, <3>4, <3>5
  <2>4. QED
    BY <1>6, <1>8, <2>2, <2>3
<1>9. QED
  BY <1>7, <1>8

(* The size of the answer.                                                   *)
LEMMA SinceSize ==
  ASSUME Log!RingInv, NEW after \in Int, after >= -1, NEW limit \in Nat
  PROVE  \E above \in Nat, size \in Nat :
           /\ above = IF next - 1 > after THEN next - 1 - after ELSE 0
           /\ size <= above /\ size <= Cap /\ size <= limit /\ size \in {above, Cap, limit}
<1>1. next \in Nat
  BY DEF Log!RingInv
<1>2. PICK above \in Nat : above = IF next - 1 > after THEN next - 1 - after ELSE 0
  <2>1. (IF next - 1 > after THEN next - 1 - after ELSE 0) \in Nat
    BY <1>1
  <2>2. QED
    BY <2>1
<1>3. \/ above <= Cap /\ above <= limit
      \/ Cap <= above /\ Cap <= limit
      \/ limit <= above /\ limit <= Cap
  OBVIOUS
<1>4. above <= above /\ Cap <= Cap /\ limit <= limit
  OBVIOUS
<1>5. QED
  BY <1>2, <1>3, <1>4

(* A record reaches its slot, and no other record the ring still holds is in *)
(* it.                                                                       *)
LEMMA RingAppend ==
  ASSUME Log!RingInv, Log!Handle
  PROVE  Log!RingInv'
<1>1. /\ next \in Nat /\ logged \in Nat /\ next <= logged /\ buf \in Seq(Nat)
      /\ latestSeq \in Int /\ latestSeq >= -1
      /\ Len(buf) = IF next < Cap THEN next ELSE Cap
      /\ \A seq \in (next - Len(buf))..(next - 1) : buf[Log!SlotOf(seq)] = Log!Base + seq
  BY DEF Log!RingInv
<1>2. /\ logged' = logged + 1 /\ next' = next + 1 /\ latestSeq' = latestSeq
      /\ buf' = IF Len(buf) < Cap THEN Append(buf, logged)
                ELSE [buf EXCEPT ![Log!SlotOf(next)] = logged]
  BY DEF Log!Handle, Log!Append1
<1>3. Log!Base' = Log!Base /\ Log!Base + next = logged /\ Log!Base \in Nat
  BY <1>1, <1>2 DEF Log!Base
<1>4. PICK l \in Nat : l = Len(buf)
  BY <1>1
<1>5. ASSUME NEW seq \in Nat PROVE Log!SlotOf(seq) \in 1..Cap /\ (seq < Cap => Log!SlotOf(seq) = seq + 1)
  <2>1. seq % Cap \in 0..(Cap - 1) /\ (seq < Cap => seq % Cap = seq)
    BY ModDiv
  <2>2. QED
    BY <2>1 DEF Log!SlotOf
<1>6. CASE l < Cap
  <2>1. l = next /\ buf' = Append(buf, logged)
    BY <1>1, <1>2, <1>4, <1>6
  <2>2. buf' \in Seq(Nat) /\ Len(buf') = next + 1 /\ buf'[next + 1] = logged
        /\ \A i \in 1..next : buf'[i] = buf[i]
    BY <1>1, <1>4, <2>1, AppendProperties
  <2>3. ASSUME NEW seq \in (next' - Len(buf'))..(next' - 1)
        PROVE  buf'[Log!SlotOf(seq)] = Log!Base + seq
    <3>1. seq \in 0..next /\ seq \in Nat /\ seq < Cap
      BY <1>1, <1>2, <1>4, <1>6, <2>1, <2>2
    <3>2. Log!SlotOf(seq) = seq + 1
      BY <1>5, <3>1
    <3>3. CASE seq = next
      BY <1>3, <2>2, <3>2, <3>3
    <3>4. CASE seq # next
      <4>1. seq \in (next - Len(buf))..(next - 1) /\ seq + 1 \in 1..next
        BY <1>1, <1>4, <2>1, <3>1, <3>4
      <4>2. QED
        BY <1>1, <2>2, <3>2, <4>1
    <3>5. QED
      BY <3>3, <3>4
  <2>4. Len(buf') = IF next' < Cap THEN next' ELSE Cap
    BY <1>1, <1>2, <1>6, <2>1, <2>2
  <2>5. next' \in Nat /\ logged' \in Nat /\ next' <= logged'
    BY <1>1, <1>2
  <2>6. QED
    BY <1>1, <1>2, <1>3, <2>2, <2>3, <2>4, <2>5 DEF Log!RingInv, Log!SlotOf
<1>7. CASE ~(l < Cap)
  <2>1. l = Cap /\ next >= Cap /\ buf' = [buf EXCEPT ![Log!SlotOf(next)] = logged]
    BY <1>1, <1>2, <1>4, <1>7
  <2>2. buf' \in Seq(Nat) /\ Len(buf') = Cap /\ Log!SlotOf(next) \in 1..Len(buf)
    BY <1>1, <1>4, <1>5, <2>1, ExceptSeq
  <2>3. ASSUME NEW seq \in (next' - Len(buf'))..(next' - 1)
        PROVE  buf'[Log!SlotOf(seq)] = Log!Base + seq
    <3>0. seq \in (next + 1 - Cap)..next /\ seq \in Nat
      BY <1>1, <1>2, <2>1, <2>2
    <3>1. seq \in (next + 1 - Cap)..next /\ seq \in Nat /\ Log!SlotOf(seq) \in 1..Len(buf)
      BY <1>4, <1>5, <2>1, <3>0
    <3>2. CASE seq = next
      BY <1>1, <1>3, <2>1, <2>2, <3>2
    <3>3. CASE seq # next
      <4>1. seq < next /\ next - seq < Cap /\ seq \in (next - Len(buf))..(next - 1)
        BY <1>1, <1>4, <2>1, <3>1, <3>3
      <4>2. seq % Cap # next % Cap /\ seq % Cap \in 0..(Cap - 1) /\ next % Cap \in 0..(Cap - 1)
        BY <1>1, <3>1, <4>1, ModApart, ModDiv
      <4>3. Log!SlotOf(seq) # Log!SlotOf(next)
        BY <4>2 DEF Log!SlotOf
      <4>4. buf'[Log!SlotOf(seq)] = buf[Log!SlotOf(seq)]
        BY <1>1, <2>1, <2>2, <3>1, <4>3
      <4>5. QED
        BY <1>1, <4>1, <4>4
    <3>4. QED
      BY <3>2, <3>3
  <2>4. Len(buf') = IF next' < Cap THEN next' ELSE Cap
    BY <1>1, <1>2, <2>1, <2>2
  <2>5. next' \in Nat /\ logged' \in Nat /\ next' <= logged'
    BY <1>1, <1>2
  <2>6. QED
    BY <1>1, <1>2, <1>3, <2>2, <2>3, <2>4, <2>5 DEF Log!RingInv, Log!SlotOf
<1>8. QED
  BY <1>6, <1>7

(* One poll: what it adds lies above all that is shown.                      *)
LEMMA ViewPoll ==
  ASSUME Log!LogInv, NEW limit \in Limit, Log!HandleLogs(limit)
  PROVE  Log!LogInv'
<1>1. /\ next \in Nat /\ logged \in Nat /\ next <= logged /\ latestSeq \in Int /\ latestSeq >= -1
  BY DEF Log!LogInv, Log!RingInv
<1>2. /\ seen \in Seq(Nat) /\ Log!ShownOnceInOrder
      /\ \A i \in 1..Len(seen) : /\ seen[i] < logged
                                 /\ seen[i] < Log!Base \/ seen[i] <= Log!Base + latestSeq
  BY DEF Log!LogInv, Log!ViewInv
<1>3. PICK above \in Nat, size \in Nat :
        /\ above = IF next - 1 > latestSeq THEN next - 1 - latestSeq ELSE 0
        /\ size <= above /\ size <= Cap /\ size <= limit /\ size \in {above, Cap, limit}
  BY <1>1, SinceSize, limit \in Nat DEF Log!LogInv
<1>4. PICK t : t = [i \in 1..size |-> logged - size + i - 1]
  OBVIOUS
<1>5. Log!Since(latestSeq, limit) = t
  <2>1. Log!RingInv /\ limit \in Nat
    BY DEF Log!LogInv
  <2>2. PICK after \in Int : after = latestSeq /\ after >= -1
    BY <1>1
  <2>3. above = IF next - 1 > after THEN next - 1 - after ELSE 0
    BY <1>3, <2>2
  <2>4. Log!Since(after, limit) = [i \in 1..size |-> logged - size + i - 1]
    BY <1>3, <2>1, <2>2, <2>3, SinceIs
  <2>5. QED
    BY <1>4, <2>2, <2>4
<1>6. /\ seen' = seen \o t /\ latestSeq' = next - 1 /\ UNCHANGED <<buf, next, logged>>
  BY <1>5 DEF Log!HandleLogs
<1>7. size <= logged /\ (size > 0 => size <= next - 1 - latestSeq)
  BY <1>1, <1>3
<1>8. t \in Seq(Nat) /\ Len(t) = size /\ \A i \in 1..size : t[i] = logged - size + i - 1
  <2>1. \A i \in 1..size : logged - size + i - 1 \in Nat
    BY <1>1, <1>7
  <2>2. QED
    BY <1>4, <2>1
<1>9. PICK u : u = seen \o t
  OBVIOUS
<1>10. PICK n \in Nat : n = Len(seen)
  BY <1>2, LenProperties
<1>11. /\ u \in Seq(Nat) /\ Len(u) = n + size
       /\ \A i \in 1..(n + size) : u[i] = IF i <= n THEN seen[i] ELSE t[i - n]
  <2>1. /\ u \in Seq(Nat) /\ Len(u) = Len(seen) + Len(t)
        /\ \A i \in 1..(Len(seen) + Len(t)) :
             u[i] = IF i <= Len(seen) THEN seen[i] ELSE t[i - Len(seen)]
    BY <1>2, <1>8, <1>9, ConcatProperties
  <2>2. QED
    BY <1>8, <1>10, <2>1
<1>12. ASSUME NEW i \in 1..(n + size), ~(i <= n)
       PROVE  u[i] = logged - size + (i - n) - 1 /\ i - n \in 1..size
  <2>1. i - n \in 1..size
    BY <1>12
  <2>2. QED
    BY <1>8, <1>11, <1>12, <2>1
<1>13. ASSUME NEW i \in 1..(n + size), i <= n
       PROVE  u[i] = seen[i] /\ i \in 1..n /\ u[i] \in Nat
  <2>1. i \in 1..n
    BY <1>13
  <2>2. QED
    BY <1>2, <1>10, <1>11, <1>13, <2>1, ElementOfSeq
<1>14. ASSUME NEW i \in 1..(n + size) PROVE u[i] < logged
  <2>1. CASE i <= n
    BY <1>2, <1>10, <1>13, <2>1
  <2>2. CASE ~(i <= n)
    BY <1>1, <1>12, <2>2
  <2>3. QED
    BY <2>1, <2>2
<1>15. ASSUME NEW i \in 1..(n + size), NEW j \in 1..(n + size), i < j
       PROVE  u[i] < u[j]
  <2>1. CASE j <= n
    <3>1. i <= n
      BY <1>15, <2>1
    <3>2. u[i] = seen[i] /\ u[j] = seen[j] /\ i \in 1..n /\ j \in 1..n
      BY <1>13, <2>1, <3>1
    <3>3. QED
      BY <1>2, <1>10, <1>15, <3>2 DEF Log!ShownOnceInOrder
  <2>2. CASE i <= n /\ ~(j <= n)
    <3>1. u[i] = seen[i] /\ i \in 1..n /\ u[i] \in Nat
      BY <1>13, <2>2
    <3>2. u[j] = logged - size + (j - n) - 1 /\ j - n \in 1..size
      BY <1>12, <2>2
    <3>3. u[i] < logged - next \/ u[i] <= logged - next + latestSeq
      BY <1>2, <1>10, <3>1 DEF Log!Base
    <3>4. size <= next - 1 - latestSeq /\ size <= next
      BY <1>1, <1>7, <3>2
    <3>5. QED
      BY <1>1, <3>1, <3>2, <3>3, <3>4
  <2>3. CASE ~(i <= n)
    <3>1. ~(j <= n)
      BY <1>15, <2>3
    <3>2. /\ u[i] = logged - size + (i - n) - 1 /\ u[j] = logged - size + (j - n) - 1
      BY <1>12, <2>3, <3>1
    <3>3. QED
      BY <1>1, <1>15, <3>2
  <2>4. QED
    BY <2>1, <2>2, <2>3
<1>16. Log!RingInv'
  <2>1. Log!Base' = Log!Base /\ next - 1 \in Int /\ next - 1 >= -1
    BY <1>1, <1>6 DEF Log!Base
  <2>2. QED
    BY <1>6, <2>1 DEF Log!LogInv, Log!RingInv, Log!SlotOf
<1>17. Log!ViewInv'
  <2>1. seen' = u /\ Log!Base' + latestSeq' = logged - 1 /\ logged' = logged /\ Len(u) = n + size
    BY <1>1, <1>6, <1>9, <1>11 DEF Log!Base
  <2>2. ASSUME NEW i \in 1..(n + size) PROVE u[i] <= logged - 1
    <3>1. u[i] \in Nat /\ u[i] < logged
      BY <1>11, <1>14, ElementOfSeq
    <3>2. QED
      BY <1>1, <3>1
  <2>3. Log!ShownOnceInOrder'
    BY <1>15, <2>1 DEF Log!ShownOnceInOrder
  <2>4. QED
    BY <1>11, <1>14, <2>1, <2>2, <2>3 DEF Log!ViewInv
<1>18. QED
  BY <1>16, <1>17 DEF Log!LogInv

LEMMA LogStep ==
  ASSUME Log!LogInv, [Log!Next]_(Log!vars)
  PROVE  Log!LogInv'
<1>1. /\ next \in Nat /\ logged \in Nat /\ next <= logged /\ latestSeq \in Int
      /\ latestSeq >= -1
  BY DEF Log!LogInv, Log!RingInv
<1>2. /\ seen \in Seq(Nat) /\ Log!ShownOnceInOrder
      /\ \A i \in 1..Len(seen) : /\ seen[i] < logged
                                 /\ seen[i] < Log!Base \/ seen[i] <= Log!Base + latestSeq
  BY DEF Log!LogInv, Log!ViewInv
<1>3. \A i \in 1..Len(seen) : seen[i] \in Nat
  BY <1>2, ElementOfSeq
<1>4. CASE Log!Handle
  <2>1. logged' = logged + 1 /\ next' = next + 1 /\ UNCHANGED <<seen, latestSeq>>
    BY <1>4 DEF Log!Handle, Log!Append1
  <2>2. Log!Base' = Log!Base
    BY <1>1, <2>1 DEF Log!Base
  <2>3. \A i \in 1..Len(seen) : seen[i] < logged + 1
    BY <1>1, <1>2, <1>3
  <2>4. Log!ShownOnceInOrder'
    BY <1>2, <2>1 DEF Log!ShownOnceInOrder
  <2>5. Log!ViewInv'
    BY <1>2, <2>1, <2>2, <2>3, <2>4 DEF Log!ViewInv
  <2>6. QED
    BY <1>4, <2>5, RingAppend DEF Log!LogInv
<1>5. CASE Log!New
  <2>1. buf' = <<>> /\ next' = 0 /\ UNCHANGED <<logged, seen, latestSeq>>
    BY <1>5 DEF Log!New
  <2>2. Log!Base' = logged
    BY <1>1, <2>1 DEF Log!Base
  <2>3. Log!RingInv'
    <3>1. buf' \in Seq(Nat) /\ Len(buf') = 0 /\ 0 < Cap
      BY <2>1
    <3>2. (next' - Len(buf'))..(next' - 1) = {}
      BY <2>1, <3>1
    <3>3. QED
      BY <1>1, <2>1, <3>1, <3>2 DEF Log!RingInv
  <2>4. Log!ShownOnceInOrder'
    BY <1>2, <2>1 DEF Log!ShownOnceInOrder
  <2>5. Log!ViewInv'
    BY <1>2, <2>1, <2>2, <2>4 DEF Log!ViewInv
  <2>6. QED
    BY <2>3, <2>5 DEF Log!LogInv
<1>6. CASE \E limit \in Limit : Log!HandleLogs(limit)
  BY <1>6, ViewPoll
<1>7. CASE UNCHANGED Log!vars
  BY <1>7 DEF Log!vars, Log!LogInv, Log!RingInv, Log!ViewInv, Log!ShownOnceInOrder, Log!Base,
     Log!SlotOf
<1>8. QED
  BY <1>4, <1>5, <1>6, <1>7 DEF Log!Next

LEMMA LogStart == Log!Init => Log!LogInv
<1> SUFFICES ASSUME Log!Init PROVE Log!LogInv
  OBVIOUS
<1>1. /\ buf = <<>> /\ next = 0 /\ logged = 0 /\ seen = <<>> /\ latestSeq = -1
  BY DEF Log!Init
<1>2. /\ <<>> \in Seq(Nat) /\ Len(<<>>) = 0 /\ 0 < Cap /\ 1..0 = {} /\ 0..(0 - 1) = {}
  OBVIOUS
<1>3. (next - Len(buf))..(next - 1) = {} /\ 1..Len(seen) = {}
  BY <1>1, <1>2
<1>4. QED
  BY <1>1, <1>2, <1>3 DEF Log!LogInv, Log!RingInv, Log!ViewInv, Log!ShownOnceInOrder

(* For every capacity and limit a poll returns, oldest first, the newest     *)
(* records above its seq that ring and limit allow, and the viewer shows no  *)
(* record twice or out of order, over restarts of the daemon too.            *)
THEOREM ViewerFollowsRing == Log!Spec => []ViewerSeesTail
<1>1. Log!LogInv => ViewerSeesTail
  <2> SUFFICES ASSUME Log!LogInv PROVE ViewerSeesTail
    OBVIOUS
  <2>1. next \in Nat
    BY DEF Log!LogInv, Log!RingInv
  <2>2. ASSUME NEW after \in -1..MaxLogged, NEW limit \in 0..(Cap + 1)
        PROVE  LET Least2(a, b) == IF a < b THEN a ELSE b
                   above == IF next - 1 > after THEN next - 1 - after ELSE 0
                   size  == Least2(above, Least2(Cap, limit))
               IN Log!Since(after, limit) = [i \in 1..size |-> logged - size + i - 1]
    <3>1. after \in Int /\ after >= -1 /\ limit \in Nat
      OBVIOUS
    <3>2. PICK above \in Nat, size \in Nat :
            /\ above = IF next - 1 > after THEN next - 1 - after ELSE 0
            /\ size <= above /\ size <= Cap /\ size <= limit /\ size \in {above, Cap, limit}
      BY <3>1, SinceSize DEF Log!LogInv
    <3>3. Log!Since(after, limit) = [i \in 1..size |-> logged - size + i - 1]
      BY <3>1, <3>2, SinceIs DEF Log!LogInv
    <3>4. PICK low \in Nat : low = IF Cap < limit THEN Cap ELSE limit
      <4>1. (IF Cap < limit THEN Cap ELSE limit) \in Nat
        BY <3>1
      <4>2. QED
        BY <4>1
    <3>5. size = IF above < low THEN above ELSE low
      BY <3>1, <3>2, <3>4
    <3>6. QED
      BY <3>2, <3>3, <3>4, <3>5
  <2>3. Log!SinceIsTail
    BY <2>2 DEF Log!SinceIsTail
  <2>4. QED
    BY <2>3 DEF ViewerSeesTail, Log!ViewerSeesTail, Log!LogInv, Log!ViewInv
<1>2. QED
  BY <1>1, LogStart, LogStep, PTL DEF Log!Spec

(* What LogInv leaves open of the ranges.                                    *)
RingType ==
  /\ logged <= MaxLogged /\ starts \in 0..MaxStarts /\ latestSeq <= MaxLogged
  /\ buf \in Seq(0..MaxLogged)

LEMMA RingTypeStep ==
  ASSUME Log!LogInv, RingType, [Log!Next]_(Log!vars)
  PROVE  RingType'
<1> USE DEF RingType
<1>i. /\ next \in Nat /\ logged \in Nat /\ next <= logged /\ latestSeq \in Int
      /\ Len(buf) = IF next < Cap THEN next ELSE Cap
  BY DEF Log!LogInv, Log!RingInv
<1>1. CASE Log!Handle
  <2>1. /\ logged < MaxLogged /\ logged' = logged + 1 /\ UNCHANGED <<starts, latestSeq>>
        /\ buf' = IF Len(buf) < Cap THEN Append(buf, logged)
                  ELSE [buf EXCEPT ![Log!SlotOf(next)] = logged]
    BY <1>1 DEF Log!Handle, Log!Append1
  <2>2. logged \in 0..MaxLogged
    BY <2>1, <1>i
  <2>3. Append(buf, logged) \in Seq(0..MaxLogged)
    BY <2>2
  <2>4. ASSUME ~(Len(buf) < Cap)
        PROVE  buf' \in Seq(0..MaxLogged)
    <3>1. Len(buf) = Cap
      BY <2>4, <1>i
    <3>2. next % Cap \in 0..(Cap - 1)
      BY <1>i
    <3>3. PICK k \in 1..Len(buf) : k = Log!SlotOf(next)
      BY <3>1, <3>2 DEF Log!SlotOf
    <3>4. [buf EXCEPT ![k] = logged] \in Seq(0..MaxLogged)
      BY <2>2, ExceptSeq
    <3>5. QED
      BY <2>1, <2>4, <3>3, <3>4
  <2>5. buf' \in Seq(0..MaxLogged)
    <3>1. CASE Len(buf) < Cap
      BY <2>1, <2>3, <3>1
    <3>2. QED
      BY <2>4, <3>1
  <2>6. logged' <= MaxLogged
    BY <2>1, <1>i
  <2>7. QED
    BY <2>1, <2>5, <2>6
<1>2. CASE Log!New
  <2>1. starts < MaxStarts /\ starts' = starts + 1 /\ buf' = <<>> /\ UNCHANGED <<logged, latestSeq>>
    BY <1>2 DEF Log!New
  <2>2. <<>> \in Seq(0..MaxLogged) /\ starts' \in 0..MaxStarts
    BY <2>1
  <2>3. QED
    BY <2>1, <2>2
<1>3. ASSUME NEW limit \in Limit, Log!HandleLogs(limit)
      PROVE  RingType'
  <2>1. latestSeq' = next - 1 /\ UNCHANGED <<buf, logged, starts>>
    BY <1>3 DEF Log!HandleLogs
  <2>2. latestSeq' <= MaxLogged
    BY <2>1, <1>i
  <2>3. QED
    BY <2>1, <2>2
<1>4. CASE UNCHANGED Log!vars
  BY <1>4 DEF Log!vars
<1>5. QED
  BY <1>1, <1>2, <1>3, <1>4 DEF Log!Next

(* However much is logged, the ring holds no more than its capacity, and     *)
(* what it and the viewer hold are records of this history.                  *)
THEOREM RingIsBounded == Log!Spec => []Log!TypeOK
<1>1. Log!Init => RingType
  <2>1. <<>> \in Seq(0..MaxLogged) /\ 0 <= MaxLogged /\ -1 <= MaxLogged /\ 0 \in 0..MaxStarts
    OBVIOUS
  <2>2. QED
    BY <2>1 DEF Log!Init, RingType
<1>2. Log!LogInv /\ RingType => Log!TypeOK
  <2> SUFFICES ASSUME Log!LogInv, RingType
               PROVE  Log!TypeOK
    OBVIOUS
  <2>i. /\ next \in Nat /\ logged \in Nat /\ latestSeq \in Int /\ latestSeq >= -1
        /\ Len(buf) = IF next < Cap THEN next ELSE Cap
        /\ seen \in Seq(Nat) /\ \A i \in 1..Len(seen) : seen[i] < logged
    BY DEF Log!LogInv, Log!RingInv, Log!ViewInv
  <2>1. \A i \in 1..Len(seen) : seen[i] \in Nat
    BY <2>i, ElementOfSeq
  <2>2. \A i \in 1..Len(seen) : seen[i] \in 0..MaxLogged
    BY <2>i, <2>1 DEF RingType
  <2>3. seen \in Seq(0..MaxLogged)
    BY <2>i, <2>2, InSeq
  <2>4. Len(buf) <= Cap /\ latestSeq \in -1..MaxLogged /\ logged \in 0..MaxLogged
    BY <2>i DEF RingType
  <2>5. QED
    BY <2>i, <2>3, <2>4 DEF Log!TypeOK, RingType
<1>3. QED
  BY <1>1, <1>2, LogStart, LogStep, RingTypeStep, PTL DEF Log!Spec
=============================================================================
