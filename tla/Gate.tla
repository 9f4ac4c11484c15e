-------------------------------- MODULE Gate --------------------------------
(***************************************************************************)
(* The checkpoint of the write-ahead log under load: gatedDB and           *)
(* CheckpointWAL (internal/storage/storage.go), the connection pool of     *)
(* database/sql, and the retention worker's checkpointWithRetry            *)
(* (internal/retention/worker.go).                                         *)
(*                                                                         *)
(* A request enters the gate, runs its statement on a pooled connection,   *)
(* leaves the gate and may keep the connection (open rows, a transaction)  *)
(* for a while; a slow one keeps it past the checkpoint's patience.  What  *)
(* the statements do is left out.                                          *)
(***************************************************************************)
EXTENDS Naturals, FiniteSets

CONSTANTS
  Request,      \* goroutines that use the store, each again and again
  MaxConns,     \* maxConns, the size of the pool
  MaxAttempts   \* maxAttempts of checkpointWithRetry

VARIABLES
  rpc,          \* a request: "away", "door", "inside", "running", "open"
  slow,         \* requests that keep their connection for more than a minute
  cpc,          \* checkpoint: "rest", "lock", "acquire", "truncate", "pause"
  held,         \* connections it has acquired
  attempts      \* attempts so far

vars == <<rpc, slow, cpc, held, attempts>>

Init ==
  /\ rpc = [r \in Request |-> "away"] /\ slow = {}
  /\ cpc = "rest" /\ held = 0 /\ attempts = 0

Inside  == {r \in Request : rpc[r] \in {"inside", "running"}}
Holding == {r \in Request : rpc[r] \in {"running", "open"}}
ConnFree == Cardinality(Holding) + held < MaxConns
Locked  == cpc \in {"acquire", "truncate"}

Go(r, from, to) == rpc[r] = from /\ rpc' = [rpc EXCEPT ![r] = to]
KeepCheckpoint == UNCHANGED <<cpc, held, attempts>>

-----------------------------------------------------------------------------
(* Requests.                                                                *)

Arrive(r) == Go(r, "away", "door") /\ KeepCheckpoint /\ UNCHANGED slow

(* Mutant: a reader is only kept out by a writer that has the lock.         *)
MayEnterPending == ~Locked

(* RWMutex.RLock: a pending writer keeps new readers out.                   *)
MayEnter == ~Locked /\ cpc # "lock"

Enter(r) == MayEnter /\ Go(r, "door", "inside") /\ KeepCheckpoint /\ UNCHANGED slow

(* database/sql hands out a connection.                                     *)
Connect(r) == ConnFree /\ Go(r, "inside", "running") /\ KeepCheckpoint /\ UNCHANGED slow

(* Exec: the connection goes back when the call returns.                    *)
Finish(r) == Go(r, "running", "away") /\ KeepCheckpoint /\ UNCHANGED slow

(* The caller's context ends while it waits for a connection.               *)
GiveUp(r) == ~ConnFree /\ Go(r, "inside", "away") /\ KeepCheckpoint /\ UNCHANGED slow

(* Query, QueryRow, Begin: the gate is left, the connection stays with the  *)
(* rows or the transaction.                                                 *)
Open(r) ==
  /\ Go(r, "running", "open") /\ KeepCheckpoint
  /\ slow' \in {slow, slow \cup {r}}

CloseRows(r) == Go(r, "open", "away") /\ slow' = slow \ {r} /\ KeepCheckpoint

-----------------------------------------------------------------------------
(* The checkpoint.                                                          *)

(* The ticker fires or a sweep has ended.                                   *)
Checkpoint ==
  /\ cpc = "rest" /\ cpc' = "lock" /\ attempts' = 1
  /\ UNCHANGED <<rpc, slow, held>>

(* gate.Lock returns once every reader has left.                            *)
Lock == cpc = "lock" /\ Inside = {} /\ cpc' = "acquire" /\ UNCHANGED <<rpc, slow, held, attempts>>

(* Mutant: the connection the checkpoint runs on is not counted.            *)
QuiescedByOne == held + 1 >= MaxConns

Quiesced == held = MaxConns

AcquireConn ==
  /\ cpc = "acquire" /\ ~Quiesced /\ ConnFree /\ held' = held + 1
  /\ UNCHANGED <<rpc, slow, cpc, attempts>>

StartTruncate ==
  /\ cpc = "acquire" /\ Quiesced /\ cpc' = "truncate"
  /\ UNCHANGED <<rpc, slow, held, attempts>>

(* Mutant: the connections are not closed.                                  *)
ReturnHolding(to) == cpc' = to /\ UNCHANGED <<held, rpc, slow>>

(* Every return of CheckpointWAL closes the connections and unlocks.        *)
Return(to) == held' = 0 /\ cpc' = to /\ UNCHANGED <<rpc, slow>>

Retries == attempts < MaxAttempts

Failed == Return(IF Retries THEN "pause" ELSE "rest") /\ UNCHANGED attempts

(* A minute has gone by and a slow request still has its connection.        *)
AcquireTimesOut == cpc = "acquire" /\ ~ConnFree /\ ~Quiesced /\ slow # {} /\ Failed

(* Another process reads the database: busy.                                *)
TruncateBusy == cpc = "truncate" /\ Failed

Truncate == cpc = "truncate" /\ Return("rest") /\ attempts' = 0

(* The pause of 15 s is over.                                               *)
Retry ==
  /\ cpc = "pause" /\ cpc' = "lock" /\ attempts' = attempts + 1
  /\ UNCHANGED <<rpc, slow, held>>

RequestStep(r) == \/ Arrive(r) \/ Enter(r) \/ Connect(r) \/ Finish(r) \/ GiveUp(r)
                  \/ Open(r) \/ CloseRows(r)
CheckpointStep == \/ Checkpoint \/ Lock \/ AcquireConn \/ StartTruncate \/ AcquireTimesOut
                  \/ TruncateBusy \/ Truncate \/ Retry

Next == CheckpointStep \/ \E r \in Request : RequestStep(r)
Spec == Init /\ [][Next]_vars

(* Statements return, readers that waited are let in when the writer        *)
(* unlocks, rows that are not slow get closed, and the checkpoint goes on.  *)
Fairness ==
  /\ \A r \in Request :
       /\ SF_vars(Enter(r))
       /\ WF_vars(Connect(r) \/ Finish(r) \/ Open(r) \/ (r \notin slow /\ CloseRows(r)))
  /\ WF_vars(Lock \/ AcquireConn \/ StartTruncate \/ AcquireTimesOut \/ Truncate \/ TruncateBusy
             \/ Retry)

-----------------------------------------------------------------------------
TypeOK ==
  /\ rpc \in [Request -> {"away", "door", "inside", "running", "open"}] /\ slow \subseteq Request
  /\ cpc \in {"rest", "lock", "acquire", "truncate", "pause"}
  /\ held \in 0..MaxConns /\ attempts \in 0..MaxAttempts

(* The log is truncated in a moment without any reader or writer            *)
(* ("holding all conns, nothing in-process can touch SQLite",               *)
(* CheckpointWAL): neither a statement nor open rows nor a transaction.     *)
TruncatesAlone == cpc = "truncate" => Inside = {} /\ Holding = {}

(* A checkpoint gets its quiet moment under continuous traffic, unless a    *)
(* request keeps a connection for more than a minute (gatedDB, "convergence *)
(* is guaranteed in the time of the slowest in-flight operation").          *)
Converges == cpc = "lock" ~> (cpc = "truncate" \/ slow # {})

(* No request stands at the door for ever, however often and however badly  *)
(* checkpoints end (CheckpointWAL unlocks on every return).                 *)
DoorOpens == \A r \in Request : rpc[r] = "door" ~> rpc[r] # "door"

(* Checkpoints and requests both get through: the writer gets its quiet     *)
(* moment, and the readers it kept at the door are let in again (gatedDB,   *)
(* CheckpointWAL).                                                          *)
GateGoesOn == Converges /\ DoorOpens

-----------------------------------------------------------------------------
(* The invariant the proof of TruncatesAlone rests on: the pool hands out no *)
(* more connections than it has, and behind the gate no statement runs.      *)
QuietInv ==
  /\ rpc \in [Request -> {"away", "door", "inside", "running", "open"}]
  /\ held \in Nat /\ IsFiniteSet(Holding) /\ Cardinality(Holding) + held <= MaxConns
  /\ Locked => Inside = {}
  /\ cpc = "truncate" => held = MaxConns
=============================================================================
