-------------------------------- MODULE Rdns --------------------------------
(***************************************************************************)
(* The reverse-DNS worker (internal/rdns/resolver.go) over the samples and *)
(* rdns tables (internal/storage/rdns.go), while the sinks insert rows and *)
(* retention and history wipes delete them (internal/storage/              *)
(* retention.go).                                                          *)
(*                                                                         *)
(* samples is a table without AUTOINCREMENT: a new row gets the highest    *)
(* rowid of the table plus one, so the number of a deleted row at the end  *)
(* is used again.  Names are left out: an address has a row in rdns, with  *)
(* a name or without one, or it has none.                                  *)
(***************************************************************************)
EXTENDS Integers, FiniteSets, FiniteSetsExt, Functions

CONSTANTS
  IP,          \* addresses that answer probes
  BatchSize,   \* Config.BatchSize
  MaxRow       \* highest rowid (bound)

VARIABLES
  rows,        \* samples: rowid -> ip
  rdns,        \* addresses with a row in rdns
  behind,      \* rows whose number was at or below the watermark when inserted
  watermark,   \* Resolver.watermark
  wpc,         \* runOnce: "idle", "scan" (max read), "batch" (resolving)
  scanMax, todo, clipped   \* its locals: end of the range, batch, batch was cut

rvars == <<wpc, scanMax, todo, clipped>>
vars == <<rows, rdns, behind, watermark, rvars>>

MaxRowid == IF DOMAIN rows = {} THEN 0 ELSE Max(DOMAIN rows)
Unresolved(since) == {rows[r] : r \in {q \in DOMAIN rows : q > since}} \ rdns

Init ==
  /\ rows = <<>> /\ rdns = {} /\ behind = {} /\ watermark = 0
  /\ wpc = "idle" /\ scanMax = 0 /\ todo = {} /\ clipped = FALSE

-----------------------------------------------------------------------------
(* The rest of the program.                                                 *)

(* A sink inserts a sample of an address.                                   *)
InsertSample(ip) ==
  LET r == MaxRowid + 1 IN
  /\ r <= MaxRow /\ rows' = [q \in DOMAIN rows \cup {r} |-> IF q = r THEN ip ELSE rows[q]]
  /\ behind' = IF r <= Max({watermark, scanMax}) THEN behind \cup {r} ELSE behind
  /\ UNCHANGED <<rdns, watermark, rvars>>

(* DeleteSamplesOlderThan takes the oldest rows, DeleteTargetHistory those  *)
(* of one target, wherever they are.                                        *)
DeleteSamples(D) ==
  /\ D # {} /\ rows' = Restrict(rows, DOMAIN rows \ D) /\ behind' = behind \ D
  /\ UNCHANGED <<rdns, watermark, rvars>>

-----------------------------------------------------------------------------
(* One cycle of the worker.                                                 *)

(* UnresolvedIPs: the maximum is read before the scan.                      *)
ReadMax ==
  /\ wpc = "idle" /\ wpc' = "scan" /\ scanMax' = MaxRowid
  /\ UNCHANGED <<rows, rdns, behind, watermark, todo, clipped>>

End == wpc' = "idle" /\ scanMax' = 0 /\ todo' = {} /\ clipped' = FALSE

(* Mutant: a full batch moves the watermark.                                *)
CoveredClipped(F) == F = {}

(* The cycle covered its range: not clipped, every upsert done.             *)
Covered(F) == ~clipped /\ F = {}

(* Mutant: the end of the range is read when the cycle is over.             *)
AdvanceLate == watermark' = MaxRowid

Advance == watermark' = scanMax

(* The anti-join, of at most BatchSize addresses.                           *)
Scan(batch) ==
  /\ wpc = "scan" /\ batch \subseteq Unresolved(watermark)
  /\ Cardinality(batch) = Min({BatchSize, Cardinality(Unresolved(watermark))})
  /\ IF batch = {} THEN Advance /\ End
     ELSE /\ wpc' = "batch" /\ todo' = batch /\ clipped' = (Cardinality(batch) >= BatchSize)
          /\ UNCHANGED <<scanMax, watermark>>
  /\ UNCHANGED <<rows, rdns, behind>>

(* A row for every address of the batch, but for those in F.                *)
UpsertRDNS(F) == rdns' = rdns \cup (todo \ F)

(* Every address of the batch is looked up, and a row records that it was   *)
(* tried, name or not; the upsert of those in F fails.  A cycle cut off by  *)
(* a shutdown is one whose other upserts fail, before Restart.              *)
Resolve(F) ==
  /\ wpc = "batch" /\ F \subseteq todo /\ UpsertRDNS(F) /\ End
  /\ IF Covered(F) THEN Advance ELSE UNCHANGED watermark
  /\ UNCHANGED <<rows, behind>>

(* A query fails: the cycle ends without a change.                          *)
CycleFails ==
  /\ wpc = "scan" /\ End /\ UNCHANGED <<rows, rdns, behind, watermark>>

(* The process ends; the watermark is not persisted.                        *)
Restart == /\ watermark' = 0 /\ behind' = {} /\ End /\ UNCHANGED <<rows, rdns>>

Next ==
  \/ \E ip \in IP : InsertSample(ip)
  \/ \E D \in SUBSET DOMAIN rows : DeleteSamples(D)
  \/ ReadMax \/ (\E batch \in SUBSET IP : Scan(batch) \/ Resolve(batch)) \/ CycleFails \/ Restart
Spec == Init /\ [][Next]_vars

(* The ticker fires, queries and upserts succeed now and then.              *)
Fairness ==
  /\ WF_vars((DOMAIN rows # {} /\ ReadMax) \/ \E F \in SUBSET IP : Resolve(F))
  /\ SF_vars(\E batch \in SUBSET IP : Scan(batch)) /\ SF_vars(Resolve({}))

-----------------------------------------------------------------------------
TypeOK ==
  /\ DOMAIN rows \subseteq 1..MaxRow /\ \A r \in DOMAIN rows : rows[r] \in IP
  /\ rdns \subseteq IP /\ behind \subseteq DOMAIN rows
  /\ watermark \in 0..MaxRow /\ scanMax \in 0..MaxRow /\ wpc \in {"idle", "scan", "batch"}
  /\ todo \subseteq IP /\ Cardinality(todo) <= BatchSize /\ clipped \in BOOLEAN

(* The watermark has passed no address that was never tried ("scanning      *)
(* rowid > watermark is complete", UnresolvedIPs), whatever was inserted or *)
(* deleted during the cycle; a row that got the number of a deleted one     *)
(* below the watermark, or within the range of the cycle, is the exception. *)
NothingSkipped == \A r \in DOMAIN rows \ behind :
  r <= watermark => rows[r] \in rdns

(* What makes NothingSkipped inductive: while the addresses of a batch that *)
(* was not cut are looked up, they are all that the range still lacks.      *)
RdnsType ==
  /\ rows = [r \in DOMAIN rows |-> rows[r]] /\ DOMAIN rows \subseteq 1..MaxRow
  /\ watermark \in Nat /\ scanMax \in Nat

SkipInv ==
  /\ RdnsType /\ NothingSkipped
  /\ wpc = "batch" /\ ~clipped =>
       \A r \in DOMAIN rows \ behind : r <= scanMax => rows[r] \in rdns \cup todo

(* The worker catches up, although batches are clipped and upserts fail     *)
(* (runOnce, "re-scanning converges"): again and again there is a moment    *)
(* at which every address in the table has been tried.                      *)
CatchesUp == []<>(\A r \in DOMAIN rows \ behind : rows[r] \in rdns)
=============================================================================
