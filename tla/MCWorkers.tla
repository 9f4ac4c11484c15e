------------------------------ MODULE MCWorkers ------------------------------
(***************************************************************************)
(* Two periodic workers of the central that share no state: the bandwidth  *)
(* runner and the reverse-DNS worker.  One run explores each of them by    *)
(* itself; unit is the one that runs.                                      *)
(***************************************************************************)
EXTENDS Bandwidth

CONSTANTS IP, BatchSize, MaxRow

ASSUME WorkersAssumption == BatchSize \in Nat \ {0} /\ MaxRow \in Nat

VARIABLES rows, rdns, behind, watermark, wpc, scanMax, todo, clipped, unit

Resolver == INSTANCE Rdns

rdnsVars == <<rows, rdns, behind, watermark, wpc, scanMax, todo, clipped>>
bandwidthVars == <<phase, attempt, latest, run, timer, byTimer, cfg, manual, stored, channel,
                   ppc, pcfg, ptodo, mixed, restarts>>
workerVars == <<bandwidthVars, rdnsVars, unit>>

WorkersInit == Init /\ Resolver!Init /\ unit \in {"bandwidth", "rdns"}

(* Addresses are interchangeable: of those not in use only one is inserted. *)
Known == Resolver!Range(rows) \cup rdns \cup todo
FirstUnknown == IF IP \subseteq Known THEN {} ELSE {CHOOSE i \in IP : i \notin Known}
OneNewAddress == Resolver!Range(rows') \subseteq Known \cup FirstUnknown

WorkersNext ==
  /\ UNCHANGED unit
  /\ \/ unit = "bandwidth" /\ Next /\ UNCHANGED rdnsVars
     \/ unit = "rdns" /\ Resolver!Next /\ OneNewAddress /\ UNCHANGED bandwidthVars

(* The scheduler goroutine runs, a test ends by its timeout, time passes;   *)
(* the resolver at rest asks for nothing.                                   *)
FairSpec ==
  /\ WorkersInit /\ [][WorkersNext]_workerVars
  /\ WF_vars(unit = "bandwidth" /\ (Plans \/ Select \/ EndsTest))
  /\ WF_vars(unit = "bandwidth" /\ Tick)
  /\ Resolver!Fairness

(* Rdns: the watermark passes no address that was never tried.              *)
NothingSkipped == Resolver!NothingSkipped
(* Rdns: again and again every address in the table has been tried.         *)
CatchesUp      == Resolver!CatchesUp
=============================================================================
