------------------------------ MODULE MCSafety ------------------------------
(***************************************************************************)
(* What is checked for safety alone: rollouts (ProbeUpdate) over two       *)
(* probes, and over one with every request and fault; the update of the    *)
(* central itself (SelfUpdate), what its builds do to the database         *)
(* (Migrations), and the derate flag with its banner (Derate), each by     *)
(* itself; unit is the one that runs.                                      *)
(***************************************************************************)
EXTENDS Naturals, FiniteSets

CONSTANTS Probe, OnlyProbe, Beat, MaxVersion, MaxDeliveries, ApplyTimeout, Deadline,
          Build, Bad, Released, First, Nothing, Half, Applier, Faults,
          Newest,
          HealthFloor, BaselineDays, MinSamples, MaxTests

ASSUME SafetyAssumption ==
  /\ Newest \in Nat \ {0} /\ First \notin Bad \cup {Nothing, Half}
  /\ MaxVersion \in Nat /\ MaxDeliveries \in Nat /\ ApplyTimeout \in Nat /\ Deadline \in Nat
  /\ IsFiniteSet(Beat) /\ Probe # {} /\ OnlyProbe \in Probe /\ MinSamples \in Nat \ {0}

VARIABLES
  latest, bad, seen, registered, upd, target, deliveries, age, running, disk, ust, ucmd, backup,
  status, bst, bprobe, bver, bseen, btarget, blate, bcmd, bwaits, op, opProbe, opTarget,
  rst, rtodo, rcur, rtarget, rdone, rwait,
  staged, live, liveCap, backups, up, apc, found,
  effects, rows, known, opening, at, current, pending,
  samples, scope, metric, dismissed, clearing, page, patch, pageOf, patchOf, dismissedOf,
  unit

(* Fast, slow in one direction, and slow below the floor.                   *)
Speeds == {<<8, 8>>, <<3, 8>>, <<1, 1>>}

Fleet  == INSTANCE ProbeUpdate WITH Ops <- {"rollout"}, Faults <- {}
Single == INSTANCE ProbeUpdate WITH
  Probe <- {OnlyProbe}, Ops <- {"command", "cancel", "forget", "rollout"},
  Faults <- {"reply", "status", "download", "setcap", "restart", "crash", "central"}
Update == INSTANCE SelfUpdate
Schema == INSTANCE Migrations
Line   == INSTANCE Derate WITH Speed <- Speeds

fleetVars == <<latest, bad, seen, registered, upd, target, deliveries, age, running, disk, ust, ucmd, backup,
               status, bst, bprobe, bver, bseen, btarget, blate, bcmd, bwaits, op, opProbe, opTarget,
               rst, rtodo, rcur, rtarget, rdone, rwait>>
updateVars == <<staged, live, liveCap, backups, up, apc, found>>
schemaVars == <<effects, rows, known, opening, at, current, pending>>
lineVars == <<samples, scope, metric, dismissed, clearing, page, patch, pageOf, patchOf, dismissedOf>>
vars == <<fleetVars, updateVars, schemaVars, lineVars, unit>>

Init == /\ Update!Init /\ Schema!Init /\ Line!Init
        /\ \/ unit = "fleet" /\ Fleet!Init
           \/ unit \in {"single", "update", "schema", "line"} /\ Single!Init
        /\ unit \notin {"fleet", "single"} => bad = {}
        /\ unit # "line" => metric = "median" /\ scope = {1}

Next == /\ UNCHANGED unit
        /\ \/ unit = "fleet" /\ Fleet!Next /\ UNCHANGED <<updateVars, schemaVars, lineVars>>
           \/ unit = "single" /\ Single!Next /\ UNCHANGED <<updateVars, schemaVars, lineVars>>
           \/ unit = "update" /\ Update!Next /\ UNCHANGED <<fleetVars, schemaVars, lineVars>>
           \/ unit = "schema" /\ Schema!Next /\ UNCHANGED <<fleetVars, updateVars, lineVars>>
           \/ unit = "line" /\ Line!Next /\ UNCHANGED <<fleetVars, updateVars, schemaVars>>

Spec == Init /\ [][Next]_vars

(* ProbeUpdate: a rollout leaves behind no build that does not run (the     *)
(* formula has none of the constants in which Fleet and Single differ).     *)
BadBuildStopsLine == Fleet!BadBuildStopsLine
(* SelfUpdate: a build that runs is live or kept under .backups.            *)
WayBack           == Update!WayBack
(* SelfUpdate: the live binary has its capability between applies.          *)
LiveCanProbe      == Update!LiveCanProbe
(* Migrations: effects, schema_version and the open build agree.            *)
SchemaIsTrue      == Schema!SchemaIsTrue
(* Derate: a dismissal hides the banner of one incident, and of all of it.  *)
DismissesOneIncident == Line!DismissesOneIncident
(* Derate: a test is flagged if and only if most of the window says so.     *)
FlagNeedsMajority == Line!FlagNeedsMajority
=============================================================================
