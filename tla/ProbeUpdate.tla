----------------------------- MODULE ProbeUpdate -----------------------------
(***************************************************************************)
(* Central-driven updates of probes: the lifecycle of the probe_updates    *)
(* row in internal/server/probeupdate.go and internal/storage/             *)
(* probeupdates.go, the requests of internal/server/probetokens.go, the    *)
(* rollout goroutine, the heartbeat exchange (internal/agent/heartbeat.go, *)
(* handleIngestHeartbeat) as far as it carries versions and commands, and  *)
(* the probe's updater (internal/agent/updater.go).                        *)
(*                                                                         *)
(* Versions are numbers; a bad build starts, but crash-loops before its    *)
(* first heartbeat.  A heartbeat is one slot: sent, judged (row read),     *)
(* answered.  Status reports may be handled late, in any order, or never.  *)
(* Statements on the tables succeed.  Arch, hashes, pins and the offline   *)
(* filter of a rollout are left out (a rollout takes any set of outdated   *)
(* probes), and so are error texts, the alert history and the probe a      *)
(* stopped rollout displays.                                               *)
(***************************************************************************)
EXTENDS Naturals, FiniteSets

CONSTANTS
  Probe,          \* registered probe ids
  Beat,           \* heartbeats in progress at once (bound)
  MaxVersion,     \* last release (bound); probes start with version 0
  MaxDeliveries,  \* maxUpdateDeliveries
  ApplyTimeout,   \* applyTimeout
  Deadline,       \* how long a rollout waits for one probe
  Ops,            \* operator requests in this instance
  Faults          \* "reply", "status" lost; "download", "setcap", "restart" fail; "crash", "central"

ASSUME UpdateAssumption ==
  /\ MaxVersion \in Nat /\ MaxDeliveries \in Nat /\ ApplyTimeout \in Nat /\ Deadline \in Nat
  /\ Probe # {} /\ IsFiniteSet(Beat)

VARIABLES
  latest, bad,             \* newest release, the builds that crash-loop on this fleet
  seen, registered,        \* the probes table: version last reported, rows that exist
  upd, target, deliveries, age,  \* probe_updates: state, target_version, deliveries,
                           \* now - updated_at (ApplyTimeout + 1 = timed out)
  running, disk,           \* the probe: version of the process, of the installed binary
  ust, ucmd, backup,       \* its Updater: progress, command, backed-up binary
  status,                  \* update-status reports on their way
  bst, bprobe, bver,       \* heartbeats: progress, whose, version reported,
  bseen, btarget, blate,   \*   row as the handler read it, timeout as it judged it,
  bcmd, bwaits,            \*   command in the reply (0: none), the probe waits for it
  op, opProbe, opTarget,   \* the operator's request in progress
  rst, rtodo, rcur, rtarget, rdone, rwait  \* rolloutState and runRollout

rowVars   == <<upd, target, deliveries, age>>
probeVars == <<running, disk, ust, ucmd, backup>>
beatVars  == <<bst, bprobe, bver, bseen, btarget, blate, bcmd, bwaits>>
opVars    == <<op, opProbe, opTarget>>
rollVars  == <<rst, rtodo, rcur, rtarget, rdone, rwait>>
tableVars == <<latest, bad, seen, registered>>
vars == <<tableVars, rowVars, probeVars, status, beatVars, opVars, rollVars>>

Version  == 0..MaxVersion
RowState == {"none", "pending", "applying", "applied", "failed"}
Report   == {"applying", "failed"}
AnyProbe == CHOOSE p \in Probe : TRUE

Init ==
  /\ latest = 0 /\ bad \in SUBSET (1..MaxVersion) /\ seen = [p \in Probe |-> 0] /\ registered = Probe
  /\ upd = [p \in Probe |-> "none"] /\ target = [p \in Probe |-> 0]
  /\ deliveries = [p \in Probe |-> 0] /\ age = [p \in Probe |-> 0]
  /\ running = [p \in Probe |-> 0] /\ disk = [p \in Probe |-> 0]
  /\ ust = [p \in Probe |-> "idle"] /\ ucmd = [p \in Probe |-> 0]
  /\ backup = [p \in Probe |-> 0] /\ status = [p \in Probe |-> {}]
  /\ bst = [b \in Beat |-> "free"] /\ bprobe = [b \in Beat |-> AnyProbe]
  /\ bver = [b \in Beat |-> 0] /\ bseen = [b \in Beat |-> "none"]
  /\ btarget = [b \in Beat |-> 0] /\ blate = [b \in Beat |-> FALSE]
  /\ bcmd = [b \in Beat |-> 0] /\ bwaits = [b \in Beat |-> FALSE]
  /\ op = "idle" /\ opProbe = AnyProbe /\ opTarget = 0
  /\ rst = "idle" /\ rtodo = {} /\ rcur = AnyProbe /\ rtarget = 0
  /\ rdone = {} /\ rwait = 0

Possible(f) == f \in Faults

-----------------------------------------------------------------------------
(* The statements on probe_updates.                                         *)

(* SetProbeUpdateState: an UPDATE, so nothing happens without a row.        *)
SetProbeUpdateState(p, st) ==
  IF upd[p] = "none" THEN UNCHANGED rowVars
  ELSE /\ upd' = [upd EXCEPT ![p] = st] /\ age' = [age EXCEPT ![p] = 0]
       /\ UNCHANGED <<target, deliveries>>

(* CommandProbeUpdate: INSERT OR REPLACE.                                   *)
CommandProbeUpdate(p, v) ==
  /\ upd' = [upd EXCEPT ![p] = "pending"] /\ target' = [target EXCEPT ![p] = v]
  /\ deliveries' = [deliveries EXCEPT ![p] = 0] /\ age' = [age EXCEPT ![p] = 0]

ClearProbeUpdate(p) ==
  /\ upd' = [upd EXCEPT ![p] = "none"] /\ target' = [target EXCEPT ![p] = 0]
  /\ deliveries' = [deliveries EXCEPT ![p] = 0] /\ age' = [age EXCEPT ![p] = 0]

TooMany(n) == n > MaxDeliveries

(* IncrementProbeUpdateDeliveries, whatever the state is by now, and        *)
(* failProbeUpdate once there were too many.                                *)
CountDelivery(p) ==
  /\ upd[p] # "none"
  /\ deliveries' = [deliveries EXCEPT ![p] = @ + 1] /\ age' = [age EXCEPT ![p] = 0]
  /\ upd' = IF TooMany(deliveries[p] + 1) THEN [upd EXCEPT ![p] = "failed"] ELSE upd
  /\ UNCHANGED target

-----------------------------------------------------------------------------
(* Heartbeats.                                                              *)

SetBeat(b, st, cmd) == bst' = [bst EXCEPT ![b] = st] /\ bcmd' = [bcmd EXCEPT ![b] = cmd]

(* One loop per process, which waits for the answer before the next beat.   *)
LoopFree(p) == running[p] \notin bad /\ \A c \in Beat : ~(bprobe[c] = p /\ bwaits[c])

(* beatOnce: the beat goes out.                                             *)
Heartbeat(p, b) ==
  /\ bst[b] = "free" /\ LoopFree(p)
  /\ SetBeat(b, "sent", 0)
  /\ bprobe' = [bprobe EXCEPT ![b] = p] /\ bver' = [bver EXCEPT ![b] = running[p]]
  /\ bwaits' = [bwaits EXCEPT ![b] = TRUE]
  /\ UNCHANGED <<tableVars, rowVars, probeVars, status, bseen, btarget, blate, opVars, rollVars>>

UpsertProbeHeartbeat(p, v) == seen' = [seen EXCEPT ![p] = v] /\ registered' = registered \cup {p}

GetProbeUpdate(b, p) ==
  bseen' = [bseen EXCEPT ![b] = upd[p]] /\ btarget' = [btarget EXCEPT ![b] = target[p]]

(* handleIngestHeartbeat up to the lookup of the row.                       *)
HandleIngestHeartbeat(b) ==
  LET p == bprobe[b] IN
  /\ bst[b] = "sent" /\ SetBeat(b, "read", 0)
  /\ UpsertProbeHeartbeat(p, bver[b]) /\ GetProbeUpdate(b, p)
  /\ blate' = [blate EXCEPT ![b] = upd[p] = "applying" /\ age[p] > ApplyTimeout]
  /\ UNCHANGED <<latest, bad, rowVars, probeVars, status, bprobe, bver, bwaits, opVars, rollVars>>

(* Mutant: a failed row is looked at before the version.                    *)
SucceededUnlessFailed(b) == bseen[b] \notin {"none", "applied", "failed"} /\ bver[b] = btarget[b]

(* "Success wins over everything, INCLUDING a prior failed."                *)
Succeeded(b) == bseen[b] \notin {"none", "applied"} /\ bver[b] = btarget[b]

(* The rest of heartbeatUpdateFor, which acts on the row it has read.       *)
HeartbeatUpdateFor(b) ==
  LET p == bprobe[b] IN
  /\ bst[b] = "read"
  /\ \/ /\ Succeeded(b) /\ SetProbeUpdateState(p, "applied") /\ SetBeat(b, "reply", 0)
     \/ /\ ~Succeeded(b) /\ bseen[b] \in {"none", "applied", "failed"}
        /\ SetBeat(b, "reply", 0) /\ UNCHANGED rowVars
     \/ /\ ~Succeeded(b) /\ bseen[b] = "applying" /\ blate[b]
        /\ SetProbeUpdateState(p, "failed") /\ SetBeat(b, "reply", 0)
     \/ /\ ~Succeeded(b) /\ bseen[b] = "applying" /\ ~blate[b]
        /\ SetBeat(b, "reply", btarget[b]) /\ UNCHANGED rowVars
     \/ /\ ~Succeeded(b) /\ bseen[b] = "pending" /\ CountDelivery(p)
        /\ SetBeat(b, "reply", IF TooMany(deliveries[p] + 1) THEN 0 ELSE btarget[b])
     \/ /\ ~Succeeded(b) /\ bseen[b] = "pending" /\ upd[p] = "none"
        /\ SetBeat(b, "reply", 0) /\ UNCHANGED rowVars
  /\ UNCHANGED <<tableVars, probeVars, status, bprobe, bver, bseen, btarget, blate, bwaits,
                 opVars, rollVars>>

(* The slot is used again; what it holds no longer matters.                 *)
FreeBeat(b) ==
  /\ bst' = [bst EXCEPT ![b] = "free"] /\ bprobe' = [bprobe EXCEPT ![b] = AnyProbe]
  /\ bver' = [bver EXCEPT ![b] = 0] /\ bseen' = [bseen EXCEPT ![b] = "none"]
  /\ btarget' = [btarget EXCEPT ![b] = 0] /\ blate' = [blate EXCEPT ![b] = FALSE]
  /\ bcmd' = [bcmd EXCEPT ![b] = 0] /\ bwaits' = [bwaits EXCEPT ![b] = FALSE]

(* The reply arrives: OnCommand starts an apply unless one is running or    *)
(* the version is there already.                                            *)
OnCommand(b) ==
  LET p == bprobe[b] IN
  /\ bst[b] = "reply" /\ FreeBeat(b)
  /\ IF bwaits[b] /\ bcmd[b] # 0 /\ bcmd[b] # running[p] /\ ust[p] = "idle"
     THEN /\ ust' = [ust EXCEPT ![p] = "started"] /\ ucmd' = [ucmd EXCEPT ![p] = bcmd[b]]
     ELSE UNCHANGED <<ust, ucmd>>
  /\ UNCHANGED <<tableVars, rowVars, running, disk, backup, status, opVars, rollVars>>

(* A request or reply is lost, or the probe gives up after 15 s while the   *)
(* handler goes on.                                                         *)
BeatLost(b) ==
  /\ Possible("reply") /\ bst[b] # "free" /\ bwaits[b]
  /\ \/ bst[b] \in {"sent", "reply"} /\ FreeBeat(b)
     \/ /\ bst[b] = "read" /\ bwaits' = [bwaits EXCEPT ![b] = FALSE]
        /\ UNCHANGED <<bst, bprobe, bver, bseen, btarget, blate, bcmd>>
  /\ UNCHANGED <<tableVars, rowVars, probeVars, status, opVars, rollVars>>

-----------------------------------------------------------------------------
(* The probe's updater.                                                     *)

Progress(p, from, to) == ust[p] = from /\ ust' = [ust EXCEPT ![p] = to]
PostStatus(p, r) == status' = [status EXCEPT ![p] = @ \cup {r}]

(* apply begins: reportStatus("applying").                                  *)
ReportApplying(p) ==
  /\ Progress(p, "started", "working") /\ PostStatus(p, "applying")
  /\ UNCHANGED <<tableVars, rowVars, running, disk, ucmd, backup, beatVars, opVars, rollVars>>

(* Preflight, download, hash or version probe fail: nothing has changed.    *)
ApplyFails(p) ==
  /\ Possible("download") /\ Progress(p, "working", "idle") /\ PostStatus(p, "failed")
  /\ ucmd' = [ucmd EXCEPT ![p] = 0]
  /\ UNCHANGED <<tableVars, rowVars, running, disk, backup, beatVars, opVars, rollVars>>

(* The live binary is backed up and replaced.                               *)
Install(p) ==
  /\ Progress(p, "working", "installed")
  /\ backup' = [backup EXCEPT ![p] = disk[p]] /\ disk' = [disk EXCEPT ![p] = ucmd[p]]
  /\ UNCHANGED <<tableVars, rowVars, running, ucmd, status, beatVars, opVars, rollVars>>

(* setcap fails: the backup goes back, and the report says so.              *)
SetcapFails(p) ==
  /\ Possible("setcap") /\ Progress(p, "installed", "idle") /\ PostStatus(p, "failed")
  /\ disk' = [disk EXCEPT ![p] = backup[p]]
  /\ ucmd' = [ucmd EXCEPT ![p] = 0] /\ backup' = [backup EXCEPT ![p] = 0]
  /\ UNCHANGED <<tableVars, rowVars, running, beatVars, opVars, rollVars>>

(* The process ends and starts again from the installed binary.             *)
NewProcess(p) ==
  /\ running' = [running EXCEPT ![p] = disk[p]] /\ ust' = [ust EXCEPT ![p] = "idle"]
  /\ ucmd' = [ucmd EXCEPT ![p] = 0] /\ backup' = [backup EXCEPT ![p] = 0]
  /\ bwaits' = [b \in Beat |-> bwaits[b] /\ bprobe[b] # p]
  /\ UNCHANGED <<tableVars, rowVars, disk, status, bst, bprobe, bver, bseen, btarget, blate,
                 bcmd, opVars, rollVars>>

Restart(p) == ust[p] = "installed" /\ NewProcess(p)

(* hooks.Restart fails, which apply only logs: the old process goes on.     *)
RestartFails(p) ==
  /\ Possible("restart") /\ Progress(p, "installed", "idle")
  /\ ucmd' = [ucmd EXCEPT ![p] = 0] /\ backup' = [backup EXCEPT ![p] = 0]
  /\ UNCHANGED <<tableVars, rowVars, running, disk, status, beatVars, opVars, rollVars>>

ProbeCrash(p) == Possible("crash") /\ NewProcess(p)

(* handleIngestUpdateStatus: the report becomes the state.                  *)
HandleUpdateStatus(p, r) ==
  /\ r \in status[p] /\ status' = [status EXCEPT ![p] = @ \ {r}]
  /\ SetProbeUpdateState(p, r)
  /\ UNCHANGED <<tableVars, probeVars, beatVars, opVars, rollVars>>

StatusLost(p, r) ==
  /\ Possible("status") /\ r \in status[p] /\ status' = [status EXCEPT ![p] = @ \ {r}]
  /\ UNCHANGED <<tableVars, rowVars, probeVars, beatVars, opVars, rollVars>>

-----------------------------------------------------------------------------
(* Requests of the operator.                                                *)

Begin(what, p, v) == op = "idle" /\ op' = what /\ opProbe' = p /\ opTarget' = v

(* POST .../update: commandUpdateFor up to the download.                    *)
CommandUpdate(p) ==
  /\ "command" \in Ops /\ p \in registered /\ latest > seen[p]
  /\ Begin("write", p, latest)
  /\ UNCHANGED <<tableVars, rowVars, probeVars, status, beatVars, rollVars>>

(* DELETE .../update: refused once the probe is applying.                   *)
CancelUpdate(p) ==
  /\ "cancel" \in Ops /\ upd[p] \notin {"none", "applying"}
  /\ Begin("clear", p, 0)
  /\ UNCHANGED <<tableVars, rowVars, probeVars, status, beatVars, rollVars>>

DeleteProbe(p) == p \in registered /\ registered' = registered \ {p}

(* DELETE /api/probes/{id}.                                                 *)
ForgetProbe(p) ==
  /\ "forget" \in Ops /\ DeleteProbe(p)
  /\ Begin("clear", p, 0)
  /\ UNCHANGED <<latest, bad, seen, rowVars, probeVars, status, beatVars, rollVars>>

(* The statement that ends the request.                                     *)
FinishRequest ==
  /\ op # "idle" /\ op' = "idle" /\ opProbe' = AnyProbe /\ opTarget' = 0
  /\ IF op = "write" THEN CommandProbeUpdate(opProbe, opTarget) ELSE ClearProbeUpdate(opProbe)
  /\ UNCHANGED <<tableVars, probeVars, status, beatVars, rollVars>>

(* The download of the release fails.                                       *)
CommandFails ==
  /\ op = "write" /\ op' = "idle" /\ opProbe' = AnyProbe /\ opTarget' = 0
  /\ UNCHANGED <<tableVars, rowVars, probeVars, status, beatVars, rollVars>>

-----------------------------------------------------------------------------
(* The rollout.                                                             *)

RolloutIdle ==
  rst' = "idle" /\ rtodo' = {} /\ rcur' = AnyProbe /\ rtarget' = 0 /\ rwait' = 0

(* POST /api/probes/update-all.                                             *)
StartRollout(C) ==
  /\ "rollout" \in Ops /\ rst = "idle" /\ C # {} /\ C \subseteq {p \in registered : seen[p] < latest}
  /\ rst' = "command" /\ rtodo' = C /\ rdone' = {}
  /\ UNCHANGED <<rcur, rtarget, rwait, tableVars, rowVars, probeVars, status, beatVars, opVars>>

(* commandUpdateFor the next candidate, up to the download; or it fails.    *)
RolloutCommand(p) ==
  /\ rst = "command" /\ p \in rtodo
  /\ \/ /\ rst' = "write" /\ rcur' = p /\ rtarget' = latest /\ rtodo' = rtodo \ {p}
        /\ UNCHANGED rwait
     \/ RolloutIdle
  /\ UNCHANGED <<rdone, tableVars, rowVars, probeVars, status, beatVars, opVars>>

RolloutWrite ==
  /\ rst = "write" /\ CommandProbeUpdate(rcur, rtarget) /\ rst' = "poll" /\ rwait' = 0
  /\ UNCHANGED <<rtodo, rcur, rtarget, rdone, tableVars, probeVars, status, beatVars,
                 opVars>>

(* Mutant: a failure is noted and the line goes on.                         *)
MovesOnFailed == upd[rcur] \in {"applied", "failed"}

MovesOn == upd[rcur] = "applied"

(* Mutant: the deadline is only for a probe that has acknowledged.          *)
OverdueApplying == rwait >= Deadline /\ upd[rcur] = "applying"

Overdue == rwait >= Deadline

(* One turn of the polling loop; a row that is gone is skipped, deadline    *)
(* included.                                                                *)
RolloutPoll ==
  /\ rst = "poll" /\ upd[rcur] # "none"
  /\ \/ /\ MovesOn /\ rdone' = rdone \cup {rcur}
        /\ IF rtodo = {} THEN RolloutIdle
           ELSE /\ rst' = "command" /\ rcur' = AnyProbe /\ rtarget' = 0 /\ rwait' = 0
                /\ UNCHANGED rtodo
     \/ /\ ~MovesOn /\ upd[rcur] = "failed"
        /\ RolloutIdle /\ UNCHANGED rdone
     \/ /\ ~MovesOn /\ upd[rcur] # "failed" /\ Overdue
        /\ rst' = "giveup" /\ UNCHANGED <<rtodo, rcur, rtarget, rdone, rwait>>
  /\ UNCHANGED <<tableVars, rowVars, probeVars, status, beatVars, opVars>>

(* failProbeUpdate after the deadline, whatever the row says by then.       *)
RolloutGivesUp ==
  /\ rst = "giveup" /\ SetProbeUpdateState(rcur, "failed")
  /\ RolloutIdle /\ UNCHANGED rdone
  /\ UNCHANGED <<tableVars, probeVars, status, beatVars, opVars>>

-----------------------------------------------------------------------------
(* Everything else.                                                         *)

Release ==
  /\ latest < MaxVersion /\ latest' = latest + 1
  /\ UNCHANGED <<bad, seen, registered, rowVars, probeVars, status, beatVars, opVars, rollVars>>

(* Time passes; no further than anything compares it.                       *)
Clock ==
  /\ age' = [p \in Probe |-> IF upd[p] = "applying" /\ age[p] <= ApplyTimeout
                             THEN age[p] + 1 ELSE age[p]]
  /\ rwait' = IF rst = "poll" /\ rwait < Deadline THEN rwait + 1 ELSE rwait
  /\ UNCHANGED <<tableVars, upd, target, deliveries, probeVars, status, beatVars, opVars,
                 rst, rtodo, rcur, rtarget, rdone>>

(* The central restarts: the tables stay; handlers and rollout do not.      *)
CentralRestart ==
  /\ Possible("central")
  /\ op' = "idle" /\ opProbe' = AnyProbe /\ opTarget' = 0
  /\ RolloutIdle /\ rdone' = {}
  /\ bst' = [b \in Beat |-> "free"] /\ bprobe' = [b \in Beat |-> AnyProbe]
  /\ bver' = [b \in Beat |-> 0] /\ bseen' = [b \in Beat |-> "none"]
  /\ btarget' = [b \in Beat |-> 0] /\ blate' = [b \in Beat |-> FALSE]
  /\ bcmd' = [b \in Beat |-> 0] /\ bwaits' = [b \in Beat |-> FALSE]
  /\ UNCHANGED <<tableVars, rowVars, probeVars, status>>

Apply(p) == ReportApplying(p) \/ ApplyFails(p) \/ Install(p) \/ Restart(p)
Handler(b) == HandleIngestHeartbeat(b) \/ HeartbeatUpdateFor(b) \/ OnCommand(b)
Rollout == RolloutWrite \/ RolloutPoll \/ RolloutGivesUp \/ \E p \in Probe : RolloutCommand(p)

Next ==
  \/ \E p \in Probe :
       \/ \E b \in Beat : Heartbeat(p, b)
       \/ Apply(p) \/ SetcapFails(p) \/ RestartFails(p) \/ ProbeCrash(p)
       \/ \E r \in Report : HandleUpdateStatus(p, r) \/ StatusLost(p, r)
       \/ CommandUpdate(p) \/ CancelUpdate(p) \/ ForgetProbe(p)
  \/ \E b \in Beat : Handler(b) \/ BeatLost(b)
  \/ FinishRequest \/ CommandFails
  \/ Rollout \/ \E C \in SUBSET Probe : StartRollout(C)
  \/ Release \/ Clock \/ CentralRestart
Spec == Init /\ [][Next]_vars

(* The probe beats again and again, its beats get through now and then, the *)
(* polling loop turns and time passes; nothing is assumed of operators,     *)
(* releases, reports or the probe's updater.                                *)
Fairness ==
  /\ \A p \in Probe, b \in Beat : SF_vars(Heartbeat(p, b))
  /\ \A b \in Beat : SF_vars(HandleIngestHeartbeat(b)) /\ SF_vars(HeartbeatUpdateFor(b))
                   /\ WF_vars(OnCommand(b))
  /\ WF_vars(Rollout) /\ WF_vars(Clock)

FairSpec == Spec /\ Fairness

-----------------------------------------------------------------------------
TypeOK ==
  /\ latest \in Version /\ bad \subseteq Version /\ seen \in [Probe -> Version]
  /\ registered \subseteq Probe
  /\ upd \in [Probe -> RowState] /\ target \in [Probe -> Version]
  /\ deliveries \in [Probe -> 0..MaxDeliveries + Cardinality(Beat)] /\ age \in [Probe -> 0..ApplyTimeout + 1]
  /\ running \in [Probe -> Version] /\ disk \in [Probe -> Version]
  /\ ust \in [Probe -> {"idle", "started", "working", "installed"}]
  /\ ucmd \in [Probe -> Version] /\ backup \in [Probe -> Version]
  /\ status \in [Probe -> SUBSET Report]
  /\ bst \in [Beat -> {"free", "sent", "read", "reply"}] /\ bprobe \in [Beat -> Probe]
  /\ bver \in [Beat -> Version] /\ bseen \in [Beat -> RowState] /\ btarget \in [Beat -> Version]
  /\ blate \in [Beat -> BOOLEAN] /\ bcmd \in [Beat -> Version] /\ bwaits \in [Beat -> BOOLEAN]
  /\ op \in {"idle", "write", "clear"} /\ opProbe \in Probe /\ opTarget \in Version
  /\ rst \in {"idle", "command", "write", "poll", "giveup"} /\ rtodo \subseteq Probe
  /\ rcur \in Probe /\ rtarget \in Version
  /\ rdone \subseteq Probe /\ rwait \in 0..Deadline

(* "A failure stops the line so a bad build never ships fleet-wide"         *)
(* (runRollout): a rollout leaves a probe behind as done only when the      *)
(* build on that probe is one that runs, whatever reports arrive late, and  *)
(* whichever commands and cancellations reach the same row meanwhile.       *)
BadBuildStopsLine == \A p \in rdone : disk[p] \notin bad

(* What makes BadBuildStopsLine inductive for one release: a version is     *)
(* reported only by a build that runs, a row asks for a release, and so a   *)
(* row is applied only if some release runs on this fleet.                  *)
SomeRuns == bad # 1..MaxVersion

FleetType ==
  /\ latest \in Version /\ bad \subseteq 1..MaxVersion
  /\ seen \in [Probe -> Version] /\ registered \subseteq Probe
  /\ running \in [Probe -> Version] /\ disk \in [Probe -> Version]
  /\ ucmd \in [Probe -> Version] /\ backup \in [Probe -> Version]

BeatInv ==
  /\ bprobe \in [Beat -> Probe] /\ bver \in [Beat -> Version] /\ bseen \in [Beat -> RowState]
  /\ btarget \in [Beat -> Version] /\ bcmd \in [Beat -> Version]
  /\ \A b \in Beat : bver[b] \notin bad /\ (bseen[b] # "none" => btarget[b] # 0)

RowInv ==
  /\ upd \in [Probe -> RowState] /\ target \in [Probe -> Version]
  /\ \A p \in Probe : (upd[p] # "none" => target[p] # 0) /\ (upd[p] = "applied" => SomeRuns)

RollInv ==
  /\ opProbe \in Probe /\ opTarget \in Version /\ (op = "write" => opTarget # 0)
  /\ rcur \in Probe /\ rtarget \in Version /\ (rst = "write" => rtarget # 0)
  /\ rtodo \subseteq Probe /\ (rst # "idle" => latest # 0)
  /\ rdone # {} => SomeRuns

LineInv == FleetType /\ BeatInv /\ RowInv /\ RollInv

(* The build the row asks for is the one that runs.                          *)
Settled(p) == upd[p] # "none" /\ running[p] = target[p] /\ running[p] \notin bad

(* An update that was reported failed by mistake is corrected: a probe      *)
(* that settles on the version its row asks for, and whose build runs, ends *)
(* with the row applied (heartbeatUpdateFor, "success wins over             *)
(* everything"), although late reports move the row back.                   *)
TruthWins == \A p \in Probe : <>[]Settled(p) => <>[](upd[p] = "applied")

(* A rollout does not wait for a probe for ever while the probe has a row:  *)
(* the row reaches a final state or the deadline passes (runRollout).       *)
RolloutGoesOn == \A p \in Probe :
  (rst = "poll" /\ rcur = p) ~> (~(rst = "poll" /\ rcur = p) \/ upd[p] = "none")
=============================================================================
