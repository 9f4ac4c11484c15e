------------------------------ MODULE Targets ------------------------------
(***************************************************************************)
(* Which targets the central probes: the supervisor of                     *)
(* cmd/hoptrail/supervisor.go (pipelines, rebuilds, re-resolve loops), the *)
(* /api/targets, /api/target and /api/tabs handlers of                     *)
(* internal/server/handlers.go, and the tables active_targets and tabs.    *)
(*                                                                         *)
(* A slot is one *pipeline with its goroutines; supervisor.mu makes each   *)
(* critical section one step, everything between two critical sections or  *)
(* statements interleaves.  An interval stands for the pair (interval,     *)
(* final-hop-only): both go through rebuildPipeline and then write their   *)
(* own column.  target_history and the labels of tabs are left out.        *)
(***************************************************************************)

CONSTANTS
  Target,     \* operator-typed identities
  Host,       \* those that are hostnames
  Addr,       \* IPv4 addresses
  Interval,   \* probe settings; the default is DefaultInterval
  DefaultInterval,
  Threshold,  \* latency thresholds; NoThreshold is "no override"
  NoThreshold,
  Tab,        \* tab ids (bound)
  Req,        \* requests handled at once (bound)
  Slot, None, \* pipelines alive at once (bound); no pipeline
  Ops,        \* the operations clients use in this instance
  Faults      \* "client" leaves, "store" write fails, "dns" lookup fails at start

ASSUME TargetsAssumption ==
  /\ Host \subseteq Target /\ Target # {} /\ Tab # {} /\ Addr # {} /\ None \notin Slot
  /\ DefaultInterval \in Interval /\ NoThreshold \in Threshold

VARIABLES
  proc,       \* "hydrating", "up", "stopping", "down"
  toHydrate,  \* rows Hydrate has still to bring up
  pipelines,  \* supervisor.pipelines: the slot of each target, or None
  pst,        \* a slot's goroutines: "run", "cancelled", "done"
  ptarget, paddr, pinterval, pthr,  \* the fields of a pipeline
  loop, loopAddr, loopOld,          \* its runReresolve: see LoopState
  dns,        \* what the system resolver answers
  rows, rowInterval, rowThr,        \* active_targets
  tabs, tabOf, \* the tabs that exist; the target of every tab ever made
  closed,     \* history: targets that lost a tab while this process probed them
  rpc, rtgt, rtodo, raddr, rold, rarg, rtab, gone  \* requests in progress

pipeVars == <<pipelines, pst, ptarget, paddr, pinterval, pthr>>
loopVars == <<loop, loopAddr, loopOld>>
dbVars   == <<rows, rowInterval, rowThr, tabs, tabOf, closed>>
reqVars  == <<rpc, rtgt, rtodo, raddr, rold, rarg, rtab, gone>>
procVars == <<proc, toHydrate>>
vars == <<procVars, pipeVars, loopVars, dns, dbVars, reqVars>>

LoopState == {"off", "wait", "found", "cancel"}
ReqState  == {"idle", "resolve", "build", "addrow", "remove", "cancel", "delrow",
              "rebuild", "setcancel", "setrow", "thr", "thrrow", "tabdel", "tabcount"}
AnyTarget == CHOOSE t \in Target : TRUE
AnyAddr   == CHOOSE a \in Addr : TRUE
AnyTab    == CHOOSE k \in Tab : TRUE

Monitored == {t \in Target : pipelines[t] # None}

-----------------------------------------------------------------------------
Init ==
  /\ proc = "up" /\ toHydrate = {}
  /\ pipelines = [t \in Target |-> None] /\ pst = [s \in Slot |-> "done"]
  /\ ptarget = [s \in Slot |-> AnyTarget] /\ paddr = [s \in Slot |-> AnyAddr]
  /\ pinterval = [s \in Slot |-> DefaultInterval] /\ pthr = [s \in Slot |-> NoThreshold]
  /\ loop = [s \in Slot |-> "off"] /\ loopAddr = [s \in Slot |-> AnyAddr]
  /\ loopOld = [s \in Slot |-> None]
  /\ dns = [t \in Target |-> AnyAddr]
  /\ rows = {} /\ rowInterval = [t \in Target |-> DefaultInterval]
  /\ rowThr = [t \in Target |-> NoThreshold]
  /\ tabs = {} /\ tabOf = [k \in Tab |-> AnyTarget] /\ closed = {}
  /\ rpc = [r \in Req |-> "idle"] /\ rtgt = [r \in Req |-> AnyTarget]
  /\ rtodo = [r \in Req |-> {}] /\ raddr = [r \in Req |-> AnyAddr]
  /\ rold = [r \in Req |-> None] /\ rarg = [r \in Req |-> DefaultInterval]
  /\ rtab = [r \in Req |-> AnyTab] /\ gone = [r \in Req |-> FALSE]

-----------------------------------------------------------------------------
(* Pipelines.                                                               *)

(* A slot nothing refers to any more: collected, and free for a new         *)
(* pipeline.                                                                *)
Free(s) ==
  /\ pst[s] = "done" /\ loop[s] = "off"
  /\ \A t \in Target : pipelines[t] # s
  /\ \A r \in Req : rold[r] # s
  /\ \A n \in Slot : loopOld[n] # s

(* Requests leave one slot of the bound to the loops.                       *)
Spare(s) == Free(s) /\ \E n \in Slot \ {s} : Free(n)

(* Mutant: only an IP target gets a re-resolve loop.                        *)
StartLoopIP(t) == IF t \notin Host THEN "wait" ELSE "off"

StartLoop(t) == IF t \in Host THEN "wait" ELSE "off"

(* buildPipeline, and the assignments to the map and the thresholds that    *)
(* its callers make under the same lock.  Once the daemon's context is      *)
(* cancelled a new pipeline is born cancelled.                              *)
BuildPipeline(s, t, a, i, th) ==
  /\ pst' = [pst EXCEPT ![s] = IF proc = "stopping" THEN "cancelled" ELSE "run"]
  /\ ptarget' = [ptarget EXCEPT ![s] = t] /\ paddr' = [paddr EXCEPT ![s] = a]
  /\ pinterval' = [pinterval EXCEPT ![s] = i] /\ pthr' = [pthr EXCEPT ![s] = th]
  /\ pipelines' = [pipelines EXCEPT ![t] = s]

(* rebuildPipeline up to the unlock, when it changes something.             *)
Rebuild(n, t, a, i) == BuildPipeline(n, t, a, i, pthr[pipelines[t]])

(* p.cancel(): the goroutines of the pipeline stop.                         *)
CancelSlot(s) ==
  /\ pst' = [pst EXCEPT ![s] = IF @ = "run" THEN "cancelled" ELSE @]
  /\ UNCHANGED <<pipelines, ptarget, paddr, pinterval, pthr>>

(* wg.Wait returns after the engine, discovery, pinger and sink goroutines  *)
(* have; the re-resolve loop is not one of them.  Nobody reads the fields   *)
(* of a pipeline that is drained, so they are reset.                        *)
Drained(s) ==
  /\ pst[s] = "cancelled" /\ pst' = [pst EXCEPT ![s] = "done"]
  /\ paddr' = [paddr EXCEPT ![s] = AnyAddr]
  /\ pinterval' = [pinterval EXCEPT ![s] = DefaultInterval]
  /\ pthr' = [pthr EXCEPT ![s] = NoThreshold]
  /\ UNCHANGED <<procVars, pipelines, ptarget, loopVars, dns, dbVars, reqVars>>

-----------------------------------------------------------------------------
(* runReresolve, the loop of a hostname's pipeline.                         *)

(* A tick on which the resolver's answer differs from the loop's address;   *)
(* a failed lookup or an equal answer changes nothing.                      *)
LoopTick(s) ==
  /\ loop[s] = "wait" /\ pst[s] = "run" /\ dns[ptarget[s]] # paddr[s]
  /\ loop' = [loop EXCEPT ![s] = "found"]
  /\ loopAddr' = [loopAddr EXCEPT ![s] = dns[ptarget[s]]]
  /\ UNCHANGED <<procVars, pipeVars, loopOld, dns, dbVars, reqVars>>

LoopExit(s) ==
  /\ loop[s] = "wait" /\ pst[s] # "run" /\ loop' = [loop EXCEPT ![s] = "off"]
  /\ UNCHANGED <<procVars, pipeVars, loopAddr, loopOld, dns, dbVars, reqVars>>

(* Mutant: the old pipeline is the one the loop belongs to.                 *)
ReplacedByLoopSelf(s) == s

(* The pipeline a rebuild replaces, and then cancels, is the one in the map. *)
ReplacedByLoop(s) == pipelines[ptarget[s]]

(* rebuildPipeline(swapCtx, target, &newAddr, nil, nil).                    *)
LoopRebuild(s) ==
  /\ loop[s] = "found"
  /\ LET t == ptarget[s]  old == pipelines[t] IN
     \/ /\ old = None
        /\ loop' = [loop EXCEPT ![s] = "wait"]
        /\ UNCHANGED <<pipeVars, loopOld>>
     \/ /\ old # None /\ paddr[old] = loopAddr[s]
        /\ loop' = [loop EXCEPT ![s] = "off"] /\ UNCHANGED <<pipeVars, loopOld>>
     \/ /\ old # None /\ paddr[old] # loopAddr[s]
        /\ \E n \in Slot : /\ Free(n) /\ Rebuild(n, t, loopAddr[s], pinterval[old])
                            /\ loop' = [loop EXCEPT ![s] = "cancel", ![n] = StartLoop(t)]
        /\ loopOld' = [loopOld EXCEPT ![s] = ReplacedByLoop(s)]
  /\ loopAddr' = [loopAddr EXCEPT ![s] = AnyAddr]
  /\ UNCHANGED <<procVars, dns, dbVars, reqVars>>

(* old.cancel(); the wait for old.done ends after 30 s at the latest and    *)
(* the loop returns.                                                        *)
LoopCancel(s) ==
  /\ loop[s] = "cancel" /\ CancelSlot(loopOld[s])
  /\ loop' = [loop EXCEPT ![s] = "off"] /\ loopOld' = [loopOld EXCEPT ![s] = None]
  /\ UNCHANGED <<procVars, loopAddr, dns, dbVars, reqVars>>

-----------------------------------------------------------------------------
(* Requests.                                                                *)

Goto(r, pc) == rpc' = [rpc EXCEPT ![r] = pc]

(* The end of a handler.  Locals that are dead are reset.                   *)
Done(r) ==
  /\ rpc' = [rpc EXCEPT ![r] = "idle"] /\ rtgt' = [rtgt EXCEPT ![r] = AnyTarget]
  /\ rtodo' = [rtodo EXCEPT ![r] = {}] /\ raddr' = [raddr EXCEPT ![r] = AnyAddr]
  /\ rold' = [rold EXCEPT ![r] = None] /\ rarg' = [rarg EXCEPT ![r] = DefaultInterval]
  /\ rtab' = [rtab EXCEPT ![r] = AnyTab] /\ gone' = [gone EXCEPT ![r] = FALSE]

(* Whether a statement run under the request's context succeeds.            *)
Outcomes(r) ==
  IF gone[r] THEN {FALSE} ELSE IF "store" \in Faults THEN BOOLEAN ELSE {TRUE}

Begin(r, op, pc, t) ==
  /\ proc = "up" /\ rpc[r] = "idle" /\ op \in Ops
  /\ Goto(r, pc) /\ rtgt' = [rtgt EXCEPT ![r] = t]
  /\ UNCHANGED <<procVars, pipeVars, loopVars, dns, dbVars, raddr, rold, gone>>

HandleAdd(r, t)    == Begin(r, "add", "resolve", t) /\ UNCHANGED <<rtodo, rarg, rtab>>
HandleDelete(r, t) == /\ Begin(r, "remove", "remove", t)
                      /\ rtodo' = [rtodo EXCEPT ![r] = {t}] /\ UNCHANGED <<rarg, rtab>>
HandlePatch(r, t)  ==
  /\ \/ /\ Begin(r, "interval", "rebuild", t)
        /\ \E i \in Interval : rarg' = [rarg EXCEPT ![r] = i]
     \/ /\ Begin(r, "threshold", "thr", t)
        /\ \E th \in Threshold : rarg' = [rarg EXCEPT ![r] = th]
  /\ UNCHANGED <<rtodo, rtab>>

(* Swap: the targets to remove are read before the new one is added.        *)
HandleSwap(r, t) ==
  /\ Begin(r, "swap", IF t \in Monitored THEN "remove" ELSE "resolve", t)
  /\ Monitored # {t}
  /\ rtodo' = [rtodo EXCEPT ![r] = Monitored \ {t}] /\ UNCHANGED <<rarg, rtab>>

(* handleTabDelete looks the tab up for its target.                         *)
HandleTabDelete(r, k) ==
  /\ k \in tabs /\ Begin(r, "tab", "tabdel", tabOf[k])
  /\ rtab' = [rtab EXCEPT ![r] = k] /\ UNCHANGED <<rtodo, rarg>>

(* addPipeline: resolveTarget.                                              *)
ResolveTarget(r) ==
  /\ rpc[r] = "resolve"
  /\ IF gone[r] THEN Done(r)
     ELSE /\ Goto(r, "build") /\ raddr' = [raddr EXCEPT ![r] = dns[rtgt[r]]]
          /\ UNCHANGED <<rtgt, rtodo, rold, rarg, rtab, gone>>
  /\ UNCHANGED <<procVars, pipeVars, loopVars, dns, dbVars>>

AlreadyMonitored(t) == pipelines[t] # None

(* addPipeline: the critical section.                                       *)
AddPipeline(r) ==
  /\ rpc[r] = "build"
  /\ IF AlreadyMonitored(rtgt[r]) THEN Done(r) /\ UNCHANGED <<pipeVars, loopVars>>
     ELSE /\ \E n \in Slot :
               /\ Spare(n)
               /\ BuildPipeline(n, rtgt[r], raddr[r], DefaultInterval, NoThreshold)
               /\ loop' = [loop EXCEPT ![n] = StartLoop(rtgt[r])]
          /\ Goto(r, "addrow") /\ raddr' = [raddr EXCEPT ![r] = AnyAddr]
          /\ UNCHANGED <<rtgt, rtodo, rold, rarg, rtab, gone, loopAddr, loopOld>>
  /\ UNCHANGED <<procVars, dns, dbVars>>

(* What is left of a Swap once one target is dealt with.                    *)
NextRemoval(r) ==
  IF rtodo[r] \ {rtgt[r]} = {} THEN Done(r)
  ELSE /\ Goto(r, "remove") /\ rtodo' = [rtodo EXCEPT ![r] = @ \ {rtgt[r]}]
       /\ rold' = [rold EXCEPT ![r] = None]
       /\ UNCHANGED <<rtgt, raddr, rarg, rtab, gone>>

(* Mutant: a plain UPDATE, which inserts nothing.                           *)
UpsertUpdates(t) == rows

Upsert(t) == rows \cup {t}

(* AddActiveTarget inserts a row with no overrides (the ones a deleted row  *)
(* leaves behind), or refreshes the one that is there and keeps its         *)
(* overrides.                                                               *)
AddActiveTarget(r) ==
  /\ rpc[r] = "addrow"
  /\ \E ok \in Outcomes(r) :
       rows' = IF ok THEN Upsert(rtgt[r]) ELSE rows
  /\ NextRemoval(r)
  /\ UNCHANGED <<procVars, pipeVars, loopVars, dns, rowInterval, rowThr, tabs, tabOf, closed>>

(* Remove: the critical section.  A target that is not monitored is an      *)
(* error; nothing else happens for it.                                      *)
RemovePipeline(r, t) ==
  /\ rpc[r] = "remove" /\ t \in rtodo[r]
  /\ IF pipelines[t] = None
     THEN /\ IF rtodo[r] = {t} THEN Done(r)
             ELSE /\ rtodo' = [rtodo EXCEPT ![r] = @ \ {t}]
                  /\ UNCHANGED <<rpc, rtgt, raddr, rold, rarg, rtab, gone>>
          /\ UNCHANGED <<pipelines, closed>>
     ELSE /\ pipelines' = [pipelines EXCEPT ![t] = None] /\ closed' = closed \ {t}
          /\ rold' = [rold EXCEPT ![r] = pipelines[t]]
          /\ rtgt' = [rtgt EXCEPT ![r] = t] /\ Goto(r, "cancel")
          /\ UNCHANGED <<rtodo, raddr, rarg, rtab, gone>>
  /\ UNCHANGED <<procVars, pst, ptarget, paddr, pinterval, pthr, loopVars, dns, rows,
                 rowInterval, rowThr, tabs, tabOf>>

(* Mutant: the pipeline is looked up again after the unlock.                *)
OldOfReread(r) == IF pipelines[rtgt[r]] # None THEN pipelines[rtgt[r]] ELSE rold[r]

(* The pipeline read in the critical section.                               *)
OldOf(r) == rold[r]

CancelOld(r) ==
  /\ rpc[r] \in {"cancel", "setcancel"} /\ CancelSlot(OldOf(r))
  /\ Goto(r, IF rpc[r] = "cancel" THEN "delrow" ELSE "setrow")
  /\ UNCHANGED <<procVars, loopVars, dns, dbVars, rtgt, rtodo, raddr, rold, rarg, rtab,
                 gone>>

(* The handler waits for the drain unless its client has left.              *)
Waited(r) == pst[rold[r]] = "done" \/ gone[r]

(* RemoveActiveTarget; the foreign key deletes the target's tabs.           *)
RemoveActiveTarget(r) ==
  /\ rpc[r] = "delrow" /\ Waited(r)
  /\ \E ok \in Outcomes(r) :
       IF ok THEN /\ rows' = rows \ {rtgt[r]} /\ tabs' = {k \in tabs : tabOf[k] # rtgt[r]}
                  /\ rowInterval' = [rowInterval EXCEPT ![rtgt[r]] = DefaultInterval]
                  /\ rowThr' = [rowThr EXCEPT ![rtgt[r]] = NoThreshold]
       ELSE UNCHANGED <<rows, rowInterval, rowThr, tabs>>
  /\ NextRemoval(r)
  /\ UNCHANGED <<procVars, pipeVars, loopVars, dns, tabOf, closed>>

(* SetInterval, SetFinalHopOnly: rebuildPipeline, the critical section.     *)
RebuildPipeline(r) ==
  /\ rpc[r] = "rebuild"
  /\ LET t == rtgt[r]  old == pipelines[t] IN
     IF old = None \/ pinterval[old] = rarg[r]
     THEN Done(r) /\ UNCHANGED <<pipeVars, loopVars>>
     ELSE /\ \E n \in Slot : /\ Spare(n) /\ Rebuild(n, t, paddr[old], rarg[r])
                              /\ loop' = [loop EXCEPT ![n] = StartLoop(t)]
          /\ rold' = [rold EXCEPT ![r] = old] /\ Goto(r, "setcancel")
          /\ UNCHANGED <<rtgt, rtodo, raddr, rarg, rtab, gone, loopAddr, loopOld>>
  /\ UNCHANGED <<procVars, dns, dbVars>>

(* Mutant: the row is not updated.                                          *)
StoreIntervalSkipped(t, i) == UNCHANGED rowInterval

StoreInterval(t, i) == rowInterval' = [rowInterval EXCEPT ![t] = i]

(* SetActiveTargetInterval, SetActiveTargetFinalHopOnly: UPDATE, which does *)
(* nothing when the row is gone.                                            *)
SetActiveTargetInterval(r) ==
  /\ rpc[r] = "setrow" /\ Waited(r)
  /\ \E ok \in Outcomes(r) : IF ok /\ rtgt[r] \in rows THEN StoreInterval(rtgt[r], rarg[r])
                             ELSE UNCHANGED rowInterval
  /\ Done(r)
  /\ UNCHANGED <<procVars, pipeVars, loopVars, dns, rows, rowThr, tabs, tabOf, closed>>

(* SetThresholds writes the fields of the pipeline in place.                *)
SetThresholds(r) ==
  /\ rpc[r] = "thr"
  /\ LET s == pipelines[rtgt[r]] IN
     IF s = None THEN Done(r) /\ UNCHANGED pthr
     ELSE /\ pthr' = [pthr EXCEPT ![s] = rarg[r]] /\ Goto(r, "thrrow")
          /\ UNCHANGED <<rtgt, rtodo, raddr, rold, rarg, rtab, gone>>
  /\ UNCHANGED <<procVars, pipelines, pst, ptarget, paddr, pinterval, loopVars, dns,
                 dbVars>>

SetActiveTargetThresholds(r) ==
  /\ rpc[r] = "thrrow"
  /\ \E ok \in Outcomes(r) :
       rowThr' = IF ok /\ rtgt[r] \in rows THEN [rowThr EXCEPT ![rtgt[r]] = rarg[r]]
                 ELSE rowThr
  /\ Done(r)
  /\ UNCHANGED <<procVars, pipeVars, loopVars, dns, rows, rowInterval, tabs, tabOf, closed>>

(* DeleteTab; a tab that is gone by now ends the handler with 404.          *)
DeleteTab(r) ==
  /\ rpc[r] = "tabdel"
  /\ \E ok \in Outcomes(r) :
       IF ok /\ rtab[r] \in tabs
       THEN /\ tabs' = tabs \ {rtab[r]} /\ Goto(r, "tabcount")
            /\ closed' = closed \cup ({rtgt[r]} \cap Monitored)
            /\ UNCHANGED <<rtgt, rtodo, raddr, rold, rarg, rtab, gone>>
       ELSE Done(r) /\ UNCHANGED <<tabs, closed>>
  /\ UNCHANGED <<procVars, pipeVars, loopVars, dns, rows, rowInterval, rowThr, tabOf>>

(* Mutant: the handler counts the tab it has just deleted.                  *)
LastTabOffByOne(t) == \E k \in tabs : \A j \in tabs : tabOf[j] = t <=> j = k

LastTab(t) == {k \in tabs : tabOf[k] = t} = {}

(* CountTabsForTarget: the last tab takes its target along.                 *)
CountTabsForTarget(r) ==
  /\ rpc[r] = "tabcount"
  /\ \E ok \in Outcomes(r) :
       IF ok /\ LastTab(rtgt[r])
       THEN /\ rtodo' = [rtodo EXCEPT ![r] = {rtgt[r]}] /\ Goto(r, "remove")
            /\ UNCHANGED <<rtgt, raddr, rold, rarg, rtab, gone>>
       ELSE Done(r)
  /\ UNCHANGED <<procVars, pipeVars, loopVars, dns, dbVars>>

(* handleTabsCreate: one INSERT, refused by the foreign key unless the      *)
(* target has its row.  AUTOINCREMENT never reuses an id.                   *)
CreateTab(k, t) ==
  /\ proc = "up" /\ "tab" \in Ops /\ t \in rows
  /\ k \notin tabs /\ \A r \in Req : rtab[r] # k \/ rpc[r] = "idle"
  /\ tabs' = tabs \cup {k} /\ tabOf' = [tabOf EXCEPT ![k] = t]
  /\ UNCHANGED <<procVars, pipeVars, loopVars, dns, rows, rowInterval, rowThr, closed,
                 reqVars>>

ClientLeaves(r) ==
  /\ "client" \in Faults /\ rpc[r] # "idle" /\ ~gone[r]
  /\ gone' = [gone EXCEPT ![r] = TRUE]
  /\ UNCHANGED <<procVars, pipeVars, loopVars, dns, dbVars, rpc, rtgt, rtodo, raddr, rold,
                 rarg, rtab>>

-----------------------------------------------------------------------------
(* The daemon and its surroundings.                                         *)

DnsChanges(t, a) ==
  /\ t \in Host /\ dns[t] # a /\ dns' = [dns EXCEPT ![t] = a]
  /\ UNCHANGED <<procVars, pipeVars, loopVars, dbVars, reqVars>>

(* The signal context is cancelled, and with it every pipeline's; shutdown  *)
(* empties the map.  Requests in progress go on.                            *)
Shutdown ==
  /\ proc \in {"up", "hydrating"} /\ "stop" \in Ops /\ proc' = "stopping"
  /\ pipelines' = [t \in Target |-> None]
  /\ pst' = [s \in Slot |-> IF pst[s] = "run" THEN "cancelled" ELSE pst[s]]
  /\ toHydrate' = {}
  /\ UNCHANGED <<ptarget, paddr, pinterval, pthr, loopVars, dns, dbVars, reqVars>>

(* The process ends: main returns, or it crashes.  The database stays.      *)
Halt ==
  /\ proc # "down" /\ "stop" \in Ops /\ proc' = "down" /\ toHydrate' = {}
  /\ pipelines' = [t \in Target |-> None] /\ pst' = [s \in Slot |-> "done"]
  /\ loop' = [s \in Slot |-> "off"] /\ loopOld' = [s \in Slot |-> None]
  /\ ptarget' = [s \in Slot |-> AnyTarget] /\ paddr' = [s \in Slot |-> AnyAddr]
  /\ pinterval' = [s \in Slot |-> DefaultInterval] /\ pthr' = [s \in Slot |-> NoThreshold]
  /\ loopAddr' = [s \in Slot |-> AnyAddr]
  /\ rpc' = [r \in Req |-> "idle"] /\ rtgt' = [r \in Req |-> AnyTarget]
  /\ rtodo' = [r \in Req |-> {}] /\ raddr' = [r \in Req |-> AnyAddr]
  /\ rold' = [r \in Req |-> None] /\ rarg' = [r \in Req |-> DefaultInterval]
  /\ rtab' = [r \in Req |-> AnyTab] /\ gone' = [r \in Req |-> FALSE]
  /\ closed' = {} /\ UNCHANGED <<dns, rows, rowInterval, rowThr, tabs, tabOf>>

StartDaemon ==
  /\ proc = "down" /\ proc' = "hydrating" /\ toHydrate' = rows
  /\ UNCHANGED <<pipeVars, loopVars, dns, dbVars, reqVars>>

(* Hydrate: one row.  A hostname that does not resolve is skipped and keeps *)
(* its row.                                                                 *)
HydrateTarget(t) ==
  /\ proc = "hydrating" /\ t \in toHydrate /\ toHydrate' = toHydrate \ {t}
  /\ \/ \E n \in Slot : /\ Free(n)
                         /\ BuildPipeline(n, t, dns[t], rowInterval[t], rowThr[t])
                         /\ loop' = [loop EXCEPT ![n] = StartLoop(t)]
     \/ "dns" \in Faults /\ t \in Host /\ UNCHANGED <<pipeVars, loop>>
  /\ UNCHANGED <<proc, loopAddr, loopOld, dns, dbVars, reqVars>>

Serve ==
  /\ proc = "hydrating" /\ toHydrate = {} /\ proc' = "up"
  /\ UNCHANGED <<toHydrate, pipeVars, loopVars, dns, dbVars, reqVars>>

-----------------------------------------------------------------------------
Pipelines ==
  \E s \in Slot : Drained(s) \/ LoopTick(s) \/ LoopExit(s) \/ LoopRebuild(s) \/ LoopCancel(s)

Step(r) ==
  \/ ResolveTarget(r) \/ AddPipeline(r) \/ AddActiveTarget(r)
  \/ \E t \in Target : RemovePipeline(r, t)
  \/ CancelOld(r) \/ RemoveActiveTarget(r)
  \/ RebuildPipeline(r) \/ SetActiveTargetInterval(r)
  \/ SetThresholds(r) \/ SetActiveTargetThresholds(r)
  \/ DeleteTab(r) \/ CountTabsForTarget(r)

Requests ==
  \/ \E r \in Req :
       \/ \E t \in Target : HandleAdd(r, t) \/ HandleDelete(r, t) \/ HandlePatch(r, t)
                              \/ HandleSwap(r, t)
       \/ \E k \in Tab : HandleTabDelete(r, k)
       \/ Step(r) \/ ClientLeaves(r)
  \/ \E k \in Tab, t \in Target : CreateTab(k, t)

Daemon ==
  \/ \E t \in Target, a \in Addr : DnsChanges(t, a)
  \/ Shutdown \/ Halt \/ StartDaemon \/ Serve \/ \E t \in Target : HydrateTarget(t)

Next == Pipelines \/ Requests \/ Daemon
Spec == Init /\ [][Next]_vars

(* Fairness.  Goroutines are scheduled: a handler, a drain and a loop's next *)
(* step come eventually, and the loop's 5-minute ticker fires.  Taking the   *)
(* lock is strongly fair because Slot may keep a rebuild waiting for a       *)
(* drained slot.  Nothing is assumed of clients, DNS or the process.         *)
Fairness ==
  /\ \A r \in Req : SF_vars(Step(r))
  /\ \A s \in Slot : /\ WF_vars(Drained(s)) /\ WF_vars(LoopTick(s) \/ LoopExit(s))
                      /\ SF_vars(LoopRebuild(s)) /\ WF_vars(LoopCancel(s))

FairSpec == Spec /\ Fairness

-----------------------------------------------------------------------------
(* Properties.                                                               *)

PipeType ==
  /\ pipelines \in [Target -> Slot \cup {None}] /\ pst \in [Slot -> {"run", "cancelled", "done"}]
  /\ ptarget \in [Slot -> Target] /\ paddr \in [Slot -> Addr]
  /\ pinterval \in [Slot -> Interval] /\ pthr \in [Slot -> Threshold]
LoopType ==
  /\ loop \in [Slot -> LoopState] /\ loopAddr \in [Slot -> Addr]
  /\ loopOld \in [Slot -> Slot \cup {None}]
DbType ==
  /\ rows \subseteq Target /\ rowInterval \in [Target -> Interval]
  /\ rowThr \in [Target -> Threshold]
  /\ tabs \subseteq Tab /\ tabOf \in [Tab -> Target] /\ closed \subseteq Target
ReqType ==
  /\ rpc \in [Req -> ReqState] /\ rtgt \in [Req -> Target]
  /\ rtodo \in [Req -> SUBSET Target] /\ raddr \in [Req -> Addr]
  /\ rold \in [Req -> Slot \cup {None}] /\ rarg \in [Req -> Interval \cup Threshold]
  /\ rtab \in [Req -> Tab] /\ gone \in [Req -> BOOLEAN]

(* The values every variable may take.                                       *)
TypeOK ==
  /\ proc \in {"hydrating", "up", "stopping", "down"} /\ toHydrate \subseteq Target
  /\ PipeType /\ LoopType /\ DbType /\ ReqType /\ dns \in [Target -> Addr]

(* The handlers and loops that have taken slot s out of the map and are      *)
(* about to cancel it.                                                       *)
Canceller(s) ==
  \/ \E r \in Req : rpc[r] \in {"cancel", "setcancel"} /\ rold[r] = s
  \/ \E n \in Slot : loop[n] = "cancel" /\ loopOld[n] = s

(* A pipeline that still probes is the one in the map for its target or has  *)
(* somebody about to cancel it: no rebuild, remove or re-resolve, however    *)
(* they overlap, leaks a pipeline that probes for ever.                      *)
NoLeakedPipeline ==
  \A s \in Slot : pst[s] = "run" => pipelines[ptarget[s]] = s \/ Canceller(s)

(* Nobody cancels the pipeline of a target that is monitored, whichever      *)
(* handler or loop had looked it up before; and it is that target's.         *)
MonitoredIsProbed ==
  proc = "up" => \A t \in Monitored : pst[pipelines[t]] = "run" /\ ptarget[pipelines[t]] = t

(* The re-resolve loop of every monitored hostname is alive: the chain of    *)
(* loops ("the new pipeline spawns its own") never breaks.                   *)
HostHasLoop ==
  proc = "up" => \A t \in Monitored \cap Host : loop[pipelines[t]] \in {"wait", "found"}

(* A target is probed by one pipeline from the moment it is monitored until  *)
(* it is no longer: none leaks, none is cancelled by a handler or loop that  *)
(* had looked it up before, and a hostname is looked up again.               *)
ProbedByOne == NoLeakedPipeline /\ MonitoredIsProbed /\ HostHasLoop

Idle == proc = "up" /\ \A r \in Req : rpc[r] = "idle"

(* One request at a time: between requests every monitored target has its    *)
(* row, whatever crashed before.                                             *)
MonitoredHasRow == Idle => Monitored \subseteq rows

(* A rebuild keeps what it does not change and persists what it does:        *)
(* between requests the pipeline runs with the settings of its row, so a     *)
(* restart changes nothing.                                                  *)
SettingsSurvive ==
  Idle => \A t \in Monitored \cap rows : /\ pinterval[pipelines[t]] = rowInterval[t]
                                         /\ pthr[pipelines[t]] = rowThr[t]

(* docs/user-guide.md:71 "Closing the *last* tab for a target also stops     *)
(* probing that target".                                                     *)
ClosedStopsProbing ==
  Idle => \A t \in closed \cap Monitored : \E k \in tabs : tabOf[k] = t

(* Memory agrees with active_targets and tabs between requests: a monitored  *)
(* target has its row, runs with the settings of the row, and is no longer   *)
(* probed once its last tab is closed.                                       *)
RowsMatch == MonitoredHasRow /\ SettingsSurvive /\ ClosedStopsProbing

(* Once the resolver settles on an address for a monitored hostname and      *)
(* clients leave it alone, its pipeline ends up probing that address, even   *)
(* if a loop of an older pipeline still holds a stale answer.                *)
FollowsDns ==
  \A t \in Host, a \in Addr :
    <>[](Idle /\ dns[t] = a /\ t \in Monitored) => <>[](t \in Monitored /\ paddr[pipelines[t]] = a)

-----------------------------------------------------------------------------
(* The invariants the proofs rest on.                                        *)

(* The argument of a patch is of the kind its handler stores.                *)
ArgType ==
  \A r \in Req :
    /\ rpc[r] \in {"rebuild", "setcancel", "setrow"} => rarg[r] \in Interval
    /\ rpc[r] \in {"thr", "thrrow"} => rarg[r] \in Threshold

(* A slot in the map is the pipeline of that target, and no handler or loop  *)
(* that has taken a pipeline out of the map holds it.                        *)
MapInv ==
  \A t \in Target : pipelines[t] # None =>
    /\ ptarget[pipelines[t]] = t
    /\ \A r \in Req : rold[r] # pipelines[t]
    /\ \A n \in Slot : loopOld[n] # pipelines[t]

(* Until the daemon stops, what is in the map probes and, for a hostname,    *)
(* has its loop.                                                             *)
AliveInv ==
  proc \in {"up", "hydrating"} => \A t \in Monitored :
    /\ pst[pipelines[t]] = "run"
    /\ t \in Host => loop[pipelines[t]] \in {"wait", "found"}

(* The answer a loop is about to act on is not the address its pipeline has. *)
FoundInv == \A s \in Slot : loop[s] = "found" /\ pst[s] = "run" => loopAddr[s] # paddr[s]

(* Before the server runs there are no requests, and Hydrate brings up only  *)
(* what is not in the map.                                                   *)
BootInv ==
  /\ proc \in {"down", "hydrating"} => \A r \in Req : rpc[r] = "idle"
  /\ proc = "down" => Monitored = {}
  /\ \A t \in toHydrate : proc = "hydrating" /\ pipelines[t] = None

(* The inductive invariant behind ProbedByOne.                               *)
SlotInv == NoLeakedPipeline /\ MapInv /\ AliveInv /\ FoundInv /\ BootInv

(* One client at a time whose requests and statements succeed: what          *)
(* RowsMatch is about.                                                       *)
SoleClient == Faults = {} /\ \A q, r \in Req : q = r

At(r, pcs, t) == rpc[r] \in pcs /\ rtgt[r] = t

(* The map and active_targets hold the same targets, but for the one a       *)
(* handler is adding or removing and those Hydrate has yet to bring up.      *)
RowsInv ==
  proc \in {"up", "hydrating"} =>
    /\ toHydrate \subseteq rows
    /\ \A t \in Monitored \ rows : \E r \in Req : At(r, {"addrow"}, t)
    /\ \A t \in rows \ Monitored : t \in toHydrate \/ \E r \in Req : At(r, {"cancel", "delrow"}, t)
    /\ \A r \in Req : /\ rpc[r] = "addrow" => rtgt[r] \in Monitored \ rows
                      /\ rpc[r] \in {"cancel", "delrow"} => rtgt[r] \notin Monitored

(* A pipeline runs with the settings of its row or with the ones a handler   *)
(* is about to store; a target without a row has no overrides.               *)
SettingsInv ==
  /\ \A t \in Target \ rows : rowInterval[t] = DefaultInterval /\ rowThr[t] = NoThreshold
  /\ proc \in {"up", "hydrating"} => \A t \in Monitored :
       /\ \/ pinterval[pipelines[t]] = rowInterval[t]
          \/ \E r \in Req : At(r, {"setcancel", "setrow"}, t)
       /\ pthr[pipelines[t]] = rowThr[t] \/ \E r \in Req : At(r, {"thrrow"}, t)
       /\ \A r \in Req : /\ At(r, {"setcancel", "setrow"}, t) => pinterval[pipelines[t]] = rarg[r]
                         /\ At(r, {"thrrow"}, t) => pthr[pipelines[t]] = rarg[r]

(* A target that lost a tab has another one or its removal is under way.     *)
ClosedInv ==
  /\ proc \in {"down", "hydrating"} => closed = {}
  /\ \A r \in Req : rpc[r] = "tabdel" => tabOf[rtab[r]] = rtgt[r]
  /\ proc = "up" =>
       /\ closed \subseteq Monitored
       /\ \A t \in closed : \/ \E k \in tabs : tabOf[k] = t
                            \/ \E r \in Req : \/ At(r, {"tabcount"}, t)
                                              \/ At(r, {"remove"}, t) /\ rtodo[r] = {t}

(* The inductive invariant behind RowsMatch.                                 *)
MatchInv == (\A r \in Req : ~gone[r]) /\ RowsInv /\ SettingsInv /\ ClosedInv
=============================================================================
