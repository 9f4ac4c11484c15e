--------------------------- MODULE TargetsProofs ---------------------------
(* Theorems about Targets, for every set of targets, requests and slots.    *)
EXTENDS Targets, TLAPS

USE TargetsAssumption

-----------------------------------------------------------------------------
(* Types of the pieces actions are made of.                                  *)

LEMMA AnyType == AnyTarget \in Target /\ AnyAddr \in Addr /\ AnyTab \in Tab
BY DEF AnyTarget, AnyAddr, AnyTab

LEMMA BuildType ==
  ASSUME PipeType, NEW s \in Slot, NEW t \in Target, NEW a \in Addr, NEW i \in Interval,
         NEW th \in Threshold, BuildPipeline(s, t, a, i, th)
  PROVE  PipeType'
BY DEF PipeType, BuildPipeline

LEMMA RebuildType ==
  ASSUME PipeType, NEW s \in Slot, NEW t \in Target, NEW a \in Addr, NEW i \in Interval,
         pipelines[t] # None, Rebuild(s, t, a, i)
  PROVE  PipeType'
<1>1. pthr[pipelines[t]] \in Threshold
  BY DEF PipeType
<1>2. QED
  BY <1>1, BuildType DEF Rebuild

LEMMA CancelType ==
  ASSUME PipeType, NEW s, CancelSlot(s)
  PROVE  PipeType'
BY DEF PipeType, CancelSlot

LEMMA StartType == ASSUME NEW t PROVE StartLoop(t) \in LoopState
BY DEF StartLoop, LoopState

(* The end of a handler, and its steps, keep the request table typed.        *)
LEMMA DoneType ==
  ASSUME ReqType, ArgType, NEW r \in Req, Done(r)
  PROVE  ReqType' /\ ArgType'
<1>1. ReqType'
  BY AnyType DEF ReqType, Done, ReqState
<1>2. ArgType'
  BY DEF ReqType, ArgType, Done
<1>3. QED
  BY <1>1, <1>2

LEMMA GotoType ==
  ASSUME ReqType, ArgType, NEW r \in Req, NEW pc \in ReqState, Goto(r, pc),
         UNCHANGED <<rtgt, rtodo, rarg, rtab, gone>>,
         raddr' \in [Req -> Addr], rold' \in [Req -> Slot \cup {None}],
         pc \in {"rebuild", "setcancel", "setrow"} => rarg[r] \in Interval,
         pc \in {"thr", "thrrow"} => rarg[r] \in Threshold
  PROVE  ReqType' /\ ArgType'
<1>1. ReqType'
  BY DEF ReqType, Goto
<1>2. ArgType'
  BY DEF ReqType, ArgType, Goto
<1>3. QED
  BY <1>1, <1>2

LEMMA NextRemovalType ==
  ASSUME ReqType, ArgType, NEW r \in Req, NextRemoval(r)
  PROVE  ReqType' /\ ArgType'
<1>1. CASE rtodo[r] \ {rtgt[r]} = {}
  BY <1>1, DoneType DEF NextRemoval
<1>2. CASE rtodo[r] \ {rtgt[r]} # {}
  <2>1. ReqType'
    BY <1>2 DEF ReqType, NextRemoval, Goto, ReqState
  <2>2. ArgType'
    BY <1>2 DEF ReqType, ArgType, NextRemoval, Goto
  <2>3. QED
    BY <2>1, <2>2
<1>3. QED
  BY <1>1, <1>2

(* A request that begins has its target, its victims and its argument.       *)
LEMMA BeginType ==
  ASSUME ReqType, ArgType, NEW r \in Req, NEW op, NEW pc \in ReqState, NEW t \in Target,
         Begin(r, op, pc, t), rtodo' \in [Req -> SUBSET Target],
         NEW x \in Interval \cup Threshold, rarg' \in {rarg, [rarg EXCEPT ![r] = x]},
         pc \in {"rebuild", "setcancel", "setrow"} =>
           x \in Interval /\ rarg' = [rarg EXCEPT ![r] = x],
         pc \in {"thr", "thrrow"} => x \in Threshold /\ rarg' = [rarg EXCEPT ![r] = x],
         rtab' \in [Req -> Tab]
  PROVE  ReqType' /\ ArgType'
<1>1. ReqType'
  BY DEF ReqType, Begin, Goto
<1>2. ArgType'
  BY DEF ReqType, ArgType, Begin, Goto
<1>3. QED
  BY <1>1, <1>2

-----------------------------------------------------------------------------
(* Every variable keeps its type.                                            *)

TypeInv == TypeOK /\ ArgType

LEMMA TypeInit == Init => TypeInv
<1> SUFFICES ASSUME Init PROVE TypeInv
  OBVIOUS
<1>1. PipeType /\ LoopType /\ DbType
  BY AnyType DEF Init, PipeType, LoopType, DbType, LoopState
<1>2. ReqType /\ ArgType
  BY AnyType DEF Init, ReqType, ReqState, ArgType
<1>3. QED
  BY <1>1, <1>2, AnyType DEF Init, TypeInv, TypeOK

(* What an action leaves alone keeps its type.                               *)
LEMMA UnchangedType ==
  ASSUME TypeInv
  PROVE  /\ UNCHANGED pipeVars => PipeType'
         /\ UNCHANGED loopVars => LoopType'
         /\ UNCHANGED dbVars => DbType'
         /\ UNCHANGED reqVars => ReqType' /\ ArgType'
<1>1. UNCHANGED pipeVars => PipeType'
  BY DEF TypeInv, TypeOK, PipeType, pipeVars
<1>2. UNCHANGED loopVars => LoopType'
  BY DEF TypeInv, TypeOK, LoopType, loopVars
<1>3. UNCHANGED dbVars => DbType'
  BY DEF TypeInv, TypeOK, DbType, dbVars
<1>4. UNCHANGED reqVars => ReqType' /\ ArgType'
  BY DEF TypeInv, TypeOK, ReqType, ArgType, reqVars
<1>5. QED
  BY <1>1, <1>2, <1>3, <1>4

LEMMA PipelinesType ==
  ASSUME TypeInv, NEW s \in Slot,
         Drained(s) \/ LoopTick(s) \/ LoopExit(s) \/ LoopRebuild(s) \/ LoopCancel(s)
  PROVE  TypeInv'
<1>t. /\ PipeType /\ LoopType /\ DbType /\ ReqType /\ ArgType /\ dns \in [Target -> Addr]
      /\ proc \in {"hydrating", "up", "stopping", "down"} /\ toHydrate \subseteq Target
  BY DEF TypeInv, TypeOK
<1>1. CASE Drained(s)
  <2>1. PipeType'
    BY <1>t, <1>1, AnyType DEF Drained, PipeType
  <2>2. QED
    BY <1>t, <1>1, <2>1, UnchangedType DEF Drained, TypeInv, TypeOK, procVars
<1>2. CASE LoopTick(s)
  <2>1. LoopType'
    BY <1>t, <1>2 DEF LoopTick, LoopType, LoopState, PipeType
  <2>2. QED
    BY <1>t, <1>2, <2>1, UnchangedType DEF LoopTick, TypeInv, TypeOK, procVars
<1>3. CASE LoopExit(s)
  <2>1. LoopType'
    BY <1>t, <1>3 DEF LoopExit, LoopType, LoopState
  <2>2. QED
    BY <1>t, <1>3, <2>1, UnchangedType DEF LoopExit, TypeInv, TypeOK, procVars
<1>4. CASE LoopRebuild(s)
  <2> DEFINE t == ptarget[s]
             old == pipelines[t]
  <2>1. t \in Target /\ old \in Slot \cup {None} /\ loopAddr[s] \in Addr
    BY <1>t DEF PipeType, LoopType
  <2>2. loopAddr' \in [Slot -> Addr]
    BY <1>t, <1>4, AnyType DEF LoopRebuild, LoopType
  <2>3. CASE UNCHANGED <<pipeVars, loopOld>> /\ loop' \in [Slot -> LoopState]
    <3>1. LoopType'
      BY <1>t, <2>2, <2>3 DEF LoopType
    <3>2. QED
      BY <1>t, <1>4, <2>3, <3>1, UnchangedType DEF LoopRebuild, TypeInv, TypeOK, procVars
  <2>4. CASE /\ old # None /\ loopOld' = [loopOld EXCEPT ![s] = ReplacedByLoop(s)]
             /\ \E n \in Slot : /\ Free(n) /\ Rebuild(n, t, loopAddr[s], pinterval[old])
                                /\ loop' = [loop EXCEPT ![s] = "cancel", ![n] = StartLoop(t)]
    <3>1. PICK n \in Slot : /\ Rebuild(n, t, loopAddr[s], pinterval[old])
                            /\ loop' = [loop EXCEPT ![s] = "cancel", ![n] = StartLoop(t)]
      BY <2>4
    <3>2. pinterval[old] \in Interval
      BY <1>t, <2>1, <2>4 DEF PipeType
    <3>3. PipeType'
      BY <1>t, <2>1, <2>4, <3>1, <3>2, RebuildType
    <3>4. LoopType'
      BY <1>t, <2>1, <2>2, <2>4, <3>1, StartType DEF LoopType, LoopState, ReplacedByLoop
    <3>5. QED
      BY <1>t, <1>4, <3>3, <3>4, UnchangedType DEF LoopRebuild, TypeInv, TypeOK, procVars
  <2>5. loop' = [loop EXCEPT ![s] = "wait"] \/ loop' = [loop EXCEPT ![s] = "off"]
          => loop' \in [Slot -> LoopState]
    BY <1>t DEF LoopType, LoopState
  <2>6. QED
    BY <1>4, <2>3, <2>4, <2>5 DEF LoopRebuild
<1>5. CASE LoopCancel(s)
  <2>1. PipeType'
    BY <1>t, <1>5, CancelType DEF LoopCancel
  <2>2. LoopType'
    BY <1>t, <1>5 DEF LoopCancel, LoopType, LoopState
  <2>3. QED
    BY <1>t, <1>5, <2>1, <2>2, UnchangedType DEF LoopCancel, TypeInv, TypeOK, procVars
<1>6. QED
  BY <1>1, <1>2, <1>3, <1>4, <1>5

LEMMA StepType ==
  ASSUME TypeInv, NEW r \in Req, Step(r)
  PROVE  TypeInv'
<1>t. /\ PipeType /\ LoopType /\ DbType /\ ReqType /\ ArgType /\ dns \in [Target -> Addr]
      /\ proc \in {"hydrating", "up", "stopping", "down"} /\ toHydrate \subseteq Target
  BY DEF TypeInv, TypeOK
<1>r. /\ rtgt[r] \in Target /\ raddr[r] \in Addr /\ rtodo[r] \subseteq Target
      /\ pipelines[rtgt[r]] \in Slot \cup {None} /\ dns[rtgt[r]] \in Addr
      /\ rold[r] \in Slot \cup {None}
  BY <1>t DEF ReqType, PipeType
<1>u. UNCHANGED <<raddr, rold>> => raddr' \in [Req -> Addr] /\ rold' \in [Req -> Slot \cup {None}]
  BY <1>t DEF ReqType
<1>1. CASE ResolveTarget(r)
  <2>1. ReqType' /\ ArgType'
    <3>1. CASE gone[r]
      BY <1>t, <1>1, <3>1, DoneType DEF ResolveTarget
    <3>2. CASE ~gone[r]
      <4>1. raddr' \in [Req -> Addr] /\ rold' \in [Req -> Slot \cup {None}]
        BY <1>t, <1>r, <1>1, <3>2 DEF ResolveTarget, ReqType
      <4>2. QED
        BY <1>t, <1>1, <3>2, <4>1, GotoType DEF ResolveTarget, ReqState
    <3>3. QED
      BY <3>1, <3>2
  <2>2. QED
    BY <1>t, <1>1, <2>1, UnchangedType DEF ResolveTarget, TypeInv, TypeOK, procVars
<1>2. CASE AddPipeline(r)
  <2>1. CASE AlreadyMonitored(rtgt[r])
    BY <1>t, <1>2, <2>1, DoneType, UnchangedType DEF AddPipeline, TypeInv, TypeOK, procVars
  <2>2. CASE ~AlreadyMonitored(rtgt[r])
    <3>1. PICK n \in Slot :
            /\ BuildPipeline(n, rtgt[r], raddr[r], DefaultInterval, NoThreshold)
            /\ loop' = [loop EXCEPT ![n] = StartLoop(rtgt[r])]
      BY <1>2, <2>2 DEF AddPipeline
    <3>2. PipeType'
      BY <1>t, <1>r, <3>1, BuildType
    <3>3. LoopType'
      BY <1>t, <1>2, <2>2, <3>1, StartType DEF AddPipeline, LoopType
    <3>4. raddr' \in [Req -> Addr] /\ rold' \in [Req -> Slot \cup {None}]
      BY <1>t, <1>2, <2>2, AnyType DEF AddPipeline, ReqType
    <3>5. ReqType' /\ ArgType'
      BY <1>t, <1>2, <2>2, <3>4, GotoType DEF AddPipeline, ReqState
    <3>6. QED
      BY <1>t, <1>2, <3>2, <3>3, <3>5, UnchangedType DEF AddPipeline, TypeInv, TypeOK, procVars
  <2>3. QED
    BY <2>1, <2>2
<1>3. CASE AddActiveTarget(r)
  <2>1. rows' \subseteq Target
    BY <1>t, <1>r, <1>3 DEF AddActiveTarget, Upsert, DbType
  <2>2. DbType'
    BY <1>t, <1>3, <2>1 DEF AddActiveTarget, DbType
  <2>3. QED
    BY <1>t, <1>3, <2>2, NextRemovalType, UnchangedType
       DEF AddActiveTarget, TypeInv, TypeOK, procVars
<1>4. ASSUME NEW t \in Target, RemovePipeline(r, t) PROVE TypeInv'
  <2>1. CASE pipelines[t] = None
    <3>1. ReqType' /\ ArgType'
      <4>1. CASE rtodo[r] = {t}
        BY <1>t, <1>4, <2>1, <4>1, DoneType DEF RemovePipeline
      <4>2. CASE rtodo[r] # {t}
        <5>1. ReqType'
          BY <1>t, <1>4, <2>1, <4>2 DEF RemovePipeline, ReqType
        <5>2. ArgType'
          BY <1>t, <1>4, <2>1, <4>2 DEF RemovePipeline, ArgType
        <5>3. QED
          BY <5>1, <5>2
      <4>3. QED
        BY <4>1, <4>2
    <3>2. UNCHANGED pipeVars /\ UNCHANGED dbVars
      BY <1>4, <2>1 DEF RemovePipeline, pipeVars, dbVars
    <3>3. QED
      BY <1>t, <1>4, <3>1, <3>2, UnchangedType DEF RemovePipeline, TypeInv, TypeOK, procVars
  <2>2. CASE pipelines[t] # None
    <3>1. ReqType'
      BY <1>t, <1>4, <2>2 DEF RemovePipeline, ReqType, Goto, ReqState, PipeType
    <3>2. ArgType'
      BY <1>t, <1>4, <2>2 DEF RemovePipeline, ReqType, ArgType, Goto
    <3>3. PipeType' /\ DbType'
      BY <1>t, <1>4, <2>2 DEF RemovePipeline, PipeType, DbType
    <3>4. QED
      BY <1>t, <1>4, <3>1, <3>2, <3>3, UnchangedType DEF RemovePipeline, TypeInv, TypeOK, procVars
  <2>3. QED
    BY <2>1, <2>2
<1>5. CASE CancelOld(r)
  <2>1. PipeType'
    BY <1>t, <1>5, CancelType DEF CancelOld
  <2>2. ReqType'
    BY <1>t, <1>5 DEF CancelOld, ReqType, Goto, ReqState
  <2>3. ArgType'
    BY <1>t, <1>5 DEF CancelOld, ReqType, ArgType, Goto
  <2>4. QED
    BY <1>t, <1>5, <2>1, <2>2, <2>3, UnchangedType DEF CancelOld, TypeInv, TypeOK, procVars
<1>6. CASE RemoveActiveTarget(r)
  <2>1. DbType'
    BY <1>t, <1>r, <1>6 DEF RemoveActiveTarget, DbType
  <2>2. QED
    BY <1>t, <1>6, <2>1, NextRemovalType, UnchangedType
       DEF RemoveActiveTarget, TypeInv, TypeOK, procVars
<1>7. CASE RebuildPipeline(r)
  <2> DEFINE t == rtgt[r]
             old == pipelines[t]
  <2>1. CASE old = None \/ pinterval[old] = rarg[r]
    BY <1>t, <1>7, <2>1, DoneType, UnchangedType DEF RebuildPipeline, TypeInv, TypeOK, procVars
  <2>2. CASE ~(old = None \/ pinterval[old] = rarg[r])
    <3>1. PICK n \in Slot : /\ Rebuild(n, t, paddr[old], rarg[r])
                            /\ loop' = [loop EXCEPT ![n] = StartLoop(t)]
      BY <1>7, <2>2 DEF RebuildPipeline
    <3>2. paddr[old] \in Addr /\ rarg[r] \in Interval
      BY <1>t, <1>r, <1>7, <2>2 DEF RebuildPipeline, PipeType, ArgType
    <3>3. PipeType'
      BY <1>t, <1>r, <2>2, <3>1, <3>2, RebuildType
    <3>4. LoopType'
      BY <1>t, <1>7, <2>2, <3>1, StartType DEF RebuildPipeline, LoopType
    <3>5. raddr' \in [Req -> Addr] /\ rold' \in [Req -> Slot \cup {None}]
      BY <1>t, <1>r, <1>7, <2>2 DEF RebuildPipeline, ReqType
    <3>6. ReqType' /\ ArgType'
      BY <1>t, <1>7, <2>2, <3>2, <3>5, GotoType DEF RebuildPipeline, ReqState
    <3>7. QED
      BY <1>t, <1>7, <3>3, <3>4, <3>6, UnchangedType
         DEF RebuildPipeline, TypeInv, TypeOK, procVars
  <2>3. QED
    BY <2>1, <2>2
<1>8. CASE SetActiveTargetInterval(r)
  <2>1. rarg[r] \in Interval
    BY <1>t, <1>8 DEF SetActiveTargetInterval, ArgType
  <2>2. DbType'
    BY <1>t, <1>r, <1>8, <2>1 DEF SetActiveTargetInterval, StoreInterval, DbType
  <2>3. QED
    BY <1>t, <1>8, <2>2, DoneType, UnchangedType
       DEF SetActiveTargetInterval, TypeInv, TypeOK, procVars
<1>9. CASE SetThresholds(r)
  <2>1. rarg[r] \in Threshold
    BY <1>t, <1>9 DEF SetThresholds, ArgType
  <2>2. PipeType'
    BY <1>t, <1>9, <2>1 DEF SetThresholds, PipeType
  <2>3. ReqType' /\ ArgType'
    BY <1>t, <1>u, <1>9, <2>1, DoneType, GotoType DEF SetThresholds, ReqState
  <2>4. QED
    BY <1>t, <1>9, <2>2, <2>3, UnchangedType DEF SetThresholds, TypeInv, TypeOK, procVars
<1>10. CASE SetActiveTargetThresholds(r)
  <2>1. rarg[r] \in Threshold
    BY <1>t, <1>10 DEF SetActiveTargetThresholds, ArgType
  <2>2. DbType'
    BY <1>t, <1>r, <1>10, <2>1 DEF SetActiveTargetThresholds, DbType
  <2>3. QED
    BY <1>t, <1>10, <2>2, DoneType, UnchangedType
       DEF SetActiveTargetThresholds, TypeInv, TypeOK, procVars
<1>11. CASE DeleteTab(r)
  <2>1. DbType'
    BY <1>t, <1>r, <1>11 DEF DeleteTab, DbType
  <2>2. ReqType' /\ ArgType'
    BY <1>t, <1>u, <1>11, DoneType, GotoType DEF DeleteTab, ReqState
  <2>3. QED
    BY <1>t, <1>11, <2>1, <2>2, UnchangedType DEF DeleteTab, TypeInv, TypeOK, procVars
<1>12. CASE CountTabsForTarget(r)
  <2>1. CASE Done(r)
    BY <1>t, <1>12, <2>1, DoneType, UnchangedType
       DEF CountTabsForTarget, TypeInv, TypeOK, procVars
  <2>2. CASE /\ rtodo' = [rtodo EXCEPT ![r] = {rtgt[r]}] /\ Goto(r, "remove")
             /\ UNCHANGED <<rtgt, raddr, rold, rarg, rtab, gone>>
    <3>1. ReqType'
      BY <1>t, <1>r, <2>2 DEF ReqType, Goto, ReqState
    <3>2. ArgType'
      BY <1>t, <2>2 DEF ReqType, ArgType, Goto
    <3>3. QED
      BY <1>t, <1>12, <3>1, <3>2, UnchangedType
         DEF CountTabsForTarget, TypeInv, TypeOK, procVars
  <2>3. QED
    BY <1>12, <2>1, <2>2 DEF CountTabsForTarget
<1>13. QED
  BY <1>1, <1>2, <1>3, <1>4, <1>5, <1>6, <1>7, <1>8, <1>9, <1>10, <1>11, <1>12 DEF Step

LEMMA RequestsType ==
  ASSUME TypeInv, Requests
  PROVE  TypeInv'
<1>t. /\ PipeType /\ LoopType /\ DbType /\ ReqType /\ ArgType /\ dns \in [Target -> Addr]
      /\ proc \in {"hydrating", "up", "stopping", "down"} /\ toHydrate \subseteq Target
  BY DEF TypeInv, TypeOK
<1>u. /\ UNCHANGED rtodo => rtodo' \in [Req -> SUBSET Target]
      /\ UNCHANGED rtab => rtab' \in [Req -> Tab]
  BY <1>t DEF ReqType
<1>b. ASSUME NEW r \in Req, NEW op, NEW pc, NEW t, Begin(r, op, pc, t), ReqType', ArgType'
      PROVE  TypeInv'
  BY <1>t, <1>b, UnchangedType DEF Begin, TypeInv, TypeOK, procVars
<1>1. ASSUME NEW r \in Req, NEW t \in Target, HandleAdd(r, t) PROVE TypeInv'
  <2>1. ReqType' /\ ArgType'
    BY <1>t, <1>u, <1>1, BeginType DEF HandleAdd, ReqState
  <2>2. QED
    BY <1>b, <1>1, <2>1 DEF HandleAdd
<1>2. ASSUME NEW r \in Req, NEW t \in Target, HandleDelete(r, t) PROVE TypeInv'
  <2>1. rtodo' \in [Req -> SUBSET Target]
    BY <1>t, <1>2 DEF HandleDelete, ReqType
  <2>2. ReqType' /\ ArgType'
    BY <1>t, <1>u, <1>2, <2>1, BeginType DEF HandleDelete, ReqState
  <2>3. QED
    BY <1>b, <1>2, <2>2 DEF HandleDelete
<1>3. ASSUME NEW r \in Req, NEW t \in Target, HandlePatch(r, t) PROVE TypeInv'
  <2>1. CASE /\ Begin(r, "interval", "rebuild", t)
             /\ \E i \in Interval : rarg' = [rarg EXCEPT ![r] = i]
    <3>1. PICK i \in Interval : rarg' = [rarg EXCEPT ![r] = i]
      BY <2>1
    <3>2. ReqType' /\ ArgType'
      BY <1>t, <1>u, <1>3, <2>1, <3>1, BeginType DEF HandlePatch, ReqState
    <3>3. QED
      BY <1>b, <2>1, <3>2
  <2>2. CASE /\ Begin(r, "threshold", "thr", t)
             /\ \E th \in Threshold : rarg' = [rarg EXCEPT ![r] = th]
    <3>1. PICK th \in Threshold : rarg' = [rarg EXCEPT ![r] = th]
      BY <2>2
    <3>2. ReqType' /\ ArgType'
      BY <1>t, <1>u, <1>3, <2>2, <3>1, BeginType DEF HandlePatch, ReqState
    <3>3. QED
      BY <1>b, <2>2, <3>2
  <2>3. QED
    BY <1>3, <2>1, <2>2 DEF HandlePatch
<1>4. ASSUME NEW r \in Req, NEW t \in Target, HandleSwap(r, t) PROVE TypeInv'
  <2>1. rtodo' \in [Req -> SUBSET Target]
    BY <1>t, <1>4 DEF HandleSwap, ReqType, Monitored
  <2>2. PICK pc \in {"remove", "resolve"} : Begin(r, "swap", pc, t)
    BY <1>4 DEF HandleSwap
  <2>3. ReqType' /\ ArgType'
    BY <1>t, <1>u, <1>4, <2>1, <2>2, BeginType DEF HandleSwap, ReqState
  <2>4. QED
    BY <1>b, <2>2, <2>3
<1>5. ASSUME NEW r \in Req, NEW k \in Tab, HandleTabDelete(r, k) PROVE TypeInv'
  <2>1. rtab' \in [Req -> Tab] /\ tabOf[k] \in Target
    BY <1>t, <1>5 DEF HandleTabDelete, ReqType, DbType
  <2>2. ReqType' /\ ArgType'
    BY <1>t, <1>u, <1>5, <2>1, BeginType DEF HandleTabDelete, ReqState
  <2>3. QED
    BY <1>b, <1>5, <2>2 DEF HandleTabDelete
<1>6. ASSUME NEW r \in Req, ClientLeaves(r) PROVE TypeInv'
  <2>1. ReqType' /\ ArgType'
    BY <1>t, <1>6 DEF ClientLeaves, ReqType, ArgType
  <2>2. QED
    BY <1>t, <1>6, <2>1, UnchangedType DEF ClientLeaves, TypeInv, TypeOK, procVars
<1>7. ASSUME NEW k \in Tab, NEW t \in Target, CreateTab(k, t) PROVE TypeInv'
  <2>1. DbType'
    BY <1>t, <1>7 DEF CreateTab, DbType
  <2>2. QED
    BY <1>t, <1>7, <2>1, UnchangedType DEF CreateTab, TypeInv, TypeOK, procVars
<1>8. QED
  BY <1>1, <1>2, <1>3, <1>4, <1>5, <1>6, <1>7, StepType DEF Requests

LEMMA DaemonType ==
  ASSUME TypeInv, Daemon
  PROVE  TypeInv'
<1>t. /\ PipeType /\ LoopType /\ DbType /\ ReqType /\ ArgType /\ dns \in [Target -> Addr]
      /\ proc \in {"hydrating", "up", "stopping", "down"} /\ toHydrate \subseteq Target
  BY DEF TypeInv, TypeOK
<1>1. ASSUME NEW t \in Target, NEW a \in Addr, DnsChanges(t, a) PROVE TypeInv'
  <2>1. dns' \in [Target -> Addr]
    BY <1>t, <1>1 DEF DnsChanges
  <2>2. QED
    BY <1>t, <1>1, <2>1, UnchangedType DEF DnsChanges, TypeInv, TypeOK, procVars
<1>2. CASE Shutdown
  <2>1. PipeType'
    BY <1>t, <1>2 DEF Shutdown, PipeType
  <2>2. QED
    BY <1>t, <1>2, <2>1, UnchangedType DEF Shutdown, TypeInv, TypeOK
<1>3. CASE Halt
  <2>1. PipeType' /\ LoopType' /\ DbType'
    BY <1>t, <1>3, AnyType DEF Halt, PipeType, LoopType, LoopState, DbType
  <2>2. ReqType' /\ ArgType'
    BY <1>t, <1>3, AnyType DEF Halt, ReqType, ReqState, ArgType
  <2>3. QED
    BY <1>t, <1>3, <2>1, <2>2 DEF Halt, TypeInv, TypeOK
<1>4. CASE StartDaemon
  BY <1>t, <1>4, UnchangedType DEF StartDaemon, TypeInv, TypeOK, DbType
<1>5. CASE Serve
  BY <1>t, <1>5, UnchangedType DEF Serve, TypeInv, TypeOK
<1>6. ASSUME NEW t \in Target, HydrateTarget(t) PROVE TypeInv'
  <2>1. dns[t] \in Addr /\ rowInterval[t] \in Interval /\ rowThr[t] \in Threshold
    BY <1>t DEF DbType
  <2>2. CASE UNCHANGED <<pipeVars, loop>>
    BY <1>t, <1>6, <2>2, UnchangedType DEF HydrateTarget, TypeInv, TypeOK, loopVars
  <2>3. ASSUME NEW n \in Slot, BuildPipeline(n, t, dns[t], rowInterval[t], rowThr[t]),
               loop' = [loop EXCEPT ![n] = StartLoop(t)]
        PROVE  TypeInv'
    <3>1. PipeType'
      BY <1>t, <2>1, <2>3, BuildType
    <3>2. LoopType'
      BY <1>t, <1>6, <2>3, StartType DEF HydrateTarget, LoopType
    <3>3. QED
      BY <1>t, <1>6, <3>1, <3>2, UnchangedType DEF HydrateTarget, TypeInv, TypeOK
  <2>4. QED
    BY <1>6, <2>2, <2>3 DEF HydrateTarget
<1>7. QED
  BY <1>1, <1>2, <1>3, <1>4, <1>5, <1>6 DEF Daemon

LEMMA TypeStep == TypeInv /\ [Next]_vars => TypeInv'
<1> SUFFICES ASSUME TypeInv, [Next]_vars PROVE TypeInv'
  OBVIOUS
<1>1. CASE UNCHANGED vars
  BY <1>1, UnchangedType DEF vars, TypeInv, TypeOK, procVars
<1>2. QED
  BY <1>1, PipelinesType, RequestsType, DaemonType DEF Next, Pipelines

(* Every variable of the supervisor, its handlers and its tables keeps its   *)
(* type; the argument of a patch is of the kind its handler stores.          *)
THEOREM TargetsTypeCorrect == Spec => [](TypeOK /\ ArgType)
<1>1. Spec => []TypeInv
  BY TypeInit, TypeStep, PTL DEF Spec
<1>2. TypeInv <=> TypeOK /\ ArgType
  BY DEF TypeInv
<1>3. QED
  BY <1>1, <1>2, PTL

-----------------------------------------------------------------------------
(* A monitored target has one pipeline.                                      *)

(* What the argument about slots needs of the types.                         *)
SlotType ==
  /\ pipelines \in [Target -> Slot \cup {None}] /\ pst \in [Slot -> {"run", "cancelled", "done"}]
  /\ ptarget \in [Slot -> Target] /\ loop \in [Slot -> LoopState]
  /\ loopOld \in [Slot -> Slot \cup {None}] /\ rpc \in [Req -> ReqState]
  /\ rold \in [Req -> Slot \cup {None}] /\ paddr \in [Slot -> Addr] /\ loopAddr \in [Slot -> Addr]

LEMMA SlotTyped == ASSUME TypeOK PROVE SlotType
BY DEF TypeOK, PipeType, LoopType, ReqType, SlotType

LEMMA SlotInit == Init => SlotInv
<1> SUFFICES ASSUME Init PROVE SlotInv
  OBVIOUS
<1>1. NoLeakedPipeline /\ FoundInv
  BY DEF Init, NoLeakedPipeline, FoundInv
<1>2. MapInv /\ AliveInv /\ BootInv
  BY DEF Init, MapInv, AliveInv, BootInv, Monitored
<1>3. QED
  BY <1>1, <1>2 DEF SlotInv

(* A handler that holds no pipeline and touches none.                        *)
LEMMA HandlerFrame ==
  ASSUME SlotType, SlotInv, NEW r \in Req, NEW pc, rpc' = [rpc EXCEPT ![r] = pc],
         rpc[r] \notin {"cancel", "setcancel"}, proc \in {"up", "stopping"},
         rold' \in {rold, [rold EXCEPT ![r] = None]},
         UNCHANGED <<proc, toHydrate, pipelines, pst, ptarget, paddr, loop, loopAddr, loopOld>>
  PROVE  SlotInv'
<1>1. NoLeakedPipeline'
  BY DEF SlotType, SlotInv, NoLeakedPipeline, Canceller
<1>2. MapInv'
  BY DEF SlotType, SlotInv, MapInv
<1>3. AliveInv' /\ FoundInv'
  BY DEF SlotType, SlotInv, AliveInv, FoundInv, Monitored
<1>4. BootInv'
  BY DEF SlotInv, BootInv, Monitored
<1>5. QED
  BY <1>1, <1>2, <1>3, <1>4 DEF SlotInv

LEMMA DoneSlots ==
  ASSUME SlotType, SlotInv, NEW r \in Req, rpc[r] # "idle", Done(r),
         rpc[r] \notin {"cancel", "setcancel"},
         UNCHANGED <<proc, toHydrate, pipelines, pst, ptarget, paddr, loop, loopAddr, loopOld>>,
         proc \in {"hydrating", "up", "stopping", "down"}
  PROVE  SlotInv'
<1>1. proc \in {"up", "stopping"}
  BY DEF SlotInv, BootInv
<1>2. QED
  BY <1>1, HandlerFrame DEF Done

LEMMA NextRemovalSlots ==
  ASSUME SlotType, SlotInv, NEW r \in Req, rpc[r] # "idle", NextRemoval(r),
         rpc[r] \notin {"cancel", "setcancel"},
         UNCHANGED <<proc, toHydrate, pipelines, pst, ptarget, paddr, loop, loopAddr, loopOld>>,
         proc \in {"hydrating", "up", "stopping", "down"}
  PROVE  SlotInv'
<1>1. proc \in {"up", "stopping"}
  BY DEF SlotInv, BootInv
<1>2. QED
  BY <1>1, HandlerFrame, DoneSlots DEF NextRemoval, Goto

(* Cancelling a pipeline that is in no target's entry of the map.            *)
LEMMA CancelSlots ==
  ASSUME SlotType, SlotInv, NEW s, CancelSlot(s), \A t \in Target : pipelines[t] = s => s = None
  PROVE  /\ \A t \in Monitored : pst'[pipelines[t]] = pst[pipelines[t]]
         /\ \A x \in Slot : pst'[x] = "run" => pst[x] = "run" /\ x # s
<1>1. \A x \in Slot : pst'[x] = "run" => pst[x] = "run" /\ x # s
  BY DEF SlotType, CancelSlot
<1>2. \A t \in Monitored : pst'[pipelines[t]] = pst[pipelines[t]]
  BY DEF SlotType, CancelSlot, Monitored
<1>3. QED
  BY <1>1, <1>2

LEMMA PipelinesSlots ==
  ASSUME SlotType, SlotInv, NEW s \in Slot,
         Drained(s) \/ LoopTick(s) \/ LoopExit(s) \/ LoopRebuild(s) \/ LoopCancel(s)
  PROVE  SlotInv'
<1>i. NoLeakedPipeline /\ MapInv /\ AliveInv /\ FoundInv /\ BootInv
  BY DEF SlotInv
<1>1. CASE Drained(s)
  <2>1. NoLeakedPipeline' /\ MapInv'
    BY <1>i, <1>1 DEF Drained, SlotType, NoLeakedPipeline, MapInv, Canceller, reqVars, loopVars
  <2>2. AliveInv' /\ FoundInv' /\ BootInv'
    BY <1>i, <1>1 DEF Drained, SlotType, AliveInv, FoundInv, BootInv, Monitored, procVars,
                      loopVars, reqVars
  <2>3. QED
    BY <2>1, <2>2 DEF SlotInv
<1>2. CASE LoopTick(s)
  <2>1. NoLeakedPipeline' /\ MapInv'
    BY <1>i, <1>2 DEF LoopTick, SlotType, NoLeakedPipeline, MapInv, Canceller, reqVars, pipeVars
  <2>2. AliveInv' /\ FoundInv' /\ BootInv'
    BY <1>i, <1>2 DEF LoopTick, SlotType, AliveInv, FoundInv, BootInv, Monitored, procVars,
                      pipeVars, reqVars
  <2>3. QED
    BY <2>1, <2>2 DEF SlotInv
<1>3. CASE LoopExit(s)
  <2>1. NoLeakedPipeline' /\ MapInv'
    BY <1>i, <1>3 DEF LoopExit, SlotType, NoLeakedPipeline, MapInv, Canceller, reqVars, pipeVars
  <2>2. AliveInv' /\ FoundInv' /\ BootInv'
    BY <1>i, <1>3 DEF LoopExit, SlotType, AliveInv, FoundInv, BootInv, Monitored, procVars,
                      pipeVars, reqVars
  <2>3. QED
    BY <2>1, <2>2 DEF SlotInv
<1>4. CASE LoopRebuild(s)
  <2> DEFINE t == ptarget[s]
             old == pipelines[t]
  <2>0. t \in Target /\ loop[s] = "found" /\ loopAddr' = [loopAddr EXCEPT ![s] = AnyAddr]
        /\ UNCHANGED <<procVars, reqVars>>
    BY <1>4 DEF LoopRebuild, SlotType
  <2>1. CASE old = None /\ loop' = [loop EXCEPT ![s] = "wait"] /\ UNCHANGED <<pipeVars, loopOld>>
    <3>1. NoLeakedPipeline' /\ MapInv'
      BY <1>i, <2>0, <2>1 DEF SlotType, NoLeakedPipeline, MapInv, Canceller, reqVars, pipeVars
    <3>2. AliveInv' /\ FoundInv' /\ BootInv'
      BY <1>i, <2>0, <2>1 DEF SlotType, AliveInv, FoundInv, BootInv, Monitored, procVars,
                              pipeVars, reqVars
    <3>3. QED
      BY <3>1, <3>2 DEF SlotInv
  <2>2. CASE /\ old # None /\ paddr[old] = loopAddr[s]
             /\ loop' = [loop EXCEPT ![s] = "off"] /\ UNCHANGED <<pipeVars, loopOld>>
    <3>1. NoLeakedPipeline' /\ MapInv'
      BY <1>i, <2>0, <2>2 DEF SlotType, NoLeakedPipeline, MapInv, Canceller, reqVars, pipeVars
    \* The loop that gives up is not that of the pipeline in the map.
    <3>2. ASSUME proc \in {"up", "hydrating"}, NEW u \in Monitored PROVE pipelines[u] # s
      BY <1>i, <2>0, <2>2, <3>2 DEF SlotType, AliveInv, FoundInv, MapInv, Monitored
    <3>3. AliveInv'
      BY <1>i, <2>0, <2>2, <3>2 DEF SlotType, AliveInv, Monitored, procVars, pipeVars
    <3>4. FoundInv' /\ BootInv'
      BY <1>i, <2>0, <2>2 DEF SlotType, FoundInv, BootInv, Monitored, procVars, pipeVars, reqVars
    <3>5. QED
      BY <3>1, <3>3, <3>4 DEF SlotInv
  <2>3. ASSUME old # None, NEW n \in Slot, Free(n),
               Rebuild(n, t, loopAddr[s], pinterval[old]),
               loop' = [loop EXCEPT ![s] = "cancel", ![n] = StartLoop(t)],
               loopOld' = [loopOld EXCEPT ![s] = old]
        PROVE  SlotInv'
    <3>1. /\ pst' = [pst EXCEPT ![n] = IF proc = "stopping" THEN "cancelled" ELSE "run"]
          /\ ptarget' = [ptarget EXCEPT ![n] = t] /\ pipelines' = [pipelines EXCEPT ![t] = n]
          /\ paddr' = [paddr EXCEPT ![n] = loopAddr[s]]
          /\ n # s /\ old \in Slot /\ n # old /\ n # None
      BY <2>0, <2>3 DEF Rebuild, BuildPipeline, Free, SlotType
    <3>2. NoLeakedPipeline'
      <4>1. SUFFICES ASSUME NEW x \in Slot, pst'[x] = "run"
                     PROVE  pipelines'[ptarget'[x]] = x \/ Canceller(x)'
        BY DEF NoLeakedPipeline
      <4>2. CASE x = n
        BY <2>0, <3>1, <4>2 DEF SlotType
      <4>3. CASE x = old
        BY <2>0, <2>3, <3>1, <4>3 DEF SlotType, Canceller
      <4>4. CASE x # n /\ x # old
        <5>1. pipelines[ptarget[x]] = x \/ Canceller(x)
          BY <1>i, <3>1, <4>1, <4>4 DEF SlotType, NoLeakedPipeline
        <5>2. pipelines[ptarget[x]] = x => pipelines'[ptarget'[x]] = x
          BY <2>0, <3>1, <4>4 DEF SlotType
        <5>3. Canceller(x) => Canceller(x)'
          BY <2>0, <2>3, <3>1 DEF SlotType, Canceller, reqVars, Free
        <5>4. QED
          BY <5>1, <5>2, <5>3
      <4>5. QED
        BY <4>2, <4>3, <4>4
    <3>3. MapInv'
      BY <1>i, <2>0, <2>3, <3>1 DEF SlotType, MapInv, Free, reqVars
    <3>4. AliveInv'
      BY <1>i, <2>0, <2>3, <3>1 DEF SlotType, AliveInv, MapInv, Free, Monitored, procVars, StartLoop
    <3>5. FoundInv'
      BY <1>i, <2>0, <2>3, <3>1 DEF SlotType, FoundInv, StartLoop
    <3>6. BootInv'
      BY <1>i, <2>0, <2>3, <3>1 DEF SlotType, BootInv, Monitored, procVars, reqVars
    <3>7. QED
      BY <3>2, <3>3, <3>4, <3>5, <3>6 DEF SlotInv
  <2>4. QED
    BY <1>4, <2>1, <2>2, <2>3 DEF LoopRebuild, ReplacedByLoop
<1>5. CASE LoopCancel(s)
  <2>0. /\ loop[s] = "cancel" /\ loop' = [loop EXCEPT ![s] = "off"]
        /\ loopOld' = [loopOld EXCEPT ![s] = None] /\ CancelSlot(loopOld[s])
        /\ UNCHANGED <<procVars, reqVars, loopAddr, pipelines, ptarget, paddr>>
    BY <1>5 DEF LoopCancel, CancelSlot
  <2>1. \A u \in Target : pipelines[u] = loopOld[s] => loopOld[s] = None
    BY <1>i DEF MapInv
  <2>2. /\ \A u \in Monitored : pst'[pipelines[u]] = pst[pipelines[u]]
        /\ \A x \in Slot : pst'[x] = "run" => pst[x] = "run" /\ x # loopOld[s]
    BY <2>0, <2>1, CancelSlots
  <2>3. NoLeakedPipeline'
    BY <1>i, <2>0, <2>2 DEF SlotType, NoLeakedPipeline, Canceller, reqVars
  <2>4. MapInv'
    BY <1>i, <2>0 DEF SlotType, MapInv, reqVars
  <2>5. AliveInv'
    BY <1>i, <2>0, <2>2 DEF SlotType, AliveInv, Monitored, procVars
  <2>6. FoundInv' /\ BootInv'
    BY <1>i, <2>0, <2>2 DEF SlotType, FoundInv, BootInv, Monitored, procVars, reqVars
  <2>7. QED
    BY <2>3, <2>4, <2>5, <2>6 DEF SlotInv
<1>6. QED
  BY <1>1, <1>2, <1>3, <1>4, <1>5

(* A free slot becomes the pipeline of a target that has none.               *)
LEMMA NewSlots ==
  ASSUME SlotType, SlotInv, NEW n \in Slot, NEW t \in Target, NEW a, NEW i, NEW th,
         Free(n), pipelines[t] = None, BuildPipeline(n, t, a, i, th),
         loop' = [loop EXCEPT ![n] = StartLoop(t)], UNCHANGED <<proc, loopAddr, loopOld, rold>>,
         \A r \in Req : rpc[r] \in {"cancel", "setcancel"} => rpc'[r] = rpc[r]
  PROVE  NoLeakedPipeline' /\ MapInv' /\ AliveInv' /\ FoundInv'
<1>i. NoLeakedPipeline /\ MapInv /\ AliveInv /\ FoundInv /\ BootInv
  BY DEF SlotInv
<1>0. /\ pst' = [pst EXCEPT ![n] = IF proc = "stopping" THEN "cancelled" ELSE "run"]
      /\ ptarget' = [ptarget EXCEPT ![n] = t] /\ pipelines' = [pipelines EXCEPT ![t] = n]
      /\ paddr' = [paddr EXCEPT ![n] = a] /\ n # None
  BY DEF BuildPipeline
<1>1. NoLeakedPipeline'
  <2>1. SUFFICES ASSUME NEW x \in Slot, pst'[x] = "run"
                 PROVE  pipelines'[ptarget'[x]] = x \/ Canceller(x)'
    BY DEF NoLeakedPipeline
  <2>2. CASE x = n
    BY <1>0, <2>2 DEF SlotType
  <2>3. CASE x # n
    <3>1. pipelines[ptarget[x]] = x \/ Canceller(x)
      BY <1>i, <1>0, <2>1, <2>3 DEF SlotType, NoLeakedPipeline
    <3>2. pipelines[ptarget[x]] = x => pipelines'[ptarget'[x]] = x
      BY <1>0, <2>3 DEF SlotType
    <3>3. Canceller(x) => Canceller(x)'
      BY DEF SlotType, Canceller, Free
    <3>4. QED
      BY <3>1, <3>2, <3>3
  <2>4. QED
    BY <2>2, <2>3
<1>2. MapInv'
  BY <1>i, <1>0 DEF SlotType, MapInv, Free
<1>3. AliveInv'
  BY <1>i, <1>0 DEF SlotType, AliveInv, Monitored, Free, StartLoop
<1>4. FoundInv'
  BY <1>i, <1>0 DEF SlotType, FoundInv, StartLoop
<1>5. QED
  BY <1>1, <1>2, <1>3, <1>4

LEMMA StepSlots ==
  ASSUME TypeOK, SlotInv, NEW r \in Req, Step(r)
  PROVE  SlotInv'
<1>t. SlotType /\ rtgt[r] \in Target /\ proc \in {"hydrating", "up", "stopping", "down"}
  BY SlotTyped DEF TypeOK, ReqType
<1>i. NoLeakedPipeline /\ MapInv /\ AliveInv /\ FoundInv /\ BootInv
  BY DEF SlotInv
<1>u. rpc[r] # "idle" => proc \in {"up", "stopping"}
  BY <1>t, <1>i DEF BootInv
<1>f. UNCHANGED <<procVars, pipeVars, loopVars>> =>
        UNCHANGED <<proc, toHydrate, pipelines, pst, ptarget, paddr, loop, loopAddr, loopOld>>
  BY DEF procVars, pipeVars, loopVars
<1>1. CASE ResolveTarget(r)
  BY <1>t, <1>u, <1>f, <1>1, DoneSlots, HandlerFrame DEF ResolveTarget, Goto
<1>2. CASE AddPipeline(r)
  <2>1. CASE AlreadyMonitored(rtgt[r])
    BY <1>t, <1>f, <1>2, <2>1, DoneSlots DEF AddPipeline
  <2>2. CASE ~AlreadyMonitored(rtgt[r])
    <3>1. PICK n \in Slot :
            /\ Free(n) /\ BuildPipeline(n, rtgt[r], raddr[r], DefaultInterval, NoThreshold)
            /\ loop' = [loop EXCEPT ![n] = StartLoop(rtgt[r])]
      BY <1>2, <2>2 DEF AddPipeline, Spare
    <3>2. /\ UNCHANGED <<proc, toHydrate, loopAddr, loopOld, rold>> /\ rpc[r] = "build"
          /\ rpc' = [rpc EXCEPT ![r] = "addrow"] /\ pipelines[rtgt[r]] = None
      BY <1>2, <2>2 DEF AddPipeline, procVars, Goto, AlreadyMonitored
    <3>3. NoLeakedPipeline' /\ MapInv' /\ AliveInv' /\ FoundInv'
      BY <1>t, <3>1, <3>2, NewSlots DEF SlotType
    <3>4. BootInv'
      BY <1>t, <1>i, <1>u, <3>2 DEF BootInv
    <3>5. QED
      BY <3>3, <3>4 DEF SlotInv
  <2>3. QED
    BY <2>1, <2>2
<1>3. CASE AddActiveTarget(r)
  BY <1>t, <1>f, <1>3, NextRemovalSlots DEF AddActiveTarget
<1>4. ASSUME NEW t \in Target, RemovePipeline(r, t) PROVE SlotInv'
  <2>0. /\ rpc[r] = "remove"
        /\ UNCHANGED <<proc, toHydrate, pst, ptarget, paddr, loop, loopAddr, loopOld>>
    BY <1>4 DEF RemovePipeline, procVars, loopVars
  <2>1. CASE pipelines[t] = None
    <3>1. CASE rtodo[r] = {t}
      BY <1>t, <1>4, <2>0, <2>1, <3>1, DoneSlots DEF RemovePipeline
    <3>2. CASE rtodo[r] # {t}
      <4>1. rpc' = [rpc EXCEPT ![r] = rpc[r]] /\ rold' = rold /\ pipelines' = pipelines
        BY <1>t, <1>4, <2>1, <3>2 DEF RemovePipeline, SlotType
      <4>2. QED
        BY <1>t, <1>u, <2>0, <4>1, HandlerFrame
    <3>3. QED
      BY <3>1, <3>2
  <2>2. CASE pipelines[t] # None
    <3>0. /\ pipelines' = [pipelines EXCEPT ![t] = None]
          /\ rold' = [rold EXCEPT ![r] = pipelines[t]] /\ rpc' = [rpc EXCEPT ![r] = "cancel"]
      BY <1>4, <2>2 DEF RemovePipeline, Goto
    <3>1. NoLeakedPipeline'
      BY <1>t, <1>i, <2>0, <3>0 DEF SlotType, NoLeakedPipeline, Canceller
    <3>2. MapInv'
      BY <1>t, <1>i, <2>0, <3>0 DEF SlotType, MapInv
    <3>3. AliveInv' /\ FoundInv'
      BY <1>t, <1>i, <2>0, <3>0 DEF SlotType, AliveInv, FoundInv, Monitored
    <3>4. BootInv'
      BY <1>t, <1>i, <1>u, <2>0, <3>0 DEF SlotType, BootInv, Monitored
    <3>5. QED
      BY <3>1, <3>2, <3>3, <3>4 DEF SlotInv
  <2>3. QED
    BY <2>1, <2>2
<1>5. CASE CancelOld(r)
  <2>0. /\ rpc[r] \in {"cancel", "setcancel"} /\ CancelSlot(rold[r]) /\ UNCHANGED rold
        /\ UNCHANGED <<proc, toHydrate, pipelines, ptarget, paddr, loop, loopAddr, loopOld>>
        /\ \E pc \in {"delrow", "setrow"} : rpc' = [rpc EXCEPT ![r] = pc]
    BY <1>5 DEF CancelOld, OldOf, CancelSlot, procVars, loopVars, Goto
  <2>1. \A u \in Target : pipelines[u] = rold[r] => rold[r] = None
    BY <1>i DEF MapInv
  <2>2. /\ \A u \in Monitored : pst'[pipelines[u]] = pst[pipelines[u]]
        /\ \A x \in Slot : pst'[x] = "run" => pst[x] = "run" /\ x # rold[r]
    BY <1>t, <2>0, <2>1, CancelSlots
  <2>3. NoLeakedPipeline'
    BY <1>t, <1>i, <2>0, <2>2 DEF SlotType, NoLeakedPipeline, Canceller
  <2>4. MapInv' /\ AliveInv'
    BY <1>t, <1>i, <2>0, <2>2 DEF SlotType, MapInv, AliveInv, Monitored
  <2>5. FoundInv' /\ BootInv'
    BY <1>t, <1>i, <1>u, <2>0, <2>2 DEF SlotType, FoundInv, BootInv, Monitored
  <2>6. QED
    BY <2>3, <2>4, <2>5 DEF SlotInv
<1>6. CASE RemoveActiveTarget(r)
  BY <1>t, <1>f, <1>6, NextRemovalSlots DEF RemoveActiveTarget
<1>7. CASE RebuildPipeline(r)
  <2> DEFINE t == rtgt[r]
             old == pipelines[t]
  <2>1. CASE old = None \/ pinterval[old] = rarg[r]
    BY <1>t, <1>f, <1>7, <2>1, DoneSlots DEF RebuildPipeline
  <2>2. CASE ~(old = None \/ pinterval[old] = rarg[r])
    <3>0. PICK n \in Slot : /\ Free(n) /\ Rebuild(n, t, paddr[old], rarg[r])
                            /\ loop' = [loop EXCEPT ![n] = StartLoop(t)]
      BY <1>7, <2>2 DEF RebuildPipeline, Spare
    <3>1. /\ pst' = [pst EXCEPT ![n] = IF proc = "stopping" THEN "cancelled" ELSE "run"]
          /\ ptarget' = [ptarget EXCEPT ![n] = t] /\ pipelines' = [pipelines EXCEPT ![t] = n]
          /\ paddr' = [paddr EXCEPT ![n] = paddr[old]]
          /\ old \in Slot /\ n # old /\ n # None /\ t \in Target
      BY <1>t, <2>2, <3>0 DEF Rebuild, BuildPipeline, Free, SlotType
    <3>2. /\ rold' = [rold EXCEPT ![r] = old] /\ rpc' = [rpc EXCEPT ![r] = "setcancel"]
          /\ rpc[r] = "rebuild" /\ UNCHANGED <<proc, toHydrate, loopAddr, loopOld>>
      BY <1>7, <2>2 DEF RebuildPipeline, Goto, procVars
    <3>3. NoLeakedPipeline'
      <4>1. SUFFICES ASSUME NEW x \in Slot, pst'[x] = "run"
                     PROVE  pipelines'[ptarget'[x]] = x \/ Canceller(x)'
        BY DEF NoLeakedPipeline
      <4>2. CASE x = n
        BY <1>t, <3>1, <4>2 DEF SlotType
      <4>3. CASE x = old
        BY <1>t, <3>1, <3>2, <4>3 DEF SlotType, Canceller
      <4>4. CASE x # n /\ x # old
        <5>1. pipelines[ptarget[x]] = x \/ Canceller(x)
          BY <1>t, <1>i, <3>1, <4>1, <4>4 DEF SlotType, NoLeakedPipeline
        <5>2. pipelines[ptarget[x]] = x => pipelines'[ptarget'[x]] = x
          BY <1>t, <3>1, <4>4 DEF SlotType
        <5>3. Canceller(x) => Canceller(x)'
          BY <1>t, <3>0, <3>1, <3>2 DEF SlotType, Canceller, Free
        <5>4. QED
          BY <5>1, <5>2, <5>3
      <4>5. QED
        BY <4>2, <4>3, <4>4
    <3>4. MapInv'
      BY <1>t, <1>i, <3>0, <3>1, <3>2 DEF SlotType, MapInv, Free
    <3>5. AliveInv'
      BY <1>t, <1>i, <3>0, <3>1, <3>2 DEF SlotType, AliveInv, MapInv, Free, Monitored, StartLoop
    <3>6. FoundInv'
      BY <1>t, <1>i, <3>0, <3>1, <3>2 DEF SlotType, FoundInv, StartLoop
    <3>7. BootInv'
      BY <1>t, <1>i, <1>u, <3>1, <3>2 DEF SlotType, BootInv, Monitored
    <3>8. QED
      BY <3>3, <3>4, <3>5, <3>6, <3>7 DEF SlotInv
  <2>3. QED
    BY <2>1, <2>2
<1>8. CASE SetActiveTargetInterval(r)
  BY <1>t, <1>f, <1>8, DoneSlots DEF SetActiveTargetInterval
<1>9. CASE SetThresholds(r)
  <2>1. /\ UNCHANGED <<proc, toHydrate, pipelines, pst, ptarget, paddr, loop, loopAddr, loopOld>>
        /\ rpc[r] = "thr" /\ (Done(r) \/ (Goto(r, "thrrow") /\ UNCHANGED rold))
    BY <1>9 DEF SetThresholds, procVars, loopVars
  <2>2. QED
    BY <1>t, <1>u, <2>1, DoneSlots, HandlerFrame DEF Goto
<1>10. CASE SetActiveTargetThresholds(r)
  BY <1>t, <1>f, <1>10, DoneSlots DEF SetActiveTargetThresholds
<1>11. CASE DeleteTab(r)
  BY <1>t, <1>u, <1>f, <1>11, DoneSlots, HandlerFrame DEF DeleteTab, Goto
<1>12. CASE CountTabsForTarget(r)
  BY <1>t, <1>u, <1>f, <1>12, DoneSlots, HandlerFrame DEF CountTabsForTarget, Goto
<1>13. QED
  BY <1>1, <1>2, <1>3, <1>4, <1>5, <1>6, <1>7, <1>8, <1>9, <1>10, <1>11, <1>12 DEF Step

LEMMA RequestsSlots ==
  ASSUME TypeOK, SlotInv, Requests
  PROVE  SlotInv'
<1>t. SlotType
  BY SlotTyped
<1>i. NoLeakedPipeline /\ MapInv /\ AliveInv /\ FoundInv /\ BootInv
  BY DEF SlotInv
<1>1. ASSUME NEW r \in Req, NEW op, NEW pc, NEW t, Begin(r, op, pc, t) PROVE SlotInv'
  <2>1. /\ UNCHANGED <<proc, toHydrate, pipelines, pst, ptarget, paddr, loop, loopAddr, loopOld, rold>>
        /\ proc = "up" /\ rpc[r] = "idle" /\ rpc' = [rpc EXCEPT ![r] = pc]
    BY <1>1 DEF Begin, Goto, procVars, pipeVars, loopVars
  <2>2. QED
    BY <1>t, <2>1, HandlerFrame
<1>2. ASSUME UNCHANGED <<procVars, pipeVars, loopVars, rpc, rold>> PROVE SlotInv'
  <2>1. NoLeakedPipeline' /\ MapInv'
    BY <1>i, <1>2 DEF NoLeakedPipeline, Canceller, MapInv, pipeVars, loopVars
  <2>2. AliveInv' /\ FoundInv' /\ BootInv'
    BY <1>i, <1>2 DEF AliveInv, FoundInv, BootInv, Monitored, procVars, pipeVars, loopVars
  <2>3. QED
    BY <2>1, <2>2 DEF SlotInv
<1>3. ASSUME NEW r \in Req, ClientLeaves(r) PROVE SlotInv'
  BY <1>2, <1>3 DEF ClientLeaves
<1>4. ASSUME NEW k \in Tab, NEW t \in Target, CreateTab(k, t) PROVE SlotInv'
  BY <1>2, <1>4 DEF CreateTab, reqVars
<1>5. ASSUME NEW r \in Req, NEW t \in Target,
             HandleAdd(r, t) \/ HandleDelete(r, t) \/ HandlePatch(r, t) \/ HandleSwap(r, t)
      PROVE  SlotInv'
  BY <1>1, <1>5 DEF HandleAdd, HandleDelete, HandlePatch, HandleSwap
<1>6. ASSUME NEW r \in Req, NEW k \in Tab, HandleTabDelete(r, k) PROVE SlotInv'
  BY <1>1, <1>6 DEF HandleTabDelete
<1>7. QED
  BY <1>3, <1>4, <1>5, <1>6, StepSlots DEF Requests

LEMMA DaemonSlots ==
  ASSUME TypeOK, SlotInv, Daemon
  PROVE  SlotInv'
<1>t. SlotType /\ proc \in {"hydrating", "up", "stopping", "down"} /\ toHydrate \subseteq Target
  BY SlotTyped DEF TypeOK
<1>i. NoLeakedPipeline /\ MapInv /\ AliveInv /\ FoundInv /\ BootInv
  BY DEF SlotInv
\* The parts that hold as long as slots and handlers stand still.
<1>u. ASSUME UNCHANGED <<pipeVars, loopVars, reqVars>> PROVE NoLeakedPipeline' /\ MapInv' /\ FoundInv'
  BY <1>i, <1>u DEF NoLeakedPipeline, MapInv, FoundInv, Canceller, pipeVars, loopVars, reqVars
<1>1. ASSUME NEW t \in Target, NEW a \in Addr, DnsChanges(t, a) PROVE SlotInv'
  <2>1. AliveInv' /\ BootInv'
    BY <1>i, <1>1 DEF DnsChanges, AliveInv, BootInv, Monitored, procVars, pipeVars, loopVars, reqVars
  <2>2. QED
    BY <1>u, <1>1, <2>1 DEF DnsChanges, SlotInv
<1>2. CASE Shutdown
  <2>1. \A s \in Slot : pst'[s] # "run"
    BY <1>2 DEF Shutdown
  <2>2. NoLeakedPipeline' /\ FoundInv'
    BY <2>1 DEF NoLeakedPipeline, FoundInv
  <2>3. MapInv' /\ AliveInv' /\ BootInv'
    BY <1>2 DEF Shutdown, MapInv, AliveInv, BootInv, Monitored
  <2>4. QED
    BY <2>2, <2>3 DEF SlotInv
<1>3. CASE Halt
  <2>1. NoLeakedPipeline' /\ FoundInv'
    BY <1>3 DEF Halt, NoLeakedPipeline, FoundInv
  <2>2. MapInv' /\ AliveInv' /\ BootInv'
    BY <1>3 DEF Halt, MapInv, AliveInv, BootInv, Monitored
  <2>3. QED
    BY <2>1, <2>2 DEF SlotInv
<1>4. CASE StartDaemon
  <2>1. AliveInv' /\ BootInv'
    BY <1>i, <1>4 DEF StartDaemon, AliveInv, BootInv, Monitored, pipeVars, loopVars, reqVars,
                      TypeOK, DbType
  <2>2. QED
    BY <1>u, <1>4, <2>1 DEF StartDaemon, SlotInv
<1>5. CASE Serve
  <2>1. AliveInv' /\ BootInv'
    BY <1>i, <1>5 DEF Serve, AliveInv, BootInv, Monitored, pipeVars, loopVars, reqVars
  <2>2. QED
    BY <1>u, <1>5, <2>1 DEF Serve, SlotInv
<1>6. ASSUME NEW t \in Target, HydrateTarget(t) PROVE SlotInv'
  <2>0. /\ proc = "hydrating" /\ t \in toHydrate /\ toHydrate' = toHydrate \ {t}
        /\ UNCHANGED <<proc, loopAddr, loopOld, rpc, rold>> /\ UNCHANGED reqVars
        /\ pipelines[t] = None
    BY <1>i, <1>6 DEF HydrateTarget, reqVars, BootInv
  <2>1. CASE UNCHANGED <<pipeVars, loop>>
    <3>1. AliveInv' /\ BootInv'
      BY <1>i, <2>0, <2>1 DEF AliveInv, BootInv, Monitored, pipeVars
    <3>2. QED
      BY <1>u, <2>0, <2>1, <3>1 DEF SlotInv, loopVars
  <2>2. ASSUME NEW n \in Slot, Free(n),
               BuildPipeline(n, t, dns[t], rowInterval[t], rowThr[t]),
               loop' = [loop EXCEPT ![n] = StartLoop(t)]
        PROVE  SlotInv'
    <3>1. NoLeakedPipeline' /\ MapInv' /\ AliveInv' /\ FoundInv'
      BY <1>t, <2>0, <2>2, NewSlots
    <3>2. BootInv'
      BY <1>t, <1>i, <2>0, <2>2 DEF BootInv, BuildPipeline, SlotType
    <3>3. QED
      BY <3>1, <3>2 DEF SlotInv
  <2>3. QED
    BY <1>6, <2>1, <2>2 DEF HydrateTarget
<1>7. QED
  BY <1>1, <1>2, <1>3, <1>4, <1>5, <1>6 DEF Daemon

LEMMA SlotStep == TypeOK /\ SlotInv /\ [Next]_vars => SlotInv'
<1> SUFFICES ASSUME TypeOK, SlotInv, [Next]_vars PROVE SlotInv'
  OBVIOUS
<1>1. CASE UNCHANGED vars
  <2>1. NoLeakedPipeline' /\ MapInv'
    BY <1>1 DEF vars, SlotInv, NoLeakedPipeline, Canceller, MapInv, pipeVars, loopVars, reqVars
  <2>2. AliveInv' /\ FoundInv' /\ BootInv'
    BY <1>1 DEF vars, SlotInv, AliveInv, FoundInv, BootInv, Monitored, procVars, pipeVars,
                loopVars, reqVars
  <2>3. QED
    BY <2>1, <2>2 DEF SlotInv
<1>2. QED
  BY <1>1, SlotTyped, PipelinesSlots, RequestsSlots, DaemonSlots DEF Next, Pipelines

(* Whatever the number of handlers and loops in flight and however their     *)
(* critical sections interleave with drains, stops and restarts, a monitored *)
(* target is probed by the one pipeline in the map: none leaks, none is      *)
(* cancelled under the map, and a hostname's chain of loops never breaks.    *)
THEOREM OnePipeline == Spec => []ProbedByOne
<1>1. Init => TypeInv /\ SlotInv
  BY TypeInit, SlotInit
<1>2. TypeInv /\ SlotInv /\ [Next]_vars => (TypeInv /\ SlotInv)'
  BY TypeStep, SlotStep DEF TypeInv
<1>3. TypeInv /\ SlotInv => ProbedByOne
  <2> SUFFICES ASSUME TypeInv, SlotInv PROVE ProbedByOne
    OBVIOUS
  <2>1. MonitoredIsProbed /\ HostHasLoop
    BY DEF SlotInv, MapInv, AliveInv, MonitoredIsProbed, HostHasLoop, Monitored
  <2>2. QED
    BY <2>1 DEF SlotInv, ProbedByOne
<1>4. QED
  BY <1>1, <1>2, <1>3, PTL DEF Spec

-----------------------------------------------------------------------------
(* Memory and the tables agree when requests come one at a time.             *)

(* What the argument about rows needs of the types.                          *)
MatchType ==
  /\ pipelines \in [Target -> Slot \cup {None}] /\ pinterval \in [Slot -> Interval]
  /\ pthr \in [Slot -> Threshold] /\ DbType /\ ReqType
  /\ proc \in {"hydrating", "up", "stopping", "down"} /\ toHydrate \subseteq Target

LEMMA MatchTyped == ASSUME TypeOK PROVE MatchType
BY DEF TypeOK, PipeType, MatchType

LEMMA MatchInit == Init => MatchInv
<1> SUFFICES ASSUME Init PROVE MatchInv
  OBVIOUS
<1>1. RowsInv
  BY DEF Init, RowsInv, Monitored
<1>2. SettingsInv /\ ClosedInv
  BY DEF Init, SettingsInv, ClosedInv, Monitored
<1>3. QED
  BY <1>1, <1>2 DEF Init, MatchInv

(* A step that leaves handlers and tables alone and gives no target other    *)
(* settings, whichever slot its pipeline is in.                              *)
LEMMA SettingsFrame ==
  ASSUME MatchInv, Monitored' = Monitored,
         UNCHANGED <<proc, toHydrate, rows, rowInterval, rowThr, tabs, tabOf, closed,
                     rpc, rtgt, rtodo, rarg, rtab, gone>>,
         proc \in {"up", "hydrating"} => \A t \in Monitored :
           /\ pinterval'[pipelines'[t]] = pinterval[pipelines[t]]
           /\ pthr'[pipelines'[t]] = pthr[pipelines[t]]
  PROVE  MatchInv'
<1>1. RowsInv'
  BY DEF MatchInv, RowsInv, At
<1>2. SettingsInv'
  BY DEF MatchInv, SettingsInv, At
<1>3. ClosedInv'
  BY DEF MatchInv, ClosedInv, At
<1>4. QED
  BY <1>1, <1>2, <1>3 DEF MatchInv

LEMMA PipelinesMatch ==
  ASSUME TypeOK, SlotInv, MatchInv, NEW s \in Slot,
         Drained(s) \/ LoopTick(s) \/ LoopExit(s) \/ LoopRebuild(s) \/ LoopCancel(s)
  PROVE  MatchInv'
<1>t. SlotType /\ MatchType
  BY SlotTyped, MatchTyped
<1>0. UNCHANGED <<proc, toHydrate, rows, rowInterval, rowThr, tabs, tabOf, closed,
                  rpc, rtgt, rtodo, rarg, rtab, gone>>
  BY DEF Drained, LoopTick, LoopExit, LoopRebuild, LoopCancel, procVars, dbVars, reqVars
<1>1. CASE Drained(s)
  <2>1. proc \in {"up", "hydrating"} => \A t \in Monitored : pipelines[t] # s
    BY <1>1 DEF SlotInv, AliveInv, Drained
  <2>2. /\ pipelines' = pipelines /\ \A x \in Slot \ {s} : pinterval'[x] = pinterval[x] /\ pthr'[x] = pthr[x]
    BY <1>t, <1>1 DEF Drained, MatchType
  <2>3. QED
    BY <1>t, <1>0, <2>1, <2>2, SettingsFrame DEF MatchType, Monitored
<1>2. CASE UNCHANGED <<pipelines, pinterval, pthr>>
  BY <1>0, <1>2, SettingsFrame DEF Monitored
<1>3. ASSUME NEW n \in Slot, Free(n), pipelines[ptarget[s]] # None,
             Rebuild(n, ptarget[s], loopAddr[s], pinterval[pipelines[ptarget[s]]])
      PROVE  MatchInv'
  <2> DEFINE t == ptarget[s]
  <2>1. /\ pipelines' = [pipelines EXCEPT ![t] = n] /\ t \in Target /\ n # None
        /\ pinterval' = [pinterval EXCEPT ![n] = pinterval[pipelines[t]]]
        /\ pthr' = [pthr EXCEPT ![n] = pthr[pipelines[t]]]
        /\ \A u \in Target : pipelines[u] # n
    BY <1>t, <1>3 DEF Rebuild, BuildPipeline, Free, SlotType
  <2>2. Monitored' = Monitored
    BY <1>t, <1>3, <2>1 DEF MatchType, Monitored
  <2>3. \A u \in Monitored : /\ pinterval'[pipelines'[u]] = pinterval[pipelines[u]]
                             /\ pthr'[pipelines'[u]] = pthr[pipelines[u]]
    BY <1>t, <1>3, <2>1 DEF MatchType, Monitored
  <2>4. QED
    BY <1>0, <2>2, <2>3, SettingsFrame
<1>4. QED
  BY <1>1, <1>2, <1>3 DEF LoopTick, LoopExit, LoopRebuild, LoopCancel, CancelSlot, pipeVars

(* A handler of the only client moves on without touching the map, the       *)
(* settings or the tables.  It is not in the middle of anything, before or   *)
(* after.                                                                    *)
Quiet == {"idle", "resolve", "build", "remove", "rebuild", "thr", "tabdel"}

LEMMA QuietFrame ==
  ASSUME SoleClient, MatchType, MatchInv, NEW r \in Req, NEW pc \in Quiet,
         rpc[r] \in Quiet \/ (rpc[r] = "tabcount" /\ (LastTab(rtgt[r]) => pc = "remove")),
         rpc' = [rpc EXCEPT ![r] = pc], gone' \in {gone, [gone EXCEPT ![r] = FALSE]},
         rpc[r] = "remove" => rtodo[r] \cap Monitored = {},
         rpc[r] = "tabcount" /\ pc = "remove" => rtgt' = rtgt /\ rtodo'[r] = {rtgt[r]},
         pc = "tabdel" => tabOf[rtab'[r]] = rtgt'[r],
         UNCHANGED <<proc, toHydrate, pipelines, pinterval, pthr,
                     rows, rowInterval, rowThr, tabs, tabOf, closed>>
  PROVE  MatchInv'
<1>s. \A q \in Req : q = r
  BY DEF SoleClient
<1>g. \A q \in Req : ~gone'[q]
  BY DEF MatchInv, MatchType, ReqType
<1>p. rpc'[r] = pc /\ Monitored' = Monitored
  BY DEF MatchType, ReqType, Monitored
<1>1. RowsInv'
  BY <1>s, <1>p DEF MatchInv, RowsInv, At, Quiet
<1>2. SettingsInv'
  BY <1>s, <1>p DEF MatchInv, SettingsInv, At, Quiet
<1>3. ClosedInv'
  <2>1. ASSUME proc = "up", NEW t \in closed
        PROVE  \/ \E k \in tabs : tabOf[k] = t
               \/ At(r, {"tabcount"}, t)' \/ (At(r, {"remove"}, t) /\ rtodo[r] = {t})'
    <3>1. \/ \E k \in tabs : tabOf[k] = t
          \/ At(r, {"tabcount"}, t) \/ (At(r, {"remove"}, t) /\ rtodo[r] = {t})
      BY <1>s, <2>1 DEF MatchInv, ClosedInv
    <3>2. t \in Monitored
      BY <2>1 DEF MatchInv, ClosedInv
    <3>3. CASE At(r, {"tabcount"}, t)
      BY <1>p, <3>3 DEF At, LastTab, Quiet
    <3>4. QED
      BY <3>1, <3>2, <3>3 DEF At
  <2>2. QED
    BY <1>s, <1>p, <2>1 DEF MatchInv, ClosedInv
<1>4. QED
  BY <1>g, <1>1, <1>2, <1>3 DEF MatchInv

LEMMA StepMatch ==
  ASSUME SoleClient, TypeOK, SlotInv, MatchInv, NEW r \in Req, Step(r)
  PROVE  MatchInv'
<1>t. /\ SlotType /\ MatchType /\ rtgt[r] \in Target /\ rtab[r] \in Tab
      /\ proc \in {"hydrating", "up", "stopping", "down"}
  BY SlotTyped, MatchTyped DEF TypeOK, ReqType
<1>i. /\ RowsInv /\ SettingsInv /\ ClosedInv /\ ~gone[r] /\ (\A q \in Req : ~gone[q])
      /\ Outcomes(r) = {TRUE}
  BY DEF MatchInv, SoleClient, Outcomes
<1>s. \A q \in Req : q = r
  BY DEF SoleClient
<1>u. rpc[r] # "idle" => proc \in {"up", "stopping"}
  BY <1>t DEF SlotInv, BootInv
<1>d. ASSUME Done(r), rpc[r] \in Quiet \/ (rpc[r] = "tabcount" /\ ~LastTab(rtgt[r])),
             rpc[r] = "remove" => rtodo[r] \cap Monitored = {},
             UNCHANGED <<proc, toHydrate, pipelines, pinterval, pthr,
                         rows, rowInterval, rowThr, tabs, tabOf, closed>>
      PROVE  MatchInv'
  BY <1>t, <1>d, QuietFrame DEF Done, Quiet
<1>f. /\ UNCHANGED <<procVars, pipeVars, dbVars>> =>
           UNCHANGED <<proc, toHydrate, pipelines, pinterval, pthr,
                       rows, rowInterval, rowThr, tabs, tabOf, closed>>
      /\ \A pc : Goto(r, pc) <=> rpc' = [rpc EXCEPT ![r] = pc]
      /\ \A pc : Goto(r, pc) => rpc'[r] = pc
  BY <1>t DEF procVars, pipeVars, dbVars, Goto, MatchType, ReqType
\* How a row's handler ends: with the next removal or idle.
<1>n. ASSUME NextRemoval(r)
      PROVE  rpc'[r] \in {"idle", "remove"} /\ (\A q \in Req : ~gone'[q])
  BY <1>t, <1>i, <1>s, <1>n DEF NextRemoval, Done, Goto, MatchType, ReqType
<1>1. CASE ResolveTarget(r)
  <2>1. /\ rpc' = [rpc EXCEPT ![r] = "build"] /\ gone' = gone
        /\ UNCHANGED <<procVars, pipeVars, dbVars>> /\ rpc[r] = "resolve"
    BY <1>i, <1>1 DEF ResolveTarget, Goto
  <2>2. QED
    BY <1>t, <1>f, <2>1, QuietFrame DEF Quiet
<1>2. CASE AddPipeline(r)
  <2>1. CASE AlreadyMonitored(rtgt[r])
    BY <1>d, <1>f, <1>2, <2>1 DEF AddPipeline, Quiet
  <2>2. CASE ~AlreadyMonitored(rtgt[r])
    <3>1. PICK n \in Slot :
            Free(n) /\ BuildPipeline(n, rtgt[r], raddr[r], DefaultInterval, NoThreshold)
      BY <1>2, <2>2 DEF AddPipeline, Spare
    <3>2. /\ pipelines' = [pipelines EXCEPT ![rtgt[r]] = n] /\ pipelines[rtgt[r]] = None
          /\ pinterval' = [pinterval EXCEPT ![n] = DefaultInterval] /\ n # None
          /\ pthr' = [pthr EXCEPT ![n] = NoThreshold] /\ \A u \in Target : pipelines[u] # n
      BY <2>2, <3>1 DEF BuildPipeline, Free, AlreadyMonitored
    <3>3. /\ rpc[r] = "build" /\ rpc'[r] = "addrow"
          /\ UNCHANGED <<proc, toHydrate, rows, rowInterval, rowThr, tabs, tabOf, closed,
                         rtgt, rtodo, rarg, rtab, gone>>
      BY <1>f, <1>2, <2>2 DEF AddPipeline, procVars, dbVars
    <3>4. Monitored' = Monitored \cup {rtgt[r]} /\ rtgt[r] \notin Monitored
      BY <1>t, <3>2 DEF MatchType, Monitored
    \* Not monitored and nobody removes it: it has no row, hence no overrides.
    <3>5. proc = "up" => rtgt[r] \notin rows
      BY <1>t, <1>i, <1>s, <3>3, <3>4 DEF RowsInv, At, SlotInv, BootInv
    <3>6. RowsInv'
      BY <1>i, <1>s, <1>u, <3>3, <3>4, <3>5 DEF RowsInv, At
    <3>7. SettingsInv'
      BY <1>t, <1>i, <1>s, <1>u, <3>2, <3>3, <3>4, <3>5 DEF SettingsInv, At, MatchType, Monitored
    <3>8. ClosedInv'
      BY <1>i, <1>s, <1>u, <3>3, <3>4 DEF ClosedInv, At
    <3>9. QED
      BY <1>i, <3>3, <3>6, <3>7, <3>8 DEF MatchInv
  <2>3. QED
    BY <2>1, <2>2
<1>3. CASE AddActiveTarget(r)
  <2>1. /\ rows' = rows \cup {rtgt[r]} /\ NextRemoval(r) /\ rpc[r] = "addrow"
        /\ UNCHANGED <<proc, toHydrate, pipelines, pinterval, pthr, rowInterval, rowThr, tabs,
                       tabOf, closed>> /\ Monitored' = Monitored
    BY <1>i, <1>3 DEF AddActiveTarget, Upsert, procVars, pipeVars, Monitored
  <2>2. RowsInv'
    BY <1>i, <1>s, <1>u, <1>n, <2>1 DEF RowsInv, At
  <2>3. SettingsInv' /\ ClosedInv'
    BY <1>i, <1>s, <1>u, <1>n, <2>1 DEF SettingsInv, ClosedInv, At
  <2>4. QED
    BY <1>n, <2>1, <2>2, <2>3 DEF MatchInv
<1>4. ASSUME NEW t \in Target, RemovePipeline(r, t) PROVE MatchInv'
  <2>0. /\ rpc[r] = "remove" /\ t \in rtodo[r]
        /\ UNCHANGED <<proc, toHydrate, pinterval, pthr, rows, rowInterval, rowThr, tabs, tabOf>>
    BY <1>4 DEF RemovePipeline, procVars
  <2>1. CASE pipelines[t] = None /\ rtodo[r] = {t}
    BY <1>d, <1>4, <2>0, <2>1 DEF RemovePipeline, Quiet, Monitored
  <2>2. CASE pipelines[t] = None /\ rtodo[r] # {t}
    <3>1. UNCHANGED <<pipelines, closed, rpc, rtgt, rarg, rtab, gone>> /\ Monitored' = Monitored
      BY <1>4, <2>2 DEF RemovePipeline, Monitored
    <3>2. RowsInv' /\ SettingsInv'
      BY <1>i, <2>0, <3>1 DEF RowsInv, SettingsInv, At
    <3>3. ClosedInv'
      BY <1>i, <1>s, <2>0, <2>2, <3>1 DEF ClosedInv, At
    <3>4. QED
      BY <1>i, <3>1, <3>2, <3>3 DEF MatchInv
  <2>3. CASE pipelines[t] # None
    <3>1. /\ pipelines' = [pipelines EXCEPT ![t] = None] /\ closed' = closed \ {t}
          /\ rtgt'[r] = t /\ rpc'[r] = "cancel" /\ UNCHANGED <<rtodo, rarg, rtab, gone>>
      BY <1>t, <1>f, <1>4, <2>3 DEF RemovePipeline, MatchType, ReqType
    <3>2. Monitored' = Monitored \ {t} /\ \A u \in Monitored' : pipelines'[u] = pipelines[u]
      BY <1>t, <3>1 DEF MatchType, Monitored
    <3>3. RowsInv'
      BY <1>i, <1>s, <1>u, <2>0, <3>1, <3>2 DEF RowsInv, At
    <3>4. SettingsInv'
      BY <1>i, <1>s, <1>u, <2>0, <3>1, <3>2 DEF SettingsInv, At
    <3>5. ClosedInv'
      BY <1>i, <1>s, <1>u, <2>0, <3>1, <3>2 DEF ClosedInv, At
    <3>6. QED
      BY <1>i, <3>1, <3>3, <3>4, <3>5 DEF MatchInv
  <2>4. QED
    BY <2>1, <2>2, <2>3
<1>5. CASE CancelOld(r)
  <2>1. /\ \/ rpc[r] = "cancel" /\ rpc'[r] = "delrow"
           \/ rpc[r] = "setcancel" /\ rpc'[r] = "setrow"
        /\ UNCHANGED <<proc, toHydrate, pipelines, pinterval, pthr, rows, rowInterval, rowThr,
                       tabs, tabOf, closed, rtgt, rtodo, rarg, rtab, gone>>
        /\ Monitored' = Monitored
    BY <1>f, <1>5 DEF CancelOld, CancelSlot, procVars, dbVars, Monitored
  <2>2. RowsInv' /\ SettingsInv'
    BY <1>i, <1>s, <2>1 DEF RowsInv, SettingsInv, At
  <2>3. ClosedInv'
    BY <1>i, <1>s, <2>1 DEF ClosedInv, At
  <2>4. QED
    BY <1>i, <2>1, <2>2, <2>3 DEF MatchInv
<1>6. CASE RemoveActiveTarget(r)
  <2>1. /\ rows' = rows \ {rtgt[r]} /\ tabs' = {k \in tabs : tabOf[k] # rtgt[r]}
        /\ rowInterval' = [rowInterval EXCEPT ![rtgt[r]] = DefaultInterval]
        /\ rowThr' = [rowThr EXCEPT ![rtgt[r]] = NoThreshold]
        /\ NextRemoval(r) /\ rpc[r] = "delrow" /\ Monitored' = Monitored
        /\ UNCHANGED <<proc, toHydrate, pipelines, pinterval, pthr, tabOf, closed>>
    BY <1>i, <1>6 DEF RemoveActiveTarget, procVars, pipeVars, Monitored
  <2>2. RowsInv'
    BY <1>i, <1>s, <1>u, <1>n, <2>1 DEF RowsInv, At, SlotInv, BootInv
  <2>3. proc = "up" => rtgt[r] \notin Monitored
    BY <1>i, <2>1 DEF RowsInv
  <2>4. SettingsInv'
    BY <1>t, <1>i, <1>s, <1>u, <1>n, <2>1, <2>3
       DEF SettingsInv, At, MatchType, DbType, Monitored
  <2>5. ClosedInv'
    BY <1>i, <1>s, <1>u, <1>n, <2>1, <2>3 DEF ClosedInv, At
  <2>6. QED
    BY <1>n, <2>1, <2>2, <2>4, <2>5 DEF MatchInv
<1>7. CASE RebuildPipeline(r)
  <2> DEFINE t == rtgt[r]
             old == pipelines[t]
  <2>1. CASE old = None \/ pinterval[old] = rarg[r]
    BY <1>d, <1>f, <1>7, <2>1 DEF RebuildPipeline, Quiet
  <2>2. CASE ~(old = None \/ pinterval[old] = rarg[r])
    <3>1. PICK n \in Slot : Free(n) /\ Rebuild(n, t, paddr[old], rarg[r])
      BY <1>7, <2>2 DEF RebuildPipeline, Spare
    <3>2. /\ pipelines' = [pipelines EXCEPT ![t] = n] /\ n # None
          /\ pinterval' = [pinterval EXCEPT ![n] = rarg[r]]
          /\ pthr' = [pthr EXCEPT ![n] = pthr[old]] /\ \A u \in Target : pipelines[u] # n
      BY <3>1 DEF Rebuild, BuildPipeline, Free
    <3>3. /\ rpc[r] = "rebuild" /\ rpc'[r] = "setcancel"
          /\ UNCHANGED <<proc, toHydrate, rows, rowInterval, rowThr, tabs, tabOf, closed,
                         rtgt, rtodo, rarg, rtab, gone>>
      BY <1>f, <1>7, <2>2 DEF RebuildPipeline, procVars, dbVars
    <3>4. Monitored' = Monitored
      BY <1>t, <2>2, <3>2 DEF MatchType, Monitored
    <3>5. RowsInv' /\ ClosedInv'
      BY <1>i, <1>s, <1>u, <3>3, <3>4 DEF RowsInv, ClosedInv, At
    <3>6. SettingsInv'
      BY <1>t, <1>i, <1>s, <1>u, <2>2, <3>2, <3>3, <3>4 DEF SettingsInv, At, MatchType, Monitored
    <3>7. QED
      BY <1>i, <3>3, <3>5, <3>6 DEF MatchInv
  <2>3. QED
    BY <2>1, <2>2
<1>o. ASSUME Done(r) PROVE rpc'[r] = "idle" /\ \A q \in Req : ~gone'[q]
  BY <1>t, <1>i, <1>s, <1>o DEF Done, MatchType, ReqType
<1>8. CASE SetActiveTargetInterval(r)
  <2>1. /\ rowInterval' = IF rtgt[r] \in rows THEN [rowInterval EXCEPT ![rtgt[r]] = rarg[r]]
                          ELSE rowInterval
        /\ Done(r) /\ rpc[r] = "setrow" /\ Monitored' = Monitored
        /\ UNCHANGED <<proc, toHydrate, pipelines, pinterval, pthr, rows, rowThr, tabs, tabOf,
                       closed>>
    BY <1>i, <1>8 DEF SetActiveTargetInterval, StoreInterval, procVars, pipeVars, Monitored
  <2>2. RowsInv' /\ ClosedInv'
    BY <1>i, <1>s, <1>u, <1>o, <2>1 DEF RowsInv, ClosedInv, At
  <2>3. SettingsInv'
    BY <1>t, <1>i, <1>s, <1>u, <1>o, <2>1
       DEF RowsInv, SettingsInv, At, MatchType, DbType, Monitored
  <2>4. QED
    BY <1>o, <2>1, <2>2, <2>3 DEF MatchInv
<1>9. CASE SetThresholds(r)
  <2>1. CASE pipelines[rtgt[r]] = None
    <3>1. /\ Done(r) /\ rpc[r] = "thr"
          /\ UNCHANGED <<proc, toHydrate, pipelines, pinterval, pthr, rows, rowInterval, rowThr,
                         tabs, tabOf, closed>>
      BY <1>9, <2>1 DEF SetThresholds, procVars, dbVars
    <3>2. QED
      BY <1>d, <3>1 DEF Quiet
  <2>2. CASE pipelines[rtgt[r]] # None
    <3>1. /\ pthr' = [pthr EXCEPT ![pipelines[rtgt[r]]] = rarg[r]]
          /\ rpc[r] = "thr" /\ rpc'[r] = "thrrow" /\ Monitored' = Monitored
          /\ UNCHANGED <<proc, toHydrate, pipelines, pinterval, rows, rowInterval, rowThr, tabs,
                         tabOf, closed, rtgt, rtodo, rarg, rtab, gone>>
      BY <1>f, <1>9, <2>2 DEF SetThresholds, procVars, dbVars, Monitored
    <3>2. \A t \in Monitored : t # rtgt[r] => pipelines[t] # pipelines[rtgt[r]]
      BY <1>t, <2>2 DEF SlotInv, MapInv, Monitored
    <3>3. RowsInv' /\ ClosedInv'
      BY <1>i, <1>s, <1>u, <3>1 DEF RowsInv, ClosedInv, At
    <3>4. SettingsInv'
      BY <1>t, <1>i, <1>s, <1>u, <2>2, <3>1, <3>2 DEF SettingsInv, At, MatchType, Monitored
    <3>5. QED
      BY <1>i, <3>1, <3>3, <3>4 DEF MatchInv
  <2>3. QED
    BY <2>1, <2>2
<1>10. CASE SetActiveTargetThresholds(r)
  <2>1. /\ rowThr' = IF rtgt[r] \in rows THEN [rowThr EXCEPT ![rtgt[r]] = rarg[r]] ELSE rowThr
        /\ Done(r) /\ rpc[r] = "thrrow" /\ Monitored' = Monitored
        /\ UNCHANGED <<proc, toHydrate, pipelines, pinterval, pthr, rows, rowInterval, tabs,
                       tabOf, closed>>
    BY <1>i, <1>10 DEF SetActiveTargetThresholds, procVars, pipeVars, Monitored
  <2>2. RowsInv' /\ ClosedInv'
    BY <1>i, <1>s, <1>u, <1>o, <2>1 DEF RowsInv, ClosedInv, At
  <2>3. SettingsInv'
    BY <1>t, <1>i, <1>s, <1>u, <1>o, <2>1
       DEF RowsInv, SettingsInv, At, MatchType, DbType, Monitored
  <2>4. QED
    BY <1>o, <2>1, <2>2, <2>3 DEF MatchInv
<1>11. CASE DeleteTab(r)
  <2>0. /\ rpc[r] = "tabdel" /\ Monitored' = Monitored
        /\ UNCHANGED <<proc, toHydrate, pipelines, pinterval, pthr, rows, rowInterval, rowThr, tabOf>>
    BY <1>11 DEF DeleteTab, procVars, pipeVars, Monitored
  <2>1. CASE rtab[r] \notin tabs
    BY <1>i, <1>d, <1>11, <2>0, <2>1 DEF DeleteTab, Quiet
  <2>2. CASE rtab[r] \in tabs
    <3>1. /\ tabs' = tabs \ {rtab[r]} /\ rpc'[r] = "tabcount"
          /\ closed' = closed \cup ({rtgt[r]} \cap Monitored)
          /\ UNCHANGED <<rtgt, rtodo, rarg, rtab, gone>>
      BY <1>i, <1>f, <1>11, <2>2 DEF DeleteTab
    <3>2. RowsInv' /\ SettingsInv'
      BY <1>i, <1>s, <1>u, <2>0, <3>1 DEF RowsInv, SettingsInv, At
    <3>3. ClosedInv'
      BY <1>i, <1>s, <1>u, <2>0, <3>1 DEF ClosedInv, At
    <3>4. QED
      BY <1>i, <3>1, <3>2, <3>3 DEF MatchInv
  <2>3. QED
    BY <2>1, <2>2
<1>12. CASE CountTabsForTarget(r)
  <2>0. rpc[r] = "tabcount" /\ UNCHANGED <<procVars, pipeVars, dbVars>>
    BY <1>12 DEF CountTabsForTarget
  <2>1. CASE LastTab(rtgt[r])
    <3>1. /\ rtodo' = [rtodo EXCEPT ![r] = {rtgt[r]}] /\ rpc' = [rpc EXCEPT ![r] = "remove"]
          /\ UNCHANGED <<rtgt, rtab, gone>>
      BY <1>i, <1>12, <2>1 DEF CountTabsForTarget, Goto
    <3>2. rtodo'[r] = {rtgt[r]}
      BY <1>t, <3>1 DEF MatchType, ReqType
    <3>3. QED
      BY <1>t, <1>f, <2>0, <2>1, <3>1, <3>2, QuietFrame DEF Quiet
  <2>2. CASE ~LastTab(rtgt[r])
    BY <1>i, <1>d, <1>f, <1>12, <2>0, <2>2 DEF CountTabsForTarget
  <2>3. QED
    BY <2>1, <2>2
<1>13. QED
  BY <1>1, <1>2, <1>3, <1>4, <1>5, <1>6, <1>7, <1>8, <1>9, <1>10, <1>11, <1>12 DEF Step

LEMMA RequestsMatch ==
  ASSUME SoleClient, TypeOK, SlotInv, MatchInv, Requests
  PROVE  MatchInv'
<1>t. MatchType
  BY MatchTyped
<1>i. RowsInv /\ SettingsInv /\ ClosedInv
  BY DEF MatchInv
<1>1. ASSUME NEW r \in Req, NEW op, NEW pc \in Quiet, NEW t, Begin(r, op, pc, t),
             pc = "tabdel" => tabOf[rtab'[r]] = t
      PROVE  MatchInv'
  <2>1. /\ UNCHANGED <<proc, toHydrate, pipelines, pinterval, pthr, rows, rowInterval, rowThr,
                       tabs, tabOf, closed, gone>>
        /\ rpc[r] = "idle" /\ rpc' = [rpc EXCEPT ![r] = pc] /\ rtgt'[r] = t
    BY <1>t, <1>1 DEF Begin, Goto, procVars, pipeVars, dbVars, MatchType, ReqType
  <2>2. QED
    BY <1>t, <1>1, <2>1, QuietFrame DEF Quiet
<1>2. ASSUME NEW r \in Req, NEW t \in Target,
             HandleAdd(r, t) \/ HandleDelete(r, t) \/ HandlePatch(r, t) \/ HandleSwap(r, t)
      PROVE  MatchInv'
  <2>1. PICK op \in Ops, pc \in Quiet \ {"tabdel"} : Begin(r, op, pc, t)
    <3>1. ASSUME NEW op, NEW pc, Begin(r, op, pc, t) PROVE op \in Ops
      BY <3>1 DEF Begin
    <3>2. QED
      BY <1>2, <3>1 DEF HandleAdd, HandleDelete, HandlePatch, HandleSwap, Quiet
  <2>2. QED
    BY <1>1, <2>1
<1>3. ASSUME NEW r \in Req, NEW k \in Tab, HandleTabDelete(r, k) PROVE MatchInv'
  <2>1. Begin(r, "tab", "tabdel", tabOf[k]) /\ rtab'[r] = k
    BY <1>t, <1>3 DEF HandleTabDelete, MatchType, ReqType
  <2>2. QED
    BY <1>1, <2>1 DEF Quiet
<1>4. ASSUME NEW r \in Req, ClientLeaves(r) PROVE MatchInv'
  BY <1>4 DEF ClientLeaves, SoleClient
<1>5. ASSUME NEW k \in Tab, NEW t \in Target, CreateTab(k, t) PROVE MatchInv'
  <2>1. /\ UNCHANGED <<proc, toHydrate, pipelines, pinterval, pthr, rows, rowInterval, rowThr,
                       closed, rpc, rtgt, rtodo, rarg, rtab, gone>> /\ Monitored' = Monitored
        /\ k \notin tabs /\ tabs' = tabs \cup {k} /\ tabOf' = [tabOf EXCEPT ![k] = t]
        /\ \A r \in Req : rtab[r] # k \/ rpc[r] = "idle"
    BY <1>5 DEF CreateTab, procVars, pipeVars, reqVars, Monitored
  <2>2. RowsInv' /\ SettingsInv'
    BY <1>i, <2>1 DEF RowsInv, SettingsInv, At
  <2>3. /\ \A j \in tabs : j \in tabs' /\ tabOf'[j] = tabOf[j]
        /\ \A r \in Req : rpc[r] = "tabdel" => tabOf'[rtab[r]] = tabOf[rtab[r]]
    BY <1>t, <2>1 DEF MatchType, DbType, ReqType
  <2>4. ClosedInv'
    BY <1>i, <2>1, <2>3 DEF ClosedInv, At
  <2>5. QED
    BY <2>1, <2>2, <2>4 DEF MatchInv
<1>6. QED
  BY <1>2, <1>3, <1>4, <1>5, StepMatch DEF Requests

LEMMA DaemonMatch ==
  ASSUME SoleClient, TypeOK, SlotInv, MatchInv, Daemon
  PROVE  MatchInv'
<1>t. MatchType
  BY MatchTyped
<1>i. RowsInv /\ SettingsInv /\ ClosedInv /\ (\A r \in Req : ~gone[r])
  BY DEF MatchInv
<1>1. ASSUME NEW t \in Target, NEW a \in Addr, DnsChanges(t, a) PROVE MatchInv'
  <2>1. UNCHANGED <<proc, toHydrate, pipelines, pinterval, pthr, rows, rowInterval, rowThr,
                    tabs, tabOf, closed, rpc, rtgt, rtodo, rarg, rtab, gone>>
    BY <1>1 DEF DnsChanges, procVars, pipeVars, dbVars, reqVars
  <2>2. QED
    BY <2>1, SettingsFrame DEF Monitored
<1>2. CASE Shutdown
  <2>1. proc' = "stopping" /\ UNCHANGED dbVars /\ UNCHANGED reqVars
    BY <1>2 DEF Shutdown
  <2>2. RowsInv' /\ SettingsInv' /\ ClosedInv'
    BY <1>i, <2>1 DEF RowsInv, SettingsInv, ClosedInv, dbVars, reqVars
  <2>3. QED
    BY <1>i, <2>1, <2>2 DEF MatchInv, reqVars
<1>3. CASE Halt
  <2>1. RowsInv' /\ SettingsInv' /\ ClosedInv'
    BY <1>i, <1>3 DEF Halt, RowsInv, SettingsInv, ClosedInv
  <2>2. QED
    BY <1>3, <2>1 DEF Halt, MatchInv
\* A restart finds the map empty and every row to hydrate.
<1>4. CASE StartDaemon
  <2>1. /\ Monitored = {} /\ Monitored' = {} /\ proc = "down" /\ proc' = "hydrating"
        /\ toHydrate' = rows /\ UNCHANGED dbVars /\ UNCHANGED reqVars
        /\ \A r \in Req : rpc[r] = "idle"
    BY <1>4 DEF StartDaemon, SlotInv, BootInv, Monitored, pipeVars
  <2>2. RowsInv'
    BY <1>i, <2>1 DEF RowsInv, dbVars, reqVars
  <2>3. SettingsInv' /\ ClosedInv'
    BY <1>i, <2>1 DEF SettingsInv, ClosedInv, dbVars, reqVars
  <2>4. QED
    BY <1>i, <2>1, <2>2, <2>3 DEF MatchInv, reqVars
<1>5. CASE Serve
  <2>1. /\ Monitored' = Monitored /\ proc = "hydrating" /\ proc' = "up" /\ toHydrate' = toHydrate
        /\ UNCHANGED pipeVars /\ UNCHANGED dbVars /\ UNCHANGED reqVars
    BY <1>5 DEF Serve, Monitored, pipeVars
  <2>2. RowsInv'
    BY <1>i, <2>1 DEF RowsInv, At, dbVars, reqVars
  <2>3. SettingsInv' /\ ClosedInv'
    BY <1>i, <2>1 DEF SettingsInv, ClosedInv, At, pipeVars, dbVars, reqVars
  <2>4. QED
    BY <1>i, <2>1, <2>2, <2>3 DEF MatchInv, reqVars
<1>6. ASSUME NEW t \in Target, HydrateTarget(t) PROVE MatchInv'
  <2>1. PICK n \in Slot : Free(n) /\ BuildPipeline(n, t, dns[t], rowInterval[t], rowThr[t])
    BY <1>6 DEF HydrateTarget, SoleClient
  <2>2. /\ pipelines' = [pipelines EXCEPT ![t] = n] /\ n # None
        /\ pinterval' = [pinterval EXCEPT ![n] = rowInterval[t]]
        /\ pthr' = [pthr EXCEPT ![n] = rowThr[t]] /\ \A u \in Target : pipelines[u] # n
    BY <2>1 DEF BuildPipeline, Free
  <2>3. /\ proc = "hydrating" /\ toHydrate' = toHydrate \ {t} /\ t \in toHydrate
        /\ UNCHANGED proc /\ UNCHANGED dbVars /\ UNCHANGED reqVars
        /\ \A r \in Req : rpc[r] = "idle"
    BY <1>6 DEF HydrateTarget, SlotInv, BootInv
  <2>4. Monitored' = Monitored \cup {t} /\ \A u \in Monitored \ {t} : pipelines'[u] = pipelines[u]
    BY <1>t, <2>2 DEF MatchType, Monitored
  \* What is still to hydrate is in the table.
  <2>5. t \in rows
    BY <1>i, <2>3 DEF RowsInv
  <2>6. RowsInv'
    BY <1>i, <2>3, <2>4, <2>5 DEF RowsInv, At, dbVars, reqVars
  <2>7. SettingsInv'
    BY <1>t, <1>i, <2>2, <2>3, <2>4 DEF SettingsInv, At, MatchType, Monitored, dbVars, reqVars
  <2>8. ClosedInv'
    BY <1>i, <2>3 DEF ClosedInv, dbVars, reqVars
  <2>9. QED
    BY <1>i, <2>3, <2>6, <2>7, <2>8 DEF MatchInv, reqVars
<1>7. QED
  BY <1>1, <1>2, <1>3, <1>4, <1>5, <1>6 DEF Daemon

LEMMA MatchStep == SoleClient /\ TypeOK /\ SlotInv /\ MatchInv /\ [Next]_vars => MatchInv'
<1> SUFFICES ASSUME SoleClient, TypeOK, SlotInv, MatchInv, [Next]_vars PROVE MatchInv'
  OBVIOUS
<1>1. CASE UNCHANGED vars
  BY <1>1, SettingsFrame DEF vars, Monitored, procVars, pipeVars, dbVars, reqVars
<1>2. QED
  BY <1>1, PipelinesMatch, RequestsMatch, DaemonMatch DEF Next, Pipelines

(* One client at a time and no failing statement: between requests, and      *)
(* across stops and crashes in the middle of any handler, memory agrees with *)
(* active_targets and tabs, and a target whose last tab was closed is no     *)
(* longer probed.                                                            *)
THEOREM MemoryMatchesTables == SoleClient => (Spec => []RowsMatch)
<1> SUFFICES ASSUME SoleClient PROVE Spec => []RowsMatch
  OBVIOUS
<1>1. Init => TypeInv /\ SlotInv /\ MatchInv
  BY TypeInit, SlotInit, MatchInit
<1>2. TypeInv /\ SlotInv /\ MatchInv /\ [Next]_vars => (TypeInv /\ SlotInv /\ MatchInv)'
  BY TypeStep, SlotStep, MatchStep DEF TypeInv
<1>3. TypeInv /\ MatchInv => RowsMatch
  <2> SUFFICES ASSUME TypeInv, MatchInv PROVE RowsMatch
    OBVIOUS
  <2>1. MonitoredHasRow
    BY DEF MatchInv, RowsInv, MonitoredHasRow, Idle, At
  <2>2. SettingsSurvive
    BY DEF MatchInv, SettingsInv, SettingsSurvive, Idle, At
  <2>3. ClosedStopsProbing
    BY DEF MatchInv, ClosedInv, ClosedStopsProbing, Idle, At
  <2>4. QED
    BY <2>1, <2>2, <2>3 DEF RowsMatch
<1>4. QED
  BY <1>1, <1>2, <1>3, PTL DEF Spec
=============================================================================
