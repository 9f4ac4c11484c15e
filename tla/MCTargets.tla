----------------------------- MODULE MCTargets -----------------------------
(* Two requests at once on one hostname whose address changes, from clients *)
(* that may leave.  Stops, tabs and swaps are left to MCTargetsSole.        *)
EXTENDS Targets, TLC

RaceNext ==
  \/ Pipelines
  \/ \E t \in Target, a \in Addr : DnsChanges(t, a)
  \/ \E r \in Req :
       \/ \E t \in Target : HandleAdd(r, t) \/ HandleDelete(r, t) \/ HandlePatch(r, t)
                              \/ RemovePipeline(r, t)
       \/ ResolveTarget(r) \/ AddPipeline(r) \/ AddActiveTarget(r)
       \/ CancelOld(r) \/ RemoveActiveTarget(r)
       \/ RebuildPipeline(r) \/ SetActiveTargetInterval(r)
       \/ ClientLeaves(r)

RaceSpec == Init /\ [][RaceNext]_vars

Symmetry == Permutations(Req) \cup Permutations(Slot)
=============================================================================
