--------------------------- MODULE MCTargetsSole ---------------------------
(***************************************************************************)
(* One client at a time, in a daemon that stops and starts.  Two kinds of  *)
(* behaviour side by side: "lookups", one hostname, added and given        *)
(* intervals, whose address changes; "requests", a hostname and a raw IP   *)
(* with every operation and a resolver that keeps its answer.              *)
(***************************************************************************)
EXTENDS Targets, Naturals

VARIABLE mode

SoleInit == Init /\ mode \in {"lookups", "requests"}

(* A hostname may fail to resolve at start if its row has no settings: with *)
(* settings it would come back without them, which RowsMatch leaves out.    *)
Restarts ==
  \/ Shutdown \/ Halt \/ StartDaemon \/ Serve
  \/ \E t \in Target :
       /\ HydrateTarget(t)
       /\ pipelines'[t] = None => rowInterval[t] = DefaultInterval /\ rowThr[t] = NoThreshold

Lookups ==
  \/ Pipelines \/ Restarts
  \/ \E t \in Host, a \in Addr : DnsChanges(t, a)
  \/ \E r \in Req :
       \/ \E t \in Host : HandleAdd(r, t) \/ (HandlePatch(r, t) /\ rpc'[r] = "rebuild")
       \/ ResolveTarget(r) \/ AddPipeline(r) \/ AddActiveTarget(r)
       \/ RebuildPipeline(r) \/ CancelOld(r) \/ SetActiveTargetInterval(r)

(* Only the hostname is given other settings.                               *)
Operations ==
  /\ Pipelines \/ Requests \/ Restarts
  /\ \A r \in Req : rpc'[r] \in {"rebuild", "thr"} => rtgt'[r] \in Host

(* Slots are interchangeable: a new pipeline takes the first that is free.  *)
FirstFree ==
  \A s \in Slot : pst[s] = "done" /\ pst'[s] # "done" => \A n \in Slot : n < s => ~Free(n)

SoleNext ==
  /\ \/ mode = "lookups" /\ Lookups
     \/ mode = "requests" /\ Operations
  /\ FirstFree /\ UNCHANGED mode

SoleSpec == SoleInit /\ [][SoleNext]_<<vars, mode>> /\ Fairness
=============================================================================
