---------------------------- MODULE MCProbeUpdate ----------------------------
(* One probe, updated by rollouts, for the liveness of ProbeUpdate.  The     *)
(* command for a single probe, which writes the row as a rollout does, and   *)
(* the failures before the restart are left to MCSafety.                     *)
EXTENDS ProbeUpdate

LiveNext ==
  \/ \E p \in Probe :
       \/ \E b \in Beat : Heartbeat(p, b)
       \/ ReportApplying(p) \/ Install(p) \/ Restart(p) \/ RestartFails(p) \/ ProbeCrash(p)
       \/ \E r \in Report : HandleUpdateStatus(p, r) \/ StatusLost(p, r)
       \/ CancelUpdate(p) \/ ForgetProbe(p)
  \/ \E b \in Beat : Handler(b) \/ BeatLost(b)
  \/ FinishRequest
  \/ Rollout \/ \E C \in SUBSET Probe : StartRollout(C)
  \/ Release \/ Clock \/ CentralRestart

LiveSpec == Init /\ [][LiveNext]_vars /\ Fairness
=============================================================================
