------------------------------ MODULE MCAlerts ------------------------------
(* Instances of Alerts for TLC: the loss incident of one target.  Incidents *)
(* share only the rate limit, the summary row and the queue.                *)
EXTENDS Alerts, TLC
CONSTANTS loss, t1, t2
Symmetry == Permutations(Token)
=============================================================================
