------------------------------- MODULE MCPath -------------------------------
(* Instances of Path for TLC: a target behind one or no router, a second    *)
(* router that takes over, and a lost uplink.                               *)
EXTENDS Path
CONSTANTS A, B
MCRoutes == {<<Target>>, <<A, Target>>, <<B, Target>>, <<>>}
=============================================================================
