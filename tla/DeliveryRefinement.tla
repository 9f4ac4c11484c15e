------------------------- MODULE DeliveryRefinement -------------------------
(* Delivery implements DeliveryContract.                                     *)
EXTENDS Delivery

(* A sample is in at most one batch; its rows are that batch's copies.       *)
RowsOf(s) ==
  IF \E b \in Batch : s \in content[b]
  THEN copies[CHOOSE b \in Batch : s \in content[b]]
  ELSE 0

Contract == INSTANCE DeliveryContract WITH
  seen       <- taken,
  custody    <- Held,
  rows       <- [s \in Sample |-> RowsOf(s)],
  writtenOff <- {s \in Sample : givenUp[s] # "none"}

(* Every step of the probe and of the central is a step of the contract or   *)
(* changes nothing the contract speaks of.                                   *)
ImplementsContract == Contract!Spec
=============================================================================
