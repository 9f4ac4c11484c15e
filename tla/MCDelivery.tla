----------------------------- MODULE MCDelivery -----------------------------
(* Small instances of Delivery for TLC.                                      *)
EXTENDS DeliveryRefinement, TLC

CONSTANTS s1, s2, s3, c1, c2

(* Samples and connections are interchangeable.                              *)
Symmetry == Permutations(Sample) \cup Permutations(Conn)

(* Probe clocks: in step, up to one unit ahead.                              *)
InStep    == {0}
Ahead     == {0, 1}
=============================================================================
