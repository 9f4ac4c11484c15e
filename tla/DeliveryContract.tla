-------------------------- MODULE DeliveryContract --------------------------
(***************************************************************************)
(* What the sink of a probe promises its pipelines: a measurement is in    *)
(* the probe's custody from the moment it is written until it is in the    *)
(* central's database, exactly once, or is written off openly.             *)
(***************************************************************************)
EXTENDS Naturals

CONSTANT Sample

VARIABLES
  seen,        \* the measurements handed to the sink
  custody,     \* those the probe still answers for
  rows,        \* how often each is in the central's database
  writtenOff   \* those the probe has given up, with a reason in its log

vars == <<seen, custody, rows, writtenOff>>

Init ==
  /\ seen = {} /\ custody = {} /\ writtenOff = {}
  /\ rows = [s \in Sample |-> 0]

Accept(s) ==
  /\ s \notin seen /\ seen' = seen \cup {s} /\ custody' = custody \cup {s}
  /\ UNCHANGED <<rows, writtenOff>>

(* A batch is inserted as a whole, and no part of it is there already.       *)
Store(S) ==
  /\ S # {} /\ S \subseteq seen /\ \A s \in S : rows[s] = 0
  /\ rows' = [s \in Sample |-> IF s \in S THEN 1 ELSE rows[s]]
  /\ UNCHANGED <<seen, custody, writtenOff>>

(* The probe lets go of S: what is not stored is written off.                *)
Settle(S, W) ==
  /\ S \subseteq custody /\ W \subseteq S
  /\ \A s \in S \ W : rows[s] = 1 \/ s \in writtenOff
  /\ custody' = custody \ S /\ writtenOff' = writtenOff \cup W
  /\ UNCHANGED <<seen, rows>>

Next ==
  \/ \E s \in Sample : Accept(s)
  \/ \E S \in SUBSET Sample : Store(S)
  \/ \E S \in SUBSET Sample : \E W \in SUBSET S : Settle(S, W)

Spec == Init /\ [][Next]_vars
=============================================================================
