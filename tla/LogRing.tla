------------------------------ MODULE LogRing ------------------------------
(***************************************************************************)
(* The ring of the latest log records (internal/logring/logring.go) and a  *)
(* viewer that polls it with its last-seen seq (internal/server/logs.go),  *)
(* over restarts of the daemon, which empty the ring while the page and    *)
(* its seq stay.  A record is its number in the order of logging.          *)
(***************************************************************************)
EXTENDS Integers, Sequences

CONSTANTS Cap,        \* capacity of the ring
          Limit,      \* limits a viewer asks for
          MaxLogged,  \* records logged (bound)
          MaxStarts   \* restarts of the daemon (bound)

VARIABLES buf, next,        \* Ring.buf and Ring.next
          logged, starts,   \* records logged, restarts
          seen, latestSeq   \* the viewer: records shown, last-seen seq

vars == <<buf, next, logged, starts, seen, latestSeq>>

Init == /\ buf = <<>> /\ next = 0 /\ logged = 0 /\ starts = 0
        /\ seen = <<>> /\ latestSeq = -1

(* buf[seq % cap]                                                           *)
SlotOf(seq) == (seq % Cap) + 1

(* Mutant: the record's slot is that of the seq after its own.              *)
Append1Late(rec) ==
  /\ buf' = IF Len(buf) < Cap THEN Append(buf, rec) ELSE [buf EXCEPT ![SlotOf(next + 1)] = rec]
  /\ next' = next + 1

(* The seq of a record is next.                                             *)
Append1(rec) ==
  /\ buf' = IF Len(buf) < Cap THEN Append(buf, rec) ELSE [buf EXCEPT ![SlotOf(next)] = rec]
  /\ next' = next + 1

(* Mutant: the last-seen record once more.                                  *)
StartAt(after) == after

(* The first seq wanted, before the limit.                                  *)
Start(after) == after + 1

(* Up to limit records with a seq above after, oldest first; of more than   *)
(* limit the newest.                                                        *)
Since(after, limit) ==
  LET oldest == next - Len(buf)
      wanted == IF Start(after) < oldest THEN oldest ELSE Start(after)
      from   == IF next - wanted > limit THEN next - limit ELSE wanted
  IN IF limit < 1 \/ buf = <<>> THEN <<>>
     ELSE [i \in 1..(next - from) |-> buf[SlotOf(from + i - 1)]]

(* A handler's record reaches the ring.                                     *)
Handle ==
  /\ logged < MaxLogged /\ logged' = logged + 1 /\ Append1(logged)
  /\ UNCHANGED <<starts, seen, latestSeq>>

(* One poll; the viewer goes on from the latest seq.                        *)
HandleLogs(limit) ==
  /\ seen' = seen \o Since(latestSeq, limit)
  /\ latestSeq' = next - 1
  /\ UNCHANGED <<buf, next, logged, starts>>

(* The daemon starts again with an empty ring.                              *)
New ==
  /\ starts < MaxStarts /\ starts' = starts + 1
  /\ buf' = <<>> /\ next' = 0
  /\ UNCHANGED <<logged, seen, latestSeq>>

Next == Handle \/ New \/ (\E limit \in Limit : HandleLogs(limit))

Spec == Init /\ [][Next]_vars

-----------------------------------------------------------------------------
TypeOK ==
  /\ buf \in Seq(0..MaxLogged) /\ Len(buf) <= Cap /\ next \in Nat /\ latestSeq \in -1..MaxLogged
  /\ seen \in Seq(0..MaxLogged) /\ logged \in 0..MaxLogged /\ starts \in 0..MaxStarts

(* What Since computes with indices modulo the capacity is what it promises *)
(* for every seq and limit a viewer may send: of the records of this daemon *)
(* that are above the seq, the newest that both the ring and the limit      *)
(* allow, oldest first, each once.                                          *)
SinceIsTail ==
  \A after \in -1..MaxLogged, limit \in 0..(Cap + 1) :
    LET Least2(a, b) == IF a < b THEN a ELSE b
        above == IF next - 1 > after THEN next - 1 - after ELSE 0
        size  == Least2(above, Least2(Cap, limit))
    IN Since(after, limit) = [i \in 1..size |-> logged - size + i - 1]

(* A viewer whose polls do not overlap shows records in the order of        *)
(* logging and none twice, though the ring wraps between its polls and the  *)
(* daemon's seq starts again from zero under it.                            *)
ShownOnceInOrder == \A i, j \in 1..Len(seen) : i < j => seen[i] < seen[j]

(* Ring and viewer together: a poll returns the tail of the ring the viewer *)
(* has not seen, and the page shows no record twice or out of order (Since, *)
(* handleLogs).                                                             *)
ViewerSeesTail == SinceIsTail /\ ShownOnceInOrder

(* What makes it inductive: the slot of each seq the ring still holds has   *)
(* its record, and what the viewer shows was logged before this daemon      *)
(* started or is at most the record of its seq.                             *)
Base == logged - next   \* the record with seq 0 of this daemon
RingInv ==
  /\ next \in Nat /\ logged \in Nat /\ next <= logged /\ latestSeq \in Int /\ latestSeq >= -1
  /\ buf \in Seq(Nat) /\ Len(buf) = IF next < Cap THEN next ELSE Cap
  /\ \A seq \in (next - Len(buf))..(next - 1) : buf[SlotOf(seq)] = Base + seq
ViewInv ==
  /\ seen \in Seq(Nat) /\ ShownOnceInOrder
  /\ \A i \in 1..Len(seen) : /\ seen[i] < logged
                             /\ seen[i] < Base \/ seen[i] <= Base + latestSeq
LogInv == RingInv /\ ViewInv
=============================================================================
