------------------------------- MODULE Prober -------------------------------
(***************************************************************************)
(* The shared ICMP prober (internal/probe/icmp.go): concurrent Probe calls *)
(* on one socket, whose replies the read loop hands out by sequence        *)
(* number.  The number is the count of numbers tried so far modulo         *)
(* SeqSpace (65536 in the code), so a call is identified by that count,    *)
(* its stamp.                                                              *)
(*                                                                         *)
(* The network answers any probe, late, twice or never.  Addresses, RTTs   *)
(* and the parsing of packets that are not ours are left out.              *)
(***************************************************************************)
EXTENDS Naturals

CONSTANTS
  Caller,      \* goroutines that call Probe
  SeqSpace,    \* number of sequence numbers
  HopTTL,      \* TTLs asked for
  MaxTotal     \* sequence numbers tried in all (bound)

VARIABLES
  total,               \* nextSeq before it is reduced modulo SeqSpace
  pc, stamp, ttl, inbox,  \* the calls: progress, identity, TTL, 1-buffer channel (0: empty)
  mu, sockTTL,         \* holder of the mutex across SetTTL and WriteTo, socket option
  wire,                \* probes sent that may still be answered
  reading,             \* the read loop between lookup and send: call found, probe answered
  closed

vars == <<total, pc, stamp, ttl, inbox, mu, sockTTL, wire, reading, closed>>

Nobody  == [to |-> 0, of |-> 0]
Unlocked == "unlocked"
SeqOf(n) == n % SeqSpace

(* The calls with an entry in the pending map.                              *)
Pending == {c \in Caller : pc[c] # "idle"}
Busy(n) == \E c \in Pending : SeqOf(stamp[c]) = SeqOf(n)

Init ==
  /\ total = 1 /\ closed = FALSE
  /\ pc = [c \in Caller |-> "idle"] /\ stamp = [c \in Caller |-> 0]
  /\ ttl = [c \in Caller |-> 0] /\ inbox = [c \in Caller |-> 0]
  /\ mu = Unlocked /\ sockTTL = 0 /\ wire = {} /\ reading = Nobody

(* Mutant: a busy number is taken all the same.                             *)
RegistersBusy(n) == n = total

(* The first free number from nextSeq on.                                   *)
Registers(n) ==
  /\ n >= total /\ n < total + SeqSpace /\ ~Busy(n)
  /\ \A m \in total..(n - 1) : Busy(m)

(* register; without a free number, or on a closed prober, Probe returns an *)
(* error and nothing changes.                                               *)
Register(c, t, n) ==
  /\ pc[c] = "idle" /\ mu = Unlocked /\ ~closed /\ Registers(n) /\ n <= MaxTotal
  /\ total' = n + 1 /\ stamp' = [stamp EXCEPT ![c] = n]
  /\ pc' = [pc EXCEPT ![c] = "registered"]
  /\ ttl' = [ttl EXCEPT ![c] = t] /\ inbox' = [inbox EXCEPT ![c] = 0]
  /\ UNCHANGED <<mu, sockTTL, wire, reading, closed>>

(* Mutant: SetTTL does not wait for the mutex.                              *)
MayLockAnyway == TRUE

MayLock == mu = Unlocked

SetTTL(c) ==
  /\ pc[c] = "registered" /\ MayLock
  /\ mu' = c /\ sockTTL' = ttl[c] /\ pc' = [pc EXCEPT ![c] = "locked"]
  /\ UNCHANGED <<total, stamp, ttl, inbox, wire, reading, closed>>

(* The packet leaves with whatever TTL the socket has.                      *)
WriteTo(c) ==
  /\ pc[c] = "locked" /\ ~closed
  /\ wire' = wire \cup {[of |-> stamp[c], asked |-> ttl[c], sent |-> sockTTL]}
  /\ mu' = Unlocked /\ pc' = [pc EXCEPT ![c] = "waiting"]
  /\ UNCHANGED <<total, stamp, ttl, inbox, sockTTL, reading, closed>>

(* unregister, deferred to every return of Probe; it needs the mutex.       *)
Return(c) ==
  /\ pc' = [pc EXCEPT ![c] = "idle"] /\ stamp' = [stamp EXCEPT ![c] = 0]
  /\ ttl' = [ttl EXCEPT ![c] = 0] /\ inbox' = [inbox EXCEPT ![c] = 0]
  /\ UNCHANGED <<total, sockTTL, wire, reading, closed>>

(* SetTTL, Marshal or WriteTo fail; on a closed socket they do.             *)
WriteFails(c) == pc[c] = "locked" /\ mu' = Unlocked /\ Return(c)

(* The timer fires or the context ends, a reply in the channel or not.      *)
TimesOut(c) == pc[c] = "waiting" /\ mu = Unlocked /\ UNCHANGED mu /\ Return(c)

Receives(c) ==
  pc[c] = "waiting" /\ inbox[c] # 0 /\ mu = Unlocked /\ UNCHANGED mu /\ Return(c)

(* readLoop reads a reply and looks its number up under the mutex; a probe  *)
(* may be answered again (stays on the wire).                               *)
Lookup(p, again) ==
  /\ ~closed /\ reading = Nobody /\ mu = Unlocked /\ p \in wire
  /\ wire' = IF again THEN wire ELSE wire \ {p}
  /\ reading' = IF \E c \in Pending : SeqOf(stamp[c]) = SeqOf(p.of)
                THEN [to |-> stamp[CHOOSE c \in Pending : SeqOf(stamp[c]) = SeqOf(p.of)],
                      of |-> p.of]
                ELSE Nobody
  /\ UNCHANGED <<total, pc, stamp, ttl, inbox, mu, sockTTL, closed>>

(* The send to the channel found, without the mutex: dropped when the       *)
(* channel is full, and seen by no one when the call has returned.          *)
Deliver ==
  /\ reading # Nobody /\ reading' = Nobody
  /\ inbox' = [c \in Caller |->
                 IF c \in Pending /\ stamp[c] = reading.to /\ inbox[c] = 0
                 THEN reading.of ELSE inbox[c]]
  /\ UNCHANGED <<total, pc, stamp, ttl, mu, sockTTL, wire, closed>>

(* A probe or its answer is lost.                                           *)
Lose(p) ==
  /\ p \in wire /\ wire' = wire \ {p}
  /\ UNCHANGED <<total, pc, stamp, ttl, inbox, mu, sockTTL, reading, closed>>

(* Close: no new calls, and the read loop ends; calls in progress go on.    *)
Close ==
  /\ ~closed /\ mu = Unlocked /\ closed' = TRUE
  /\ UNCHANGED <<total, pc, stamp, ttl, inbox, mu, sockTTL, wire, reading>>

CallStep(c) == SetTTL(c) \/ WriteTo(c) \/ WriteFails(c) \/ TimesOut(c) \/ Receives(c)

Next ==
  \/ \E c \in Caller : \/ \E t \in HopTTL, n \in total..(total + SeqSpace) : Register(c, t, n)
                       \/ CallStep(c)
  \/ \E p \in wire : Lose(p) \/ \E again \in BOOLEAN : Lookup(p, again)
  \/ Deliver \/ Close

Spec == Init /\ [][Next]_vars

-----------------------------------------------------------------------------
TypeOK ==
  /\ total \in 1..MaxTotal + 1 /\ closed \in BOOLEAN
  /\ pc \in [Caller -> {"idle", "registered", "locked", "waiting"}]
  /\ stamp \in [Caller -> 0..MaxTotal] /\ inbox \in [Caller -> 0..MaxTotal]
  /\ ttl \in [Caller -> HopTTL \cup {0}] /\ sockTTL \in HopTTL \cup {0}
  /\ mu \in Caller \cup {Unlocked} /\ reading \in [to : 0..MaxTotal, of : 0..MaxTotal]
  /\ wire \subseteq [of : 1..MaxTotal, asked : HopTTL, sent : HopTTL]

(* A call is only ever given the reply to its own probe, unless that reply  *)
(* is so late that all sequence numbers have been used in between           *)
(* (register, deliver): timed-out calls, reused numbers, duplicates and the *)
(* unlocked gap in deliver never credit it to another probe.                *)
OwnReply == \A c \in Pending :
  inbox[c] # 0 => inbox[c] = stamp[c] \/ stamp[c] >= inbox[c] + SeqSpace

(* A probe leaves with the TTL its caller asked for, although the TTL is an *)
(* option of the one socket that concurrent calls share (Probe).            *)
OwnTTL == \A p \in wire : p.sent = p.asked

(* Concurrent calls on the one socket do not mix: a call gets the reply to  *)
(* its own probe, and its probe leaves with its own TTL (Probe).            *)
OwnProbe == OwnReply /\ OwnTTL

-----------------------------------------------------------------------------
(* The invariants the proof of OwnProbe rests on.                            *)

(* A call between SetTTL and WriteTo has the socket to itself.               *)
SocketInv == \A c \in Caller : pc[c] = "locked" => mu = c /\ sockTTL = ttl[c]

(* No two pending calls share a number, and no probe on the wire is newer    *)
(* than a pending call with its number: a number is not given out while it   *)
(* is in use.                                                                *)
NumberInv ==
  /\ \A c \in Pending : stamp[c] < total
  /\ \A c, k \in Pending : SeqOf(stamp[c]) = SeqOf(stamp[k]) => c = k
  /\ \A p \in wire : /\ p.of < total
                     /\ \A c \in Pending : SeqOf(stamp[c]) = SeqOf(p.of) => p.of <= stamp[c]

(* What the read loop has looked up is for the call of the probe answered,   *)
(* or for one that came a whole round of numbers later.                      *)
ReadingInv == reading.of = reading.to \/ reading.to >= reading.of + SeqSpace

ProberType ==
  /\ total \in Nat /\ stamp \in [Caller -> Nat] /\ inbox \in [Caller -> Nat]
  /\ pc \in [Caller -> {"idle", "registered", "locked", "waiting"}]
  /\ ttl \in [Caller -> HopTTL \cup {0}]
  /\ reading \in [to : Nat, of : Nat] /\ \A p \in wire : p.of \in Nat

OwnInv == ProberType /\ SocketInv /\ NumberInv /\ ReadingInv /\ OwnProbe
=============================================================================
