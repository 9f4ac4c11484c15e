----------------------------- MODULE MCServices -----------------------------
(***************************************************************************)
(* Services that share the process but no state at this level of detail:   *)
(* the local sink, the checkpoint gate, the ICMP prober, the release check,*)
(* the log ring and the pipelines of a remote probe.  One run explores     *)
(* each of them by itself; unit is the one that runs.                      *)
(***************************************************************************)
EXTENDS Naturals

CONSTANTS FlushSize, BufferCap, MaxSamples, MaxChanges, MaxDoubts,
          Request, MaxConns, MaxAttempts, CheckEvery,
          Caller, SeqSpace, HopTTL, MaxTotal,
          Cap, Limit, MaxLogged, MaxStarts,
          Target, Host, Addr, Nil, Slot, Changes, Token

ASSUME ServicesAssumption ==
  /\ BufferCap \in Nat /\ MaxSamples \in Nat /\ MaxChanges \in Nat /\ MaxDoubts \in Nat
  /\ MaxConns \in Nat /\ MaxAttempts \in Nat \ {0} /\ CheckEvery \in Nat
  /\ SeqSpace \in Nat \ {0} /\ MaxTotal \in Nat /\ "unlocked" \notin Caller
  /\ Cap \in Nat \ {0} /\ Limit \subseteq Nat /\ MaxLogged \in Nat /\ MaxStarts \in Nat
  /\ Nil \notin Slot /\ Changes \in Nat

VARIABLES
  wrote, wroteChanges, samples, changes, signal, batch, batchChanges, fpc, stopping, dropped,
  reported, stored, storedChanges, doubted, doubts,
  rpc, slow, cpc, held, attempts,
  total, pc, stamp, ttl, inbox, mu, sockTTL, wire, reading, closed,
  age, setting, fetching, daemon,
  buf, next, logged, starts, seen, latestSeq,
  assigned, dns, token, proc, reply, pipelines, pipe, shown, budget,
  unit

Sink     == INSTANCE LocalSink
Store    == INSTANCE Gate
Shared   == INSTANCE Prober
Release  == INSTANCE ReleaseCheck WITH up <- daemon
Log      == INSTANCE LogRing
Agent    == INSTANCE AgentTargets

sinkVars == <<wrote, wroteChanges, samples, changes, signal, batch, batchChanges, fpc, stopping,
              dropped, reported, stored, storedChanges, doubted, doubts>>
gateVars == <<rpc, slow, cpc, held, attempts>>
proberVars == <<total, pc, stamp, ttl, inbox, mu, sockTTL, wire, reading, closed>>
checkVars == <<age, setting, fetching, daemon>>
logVars == <<buf, next, logged, starts, seen, latestSeq>>
agentVars == <<assigned, dns, token, proc, reply, pipelines, pipe, shown, budget>>
vars == <<sinkVars, gateVars, proberVars, checkVars, logVars, agentVars, unit>>

Init ==
  /\ Sink!Init /\ Store!Init /\ Shared!Init /\ Release!Init
  /\ Log!Init /\ Agent!Init
  /\ unit \in {"sink", "gate", "prober", "check", "log", "agent"}
  /\ dns = [h \in Host |-> CHOOSE a \in Addr : TRUE]   \* answers are interchangeable
  /\ unit = "agent" \/ assigned = {}

Next ==
  /\ UNCHANGED unit
  /\ \/ /\ unit = "sink" /\ Sink!Next
        /\ UNCHANGED <<gateVars, proberVars, checkVars, logVars, agentVars>>
     \/ /\ unit = "gate" /\ Store!Next
        /\ UNCHANGED <<sinkVars, proberVars, checkVars, logVars, agentVars>>
     \/ /\ unit = "prober" /\ (Shared!Next \/ UNCHANGED proberVars)
        /\ UNCHANGED <<sinkVars, gateVars, checkVars, logVars, agentVars>>
     \/ /\ unit = "check" /\ Release!Next
        /\ UNCHANGED <<sinkVars, gateVars, proberVars, logVars, agentVars>>
     \/ /\ unit = "log" /\ Log!Next
        /\ UNCHANGED <<sinkVars, gateVars, proberVars, checkVars, agentVars>>
     \/ /\ unit = "agent" /\ (Agent!Next \/ UNCHANGED agentVars)
        /\ UNCHANGED <<sinkVars, gateVars, proberVars, checkVars, logVars>>

(* In its first state a unit asks nothing of the scheduler, so the fairness *)
(* of the units that do not run holds by itself.                            *)
FairSpec ==
  /\ Init /\ [][Next]_vars
  /\ Sink!Fairness /\ Store!Fairness /\ Release!Fairness
  /\ Agent!Fairness

(* LocalSink: only the oldest are dropped, rows are inserted in order.      *)
InOrder        == Sink!InOrder
(* LocalSink: every sample is stored, on its way or counted as dropped.     *)
Accounted      == Sink!Accounted
(* LocalSink: the buffer empties again although flushes fail.               *)
Drains         == Sink!Drains
(* Gate: the log is truncated while no connection is in use.                *)
TruncatesAlone == Store!TruncatesAlone
(* Gate: under continuous traffic checkpoints and requests get through.     *)
GateGoesOn     == Store!GateGoesOn
(* Prober: a call gets the reply to its own probe, sent with its own TTL.   *)
OwnProbe       == Shared!OwnProbe
(* LogRing: the viewer shows the tail, no record twice or out of order.     *)
ViewerSeesTail == Log!ViewerSeesTail
(* AgentTargets: no pipeline is beyond reach or outlives the shutdown.      *)
RunnerInControl == Agent!RunnerInControl
(* ReleaseCheck: the background check goes on over restarts.                *)
ChecksGoOn     == Release!ChecksGoOn
(* AgentTargets: pipelines and paths become those the central wants.        *)
FollowsCentral == Agent!FollowsCentral
(* AgentTargets: a probe whose token is revoked stops.                      *)
RevokedStops   == Agent!RevokedStops
=============================================================================
