-------------------------------- MODULE Path --------------------------------
(***************************************************************************)
(* The monitor of one target: the reducer and its PathState                *)
(* (internal/probe/engine.go, path.go), the discovery sweep (discovery.go),*)
(* the pinger (pinger.go) and the decisions of internal/analysis/routing.go*)
(* over a network whose route changes.                                     *)
(*                                                                         *)
(* Sweeps and pings take their TTLs from a snapshot and are answered by    *)
(* the route of the moment they are sent; their results reach the reducer  *)
(* later and in any order.  Addresses are model values; RTTs, timestamps   *)
(* and the longer windows of the per-hop statistics are left out.          *)
(***************************************************************************)
EXTENDS Naturals, Sequences, FiniteSets

CONSTANTS
  Routes,        \* routes the network may have: sequences of responders, the target last
  Silent,        \* routers that never answer
  Target, Local, None,  \* addresses of the target and of this host; no address
  MaxHops,       \* DiscoveryConfig.MaxHops
  Threshold,     \* RouteChangeThreshold
  CandidatesCap, \* defaultCandidatesCap
  Slot,          \* pings in flight at once (bound)
  MaxChanges,    \* changes of the route (bound)
  MaxLost        \* probes lost without reason (bound)

ASSUME PathAssumption ==
  /\ MaxHops \in Nat \ {0} /\ Threshold \in Nat \ {0} /\ CandidatesCap \in Nat \ {0}
  /\ MaxChanges \in Nat /\ MaxLost \in Nat
  /\ Local # None /\ Target \notin {Local, None}
  /\ \A r \in Routes : /\ Len(r) \in Nat /\ \A i \in 1..Len(r) : r[i] \notin {Local, None}
                       /\ r # <<>> => Len(r) > 0 /\ r[Len(r)] = Target

VARIABLES
  route, changes, lost,      \* the network: route, changes and losses so far
  cand, cur, targetTTL, maxSeen,  \* PathState: candidates (newest first) and CurrentIP
                             \* of each TTL, targetTTL (0: unknown), maxSeen
  recorded,                  \* last RouteChange.NewIP written for each TTL
  ping,                      \* pings in flight and their results
  sweep, sweepState,         \* results of the sweep, how far it is
  finalHopOnly, paused       \* PingerConfig.FinalHopOnly, the shared Paused flag

pathVars == <<cand, cur, targetTTL, maxSeen, recorded>>
netVars  == <<route, changes, lost>>
vars == <<netVars, pathVars, ping, sweep, sweepState, finalHopOnly, paused>>

TTL   == 1..MaxHops
Kind  == {"echo", "exceeded", "unreachable", "timeout"}
Free  == [ttl |-> 0, kind |-> "timeout", ip |-> None]
Least(a, b) == IF a < b THEN a ELSE b
Addr  == UNION {{r[i] : i \in 1..Len(r)} : r \in Routes} \cup {Local}

Init ==
  /\ route \in Routes /\ changes = 0 /\ lost = 0
  /\ cand = [t \in TTL |-> <<>>] /\ cur = [t \in TTL |-> None]
  /\ targetTTL = 0 /\ maxSeen = 0 /\ recorded = [t \in TTL |-> None]
  /\ ping = [s \in Slot |-> Free] /\ sweep = <<>> /\ sweepState = "idle"
  /\ finalHopOnly \in BOOLEAN /\ paused = FALSE

-----------------------------------------------------------------------------
(* The network.  An empty route is a host that has lost its uplink: its own *)
(* kernel answers every probe with "destination unreachable".               *)

Result(t, k, a) == [ttl |-> t, kind |-> k, ip |-> a]

Answer(t) ==
  IF route = <<>> THEN Result(t, "unreachable", Local)
  ELSE IF t >= Len(route) THEN Result(t, "echo", Target)
  ELSE IF route[t] \in Silent THEN Result(t, "timeout", None)
  ELSE Result(t, "exceeded", route[t])

RouteMoves ==
  /\ changes < MaxChanges /\ changes' = changes + 1
  /\ route' \in Routes \ {route}
  /\ UNCHANGED <<lost, pathVars, ping, sweep, sweepState, finalHopOnly, paused>>

-----------------------------------------------------------------------------
(* internal/analysis/routing.go, on observations newest first.              *)

(* The sightings that are not anonymous.                                    *)
Known(obs) == {i \in 1..Len(obs) : obs[i] # None}

First(I) == CHOOSE i \in I : \A j \in I : i <= j

Newest(obs) == obs[First(Known(obs))]

(* Length of the run of the newest known address.                           *)
Consecutive(obs) ==
  Cardinality({i \in Known(obs) : \A j \in Known(obs) : j <= i => obs[j] = Newest(obs)})

DetectRouteChange(obs, current) ==
  Known(obs) # {} /\ Consecutive(obs) >= Threshold /\ Newest(obs) # current

Sightings(obs, i) == Cardinality({j \in Known(obs) : obs[j] = obs[i]})

(* The most frequent address, the most recent of equals.                    *)
ModalIP(obs) ==
  LET best == {i \in Known(obs) : \A j \in Known(obs) : Sightings(obs, j) <= Sightings(obs, i)}
  IN  obs[First(best)]

-----------------------------------------------------------------------------
(* PathState.                                                               *)

(* Mutant: an unreachable error counts as an answer of the hop.             *)
IsMissTimedOut(r) == r.kind = "timeout"

IsMiss(r) == r.kind \in {"timeout", "unreachable"}

Push(obs, a) == SubSeq(<<a>> \o obs, 1, Least(CandidatesCap, Len(obs) + 1))

(* Mutant: a longer path is not noticed.                                    *)
TargetKept(r) ==
  IF r.kind = "echo" /\ (targetTTL = 0 \/ r.ttl < targetTTL) THEN r.ttl ELSE targetTTL

TargetAfter(r) ==
  IF r.kind = "echo" /\ (targetTTL = 0 \/ r.ttl < targetTTL) THEN r.ttl
  ELSE IF r.kind = "exceeded" /\ r.ttl = targetTTL THEN 0
  ELSE targetTTL

(* Mutant: the tentative identity replaces a settled one.                   *)
AdoptsAlways(t, obs) == Known(obs) # {}

(* No change detected and no identity yet: the modal address will do.       *)
Adopts(t, obs) == cur[t] = None /\ Known(obs) # {}

(* ApplyProbeResult, and the route change it has written.                   *)
ApplyProbeResult(r) ==
  LET t == r.ttl
      obs == Push(cand[t], IF IsMiss(r) THEN None ELSE r.ip)
      changed == DetectRouteChange(obs, cur[t])
  IN /\ cand' = [cand EXCEPT ![t] = obs]
     /\ maxSeen' = IF ~IsMiss(r) /\ t > maxSeen THEN t ELSE maxSeen
     /\ targetTTL' = TargetAfter(r)
     /\ cur' = IF changed THEN [cur EXCEPT ![t] = Newest(obs)]
               ELSE IF Adopts(t, obs) THEN [cur EXCEPT ![t] = ModalIP(obs)] ELSE cur
     /\ recorded' = IF changed THEN [recorded EXCEPT ![t] = Newest(obs)] ELSE recorded

(* Snapshot: the hops 1..maxVisible that exist.                             *)
SnapshotHops ==
  {t \in TTL : /\ t <= maxSeen /\ (targetTTL # 0 => t <= targetTTL)
               /\ cand[t] # <<>>}

-----------------------------------------------------------------------------
(* The loops that probe.                                                    *)

(* The TTLs a tick of the pinger probes.                                    *)
TickTTLs ==
  IF SnapshotHops = {} THEN {}
  ELSE IF finalHopOnly THEN {targetTTL} \ {0} ELSE SnapshotHops

(* probeAndSend: the probe goes out and is answered or lost.                *)
ProbeAndSend(s, t) ==
  /\ ~paused /\ ping[s] = Free /\ t \in TickTTLs
  /\ \/ ping' = [ping EXCEPT ![s] = Answer(t)] /\ UNCHANGED lost
     \/ /\ lost < MaxLost /\ lost' = lost + 1
        /\ ping' = [ping EXCEPT ![s] = Result(t, "timeout", None)]
  /\ UNCHANGED <<route, changes, pathVars, sweep, sweepState, finalHopOnly, paused>>

SweepMax == IF targetTTL # 0 /\ targetTTL < MaxHops THEN targetTTL ELSE MaxHops

(* Results by TTL, whatever order they came back in.                        *)
SweepResults(misses) ==
  [t \in 1..SweepMax |-> IF t \in misses THEN Result(t, "timeout", None) ELSE Answer(t)]

(* sweep: one probe for each TTL at once, one message for all results.      *)
Sweep(misses) ==
  /\ ~paused /\ sweepState = "idle" /\ sweepState' = "sent"
  /\ misses \subseteq 1..SweepMax /\ lost + Cardinality(misses) <= MaxLost
  /\ lost' = lost + Cardinality(misses)
  /\ sweep' = SweepResults(misses)
  /\ UNCHANGED <<route, changes, pathVars, ping, finalHopOnly, paused>>

(* The Paused flag the bandwidth tests raise and lower.                     *)
SetPaused(b) ==
  /\ paused # b /\ paused' = b
  /\ UNCHANGED <<netVars, pathVars, ping, sweep, sweepState, finalHopOnly>>

-----------------------------------------------------------------------------
(* The reducer: a sweep is applied to its end before anything else.         *)

ReduceProbe(s) ==
  /\ sweepState # "applying" /\ ping[s] # Free
  /\ ApplyProbeResult(ping[s]) /\ ping' = [ping EXCEPT ![s] = Free]
  /\ UNCHANGED <<netVars, sweep, sweepState, finalHopOnly, paused>>

ReduceSweep ==
  /\ sweepState \in {"sent", "applying"}
  /\ ApplyProbeResult(Head(sweep)) /\ sweep' = Tail(sweep)
  /\ sweepState' = IF Len(sweep) = 1 THEN "idle" ELSE "applying"
  /\ UNCHANGED <<netVars, ping, finalHopOnly, paused>>

Next ==
  \/ RouteMoves \/ \E b \in BOOLEAN : SetPaused(b)
  \/ \E s \in Slot : ReduceProbe(s) \/ \E t \in TTL : ProbeAndSend(s, t)
  \/ ReduceSweep \/ \E M \in SUBSET TTL : Sweep(M)

Spec == Init /\ [][Next]_vars

(* Sweeps and the reducer keep running, and pauses end.                     *)
Fairness ==
  /\ \A s \in Slot : WF_vars(ReduceProbe(s))
  /\ WF_vars(ReduceSweep) /\ WF_vars(SetPaused(FALSE)) /\ SF_vars(Sweep({}))

FairSpec == Spec /\ Fairness

-----------------------------------------------------------------------------
TypeOK ==
  /\ route \in Routes /\ changes \in 0..MaxChanges /\ lost \in 0..MaxLost
  /\ \A t \in TTL : cand[t] \in Seq(Addr \cup {None}) /\ Len(cand[t]) <= CandidatesCap
  /\ cur \in [TTL -> Addr \cup {None}] /\ recorded \in [TTL -> Addr \cup {None}]
  /\ targetTTL \in 0..MaxHops /\ maxSeen \in 0..MaxHops
  /\ \A s \in Slot : ping[s].ttl \in 0..MaxHops /\ ping[s].kind \in Kind
  /\ sweepState \in {"idle", "sent", "applying"} /\ (sweepState = "idle" <=> sweep = <<>>)
  /\ finalHopOnly \in BOOLEAN /\ paused \in BOOLEAN

(* An outage of this host's own uplink never gives a hop the identity of    *)
(* this host, through any mix of late, lost and unreachable results (the    *)
(* step-64 defect named in ApplyProbeResult).                               *)
NoLocalIdentity == \A t \in TTL : cur[t] # Local

(* What makes NoLocalIdentity inductive: no sighting and no result that     *)
(* counts as one is of this host.                                           *)
Elsewhere == (Addr \ {Local}) \cup {None}
Sighted == {r \in [ttl : TTL, kind : Kind, ip : Elsewhere \cup {Local}] :
              r.ip \in Elsewhere \/ r.kind \in {"timeout", "unreachable"}}

PathInv ==
  /\ route \in Routes /\ targetTTL \in 0..MaxHops
  /\ cand \in [TTL -> Seq(Elsewhere)]
  /\ cur \in [TTL -> Elsewhere] /\ recorded \in [TTL -> Elsewhere]
  /\ ping \in [Slot -> Sighted \cup {Free}]
  /\ sweep \in Seq(Sighted) /\ (sweepState = "idle" <=> sweep = <<>>)

(* What the path shows agrees with what it keeps: a hop without an identity *)
(* has only anonymous sightings, a change on record is the identity shown,  *)
(* and no change that the latest sightings call for is still to be made     *)
(* (ApplyProbeResult, DetectRouteChange).                                   *)
PathAgrees ==
  \A t \in TTL :
    /\ cur[t] = None => Known(cand[t]) = {}
    /\ recorded[t] \in {None, cur[t]}
    /\ ~DetectRouteChange(cand[t], cur[t]) /\ Len(cand[t]) <= CandidatesCap

(* The stored history explains what the path shows: a hop that has an       *)
(* identity only ever takes another one together with a route change on     *)
(* record, although lost, late and out-of-order results reach the ring of   *)
(* candidates from sweeps and pings alike (ApplyProbeResult).               *)
HistoryExplainsPath ==
  [][\A t \in TTL : cur[t] # None /\ cur'[t] # cur[t] => recorded'[t] = cur'[t]]_vars

Shown(r) == /\ targetTTL = Len(r)
            /\ \A t \in 1..Len(r) : cur[t] = r[t]
Answering(r) == r # <<>> /\ \A i \in 1..Len(r) : r[i] \notin Silent

(* When the network has settled on a route whose routers all answer, the    *)
(* monitor settles on it: the destination is found at its distance, after   *)
(* any growth or shrinking of the path and whatever results arrive late,    *)
(* and each hop shows the router that is there (targetTTL, CurrentIP;       *)
(* "route_change_threshold ... consecutive observations ... before a route  *)
(* change is flagged", config.go).                                          *)
PathFollowsRoute == \A r \in Routes :
  Answering(r) => (<>[](route = r) => <>[]Shown(r))
=============================================================================
