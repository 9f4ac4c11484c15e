----------------------------- MODULE PathProofs -----------------------------
(* Theorems about the monitor of one target, for every set of routes, any    *)
(* threshold and capacity and any number of hops and pings in flight.        *)
EXTENDS Path, FiniteSetTheorems, SequenceTheorems, TLAPS

USE PathAssumption

-----------------------------------------------------------------------------
(* The decisions of internal/analysis/routing.go choose among what was seen. *)

LEMMA FirstOf ==
  ASSUME NEW I \in SUBSET Nat, I # {}
  PROVE  First(I) \in I
<1> DEFINE R == OpToRel(<, Nat)
<1>1. IsWellFoundedOn(R, Nat)
  BY NatLessThanWellFounded
<1>2. PICK i \in I : \A j \in I : ~(<<j, i>> \in R)
  <2> HIDE DEF R
  <2> QED BY <1>1, WFMin
<1>3. \A j \in I : ~(j < i)
  BY <1>2 DEF OpToRel
<1>4. \A j \in I : i <= j
  BY <1>3
<1>5. QED
  BY <1>4 DEF First

LEMMA NewestSeen ==
  ASSUME NEW S, NEW obs \in Seq(S), Known(obs) # {}
  PROVE  Newest(obs) \in S /\ Newest(obs) # None
<1>1. Known(obs) \in SUBSET Nat /\ Known(obs) \subseteq 1..Len(obs)
  BY DEF Known
<1>2. First(Known(obs)) \in Known(obs)
  BY <1>1, FirstOf
<1>3. First(Known(obs)) \in 1..Len(obs) /\ obs[First(Known(obs))] # None
  BY <1>2 DEF Known
<1>4. QED
  BY <1>3 DEF Newest

(* The most frequent address exists: counts are bounded.                     *)
LEMMA ModalSeen ==
  ASSUME NEW S, NEW obs \in Seq(S), Known(obs) # {}
  PROVE  ModalIP(obs) \in S /\ ModalIP(obs) # None
<1> DEFINE n == Len(obs)
           R == OpToRel(<, Nat)
           T == {n - Sightings(obs, i) : i \in Known(obs)}
           best == {i \in Known(obs) :
                      \A j \in Known(obs) : Sightings(obs, j) <= Sightings(obs, i)}
<1>1. n \in Nat /\ Known(obs) \subseteq 1..n
  BY DEF Known
<1>2. ASSUME NEW i \in Known(obs)
      PROVE  Sightings(obs, i) \in Nat /\ Sightings(obs, i) <= n
  <2>1. IsFiniteSet(1..n) /\ Cardinality(1..n) = n
    <3> HIDE DEF n
    <3>1. IsFiniteSet(1..n) /\ Cardinality(1..n) = IF 1 > n THEN 0 ELSE n - 1 + 1
      BY <1>1, FS_Interval
    <3>2. QED
      BY <3>1, <1>1
  <2>2. {j \in Known(obs) : obs[j] = obs[i]} \in SUBSET (1..n)
    BY <1>1
  <2>3. QED
    <3> HIDE DEF n
    <3> QED BY <2>1, <2>2, FS_Subset, FS_CardinalityType DEF Sightings
<1>3. T \subseteq Nat /\ T # {}
  <2> HIDE DEF n
  <2>1. \A i \in Known(obs) : n - Sightings(obs, i) \in Nat
    BY <1>1, <1>2
  <2>2. QED
    BY <2>1
<1>4. PICK x \in T : \A y \in T : ~(<<y, x>> \in R)
  <2>1. IsWellFoundedOn(R, Nat)
    BY NatLessThanWellFounded
  <2> HIDE DEF T, R
  <2>2. QED
    BY <2>1, <1>3, WFMin
<1>5. \A y \in T : ~(y < x)
  BY <1>3, <1>4 DEF OpToRel
<1>6. PICK i \in Known(obs) : x = n - Sightings(obs, i)
  BY <1>4
<1>7. i \in best
  <2>1. ASSUME NEW j \in Known(obs)
        PROVE  Sightings(obs, j) <= Sightings(obs, i)
    <3>1. ~(n - Sightings(obs, j) < n - Sightings(obs, i))
      BY <1>5, <1>6
    <3>2. QED
      <4> HIDE DEF n
      <4> QED BY <3>1, <1>1, <1>2
  <2>2. QED
    BY <2>1
<1>8. First(best) \in Known(obs)
  <2>1. best \in SUBSET Nat /\ best # {} /\ best \subseteq Known(obs)
    BY <1>1, <1>7
  <2>2. QED
    <3> HIDE DEF best
    <3> QED BY <2>1, FirstOf
<1>9. First(best) \in 1..n /\ obs[First(best)] # None
  BY <1>8 DEF Known
<1>10. QED
  BY <1>9 DEF ModalIP

LEMMA PushSeen ==
  ASSUME NEW S, NEW obs \in Seq(S), NEW a \in S
  PROVE  /\ Push(obs, a) \in Seq(S) /\ Push(obs, a) # <<>>
         /\ Len(Push(obs, a)) <= CandidatesCap
<1>1. <<a>> \o obs \in Seq(S) /\ Len(<<a>> \o obs) = Len(obs) + 1 /\ Len(obs) \in Nat
  OBVIOUS
<1>2. /\ Least(CandidatesCap, Len(obs) + 1) \in 1..(Len(obs) + 1)
      /\ Least(CandidatesCap, Len(obs) + 1) <= CandidatesCap
  BY <1>1 DEF Least
<1>3. PICK q, m : q = <<a>> \o obs /\ m = Least(CandidatesCap, Len(obs) + 1)
  OBVIOUS
<1>4. /\ SubSeq(q, 1, m) \in Seq(S) /\ Len(SubSeq(q, 1, m)) = m /\ m > 0
  BY <1>1, <1>2, <1>3
<1>5. SubSeq(q, 1, m) # <<>>
  BY <1>2, <1>3, <1>4, EmptySeq
<1>6. QED
  BY <1>2, <1>3, <1>4, <1>5 DEF Push

-----------------------------------------------------------------------------
(* The network and the loops that probe.                                     *)

LEMMA NoneElsewhere ==
  None \in Elsewhere /\ Local \notin Elsewhere
BY DEF Elsewhere

(* Only the kernel of this host answers with its address, and then with an   *)
(* error.                                                                    *)
LEMMA AnswerSighted ==
  ASSUME PathInv, NEW t \in TTL
  PROVE  Answer(t) \in Sighted /\ Result(t, "timeout", None) \in Sighted
<1>1. ASSUME NEW k \in Kind, NEW a \in Elsewhere \cup {Local},
             a \in Elsewhere \/ k \in {"timeout", "unreachable"}
      PROVE  Result(t, k, a) \in Sighted
  BY <1>1 DEF Result, Sighted
<1>2. ASSUME NEW i \in 1..Len(route)
      PROVE  route[i] \in Elsewhere
  <2>1. route \in Routes /\ route[i] \in {route[j] : j \in 1..Len(route)}
    BY DEF PathInv
  <2>2. {route[j] : j \in 1..Len(route)} \in {{r[j] : j \in 1..Len(r)} : r \in Routes}
    BY <2>1
  <2>3. route[i] \in Addr /\ route[i] # Local
    BY <2>1, <2>2 DEF Addr
  <2>4. QED
    BY <2>3 DEF Elsewhere
<1>3. /\ route # <<>> => Target \in Elsewhere
      /\ route # <<>> /\ ~(t >= Len(route)) => route[t] \in Elsewhere
  <2>1. route \in Routes /\ Len(route) \in Nat /\ t \in Nat \ {0}
    BY DEF PathInv, TTL
  <2>2. route # <<>> => Len(route) \in 1..Len(route) /\ route[Len(route)] = Target
    BY <2>1
  <2>3. ~(t >= Len(route)) => t \in 1..Len(route)
    BY <2>1
  <2>4. QED
    BY <1>2, <2>2, <2>3
<1>4. QED
  BY <1>1, <1>3, NoneElsewhere DEF Answer, Kind

LEMMA PathProbes ==
  ASSUME PathInv, NEW s \in Slot, NEW t \in TTL, ProbeAndSend(s, t)
  PROVE  PathInv'
<1>1. PICK r \in Sighted : ping' = [ping EXCEPT ![s] = r]
  BY AnswerSighted DEF ProbeAndSend
<1>2. ping' \in [Slot -> Sighted \cup {Free}]
  BY <1>1 DEF PathInv
<1>3. QED
  BY <1>2 DEF ProbeAndSend, PathInv, pathVars

LEMMA PathSweeps ==
  ASSUME PathInv, NEW misses, Sweep(misses)
  PROVE  PathInv'
<1>1. SweepMax \in Nat \ {0} /\ 1..SweepMax \subseteq TTL
  BY DEF SweepMax, TTL, PathInv
<1>2. \A t \in 1..SweepMax :
        (IF t \in misses THEN Result(t, "timeout", None) ELSE Answer(t)) \in Sighted
  BY <1>1, AnswerSighted
<1>3. SweepResults(misses) \in Seq(Sighted) /\ SweepResults(misses) # <<>>
  BY <1>1, <1>2 DEF SweepResults
<1>4. QED
  BY <1>3 DEF Sweep, PathInv, pathVars

-----------------------------------------------------------------------------
(* The reducer.                                                              *)

LEMMA PathReduces ==
  ASSUME PathInv, NEW r \in Sighted, ApplyProbeResult(r)
  PROVE  /\ cand' \in [TTL -> Seq(Elsewhere)] /\ targetTTL' \in 0..MaxHops
         /\ cur' \in [TTL -> Elsewhere] /\ recorded' \in [TTL -> Elsewhere]
         /\ \A t \in TTL : cur[t] # None /\ cur'[t] # cur[t] => recorded'[t] = cur'[t]
<1> DEFINE t == r.ttl
           a == IF IsMiss(r) THEN None ELSE r.ip
           obs == Push(cand[t], a)
           changed == DetectRouteChange(obs, cur[t])
<1>1. t \in TTL /\ a \in Elsewhere
  BY NoneElsewhere DEF Sighted, IsMiss
<1>2. obs \in Seq(Elsewhere)
  <2> HIDE DEF a
  <2> QED BY <1>1, PushSeen DEF PathInv
<1>3. changed => Newest(obs) \in Elsewhere
  <2> HIDE DEF obs
  <2> QED BY <1>2, NewestSeen DEF DetectRouteChange
<1>4. Adopts(t, obs) => ModalIP(obs) \in Elsewhere /\ cur[t] = None
  <2> HIDE DEF obs
  <2> QED BY <1>2, ModalSeen DEF Adopts
<1>5. /\ cand' = [cand EXCEPT ![t] = obs] /\ targetTTL' = TargetAfter(r)
      /\ cur' = IF changed THEN [cur EXCEPT ![t] = Newest(obs)]
                ELSE IF Adopts(t, obs) THEN [cur EXCEPT ![t] = ModalIP(obs)] ELSE cur
      /\ recorded' = IF changed THEN [recorded EXCEPT ![t] = Newest(obs)] ELSE recorded
  BY DEF ApplyProbeResult
<1> HIDE DEF t, obs, changed, a
<1>6. targetTTL' \in 0..MaxHops
  BY <1>1, <1>5 DEF TargetAfter, PathInv, TTL, t
<1>7. cand' \in [TTL -> Seq(Elsewhere)]
  BY <1>1, <1>2, <1>5 DEF PathInv
<1>8. QED
  BY <1>1, <1>3, <1>4, <1>5, <1>6, <1>7 DEF PathInv

LEMMA PathStep ==
  ASSUME PathInv, [Next]_vars
  PROVE  /\ PathInv'
         /\ \A t \in TTL : cur[t] # None /\ cur'[t] # cur[t] => recorded'[t] = cur'[t]
<1>1. CASE RouteMoves \/ (\E b \in BOOLEAN : SetPaused(b)) \/ UNCHANGED vars
  BY <1>1 DEF RouteMoves, SetPaused, vars, netVars, pathVars, PathInv
<1>2. ASSUME NEW s \in Slot, ReduceProbe(s)
      PROVE  /\ PathInv'
             /\ \A t \in TTL : cur[t] # None /\ cur'[t] # cur[t] => recorded'[t] = cur'[t]
  <2>1. ping[s] \in Sighted /\ ApplyProbeResult(ping[s])
    BY <1>2 DEF ReduceProbe, PathInv
  <2>2. /\ ping' \in [Slot -> Sighted \cup {Free}] /\ UNCHANGED <<route, sweep, sweepState>>
    BY <1>2 DEF ReduceProbe, PathInv, netVars
  <2>3. QED
    BY <2>1, <2>2, PathReduces DEF PathInv
<1>3. CASE ReduceSweep
  <2>1. sweep \in Seq(Sighted) /\ sweep # <<>>
    BY <1>3 DEF ReduceSweep, PathInv
  <2>2. Head(sweep) \in Sighted /\ ApplyProbeResult(Head(sweep))
    BY <1>3, <2>1 DEF ReduceSweep
  <2>3. /\ sweep' \in Seq(Sighted) /\ (sweepState' = "idle" <=> sweep' = <<>>)
        /\ UNCHANGED <<route, ping>>
    <3>1. Tail(sweep) \in Seq(Sighted) /\ Len(Tail(sweep)) = Len(sweep) - 1 /\ Len(sweep) \in Nat \ {0}
      BY <2>1
    <3>2. Len(sweep) = 1 <=> Tail(sweep) = <<>>
      <4>1. Len(sweep) = 1 <=> Len(Tail(sweep)) = 0
        BY <3>1
      <4>2. Tail(sweep) = <<>> <=> Len(Tail(sweep)) = 0
        BY <3>1, EmptySeq
      <4>3. QED
        BY <4>1, <4>2
    <3>3. QED
      BY <1>3, <3>1, <3>2 DEF ReduceSweep, netVars
  <2>4. QED
    BY <2>2, <2>3, PathReduces DEF PathInv
<1>4. ASSUME (\E s \in Slot : \E t \in TTL : ProbeAndSend(s, t)) \/ \E M \in SUBSET TTL : Sweep(M)
      PROVE  PathInv' /\ cur' = cur
  BY <1>4, PathProbes, PathSweeps DEF ProbeAndSend, Sweep, pathVars
<1>5. QED
  BY <1>1, <1>2, <1>3, <1>4 DEF Next

LEMMA PathInit == Init => PathInv
<1>1. <<>> \in Seq(Elsewhere) /\ <<>> \in Seq(Sighted)
  OBVIOUS
<1>2. QED
  BY <1>1, NoneElsewhere DEF Init, PathInv

(* An outage of this host's own uplink never gives a hop the identity of     *)
(* this host (ApplyProbeResult), through any mix of late, lost and           *)
(* unreachable results.                                                      *)
THEOREM HopsAreElsewhere == Spec => []NoLocalIdentity
<1>1. PathInv => NoLocalIdentity
  BY NoneElsewhere DEF PathInv, NoLocalIdentity
<1>2. QED
  BY <1>1, PathInit, PathStep, PTL DEF Spec

(* A hop that has an identity takes another one only together with a route   *)
(* change on record (ApplyProbeResult, PathState).                           *)
THEOREM HistoryIsComplete == Spec => HistoryExplainsPath
<1>1. PathInv /\ [Next]_vars =>
        [\A t \in TTL : cur[t] # None /\ cur'[t] # cur[t] => recorded'[t] = cur'[t]]_vars
  BY PathStep
<1>2. QED
  BY <1>1, PathInit, PathStep, PTL DEF Spec, HistoryExplainsPath

-----------------------------------------------------------------------------
(* What the path shows agrees with what it keeps.                            *)

LEMMA AgreesReduces ==
  ASSUME PathInv, PathAgrees, NEW r \in Sighted, ApplyProbeResult(r)
  PROVE  PathAgrees'
<1> DEFINE t == r.ttl
           a == IF IsMiss(r) THEN None ELSE r.ip
           obs == Push(cand[t], a)
           changed == DetectRouteChange(obs, cur[t])
<1>1. t \in TTL /\ a \in Elsewhere
  BY NoneElsewhere DEF Sighted, IsMiss
<1>2. obs \in Seq(Elsewhere) /\ Len(obs) <= CandidatesCap
  <2> HIDE DEF a
  <2> QED BY <1>1, PushSeen DEF PathInv
<1>3. changed => /\ Known(obs) # {} /\ Newest(obs) # None
                 /\ ~DetectRouteChange(obs, Newest(obs))
  <2> HIDE DEF obs
  <2> QED BY <1>2, NewestSeen DEF DetectRouteChange
<1>4. Adopts(t, obs) => ModalIP(obs) # None
  <2> HIDE DEF obs
  <2> QED BY <1>2, ModalSeen DEF Adopts
<1>5. ~changed /\ Adopts(t, obs) => ~DetectRouteChange(obs, ModalIP(obs))
  <2> HIDE DEF obs
  <2>1. ASSUME ~changed, Adopts(t, obs)
        PROVE  ~DetectRouteChange(obs, ModalIP(obs))
    <3>1. cur[t] = None /\ Known(obs) # {} /\ Newest(obs) # None
      BY <1>2, <2>1, NewestSeen DEF Adopts
    <3>2. ~(Consecutive(obs) >= Threshold)
      BY <2>1, <3>1 DEF DetectRouteChange
    <3>3. QED
      BY <3>2 DEF DetectRouteChange
  <2>2. QED
    BY <2>1
<1>6. /\ cand' = [cand EXCEPT ![t] = obs]
      /\ cur' = IF changed THEN [cur EXCEPT ![t] = Newest(obs)]
                ELSE IF Adopts(t, obs) THEN [cur EXCEPT ![t] = ModalIP(obs)] ELSE cur
      /\ recorded' = IF changed THEN [recorded EXCEPT ![t] = Newest(obs)] ELSE recorded
  BY DEF ApplyProbeResult
<1>7. cur[t] = None /\ ~Adopts(t, obs) => Known(obs) = {}
  BY DEF Adopts
<1>8. Adopts(t, obs) => cur[t] = None
  BY DEF Adopts
<1>9. ~changed => ~DetectRouteChange(obs, cur[t])
  OBVIOUS
<1> HIDE DEF t, obs, changed, a
<1>10. /\ cand \in [TTL -> Seq(Elsewhere)] /\ cur \in [TTL -> Elsewhere]
       /\ recorded \in [TTL -> Elsewhere]
  BY DEF PathInv
<1>11. ASSUME NEW h \in TTL, h # t
       PROVE  cand'[h] = cand[h] /\ cur'[h] = cur[h] /\ recorded'[h] = recorded[h]
  BY <1>6, <1>10, <1>11
<1>12. /\ cand'[t] = obs
       /\ cur'[t] = IF changed THEN Newest(obs) ELSE IF Adopts(t, obs) THEN ModalIP(obs) ELSE cur[t]
       /\ recorded'[t] = IF changed THEN Newest(obs) ELSE recorded[t]
  BY <1>1, <1>6, <1>10
<1>13. ASSUME NEW h \in TTL
       PROVE  /\ cur'[h] = None => Known(cand'[h]) = {}
              /\ recorded'[h] \in {None, cur'[h]}
              /\ ~DetectRouteChange(cand'[h], cur'[h]) /\ Len(cand'[h]) <= CandidatesCap
  <2>1. /\ cur[h] = None => Known(cand[h]) = {}
        /\ recorded[h] \in {None, cur[h]}
        /\ ~DetectRouteChange(cand[h], cur[h]) /\ Len(cand[h]) <= CandidatesCap
    BY DEF PathAgrees
  <2>2. CASE h # t
    BY <1>11, <2>1, <2>2
  <2>3. CASE h = t /\ changed
    BY <1>2, <1>3, <1>12, <2>3
  <2>4. CASE h = t /\ ~changed /\ Adopts(t, obs)
    BY <1>2, <1>4, <1>5, <1>8, <1>12, <2>1, <2>4
  <2>5. CASE h = t /\ ~changed /\ ~Adopts(t, obs)
    BY <1>2, <1>7, <1>9, <1>12, <2>1, <2>5
  <2>6. QED
    BY <2>2, <2>3, <2>4, <2>5
<1>14. QED
  BY <1>13 DEF PathAgrees

LEMMA AgreesStep ==
  ASSUME PathInv, PathAgrees, [Next]_vars
  PROVE  PathAgrees'
<1>1. ASSUME NEW s \in Slot, ReduceProbe(s)
      PROVE  PathAgrees'
  <2>1. ApplyProbeResult(ping[s]) /\ ping[s] \in Sighted
    BY <1>1 DEF ReduceProbe, PathInv
  <2>2. QED
    BY <2>1, AgreesReduces
<1>2. CASE ReduceSweep
  <2>1. sweep \in Seq(Sighted) /\ sweep # <<>>
    BY <1>2 DEF ReduceSweep, PathInv
  <2>2. ApplyProbeResult(Head(sweep)) /\ Head(sweep) \in Sighted
    BY <1>2, <2>1 DEF ReduceSweep
  <2>3. QED
    BY <2>2, AgreesReduces
<1>3. CASE UNCHANGED pathVars
  BY <1>3 DEF pathVars, PathAgrees
<1>4. (\E s \in Slot : ReduceProbe(s)) \/ ReduceSweep \/ UNCHANGED pathVars
  BY DEF Next, RouteMoves, SetPaused, ProbeAndSend, Sweep, vars
<1>5. QED
  BY <1>1, <1>2, <1>3, <1>4

LEMMA AgreesInit == Init => PathAgrees
<1>1. Known(<<>>) = {} /\ Len(<<>>) = 0
  BY DEF Known
<1>2. 0 <= CandidatesCap
  OBVIOUS
<1>3. QED
  BY <1>1, <1>2 DEF Init, PathAgrees, DetectRouteChange

(* What the path of a target shows agrees with the sightings it keeps, for   *)
(* every threshold and capacity and through any mix of late, lost and        *)
(* unreachable results: a hop without an identity has been anonymous         *)
(* throughout, the change on record is the identity shown, and no change     *)
(* that the latest sightings call for is overdue (ApplyProbeResult,          *)
(* DetectRouteChange).                                                       *)
THEOREM PathIsCurrent == Spec => []PathAgrees
BY AgreesInit, AgreesStep, PathInit, PathStep, PTL DEF Spec

(* What PathInv leaves open of the ranges.                                   *)
NetType ==
  /\ changes \in 0..MaxChanges /\ lost \in 0..MaxLost /\ maxSeen \in 0..MaxHops
  /\ sweepState \in {"idle", "sent", "applying"}
  /\ finalHopOnly \in BOOLEAN /\ paused \in BOOLEAN

LEMMA NetTypeStep ==
  ASSUME PathInv, NetType, [Next]_vars
  PROVE  NetType'
<1> USE DEF NetType
<1>1. CASE RouteMoves
  <2>1. changes' \in 0..MaxChanges
    BY <1>1 DEF RouteMoves
  <2>2. QED
    BY <1>1, <2>1 DEF RouteMoves, pathVars
<1>2. ASSUME NEW b \in BOOLEAN, SetPaused(b)
      PROVE  NetType'
  BY <1>2, Zenon DEF SetPaused, netVars, pathVars
<1>3. ASSUME NEW s \in Slot, NEW t \in TTL, ProbeAndSend(s, t)
      PROVE  NetType'
  <2>1. lost' = lost \/ (lost < MaxLost /\ lost' = lost + 1)
    BY <1>3 DEF ProbeAndSend
  <2>2. lost' \in 0..MaxLost
    BY <2>1
  <2>3. QED
    BY <1>3, <2>2 DEF ProbeAndSend, pathVars
<1>4. ASSUME NEW M, Sweep(M)
      PROVE  NetType'
  <2>1. SweepMax \in Nat
    BY DEF SweepMax, PathInv
  <2>2. IsFiniteSet(1..SweepMax)
    BY <2>1, FS_Interval
  <2>3. IsFiniteSet(M) /\ Cardinality(M) \in Nat
    BY <1>4, <2>2, FS_Subset, FS_CardinalityType DEF Sweep
  <2>4. lost' \in 0..MaxLost
    BY <1>4, <2>3 DEF Sweep
  <2>5. sweepState' \in {"idle", "sent", "applying"}
    BY <1>4 DEF Sweep
  <2>6. UNCHANGED <<changes, maxSeen, finalHopOnly, paused>>
    BY <1>4 DEF Sweep, pathVars
  <2>7. QED
    BY <2>4, <2>5, <2>6, Zenon
\* A result comes from a TTL that is probed.
<1>5. ASSUME NEW r \in Sighted, ApplyProbeResult(r)
      PROVE  maxSeen' \in 0..MaxHops
  BY <1>5 DEF ApplyProbeResult, Sighted, TTL
<1>6. ASSUME NEW s \in Slot, ReduceProbe(s)
      PROVE  NetType'
  <2>1. ping[s] \in Sighted /\ ApplyProbeResult(ping[s])
    BY <1>6 DEF ReduceProbe, PathInv
  <2>2. maxSeen' \in 0..MaxHops
    BY <1>5, <2>1
  <2>3. QED
    BY <1>6, <2>2 DEF ReduceProbe, netVars
<1>7. CASE ReduceSweep
  <2>1. sweep \in Seq(Sighted) /\ sweep # <<>>
    BY <1>7 DEF ReduceSweep, PathInv
  <2>2. Head(sweep) \in Sighted /\ ApplyProbeResult(Head(sweep))
    BY <1>7, <2>1 DEF ReduceSweep
  <2>3. maxSeen' \in 0..MaxHops
    BY <1>5, <2>2
  <2>4. sweepState' \in {"idle", "sent", "applying"}
    BY <1>7 DEF ReduceSweep
  <2>5. UNCHANGED <<changes, lost, finalHopOnly, paused>>
    BY <1>7 DEF ReduceSweep, netVars
  <2>6. QED
    BY <2>3, <2>4, <2>5, Zenon
<1>8. CASE UNCHANGED vars
  BY <1>8 DEF vars, netVars, pathVars
<1>9. QED
  BY <1>1, <1>2, <1>3, <1>4, <1>6, <1>7, <1>8 DEF Next

(* Whatever the network does, the monitor probes and shows only distances    *)
(* within MaxHops and addresses of the network, and its ring of candidates   *)
(* keeps to its capacity.                                                    *)
THEOREM PathStaysInRange == Spec => []TypeOK
<1>1. Init => NetType
  <2>1. 0 \in 0..MaxChanges /\ 0 \in 0..MaxLost /\ 0 \in 0..MaxHops
    OBVIOUS
  <2>2. QED
    BY <2>1, Zenon DEF Init, NetType
<1>2. PathInv /\ PathAgrees /\ NetType => TypeOK
  <2> SUFFICES ASSUME PathInv, PathAgrees, NetType
               PROVE  TypeOK
    OBVIOUS
  <2>1. Elsewhere \subseteq Addr \cup {None}
    BY DEF Elsewhere
  <2>2. \A t \in TTL : cand[t] \in Seq(Addr \cup {None}) /\ Len(cand[t]) <= CandidatesCap
    <3>1. \A q \in Seq(Elsewhere) : q \in Seq(Addr \cup {None})
      BY <2>1
    <3>2. QED
      BY <3>1 DEF PathInv, PathAgrees
  <2>3. cur \in [TTL -> Addr \cup {None}] /\ recorded \in [TTL -> Addr \cup {None}]
    BY <2>1 DEF PathInv
  <2>4. ASSUME NEW s \in Slot
        PROVE  ping[s].ttl \in 0..MaxHops /\ ping[s].kind \in Kind
    <3>1. ping[s] \in Sighted \/ ping[s] = Free
      BY DEF PathInv
    <3>2. QED
      BY <3>1 DEF Sighted, Free, Kind, TTL
  <2>5. QED
    BY <2>2, <2>3, <2>4 DEF PathInv, NetType, TypeOK
<1>3. QED
  BY <1>1, <1>2, NetTypeStep, AgreesInit, AgreesStep, PathInit, PathStep, PTL DEF Spec
=============================================================================
