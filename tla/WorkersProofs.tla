---------------------------- MODULE WorkersProofs ----------------------------
(* Theorems about the periodic workers of the central, the bandwidth runner  *)
(* and the reverse-DNS worker, for every value of their constants.           *)
EXTENDS MCWorkers, FiniteSetTheorems, TLAPS

USE BandwidthAssumption, WorkersAssumption

-----------------------------------------------------------------------------
(* Bandwidth: the settings.                                                  *)

LEMMA SettingsInit == Init => SettingsInv
BY DEF Init, SettingsInv, Default, Config

LEMMA OverlaidType ==
  ASSUME SettingsInv, NEW fields \in SUBSET Field, NEW to \in BOOLEAN
  PROVE  /\ Overlaid(fields, to) \in Config
         /\ \A f \in Field \ fields : Overlaid(fields, to)[f] = stored[f]
BY DEF SettingsInv, Overlaid, Config

(* The scheduler leaves table and PATCH alone; it only takes what waits in   *)
(* the channel.                                                              *)
LEMMA SettingsScheduler ==
  ASSUME SettingsInv, Plans \/ Select \/ EndsTest \/ HandleBandwidthRun \/ Tick
  PROVE  SettingsInv'
<1>p. UNCHANGED <<stored, ppc, pcfg, ptodo, mixed>>
  BY DEF Plans, Plan, Select, TakeConfig, TakeManual, TimerFires, Execute, EndsTest, EndTest,
         HandleBandwidthRun, Tick, patchVars
<1>1. CASE TakeConfig
  <2>1. cfg' \in channel /\ channel' = {}
    BY <1>1 DEF TakeConfig
  <2>2. cfg' \in Config /\ (~mixed /\ ppc = "idle" => cfg' = stored)
    BY <2>1 DEF SettingsInv
  <2>3. QED
    BY <1>p, <2>1, <2>2 DEF SettingsInv
<1>2. CASE ~TakeConfig
  <2>1. UNCHANGED <<cfg, channel>>
    BY <1>2 DEF Plans, Plan, Select, TakeManual, TimerFires, Execute, EndsTest, EndTest,
                HandleBandwidthRun, Tick
  <2>2. QED
    BY <1>p, <2>1 DEF SettingsInv
<1>3. QED
  BY <1>1, <1>2

(* The steps of a PATCH, and another one meanwhile.                          *)
LEMMA SettingsPatch ==
  ASSUME SettingsInv,
         \/ \E fields \in SUBSET Field, to \in BOOLEAN :
              LoadConfig(fields, to) \/ PatchMeanwhile(fields, to)
         \/ (\E f \in Field : SetConfig(f)) \/ SetConfigFails
         \/ ReconfigureDrain \/ ReconfigureSend
  PROVE  SettingsInv'
<1>c. UNCHANGED cfg
  BY DEF LoadConfig, PatchMeanwhile, SetConfig, SetConfigFails, ReconfigureDrain, ReconfigureSend,
         KeepSched, schedVars
<1>1. CASE \E fields \in SUBSET Field, to \in BOOLEAN : LoadConfig(fields, to)
  <2>1. PICK fields \in SUBSET Field, to \in BOOLEAN : LoadConfig(fields, to)
    BY <1>1
  <2>2. /\ ppc' = "write" /\ ptodo' = fields /\ pcfg' = Overlaid(fields, to) /\ mixed' = FALSE
        /\ UNCHANGED <<stored, channel, cfg>>
    BY <1>c, <2>1 DEF LoadConfig
  <2>3. pcfg' \in Config /\ \A f \in Field \ fields : pcfg'[f] = stored[f]
    BY <2>2, OverlaidType
  <2>4. QED
    BY <2>2, <2>3 DEF SettingsInv
<1>2. CASE \E fields \in SUBSET Field, to \in BOOLEAN : PatchMeanwhile(fields, to)
  <2>1. PICK fields \in SUBSET Field, to \in BOOLEAN : PatchMeanwhile(fields, to)
    BY <1>2
  <2>2. QED
    BY <1>c, <2>1, OverlaidType DEF SettingsInv, PatchMeanwhile
<1>3. CASE \E f \in Field : SetConfig(f)
  <2>1. PICK f \in Field : SetConfig(f)
    BY <1>3
  <2>2. /\ stored' \in Config /\ stored'[f] = pcfg[f]
        /\ \A g \in Field \ {f} : stored'[g] = stored[g]
    BY <2>1 DEF SetConfig, SettingsInv, Config
  <2>3. QED
    BY <1>c, <2>1, <2>2 DEF SettingsInv, SetConfig
<1>4. CASE SetConfigFails
  BY <1>4, <1>c DEF SettingsInv, SetConfigFails, Default, Config
<1>5. CASE ReconfigureDrain
  BY <1>5, <1>c DEF SettingsInv, ReconfigureDrain
<1>6. CASE ReconfigureSend
  <2>1. ~mixed => pcfg = stored
    BY <1>6 DEF ReconfigureSend, SettingsInv, Config
  <2>2. Default \in Config
    BY DEF Default, Config
  <2>3. QED
    BY <1>6, <1>c, <2>1, <2>2 DEF SettingsInv, ReconfigureSend
<1>7. QED
  BY <1>1, <1>2, <1>3, <1>4, <1>5, <1>6

LEMMA SettingsStep == SettingsInv /\ [Next]_vars => SettingsInv'
<1> SUFFICES ASSUME SettingsInv, [Next]_vars
             PROVE  SettingsInv'
  OBVIOUS
<1>1. CASE Restart
  BY <1>1 DEF SettingsInv, Restart, Default, Config
<1>2. CASE UNCHANGED vars
  BY <1>2 DEF SettingsInv, vars, schedVars, patchVars
<1>3. QED
  BY <1>1, <1>2, SettingsScheduler, SettingsPatch DEF Next

(* The runner works with the settings that are stored, once no PATCH is in   *)
(* progress or waiting, unless PATCHes overlapped or a row could not be      *)
(* written (handleBandwidthConfigPatch, Reconfigure), for any schedule and   *)
(* any number of restarts.                                                   *)
THEOREM RunnerFollowsStore == Spec => []SettingsTakeEffect
<1>1. SettingsInv => SettingsTakeEffect
  BY DEF SettingsInv, SettingsTakeEffect
<1>2. QED
  BY <1>1, SettingsInit, SettingsStep, PTL DEF Spec

-----------------------------------------------------------------------------
(* Bandwidth: the timer.                                                     *)

LEMMA OldType == Old \in Nat /\ Old >= Interval /\ Old >= Period /\ NoTimer \in Int /\ NoTimer < 0
BY DEF Old, NoTimer

LEMMA ArmedInit == Init => ArmedInv
BY OldType DEF Init, ArmedInv

(* The timer that Plan sets.                                                 *)
LEMMA ArmedPlan ==
  ASSUME ArmedInv, NEW found \in BOOLEAN, Plan(found)
  PROVE  ArmedInv'
<1> DEFINE t == NextRun(found)
<1>1. \/ t = NoTimer
      \/ t \in Nat /\ (attempt > phase \/ attempt + t >= Interval \/ t = Period - phase)
  <2>1. CASE cfg["interval"] /\ found
    <3>1. t = AtLeast1(Interval - Least(attempt, latest))
      BY <2>1 DEF NextRun, NextIntervalRun
    <3>2. Least(attempt, latest) \in Nat /\ Least(attempt, latest) <= attempt
      BY OldType DEF Least, ArmedInv
    <3>3. t \in Nat /\ attempt + t >= Interval
      BY <3>1, <3>2, OldType DEF AtLeast1, ArmedInv
    <3>4. QED
      BY <3>3
  <2>2. CASE cfg["interval"] /\ ~found
    BY <2>2 DEF NextRun
  <2>3. CASE ~cfg["interval"]
    BY <2>3 DEF NextRun, NextScheduled, Missed, ArmedInv
  <2>4. QED
    BY <2>1, <2>2, <2>3
<1>2. timer' \in {NoTimer, t} /\ UNCHANGED <<phase, attempt, latest>>
  BY DEF Plan
<1>3. QED
  BY <1>1, <1>2, OldType DEF ArmedInv

(* A tick brings the slot, the end of the interval, or the timer nearer.     *)
LEMMA ArmedTick ==
  ASSUME ArmedInv, Tick
  PROVE  ArmedInv'
<1>1. /\ phase' \in 0..Period - 1 /\ (phase' = phase + 1 \/ (phase' = 0 /\ phase = Period - 1))
  BY DEF Tick, ArmedInv
<1>2. /\ attempt' \in 0..Old /\ latest' \in 0..Old
      /\ attempt' = attempt + 1 \/ (attempt' = Old /\ attempt = Old)
      /\ attempt' > 0
  BY OldType DEF Tick, ArmedInv, Aged
<1>3. ASSUME run' = "select", timer' # NoTimer
      PROVE  /\ timer' \in Nat
             /\ attempt' > phase' \/ attempt' + timer' >= Interval \/ timer' = Period - phase'
  <2>1. run = "select" /\ timer # NoTimer
    BY <1>3, OldType DEF Tick
  <2>2. timer \in Nat /\ timer' = (IF timer > 0 THEN timer - 1 ELSE 0)
    BY <2>1 DEF ArmedInv, Tick
  <2>d. \/ attempt' = attempt + 1
        \/ attempt' = attempt /\ attempt = Old
    BY <1>2
  <2>e. timer \in Nat /\ timer' \in Nat /\ (timer' = timer - 1 \/ (timer = 0 /\ timer' = 0))
    BY <2>2
  <2>t. /\ timer' \in Nat /\ timer \in Int /\ Interval \in Int /\ Period \in Int /\ phase \in Int /\ phase' \in Int /\ attempt \in Int /\ attempt' \in Int
        /\ phase' < Period /\ Old \in Int /\ Old >= Period /\ Old >= Interval
    BY <2>2, <1>1, <1>2, OldType DEF ArmedInv
  <2>3. CASE attempt > phase
    <3>1. attempt' > phase'
      BY <2>3, <2>t, <1>1, <1>2
    <3>2. QED
      BY <3>1, <2>t
  <2>4. CASE attempt + timer >= Interval
    <3>1. attempt' + timer' >= Interval
      <4>1. ASSUME NEW a \in Int, NEW b \in Int, NEW t \in Nat, NEW u \in Nat, NEW o \in Int,
                   b = a + 1 \/ (b = a /\ a = o), u = t - 1 \/ (t = 0 /\ u = 0),
                   a + t >= Interval, o >= Interval
            PROVE  b + u >= Interval
        BY <4>1
      <4>2. QED
        BY <4>1, <2>4, <2>d, <2>e, <2>t
    <3>2. QED
      BY <3>1, <2>t
  <2>5. CASE timer = Period - phase
    <3>1. attempt' > phase' \/ timer' = Period - phase'
      <4>1. timer' = timer - 1
        BY <2>5, <2>e, <1>1 DEF ArmedInv
      <4>2. CASE phase' = phase + 1
        BY <4>1, <4>2, <2>5, <2>t
      <4>3. CASE phase' = 0
        BY <4>3, <2>t, <1>2
      <4>4. QED
        BY <4>2, <4>3, <1>1
    <3>2. QED
      BY <3>1, <2>t
  <2>6. QED
    BY <2>1, <2>3, <2>4, <2>5 DEF ArmedInv
<1>4. QED
  BY <1>1, <1>2, <1>3 DEF ArmedInv

LEMMA ArmedStep == ArmedInv /\ [Next]_vars => ArmedInv'
<1> SUFFICES ASSUME ArmedInv, [Next]_vars
             PROVE  ArmedInv'
  OBVIOUS
<1>1. CASE Plans
  BY <1>1, ArmedPlan DEF Plans
<1>2. CASE Tick
  BY <1>2, ArmedTick
<1>3. CASE Select
  <2>1. run' # "select" /\ phase' = phase /\ latest' = latest /\ attempt' \in {attempt, 0}
    BY <1>3 DEF Select, TakeConfig, TakeManual, TimerFires, Execute
  <2>2. QED
    BY <2>1, OldType DEF ArmedInv
<1>4. CASE EndsTest
  <2>1. run' # "select" /\ phase' = phase /\ attempt' = attempt /\ latest' \in {latest, attempt}
    BY <1>4 DEF EndsTest, EndTest, RecordBandwidthSample
  <2>2. QED
    BY <2>1 DEF ArmedInv
<1>5. CASE Restart
  BY <1>5, OldType DEF Restart, ArmedInv
<1>6. CASE UNCHANGED <<phase, attempt, latest, run, timer>>
  BY <1>6 DEF ArmedInv
<1>7. \/ Plans \/ Tick \/ Select \/ EndsTest \/ Restart
      \/ UNCHANGED <<phase, attempt, latest, run, timer>>
  BY DEF Next, vars, HandleBandwidthRun, LoadConfig, PatchMeanwhile, SetConfig, SetConfigFails,
         ReconfigureDrain, ReconfigureSend, KeepSched, schedVars
<1>8. QED
  BY <1>1, <1>2, <1>3, <1>4, <1>5, <1>6, <1>7

(* The schedule never runs away (nextRun): whatever samples are missing and  *)
(* whatever lookups fail, the timer starts a test only an interval after the *)
(* last attempt, or when there was none since the last slot.                 *)
THEOREM ScheduleHolds == Spec => NoRunaway
<1>1. ASSUME ArmedInv, [Next]_vars, run' = "test", run # "test", byTimer'
      PROVE  attempt >= Interval \/ attempt > phase
  <2>1. TimerFires
    <3>1. TakeManual \/ TimerFires
      BY <1>1 DEF Next, vars, schedVars, Plans, Plan, Select, TakeConfig, EndsTest, EndTest,
                  HandleBandwidthRun, Tick, Restart, LoadConfig, PatchMeanwhile, SetConfig,
                  SetConfigFails, ReconfigureDrain, ReconfigureSend, KeepSched
    <3>2. ~TakeManual
      BY <1>1 DEF TakeManual, Execute
    <3>3. QED
      BY <3>1, <3>2
  <2>2. run = "select" /\ timer = 0
    BY <2>1 DEF TimerFires, Execute
  <2>3. QED
    BY <1>1, <2>2, OldType DEF ArmedInv
<1>2. ArmedInv /\ [Next]_vars =>
        [run' = "test" /\ run # "test" /\ byTimer' => attempt >= Interval \/ attempt > phase]_vars
  BY <1>1
<1>3. QED
  BY <1>2, ArmedInit, ArmedStep, PTL DEF Spec, NoRunaway

(* What the invariants above leave open of the ranges.                       *)
TimerType ==
  /\ run \in {"plan", "select", "test", "off"} /\ timer \in {NoTimer} \cup 0..Old + CatchUp
  /\ byTimer \in BOOLEAN /\ manual \in BOOLEAN /\ restarts \in 0..MaxRestarts

(* No plan arms the timer for longer than the ages go.                       *)
LEMMA PlanBounded ==
  ASSUME ArmedInv, NEW found \in BOOLEAN
  PROVE  NextRun(found) \in {NoTimer} \cup 0..Old + CatchUp
<1>1. Least(attempt, latest) \in Nat
  BY OldType DEF Least, ArmedInv
<1>2. NextIntervalRun \in 0..Old + CatchUp
  BY <1>1, OldType DEF NextIntervalRun, AtLeast1
<1>3. NextScheduled \in 0..Old + CatchUp
  BY OldType DEF NextScheduled, ArmedInv
<1>4. CatchUp \in 0..Old + CatchUp
  BY OldType
<1>5. QED
  BY <1>2, <1>3, <1>4, Zenon DEF NextRun

LEMMA TimerStep ==
  ASSUME ArmedInv, TimerType, [Next]_vars
  PROVE  TimerType'
<1> USE DEF TimerType
<1>t. NoTimer' = NoTimer /\ Old' = Old
  OBVIOUS
<1>1. ASSUME NEW found \in BOOLEAN, Plan(found)
      PROVE  TimerType'
  <2>1. timer' \in {NoTimer} \cup 0..Old + CatchUp
    BY <1>1, PlanBounded DEF Plan
  <2>2. run' = "select" /\ UNCHANGED <<byTimer, manual, restarts>>
    BY <1>1 DEF Plan
  <2>3. QED
    BY <2>1, <2>2, Zenon
<1>2. CASE TakeConfig
  <2>1. run' = "plan" /\ timer' = NoTimer /\ UNCHANGED <<byTimer, manual, restarts>>
    BY <1>2 DEF TakeConfig
  <2>2. QED
    BY <2>1, Zenon
<1>3. CASE TakeManual \/ TimerFires
  <2>1. run' = "test" /\ timer' = NoTimer /\ byTimer' \in BOOLEAN /\ manual' \in BOOLEAN
        /\ restarts' = restarts
    BY <1>3, Zenon DEF TakeManual, TimerFires, Execute
  <2>2. QED
    BY <2>1, Zenon
<1>4. ASSUME NEW recorded \in BOOLEAN, EndTest(recorded)
      PROVE  TimerType'
  <2>1. run' = "plan" /\ byTimer' = FALSE /\ UNCHANGED <<timer, manual, restarts>>
    BY <1>4 DEF EndTest
  <2>2. QED
    BY <2>1, Zenon
<1>5. CASE HandleBandwidthRun
  BY <1>5, Zenon DEF HandleBandwidthRun, RunNow, patchVars
<1>6. CASE Tick
  <2>1. timer' = IF timer > 0 THEN timer - 1 ELSE timer
    BY <1>6 DEF Tick
  <2>2. timer' \in {NoTimer} \cup 0..Old + CatchUp
    BY <2>1, OldType
  <2>3. UNCHANGED <<run, byTimer, manual, restarts>>
    BY <1>6 DEF Tick
  <2>4. QED
    BY <2>2, <2>3, Zenon
<1>7. CASE Restart
  <2>1. restarts' \in 0..MaxRestarts
    BY <1>7 DEF Restart
  <2>2. run' \in {"plan", "off"} /\ timer' = NoTimer /\ byTimer' = FALSE /\ manual' = FALSE
    BY <1>7 DEF Restart
  <2>3. QED
    BY <2>1, <2>2, Zenon
<1>8. CASE UNCHANGED <<run, timer, byTimer, manual, restarts>>
  BY <1>8, Zenon
<1>9. \/ Plans \/ Select \/ EndsTest \/ HandleBandwidthRun \/ Tick \/ Restart
      \/ UNCHANGED <<run, timer, byTimer, manual, restarts>>
  BY DEF Next, vars, LoadConfig, PatchMeanwhile, SetConfig, SetConfigFails,
         ReconfigureDrain, ReconfigureSend, KeepSched, schedVars
<1>10. QED
  BY <1>1, <1>2, <1>3, <1>4, <1>5, <1>6, <1>7, <1>8, <1>9 DEF Plans, Select, EndsTest

(* The runner waits no longer than the longer of slot and interval and the   *)
(* catch-up delay (nextRun), and what waits in channel and table is a config *)
(* throughout, whatever fails and however often the daemon is restarted.     *)
THEOREM TimerIsBounded == Spec => []TypeOK
<1>1. Init => TimerType
  <2>1. 0 \in 0..MaxRestarts
    OBVIOUS
  <2>2. QED
    BY <2>1, Zenon DEF Init, TimerType
<1>2. SettingsInv /\ ArmedInv /\ TimerType => TypeOK
  BY Zenon DEF SettingsInv, ArmedInv, TimerType, TypeOK
<1>3. QED
  BY <1>1, <1>2, SettingsInit, SettingsStep, ArmedInit, ArmedStep, TimerStep, PTL DEF Spec

-----------------------------------------------------------------------------
(* Rdns.                                                                     *)

(* An instance has its own copy of the operators it extends.                 *)
LEMMA RdnsCard ==
  /\ \A S : Resolver!IsFiniteSet(S) <=> IsFiniteSet(S)
  /\ \A S : Resolver!Cardinality(S) = Cardinality(S)
<1>1. \A S : Resolver!IsFiniteSet(S) <=> IsFiniteSet(S)
  BY DEF Resolver!IsFiniteSet, IsFiniteSet
<1>2. \A S : Resolver!Cardinality(S) = Cardinality(S)
  BY DEF Resolver!Cardinality, Cardinality
<1>3. QED
  BY <1>1, <1>2

LEMMA MaxOfTwo ==
  ASSUME NEW a \in Nat, NEW b \in Nat
  PROVE  Resolver!Max({a, b}) = IF a >= b THEN a ELSE b
BY DEF Resolver!Max

(* A bounded set of rowids has a highest one.                                *)
LEMMA HighestRow ==
  ASSUME NEW n \in Nat, NEW S \in SUBSET (1..n), S # {}
  PROVE  Resolver!Max(S) \in S /\ \A y \in S : Resolver!Max(S) >= y
<1> DEFINE T == {n - v : v \in S}
           R == OpToRel(<, Nat)
<1>0. \A v \in S : v \in Nat /\ v <= n /\ n - v \in Nat
  OBVIOUS
<1>1. T \subseteq Nat /\ T # {}
  BY <1>0
<1>2. IsWellFoundedOn(R, Nat)
  BY NatLessThanWellFounded
<1>3. PICK x \in T : \A y \in T : ~(<<y, x>> \in R)
  <2> HIDE DEF T, R
  <2> QED BY <1>1, <1>2, WFMin
<1>4. \A y \in T : ~(y < x)
  BY <1>1, <1>3 DEF OpToRel
<1>5. PICK m \in S : x = n - m
  BY <1>3
<1>6. \A y \in S : m >= y
  <2>1. TAKE y \in S
  <2>2. n - y \in T /\ ~(n - y < n - m)
    BY <1>4, <1>5
  <2>3. QED
    BY <2>2, <1>0, <1>5
<1>7. QED
  BY <1>5, <1>6 DEF Resolver!Max

LEMMA MinOfTwo ==
  ASSUME NEW a \in Nat, NEW b \in Nat
  PROVE  Resolver!Min({a, b}) = IF a <= b THEN a ELSE b
BY DEF Resolver!Min

(* What lacks a row in rdns is a finite set.                                 *)
LEMMA UnresolvedFinite ==
  ASSUME Resolver!RdnsType, NEW since \in Nat
  PROVE  IsFiniteSet(Resolver!Unresolved(since))
<1> DEFINE D == {q \in DOMAIN rows : q > since}
           T == {rows[r] : r \in D}
           f == [r \in D |-> rows[r]]
<1>1. IsFiniteSet(D)
  <2>1. D \in SUBSET (1..MaxRow)
    BY DEF Resolver!RdnsType
  <2>2. IsFiniteSet(1..MaxRow)
    BY FS_Interval
  <2>3. QED
    BY <2>1, <2>2, FS_Subset
<1>2. f \in Surjection(D, T)
  BY DEF Surjection
<1>3. IsFiniteSet(T)
  BY <1>1, <1>2, FS_Surjection
<1>4. Resolver!Unresolved(since) \in SUBSET T
  BY DEF Resolver!Unresolved
<1>5. QED
  BY <1>3, <1>4, FS_Subset

(* A batch that is not cut is all there is.                                  *)
LEMMA WholeBatch ==
  ASSUME Resolver!RdnsType, NEW batch \in SUBSET Resolver!Unresolved(watermark),
         Resolver!Cardinality(batch)
           = Resolver!Min({BatchSize, Resolver!Cardinality(Resolver!Unresolved(watermark))}),
         batch = {} \/ ~(Resolver!Cardinality(batch) >= BatchSize)
  PROVE  batch = Resolver!Unresolved(watermark)
<1> DEFINE U == Resolver!Unresolved(watermark)
<1>1. IsFiniteSet(U) /\ Cardinality(U) \in Nat /\ IsFiniteSet(batch) /\ Cardinality(batch) \in Nat
  BY UnresolvedFinite, FS_Subset, FS_CardinalityType DEF Resolver!RdnsType
<1>2. Cardinality(batch) = IF BatchSize <= Cardinality(U) THEN BatchSize ELSE Cardinality(U)
  BY <1>1, RdnsCard, MinOfTwo
<1>3. Cardinality(batch) < BatchSize
  BY <1>1, RdnsCard, FS_EmptySet
<1>4. Cardinality(U) = Cardinality(batch)
  BY <1>1, <1>2, <1>3
<1>5. QED
  BY <1>1, <1>4, FS_Subset

(* A row is inserted behind the watermark and the range of the cycle, or it  *)
(* is noted.                                                                 *)
LEMMA SkipInsert ==
  ASSUME Resolver!SkipInv, NEW ip \in IP, Resolver!InsertSample(ip)
  PROVE  Resolver!SkipInv'
<1> DEFINE r == Resolver!MaxRowid + 1
<1>1. /\ rows' = [q \in DOMAIN rows \cup {r} |-> IF q = r THEN ip ELSE rows[q]]
      /\ DOMAIN rows' = DOMAIN rows \cup {r} /\ r <= MaxRow
      /\ \A q \in DOMAIN rows \ {r} : rows'[q] = rows[q]
      /\ UNCHANGED <<rdns, watermark, wpc, scanMax, todo, clipped>>
  BY DEF Resolver!InsertSample, Resolver!rvars
<1>2. r \in Nat \ {0}
  <2>1. CASE DOMAIN rows = {}
    BY <2>1 DEF Resolver!MaxRowid
  <2>2. CASE DOMAIN rows # {}
    BY <2>2, HighestRow DEF Resolver!MaxRowid, Resolver!SkipInv, Resolver!RdnsType
  <2>3. QED
    BY <2>1, <2>2
<1>3. \/ r \in behind' /\ behind' = behind \cup {r}
      \/ r > watermark /\ r > scanMax /\ behind' = behind
  <2>1. behind' = IF r <= Resolver!Max({watermark, scanMax}) THEN behind \cup {r} ELSE behind
    BY DEF Resolver!InsertSample
  <2>2. /\ watermark \in Nat /\ scanMax \in Nat
        /\ Resolver!Max({watermark, scanMax}) = IF watermark >= scanMax THEN watermark ELSE scanMax
    BY MaxOfTwo DEF Resolver!SkipInv, Resolver!RdnsType
  <2> HIDE DEF r
  <2>3. QED
    BY <1>2, <2>1, <2>2
<1>4. \A q \in DOMAIN rows' \ behind' :
        (q <= watermark \/ q <= scanMax) => q \in DOMAIN rows \ behind /\ rows'[q] = rows[q]
  BY <1>1, <1>2, <1>3 DEF Resolver!SkipInv, Resolver!RdnsType
<1>5. Resolver!RdnsType'
  BY <1>1, <1>2 DEF Resolver!SkipInv, Resolver!RdnsType
<1>6. Resolver!NothingSkipped'
  BY <1>1, <1>4 DEF Resolver!SkipInv, Resolver!NothingSkipped
<1>7. QED
  BY <1>1, <1>4, <1>5, <1>6 DEF Resolver!SkipInv

LEMMA SkipDelete ==
  ASSUME Resolver!SkipInv, NEW D \in SUBSET DOMAIN rows, Resolver!DeleteSamples(D)
  PROVE  Resolver!SkipInv'
<1>1. /\ rows' = [r \in DOMAIN rows \ D |-> rows[r]] /\ behind' = behind \ D
      /\ UNCHANGED <<rdns, watermark, wpc, scanMax, todo, clipped>>
  BY DEF Resolver!DeleteSamples, Resolver!Restrict, Resolver!rvars
<1>2. /\ DOMAIN rows' \ behind' \subseteq DOMAIN rows \ behind
      /\ \A r \in DOMAIN rows' : rows'[r] = rows[r]
  BY <1>1
<1>3. QED
  BY <1>1, <1>2 DEF Resolver!SkipInv, Resolver!RdnsType, Resolver!NothingSkipped

LEMMA SkipScan ==
  ASSUME Resolver!SkipInv, NEW batch, Resolver!Scan(batch)
  PROVE  Resolver!SkipInv'
<1> DEFINE U == Resolver!Unresolved(watermark)
<1>1. /\ batch \subseteq U /\ UNCHANGED <<rows, rdns, behind>>
      /\ Resolver!Cardinality(batch) = Resolver!Min({BatchSize, Resolver!Cardinality(U)})
  BY DEF Resolver!Scan
<1>2. ASSUME batch = U, NEW r \in DOMAIN rows \ behind
      PROVE  rows[r] \in rdns \cup batch
  <2>1. r \in Int /\ watermark \in Int
    BY DEF Resolver!SkipInv, Resolver!RdnsType
  <2>2. CASE r <= watermark
    BY <2>2 DEF Resolver!SkipInv, Resolver!NothingSkipped
  <2>3. CASE r > watermark
    BY <1>2, <2>3 DEF Resolver!Unresolved
  <2>4. QED
    BY <2>1, <2>2, <2>3
<1>3. CASE batch = {}
  <2>1. batch = U
    BY <1>1, <1>3, WholeBatch DEF Resolver!SkipInv
  <2>2. watermark' = scanMax /\ scanMax' = 0 /\ wpc' = "idle"
    BY <1>3 DEF Resolver!Scan, Resolver!Advance, Resolver!End
  <2>3. QED
    BY <1>1, <1>2, <1>3, <2>1, <2>2
       DEF Resolver!SkipInv, Resolver!RdnsType, Resolver!NothingSkipped
<1>4. CASE batch # {}
  <2>1. /\ todo' = batch /\ clipped' = (Resolver!Cardinality(batch) >= BatchSize)
        /\ UNCHANGED <<scanMax, watermark>>
    BY <1>4 DEF Resolver!Scan
  <2>2. ~clipped' => batch = U
    BY <1>1, <2>1, WholeBatch DEF Resolver!SkipInv
  <2>3. QED
    BY <1>1, <1>2, <2>1, <2>2 DEF Resolver!SkipInv, Resolver!RdnsType, Resolver!NothingSkipped
<1>5. QED
  BY <1>3, <1>4

LEMMA SkipResolve ==
  ASSUME Resolver!SkipInv, NEW F, Resolver!Resolve(F)
  PROVE  Resolver!SkipInv'
<1>1. /\ wpc = "batch" /\ rdns' = rdns \cup (todo \ F) /\ UNCHANGED <<rows, behind>>
      /\ scanMax' = 0 /\ wpc' = "idle"
      /\ IF ~clipped /\ F = {} THEN watermark' = scanMax ELSE watermark' = watermark
  BY DEF Resolver!Resolve, Resolver!UpsertRDNS, Resolver!End, Resolver!Covered, Resolver!Advance
<1>2. QED
  BY <1>1 DEF Resolver!SkipInv, Resolver!RdnsType, Resolver!NothingSkipped

LEMMA SkipStep == Resolver!SkipInv /\ [Resolver!Next]_(Resolver!vars) => Resolver!SkipInv'
<1> SUFFICES ASSUME Resolver!SkipInv, [Resolver!Next]_(Resolver!vars)
             PROVE  Resolver!SkipInv'
  OBVIOUS
<1>1. CASE Resolver!ReadMax
  <2>1. Resolver!MaxRowid \in Nat
    <3>1. CASE DOMAIN rows = {}
      BY <3>1 DEF Resolver!MaxRowid
    <3>2. CASE DOMAIN rows # {}
      BY <3>2, HighestRow DEF Resolver!MaxRowid, Resolver!SkipInv, Resolver!RdnsType
    <3>3. QED
      BY <3>1, <3>2
  <2>2. QED
    BY <1>1, <2>1 DEF Resolver!ReadMax, Resolver!SkipInv, Resolver!RdnsType, Resolver!NothingSkipped
<1>2. CASE Resolver!CycleFails \/ Resolver!Restart
  BY <1>2 DEF Resolver!CycleFails, Resolver!Restart, Resolver!End, Resolver!SkipInv,
              Resolver!RdnsType, Resolver!NothingSkipped
<1>3. CASE UNCHANGED Resolver!vars
  BY <1>3 DEF Resolver!vars, Resolver!rvars, Resolver!SkipInv, Resolver!RdnsType,
              Resolver!NothingSkipped
<1>4. QED
  BY <1>1, <1>2, <1>3, SkipInsert, SkipDelete, SkipScan, SkipResolve DEF Resolver!Next

(* The watermark passes no address that was never tried (UnresolvedIPs,      *)
(* runOnce), for any batch size and any order of inserts, deletions, failed  *)
(* upserts and restarts, but for the rows that were given the number of a    *)
(* deleted one.                                                              *)
THEOREM WatermarkIsHonest == Resolver!Spec => []NothingSkipped
<1>1. Resolver!Init => Resolver!SkipInv
  BY DEF Resolver!Init, Resolver!SkipInv, Resolver!RdnsType, Resolver!NothingSkipped
<1>2. Resolver!SkipInv => NothingSkipped
  BY DEF Resolver!SkipInv, NothingSkipped
<1>3. QED
  BY <1>1, <1>2, SkipStep, PTL DEF Resolver!Spec

(* A batch is cut to its size.                                               *)
LEMMA BatchBounded ==
  ASSUME Resolver!RdnsType, NEW batch,
         batch \subseteq Resolver!Unresolved(watermark),
         Resolver!Cardinality(batch)
           = Resolver!Min({BatchSize, Resolver!Cardinality(Resolver!Unresolved(watermark))})
  PROVE  Resolver!Cardinality(batch) <= BatchSize
<1> DEFINE U == Resolver!Unresolved(watermark)
<1>1. IsFiniteSet(U) /\ Cardinality(U) \in Nat
  BY UnresolvedFinite, FS_CardinalityType DEF Resolver!RdnsType
<1>2. Cardinality(batch) = IF BatchSize <= Cardinality(U) THEN BatchSize ELSE Cardinality(U)
  BY <1>1, RdnsCard, MinOfTwo
<1>3. QED
  BY <1>1, <1>2, RdnsCard

LEMMA NoBatch == Resolver!Cardinality({}) <= BatchSize
BY RdnsCard, FS_EmptySet

LEMMA HighestInRange ==
  ASSUME Resolver!RdnsType
  PROVE  Resolver!MaxRowid \in 0..MaxRow
<1>1. CASE DOMAIN rows = {}
  BY <1>1 DEF Resolver!MaxRowid
<1>2. CASE DOMAIN rows # {}
  BY <1>2, HighestRow DEF Resolver!MaxRowid, Resolver!RdnsType
<1>3. QED
  BY <1>1, <1>2

LEMMA BatchStep ==
  ASSUME Resolver!SkipInv, Resolver!TypeOK, [Resolver!Next]_(Resolver!vars)
  PROVE  Resolver!TypeOK'
<1> USE DEF Resolver!TypeOK
<1>e. ASSUME Resolver!End
      PROVE  /\ wpc' \in {"idle", "scan", "batch"} /\ scanMax' \in 0..MaxRow /\ todo' \subseteq IP
             /\ Resolver!Cardinality(todo') <= BatchSize /\ clipped' \in BOOLEAN
  <2>1. wpc' = "idle" /\ scanMax' = 0 /\ todo' = {} /\ clipped' = FALSE
    BY <1>e DEF Resolver!End
  <2>2. 0 \in 0..MaxRow /\ Resolver!Cardinality(todo') <= BatchSize
    BY <2>1, NoBatch
  <2>3. QED
    BY <2>1, <2>2, Zenon
<1>1. ASSUME NEW ip \in IP, Resolver!InsertSample(ip)
      PROVE  Resolver!TypeOK'
  <2> DEFINE r == Resolver!MaxRowid + 1
  <2>1. r \in 1..MaxRow
    <3>1. Resolver!MaxRowid \in 0..MaxRow
      BY HighestInRange DEF Resolver!SkipInv
    <3>2. r <= MaxRow
      BY <1>1 DEF Resolver!InsertSample
    <3>3. QED
      BY <3>1, <3>2
  <2>2. /\ rows' = [q \in DOMAIN rows \cup {r} |-> IF q = r THEN ip ELSE rows[q]]
        /\ behind' \in {behind, behind \cup {r}}
        /\ UNCHANGED <<rdns, watermark, wpc, scanMax, todo, clipped>>
    BY <1>1 DEF Resolver!InsertSample, Resolver!rvars
  <2> HIDE DEF r
  <2>3. DOMAIN rows' \subseteq 1..MaxRow /\ \A q \in DOMAIN rows' : rows'[q] \in IP
    BY <2>1, <2>2
  <2>4. behind' \subseteq DOMAIN rows'
    BY <2>2
  <2>5. QED
    BY <2>2, <2>3, <2>4
<1>2. ASSUME NEW D \in SUBSET DOMAIN rows, Resolver!DeleteSamples(D)
      PROVE  Resolver!TypeOK'
  <2>1. /\ rows' = [q \in DOMAIN rows \ D |-> rows[q]] /\ behind' = behind \ D
        /\ UNCHANGED <<rdns, watermark, wpc, scanMax, todo, clipped>>
    BY <1>2 DEF Resolver!DeleteSamples, Resolver!Restrict, Resolver!rvars
  <2>2. QED
    BY <2>1
<1>3. CASE Resolver!ReadMax
  <2>1. scanMax' \in 0..MaxRow
    BY <1>3, HighestInRange DEF Resolver!ReadMax, Resolver!SkipInv
  <2>2. wpc' = "scan" /\ UNCHANGED <<rows, rdns, behind, watermark, todo, clipped>>
    BY <1>3 DEF Resolver!ReadMax
  <2>3. QED
    BY <2>1, <2>2
<1>4. ASSUME NEW batch \in SUBSET IP, Resolver!Scan(batch)
      PROVE  Resolver!TypeOK'
  <2>1. Resolver!Cardinality(batch) <= BatchSize
    BY <1>4, BatchBounded DEF Resolver!Scan, Resolver!SkipInv
  <2>2. UNCHANGED <<rows, rdns, behind>>
    BY <1>4 DEF Resolver!Scan
  <2>3. CASE batch = {}
    <3>1. Resolver!End /\ watermark' = scanMax
      BY <1>4, <2>3 DEF Resolver!Scan, Resolver!Advance
    <3>2. QED
      BY <1>e, <2>2, <3>1, Zenon
  <2>4. CASE batch # {}
    <3>1. /\ wpc' = "batch" /\ todo' = batch /\ UNCHANGED <<scanMax, watermark>>
          /\ clipped' = (Resolver!Cardinality(batch) >= BatchSize)
      BY <1>4, <2>4 DEF Resolver!Scan
    <3>2. clipped' \in BOOLEAN
      <4>1. CASE Resolver!Cardinality(batch) >= BatchSize
        BY <3>1, <4>1
      <4>2. CASE ~(Resolver!Cardinality(batch) >= BatchSize)
        BY <3>1, <4>2
      <4>3. QED
        BY <4>1, <4>2
    <3>3. Resolver!Cardinality(todo') <= BatchSize
      BY <2>1, <3>1, Zenon
    <3>4. QED
      BY <2>2, <3>1, <3>2, <3>3, Zenon
  <2>5. QED
    BY <2>3, <2>4
<1>5. ASSUME NEW F \in SUBSET IP, Resolver!Resolve(F)
      PROVE  Resolver!TypeOK'
  <2>1. /\ rdns' = rdns \cup (todo \ F) /\ UNCHANGED <<rows, behind>>
        /\ Resolver!End /\ watermark' \in {watermark, scanMax}
    BY <1>5 DEF Resolver!Resolve, Resolver!UpsertRDNS, Resolver!Covered, Resolver!Advance
  <2>2. rdns' \subseteq IP /\ behind' \subseteq DOMAIN rows' /\ watermark' \in 0..MaxRow
    BY <2>1
  <2>3. QED
    BY <1>e, <2>1, <2>2, Zenon
<1>6. CASE Resolver!CycleFails
  <2>1. Resolver!End /\ UNCHANGED <<rows, rdns, behind, watermark>>
    BY <1>6 DEF Resolver!CycleFails
  <2>2. QED
    BY <1>e, <2>1, Zenon
<1>7. CASE Resolver!Restart
  <2>1. /\ Resolver!End /\ UNCHANGED <<rows, rdns>> /\ behind' = {} /\ watermark' = 0
    BY <1>7 DEF Resolver!Restart
  <2>2. behind' \subseteq DOMAIN rows' /\ watermark' \in 0..MaxRow
    BY <2>1
  <2>3. QED
    BY <1>e, <2>1, <2>2, Zenon
<1>8. CASE UNCHANGED Resolver!vars
  BY <1>8 DEF Resolver!vars, Resolver!rvars
<1>9. QED
  BY <1>1, <1>2, <1>3, <1>4, <1>5, <1>6, <1>7, <1>8 DEF Resolver!Next

(* A cycle resolves no more addresses than a batch holds, and only addresses *)
(* that the table had (UnresolvedIPs, runOnce), whatever is inserted or      *)
(* deleted meanwhile.                                                        *)
THEOREM BatchesAreBounded == Resolver!Spec => []Resolver!TypeOK
<1>1. Resolver!Init => Resolver!TypeOK
  <2> SUFFICES ASSUME Resolver!Init
               PROVE  Resolver!TypeOK
    OBVIOUS
  <2>1. /\ rows = <<>> /\ rdns = {} /\ behind = {} /\ watermark = 0 /\ wpc = "idle"
        /\ scanMax = 0 /\ todo = {} /\ clipped = FALSE
    BY DEF Resolver!Init
  <2>2. 0 \in 0..MaxRow /\ DOMAIN rows = {} /\ Resolver!Cardinality(todo) <= BatchSize
    BY <2>1, NoBatch
  <2>3. DOMAIN rows \subseteq 1..MaxRow /\ \A r \in DOMAIN rows : rows[r] \in IP
    BY <2>2
  <2>4. QED
    BY <2>1, <2>2, <2>3, Zenon DEF Resolver!TypeOK
<1>2. Resolver!Init => Resolver!SkipInv
  BY DEF Resolver!Init, Resolver!SkipInv, Resolver!RdnsType, Resolver!NothingSkipped
<1>3. QED
  BY <1>1, <1>2, SkipStep, BatchStep, PTL DEF Resolver!Spec
=============================================================================
