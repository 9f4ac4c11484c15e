------------------------------ MODULE Bandwidth ------------------------------
(***************************************************************************)
(* The bandwidth runner (internal/bandwidth/runner.go) and the requests    *)
(* that configure and trigger it (internal/server/bandwidth.go): one       *)
(* scheduler goroutine, PATCH requests that overlay the stored settings,   *)
(* and the store, whose reads and writes may fail.                         *)
(*                                                                         *)
(* Time is kept as ages and remaining times, in units, so that it never    *)
(* ends: there is one scheduled slot every Period.  A sample or attempt    *)
(* older than Old counts as none at all.  The settings are the two that    *)
(* the schedule reads; what a test measures is module Derate, and the      *)
(* pausing of probes during a test is left out.                            *)
(***************************************************************************)
EXTENDS Integers

CONSTANTS
  Period,     \* time between two scheduled slots
  Interval,   \* IntervalMin
  CatchUp,    \* catchupDelay
  Failures,   \* what may fail: "lookup", "record", "row"
  MaxRestarts \* restarts of the daemon (bound)

ASSUME BandwidthAssumption ==
  /\ Period \in Nat \ {0} /\ Interval \in Nat \ {0} /\ CatchUp \in Nat \ {0}
  /\ MaxRestarts \in Nat

VARIABLES
  phase,      \* time since the last slot
  attempt,    \* age of lastAttempt
  latest,     \* age of the latest stored sample
  run,        \* Run: "plan", "select", "test", "off" (kill switch)
  timer,      \* time until the timer fires, or NoTimer
  byTimer,    \* the test was started by the timer
  cfg,        \* Runner.cfg
  stored,     \* the rows of the config table
  channel,    \* reconfigCh: the one config in it, or none
  manual,     \* manualCh holds a trigger
  ppc, pcfg,  \* the PATCH in progress: "idle", "write", "send"; its overlaid config
  ptodo,      \*   and the fields it has still to write
  mixed,      \* since the last PATCH that had the table to itself, one overlapped
              \* another or failed between two rows
  restarts    \* restarts so far

Field   == {"enabled", "interval"}
Config  == [Field -> BOOLEAN]
Old     == IF Interval > Period THEN Interval ELSE Period
NoTimer == -(Old + 1)   \* no time at all

schedVars == <<phase, attempt, latest, run, timer, byTimer, cfg, manual>>
patchVars == <<ppc, pcfg, ptodo, mixed>>
vars == <<schedVars, stored, channel, patchVars, restarts>>

Default == [f \in Field |-> FALSE]
Fails(what) == what \in Failures

Init ==
  /\ phase = 0 /\ attempt = Old /\ latest = Old /\ run \in {"plan", "off"} /\ timer = NoTimer
  /\ byTimer = FALSE /\ cfg = Default /\ stored = Default /\ channel = {} /\ manual = FALSE
  /\ ppc = "idle" /\ pcfg = Default /\ ptodo = {} /\ mixed = FALSE /\ restarts = 0

-----------------------------------------------------------------------------
(* The scheduler.                                                           *)

Least(a, b) == IF a < b THEN a ELSE b

AtLeast1(d) == IF d < 1 THEN 1 ELSE d

(* Mutant: the anchor is the stored sample alone.                           *)
NextIntervalRunStored == AtLeast1(Interval - latest)

(* The later of the last sample and the last attempt, plus the interval, no *)
(* earlier than at once.                                                    *)
NextIntervalRun == AtLeast1(Interval - Least(attempt, latest))

(* The last slot saw neither an attempt of this process nor a sample.       *)
Missed == attempt > phase /\ latest > phase

NextScheduled == Period - phase

(* Mutant: a failed lookup disarms the timer in both modes.                 *)
NextRunStrict(found) ==
  IF ~found THEN NoTimer
  ELSE IF cfg["interval"] THEN NextIntervalRun ELSE IF Missed THEN CatchUp ELSE NextScheduled

(* nextRun; the lookup of the latest sample may fail, which in interval     *)
(* mode means no timer at all.                                              *)
NextRun(found) ==
  IF cfg["interval"] THEN (IF found THEN NextIntervalRun ELSE NoTimer)
  ELSE IF found /\ Missed THEN CatchUp ELSE NextScheduled

Plan(found) ==
  /\ run = "plan" /\ run' = "select"
  /\ timer' = IF cfg["enabled"] THEN NextRun(found) ELSE NoTimer
  /\ UNCHANGED <<phase, attempt, latest, byTimer, cfg, manual, stored, channel, patchVars, restarts>>

(* The four cases of the select, but for the end of the context.            *)
TakeConfig ==
  /\ run = "select" /\ cfg' \in channel /\ channel' = {}
  /\ run' = "plan" /\ timer' = NoTimer
  /\ UNCHANGED <<phase, attempt, latest, byTimer, manual, stored, patchVars, restarts>>

(* execute begins: the attempt is noted before anything can fail.           *)
Execute(why) ==
  /\ run = "select" /\ run' = "test" /\ attempt' = 0 /\ timer' = NoTimer /\ byTimer' = why
  /\ UNCHANGED <<phase, latest, cfg, stored, channel, patchVars, restarts>>

TakeManual == manual /\ manual' = FALSE /\ Execute(FALSE)
TimerFires == timer = 0 /\ UNCHANGED manual /\ Execute(TRUE)

(* The sample is stored under the time the test started.                    *)
RecordBandwidthSample(recorded) == latest' = IF recorded THEN attempt ELSE latest

(* The test ends, well or badly, within its three minutes; the store may    *)
(* fail.                                                                    *)
EndTest(recorded) ==
  /\ run = "test" /\ run' = "plan" /\ byTimer' = FALSE
  /\ RecordBandwidthSample(recorded)
  /\ UNCHANGED <<phase, attempt, timer, cfg, manual, stored, channel, patchVars, restarts>>

(* Refused during a test, merged with a pending trigger.                    *)
RunNow == run # "test" /\ manual' = TRUE

(* POST /api/bandwidth/run: the kill switch refuses it too.                 *)
HandleBandwidthRun ==
  /\ run # "off" /\ RunNow
  /\ UNCHANGED <<phase, attempt, latest, run, timer, byTimer, cfg, stored, channel, patchVars, restarts>>

-----------------------------------------------------------------------------
(* PATCH /api/bandwidth/config, one step by step; another one may be served *)
(* as a whole between two of its steps.                                     *)

KeepSched == UNCHANGED <<schedVars, restarts>>

(* Mutant: the patch is laid over the defaults.                             *)
OverlaidDefaults(fields, to) == [f \in Field |-> f \in fields /\ to]

Overlaid(fields, to) == [f \in Field |-> IF f \in fields THEN to ELSE stored[f]]

(* LoadConfig, overlay, Validate.                                           *)
LoadConfig(fields, to) ==
  /\ ppc = "idle" /\ ppc' = "write" /\ fields # {} /\ ptodo' = fields
  /\ pcfg' = Overlaid(fields, to) /\ mixed' = FALSE
  /\ KeepSched /\ UNCHANGED <<stored, channel>>

(* SetConfig, row by row.                                                   *)
SetConfig(f) ==
  /\ ppc = "write" /\ f \in ptodo /\ ptodo' = ptodo \ {f}
  /\ stored' = [stored EXCEPT ![f] = pcfg[f]]
  /\ KeepSched /\ UNCHANGED <<channel, ppc, pcfg, mixed>>

(* A row cannot be written: 500, the rows before it stay.                   *)
SetConfigFails ==
  /\ Fails("row") /\ ppc = "write" /\ ptodo # {} /\ ppc' = "idle" /\ ptodo' = {}
  /\ pcfg' = Default /\ mixed' = TRUE /\ KeepSched /\ UNCHANGED <<stored, channel>>

(* Reconfigure: what is in the channel gives way ...                        *)
ReconfigureDrain ==
  /\ ppc = "write" /\ ptodo = {} /\ ppc' = "send" /\ channel' = {}
  /\ KeepSched /\ UNCHANGED <<stored, pcfg, ptodo, mixed>>

(* ... and the new config goes in, when there is room.                      *)
ReconfigureSend ==
  /\ ppc = "send" /\ channel = {} /\ channel' = {pcfg} /\ ppc' = "idle" /\ pcfg' = Default
  /\ KeepSched /\ UNCHANGED <<stored, ptodo, mixed>>

(* Another PATCH, meanwhile.                                                *)
PatchMeanwhile(fields, to) ==
  /\ ppc # "idle" /\ fields # {} /\ stored' = Overlaid(fields, to)
  /\ channel' = {Overlaid(fields, to)} /\ mixed' = TRUE
  /\ KeepSched /\ UNCHANGED <<ppc, pcfg, ptodo>>

-----------------------------------------------------------------------------
Aged(a) == IF a < Old THEN a + 1 ELSE Old

Tick ==
  /\ phase' = (phase + 1) % Period /\ attempt' = Aged(attempt) /\ latest' = Aged(latest)
  /\ timer' = IF timer > 0 THEN timer - 1 ELSE timer
  /\ UNCHANGED <<run, byTimer, cfg, manual, stored, channel, patchVars, restarts>>

(* The daemon restarts: LoadConfig, NewRunner.                              *)
Restart ==
  /\ restarts < MaxRestarts /\ restarts' = restarts + 1 /\ attempt' = Old /\ run' \in {"plan", "off"} /\ timer' = NoTimer
  /\ byTimer' = FALSE /\ cfg' = stored /\ channel' = {} /\ manual' = FALSE
  /\ ppc' = "idle" /\ pcfg' = Default /\ ptodo' = {} /\ mixed' = FALSE /\ UNCHANGED <<phase, latest, stored>>

Plans == Plan(TRUE) \/ (Fails("lookup") /\ Plan(FALSE))
EndsTest == EndTest(TRUE) \/ (Fails("record") /\ EndTest(FALSE))
Select == TakeConfig \/ TakeManual \/ TimerFires

Next ==
  \/ Plans \/ Select \/ EndsTest \/ HandleBandwidthRun \/ Tick \/ Restart
  \/ \E fields \in SUBSET Field, to \in BOOLEAN : LoadConfig(fields, to) \/ PatchMeanwhile(fields, to)
  \/ (\E f \in Field : SetConfig(f)) \/ SetConfigFails \/ ReconfigureDrain \/ ReconfigureSend
Spec == Init /\ [][Next]_vars

-----------------------------------------------------------------------------
TypeOK ==
  /\ phase \in 0..Period - 1 /\ attempt \in 0..Old /\ latest \in 0..Old
  /\ run \in {"plan", "select", "test", "off"} /\ timer \in {NoTimer} \cup 0..Old + CatchUp
  /\ byTimer \in BOOLEAN /\ cfg \in Config /\ stored \in Config /\ channel \subseteq Config
  /\ manual \in BOOLEAN /\ ppc \in {"idle", "write", "send"}
  /\ pcfg \in Config /\ ptodo \subseteq Field /\ mixed \in BOOLEAN
  /\ restarts \in 0..MaxRestarts

(* The schedule never runs away: the timer starts a test only when the      *)
(* process has not attempted one for an interval, or not since the last     *)
(* slot, although no sample of the earlier attempts may have been stored    *)
(* (nextRun, "at most once per slot per process").                          *)
NoRunaway ==
  [][run' = "test" /\ run # "test" /\ byTimer'
       => attempt >= Interval \/ attempt > phase]_vars

(* The runner works with the settings that are stored, once no PATCH is in  *)
(* progress or waiting, if the last one had the table to itself and was     *)
(* written completely (handleBandwidthConfigPatch, Reconfigure).            *)
SettingsTakeEffect ==
  ppc = "idle" /\ channel = {} /\ ~mixed => cfg = stored

(* What makes SettingsTakeEffect inductive: a PATCH that has the table to   *)
(* itself carries what the table has, but for the rows it has yet to write, *)
(* and what waits in the channel is what is stored.                         *)
SettingsInv ==
  /\ stored \in Config /\ cfg \in Config /\ pcfg \in Config /\ ptodo \subseteq Field
  /\ ppc \in {"idle", "write", "send"} /\ mixed \in BOOLEAN
  /\ channel \subseteq Config /\ \A c, d \in channel : c = d
  /\ ppc = "send" => ptodo = {}
  /\ ~mixed =>
       /\ ppc # "idle" => \A f \in Field \ ptodo : pcfg[f] = stored[f]
       /\ ppc = "idle" => IF channel = {} THEN cfg = stored ELSE channel = {stored}

(* What an armed timer waits for: a time without an attempt since the last  *)
(* slot, the rest of an interval since the last attempt, or the next slot.  *)
ArmedInv ==
  /\ phase \in 0..Period - 1 /\ attempt \in 0..Old /\ latest \in 0..Old
  /\ run = "select" /\ timer # NoTimer =>
       /\ timer \in Nat
       /\ attempt > phase \/ attempt + timer >= Interval \/ timer = Period - phase

(* Scheduled tests keep coming while they are enabled, whatever fails.  (At *)
(* an interval they need not: see NextRun.)                                 *)
TimesKeepTesting ==
  <>[](run # "off" /\ cfg["enabled"] /\ ~cfg["interval"] /\ channel = {}) => []<>(run = "test")
=============================================================================
