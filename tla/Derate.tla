------------------------------- MODULE Derate -------------------------------
(***************************************************************************)
(* What becomes of a finished bandwidth test (execute and derated in       *)
(* internal/bandwidth/runner.go, internal/storage/bandwidth.go): it is     *)
(* compared with the rolling baseline, flagged and stored; the flag opens  *)
(* an incident, whose banner an operator may dismiss                       *)
(* (internal/server/bandwidth.go).  When tests run is module Bandwidth.    *)
(*                                                                         *)
(* Tests are one unit of time apart, so the ts of a sample is its index.   *)
(* A test that cannot be stored leaves no trace and is left out.  The      *)
(* threshold is one half; a baseline is a fraction, since Go's is a float. *)
(***************************************************************************)
EXTENDS Integers, Sequences, FiniteSets, SequencesExt

CONSTANTS
  Speed,        \* what a test may measure: pairs of down and up
  HealthFloor,  \* Config.HealthFloor
  BaselineDays, \* Config.BaselineDays
  MinSamples,   \* MinBaselineSamples
  MaxTests      \* tests (bound)

VARIABLES
  samples,      \* bandwidth_samples, in the order of ts
  scope,        \* Config.Directions, as a set of directions
  metric,       \* Config.BaselineMetric
  dismissed,    \* the row KeyDerateDismissedTs (0: none)
  clearing,     \* execute has stored a healthy sample, the row is still to go
  page,         \* incident on the operator's page (its since; 0: no banner)
  patch,        \* incident a PATCH in flight dismisses (0: none)
  pageOf, patchOf, dismissedOf  \* of these, the healthy test before the incident

askVars == <<page, patch, pageOf, patchOf>>
vars == <<samples, scope, metric, dismissed, clearing, dismissedOf, askVars>>

Direction == {1, 2}   \* down, up
Tests     == 1..Len(samples)

Init ==
  /\ samples = <<>> /\ scope \in {Direction, {1}} /\ metric \in {"median", "trimmed_mean"}
  /\ dismissed = 0 /\ clearing = FALSE /\ page = 0 /\ patch = 0
  /\ pageOf = 0 /\ patchOf = 0 /\ dismissedOf = -1

-----------------------------------------------------------------------------
(* The baseline.                                                            *)

(* The k-th of the values of w in ascending order.                          *)
Smallest(w, k) ==
  CHOOSE x \in Range(w) : /\ Cardinality({i \in DOMAIN w : w[i] < x}) < k
                          /\ Cardinality({i \in DOMAIN w : w[i] <= x}) >= k

(* Mutant: the index of the lower middle value, whatever n.                 *)
MedianLow(w) == [num |-> Smallest(w, Cardinality(DOMAIN w) \div 2), den |-> 1]

Median(w) ==
  LET n == Cardinality(DOMAIN w) IN
  IF n % 2 = 1 THEN [num |-> Smallest(w, n \div 2 + 1), den |-> 1]
  ELSE [num |-> Smallest(w, n \div 2) + Smallest(w, n \div 2 + 1), den |-> 2]

TrimmedMean(w) ==
  LET n    == Cardinality(DOMAIN w)
      trim == n \div 10
      sum[k \in 0..(n - trim)] == IF k <= trim THEN 0 ELSE sum[k - 1] + Smallest(w, k)
  IN  [num |-> sum[n - trim], den |-> n - 2 * trim]

(* The tests that count for a baseline that ends at until: successful and   *)
(* above the floor in each direction, of those stored.                      *)
Qualifying(until) ==
  {i \in Tests : /\ i >= until - BaselineDays /\ i <= until /\ samples[i].ok
                 /\ \A d \in Direction : samples[i].mbps[d] >= HealthFloor}

Values(I, d) == [i \in I |-> samples[i].mbps[d]]

(* The baseline in each direction; with too few tests there is none.        *)
ComputeBandwidthBaseline(until) ==
  LET I == Qualifying(until) IN
  IF Cardinality(I) < MinSamples THEN {}
  ELSE {[d \in Direction |-> IF metric = "trimmed_mean" THEN TrimmedMean(Values(I, d))
                             ELSE Median(Values(I, d))]}

(* Slower than half the baseline in a direction that counts; never while    *)
(* there is no baseline, or when it cannot be read.                         *)
Derated(mbps, found) ==
  found /\ \E base \in ComputeBandwidthBaseline(Len(samples) + 1), d \in scope :
             2 * mbps[d] * base[d].den < base[d].num

-----------------------------------------------------------------------------
(* Incidents.                                                               *)

LatestBandwidthSample == Last(samples)

(* Mutant: a failed test ends an incident.                                  *)
HealthySuccessOrFailure == {i \in Tests : ~samples[i].flag}

HealthySuccess == {i \in Tests : samples[i].ok /\ ~samples[i].flag}

LastHealthy(H) == IF H = {} THEN 0 ELSE Max(H)

(* The first flagged test after the last healthy one (0: none).             *)
DerateIncidentStart ==
  LET I == {i \in Tests : samples[i].flag /\ i > LastHealthy(HealthySuccess)}
  IN  IF I = {} THEN 0 ELSE Min(I)

(* derate-status: the latest test succeeded and is flagged.                 *)
IsDerated == samples # <<>> /\ LatestBandwidthSample.ok /\ LatestBandwidthSample.flag

-----------------------------------------------------------------------------
(* execute: the flag is computed before the sample is stored.               *)
RecordTest(mbps, found) ==
  /\ ~clearing /\ Len(samples) < MaxTests
  /\ samples' = Append(samples, [ok |-> TRUE, mbps |-> mbps, flag |-> Derated(mbps, found), read |-> found])
  /\ clearing' = ~Derated(mbps, found)
  /\ UNCHANGED <<scope, metric, dismissed, dismissedOf, askVars>>

(* The CLI fails, hangs or prints nonsense.                                 *)
RecordFailure ==
  /\ ~clearing /\ Len(samples) < MaxTests
  /\ samples' = Append(samples, [ok |-> FALSE, mbps |-> <<0, 0>>, flag |-> FALSE, read |-> FALSE])
  /\ UNCHANGED <<scope, metric, dismissed, dismissedOf, clearing, askVars>>

(* A healthy test clears any dismissal; the error is ignored.               *)
ClearDismissal(done) ==
  /\ clearing /\ clearing' = FALSE /\ dismissed' = (IF done THEN 0 ELSE dismissed)
  /\ dismissedOf' = (IF done THEN -1 ELSE dismissedOf)
  /\ UNCHANGED <<samples, scope, metric, askVars>>

(* The page polls derate-status.                                            *)
HandleBandwidthDerateStatus ==
  /\ page' = (IF IsDerated THEN DerateIncidentStart ELSE 0) /\ page' # page
  /\ pageOf' = LastHealthy({i \in Tests : samples[i].ok /\ ~samples[i].flag})
  /\ UNCHANGED <<samples, scope, metric, dismissed, dismissedOf, clearing, patch, patchOf>>

(* The operator dismisses what the page shows; the request arrives later.   *)
Dismiss ==
  /\ page # 0 /\ patch = 0 /\ patch' = page /\ patchOf' = pageOf
  /\ UNCHANGED <<samples, scope, metric, dismissed, dismissedOf, clearing, page, pageOf>>

HandleDismissal(arrives) ==
  /\ patch # 0 /\ patch' = 0 /\ patchOf' = 0
  /\ dismissed' = (IF arrives THEN patch ELSE dismissed)
  /\ dismissedOf' = (IF arrives THEN patchOf ELSE dismissedOf)
  /\ UNCHANGED <<samples, scope, metric, clearing, page, pageOf>>

Next ==
  \/ \E mbps \in Speed, found \in BOOLEAN : RecordTest(mbps, found)
  \/ RecordFailure \/ HandleBandwidthDerateStatus \/ Dismiss
  \/ \E done \in BOOLEAN : ClearDismissal(done) \/ HandleDismissal(done)
Spec == Init /\ [][Next]_vars

-----------------------------------------------------------------------------
TypeOK ==
  /\ \A i \in Tests : /\ samples[i].ok \in BOOLEAN /\ samples[i].flag \in BOOLEAN
                      /\ samples[i].mbps \in Speed \cup {<<0, 0>>}
  /\ Len(samples) <= MaxTests /\ scope \subseteq Direction /\ clearing \in BOOLEAN
  /\ dismissed \in 0..MaxTests /\ page \in 0..MaxTests /\ patch \in 0..MaxTests

(* Dismissing hides the banner "for the current incident only": while the   *)
(* line is derated the banner is down if and only if the last dismissal     *)
(* that was stored is of the incident going on (the one after the same      *)
(* healthy test), although tests may fail in between, a dismissal may       *)
(* arrive after the incident is over, and clearing it may fail              *)
(* (derateIncidentStart, execute).                                          *)
DismissesOneIncident ==
  LET healthy == {i \in Tests : samples[i].ok /\ ~samples[i].flag} IN
  IsDerated => (dismissed = DerateIncidentStart <=> dismissedOf = LastHealthy(healthy))

(* What makes DismissesOneIncident inductive: page, request and stored      *)
(* dismissal each name an incident by its first flagged test and by the     *)
(* healthy one before it (0: none), with nothing but failures between them. *)
IncidentOf(d, o) ==
  /\ d \in Tests /\ o \in 0..(d - 1) /\ samples[d].flag
  /\ o # 0 => samples[o].ok /\ ~samples[o].flag
  /\ \A i \in (o + 1)..(d - 1) : ~samples[i].ok /\ ~samples[i].flag

Sample == [ok : BOOLEAN, mbps : Speed \cup {<<0, 0>>}, flag : BOOLEAN, read : BOOLEAN]

IncidentInv ==
  /\ samples \in Seq(Sample)
  /\ page # 0 => IncidentOf(page, pageOf)
  /\ patch # 0 => IncidentOf(patch, patchOf)
  /\ IF dismissed = 0 THEN dismissedOf = -1 ELSE IncidentOf(dismissed, dismissedOf)

(* A test is flagged for being slower than half of what at least half of    *)
(* the tests that count measured, and it is flagged when more than half of  *)
(* them say so: an outlier neither raises nor hides a derate (derated,      *)
(* median).  With the mean, one of them suffices and all of them are        *)
(* needed.                                                                  *)
FlagNeedsMajority ==
  samples # <<>> /\ LatestBandwidthSample.read =>
    LET n       == Len(samples)
        I       == Qualifying(n) \ {n}
        Faster(d) == Cardinality({i \in I : 2 * samples[n].mbps[d] < samples[i].mbps[d]})
        Least   == IF metric = "median" THEN Cardinality(I) ELSE 2
        Enough  == IF metric = "median" THEN Cardinality(I) + 1 ELSE 2 * Cardinality(I)
        full    == Cardinality(I) >= MinSamples
    IN  /\ samples[n].flag => full /\ \E d \in scope : 2 * Faster(d) >= Least
        /\ full /\ (\E d \in scope : 2 * Faster(d) >= Enough) => samples[n].flag
=============================================================================
