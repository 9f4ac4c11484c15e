# hoptrail: TLA+ models, model checking and proofs

This directory models the parts of hoptrail in which goroutines, processes,
failing statements and lost messages meet, checks them with TLC on small
instances and proves nearly all of their safety properties with TLAPS for all
instances. Paths below are relative to `src/`.

## 1. The system

hoptrail is a path monitor. A *central* daemon (`hoptrail serve`) probes
targets, stores samples in SQLite and serves the web UI; remote *probes*
(`hoptrail agent`) probe the targets the central gives them and post what they
measure to it.

| Component | State | Operations | Modelled in |
|---|---|---|---|
| Probe sink, spill buffer, client (`internal/agent/{sink,buffer,client}.go`) | queued samples, batch in flight, `pending_batches`, fatal channel | write, flush on ticker/size, final flush, spill, evict, drain, time out | `Delivery` |
| Central ingest (`internal/server/ingest.go`, `internal/storage/probes.go`) | `ingest_log`, samples, tokens and their bindings, path snapshots | authenticate, clock-skew check, dedup + insert in one transaction, prune, heartbeat, store a path, forget a probe | `Delivery`, `AgentTargets`, `ProbeUpdate` |
| Probe process (`cmd/hoptrail/agent.go`, `internal/agent/heartbeat.go`) | contexts, pipelines, re-resolve loops | heartbeat, reconcile, re-resolve, post a path, signal, fatal exit, drain, restart | `AgentTargets`, `Delivery` (exit path) |
| Supervisor (`cmd/hoptrail/supervisor.go`) | `pipelines` map under `mu`, one re-resolve loop per hostname | add, remove, rebuild, swap, hydrate, re-resolve, shut down | `Targets` |
| Target and tab requests (`internal/server/handlers.go`) | `active_targets`, `tabs` | add, delete, patch, swap, create and close a tab | `Targets` |
| Alert engine and sender (`internal/alert/{engine,sender}.go`, `internal/server/alerts.go`) | `alert_state`, `alert_queue`, pending summary (tables); cooldown markers, sliding hour (memory) | tick, raise, recover, buffer and flush the summary, sweep orphans, post, delete | `Alerts` |
| Local sink (`internal/storage/sink.go`) | buffered samples and route changes, dropped counter | write with drop-oldest, flush, requeue, final flush | `LocalSink` |
| Probe engine, analysis of routes (`internal/probe/{engine,path,discovery,pinger}.go`, `internal/analysis/routing.go`) | hop table, rings of candidates, target TTL | sweep, ping, reduce results, record a route change, pause | `Path` |
| ICMP prober (`internal/probe/icmp.go`) | pending calls by sequence number, socket TTL under `mu` | register, send, read, deliver, time out, close | `Prober` |
| Probe updates and rollout (`internal/server/probeupdate.go`, `internal/agent/updater.go`) | `probe_updates` row per probe, rollout goroutine, binary and backup of the probe | command, deliver with heartbeat, download, install, roll back, report, time out, cancel, roll out | `ProbeUpdate` |
| Bandwidth tests (`internal/bandwidth`, `internal/server/bandwidth.go`, `internal/storage/bandwidth.go`) | settings rows, runner's config and timer, samples, dismissal | next run, catch-up, manual run, PATCH and reconfigure; baseline, flag, incident, dismissal | `Bandwidth`, `Derate` |
| Storage core (`internal/storage/storage.go`), retention (`internal/retention`) | read-write gate, pool of connections, `schema_version` | gated statement, checkpoint with retries, open and migrate, prune | `Gate`, `Migrations` (`ingest_log` pruning: `Delivery`) |
| Reverse DNS (`internal/rdns`, `internal/storage/rdns.go`) | `rdns` table, watermark | scan, resolve, upsert, advance | `Rdns` |
| Self-update (`internal/server/{update,release}.go`, `internal/release`) | staged and live binary, capability, `.backups`, `update.last_check` | upload, download, apply with rollback, check for a release | `SelfUpdate`, `ReleaseCheck` |
| Log ring (`internal/logring`, `internal/server/logs.go`) | ring with sequence numbers | append, read since a sequence number | `LogRing` |
| Settings, HTTP plumbing, configuration, capacity, UI, scripts | single rows or none | – | not modelled, see section 9 |

How they interact: pipelines write to a sink (local, or the probe's) from their
own goroutines; the probe's sink talks HTTP to the ingest handler; heartbeats
carry the target set and the update command one way, versions and results the
other; handlers call the supervisor and the tables; the alert engine reads
providers and tables on a 15 s ticker and feeds `alert_queue`, which the sender
empties; the retention worker prunes what ingest relies on for deduplication
and deletes rows under the reverse-DNS worker's watermark; every statement on
the store passes the gate that the checkpoint closes.

What is hard, and what correctness means:

- **Delivery.** At-least-once replay against a dedup table that is pruned by
  another worker, with requests that outlive their client's timeout, crashes
  between any two steps and a bounded buffer. Correct: nothing is inserted
  twice, nothing disappears silently, the oldest goes first, and everything is
  eventually stored or openly given up.
- **Targets.** Requests and re-resolve loops look a pipeline up, release the
  lock and act on it later. Correct: no pipeline leaks, no monitored target is
  left unprobed, no hostname loses its loop, memory agrees with the table.
- **Alerts.** A tick works from rows read once, while handlers clear them, any
  statement may fail and the process may die. Correct: an accepted alert is
  never lost, no recovery without an alert, a broken database cannot exhaust the
  shared rate limit, incidents of removed subjects disappear.
- **Probe updates.** Commands, late reports, lost replies, rollbacks, timeouts
  and a polling rollout all write or read one row per probe. Correct: a rollout
  leaves no probe behind on a build that does not run, a probe that runs what it
  was told is shown as updated, a rollout does not hang.
- **Remote pipelines.** Target sets arrive late or not at all, re-resolve loops
  outlive the pipeline they belong to, tokens are revoked under way. Correct: no
  pipeline escapes the runner, the probe follows the central, a revoked probe
  stops.
- **Path.** Sweeps and pings overlap and their results are reduced in any order
  over a route that changes. Correct: the monitor settles on the route, explains
  every change of identity by a stored route change, and never takes this host
  for a hop.
- **Workers and storage.** A batch put back in front of a full buffer; a gate
  that waits for all connections; a watermark over reused row numbers; a
  schedule decided from a sample that may be missing; a migration or an update
  cut off in the middle. Correct: see the properties in section 3.

`PROJECT.json` lists every hazard with its line and the properties about it; a
note says where a property stops short of what the code risks.

## 2. Modules

| Module | Contents |
|---|---|
| `Delivery` | the protocol between one probe and the central, with its properties and the invariants the proofs use |
| `DeliveryContract` | what the sink promises its pipelines: custody until stored once or written off |
| `DeliveryRefinement` | the refinement mapping from `Delivery` to `DeliveryContract` |
| `DeliveryProofs`, `CustodyProofs` | theorems about `Delivery`: types and deduplication; custody, order, refusals and the refinement |
| `Targets` | supervisor, re-resolve loops, requests, `active_targets`, `tabs` |
| `TargetsProofs` | theorems about `Targets` |
| `Alerts` | tick, gates, summary, sender, clearing handlers, the three tables |
| `AlertsProofs` | theorems about `Alerts` |
| `ProbeUpdate` | the update row, heartbeat and report handlers, the probe's updater, the rollout goroutine |
| `AgentTargets` | the pipelines of a remote probe against heartbeats, lookups, tokens and path snapshots |
| `Path` | reducer, discovery, pinger and route-change rule over a changing network |
| `PathProofs` | theorems about `Path` |
| `Prober` | concurrent calls on the one ICMP socket |
| `LocalSink` | the batched sink of a local pipeline |
| `Gate` | gated statements, the connection pool, `CheckpointWAL` and its retries |
| `Migrations` | `Open` and `runMigrations` over crashes and builds of different age |
| `Bandwidth` | schedule, catch-up, manual runs, PATCH and `Reconfigure` |
| `Derate` | baseline, derate flag, incident and dismissal of its banner |
| `Rdns` | the reverse-DNS cycle over inserts and deletes of samples |
| `SelfUpdate` | staging and applying a binary of the central |
| `ReleaseCheck` | the background and manual check for a release |
| `LogRing` | the ring of log records and a polling viewer |
| `MCDelivery`, `MCAlerts`, `MCPath`, `MCProbeUpdate`, `MCTargets` | one component for TLC |
| `MCTargetsSole` | `Targets` with one client at a time, in two kinds of behaviour |
| `MCServices` | `LocalSink`, `Gate`, `Prober`, `ReleaseCheck`, `LogRing`, `AgentTargets` side by side |
| `MCWorkers` | `Bandwidth` and `Rdns` side by side |
| `MCSafety` | `ProbeUpdate` (twice), `SelfUpdate`, `Migrations`, `Derate` side by side |
| `ServicesProofs`, `WorkersProofs`, `SafetyProofs` | theorems about each of the components of `MCServices`, `MCWorkers`, `MCSafety` by itself |

"Side by side" means: a variable (`unit`), chosen at the start and
never changed, says which component moves; the others stay in their initial
state. The components in one such module share no state at the level of detail
of the models, so nothing is lost by not interleaving them.

Operators called a mutant in the comment before them are defective variants of the
definition after them. They show that a property notices such a defect (section 5)
and are used by nothing else.

### Delivery

`mem`, `liveSt/liveBatch/liveCtx` and `drainSt/drainBatch` are the fields and the
program counters of `HTTPSink.Run` and `RunFlushLoop`; `buffer` is
`pending_batches` and survives `Die`/`Restart`; `reqSt...reqAt` are HTTP
exchanges, which keep running when the client abandons them (`Abandon` leaves
the handler to commit later); `logged/loggedAt/copies` are `ingest_log` and how
often a batch's rows were inserted. A handler reads the time and checks the skew
in one step (`HandleIngestSamples`) and commits in a later one (`IngestBatch`),
at most `MaxStall` later. `givenUp` is a history variable that records, for
every path on which the probe lets go of a sample, which path it was. Samples
and route changes take the same path and are one set. Byte sizes are counted in
samples.

### Targets

A *slot* is one `*pipeline`. Every critical section of `supervisor.mu`, every
SQL statement and every `cancel()` is one step; everything between them
interleaves. A handler's program counter is `rpc`, the pipeline it has looked up
is `rold`; a loop's are `loop` and `loopOld`. Interval and final-hop-only both go
through `rebuildPipeline` and are one setting. `ClientLeaves` is the cancelled
request context that makes later statements of that handler fail.

### Alerts

A *key* is one `event|subject`. A tick is split where something else can come in
between: `TickStart` (flush, read rows), `TickSubjects` (who is monitored),
one step per incident (`StepRaise`, `StepClear`, `StepNoVerdict`) that goes as
far as the delivery, `StepWrite` (the state row), `ClearOrphan`, `TickEnd`;
`TickFails` is a provider error. Which statements may fail is the constant
`Faults`; the outcome of each is chosen with `Outcomes`. Times are ages that stop
counting at the largest value anything compares them with, so time is not
bounded. `tokenAge` has one entry per notification that the hourly limit allows;
`tokenKey`, `owed` and `last` are history variables.

### ProbeUpdate

`upd/target/deliveries/age` are the columns of `probe_updates`, `age` being the
time since `updated_at`. A heartbeat is one slot with three steps: sent with the
version of the process, judged by `heartbeatUpdateFor` (row read in one step,
written in another, as the code's get-then-set), answered or lost. `ust`, `ucmd`,
`disk`, `running` and `backup` are the updater: download, back up, install,
setcap, restart, roll back. A bad build installs but crash-loops. Reports of the
updater are a set and may be handled late, in any order or never. The rollout
goroutine is `rst...rwait`; it takes any set of outdated probes.

### AgentTargets

`pipe[t, s]` is one pipeline with its context, its re-resolve loop and the POST of
its path snapshot; `pipelines[t]` is `r.pipelines`. The loop looks the name up
without the lock (`ReresolveTick`) and rebuilds under it (`ReresolveRebuild`), by
when the pipeline may have been replaced or the runner stopped. `token` is what
the central makes of the probe's token at the moment it is presented. `budget`
bounds what operator, resolver and network may do.

### Path and Prober

`Path` has the network (route, losses), the `PathState` (`cand`, `cur`,
`targetTTL`, `maxSeen`), pings and one sweep in flight. A result is decided by the
route when it is sent and reduced later, in any order. An empty route is a host
without uplink, whose kernel answers itself. `Prober` is the layer below: calls
are identified by the count of sequence numbers tried so far (`stamp`), the wire
has the reply of any of them, the read loop looks a call up and delivers to it in
two steps.

### LocalSink, Gate, Migrations

Samples are numbered, so that the store shows order, loss and duplication.
`CommitInDoubt` is a commit that reports an error although it took effect. In
`Gate` a request passes "door" (the read lock), "inside", "running" (a statement on
a connection) and "open" (rows or a transaction that keep the connection after
the gate was left); a writer that waits keeps new readers at the door, as
`sync.RWMutex` does. `Migrations` counts how often each migration has taken effect
and lets builds of different age open the same file.

### Bandwidth, Derate, Rdns

`Bandwidth` keeps time as ages, so it does not end. A PATCH reads the rows, writes
its fields one by one and sends the whole config through the one-element channel.
`Derate` runs a test per unit of time; speeds are pairs of down and up, a baseline
is a fraction because the code's is a float, and the middle of a window is its k-th
smallest value (`Smallest`) rather than an entry of a sorted copy. `Rdns` has `samples` as a function
from rowid to address with SQLite's rule for the next rowid; `behind` marks rows
that took the number of a deleted row below the watermark.

### SelfUpdate, ReleaseCheck, LogRing

Files are builds, a half-written file or nothing; an apply is split at every
system call that another apply, an upload or a crash can come before. `LogRing`
has the ring with indices modulo its capacity, as the code has it.

## 3. Runs

| Run | Checks | Distinct states | Time |
|---|---|---|---|
| `delivery_safe` | `ExactlyOnce`, `NoSampleVanishes`, `RefusedOnlyWhenOld`, `OldestFirst`, `ImplementsContract` (refinement) | 2 256 849 | 2:00 |
| `delivery_live` | `EventuallySettled` | 110 555 | 1:15 |
| `targets` | `ProbedByOne` | 2 201 802 | 1:20 |
| `targets_sole` | `RowsMatch`, `FollowsDns` | 212 623 | 1:00 |
| `alerts_safe` | `NothingLost`, `RaiseLoopBounded`, `RecoveryHasAlert` | 1 959 264 | 1:05 |
| `alerts_live` | `NoGhostIncident`, `EventuallyTold` | 174 752 | 1:00 |
| `update` | `TruthWins`, `RolloutGoesOn` | 131 604 | 0:50 |
| `safety` | `BadBuildStopsLine`, `WayBack`, `SchemaIsTrue`, `DismissesOneIncident`, `FlagNeedsMajority` | 2 084 217 | 1:20 |
| `path` | `NoLocalIdentity`, `HistoryExplainsPath`, `PathFollowsRoute` | 256 112 | 0:55 |
| `services` | `InOrder`, `Accounted`, `Drains`, `TruncatesAlone`, `GateGoesOn`, `OwnProbe`, `ViewerSeesTail`, `RunnerInControl`, `FollowsCentral`, `RevokedStops`, `ChecksGoOn` | 44 092 | 1:05 |
| `workers` | `SettingsTakeEffect`, `NoRunaway`, `TimesKeepTesting`, `NothingSkipped`, `CatchesUp` | 309 846 | 0:55 |
| `safety_rollback` | violation of `LiveCanProbe` | | 0:01 |

Run one with `tlc -workers 2 -config MCAlerts_safe.cfg MCAlerts`; times are minutes
on two cores.

What the passing runs show:

- *delivery_safe*: live flush, spill, drain, abandoned requests that commit
  late, pruning, token revocation, signals, crashes and restarts in every order
  insert no batch twice and lose nothing without a recorded reason. The dedup
  window is exactly `SkewBound + MaxStall + lead`, so an off-by-one in the prune
  comparison shows.
- *delivery_live*: with room for less than is produced, nothing waits for ever
  once the probe stays up.
- *targets*: two concurrent requests on a hostname whose answer changes, clients
  that leave and loops of replaced pipelines that still hold stale answers leak no
  pipeline, cancel no monitored one and never break the chain of loops.
- *targets_sole*: with one request at a time but a stop or crash at any step,
  memory, `active_targets` and `tabs` agree between requests; the pipeline ends up on
  the address DNS settles on.
- *alerts_safe*: every statement may fail, the process may die at any step,
  handlers clear rows under a running tick, quiet hours and rules change: no
  accepted alert is lost, no recovery is sent for an alert that was not, one
  subject spends the hourly limit at most once per cooldown.
- *alerts_live*: incidents of removed subjects disappear and accepted alerts are
  sent.
- *update*: with every reply, report and restart free to fail, a probe
  that has settled on what its row asks for ends as applied, and a rollout leaves
  each probe behind or finds its row deleted.
- *safety*: a rollout over two probes, and over one with every request and
  fault, goes on only past builds that run; overlapping uploads, applies and
  crashes leave a build that runs at the live path or in `.backups`; migrations
  take effect once over crashes and older builds; a dismissal hides its own
  incident; the median flags by majority.
- *path*: after any mix of changes, losses and late results the monitor settles
  on a route that has settled.
- *services*: the six services of `MCServices`. Dropping and putting back keep the
  order and the count of samples; a checkpoint runs alone and neither it nor the
  requests starve; sequence numbers and TTLs do not mix; the viewer of the log
  shows the tail once; a remote probe's pipelines follow the central; release
  checks survive restarts.
- *workers*: the schedule neither runs away nor stops while lookups and stores
  fail; the watermark skips no address and the worker catches up.

Several properties of one actor are stated separately in their module and run as
one conjunction: `ProbedByOne` (`NoLeakedPipeline`, `MonitoredIsProbed`,
`HostHasLoop`), `RowsMatch` (`MonitoredHasRow`, `SettingsSurvive`,
`ClosedStopsProbing`), `OwnProbe` (`OwnReply`, `OwnTTL`), `ViewerSeesTail`
(`SinceIsTail`, `ShownOnceInOrder`), `RunnerInControl` (`NoStrayPipeline`,
`StopsForGood`), `GateGoesOn` (`Converges`, `DoorOpens`), `SchemaIsTrue`
(`AppliedOnce`, `OpenIsMigrated`).

Each component module states its types as `TypeOK`. The runs do not list it,
since they are kept for what could be wrong with the program; it is proved for all
but `Derate` and `ReleaseCheck` (section 7), and adding it to a run's cfg confirms
it for these. The inductive invariants of the proofs can be checked in the same way.

## 4. Bounds, and why they are enough

- *Delivery*: two samples, so two batches at most and thus one batch in the drain
  while another is live; two connections, so an abandoned request and its replay
  overlap; three units of time with a skew bound of one, so a batch can be
  accepted, pruned and refused; a probe clock in step or one ahead. `delivery_live`
  has one connection and a buffer of one, so eviction happens; `MaxBatch` is not
  reached before the samples run out.
- *Targets*: a hostname with two addresses, two intervals and two requests: the bad
  cases all need one pipeline, its replacement and one holder of the old
  pointer, hence three slots. `targets_sole` has a raw IP as well, two tabs
  and two values per setting for cascades and swaps; only the hostname is patched,
  and a new pipeline takes the first free slot, since slots are interchangeable
  (symmetry sets are not sound for liveness). Store-write failures (`"store"`
  in `Faults`) are in the model and in none of the runs: a failed write is
  answered with an error and makes memory and table differ by design. A hostname
  may fail to resolve at start (`"dns"`) unless its row has settings: added again it
  runs with defaults (section 8), which `RowsMatch` would report.
- *Alerts*: one incident. Incidents share only the rate limit, the summary row
  and the queue; a second token stands for the room other incidents would use,
  and two incidents exceed five minutes. The proofs have no such bound. `Sustain`,
  `Cooldown` and `Hour` are one: each threshold has a value below and at it. (The
  proofs cover a cooldown that ends before the hour does.) `MaxQueue` of one makes a full queue
  block, not lose: the table has no limit, and the bound only delays producers.
- *ProbeUpdate*: one release after the installed one, good or bad, one heartbeat
  at a time and one delivery, so the second heartbeat already is the one that
  gives up; timeout and deadline are reached after one unit. `MCSafety` has two
  probes for "the line stops", and one probe with every request and fault;
  `MCProbeUpdate`, for liveness, leaves out the command for a single probe, which
  writes the row as a rollout does, and the failures before the restart, which
  end in the same report.
- *Path*: at most two hops, routes of length two, one and none, two route changes
  and one unexplained loss, a threshold and a ring of two, one ping against one
  sweep in flight. Growth, shrinking and replacement of a router all happen.
  `Silent` is empty in the run: a route with a silent router at the old target
  TTL is the exception `PathFollowsRoute` names (`Answering`).
- *Services*: four samples against a cap of three and batches of two, one commit
  in doubt; three requests on two connections and two attempts; two callers with
  two sequence numbers and three tries, so numbers are reused; a ring of three
  under six records and one restart; one hostname with two addresses
  (interchangeable, so one of them is the first answer), two slots
  and four changes or losses, enough for remove, add again, another answer and a
  revocation.
- *Workers*: a period of two with an interval of two and a catch-up of one put
  tests before, at and after the slot; three addresses with batches of two are
  clipped; three row numbers are reused after deletes.
- *Safety*: two builds to apply, one of which does not run, and two overlapping
  applies; three migrations and every pair of older and newer build; five tests
  with a window of three, a minimum of two and speeds on either side of floor
  and threshold, so windows of even and odd size occur and dry up.

## 5. Sensitivity

For every property of a passing run `PROJECT.json` names at least one mutant, and
one per part for most of the conjunctions: a plausible
defect of one mapped definition (an inclusive comparison, a dropped guard, a
skipped statement, a pointer read again after the lock was released) under which
TLC finds that property violated with the run's own configuration.

## 6. Fairness

- *Delivery*: the two loops of the probe keep running (they are tickers), and a
  request that is tried again and again is eventually received, committed and
  answered, i.e. an outage ends. Posting is strongly fair only because `Conn`
  bounds connections the program opens at will. Nothing is assumed of clocks,
  signals, crashes, the operator or the pruning; `EventuallySettled` has "the
  probe stays up with a valid token" as its premise.
- *Targets*: goroutines get scheduled and the 5-minute ticker fires. Steps that
  take a slot are strongly fair because the bound on slots can keep them
  waiting. Clients, DNS and the process are free.
- *Alerts*: tick and sender are loops on tickers of their own; a tick also
  happens outside quiet hours when those recur; the ntfy server answers again
  and again however many posts fail; a raise whose incident is due again and
  again is not overtaken for ever by "no verdict". Conditions, subjects, rules
  and quiet hours are free.
- *ProbeUpdate*: heartbeats are sent by a ticker and get through now and then,
  the polling loop turns, time passes. Operators, releases, reports and the
  updater are free; `TruthWins` has "settles on what the row asks for" as its
  premise.
- *AgentTargets*: heartbeat, loops and posts are goroutines on tickers; losses
  and changes are limited by the budget, so what the properties ask for is asked
  of a network and an operator that have come to rest.
- *Path*: sweeps and the reducer keep running and pauses end; a sweep without a
  loss happens again and again.
- *LocalSink*: the ticker fires; a commit that is tried again and again succeeds.
  *Gate*: statements return, closed rows give the connection back except for the
  slow ones, `sync.RWMutex` lets waiting readers in when the writer unlocks.
  *ReleaseCheck*: a daemon that is up again and again completes a check at some
  start. *Rdns*: the ticker fires, a scan and an upsert succeed now and then.
  *Bandwidth*: the scheduler goroutine runs, a test ends (it has a timeout), time
  passes; every store access may fail.

In `MCServices` and `MCWorkers` the fairness of a unit that does not run holds by
itself: none of its fair actions is enabled in its initial state.

## 7. What is proved

Every theorem holds for all values of the constants that satisfy the module's
named `ASSUME`; hypotheses beyond that are in the statement. The assumptions are
type facts, with these exceptions, all of which the code guarantees: capacities
that it clamps to at least one (`Cap`), thresholds and batch sizes of at least one,
placeholders that are no real value (`Nil`, `None`, `"unlocked"`), a first build
that runs, a route that ends at the target and contains neither this host nor "no
address", finitely many heartbeats in flight at once (`Beat`). The bounds of the
model (`MaxSamples`, `MaxChanges`, `MaxTotal`, `MaxRestarts`, ...) are natural
numbers, any natural numbers. The named assumptions of components that are only
instantiated are in the module that instantiates them (`ServicesAssumption`,
`SafetyAssumption`, `WorkersAssumption`).

Every invariant and action property of the passing runs is a theorem. In each case
the property alone is not inductive, or only in one step; what has to be added is
a definition of the component's module, so that TLC can check it (for
`FlagNeedsMajority` it is `FlagInv` of `SafetyProofs`, the property with the types
of the history and of the settings):

| Theorem | States | Inductive invariant |
|---|---|---|
| `TypeCorrect`, `AlertsTypeCorrect`, `TargetsTypeCorrect` | `TypeOK` | itself (`Targets`: with `ArgType`) |
| `NoDoubleInsert` | `[]ExactlyOnce` | `DedupInv` |
| `NothingVanishes`, `RowsLeaveOldestFirst` | `[]NoSampleVanishes`, `OldestFirst` | `CustodyInv` |
| `RefusalsAreOld` | `[]RefusedOnlyWhenOld` | `RefusalInv` |
| `KeepsTheContract` | `WindowCoversReplays => (Spec => ImplementsContract)` | `DedupInv`, `CustodyInv` |
| `OnePipeline` | `[]ProbedByOne` | `SlotInv` |
| `MemoryMatchesTables` | `SoleClient => (Spec => []RowsMatch)` | `SlotInv`, `MatchInv` |
| `AlertDurable`, `RaisesBounded`, `RecoveryFollowsAlert` | `[]NothingLost`, `[]RaiseLoopBounded`, `RecoveryHasAlert` | itself, `GateInv`, `TellInv` |
| `HopsAreElsewhere`, `HistoryIsComplete` | `[]NoLocalIdentity`, `HistoryExplainsPath` | `PathInv` |
| `RowsInOrder`, `SamplesAccounted` | `[]InOrder`, `[]Accounted` | `SinkInv` |
| `TruncatesInQuiet` | `[]TruncatesAlone` | `QuietInv` |
| `CallsDoNotMix` | `[]OwnProbe` | `OwnInv` |
| `RunnerKeepsControl` | `[]RunnerInControl` | `ControlInv` |
| `ViewerFollowsRing` | `[]ViewerSeesTail` | `LogInv` |
| `RunnerFollowsStore`, `ScheduleHolds` | `[]SettingsTakeEffect`, `NoRunaway` | `SettingsInv`, `ArmedInv` |
| `WatermarkIsHonest` | `[]NothingSkipped` | `SkipInv` |
| `FileMatchesVersion` | `[]SchemaIsTrue` | `MigrationInv` |
| `RollbackNet` | `[]WayBack` | `SavedInv` |
| `BannerPerIncident` | `[]DismissesOneIncident` | `IncidentInv` |
| `OutliersDoNotDecide` | `Speed \subseteq [{1,2} -> Nat] => (Spec => []FlagNeedsMajority)` | `FlagInv` |
| `LineStops` | `MaxVersion = 1 => (Spec => []BadBuildStopsLine)` | `LineInv` |

Further theorems are not about a property of a run but about what the components
keep to, for every value of the constants:

| Theorem | States | Added |
|---|---|---|
| `PathIsCurrent` | what the path shows agrees with the sightings it keeps (`PathAgrees`) | `PathInv` |
| `PathStaysInRange` | `TypeOK` of `Path` | `PathInv`, `PathAgrees`, `NetType` |
| `DeliveriesAreBounded` | `TypeOK` of `ProbeUpdate`, with a bound on deliveries of one command | `LineInv`, `DeliveryInv` |
| `RollBackIsKept` | what an apply may put back lies under `.backups`; `TypeOK` of `SelfUpdate` | itself |
| `LoopEnds` | no migration runs that the build does not know; `TypeOK` of `Migrations` | `MigrationInv`, `LoopInv` |
| `CheckpointHandsBack` | no connection is held between attempts; `TypeOK` of `Gate` | `QuietInv`, `RestInv` |
| `SinkIsBounded` | `TypeOK` of `LocalSink`: the cap, and a drop counter that never overstates | `SinkInv`, `BufferInv` |
| `MutexComesBack` | the mutex is held by a call on its way only; `TypeOK` of `Prober` | `CallType` |
| `AgentTypes` | `TypeOK` of `AgentTargets` | `ControlInv` |
| `RingIsBounded` | `TypeOK` of `LogRing` | `LogInv`, `RingType` |
| `TimerIsBounded` | `TypeOK` of `Bandwidth` | `SettingsInv`, `ArmedInv`, `TimerType` |
| `BatchesAreBounded` | `TypeOK` of `Rdns` | `SkipInv` |

The arguments, component by component:

**Delivery**

- `NoDoubleInsert`. When a row of `ingest_log` is pruned, nothing in it says that
  the batch cannot come again. `DedupInv` adds what does: batches are disjoint and
  whatever names a batch names one with content (`BatchInv`); timestamps lead the
  central's clock by no more than the probe's lead, both at receipt and while a
  handler holds the time it has read (`ClockInv`); and a stored batch is in
  `ingest_log` or so old that even a handler that has already read the time would
  not accept it (`OnceInv`). Pruning turns the first case of `OnceInv` into the
  second, and this is where `DedupWindow >= SkewBound + MaxStall + lead` is used.
- `NothingVanishes` needs to know whose answer an answer is: the two loops wait for
  one exchange each, about the batch they hold (`OwnerInv`), and an acknowledgement
  on its way back is of rows that were inserted (`AckInv`). A late answer to an
  abandoned request then cannot make a loop let go of another batch.
- `RowsLeaveOldestFirst`: the row the drain loop read some time ago is still the
  oldest when it deletes it, because eviction takes from the old end and a spill
  adds at the new one (`OrderInv`).
- `RefusalsAreOld`: what was too old when the central judged it is too old when the
  probe acts on the refusal, since time only passes.
- `KeepsTheContract` is the refinement of `DeliveryContract` under the mapping of
  `DeliveryRefinement`: initial states map to initial states, and each action of
  `Delivery` maps to taking, storing or writing off, or to a stutter. Storing is a
  contract step only when the batch was not stored before, which is `OnceInv`, hence
  the hypothesis on the window; writing off moves only samples in custody, which is
  `NoSampleVanishes` with `OwnerInv`.

**Targets**

- `OnePipeline`. A handler or loop looks a slot up, leaves the lock and acts
  later. `SlotInv` says what it may rely on: a slot in the map is not held by
  anyone who means to cancel it (`MapInv`), what is in the map runs and has its
  loop until the daemon stops (`AliveInv`), the answer a loop acts on differs from
  the address of its pipeline while that pipeline runs (`FoundInv`), and there are
  no requests before hydration is over (`BootInv`).
- `MemoryMatchesTables`. `MatchInv` names, for each place where map and table may
  differ, the handler that is about to make them agree. `SoleClient` is the
  hypothesis: one request at a time, statements and start-up lookups that succeed;
  stops and crashes are not excluded. Without it the statement is false (section 8).

**Alerts**

- `AlertDurable`: every step that takes an alert from one place puts it in the next
  first: the summary is queued before its row is deleted, a queue item is deleted
  after the answer.
- `RaisesBounded`, from `GateInv`: as long as a use of the limit is younger than the
  cooldown, so is the incident's marker, since the marker is set before the attempt.
- `RecoveryFollowsAlert`, from `TellInv`: a row, a row as the tick has read it and a
  row about to be written say "notified" only if the alert was accepted, and for an
  incident the tick has still to evaluate the table says so only if the tick's copy
  does. The last part is needed because a raise judged by a stale copy could
  otherwise turn a notified incident into a suppressed one.

**Path**: `PathInv` follows every result from the network to the ring: a result of
this host is one that counts as a miss, so no sighting is of this host, and both
the newest and the modal address of a ring are sightings in it. `PathAgrees` holds
because each result either makes the change its sightings call for, in which case
the newest known address becomes both identity and record, or leaves a run that is
too short: a first identity, even a modal one, is taken only while no run reaches
the threshold, so none is left overdue by it.

**Local sink**: `SinkInv` describes buffer and batch as unbroken runs of the
samples written, adjacent unless the buffer is full (`QueueInv`). Putting a batch
back in front therefore restores one run, and cutting it at the cap drops its
oldest end. What is stored comes before what is on its way, except for samples of a
commit in doubt (`OrderInv`, `ChangeInv`), and `CountInv` is the balance of the
dropped counter with these exceptions. Since what is on its way is never counted,
the counter cannot exceed what was written, which is `SinkIsBounded`.

**Gate**: `QuietInv`: the pool hands out no more connections than it has, so whoever
holds all of them shares with nobody; behind the lock nobody starts a statement.
`RestInv` says at which points of an attempt it may hold any.

**Prober**: `OwnInv`: between `SetTTL` and `WriteTo` a call has the mutex and the
socket has its TTL; pending calls differ in their number, and a probe on the wire
is no newer than the pending call with its number, so a reply that finds the wrong
call is at least one round of numbers old. The proof works for any width of the
number (`SeqSpace`), of which 16 bits is one.

**Remote pipelines**: `ControlInv` is the property with the types: each critical
section of the runner's mutex leaves what probes in the map.

**Log ring**: `RingInv` ties slot, sequence number and record together, through
wrap-around of the index; `ViewInv` says that what the page shows was logged before
this daemon started or is covered by the cursor.

**Bandwidth, reverse DNS**: `SettingsInv` relates the rows, the PATCH under way, the
channel and the runner; `ArmedInv` says what an armed timer waits for; `SkipInv` that
the addresses of an uncut batch are all that its range of rows still lacks.

**Migrations, self-update**: `MigrationInv`: behind the loop every version has its
row, and SQL and row of a transaction go together. `SavedInv`: an apply that has
passed its backup leaves a build that runs in `.backups`, whatever overlapping
applies do to the live path. `RestoreInv`: what it has backed up it can put back
until it has finished, so a roll back fills the live path from a file there is.

**Derate**

- `BannerPerIncident`, from `IncidentInv`: page, request and stored dismissal name an
  incident by its first flagged test and by the healthy one before it. The theorem
  is about any set of speeds, where the run has three.
- `OutliersDoNotDecide`. The code sorts a window and takes its middle; the model
  says which value that is (`Smallest(w, k)`, the value below which fewer than k
  lie and up to which at least k do), so no induction over a sorting algorithm is
  needed. That the k-th smallest exists is shown with a greatest value among those
  with few enough below them (`SmallestIs`); that it exceeds half the measured speed
  then is a statement about how many tests do (`SmallestExceeds`, `MedianSays`). The
  trimmed mean is a running sum of the k-th smallest, bounded on both sides by
  multiples of the speed (`SumBounds`, `MeanSays`): it is a function on numbers,
  and the induction is on its index. The verdict on a test is about the tests before
  it, which are the same before and after it is appended (`BaseKept`). The
  hypothesis says that speeds are natural numbers; a baseline needs at
  least one sample, as in the code.

**Rollout**: `LineInv`: a version is reported only by a build that runs, a row asks
for a release, so a row becomes "applied" only if the release runs on this fleet.
`LineStops` is about one release, for any number of probes and heartbeats, with any
requests and faults. With a second release the row can be replaced between the
reading of a heartbeat and the writing of "applied" (section 8, get-then-set), and
the property is not claimed. `DeliveriesAreBounded` is about any number of
releases. Heartbeats that have read the row as pending may each deliver once more
than the limit. `DeliveryInv` bounds the counter by the limit while the row is
pending; after that, counter and heartbeats that have read and not yet written
(`Readers`) together do not exceed the limit and the number of heartbeats. Each of
them raises the counter by one and leaves that set; a new command resets it.

**Only model-checked**:

Liveness (`EventuallySettled`, `FollowsDns`, `NoGhostIncident`, `EventuallyTold`,
`TruthWins`, `RolloutGoesOn`, `PathFollowsRoute`, `Drains`, `GateGoesOn`,
`ChecksGoOn`, `FollowsCentral`, `RevokedStops`, `TimesKeepTesting`, `CatchesUp`):
the prover does not reason about fairness and `ENABLED`. The property of
`safety_rollback` is false (section 8). `TypeOK` of `Derate` and `ReleaseCheck` has
been checked by TLC alone: no property rests on it.

## 8. Where the repository's text and its code differ

One difference is a run that TLC finds violated, listed under `findings`:

- `safety_rollback`: when setcap fails after the new binary has replaced the old
  one, the old bytes are copied back into the new inode, which has no capability,
  and setcap is not run again: the file at the live path cannot probe after the
  next restart, the very state `internal/server/update.go:386` wants to avoid.
  `update.sh:184-186` runs setcap again after a restore;
  `internal/agent/updater.go` does not.

Others were found while modelling; the properties of section 3 are stated so that
they hold, and the exception they make is one of these.

*Delivery and probe process*

- The final flush posts and spills under one 10 s context, shorter than the
  client's 15 s timeout (`internal/agent/sink.go:155,167`); if the central hangs,
  the spill fails and "a clean agent shutdown loses nothing" does not hold.
- Dedup rows live 24 h from receipt, batches are accepted up to 24 h after their
  timestamps, which may be ahead of the central's clock: a late replay is inserted
  twice, while `docs/distributed-probing.md:124` calls replay "harmless".
  `NoDoubleInsert` states the window that is safe.
- `cmd/hoptrail/agent.go:139` says pipelines stop first; on SIGTERM the signal
  context is the parent of the sink's, so both stop together (`Sigterm`). The
  local sink likewise shares its context with the engine: what is written after
  its final flush is lost.
- A batch refused with 401 is dropped, not spilled (`internal/agent/sink.go:223`).
- Path snapshots have no time guard: a late post overwrites a newer one until
  the next (`FollowsCentral` is about "until the next").
- `DeleteProbe`'s comment says tokens are not bound to a probe id, but minted
  tokens are; a request admitted before revoke and forget can register the probe
  again after them.

*Targets and tabs*

- Remove and add of one target do not queue: the row is deleted after the lock
  was released, so an add in between is left without its row.
- A hostname that `Hydrate` cannot resolve keeps its row, `Remove` refuses
  targets that have no pipeline, and adding it again runs it with defaults.
- Overlapping `SetInterval` calls may leave the older value in the table; a client
  that leaves during `handleTabDelete` leaves the target probed.
- Two concurrent `CreateTab`s or a stale reorder give two tabs one position, which
  a comment in `ListTabs` says should not happen; a tab may be created for a probe
  forgotten since it was validated.

*Alerts*

- A raise dropped by the rate limiter is not retried after the cooldown, because
  the incident is already marked active.
- Raise, recovery and second raise in one quiet window read as "recovered" while
  the incident is active (`docs/user-guide.md:386`).
- `appendSummary` ignores a failed read of the pending entries and overwrites
  them.
- A crash between queueing the summary and deleting its row sends it twice; a
  failed state write can repeat or lose a *recovery*.

*Probe updates and self-update*

- `heartbeatUpdateFor` reads the row and writes it later: a report or cancel in
  between is overwritten, and a late "applying" report revives a finished row.
- A rollout polls for ever when the row it waits for is deleted: the loop skips
  its own deadline (the exception in `RolloutGoesOn`). An "applying" row of a
  probe that has fallen silent never times out.
- A cancelled command that was delivered is still carried out; two lost replies
  make "never acknowledged" of an update in progress; a rollout with an older
  target overlapping a newer command downgrades.
- An upload between the probe of the staged file and its rename installs an
  unprobed binary; overlapping applies are not serialised, and two in one second
  share a backup directory.

*Path and prober*

- A silent router at the former distance of the target keeps the old target TTL.
- A route change threshold above the capacity of the ring (10) never fires,
  though the configuration accepts it. `LastResponse` may go backwards.

*Bandwidth*

- At an interval, a failed lookup of the latest sample leaves no timer until the
  next reconfiguration, manual run or restart (`docs/user-guide.md:303`).
- `Reconfigure` is called non-blocking with the latest config winning; its
  drain-then-send can block a second PATCH, and the older config may win.
  Overlapping PATCHes lose each other's fields; one that fails between two rows
  leaves the runner untold; repeated ones restart the catch-up delay.
- `ComputeBandwidthBaseline`'s comment asks for "BOTH directions", its SQL for
  either. An outage below the floor that outlasts the window dries the baseline up
  and clears the flag as "bootstrapping". A failed latest test makes the status
  say "not derated" during an incident, and the status's baseline includes the
  test it judges. The page's dismissal reads the incident again after an await.

*Reverse DNS, log viewer*

- Row numbers are reused after a wipe, against "New IPs can only arrive via new
  rows": such rows are the exception in `NothingSkipped`.
- After a restart the viewer's cursor is ahead of the new ring and records are
  skipped; overlapping polls of one page would show records twice.

## 9. Not modelled, and why

- Log wording, JSON layout, message texts, `alert_history`, `target_history`,
  the attempts counter of the queue, RTT figures and statistics: no property
  depends on them. Attributed loss is a pure report over finished samples.
- `buildPipeline` errors (socket permissions at start-up), and the 5 s drain
  timeout of the probe's `runner.shutdown`: the model waits for the pipelines. A
  straggler's samples are lost at exit like those `Exit` gives up as late.
- Settings handlers, alert configuration, static files, CSRF, configuration
  parsing, capacity: one row, one formula or no state; sequential, and covered by
  table tests.
- Tab labels and order, bundles, annotations, and the queries behind charts: rows
  written by one statement each.
- The installers of ntfy and the speedtest CLI, the pausing of probes during a
  bandwidth test, archives and signatures of releases.
- The web UI and scripts: presentation and installation; where a page keeps a
  cursor or an incident, the module of its endpoint has it, marked external.
- What a migration does to its tables, and packets that are not the prober's.
- Two probes sharing one central in `Delivery`: `ingest_log` is keyed by batch ids
  that each probe draws at random, so probes do not meet there.

## 10. Plan

Every invariant and action property of the runs is proved. Open items:

1. The rollout with several releases: a statement about a probe that is left
   behind on the release the rollout was started for. The present property is
   false for them (section 8, get-then-set).
2. What the operators of `routing.go` return: that `Consecutive` is a run at the
   front of the ring and `ModalIP` an address no other one exceeds.
3. An abstract specification of `Migrations` (each version applied once, in
   order) and its refinement; `SchemaIsTrue` states the same of single states.
4. Liveness, once the prover supports `ENABLED`.
