------------------------------- MODULE Alerts -------------------------------
(***************************************************************************)
(* Alerting: the evaluator of internal/alert/engine.go (Tick, step, raise, *)
(* deliver, the quiet-hours summary, the orphan sweep), the delivery loop  *)
(* of internal/alert/sender.go, clearSubjectAlertStates of                 *)
(* internal/server/alerts.go and the tables alert_state, alert_queue and   *)
(* the summary row of config.                                              *)
(*                                                                         *)
(* A key is one "event|subject"; its subject, a probe or a target, may come *)
(* and go (the subjects of derate and capacity just never do).  Times are  *)
(* ages that stop counting once nothing compares them any more, so no      *)
(* bound on the run is needed.  alert_history, message texts and the       *)
(* attempts counter are left out; the summary keeps what flushSummary      *)
(* reads of it: per key, whether a raise and whether a recovery was        *)
(* buffered.                                                               *)
(***************************************************************************)
EXTENDS Naturals, Sequences

CONSTANTS
  Key,        \* incidents: event type and subject
  Debounced,  \* those whose condition is debounced upstream (sustain 0)
  Sustain,    \* cfg.SustainS
  Cooldown,   \* cfg.CooldownS
  Hour,       \* the rate limiter's sliding window
  Token,      \* one token per notification cfg.RateLimitPerH allows
  MaxQueue,   \* notifications in alert_queue (bound)
  Faults      \* what may go wrong: "state", "enqueue", "summary" and "delete" are
              \* statements, "provider" an evaluation, "crash" the process

ASSUME AlertsAssumption ==
  /\ Debounced \subseteq Key
  /\ Faults \subseteq {"state", "enqueue", "summary", "delete", "provider", "crash"}
  /\ Key # {} /\ Sustain \in Nat /\ Cooldown \in Nat /\ Hour \in Nat /\ MaxQueue \in Nat

VARIABLES
  cond, subj,     \* the world: conditions that hold, subjects monitored
  quiet, on,      \* the quiet window; the rules switched on (cfg.Enabled, cfg.Event...)
  row, rowNotified, rowAge,  \* alert_state: state, notified_at set, now - since
  summary,        \* alert.summary_pending
  queue,          \* alert_queue, oldest first
  coolAge,        \* now - lastRaised, volatile; Cooldown = no longer matters
  tokenAge,       \* age of each use of the rate limit, volatile; Hour = unused
  tokenKey,       \* history: the incident each use was for, since its last sweep
  clearing,       \* requests about to call clearSubjectAlertStates
  tpc, todo, sweep, tquiet,    \* the tick in progress: see TickState
  snap, snapNotified, snapAge, \* its stateOf
  wkey, wrow, wnotified, wage, \* the state row step is about to write
  sender,         \* Sender.Run: "idle", or what the last post returned
  owed,           \* history: alerts accepted and not yet sent (or refused)
  last            \* history: what became of a key's last raise or recovery

worldVars  == <<cond, subj, quiet, on, clearing>>
rowVars    == <<row, rowNotified, rowAge>>
tokenVars  == <<tokenAge, tokenKey>>
gateVars   == <<coolAge, tokenVars>>
snapVars   == <<snap, snapNotified, snapAge>>
writeVars  == <<wkey, wrow, wnotified, wage>>
tickVars   == <<tpc, todo, sweep, tquiet, snapVars, writeVars>>
ghostVars  == <<owed, last>>
vars == <<worldVars, rowVars, summary, queue, gateVars, tickVars, sender, ghostVars>>

RowState  == {"none", "raising", "active"}
TickState == {"idle", "subjects", "step", "write"}
Kind      == {"alert", "recovered", "summary"}
Told      == {"none", "alert", "recovered", "suppressed", "dropped", "failed"}
Pairs     == [Key -> SUBSET {"raise", "recover"}]
NoPairs   == [k \in Key |-> {}]
Notification == [kind : Kind, key : Key, pairs : Pairs]
AnyKey    == CHOOSE k \in Key : TRUE

Outcomes(f) == IF f \in Faults THEN BOOLEAN ELSE {TRUE}

Init ==
  /\ cond = {} /\ subj = Key /\ quiet = FALSE /\ on = Key /\ clearing = {}
  /\ row = [k \in Key |-> "none"] /\ rowNotified = [k \in Key |-> FALSE]
  /\ rowAge = [k \in Key |-> 0]
  /\ summary = NoPairs /\ queue = <<>>
  /\ coolAge = [k \in Key |-> Cooldown] /\ tokenAge = [i \in Token |-> Hour]
  /\ tokenKey = [i \in Token |-> {}]
  /\ tpc = "idle" /\ todo = {} /\ sweep = {} /\ tquiet = FALSE
  /\ snap = row /\ snapNotified = rowNotified /\ snapAge = rowAge
  /\ wkey = AnyKey /\ wrow = "none" /\ wnotified = FALSE /\ wage = 0
  /\ sender = "idle"
  /\ owed = {} /\ last = [k \in Key |-> "none"]

-----------------------------------------------------------------------------
(* Delivery: deliver() with its gates.                                      *)

Message(kind, k, pairs) == [kind |-> kind, key |-> k, pairs |-> pairs]

Enqueue(m) == Len(queue) < MaxQueue /\ queue' = Append(queue, m)

(* What an accepted message adds to the history.                            *)
Accept(k, recovery) ==
  /\ last' = [last EXCEPT ![k] = IF recovery THEN "recovered" ELSE "alert"]
  /\ owed' = IF recovery THEN owed ELSE owed \cup {k}

(* Nothing was queued or buffered, for the reason given.                    *)
Refuse(k, why) ==
  /\ last' = [last EXCEPT ![k] = why] /\ UNCHANGED <<queue, summary, owed>>

(* Quiet hours: appendSummary.                                              *)
Buffer(k, recovery, ok) ==
  /\ tquiet /\ ok \in Outcomes("summary") /\ UNCHANGED tokenVars
  /\ IF ok
     THEN /\ summary' = [summary EXCEPT ![k] = @ \cup {IF recovery THEN "recover" ELSE "raise"}]
          /\ Accept(k, recovery) /\ UNCHANGED queue
     ELSE Refuse(k, IF recovery THEN last[k] ELSE "failed")

Spent(i) == tokenAge[i] < Hour

(* The sliding hour is full.                                                *)
RateLimited(k) ==
  /\ ~tquiet /\ \A i \in Token : Spent(i)
  /\ Refuse(k, "dropped") /\ UNCHANGED tokenVars

(* Recoveries ride free; an alert spends a token before it is queued.       *)
Send(k, recovery, ok) ==
  /\ ~tquiet /\ ok \in Outcomes("enqueue")
  /\ IF recovery THEN UNCHANGED tokenVars
     ELSE \E i \in Token : /\ ~Spent(i)
                           /\ tokenAge' = [tokenAge EXCEPT ![i] = 0]
                           /\ tokenKey' = [tokenKey EXCEPT ![i] = {k}]
  /\ IF ok
     THEN /\ Enqueue(Message(IF recovery THEN "recovered" ELSE "alert", k, NoPairs))
          /\ Accept(k, recovery) /\ UNCHANGED summary
     ELSE Refuse(k, IF recovery THEN last[k] ELSE "failed")

(* deliver(ctx, cfg, now, event, subject, ...): ok is what it returns.      *)
Deliver(k, recovery, ok) ==
  \/ Buffer(k, recovery, ok)
  \/ ~recovery /\ ~ok /\ RateLimited(k)
  \/ Send(k, recovery, ok)

-----------------------------------------------------------------------------
(* One pass of Tick.                                                        *)

(* Mutant: the summary row is deleted although nothing was queued.          *)
FlushForgets ==
  IF summary = NoPairs THEN UNCHANGED <<summary, queue>>
  ELSE summary' = NoPairs /\ UNCHANGED queue

(* flushSummary: one message for all keys, then the row is deleted; a       *)
(* failed enqueue keeps the row, a failed delete (or a crash in between)    *)
(* keeps a row that has been sent.                                          *)
FlushSummary ==
  IF summary = NoPairs THEN UNCHANGED <<summary, queue>>
  ELSE \/ /\ Enqueue(Message("summary", AnyKey, summary))
          /\ \E gone \in Outcomes("delete") : summary' = IF gone THEN NoPairs ELSE summary
       \/ FALSE \in Outcomes("enqueue") /\ UNCHANGED <<summary, queue>>

(* The head of Tick: flush when not quiet, then read the state rows.  todo  *)
(* holds the rules that are on until their subjects are known.              *)
TickStart ==
  /\ tpc = "idle" /\ tquiet' = (quiet /\ on # {})
  /\ IF quiet THEN UNCHANGED <<summary, queue>> ELSE FlushSummary
  /\ IF on # {}
     THEN /\ tpc' = "subjects" /\ todo' = on
          /\ snap' = row /\ snapNotified' = rowNotified /\ snapAge' = rowAge
     ELSE UNCHANGED <<tpc, todo, snapVars>>
  /\ UNCHANGED <<worldVars, rowVars, gateVars, sweep, writeVars, sender, ghostVars>>

(* Mutant: the sweep runs over the subjects that are still there.           *)
OrphansNone(gone) == {}

(* The state rows of subjects no longer monitored.                          *)
Orphans(gone) == {k \in gone : snap[k] # "none"}

(* Probes() and Targets(): who is monitored now.                            *)
TickSubjects ==
  /\ tpc = "subjects" /\ tpc' = "step"
  /\ todo' = todo \cap subj /\ sweep' = Orphans(todo \ subj)
  /\ UNCHANGED <<worldVars, rowVars, summary, queue, gateVars, tquiet, snapVars, writeVars,
                 sender, ghostVars>>

Write(k, st, notified, age) ==
  /\ tpc' = "write" /\ wkey' = k /\ wrow' = st /\ wnotified' = notified /\ wage' = age

(* Mutant: the marker records deliveries, not attempts.                     *)
CoolingDelivered(k) == coolAge[k] < Cooldown /\ last[k] # "failed"

Cooling(k) == coolAge[k] < Cooldown

(* raise: the incident becomes active; the cooldown is checked and its      *)
(* marker set before the attempt.                                           *)
Raise(k, age) ==
  IF Cooling(k)
  THEN /\ Write(k, "active", FALSE, age)
       /\ Refuse(k, "suppressed") /\ UNCHANGED gateVars
  ELSE /\ coolAge' = [coolAge EXCEPT ![k] = 0]
       /\ \E ok \in BOOLEAN : Deliver(k, FALSE, ok) /\ Write(k, "active", ok, age)

SustainOf(k) == IF k \in Debounced THEN 0 ELSE Sustain

(* Mutant: a recovery for every active incident.                            *)
OwesRecoveryAlways(k) == snap[k] = "active"

(* "Recovery message only if the alert actually went out."                  *)
OwesRecovery(k) == snap[k] = "active" /\ snapNotified[k]

(* step: first sighting, sustained, or cleared, all judged by the state     *)
(* rows read at the start of the tick.                                      *)
StepRaise(k) ==
  /\ tpc = "step" /\ k \in todo /\ k \in cond /\ todo' = todo \ {k}
  /\ \/ /\ snap[k] = "none" /\ SustainOf(k) = 0 /\ Raise(k, 0)
     \/ /\ snap[k] = "none" /\ SustainOf(k) > 0 /\ Write(k, "raising", FALSE, 0)
        /\ UNCHANGED <<summary, queue, gateVars, ghostVars>>
     \/ /\ snap[k] = "raising" /\ snapAge[k] >= SustainOf(k) /\ Raise(k, snapAge[k])
     \/ /\ \/ snap[k] = "raising" /\ snapAge[k] < SustainOf(k)
           \/ snap[k] = "active"
        /\ UNCHANGED <<tpc, writeVars, summary, queue, gateVars, ghostVars>>
  /\ UNCHANGED <<worldVars, rowVars, sweep, tquiet, snapVars, sender>>

StepClear(k) ==
  /\ tpc = "step" /\ k \in todo /\ k \notin cond /\ todo' = todo \ {k}
  /\ \/ /\ OwesRecovery(k)
        /\ \E ok \in BOOLEAN : Deliver(k, TRUE, ok)
        /\ Write(k, "none", FALSE, 0)
     \/ /\ ~OwesRecovery(k) /\ snap[k] # "none" /\ Write(k, "none", FALSE, 0)
        /\ UNCHANGED <<summary, queue, tokenVars, ghostVars>>
     \/ /\ snap[k] = "none"
        /\ UNCHANGED <<tpc, writeVars, summary, queue, tokenVars, ghostVars>>
  /\ UNCHANGED <<worldVars, rowVars, coolAge, sweep, tquiet, snapVars, sender>>

(* Too few samples, or an invalid measurement: no verdict either way.       *)
StepNoVerdict(k) ==
  /\ tpc = "step" /\ k \in todo /\ todo' = todo \ {k}
  /\ UNCHANGED <<worldVars, rowVars, summary, queue, gateVars, tpc, sweep, tquiet,
                 snapVars, writeVars, sender, ghostVars>>

SetRow(k, st, notified, age) ==
  /\ row' = [row EXCEPT ![k] = st] /\ rowNotified' = [rowNotified EXCEPT ![k] = notified]
  /\ rowAge' = [rowAge EXCEPT ![k] = age]

(* UpsertAlertState or DeleteAlertState; an error is only logged.           *)
StepWrite ==
  /\ tpc = "write" /\ tpc' = "step"
  /\ \E ok \in Outcomes("state") :
       IF ok THEN SetRow(wkey, wrow, wnotified, wage) ELSE UNCHANGED rowVars
  /\ wkey' = AnyKey /\ wrow' = "none" /\ wnotified' = FALSE /\ wage' = 0
  /\ UNCHANGED <<worldVars, summary, queue, gateVars, todo, sweep, tquiet, snapVars,
                 sender, ghostVars>>

(* A provider's error makes Tick return early, before the sweep.            *)
TickFails ==
  /\ "provider" \in Faults /\ tpc = "step" /\ todo # {}
  /\ tpc' = "idle" /\ todo' = {} /\ sweep' = {} /\ tquiet' = FALSE
  /\ snap' = [k \in Key |-> "none"] /\ snapNotified' = [k \in Key |-> FALSE]
  /\ snapAge' = [k \in Key |-> 0]
  /\ UNCHANGED <<worldVars, rowVars, summary, queue, gateVars, writeVars, sender, ghostVars>>

(* The orphan sweep: the rows of subjects that are gone.                    *)
ClearOrphan(k) ==
  /\ tpc = "step" /\ todo = {} /\ k \in sweep /\ sweep' = sweep \ {k}
  /\ \E ok \in Outcomes("state") :
       IF ok
       THEN /\ SetRow(k, "none", FALSE, 0) /\ coolAge' = [coolAge EXCEPT ![k] = Cooldown]
            /\ tokenKey' = [i \in Token |-> tokenKey[i] \ {k}]
       ELSE UNCHANGED <<rowVars, coolAge, tokenKey>>
  /\ UNCHANGED <<worldVars, summary, queue, tokenAge, tpc, todo, tquiet, snapVars, writeVars,
                 sender, ghostVars>>

TickEnd ==
  /\ tpc = "step" /\ todo = {} /\ sweep = {} /\ tpc' = "idle" /\ tquiet' = FALSE
  /\ snap' = [k \in Key |-> "none"] /\ snapNotified' = [k \in Key |-> FALSE]
  /\ snapAge' = [k \in Key |-> 0]
  /\ UNCHANGED <<worldVars, rowVars, summary, queue, gateVars, todo, sweep, writeVars, sender,
                 ghostVars>>

-----------------------------------------------------------------------------
(* The sender.                                                              *)

(* NextQueuedAlert and post: 2xx, a 4xx other than 429, or anything else,   *)
(* which is tried again later.                                              *)
Post(res) ==
  /\ sender = "idle" /\ queue # <<>> /\ sender' = res
  /\ UNCHANGED <<worldVars, rowVars, summary, queue, gateVars, tickVars, ghostVars>>

(* Mutant: the item is deleted whatever the post returned.                  *)
DoneWithAnyway(res) == TRUE

DoneWith(res) == res \in {"ok", "permanent"}

(* The alerts a message tells the operator about.                           *)
Tells(m) == IF m.kind = "alert" THEN {m.key}
            ELSE IF m.kind = "summary" THEN {k \in Key : "raise" \in m.pairs[k]} ELSE {}

(* DeleteQueuedAlert, whose error is ignored: the item is then sent again.  *)
(* A failed post leaves the item.                                           *)
Delete ==
  /\ sender # "idle" /\ sender' = "idle"
  /\ \E ok \in Outcomes("delete") :
       queue' = IF DoneWith(sender) /\ ok THEN Tail(queue) ELSE queue
  /\ owed' = IF sender \in {"ok", "permanent"} THEN owed \ Tells(Head(queue)) ELSE owed
  /\ UNCHANGED <<worldVars, rowVars, summary, gateVars, tickVars, last>>

-----------------------------------------------------------------------------
(* Everything else.                                                         *)

(* A condition starts or ends.                                              *)
Flip(k) ==
  /\ cond' = IF k \in cond THEN cond \ {k} ELSE cond \cup {k}
  /\ UNCHANGED <<subj, quiet, on, clearing, rowVars, summary, queue, gateVars, tickVars,
                 sender, ghostVars>>

(* A subject stops being monitored.  DELETE of a probe or target goes on to *)
(* clear its state row; a closed tab's cascade does not.                    *)
Forget(k, handler) ==
  /\ k \in subj /\ subj' = subj \ {k}
  /\ clearing' = IF handler THEN clearing \cup {k} ELSE clearing
  /\ UNCHANGED <<cond, quiet, on, rowVars, summary, queue, gateVars, tickVars, sender,
                 ghostVars>>

(* clearSubjectAlertStates: best effort, while a tick may be running.       *)
ClearSubjectAlertStates(k) ==
  /\ k \in clearing /\ clearing' = clearing \ {k}
  /\ \E ok \in Outcomes("state") : IF ok THEN SetRow(k, "none", FALSE, 0) ELSE UNCHANGED rowVars
  /\ UNCHANGED <<cond, subj, quiet, on, summary, queue, gateVars, tickVars, sender, ghostVars>>

(* A target is added, or a forgotten probe sends a heartbeat.               *)
AddSubject(k) ==
  /\ k \notin subj /\ subj' = subj \cup {k}
  /\ UNCHANGED <<cond, quiet, on, clearing, rowVars, summary, queue, gateVars, tickVars,
                 sender, ghostVars>>

(* The window is compared with the time the tick started at.                *)
QuietToggles ==
  /\ tpc = "idle" /\ quiet' = ~quiet
  /\ UNCHANGED <<cond, subj, on, clearing, rowVars, summary, queue, gateVars, tickVars,
                 sender, ghostVars>>

(* PATCH of the alert configuration: rules are switched on or off.          *)
Reconfigure(rules) ==
  /\ on' = rules
  /\ UNCHANGED <<cond, subj, quiet, clearing, rowVars, summary, queue, gateVars, tickVars,
                 sender, ghostVars>>

Older(age, most) == IF age < most THEN age + 1 ELSE age

(* Time passes.  A tick takes no time worth the name.                       *)
Clock ==
  /\ tpc = "idle"
  /\ rowAge' = [k \in Key |-> IF row[k] = "none" THEN 0 ELSE Older(rowAge[k], Sustain)]
  /\ coolAge' = [k \in Key |-> Older(coolAge[k], Cooldown)]
  /\ tokenAge' = [i \in Token |-> Older(tokenAge[i], Hour)]
  /\ tokenKey' = [i \in Token |-> IF tokenAge'[i] < Hour THEN tokenKey[i] ELSE {}]
  /\ UNCHANGED <<worldVars, row, rowNotified, summary, queue, tickVars, sender, ghostVars>>

(* The process dies and is started again: tables stay, memory does not.     *)
Restart ==
  /\ "crash" \in Faults
  /\ coolAge' = [k \in Key |-> Cooldown] /\ tokenAge' = [i \in Token |-> Hour]
  /\ tokenKey' = [i \in Token |-> {}] /\ clearing' = {}
  /\ tpc' = "idle" /\ todo' = {} /\ sweep' = {} /\ tquiet' = FALSE
  /\ snap' = [k \in Key |-> "none"] /\ snapNotified' = [k \in Key |-> FALSE]
  /\ snapAge' = [k \in Key |-> 0]
  /\ wkey' = AnyKey /\ wrow' = "none" /\ wnotified' = FALSE /\ wage' = 0
  /\ sender' = "idle"
  /\ UNCHANGED <<cond, subj, quiet, on, rowVars, summary, queue, ghostVars>>

-----------------------------------------------------------------------------
Step(k) == StepRaise(k) \/ StepClear(k) \/ StepNoVerdict(k)

Tick ==
  \/ TickStart \/ TickSubjects \/ StepWrite \/ TickFails \/ TickEnd
  \/ \E k \in Key : Step(k) \/ ClearOrphan(k)

Sender == Delete \/ \E res \in {"ok", "permanent", "retry"} : Post(res)

World ==
  \/ \E k \in Key : Flip(k) \/ ClearSubjectAlertStates(k) \/ AddSubject(k)
  \/ \E k \in Key, handler \in BOOLEAN : Forget(k, handler)
  \/ \E rules \in SUBSET Key : Reconfigure(rules)
  \/ QuietToggles \/ Clock \/ Restart

Next == Tick \/ Sender \/ World
Spec == Init /\ [][Next]_vars

(* Run and Sender.Run are loops on tickers of their own.  A tick lasts      *)
(* seconds and comes every 15 s, so it also meets the time outside quiet    *)
(* hours, and the server is reached again and again however many posts fail.*)
Fairness ==
  /\ WF_vars(Tick) /\ SF_vars(~quiet /\ TickStart)
  /\ \A k \in Key : SF_vars(StepRaise(k))
  /\ WF_vars(Delete) /\ SF_vars(Post("ok")) /\ WF_vars(Clock)

FairSpec == Spec /\ Fairness
-----------------------------------------------------------------------------
WorldType ==
  /\ cond \subseteq Key /\ subj \subseteq Key /\ on \subseteq Key /\ clearing \subseteq Key
  /\ quiet \in BOOLEAN
RowType ==
  /\ row \in [Key -> RowState] /\ rowNotified \in [Key -> BOOLEAN] /\ rowAge \in [Key -> 0..Sustain]
QueueType ==
  /\ summary \in Pairs /\ queue \in Seq(Notification)
  /\ sender \in {"idle", "ok", "permanent", "retry"} /\ (sender # "idle" => queue # <<>>)
  /\ owed \subseteq Key
GateType ==
  /\ coolAge \in [Key -> 0..Cooldown] /\ tokenAge \in [Token -> 0..Hour]
  /\ tokenKey \in [Token -> SUBSET Key]
SnapType ==
  /\ snap \in [Key -> RowState] /\ snapNotified \in [Key -> BOOLEAN]
  /\ snapAge \in [Key -> 0..Sustain]
TickType ==
  /\ tpc \in TickState /\ todo \subseteq Key /\ sweep \subseteq Key /\ tquiet \in BOOLEAN
  /\ wkey \in Key /\ wrow \in RowState /\ wnotified \in BOOLEAN /\ wage \in 0..Sustain

(* The values every variable may take.                                       *)
TypeOK ==
  WorldType /\ RowType /\ QueueType /\ GateType /\ SnapType /\ TickType /\ last \in [Key -> Told]

(* Undelivered notifications queue durably: an alert deliver accepted is    *)
(* in the summary row or in alert_queue until the server has answered it,   *)
(* whatever ticks, crashes and failing statements come in between.          *)
NothingLost ==
  \A k \in owed : "raise" \in summary[k] \/ \E i \in 1..Len(queue) : k \in Tells(queue[i])

FollowsAlert ==
  \A k \in Key : last'[k] = "recovered" /\ last[k] # "recovered" => last[k] = "alert"

(* "Recovery message only if the alert actually went out": no recovery is   *)
(* accepted unless the last raise of the incident was, although step works  *)
(* from state rows that were read before and may have been rewritten since. *)
RecoveryHasAlert == [][FollowsAlert]_vars

(* One subject raises at most once per cooldown however broken storage is   *)
(* (the 2026-08 raise loop), so it cannot eat the hourly limit of the rest; *)
(* only a subject that was removed and swept starts fresh.                  *)
RaiseLoopBounded ==
  \A k \in Key : \A i, j \in Token :
    k \in tokenKey[i] \cap tokenKey[j] /\ tokenAge[i] < Cooldown /\ tokenAge[j] < Cooldown
    => i = j

(* An incident whose subject is gone for good does not stay on the status   *)
(* card, whether its handler cleared it, a tick that had read the old row   *)
(* wrote it back, or nobody cleared it at all.                              *)
NoGhostIncident ==
  \A k \in Key : <>[](k \notin subj /\ k \in on) => <>[](row[k] = "none")

(* An accepted alert reaches the server (or is refused by it for good)      *)
(* unless quiet hours never end.                                            *)
EventuallyTold ==
  \A k \in Key : []<>(~quiet) => (k \in owed ~> k \notin owed)

-----------------------------------------------------------------------------
(* The invariants the proofs rest on.                                        *)

(* While a use of the limit is younger than the cooldown, so is the marker   *)
(* in lastRaised of the incident it was for.                                 *)
GateInv ==
  /\ RaiseLoopBounded
  /\ \A k \in Key, i \in Token :
       k \in tokenKey[i] /\ tokenAge[i] < Cooldown => coolAge[k] <= tokenAge[i]

Alerted(k)  == last[k] \in {"alert", "recovered"}
Notified(k) == row[k] = "active" /\ rowNotified[k]

(* A row, a row as the tick has read it, or a row about to be written says   *)
(* notified only if the alert was accepted; and for an incident the tick has *)
(* still to evaluate, the table says so only if what it has read does.       *)
TellInv ==
  /\ \A k \in Key : Notified(k) => Alerted(k)
  /\ tpc # "idle" => \A k \in todo : (OwesRecovery(k) => Alerted(k))
                                     /\ (Notified(k) => OwesRecovery(k))
  /\ tpc = "write" => wkey \notin todo /\ (wrow = "active" /\ wnotified => Alerted(wkey))

(* The inductive invariant behind NothingLost, RaiseLoopBounded and          *)
(* RecoveryHasAlert.                                                         *)
AlertsInv == NothingLost /\ GateInv /\ TellInv
=============================================================================
