---------------------------- MODULE AgentTargets ----------------------------
(***************************************************************************)
(* The pipelines of a remote probe (agentRunner in cmd/hoptrail/agent.go)  *)
(* follow the target set that the central returns with each heartbeat, and *)
(* their path snapshots reach the central (internal/server/ingest.go).     *)
(* Heartbeats are serial; a reply may be lost, unreadable or out of date   *)
(* when it is applied.  A hostname's pipeline has a loop that looks the    *)
(* name up again: it reads the answer without r.mu, and by the time it has *)
(* the lock its own pipeline may have been replaced.                       *)
(***************************************************************************)
EXTENDS Naturals, FiniteSets

CONSTANTS
  Target,    \* the targets a central may monitor
  Host,      \* those that are hostnames, the others are addresses
  Addr,      \* the answers of the resolver
  Nil,       \* no address, no pipeline, no reply
  Slot,      \* how many pipelines of one target may be around, stopped ones included
  Changes,   \* how often the operator or the resolver changes something or a message is lost
  Token      \* what the central makes of the token the probe is started with

VARIABLES
  assigned,  \* the targets of the central's supervisor
  dns,       \* what a name resolves to, Nil while the lookup fails
  token,     \* "bound": minted for this probe, "yaml", "another": of another probe, "unknown"
  proc,      \* the probe: "up", "stopped" (shutdown holds the pipelines), "drained", "down"
  reply,     \* the answer to the heartbeat in progress
  pipelines, \* r.pipelines: the slot of a target's pipeline
  pipe,      \* each pipeline: its address, its context, its re-resolve loop and its POST
  shown,     \* path_snapshots: the address whose path is the target's, by this probe
  budget     \* changes and losses left

vars == <<assigned, dns, token, proc, reply, pipelines, pipe, shown, budget>>
environment == <<assigned, dns, token, budget>>

Free == [addr |-> Nil, live |-> FALSE, loop |-> "none", post |-> "none"]

Init ==
  /\ assigned \in SUBSET Target /\ dns \in [Host -> Addr] /\ token \in Token
  /\ proc = "down" /\ reply = Nil
  /\ pipelines = [t \in Target |-> Nil]
  /\ pipe = [p \in Target \X Slot |-> Free]
  /\ shown = [t \in Target |-> Nil] /\ budget = Changes

-----------------------------------------------------------------------------
(* The central.                                                             *)

(* The rows of probe_tokens: a token is bound to the probe it is named for. *)
ProbeTokenBindings == {"bound", "another"}

(* authAgent: minted tokens first, then those of the yaml.                  *)
AuthAgent == token \in ProbeTokenBindings \/ token = "yaml"

(* A minted token speaks for its own probe only, a yaml token for any.      *)
RequireProbeBinding == token # "another"

(* Mutant: a stored snapshot is kept.                                       *)
UpsertPathSnapshotOnce(t, a) == shown' = [shown EXCEPT ![t] = IF @ = Nil THEN a ELSE @]

(* The row (probe_id, target) is replaced, whatever its ts.                 *)
UpsertPathSnapshot(t, a) == shown' = [shown EXCEPT ![t] = a]

(* What /api/path has for this probe: the last snapshot stored.             *)
GetPathSnapshot(t) == shown[t]

(* handleIngestHeartbeat: the set is read when the beat is handled.         *)
HandleIngestHeartbeat ==
  /\ proc \in {"up", "stopped"} /\ reply = Nil
  /\ reply' = [ok |-> AuthAgent /\ RequireProbeBinding, set |-> assigned]
  /\ UNCHANGED <<environment, proc, pipelines, pipe, shown>>

Change == budget > 0 /\ budget' = budget - 1

(* The supervisor's set changes; the address behind a name does, or its     *)
(* lookup fails; the token is revoked; the probe is forgotten and its       *)
(* snapshots with it.                                                       *)
SetTargets(set) ==
  /\ Change /\ set # assigned /\ assigned' = set
  /\ UNCHANGED <<dns, token, proc, reply, pipelines, pipe, shown>>

ResolverChanges(h, a) ==
  /\ Change /\ a # dns[h] /\ dns' = [dns EXCEPT ![h] = a]
  /\ UNCHANGED <<assigned, token, proc, reply, pipelines, pipe, shown>>

DeleteProbeToken ==
  /\ Change /\ token \in ProbeTokenBindings /\ token' = "unknown"
  /\ UNCHANGED <<assigned, dns, proc, reply, pipelines, pipe, shown>>

DeleteProbe ==
  /\ Change /\ (\E t \in Target : shown[t] # Nil) /\ shown' = [t \in Target |-> Nil]
  /\ UNCHANGED <<assigned, dns, token, proc, reply, pipelines, pipe>>

-----------------------------------------------------------------------------
(* The pipelines of the probe.  What follows runs under r.mu.               *)

Resolve(t) == IF t \in Host THEN dns[t] ELSE t

Spare(t) == {s \in Slot : pipe[<<t, s>>].addr = Nil}
NextSlot(t) == CHOOSE s \in Spare(t) : TRUE

(* buildPipeline: the engine, discovery, pinger and poster start under a    *)
(* context of their own, a hostname's loop with them.                       *)
BuildPipeline(t) ==
  [addr |-> Resolve(t), live |-> TRUE, loop |-> IF t \in Host THEN "wait" ELSE "none",
   post |-> "none"]

(* A pipeline whose context is cancelled is gone when its loop and its POST *)
(* are.                                                                     *)
Settled(r) == IF r.live \/ r.loop # "none" \/ r.post # "none" THEN r ELSE Free

Cancelled(r) == Settled([r EXCEPT !.live = FALSE])

(* Mutant: reconcile after shutdown.                                        *)
ReconcilesAlways == TRUE

Reconciles == proc = "up"

Unwanted(set) == {t \in Target \ set : pipelines[t] # Nil}

(* The targets that get a pipeline: a failed lookup is skipped.             *)
Missing(set) == {t \in set : pipelines[t] = Nil /\ Resolve(t) # Nil}

Reconcile(set) ==
  LET gone == Unwanted(set)
      new  == Missing(set)
  IN IF ~Reconciles THEN UNCHANGED <<pipelines, pipe>>
     ELSE /\ \A t \in new : Spare(t) # {}
          /\ pipelines' = [t \in Target |-> IF t \in gone THEN Nil
                                            ELSE IF t \in new THEN NextSlot(t)
                                            ELSE pipelines[t]]
          /\ pipe' = [p \in Target \X Slot |->
                        IF p[1] \in gone /\ p[2] = pipelines[p[1]] THEN Cancelled(pipe[p])
                        ELSE IF p[1] \in new /\ p[2] = NextSlot(p[1]) THEN BuildPipeline(p[1])
                        ELSE pipe[p]]

(* shutdown takes the map away from under the others, then cancels what it  *)
(* held.                                                                    *)
MarkStopped == proc' = "stopped"

(* Mutant: a refused token is one more failed beat.                         *)
OnRefusedRetry == UNCHANGED proc

(* RunHeartbeat returns an error: runAgent takes everything down.           *)
OnRefused == IF proc = "up" THEN MarkStopped ELSE UNCHANGED proc

(* beatOnce, when the answer is there.                                      *)
BeatOnce ==
  /\ reply # Nil /\ reply' = Nil
  /\ IF reply.ok THEN Reconcile(reply.set) /\ UNCHANGED proc
                 ELSE OnRefused /\ UNCHANGED <<pipelines, pipe>>
  /\ UNCHANGED <<environment, shown>>

(* Or it is lost, or does not parse.                                        *)
BeatFails ==
  /\ reply # Nil /\ Change /\ reply' = Nil
  /\ UNCHANGED <<assigned, dns, token, proc, pipelines, pipe, shown>>

-----------------------------------------------------------------------------
(* The loops of the pipelines.                                              *)

(* Mutant: a failed lookup ends the loop.                                   *)
LookupGivesUp(t, s) ==
  [pipe[<<t, s>>] EXCEPT !.loop = IF dns[t] = Nil THEN "none"
                              ELSE IF dns[t] = pipe[<<t, s>>].addr THEN "wait" ELSE "changed"]

(* runReresolve at its tick, before it asks for r.mu.                       *)
Lookup(t, s) ==
  [pipe[<<t, s>>] EXCEPT !.loop = IF dns[t] \in {Nil, pipe[<<t, s>>].addr} THEN "wait" ELSE "changed"]

ReresolveTick(t, s) ==
  /\ pipe[<<t, s>>].live /\ pipe[<<t, s>>].loop = "wait"
  /\ Lookup(t, s) # pipe[<<t, s>>] /\ pipe' = [pipe EXCEPT ![<<t, s>>] = Lookup(t, s)]
  /\ UNCHANGED <<environment, proc, reply, pipelines, shown>>

(* Mutant: the loop stops the pipeline it was started for.                  *)
VictimOwn(t, s) == s

(* The loop replaces the pipeline the map has now, not the one it belongs   *)
(* to.                                                                      *)
Victim(t, s) == pipelines[t]

(* runReresolve once it has r.mu.  The pipeline is stopped before the new   *)
(* one is built, and the build looks the name up once more.                 *)
ReresolveRebuild(t, s) ==
  LET ended == [pipe EXCEPT ![<<t, s>>] = Settled([@ EXCEPT !.loop = "none"])]
      there == proc = "up" /\ pipelines[t] # Nil
      freed == [ended EXCEPT ![<<t, Victim(t, s)>>] = Cancelled(@)]
      spare == {n \in Slot : freed[<<t, n>>].addr = Nil}
      n     == CHOOSE k \in spare : TRUE
  IN /\ pipe[<<t, s>>].loop = "changed"
     /\ \/ /\ ~there /\ pipe' = ended /\ UNCHANGED pipelines
        \/ /\ there /\ Resolve(t) = Nil
           /\ pipe' = freed /\ pipelines' = [pipelines EXCEPT ![t] = Nil]
        \/ /\ there /\ Resolve(t) # Nil /\ spare # {}
           /\ pipe' = [freed EXCEPT ![<<t, n>>] = BuildPipeline(t)]
           /\ pipelines' = [pipelines EXCEPT ![t] = n]
     /\ UNCHANGED <<environment, proc, reply, shown>>

(* A loop that waits for its tick ends with its context.                    *)
ReresolveEnds(t, s) ==
  /\ ~pipe[<<t, s>>].live /\ pipe[<<t, s>>].loop = "wait"
  /\ pipe' = [pipe EXCEPT ![<<t, s>>] = Settled([@ EXCEPT !.loop = "none"])]
  /\ UNCHANGED <<environment, proc, reply, pipelines, shown>>

(* runSnapshotPoster: one POST at a time, nothing is retried.               *)
PostSnapshot(t, s) ==
  /\ pipe[<<t, s>>].live /\ pipe[<<t, s>>].post = "none"
  /\ pipe' = [pipe EXCEPT ![<<t, s>>].post = "sent"]
  /\ UNCHANGED <<environment, proc, reply, pipelines, shown>>

(* handleIngestPath: who sends it is looked up in one step, the snapshot    *)
(* stored in another, and the probe may have stopped the pipeline before    *)
(* either.                                                                  *)
HandleIngestPath(t, s) ==
  /\ pipe[<<t, s>>].post = "sent" /\ AuthAgent /\ RequireProbeBinding
  /\ pipe' = [pipe EXCEPT ![<<t, s>>].post = "admitted"]
  /\ UNCHANGED <<environment, proc, reply, pipelines, shown>>

StorePath(t, s) ==
  /\ pipe[<<t, s>>].post = "admitted" /\ UpsertPathSnapshot(t, pipe[<<t, s>>].addr)
  /\ pipe' = [pipe EXCEPT ![<<t, s>>] = Settled([@ EXCEPT !.post = "none"])]
  /\ UNCHANGED <<environment, proc, reply, pipelines>>

(* Who sends it is not accepted, or the POST ends with its context.         *)
PostEnds(t, s) ==
  /\ pipe[<<t, s>>].post # "none"
  /\ ~pipe[<<t, s>>].live \/ (pipe[<<t, s>>].post = "sent" /\ ~(AuthAgent /\ RequireProbeBinding))
  /\ pipe' = [pipe EXCEPT ![<<t, s>>] = Settled([@ EXCEPT !.post = "none"])]
  /\ UNCHANGED <<environment, proc, reply, pipelines, shown>>

(* Or it is lost, or not stored: the poster waits for its next tick.        *)
PostFails(t, s) ==
  /\ pipe[<<t, s>>].post # "none" /\ pipe[<<t, s>>].live /\ Change
  /\ pipe' = [pipe EXCEPT ![<<t, s>>].post = "none"]
  /\ UNCHANGED <<assigned, dns, token, proc, reply, pipelines, shown>>

-----------------------------------------------------------------------------
(* The process.                                                             *)

(* The sink is refused (401) and signals it; heartbeats and loops go on.    *)
SinkFatal ==
  /\ proc = "up" /\ token = "unknown" /\ MarkStopped
  /\ UNCHANGED <<environment, reply, pipelines, pipe, shown>>

(* shutdown cancels the pipelines it took out of the map.                   *)
Shutdown ==
  /\ proc = "stopped" /\ proc' = "drained"
  /\ pipe' = [p \in Target \X Slot |->
                IF p[2] = pipelines[p[1]] THEN Cancelled(pipe[p]) ELSE pipe[p]]
  /\ pipelines' = [t \in Target |-> Nil]
  /\ UNCHANGED <<environment, reply, shown>>

(* The process is gone; a POST it has sent may still be handled.  A SIGTERM *)
(* cancels every context at once, so it is this step alone.                 *)
Exit ==
  /\ proc = "drained" \/ (proc = "up" /\ Change)
  /\ proc' = "down" /\ reply' = Nil
  /\ pipelines' = [t \in Target |-> Nil]
  /\ pipe' = [p \in Target \X Slot |->
                Settled([pipe[p] EXCEPT !.live = FALSE, !.loop = "none"])]
  /\ UNCHANGED <<assigned, dns, token, shown>>
  /\ IF proc = "up" THEN TRUE ELSE UNCHANGED budget

(* A token is minted under this probe's name or, by mistake, another's.     *)
HandleProbeTokens(tok) == tok \in ProbeTokenBindings

(* The unit is started, with the token it had or with one minted since.     *)
Start(tok) ==
  /\ tok = token \/ HandleProbeTokens(tok)
  /\ proc = "down" /\ Change /\ proc' = "up" /\ token' = tok
  /\ UNCHANGED <<assigned, dns, reply, pipelines, pipe, shown>>

Step(t, s) ==
  \/ ReresolveTick(t, s) \/ ReresolveRebuild(t, s) \/ ReresolveEnds(t, s)
  \/ PostSnapshot(t, s) \/ HandleIngestPath(t, s) \/ StorePath(t, s)
  \/ PostEnds(t, s) \/ PostFails(t, s)

Next ==
  \/ HandleIngestHeartbeat \/ BeatOnce \/ BeatFails
  \/ (\E set \in SUBSET Target : SetTargets(set))
  \/ (\E h \in Host, a \in Addr \cup {Nil} : ResolverChanges(h, a))
  \/ DeleteProbeToken \/ DeleteProbe
  \/ (\E t \in Target, s \in Slot : Step(t, s))
  \/ SinkFatal \/ Shutdown \/ Exit
  \/ (\E tok \in {"bound", "yaml", "another", "unknown"} : Start(tok))

Spec == Init /\ [][Next]_vars

(* Timers, requests and goroutines go on; losses are bounded by the budget. *)
Fairness ==
  /\ WF_vars(HandleIngestHeartbeat) /\ WF_vars(BeatOnce)
  /\ WF_vars(Shutdown) /\ WF_vars(proc = "drained" /\ Exit)
  /\ \A t \in Target :
       /\ WF_vars(\E s \in Slot : ReresolveTick(t, s)) /\ WF_vars(\E s \in Slot : ReresolveRebuild(t, s))
       /\ WF_vars(\E s \in Slot : PostSnapshot(t, s)) /\ WF_vars(\E s \in Slot : HandleIngestPath(t, s))
       /\ WF_vars(\E s \in Slot : StorePath(t, s))
       /\ WF_vars(\E s \in Slot : ReresolveEnds(t, s) \/ PostEnds(t, s))

-----------------------------------------------------------------------------
RunnerType ==
  /\ dns \in [Host -> Addr \cup {Nil}] /\ proc \in {"up", "stopped", "drained", "down"}
  /\ pipelines \in [Target -> Slot \cup {Nil}]
  /\ pipe \in [Target \X Slot -> [addr : Addr \cup Target \cup {Nil}, live : BOOLEAN,
                                 loop : {"none", "wait", "changed"},
                                 post : {"none", "sent", "admitted"}]]

TypeOK ==
  /\ RunnerType /\ assigned \subseteq Target /\ budget \in 0..Changes
  /\ token \in {"bound", "yaml", "another", "unknown"}
  /\ reply \in {Nil} \cup [ok : BOOLEAN, set : SUBSET Target]
  /\ shown \in [Target -> Addr \cup Target \cup {Nil}]

(* A pipeline that probes is the one r.pipelines has for its target: a      *)
(* late re-resolve loop, a reconcile and a shutdown in whatever order leave *)
(* no pipeline behind that nobody can stop, and never two for one target.   *)
NoStrayPipeline ==
  \A t \in Target, s \in Slot : pipe[<<t, s>>].live => pipelines[t] = s

(* Once shutdown has cancelled the pipelines nothing probes again: a reply  *)
(* or a loop that comes late builds none (their samples would reach a sink  *)
(* that has flushed for the last time).                                     *)
StopsForGood ==
  proc \in {"drained", "down"} => \A p \in DOMAIN pipe : ~pipe[p].live

(* No pipeline is beyond the reach of the runner: what probes is in         *)
(* r.pipelines, and after the shutdown nothing probes (reconcile,           *)
(* runReresolve, shutdown).                                                 *)
RunnerInControl == NoStrayPipeline /\ StopsForGood

(* The invariant the proof of RunnerInControl rests on.                      *)
ControlInv == RunnerType /\ RunnerInControl

Accepted == proc = "up" /\ AuthAgent /\ RequireProbeBinding

(* A probe that stays up and accepted ends up with a pipeline for exactly   *)
(* the targets of the central, each at the address its name resolves to,    *)
(* and the central comes to show the path to that address: whatever replies *)
(* were lost or late, whatever lookups failed, and although a snapshot may  *)
(* be lost or overtaken by one of a pipeline that has been stopped ("fully  *)
(* repaired by the next one").                                              *)
FollowsCentral ==
  <>[](Accepted /\ \A h \in Host : dns[h] # Nil)
    => <>[](\A t \in Target :
              IF t \in assigned THEN /\ pipelines[t] # Nil
                                    /\ pipe[<<t, pipelines[t]>>].addr = Resolve(t)
                                    /\ GetPathSnapshot(t) = Resolve(t)
                               ELSE pipelines[t] = Nil)

(* Revoking the token stops the probe: it exits rather than probe for       *)
(* nobody.                                                                  *)
RevokedStops == (proc = "up" /\ ~AuthAgent) ~> (proc \in {"drained", "down"})
=============================================================================
