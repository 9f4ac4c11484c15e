---------------------------- MODULE AlertsProofs ----------------------------
(* Theorems about Alerts, for every value of its constants.                  *)
EXTENDS Alerts, TLAPS

USE AlertsAssumption

-----------------------------------------------------------------------------
(* Types of the pieces a tick is made of.                                    *)

LEMMA AnyKeyIs == AnyKey \in Key
BY DEF AnyKey

(* What a row that says nothing looks like.                                  *)
LEMMA BlankRowType == "none" \in RowState /\ FALSE \in BOOLEAN /\ 0 \in 0..Sustain
BY DEF RowState

(* What a step that at most appends does to the queue.                       *)
Grows == queue' \in Seq(Notification) /\ (queue # <<>> => queue' # <<>>)

LEMMA OutcomeIs ==
  ASSUME NEW f, NEW ok \in Outcomes(f)
  PROVE  ok \in BOOLEAN
BY DEF Outcomes

LEMMA MessageType ==
  ASSUME NEW kind \in Kind, NEW k \in Key, NEW p \in Pairs
  PROVE  Message(kind, k, p) \in Notification
BY DEF Message, Notification

LEMMA NoPairsType == NoPairs \in Pairs
BY DEF NoPairs, Pairs

LEMMA EnqueueType ==
  ASSUME queue \in Seq(Notification), NEW m \in Notification, Enqueue(m)
  PROVE  Grows
BY DEF Enqueue, Grows

LEMMA FlushType ==
  ASSUME summary \in Pairs, queue \in Seq(Notification), FlushSummary
  PROVE  summary' \in Pairs /\ Grows
<1>1. CASE UNCHANGED <<summary, queue>>
  BY <1>1 DEF Grows
<1>2. CASE /\ Enqueue(Message("summary", AnyKey, summary))
           /\ summary' \in {NoPairs, summary}
  <2>1. Message("summary", AnyKey, summary) \in Notification
    BY AnyKeyIs, MessageType DEF Kind
  <2>2. QED
    BY <1>2, <2>1, EnqueueType, NoPairsType
<1>3. QED
  BY <1>1, <1>2 DEF FlushSummary

LEMMA BufferType ==
  ASSUME summary \in Pairs, NEW k \in Key, NEW recovery \in BOOLEAN, NEW ok,
         Buffer(k, recovery, ok)
  PROVE  summary' \in Pairs /\ queue' = queue
<1>1. CASE ok
  <2>1. summary[k] \cup {IF recovery THEN "recover" ELSE "raise"} \in SUBSET {"raise", "recover"}
    BY DEF Pairs
  <2>2. QED
    BY <1>1, <2>1 DEF Buffer, Pairs
<1>2. CASE ~ok
  BY <1>2 DEF Buffer, Refuse
<1>3. QED
  BY <1>1, <1>2

LEMMA SendType ==
  ASSUME queue \in Seq(Notification), GateType, NEW k \in Key, NEW recovery \in BOOLEAN, NEW ok,
         Send(k, recovery, ok)
  PROVE  summary' = summary /\ Grows
<1>1. Message(IF recovery THEN "recovered" ELSE "alert", k, NoPairs) \in Notification
  BY MessageType, NoPairsType DEF Kind
<1>2. QED
  BY <1>1, EnqueueType DEF Send, Refuse, Grows

LEMMA RefuseType ==
  ASSUME owed \subseteq Key, last \in [Key -> Told], NEW k \in Key, NEW why \in Told,
         Refuse(k, why)
  PROVE  owed' \subseteq Key /\ last' \in [Key -> Told]
BY DEF Refuse

LEMMA AcceptType ==
  ASSUME owed \subseteq Key, last \in [Key -> Told], NEW k \in Key, NEW recovery \in BOOLEAN,
         Accept(k, recovery)
  PROVE  owed' \subseteq Key /\ last' \in [Key -> Told]
BY DEF Accept, Told

(* deliver leaves the queue, the summary, the limiter and the history well   *)
(* typed, whichever gate it stops at.                                        *)
LEMMA DeliverType ==
  ASSUME QueueType, GateType, last \in [Key -> Told], NEW k \in Key,
         NEW recovery \in BOOLEAN, NEW ok \in BOOLEAN, Deliver(k, recovery, ok)
  PROVE  /\ summary' \in Pairs /\ Grows /\ owed' \subseteq Key
         /\ last' \in [Key -> Told]
         /\ tokenAge' \in [Token -> 0..Hour] /\ tokenKey' \in [Token -> SUBSET Key]
<1>1. (IF recovery THEN last[k] ELSE "failed") \in Told /\ "dropped" \in Told
  BY DEF Told
<1>2. CASE Buffer(k, recovery, ok)
  <2>1. summary' \in Pairs /\ queue' = queue
    BY <1>2, BufferType DEF QueueType
  <2>2. owed' \subseteq Key /\ last' \in [Key -> Told]
    BY <1>1, <1>2, AcceptType, RefuseType DEF Buffer, QueueType
  <2>3. UNCHANGED <<tokenAge, tokenKey>>
    BY <1>2 DEF Buffer, tokenVars
  <2>4. QED
    BY <2>1, <2>2, <2>3 DEF QueueType, GateType, Grows
<1>3. CASE RateLimited(k)
  <2>1. Refuse(k, "dropped") /\ UNCHANGED <<tokenAge, tokenKey>>
    BY <1>3 DEF RateLimited, tokenVars
  <2>2. QED
    BY <1>1, <2>1, RefuseType DEF Refuse, QueueType, GateType, Grows
<1>4. CASE Send(k, recovery, ok)
  <2>1. summary' = summary /\ Grows
    BY <1>4, SendType DEF QueueType
  <2>2. owed' \subseteq Key /\ last' \in [Key -> Told]
    BY <1>1, <1>4, AcceptType, RefuseType DEF Send, QueueType
  <2>3. tokenAge' \in [Token -> 0..Hour] /\ tokenKey' \in [Token -> SUBSET Key]
    BY <1>4 DEF Send, tokenVars, GateType
  <2>4. QED
    BY <2>1, <2>2, <2>3 DEF QueueType
<1>5. QED
  BY <1>2, <1>3, <1>4 DEF Deliver

LEMMA SetRowType ==
  ASSUME RowType, NEW k \in Key, NEW st \in RowState, NEW n \in BOOLEAN, NEW a \in 0..Sustain,
         SetRow(k, st, n, a)
  PROVE  RowType'
BY DEF RowType, SetRow

LEMMA RaiseType ==
  ASSUME TypeOK, NEW k \in Key, NEW a \in 0..Sustain, Raise(k, a)
  PROVE  /\ summary' \in Pairs /\ Grows /\ owed' \subseteq Key
         /\ last' \in [Key -> Told] /\ GateType'
         /\ tpc' = "write" /\ wkey' = k /\ wrow' = "active" /\ wnotified' \in BOOLEAN /\ wage' = a
<1>1. CASE Cooling(k)
  <2>1. Refuse(k, "suppressed") /\ UNCHANGED <<coolAge, tokenAge, tokenKey>>
        /\ Write(k, "active", FALSE, a)
    BY <1>1 DEF Raise, gateVars, tokenVars
  <2>2. "suppressed" \in Told
    BY DEF Told
  <2>3. QED
    BY <2>1, <2>2, RefuseType DEF Refuse, Write, TypeOK, QueueType, GateType, Grows
<1>2. CASE ~Cooling(k)
  <2>1. PICK ok \in BOOLEAN : Deliver(k, FALSE, ok) /\ Write(k, "active", ok, a)
    BY <1>2 DEF Raise
  <2>2. coolAge' \in [Key -> 0..Cooldown]
    BY <1>2 DEF Raise, TypeOK, GateType
  <2>3. QED
    BY <2>1, <2>2, DeliverType DEF Write, TypeOK, GateType
<1>3. QED
  BY <1>1, <1>2

(* Reading the row of every incident or forgetting what was read.            *)
LEMMA BlankSnapType ==
  ASSUME snap' = [k \in Key |-> "none"], snapNotified' = [k \in Key |-> FALSE],
         snapAge' = [k \in Key |-> 0]
  PROVE  SnapType'
BY DEF SnapType, RowState

LEMMA TypeStep == TypeOK /\ [Next]_vars => TypeOK'
<1> SUFFICES ASSUME TypeOK, [Next]_vars PROVE TypeOK'
  OBVIOUS
<1> USE DEF TypeOK
<1>1. CASE TickStart
  <2>1. summary' \in Pairs /\ Grows
    BY <1>1, FlushType DEF TickStart, QueueType, Grows
  <2>2. SnapType'
    BY <1>1 DEF TickStart, SnapType, RowType, snapVars
  <2>3. QED
    BY <1>1, <2>1, <2>2 DEF TickStart, WorldType, RowType, QueueType, GateType, TickType,
       TickState, Grows, worldVars, rowVars, gateVars, tokenVars, writeVars, ghostVars
<1>2. CASE TickSubjects
  BY <1>2 DEF TickSubjects, Orphans, WorldType, RowType, QueueType, GateType, SnapType, TickType,
     TickState, worldVars, rowVars, gateVars, tokenVars, snapVars, writeVars, ghostVars
<1>3. ASSUME NEW k \in Key, StepRaise(k) PROVE TypeOK'
  <2>1. WorldType' /\ RowType' /\ SnapType' /\ sender' = sender /\ UNCHANGED <<sweep, tquiet>>
    BY <1>3 DEF StepRaise, WorldType, RowType, SnapType, worldVars, rowVars, snapVars
  <2>2. todo' \subseteq Key /\ 0 \in 0..Sustain /\ snapAge[k] \in 0..Sustain
    BY <1>3 DEF StepRaise, TickType, SnapType
  <2>3. CASE \E a \in {0, snapAge[k]} : Raise(k, a)
    <3>1. PICK a \in 0..Sustain : Raise(k, a)
      BY <2>2, <2>3
    <3>2. QED
      BY <2>1, <2>2, <3>1, RaiseType DEF QueueType, TickType, TickState, RowState, Grows
  <2>4. CASE Write(k, "raising", FALSE, 0) /\ UNCHANGED <<summary, queue, gateVars, ghostVars>>
    BY <2>1, <2>2, <2>4 DEF Write, QueueType, GateType, TickType, TickState, RowState, gateVars,
       tokenVars, ghostVars
  <2>5. CASE UNCHANGED <<tpc, writeVars, summary, queue, gateVars, ghostVars>>
    BY <2>1, <2>2, <2>5 DEF QueueType, GateType, TickType, gateVars, tokenVars, ghostVars, writeVars
  <2>6. QED
    BY <1>3, <2>3, <2>4, <2>5 DEF StepRaise
<1>4. ASSUME NEW k \in Key, StepClear(k) PROVE TypeOK'
  <2>1. WorldType' /\ RowType' /\ SnapType' /\ UNCHANGED <<sender, coolAge, sweep, tquiet>>
    BY <1>4 DEF StepClear, WorldType, RowType, SnapType, worldVars, rowVars, snapVars
  <2>2. todo' \subseteq Key
    BY <1>4 DEF StepClear, TickType
  <2>3. CASE (\E ok \in BOOLEAN : Deliver(k, TRUE, ok)) /\ Write(k, "none", FALSE, 0)
    <3>1. PICK ok \in BOOLEAN : Deliver(k, TRUE, ok)
      BY <2>3
    <3>2. /\ summary' \in Pairs /\ Grows /\ owed' \subseteq Key /\ last' \in [Key -> Told]
          /\ tokenAge' \in [Token -> 0..Hour] /\ tokenKey' \in [Token -> SUBSET Key]
      BY <3>1, DeliverType
    <3>3. TickType'
      BY <2>1, <2>2, <2>3, BlankRowType DEF Write, TickType, TickState
    <3>4. QED
      BY <2>1, <3>2, <3>3 DEF QueueType, GateType, Grows
  <2>4. CASE Write(k, "none", FALSE, 0) /\ UNCHANGED <<summary, queue, tokenVars, ghostVars>>
    <3>1. TickType'
      BY <2>1, <2>2, <2>4, BlankRowType DEF Write, TickType, TickState
    <3>2. QED
      BY <2>1, <2>4, <3>1 DEF QueueType, GateType, tokenVars, ghostVars
  <2>5. CASE UNCHANGED <<tpc, writeVars, summary, queue, tokenVars, ghostVars>>
    BY <2>1, <2>2, <2>5 DEF QueueType, GateType, TickType, tokenVars, ghostVars, writeVars
  <2>6. QED
    BY <1>4, <2>3, <2>4, <2>5 DEF StepClear
<1>5. ASSUME NEW k \in Key, StepNoVerdict(k) PROVE TypeOK'
  BY <1>5 DEF StepNoVerdict, WorldType, RowType, QueueType, GateType, SnapType, TickType,
     worldVars, rowVars, gateVars, tokenVars, snapVars, writeVars, ghostVars
<1>6. CASE StepWrite
  <2>1. RowType'
    BY <1>6, SetRowType DEF StepWrite, TickType, RowType, rowVars
  <2>2. QED
    BY <1>6, <2>1, AnyKeyIs, BlankRowType DEF StepWrite, WorldType, QueueType, GateType, SnapType,
       TickType, TickState, worldVars, gateVars, tokenVars, snapVars, ghostVars
<1>7. CASE TickFails
  BY <1>7, BlankSnapType DEF TickFails, WorldType, RowType, QueueType, GateType, TickType, TickState,
     worldVars, rowVars, gateVars, tokenVars, writeVars, ghostVars
<1>8. ASSUME NEW k \in Key, ClearOrphan(k) PROVE TypeOK'
  <2>1. RowType' /\ GateType'
    <3>1. CASE UNCHANGED <<rowVars, coolAge, tokenKey>>
      BY <1>8, <3>1 DEF ClearOrphan, RowType, GateType, rowVars
    <3>2. CASE /\ SetRow(k, "none", FALSE, 0) /\ coolAge' = [coolAge EXCEPT ![k] = Cooldown]
               /\ tokenKey' = [i \in Token |-> tokenKey[i] \ {k}]
      <4>1. RowType'
        BY <3>2, SetRowType, BlankRowType
      <4>2. tokenKey' \in [Token -> SUBSET Key]
        BY <3>2 DEF GateType
      <4>3. QED
        BY <1>8, <3>2, <4>1, <4>2 DEF ClearOrphan, GateType
    <3>3. QED
      BY <1>8, <3>1, <3>2 DEF ClearOrphan
  <2>2. QED
    BY <1>8, <2>1 DEF ClearOrphan, WorldType, QueueType, SnapType, TickType, worldVars, snapVars,
       writeVars, ghostVars
<1>9. CASE TickEnd
  BY <1>9, BlankSnapType DEF TickEnd, WorldType, RowType, QueueType, GateType, TickType, TickState,
     worldVars, rowVars, gateVars, tokenVars, writeVars, ghostVars
<1>10. ASSUME NEW res \in {"ok", "permanent", "retry"}, Post(res) PROVE TypeOK'
  BY <1>10 DEF Post, WorldType, RowType, QueueType, GateType, SnapType, TickType, worldVars,
     rowVars, gateVars, tokenVars, tickVars, snapVars, writeVars, ghostVars
<1>11. CASE Delete
  <2>1. queue # <<>> /\ queue \in Seq(Notification)
    BY <1>11 DEF Delete, QueueType
  <2>2. Tail(queue) \in Seq(Notification)
    BY <2>1
  <2>3. queue' \in Seq(Notification)
    BY <1>11, <2>1, <2>2 DEF Delete, Outcomes
  <2>4. QED
    BY <1>11, <2>3 DEF Delete, WorldType, RowType, QueueType, GateType, SnapType, TickType, worldVars,
       rowVars, gateVars, tokenVars, tickVars, snapVars, writeVars
<1>12. CASE \/ \E k \in Key : Flip(k) \/ AddSubject(k)
            \/ \E k \in Key, handler \in BOOLEAN : Forget(k, handler)
            \/ \E rules \in SUBSET Key : Reconfigure(rules)
            \/ QuietToggles
  <2>1. /\ UNCHANGED <<rowVars, summary, queue, gateVars, tickVars, sender, ghostVars>>
        /\ WorldType'
    BY <1>12 DEF Flip, AddSubject, Forget, Reconfigure, QuietToggles, WorldType
  <2>2. QED
    BY <2>1 DEF RowType, QueueType, GateType, SnapType, TickType, rowVars, gateVars, tokenVars,
       tickVars, snapVars, writeVars, ghostVars
<1>13. ASSUME NEW k \in Key, ClearSubjectAlertStates(k) PROVE TypeOK'
  <2>1. RowType'
    BY <1>13, SetRowType, BlankRowType DEF ClearSubjectAlertStates, RowType, rowVars
  <2>2. QED
    BY <1>13, <2>1 DEF ClearSubjectAlertStates, WorldType, QueueType, GateType, SnapType, TickType,
       gateVars, tokenVars, tickVars, snapVars, writeVars, ghostVars
<1>14. CASE Clock
  <2>1. RowType' /\ GateType'
    BY <1>14 DEF Clock, Older, RowType, GateType
  <2>2. QED
    BY <1>14, <2>1 DEF Clock, WorldType, QueueType, SnapType, TickType, worldVars, tickVars, snapVars,
       writeVars, ghostVars
<1>15. CASE Restart
  <2>1. GateType'
    BY <1>15 DEF Restart, GateType
  <2>2. QED
    BY <1>15, <2>1, BlankSnapType, BlankRowType, AnyKeyIs DEF Restart, WorldType, RowType, QueueType,
       TickType, TickState, rowVars, ghostVars
<1>16. CASE UNCHANGED vars
  BY <1>16 DEF vars, WorldType, RowType, QueueType, GateType, SnapType, TickType, worldVars,
     rowVars, gateVars, tokenVars, tickVars, snapVars, writeVars, ghostVars
<1>17. QED
  BY <1>1, <1>2, <1>3, <1>4, <1>5, <1>6, <1>7, <1>8, <1>9, <1>10, <1>11, <1>12, <1>13, <1>14,
     <1>15, <1>16 DEF Next, Tick, Step, Sender, World

(* The alerting tables, the tick and the sender keep their types whatever    *)
(* fails, crashes or is reconfigured in between.                             *)
THEOREM AlertsTypeCorrect == Spec => []TypeOK
<1>1. Init => TypeOK
  <2> SUFFICES ASSUME Init PROVE TypeOK
    OBVIOUS
  <2>1. WorldType /\ RowType /\ SnapType
    BY BlankRowType DEF Init, WorldType, RowType, SnapType
  <2>2. QueueType /\ GateType /\ last \in [Key -> Told]
    BY NoPairsType DEF Init, QueueType, GateType, Told
  <2>3. TickType
    BY AnyKeyIs, BlankRowType DEF Init, TickType, TickState
  <2>4. QED
    BY <2>1, <2>2, <2>3 DEF TypeOK
<1>2. QED
  BY <1>1, TypeStep, PTL DEF Spec

-----------------------------------------------------------------------------
(* NothingLost: what the summary and the queue still have to tell.           *)

Pending(k) == "raise" \in summary[k] \/ \E i \in 1..Len(queue) : k \in Tells(queue[i])

(* A message that is appended is told, and the others still are.             *)
LEMMA EnqueueTells ==
  ASSUME queue \in Seq(Notification), NEW m \in Notification, Enqueue(m), NEW k \in Key,
         k \in Tells(m) \/ \E i \in 1..Len(queue) : k \in Tells(queue[i])
  PROVE  \E i \in 1..Len(queue') : k \in Tells(queue'[i])
<1>1. /\ Len(queue') = Len(queue) + 1 /\ queue'[Len(queue) + 1] = m
      /\ \A i \in 1..Len(queue) : queue'[i] = queue[i]
      /\ Len(queue) \in Nat
  BY DEF Enqueue
<1>2. CASE k \in Tells(m)
  <2>1. Len(queue) + 1 \in 1..Len(queue')
    BY <1>1
  <2>2. QED
    BY <1>1, <1>2, <2>1
<1>3. CASE \E i \in 1..Len(queue) : k \in Tells(queue[i])
  <2>1. PICK i \in 1..Len(queue) : k \in Tells(queue[i])
    BY <1>3
  <2>2. i \in 1..Len(queue') /\ queue'[i] = queue[i]
    BY <1>1
  <2>3. QED
    BY <2>1, <2>2
<1>4. QED
  BY <1>2, <1>3

LEMMA FlushTells ==
  ASSUME QueueType, FlushSummary, NEW k \in Key, Pending(k)
  PROVE  Pending(k)'
<1>1. CASE UNCHANGED <<summary, queue>>
  BY <1>1 DEF Pending, Tells
<1>2. CASE Enqueue(Message("summary", AnyKey, summary))
  <2> DEFINE m == Message("summary", AnyKey, summary)
  <2>1. m \in Notification
    BY AnyKeyIs, MessageType DEF Kind, QueueType
  <2>2. "raise" \in summary[k] => k \in Tells(m)
    BY DEF Message, Tells
  <2>3. k \in Tells(m) \/ \E i \in 1..Len(queue) : k \in Tells(queue[i])
    BY <2>2 DEF Pending
  <2>4. queue \in Seq(Notification) /\ Enqueue(m)
    BY <1>2 DEF QueueType
  <2> HIDE DEF m
  <2>5. \E i \in 1..Len(queue') : k \in Tells(queue'[i])
    BY <2>1, <2>3, <2>4, EnqueueTells
  <2>6. QED
    BY <2>5 DEF Pending
<1>3. QED
  BY <1>1, <1>2 DEF FlushSummary

LEMMA DeliverTells ==
  ASSUME QueueType, GateType, NEW k \in Key, NEW recovery \in BOOLEAN, NEW ok \in BOOLEAN,
         Deliver(k, recovery, ok), NothingLost
  PROVE  NothingLost'
<1> SUFFICES ASSUME NEW x \in owed' PROVE Pending(x)'
  BY DEF NothingLost, Pending
<1>1. \A y \in owed : Pending(y)
  BY DEF NothingLost, Pending
<1>2. CASE UNCHANGED <<queue, summary, owed>>
  BY <1>1, <1>2 DEF Pending
<1>3. CASE Buffer(k, recovery, ok) /\ ok
  <2>1. UNCHANGED queue /\ x \in owed \cup {k} /\ (x \notin owed => x = k /\ ~recovery)
    BY <1>3 DEF Buffer, Accept
  <2>2. \A y \in Key : summary[y] \subseteq summary'[y]
    BY <1>3 DEF Buffer, QueueType, Pairs
  <2>3. ~recovery => "raise" \in summary'[k]
    BY <1>3 DEF Buffer, QueueType, Pairs
  <2>4. x \in Key
    BY <2>1 DEF QueueType
  <2>5. QED
    BY <1>1, <2>1, <2>2, <2>3, <2>4 DEF Pending
<1>4. CASE Send(k, recovery, ok) /\ ok
  <2> DEFINE m == Message(IF recovery THEN "recovered" ELSE "alert", k, NoPairs)
  <2>1. /\ Enqueue(m) /\ UNCHANGED summary /\ x \in owed \cup {k}
        /\ (x \notin owed => x = k /\ ~recovery)
    BY <1>4 DEF Send, Accept
  <2>2. m \in Notification
    BY MessageType, NoPairsType DEF Kind
  <2>3. ~recovery => k \in Tells(m)
    BY DEF Message, Tells
  <2>4. x \in Key
    BY <2>1 DEF QueueType
  <2> HIDE DEF m
  <2>5. CASE "raise" \in summary[x]
    BY <2>1, <2>5 DEF Pending
  <2>6. CASE "raise" \notin summary[x]
    <3>1. x \in Tells(m) \/ \E i \in 1..Len(queue) : x \in Tells(queue[i])
      BY <1>1, <2>1, <2>3, <2>6 DEF Pending
    <3>2. \E i \in 1..Len(queue') : x \in Tells(queue'[i])
      BY <2>1, <2>2, <2>4, <3>1, EnqueueTells DEF QueueType
    <3>3. QED
      BY <3>2 DEF Pending
  <2>7. QED
    BY <2>5, <2>6
<1>5. QED
  BY <1>2, <1>3, <1>4 DEF Deliver, Buffer, RateLimited, Send, Refuse

(* Delete and the crash: the item leaves the queue only once it is answered. *)
LEMMA DeleteTells ==
  ASSUME QueueType, Delete, NothingLost
  PROVE  NothingLost'
<1> SUFFICES ASSUME NEW x \in owed' PROVE Pending(x)'
  BY DEF NothingLost, Pending
<1>1. Pending(x) /\ UNCHANGED summary
  BY DEF NothingLost, Pending, Delete
<1>2. queue \in Seq(Notification) /\ queue # <<>>
  BY DEF QueueType, Delete
<1>3. CASE queue' = queue
  BY <1>1, <1>3 DEF Pending
<1>4. CASE queue' = Tail(queue) /\ queue' # queue
  <2>1. DoneWith(sender)
    BY <1>4 DEF Delete
  <2>2. x \notin Tells(Head(queue))
    BY <2>1 DEF Delete, DoneWith
  <2>3. CASE "raise" \in summary[x]
    BY <1>1, <2>3 DEF Pending
  <2>4. CASE "raise" \notin summary[x]
    <3>1. PICK i \in 1..Len(queue) : x \in Tells(queue[i])
      BY <1>1, <2>4 DEF Pending
    <3>2. Head(queue) = queue[1]
      BY <1>2
    <3>3. i # 1
      BY <2>2, <3>1, <3>2
    <3>4. i - 1 \in 1..Len(Tail(queue)) /\ Tail(queue)[i - 1] = queue[i]
      BY <1>2, <3>3
    <3>5. QED
      BY <1>4, <3>1, <3>4 DEF Pending
  <2>5. QED
    BY <2>3, <2>4
<1>5. QED
  BY <1>3, <1>4 DEF Delete

LEMMA LostStep == TypeOK /\ NothingLost /\ [Next]_vars => NothingLost'
<1> SUFFICES ASSUME TypeOK, NothingLost, [Next]_vars PROVE NothingLost'
  OBVIOUS
<1>q. ASSUME UNCHANGED <<summary, queue, owed>> PROVE NothingLost'
  BY <1>q DEF NothingLost
<1>1. CASE TickStart
  <2>1. \A k \in owed : Pending(k)
    BY DEF NothingLost, Pending
  <2>2. UNCHANGED owed /\ owed \subseteq Key
    BY <1>1 DEF TickStart, ghostVars, TypeOK, QueueType
  <2>3. CASE UNCHANGED <<summary, queue>>
    BY <1>q, <2>2, <2>3
  <2>4. CASE FlushSummary
    <3>1. \A k \in owed : Pending(k)'
      BY <2>1, <2>2, <2>4, FlushTells DEF TypeOK
    <3>2. QED
      BY <2>2, <3>1 DEF NothingLost, Pending
  <2>5. QED
    BY <1>1, <2>3, <2>4 DEF TickStart
<1>2. ASSUME NEW k \in Key, StepRaise(k) PROVE NothingLost'
  <2>1. CASE \E ok \in BOOLEAN : Deliver(k, FALSE, ok)
    BY <2>1, DeliverTells DEF TypeOK
  <2>2. CASE UNCHANGED <<summary, queue, owed>>
    BY <1>q, <2>2
  <2>3. QED
    BY <1>2, <2>1, <2>2 DEF StepRaise, Raise, Refuse, ghostVars
<1>3. ASSUME NEW k \in Key, StepClear(k) PROVE NothingLost'
  <2>1. CASE \E ok \in BOOLEAN : Deliver(k, TRUE, ok)
    BY <2>1, DeliverTells DEF TypeOK
  <2>2. CASE UNCHANGED <<summary, queue, owed>>
    BY <1>q, <2>2
  <2>3. QED
    BY <1>3, <2>1, <2>2 DEF StepClear, ghostVars
<1>4. CASE Delete
  BY <1>4, DeleteTells DEF TypeOK
<1>5. CASE \/ TickSubjects \/ StepWrite \/ TickFails \/ TickEnd
           \/ \E k \in Key : StepNoVerdict(k) \/ ClearOrphan(k)
           \/ \E res \in {"ok", "permanent", "retry"} : Post(res)
  BY <1>5, <1>q DEF TickSubjects, StepWrite, TickFails, TickEnd, StepNoVerdict, ClearOrphan, Post,
     ghostVars
<1>6. CASE World
  BY <1>6, <1>q DEF World, Flip, ClearSubjectAlertStates, AddSubject, Forget, Reconfigure,
     QuietToggles, Clock, Restart, ghostVars
<1>7. CASE UNCHANGED vars
  BY <1>7, <1>q DEF vars, ghostVars
<1>8. QED
  BY <1>1, <1>2, <1>3, <1>4, <1>5, <1>6, <1>7 DEF Next, Tick, Step, Sender

(* An accepted alert is in the summary row or in alert_queue until the       *)
(* server has answered it.                                                   *)
THEOREM AlertDurable == Spec => []NothingLost
<1>1. Init => NothingLost
  BY DEF Init, NothingLost
<1>2. QED
  BY <1>1, LostStep, AlertsTypeCorrect, PTL DEF Spec

-----------------------------------------------------------------------------
(* RaiseLoopBounded: the rate limiter and the cooldown markers.              *)

(* What an attempt to notify does to the limiter: nothing, or one unused     *)
(* entry is spent on the incident.                                           *)
SpendsOn(k) ==
  \E i \in Token : /\ tokenAge' = [tokenAge EXCEPT ![i] = 0]
                   /\ tokenKey' = [tokenKey EXCEPT ![i] = {k}]

LEMMA DeliverSpends ==
  ASSUME NEW k \in Key, NEW recovery \in BOOLEAN, NEW ok \in BOOLEAN, Deliver(k, recovery, ok)
  PROVE  UNCHANGED <<tokenAge, tokenKey>> \/ (~recovery /\ SpendsOn(k))
BY DEF Deliver, Buffer, RateLimited, Send, SpendsOn, tokenVars

LEMMA RaiseBounded ==
  ASSUME GateType, GateInv, NEW k \in Key, NEW a, Raise(k, a)
  PROVE  GateInv'
<1>1. CASE UNCHANGED <<coolAge, tokenAge, tokenKey>>
  BY <1>1 DEF GateInv, RaiseLoopBounded
<1>2. CASE /\ ~Cooling(k) /\ coolAge' = [coolAge EXCEPT ![k] = 0]
           /\ UNCHANGED <<tokenAge, tokenKey>>
  BY <1>2 DEF GateInv, RaiseLoopBounded, GateType
<1>3. CASE ~Cooling(k) /\ coolAge' = [coolAge EXCEPT ![k] = 0] /\ SpendsOn(k)
  <2>1. PICK n \in Token : /\ tokenAge' = [tokenAge EXCEPT ![n] = 0]
                            /\ tokenKey' = [tokenKey EXCEPT ![n] = {k}]
    BY <1>3 DEF SpendsOn
  <2>2. \A i \in Token : k \in tokenKey[i] => ~(tokenAge[i] < Cooldown)
    BY <1>3 DEF GateInv, Cooling, GateType
  <2>3. \A i \in Token : IF i = n THEN tokenAge'[i] = 0 /\ tokenKey'[i] = {k}
                         ELSE tokenAge'[i] = tokenAge[i] /\ tokenKey'[i] = tokenKey[i]
    BY <2>1 DEF GateType
  <2>4. \A x \in Key : coolAge'[x] = IF x = k THEN 0 ELSE coolAge[x]
    BY <1>3 DEF GateType
  <2>5. RaiseLoopBounded'
    BY <2>2, <2>3 DEF GateInv, RaiseLoopBounded
  <2>6. ASSUME NEW x \in Key, NEW i \in Token, x \in tokenKey'[i], tokenAge'[i] < Cooldown
        PROVE  coolAge'[x] <= tokenAge'[i]
    <3>1. CASE x = k
      BY <2>3, <2>4, <3>1 DEF GateType
    <3>2. CASE x # k
      BY <2>3, <2>4, <2>6, <3>2 DEF GateInv
    <3>3. QED
      BY <3>1, <3>2
  <2>7. QED
    BY <2>5, <2>6 DEF GateInv
<1>4. QED
  BY <1>1, <1>2, <1>3, DeliverSpends DEF Raise, gateVars, tokenVars

LEMMA ClockBounded ==
  ASSUME GateType, GateInv, Clock
  PROVE  GateInv'
<1>1. ASSUME NEW k \in Key, NEW i \in Token, k \in tokenKey'[i]
      PROVE  tokenAge'[i] = tokenAge[i] + 1 /\ k \in tokenKey[i]
  <2>1. tokenKey'[i] = IF tokenAge'[i] < Hour THEN tokenKey[i] ELSE {}
    BY DEF Clock
  <2>2. tokenAge'[i] < Hour /\ k \in tokenKey[i]
    BY <1>1, <2>1
  <2>3. tokenAge'[i] = Older(tokenAge[i], Hour)
    BY DEF Clock
  <2>4. QED
    BY <2>2, <2>3 DEF Older, GateType
<1>2. \A k \in Key : coolAge'[k] <= coolAge[k] + 1
  BY DEF Clock, Older, GateType
<1>3. \A k \in Key : coolAge[k] \in Nat
  BY DEF GateType
<1>4. \A i \in Token : tokenAge[i] \in Nat
  BY DEF GateType
<1>5. \A k \in Key : coolAge'[k] \in Nat
  BY DEF Clock, Older, GateType
<1>6. RaiseLoopBounded'
  <2> SUFFICES ASSUME NEW k \in Key, NEW i \in Token, NEW j \in Token,
                      k \in tokenKey'[i], k \in tokenKey'[j],
                      tokenAge'[i] < Cooldown, tokenAge'[j] < Cooldown
               PROVE  i = j
    BY DEF RaiseLoopBounded
  <2>1. /\ k \in tokenKey[i] /\ tokenAge[i] < Cooldown
        /\ k \in tokenKey[j] /\ tokenAge[j] < Cooldown
    <3>1. tokenAge'[i] = tokenAge[i] + 1 /\ k \in tokenKey[i]
      BY <1>1
    <3>2. tokenAge'[j] = tokenAge[j] + 1 /\ k \in tokenKey[j]
      BY <1>1
    <3>3. QED
      BY <1>4, <3>1, <3>2, AlertsAssumption
  <2>2. QED
    BY <2>1 DEF GateInv, RaiseLoopBounded
<1>7. ASSUME NEW k \in Key, NEW i \in Token, k \in tokenKey'[i], tokenAge'[i] < Cooldown
      PROVE  coolAge'[k] <= tokenAge'[i]
  <2>1. tokenAge'[i] = tokenAge[i] + 1 /\ k \in tokenKey[i]
    BY <1>1, <1>7
  <2>2. tokenAge[i] < Cooldown
    BY <1>4, <1>7, <2>1, AlertsAssumption
  <2>3. coolAge[k] <= tokenAge[i]
    BY <1>7, <2>1, <2>2 DEF GateInv
  <2>4. QED
    BY <1>2, <1>3, <1>4, <1>5, <2>1, <2>3
<1>8. QED
  BY <1>6, <1>7 DEF GateInv

LEMMA GateStep == TypeOK /\ GateInv /\ [Next]_vars => GateInv'
<1> SUFFICES ASSUME TypeOK, GateInv, [Next]_vars PROVE GateInv'
  OBVIOUS
<1>q. ASSUME UNCHANGED <<coolAge, tokenAge, tokenKey>> PROVE GateInv'
  BY <1>q DEF GateInv, RaiseLoopBounded
<1>1. ASSUME NEW k \in Key, StepRaise(k) PROVE GateInv'
  <2>1. CASE \E a \in {0, snapAge[k]} : Raise(k, a)
    BY <2>1, RaiseBounded DEF TypeOK
  <2>2. CASE UNCHANGED gateVars
    BY <1>q, <2>2 DEF gateVars, tokenVars
  <2>3. QED
    BY <1>1, <2>1, <2>2 DEF StepRaise
<1>2. ASSUME NEW k \in Key, StepClear(k) PROVE GateInv'
  <2>1. UNCHANGED <<coolAge, tokenAge, tokenKey>>
    <3>1. CASE \E ok \in BOOLEAN : Deliver(k, TRUE, ok)
      BY <1>2, <3>1, DeliverSpends DEF StepClear
    <3>2. CASE UNCHANGED tokenVars
      BY <1>2, <3>2 DEF StepClear, tokenVars
    <3>3. QED
      BY <1>2, <3>1, <3>2 DEF StepClear
  <2>2. QED
    BY <1>q, <2>1
<1>3. ASSUME NEW k \in Key, ClearOrphan(k) PROVE GateInv'
  <2>1. CASE UNCHANGED <<coolAge, tokenKey>>
    BY <1>3, <1>q, <2>1 DEF ClearOrphan
  <2>2. CASE /\ coolAge' = [coolAge EXCEPT ![k] = Cooldown]
             /\ tokenKey' = [i \in Token |-> tokenKey[i] \ {k}]
    <3>1. UNCHANGED tokenAge
      BY <1>3 DEF ClearOrphan
    <3>2. QED
      BY <2>2, <3>1 DEF GateInv, RaiseLoopBounded, TypeOK, GateType
  <2>3. QED
    BY <1>3, <2>1, <2>2 DEF ClearOrphan
<1>4. CASE Clock
  BY <1>4, ClockBounded DEF TypeOK
<1>5. CASE Restart
  BY <1>5 DEF Restart, GateInv, RaiseLoopBounded
<1>6. CASE \/ TickStart \/ TickSubjects \/ StepWrite \/ TickFails \/ TickEnd \/ Sender
           \/ \E k \in Key : StepNoVerdict(k)
  BY <1>6, <1>q DEF TickStart, TickSubjects, StepWrite, TickFails, TickEnd, StepNoVerdict, Sender,
     Post, Delete, gateVars, tokenVars
<1>7. CASE \/ \E k \in Key : Flip(k) \/ ClearSubjectAlertStates(k) \/ AddSubject(k)
           \/ \E k \in Key, handler \in BOOLEAN : Forget(k, handler)
           \/ \E rules \in SUBSET Key : Reconfigure(rules)
           \/ QuietToggles
  BY <1>7, <1>q DEF Flip, ClearSubjectAlertStates, AddSubject, Forget, Reconfigure, QuietToggles,
     gateVars, tokenVars
<1>8. CASE UNCHANGED vars
  BY <1>8, <1>q DEF vars, gateVars, tokenVars
<1>9. QED
  BY <1>1, <1>2, <1>3, <1>4, <1>5, <1>6, <1>7, <1>8 DEF Next, Tick, Step, World

(* One subject spends at most one entry of the hourly limit per cooldown,    *)
(* whatever statements fail (the 2026-08 incident).                          *)
THEOREM RaisesBounded == Spec => []RaiseLoopBounded
<1>1. Init => GateInv
  BY DEF Init, GateInv, RaiseLoopBounded
<1>2. GateInv => RaiseLoopBounded
  BY DEF GateInv
<1>3. QED
  BY <1>1, <1>2, GateStep, AlertsTypeCorrect, PTL DEF Spec

-----------------------------------------------------------------------------
(* What the history says after deliver and raise.                            *)

LEMMA DeliverLast ==
  ASSUME last \in [Key -> Told], NEW k \in Key, NEW recovery \in BOOLEAN, NEW ok \in BOOLEAN,
         Deliver(k, recovery, ok)
  PROVE  /\ \A x \in Key \ {k} : last'[x] = last[x]
         /\ ok => last'[k] = (IF recovery THEN "recovered" ELSE "alert")
         /\ recovery /\ ~ok => last'[k] = last[k]
<1>1. CASE Buffer(k, recovery, ok)
  BY <1>1 DEF Buffer, Accept, Refuse
<1>2. CASE ~recovery /\ ~ok /\ RateLimited(k)
  BY <1>2 DEF RateLimited, Refuse
<1>3. CASE Send(k, recovery, ok)
  BY <1>3 DEF Send, Accept, Refuse
<1>4. QED
  BY <1>1, <1>2, <1>3 DEF Deliver

LEMMA RaiseLast ==
  ASSUME last \in [Key -> Told], NEW k \in Key, NEW age, Raise(k, age)
  PROVE  /\ \A x \in Key \ {k} : last'[x] = last[x]
         /\ tpc' = "write" /\ wkey' = k
         /\ wnotified' => last'[k] = "alert"
<1>1. CASE Cooling(k)
  BY <1>1 DEF Raise, Refuse, Write
<1>2. CASE ~Cooling(k)
  <2>1. PICK ok \in BOOLEAN : Deliver(k, FALSE, ok) /\ Write(k, "active", ok, age)
    BY <1>2 DEF Raise
  <2>2. /\ \A x \in Key \ {k} : last'[x] = last[x]
        /\ ok => last'[k] = "alert"
    BY <2>1, DeliverLast
  <2>3. QED
    BY <2>1, <2>2 DEF Write
<1>3. QED
  BY <1>1, <1>2

(* A step within a tick that takes nothing back and notifies nobody new.     *)
LEMMA TellFrame ==
  ASSUME TellInv,
         \A x \in Key : Alerted(x) => Alerted(x)',
         \A x \in Key : Notified(x)' => Notified(x),
         \/ tpc' = "idle"
         \/ tpc # "idle" /\ todo' \subseteq todo /\ todo \subseteq Key
            /\ UNCHANGED <<snap, snapNotified>>,
         tpc' = "write" => /\ wkey' \notin todo'
                           /\ (wrow' = "active" /\ wnotified' => Alerted(wkey)')
  PROVE  TellInv'
<1>1. \A x \in Key : Notified(x)' => Alerted(x)'
  BY DEF TellInv
<1>2. ASSUME tpc' # "idle", NEW x \in todo'
      PROVE  (OwesRecovery(x)' => Alerted(x)') /\ (Notified(x)' => OwesRecovery(x)')
  <2>1. x \in todo /\ x \in Key /\ tpc # "idle"
    BY <1>2
  <2>2. OwesRecovery(x)' <=> OwesRecovery(x)
    BY <1>2 DEF OwesRecovery
  <2>3. QED
    BY <2>1, <2>2 DEF TellInv
<1>3. QED
  BY <1>1, <1>2 DEF TellInv

LEMMA StepRaiseTells ==
  ASSUME TypeOK, TellInv, NEW k \in Key, StepRaise(k)
  PROVE  TellInv'
<1> USE DEF TypeOK, TickType
<1>0. /\ tpc = "step" /\ k \in todo /\ todo' = todo \ {k}
      /\ UNCHANGED <<row, rowNotified, snap, snapNotified>>
  BY DEF StepRaise, rowVars, snapVars
<1>1. ASSUME NEW age, Raise(k, age), snap[k] # "active" PROVE TellInv'
  <2>1. /\ \A x \in Key \ {k} : last'[x] = last[x]
        /\ tpc' = "write" /\ wkey' = k
        /\ wnotified' => last'[k] = "alert"
    BY <1>1, RaiseLast
  <2>2. ~Notified(k)
    BY <1>0, <1>1 DEF TellInv, OwesRecovery
  <2>3. ASSUME NEW x \in Key, Notified(x)' PROVE Alerted(x)'
    <3>1. Notified(x)
      BY <1>0, <2>3 DEF Notified
    <3>2. x # k
      BY <2>2, <3>1
    <3>3. last'[x] = last[x]
      BY <2>1, <3>2
    <3>4. QED
      BY <3>1, <3>3 DEF TellInv, Alerted
  <2>4. ASSUME NEW x \in todo'
        PROVE  (OwesRecovery(x)' => Alerted(x)') /\ (Notified(x)' => OwesRecovery(x)')
    <3>1. x \in todo /\ x \in Key /\ x # k
      BY <1>0, <2>4
    <3>2. last'[x] = last[x]
      BY <2>1, <3>1
    <3>3. QED
      BY <1>0, <3>1, <3>2 DEF TellInv, OwesRecovery, Notified, Alerted
  <2>5. wkey' \notin todo' /\ (wnotified' => Alerted(wkey)')
    BY <1>0, <2>1 DEF Alerted
  <2>6. QED
    BY <2>3, <2>4, <2>5 DEF TellInv
<1>2. CASE Write(k, "raising", FALSE, 0) /\ UNCHANGED ghostVars
  BY <1>0, <1>2, TellFrame DEF Write, ghostVars, Alerted, Notified
<1>3. CASE UNCHANGED <<tpc, writeVars, ghostVars>>
  BY <1>0, <1>3, TellFrame DEF writeVars, ghostVars, Alerted, Notified
<1>4. QED
  BY <1>1, <1>2, <1>3 DEF StepRaise

LEMMA StepClearTells ==
  ASSUME TypeOK, TellInv, NEW k \in Key, StepClear(k)
  PROVE  TellInv'
<1> USE DEF TypeOK, TickType
<1>0. /\ tpc = "step" /\ k \in todo /\ todo' = todo \ {k}
      /\ UNCHANGED <<row, rowNotified, snap, snapNotified>>
  BY DEF StepClear, rowVars, snapVars
<1>1. ASSUME NEW ok \in BOOLEAN, Deliver(k, TRUE, ok), Write(k, "none", FALSE, 0) PROVE TellInv'
  <2>1. /\ \A x \in Key \ {k} : last'[x] = last[x]
        /\ last'[k] = "recovered" \/ last'[k] = last[k]
    BY <1>1, DeliverLast
  <2>2. \A x \in Key : Alerted(x) => Alerted(x)'
    BY <2>1 DEF Alerted
  <2>3. QED
    BY <1>0, <1>1, <2>2, TellFrame DEF Write, Notified
<1>2. CASE Write(k, "none", FALSE, 0) /\ UNCHANGED ghostVars
  BY <1>0, <1>2, TellFrame DEF Write, ghostVars, Alerted, Notified
<1>3. CASE UNCHANGED <<tpc, writeVars, ghostVars>>
  BY <1>0, <1>3, TellFrame DEF writeVars, ghostVars, Alerted, Notified
<1>4. QED
  BY <1>1, <1>2, <1>3 DEF StepClear

LEMMA StepWriteTells ==
  ASSUME TypeOK, TellInv, StepWrite
  PROVE  TellInv'
<1>0. /\ tpc = "write" /\ tpc' = "step" /\ UNCHANGED <<todo, snap, snapNotified, last>>
  BY DEF StepWrite, snapVars, ghostVars
<1>1. CASE UNCHANGED rowVars
  BY <1>0, <1>1, TellFrame DEF rowVars, Alerted, Notified, TypeOK, TickType
<1>2. CASE SetRow(wkey, wrow, wnotified, wage)
  <2>1. ASSUME NEW x \in Key
        PROVE  Notified(x)' <=> IF x = wkey THEN wrow = "active" /\ wnotified ELSE Notified(x)
    BY <1>2 DEF SetRow, Notified, TypeOK, RowType, TickType
  <2>2. ASSUME NEW x \in Key, Notified(x)' PROVE Alerted(x)'
    BY <1>0, <2>1, <2>2 DEF TellInv, Alerted
  <2>3. ASSUME NEW x \in todo
        PROVE  (OwesRecovery(x)' => Alerted(x)') /\ (Notified(x)' => OwesRecovery(x)')
    <3>1. x \in Key /\ x # wkey
      BY <1>0, <2>3 DEF TellInv, TypeOK, TickType
    <3>2. Notified(x)' <=> Notified(x)
      BY <2>1, <3>1
    <3>3. QED
      BY <1>0, <2>3, <3>2 DEF TellInv, OwesRecovery, Alerted
  <2>4. QED
    BY <1>0, <2>2, <2>3 DEF TellInv
<1>3. QED
  BY <1>1, <1>2 DEF StepWrite

LEMMA TellStep == TypeOK /\ TellInv /\ [Next]_vars => TellInv'
<1> SUFFICES ASSUME TypeOK, TellInv, [Next]_vars PROVE TellInv'
  OBVIOUS
<1>q. ASSUME UNCHANGED <<row, rowNotified, tpc, todo, snap, snapNotified, wkey, wrow, wnotified,
                         last>>
      PROVE  TellInv'
  BY <1>q DEF TellInv, Notified, Alerted, OwesRecovery
<1>r. ASSUME NEW k \in Key, SetRow(k, "none", FALSE, 0) PROVE \A x \in Key : Notified(x)' => Notified(x)
  BY <1>r DEF SetRow, Notified, TypeOK, RowType
<1>1. ASSUME NEW k \in Key, Step(k) PROVE TellInv'
  <2>1. CASE StepNoVerdict(k)
    BY <2>1, TellFrame DEF StepNoVerdict, rowVars, snapVars, writeVars, ghostVars, Alerted,
       Notified, TypeOK, TickType
  <2>2. QED
    BY <1>1, <2>1, StepRaiseTells, StepClearTells DEF Step
<1>2. CASE TickStart
  <2>0. UNCHANGED <<row, rowNotified, last, wkey, wrow, wnotified>> /\ tpc = "idle"
    BY <1>2 DEF TickStart, rowVars, ghostVars, writeVars
  <2>1. CASE on # {}
    <3>1. tpc' = "subjects" /\ todo' = on /\ snap' = row /\ snapNotified' = rowNotified
      BY <1>2, <2>1 DEF TickStart
    <3>2. \A x \in Key : OwesRecovery(x)' <=> Notified(x)
      BY <3>1 DEF OwesRecovery, Notified
    <3>3. \A x \in Key : (Notified(x)' <=> Notified(x)) /\ (Alerted(x)' <=> Alerted(x))
      BY <2>0 DEF Notified, Alerted
    <3>4. QED
      BY <3>1, <3>2, <3>3 DEF TellInv, TypeOK, WorldType
  <2>2. CASE on = {}
    BY <1>2, <1>q, <2>0, <2>2 DEF TickStart, snapVars
  <2>3. QED
    BY <2>1, <2>2
<1>3. CASE TickSubjects
  BY <1>3, TellFrame DEF TickSubjects, rowVars, snapVars, writeVars, ghostVars, Alerted, Notified,
     TypeOK, TickType
<1>4. CASE TickFails \/ TickEnd \/ Restart
  BY <1>4, TellFrame DEF TickFails, TickEnd, Restart, rowVars, ghostVars, Alerted, Notified
<1>5. ASSUME NEW k \in Key, ClearOrphan(k) PROVE TellInv'
  <2>1. \A x \in Key : Notified(x)' => Notified(x)
    BY <1>5, <1>r DEF ClearOrphan, rowVars, Notified
  <2>2. QED
    BY <1>5, <2>1, TellFrame DEF ClearOrphan, snapVars, ghostVars, Alerted, TypeOK, TickType
<1>6. ASSUME NEW k \in Key, ClearSubjectAlertStates(k) PROVE TellInv'
  <2>1. \A x \in Key : Notified(x)' => Notified(x)
    BY <1>6, <1>r DEF ClearSubjectAlertStates, rowVars, Notified
  <2>2. UNCHANGED <<tpc, todo, snap, snapNotified, wkey, wrow, wnotified, last>>
    BY <1>6 DEF ClearSubjectAlertStates, tickVars, snapVars, writeVars, ghostVars
  <2>3. tpc = "write" => wkey \notin todo /\ (wrow = "active" /\ wnotified => Alerted(wkey))
    BY DEF TellInv
  <2>4. QED
    BY <2>1, <2>2, <2>3, TellFrame DEF Alerted, TypeOK, TickType
<1>7. CASE \/ Sender \/ Clock \/ QuietToggles
           \/ \E k \in Key : Flip(k) \/ AddSubject(k)
           \/ \E k \in Key, handler \in BOOLEAN : Forget(k, handler)
           \/ \E rules \in SUBSET Key : Reconfigure(rules)
  BY <1>7, <1>q DEF Sender, Post, Delete, Clock, QuietToggles, Flip, AddSubject, Forget,
     Reconfigure, rowVars, tickVars, snapVars, writeVars, ghostVars
<1>8. CASE UNCHANGED vars
  BY <1>8, <1>q DEF vars, rowVars, tickVars, snapVars, writeVars, ghostVars
<1>9. QED
  BY <1>1, <1>2, <1>3, <1>4, <1>5, <1>6, <1>7, <1>8, StepWriteTells DEF Next, Tick, World

LEMMA FollowsStep == TypeOK /\ TellInv /\ [Next]_vars => [FollowsAlert]_vars
<1> SUFFICES ASSUME TypeOK, TellInv, Next PROVE FollowsAlert
  OBVIOUS
<1>q. ASSUME UNCHANGED last PROVE FollowsAlert
  BY <1>q DEF FollowsAlert
<1>1. ASSUME NEW k \in Key, StepRaise(k) PROVE FollowsAlert
  <2>1. ASSUME NEW age, Raise(k, age) PROVE FollowsAlert
    <3>1. \A x \in Key \ {k} : last'[x] = last[x]
      BY <2>1, RaiseLast DEF TypeOK
    <3>2. last'[k] # "recovered"
      <4>1. CASE Cooling(k)
        BY <2>1, <4>1 DEF Raise, Refuse, TypeOK
      <4>2. CASE \E ok \in BOOLEAN : Deliver(k, FALSE, ok)
        BY <4>2 DEF Deliver, Buffer, RateLimited, Send, Accept, Refuse, TypeOK
      <4>3. QED
        BY <2>1, <4>1, <4>2 DEF Raise
    <3>3. QED
      BY <3>1, <3>2 DEF FollowsAlert
  <2>2. QED
    BY <1>1, <1>q, <2>1 DEF StepRaise, ghostVars
<1>2. ASSUME NEW k \in Key, StepClear(k) PROVE FollowsAlert
  <2>1. ASSUME OwesRecovery(k), NEW ok \in BOOLEAN, Deliver(k, TRUE, ok) PROVE FollowsAlert
    <3>1. \A x \in Key \ {k} : last'[x] = last[x]
      BY <2>1, DeliverLast DEF TypeOK
    <3>2. last[k] \in {"alert", "recovered"}
      BY <1>2, <2>1 DEF StepClear, TellInv, Alerted
    <3>3. QED
      BY <3>1, <3>2 DEF FollowsAlert
  <2>2. QED
    BY <1>2, <1>q, <2>1 DEF StepClear, ghostVars
<1>3. CASE \/ TickStart \/ TickSubjects \/ StepWrite \/ TickFails \/ TickEnd \/ Sender
           \/ \E k \in Key : StepNoVerdict(k) \/ ClearOrphan(k)
  BY <1>3, <1>q DEF TickStart, TickSubjects, StepWrite, TickFails, TickEnd, StepNoVerdict,
     ClearOrphan, Sender, Post, Delete, ghostVars
<1>4. CASE World
  BY <1>4, <1>q DEF World, Flip, ClearSubjectAlertStates, AddSubject, Forget, Reconfigure,
     QuietToggles, Clock, Restart, ghostVars
<1>5. QED
  BY <1>1, <1>2, <1>3, <1>4 DEF Next, Tick, Step

(* No recovery is accepted for an incident whose last raise was suppressed,  *)
(* dropped or failed (step's "only if the alert actually went out"), although *)
(* rows are read once per tick and written and cleared by others meanwhile.   *)
THEOREM RecoveryFollowsAlert == Spec => RecoveryHasAlert
<1>1. Init => TellInv
  BY DEF Init, TellInv, Notified
<1>2. QED
  BY <1>1, TellStep, FollowsStep, AlertsTypeCorrect, PTL DEF Spec, RecoveryHasAlert

=============================================================================
