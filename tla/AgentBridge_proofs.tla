-------------------------- MODULE AgentBridge_proofs --------------------------
(***************************************************************************)
(* Proofs about the wakeup queue of AgentWakeups and the agent bridges of  *)
(* AgentBridge, for every set of wakeups, instances and texts and every    *)
(* value of the limits and bounds.                                         *)
(***************************************************************************)
EXTENDS AgentBridge, TLAPS

-----------------------------------------------------------------------------
(* The wakeup queue of AgentWakeups under arbitrary clients.  The lemmas   *)
(* about single row updates are used again for the bridges.                *)

(* The columns of a row that belong together: an owner and the timestamps  *)
(* of settling appear only once the status has moved that far.             *)
RowOK(r) ==
  /\ r.status \in {"absent", "requested"} => r.owner = NoBridge
  /\ r.status = "claimed" => r.owner # NoBridge
  /\ r.status \in {"absent", "requested", "claimed"} => ~ r.completedAt /\ ~ r.failedAt

RowsOK ==
  /\ rows \in [Wakeups -> Row]
  /\ \A w \in Wakeups : RowOK(rows[w])

QueueInv == RowsOK /\ checked \subseteq MarkRequest

(* Every row other than that of w is left alone. *)
OnlyRow(w) == \A v \in Wakeups : v # w => rows'[v] = rows[v]

-----------------------------------------------------------------------------
(* One lemma per SQL statement. *)

(* The insert keeps the columns consistent and touches no existing row.    *)
LEMMA UpsertStep ==
  ASSUME RowsOK, NEW w \in Wakeups, UpsertAgentWakeup(w)
  PROVE  /\ RowsOK'
         /\ OnlyRow(w)
         /\ rows'[w].owner = rows[w].owner
         /\ rows[w].status # "absent" => rows'[w] = rows[w]
  BY DEF RowsOK, RowOK, OnlyRow, UpsertAgentWakeup, Exists, NewRow, Row,
         DeliveryStatus, NotificationStatus

(* A claim succeeds only on a row without an owner or of the same owner.   *)
LEMMA ClaimStep ==
  ASSUME RowsOK, NEW w \in Wakeups, NEW b \in Bridges, ClaimAgentWakeup(b, w)
  PROVE  /\ RowsOK'
         /\ OnlyRow(w)
         /\ rows[w].owner \in {NoBridge, b}
         /\ rows'[w].owner = b
         /\ rows'[w].status = "claimed"
         /\ rows[w].status # "absent"
  BY ZenonT(40), NoBridgeAssumption
  DEF RowsOK, RowOK, OnlyRow, ClaimAgentWakeup, CanClaim, Row,
      DeliveryStatus, NotificationStatus

(* Complete and fail keep the owner, and succeed only for that owner or    *)
(* while there is none.                                                    *)
LEMMA SetStatusStep ==
  ASSUME RowsOK, NEW w \in Wakeups, NEW b \in Bridges,
         NEW status \in {"completed", "failed"},
         SetAgentWakeupStatus(b, w, status)
  PROVE  /\ RowsOK'
         /\ OnlyRow(w)
         /\ rows[w].owner \in {NoBridge, b}
         /\ rows'[w].owner = rows[w].owner
         /\ rows'[w].status = status
<1> DEFINE r == Settled(rows[w], status)
<1>1. /\ r.status = status
      /\ r.owner = rows[w].owner
      /\ r.notification = rows[w].notification
      /\ r.completedAt = (rows[w].completedAt \/ status = "completed")
      /\ r.failedAt = (rows[w].failedAt \/ status = "failed")
  BY DEF Settled, RowsOK, Row
<1>2. r \in Row
  <2>1. rows[w] \in Row
    BY DEF RowsOK
  <2>2. (rows[w].completedAt \/ status = "completed") \in BOOLEAN
        /\ (rows[w].failedAt \/ status = "failed") \in BOOLEAN
    OBVIOUS
  <2>3. QED
    BY <2>1, <2>2 DEF Settled, Row, DeliveryStatus
<1>3. RowOK(r)
  BY <1>1 DEF RowOK
<1>4. rows' = [rows EXCEPT ![w] = r]
  BY DEF SetAgentWakeupStatus
<1>5. rows[w].owner \in {NoBridge, b}
  BY DEF SetAgentWakeupStatus, CanSetStatus
<1> HIDE DEF r
<1>6. QED
  BY <1>1, <1>2, <1>3, <1>4, <1>5 DEF RowsOK, OnlyRow

(* Marking a notification leaves the delivery columns alone.               *)
LEMMA MarkStep ==
  ASSUME RowsOK, NEW w \in Wakeups, NEW status \in {"read", "dismissed"},
         MarkAgentWakeupNotification(w, status)
  PROVE  /\ RowsOK'
         /\ OnlyRow(w)
         /\ rows'[w].owner = rows[w].owner
         /\ rows'[w].status = rows[w].status
         /\ rows'[w].completedAt = rows[w].completedAt
  BY DEF RowsOK, RowOK, OnlyRow, MarkAgentWakeupNotification, Row,
         DeliveryStatus, NotificationStatus

-----------------------------------------------------------------------------
LEMMA QueueInitOK == QueueInit => QueueInv
  BY DEF QueueInit, QueueInv, RowsOK, RowOK, NewRow, Row, DeliveryStatus,
         NotificationStatus

(* An owner, once set, is not replaced. *)
OwnerStep == \A w \in Wakeups : rows[w].owner # NoBridge => rows'[w].owner = rows[w].owner

LEMMA QueueStepOK == QueueInv /\ [QueueNext]_queueVars => QueueInv' /\ OwnerStep
<1> SUFFICES ASSUME QueueInv, [QueueNext]_queueVars
             PROVE  QueueInv' /\ OwnerStep
  OBVIOUS
<1>1. ASSUME NEW w \in Wakeups, UpsertAgentWakeup(w), UNCHANGED checked
      PROVE  QueueInv' /\ OwnerStep
  BY <1>1, UpsertStep DEF QueueInv, OwnerStep, OnlyRow
<1>2. ASSUME NEW w \in Wakeups, NEW b \in Bridges, ClaimAgentWakeup(b, w),
             UNCHANGED checked
      PROVE  QueueInv' /\ OwnerStep
  BY <1>2, ClaimStep DEF QueueInv, OwnerStep, OnlyRow
<1>3. ASSUME NEW w \in Wakeups, NEW b \in Bridges, UNCHANGED checked,
             NEW status \in {"completed", "failed"},
             SetAgentWakeupStatus(b, w, status)
      PROVE  QueueInv' /\ OwnerStep
  BY <1>3, SetStatusStep DEF QueueInv, OwnerStep, OnlyRow
<1>4. ASSUME NEW m \in MarkRequest, CheckMark(m[1], m[2])
      PROVE  QueueInv' /\ OwnerStep
  <2>1. <<m[1], m[2]>> \in MarkRequest
    BY DEF MarkRequest
  <2>2. QED
    BY <1>4, <2>1 DEF QueueInv, RowsOK, OwnerStep, CheckMark
<1>5. ASSUME NEW m \in MarkRequest, WriteMark(m[1], m[2])
      PROVE  QueueInv' /\ OwnerStep
  <2>1. m[1] \in Wakeups /\ m[2] \in {"read", "dismissed"}
    BY DEF MarkRequest
  <2>2. MarkAgentWakeupNotification(m[1], m[2])
    BY <1>5 DEF WriteMark
  <2>3. RowsOK' /\ OnlyRow(m[1]) /\ rows'[m[1]].owner = rows[m[1]].owner
    BY <2>1, <2>2, MarkStep DEF QueueInv
  <2>4. QED
    BY <1>5, <2>1, <2>3 DEF QueueInv, OwnerStep, OnlyRow, WriteMark
<1>6. CASE UNCHANGED queueVars
  BY <1>6 DEF QueueInv, RowsOK, OwnerStep, queueVars
<1>7. QED
  BY <1>1, <1>2, <1>3, <1>4, <1>5, <1>6
  DEF QueueNext, CompleteAgentWakeup, FailAgentWakeup

Owners == [w \in Wakeups |-> rows[w].owner]

(* One operation sets at most one owner, where there was none. *)
LEMMA OwnersStep ==
  ASSUME QueueInv, [QueueNext]_queueVars
  PROVE  \/ Owners' = Owners
         \/ \E w \in Wakeups, b \in Bridges :
              Owners[w] = NoBridge /\ Owners' = [Owners EXCEPT ![w] = b]
<1>1. ASSUME NEW w \in Wakeups, rows'[w].owner = rows[w].owner, OnlyRow(w)
      PROVE  Owners' = Owners
  BY <1>1 DEF Owners, OnlyRow
<1>2. ASSUME NEW w \in Wakeups, UpsertAgentWakeup(w) PROVE Owners' = Owners
  BY <1>1, <1>2, UpsertStep DEF QueueInv
<1>3. ASSUME NEW w \in Wakeups, NEW b \in Bridges, ClaimAgentWakeup(b, w)
      PROVE  \/ Owners' = Owners
             \/ Owners[w] = NoBridge /\ Owners' = [Owners EXCEPT ![w] = b]
  <2>1. rows[w].owner \in {NoBridge, b} /\ rows'[w].owner = b /\ OnlyRow(w)
    BY <1>3, ClaimStep DEF QueueInv
  <2>2. QED
    BY <2>1 DEF Owners, OnlyRow
<1>4. ASSUME NEW w \in Wakeups, NEW b \in Bridges,
             NEW status \in {"completed", "failed"}, SetAgentWakeupStatus(b, w, status)
      PROVE  Owners' = Owners
  BY <1>1, <1>4, SetStatusStep DEF QueueInv
<1>5. ASSUME NEW m \in MarkRequest, CheckMark(m[1], m[2]) \/ WriteMark(m[1], m[2])
      PROVE  Owners' = Owners
  <2>1. m[1] \in Wakeups /\ m[2] \in {"read", "dismissed"}
    BY DEF MarkRequest
  <2>2. UNCHANGED rows \/ MarkAgentWakeupNotification(m[1], m[2])
    BY <1>5 DEF CheckMark, WriteMark
  <2>3. QED
    BY <1>1, <2>1, <2>2, MarkStep DEF QueueInv, Owners
<1>6. CASE UNCHANGED queueVars
  BY <1>6 DEF queueVars, Owners
<1>7. QED
  BY <1>2, <1>3, <1>4, <1>5, <1>6 DEF QueueNext, CompleteAgentWakeup, FailAgentWakeup

(* The columns of every row stay consistent whatever clients call. *)
THEOREM QueueInvariant == QueueSpec => []QueueInv
  BY QueueInitOK, QueueStepOK, PTL DEF QueueSpec

(* A completed or failed wakeup never starts again: no claim succeeds on a *)
(* row whose completion or failure has been recorded.                      *)
THEOREM SettledForGood == QueueSpec => []SettledIsFinal
<1>1. QueueInv => SettledIsFinal
  BY DEF QueueInv, RowsOK, RowOK, SettledIsFinal, Row, DeliveryStatus
<1>2. QED
  BY <1>1, QueueInvariant, PTL

(* No sequence of claims and reports hands a wakeup to another instance.   *)
THEOREM OwnerForGood == QueueSpec => OwnerStays
<1>1. QueueInv /\ [QueueNext]_queueVars => [OwnerStep]_queueVars
  BY QueueStepOK
<1>2. QED
  BY <1>1, QueueInvariant, PTL DEF QueueSpec, OwnerStays, OwnerStep

-----------------------------------------------------------------------------
(* The inductive invariant. *)

LocalOK ==
  /\ mem \in [Bridges -> State]
  /\ disk \in [Bridges -> State]
  /\ noAck \in [Bridges -> SUBSET Wakeups]
  /\ fails \in [Bridges -> [Wakeups -> 0 .. FailureLimit]]
  /\ waiting \in [Bridges -> SUBSET Wakeups]

ControlOK ==
  /\ batch \in [Bridges -> SUBSET Notification]
  /\ pc \in [Bridges -> Steps]
  /\ job \in [Bridges -> Job]

ThreadOK ==
  /\ reply \in [Wakeups -> Texts \cup {NoText}]
  /\ replay \in [Wakeups -> Texts \cup {NoText}]
  /\ direct \subseteq Wakeups
  /\ runners \in [Wakeups -> SUBSET Bridges]
  /\ runs \in [Wakeups -> Nat]
  /\ answer \in [Wakeups -> Outcome]
  /\ before \in [Wakeups -> SUBSET Message]
  /\ gaveUp \in [Bridges -> SUBSET Wakeups]
  /\ faults \in Nat
  /\ crashes \in Nat

(* An instance at work has a wakeup at hand; until the adapter returns the *)
(* failure limit has not been reached; what it posts is a text.            *)
JobOK ==
  \A b \in Bridges :
    /\ pc[b] # "idle" => job[b].id \in Wakeups
    /\ pc[b] \in {"fetch", "claim", "dispatch", "running"}
         => fails[b][job[b].id] < FailureLimit
    /\ pc[b] = "post" => job[b].text \in Texts

(* Between claim and run the row stays claimed by the instance; afterwards *)
(* the instance is among those that ran the agent.                         *)
ClaimHolds ==
  \A b \in Bridges :
    /\ pc[b] = "dispatch" => /\ rows[job[b].id].owner = b
                             /\ rows[job[b].id].status = "claimed"
    /\ pc[b] \in {"running", "inspect", "post"} => b \in runners[job[b].id]

IInv ==
  /\ QueueInv
  /\ LocalOK
  /\ ControlOK
  /\ ThreadOK
  /\ JobOK
  /\ ClaimHolds
  /\ OwnerRuns

LEMMA InvImpliesType == IInv => TypeOK
  BY DEF IInv, TypeOK, QueueTypeOK, QueueInv, RowsOK, LocalOK, ControlOK, ThreadOK

LEMMA InitInv == Init => IInv
<1> SUFFICES ASSUME Init PROVE IInv
  OBVIOUS
<1>1. QueueInv
  BY QueueInitOK DEF Init
<1>2. LocalOK
  BY BridgeConstants DEF Init, LocalOK, State
<1>3. ControlOK
  BY BridgeConstants DEF Init, ControlOK, Steps, Job, NoJob
<1>4. ThreadOK
  BY DEF Init, ThreadOK, Outcome
<1>5. JobOK /\ ClaimHolds /\ OwnerRuns
  BY DEF Init, JobOK, ClaimHolds, OwnerRuns
<1>6. QED
  BY <1>1, <1>2, <1>3, <1>4, <1>5 DEF IInv

-----------------------------------------------------------------------------
(* The bridges and their surroundings use the queue through its operations *)
(* only: every step is a step of QueueNext or leaves the queue alone.      *)

LEMMA JobAtHand ==
  ASSUME JobOK, NEW b \in Bridges, pc[b] # "idle"
  PROVE  job[b].id \in Wakeups
  BY DEF JobOK

LEMMA QueueFrame == IInv /\ [Next]_vars => [QueueNext]_queueVars
<1> SUFFICES ASSUME IInv, [Next]_vars PROVE [QueueNext]_queueVars
  OBVIOUS
<1> USE DEF IInv
<1>1. ASSUME NEW w \in Wakeups, Enqueue(w) PROVE QueueNext
  BY <1>1 DEF Enqueue, QueueNext
<1>2. ASSUME NEW m \in MarkRequest, AskMark(m[1], m[2]) \/ FinishMark(m[1], m[2])
      PROVE  QueueNext
  BY <1>2 DEF AskMark, FinishMark, QueueNext
<1>3. ASSUME NEW b \in Bridges, ClaimWakeup(b) PROVE [QueueNext]_queueVars
  <2>1. job[b].id \in Wakeups
    BY <1>3, JobAtHand DEF ClaimWakeup
  <2>2. UNCHANGED checked /\ (UNCHANGED rows \/ ClaimAgentWakeup(b, job[b].id))
    BY <1>3 DEF ClaimWakeup
  <2>3. QED
    BY <2>1, <2>2 DEF QueueNext, queueVars
<1>4. ASSUME NEW b \in Bridges, Complete(b) \/ CompleteAgain(b)
      PROVE  [QueueNext]_queueVars
  <2>1. job[b].id \in Wakeups
    BY <1>4, JobAtHand DEF Complete, CompleteAgain
  <2>2. UNCHANGED checked /\ (UNCHANGED rows \/ CompleteAgentWakeup(b, job[b].id))
    BY <1>4 DEF Complete, CompleteAgain
  <2>3. QED
    BY <2>1, <2>2 DEF QueueNext, queueVars
<1>5. ASSUME NEW b \in Bridges, FailAndReturn(b) \/ FailThenRead(b)
      PROVE  [QueueNext]_queueVars
  <2>1. job[b].id \in Wakeups
    BY <1>5, JobAtHand DEF FailAndReturn, FailThenRead
  <2>2. UNCHANGED checked /\ (UNCHANGED rows \/ FailAgentWakeup(b, job[b].id))
    BY <1>5 DEF FailAndReturn, FailThenRead, ReportFailure
  <2>3. QED
    BY <2>1, <2>2 DEF QueueNext, queueVars
<1>6. ASSUME NEW b \in Bridges, AckRead(b) PROVE [QueueNext]_queueVars
  <2>1. job[b].id \in Wakeups
    BY <1>6, JobAtHand DEF AckRead
  <2>2. CheckMark(job[b].id, "read") \/ UNCHANGED queueVars
    BY <1>6 DEF AckRead
  <2>3. /\ <<job[b].id, "read">> \in MarkRequest
        /\ <<job[b].id, "read">>[1] = job[b].id
        /\ <<job[b].id, "read">>[2] = "read"
    BY <2>1 DEF MarkRequest
  <2>4. QED
    BY <2>2, <2>3 DEF QueueNext
<1>7. ASSUME NEW b \in Bridges,
             \/ Drain(b)
             \/ \E n \in Notification : \/ TakeUnacknowledged(b, n)
                                        \/ TakeHandled(b, n)
                                        \/ TakeGivenUp(b, n)
                                        \/ TakeBackedOff(b, n)
                                        \/ TakeFresh(b, n)
             \/ FetchPacket(b)
             \/ Dispatch(b)
             \/ \E text \in Texts \cup {NoText} : AdapterReturns(b, text)
             \/ AdapterFails(b)
             \/ Inspect(b)
             \/ PostReply(b)
      PROVE  UNCHANGED queueVars
  BY <1>7 DEF Drain, TakeUnacknowledged, TakeHandled, TakeGivenUp, TakeBackedOff,
              TakeFresh, Take, FetchPacket, Dispatch, AdapterReturns, AdapterFails,
              Inspect, PostReply, queueVars
<1>8. ASSUME NEW b \in Bridges,
             \/ Consume(b) \/ ConsumeSilent(b)
             \/ MarkPending(b) \/ ClearPending(b) \/ ClearPendingAgain(b)
             \/ AgentPosts(b) \/ Crash(b)
             \/ \E w \in Wakeups : RetryDue(b, w)
      PROVE  UNCHANGED queueVars
  BY <1>8 DEF Consume, ConsumeSilent, ConsumeThen, MarkPending, ClearPending,
              ClearPendingAgain, AgentPosts, Crash, RetryDue, queueVars
<1>9. CASE UNCHANGED vars
  BY <1>9 DEF vars, queueVars
<1>10. QED
  BY <1>1, <1>2, <1>3, <1>4, <1>5, <1>6, <1>7, <1>8, <1>9 DEF Next, BridgeStep

-----------------------------------------------------------------------------
(* Types, one lemma per group of variables. *)

LEMMA StateValues ==
  ASSUME LocalOK, NEW b \in Bridges, NEW w \in Wakeups
  PROVE  /\ WithHandled(b, w) \in State
         /\ WithPending(b, w) \in State
         /\ WithoutPending(b, w) \in State
  BY DEF LocalOK, WithHandled, WithPending, WithoutPending, State

LEMMA PersistType ==
  ASSUME LocalOK, NEW b \in Bridges, NEW new \in State,
         Persist(b, new) \/ PersistFails(b, new)
  PROVE  mem' \in [Bridges -> State] /\ disk' \in [Bridges -> State]
  BY DEF LocalOK, Persist, PersistFails

LEMMA LocalStep == IInv /\ [Next]_vars => LocalOK'
<1> SUFFICES ASSUME IInv, [Next]_vars PROVE LocalOK'
  OBVIOUS
<1> USE DEF IInv
<1>1. ASSUME NEW w \in Wakeups, Enqueue(w) PROVE LocalOK'
  BY <1>1 DEF Enqueue, LocalOK, stateVars
<1>2. ASSUME NEW m \in MarkRequest, AskMark(m[1], m[2]) \/ FinishMark(m[1], m[2])
      PROVE  LocalOK'
  BY <1>2 DEF AskMark, FinishMark, LocalOK, stateVars
<1>3. ASSUME NEW b \in Bridges, NEW n \in Notification, TakeUnacknowledged(b, n)
      PROVE  LocalOK'
  <2>1. n.id \in Wakeups
    BY DEF Notification
  <2>2. mem' \in [Bridges -> State] /\ disk' \in [Bridges -> State]
    BY <1>3, <2>1, StateValues, PersistType DEF TakeUnacknowledged
  <2>3. noAck' \in [Bridges -> SUBSET Wakeups] /\ UNCHANGED <<fails, waiting>>
    BY <1>3 DEF TakeUnacknowledged, LocalOK
  <2>4. QED
    BY <2>2, <2>3 DEF LocalOK
<1>4. ASSUME NEW b \in Bridges, NEW n \in Notification, TakeGivenUp(b, n)
      PROVE  LocalOK'
  <2>1. n.id \in Wakeups
    BY DEF Notification
  <2>2. mem' \in [Bridges -> State] /\ disk' \in [Bridges -> State]
    BY <1>4, <2>1, StateValues, PersistType DEF TakeGivenUp
  <2>3. QED
    BY <1>4, <2>2 DEF TakeGivenUp, LocalOK
<1>5. ASSUME NEW b \in Bridges,
             FetchPacket(b) \/ ClaimWakeup(b) \/ AdapterFails(b)
      PROVE  LocalOK'
  <2>1. job[b].id \in Wakeups /\ fails[b][job[b].id] < FailureLimit
    BY <1>5 DEF JobOK, FetchPacket, ClaimWakeup, AdapterFails
  <2>2. UNCHANGED <<mem, disk, noAck>>
        /\ \/ UNCHANGED <<fails, waiting>>
           \/ RecordFailure(b)
    BY <1>5 DEF FetchPacket, ClaimWakeup, AdapterFails
  <2>3. CASE UNCHANGED <<fails, waiting>>
    BY <2>2, <2>3 DEF LocalOK
  <2>4. CASE RecordFailure(b)
    <3>1. fails[b][job[b].id] + 1 \in 0 .. FailureLimit
      BY <2>1, BridgeConstants DEF LocalOK
    <3>2. fails' \in [Bridges -> [Wakeups -> 0 .. FailureLimit]]
      BY <2>1, <2>4, <3>1 DEF RecordFailure, LocalOK
    <3>3. waiting' \in [Bridges -> SUBSET Wakeups]
      BY <2>1, <2>4 DEF RecordFailure, LocalOK
    <3>4. QED
      BY <2>2, <3>2, <3>3 DEF LocalOK
  <2>5. QED
    BY <2>2, <2>3, <2>4
<1>6. ASSUME NEW b \in Bridges, NEW text \in Texts \cup {NoText}, AdapterReturns(b, text)
      PROVE  LocalOK'
  <2>1. fails' \in [Bridges -> [Wakeups -> 0 .. FailureLimit]]
    <3>1. job[b].id \in Wakeups
      BY <1>6, JobAtHand DEF AdapterReturns
    <3>2. 0 \in 0 .. FailureLimit
      BY BridgeConstants
    <3>3. fails' = [fails EXCEPT ![b][job[b].id] = 0]
      BY <1>6 DEF AdapterReturns
    <3>4. QED
      BY <3>1, <3>2, <3>3 DEF LocalOK
  <2>2. waiting' \in [Bridges -> SUBSET Wakeups]
    BY <1>6 DEF AdapterReturns, LocalOK
  <2>3. disk' \in [Bridges -> State] /\ UNCHANGED <<mem, noAck>>
    BY <1>6 DEF AdapterReturns, LocalOK
  <2>4. QED
    BY <2>1, <2>2, <2>3 DEF LocalOK
<1>7. ASSUME NEW b \in Bridges, Consume(b) \/ ConsumeSilent(b) PROVE LocalOK'
  <2>1. job[b].id \in Wakeups
    BY <1>7, JobAtHand DEF Consume, ConsumeSilent
  <2>2. mem' \in [Bridges -> State] /\ disk' \in [Bridges -> State]
    BY <1>7, <2>1, StateValues, PersistType DEF Consume, ConsumeSilent, ConsumeThen
  <2>3. noAck' \in [Bridges -> SUBSET Wakeups] /\ UNCHANGED <<fails, waiting>>
    BY SMTT(20), <1>7, <2>1 DEF Consume, ConsumeSilent, ConsumeThen, LocalOK
  <2>4. QED
    BY <2>2, <2>3 DEF LocalOK
<1>8. ASSUME NEW b \in Bridges,
             MarkPending(b) \/ ClearPending(b) \/ ClearPendingAgain(b)
      PROVE  LocalOK'
  <2>1. job[b].id \in Wakeups
    BY <1>8, JobAtHand DEF MarkPending, ClearPending, ClearPendingAgain
  <2>2. mem' \in [Bridges -> State] /\ disk' \in [Bridges -> State]
    BY <1>8, <2>1, StateValues, PersistType
    DEF MarkPending, ClearPending, ClearPendingAgain
  <2>3. QED
    BY <1>8, <2>2 DEF MarkPending, ClearPending, ClearPendingAgain, LocalOK
<1>9. ASSUME NEW b \in Bridges, Crash(b) PROVE LocalOK'
  <2>1. [w \in Wakeups |-> 0] \in [Wakeups -> 0 .. FailureLimit]
    BY BridgeConstants
  <2>2. QED
    BY <1>9, <2>1 DEF Crash, LocalOK
<1>10. ASSUME NEW b \in Bridges, NEW w \in Wakeups, RetryDue(b, w) PROVE LocalOK'
  BY <1>10 DEF RetryDue, LocalOK
<1>11. ASSUME NEW b \in Bridges,
              \/ Drain(b) \/ Dispatch(b) \/ Inspect(b) \/ PostReply(b) \/ Complete(b)
              \/ CompleteAgain(b) \/ FailAndReturn(b) \/ FailThenRead(b) \/ AckRead(b)
              \/ AgentPosts(b)
              \/ \E n \in Notification :
                    TakeHandled(b, n) \/ TakeBackedOff(b, n) \/ TakeFresh(b, n)
       PROVE  UNCHANGED stateVars
  BY <1>11 DEF Drain, Dispatch, Inspect, PostReply, Complete, CompleteAgain,
               FailAndReturn, FailThenRead, AckRead, AgentPosts, TakeHandled,
               TakeBackedOff, TakeFresh, stateVars
<1>12. CASE UNCHANGED stateVars
  BY <1>12 DEF LocalOK, stateVars
<1>13. CASE UNCHANGED vars
  BY <1>13 DEF LocalOK, vars
<1>14. QED
  BY <1>1, <1>2, <1>3, <1>4, <1>5, <1>6, <1>7, <1>8, <1>9, <1>10, <1>11, <1>12, <1>13
  DEF Next, BridgeStep

(* A step of instance b from one call to the next that keeps the locals    *)
(* well formed.                                                            *)
Moves(b) ==
  \E step \in Steps, j \in Job :
    /\ pc' = [pc EXCEPT ![b] = step]
    /\ job' = [job EXCEPT ![b] = j]
    /\ step # "idle" => j.id \in Wakeups
    /\ step \in {"fetch", "claim", "dispatch", "running"}
         => fails'[b][j.id] < FailureLimit
    /\ step = "post" => j.text \in Texts

(* No other instance's failure counts change. *)
OwnFails(b) == \A c \in Bridges : c # b => fails'[c] = fails[c]

LEMMA MovesStep ==
  ASSUME IInv, NEW b \in Bridges, Moves(b), OwnFails(b),
         batch' \in [Bridges -> SUBSET Notification]
  PROVE  ControlOK' /\ JobOK'
<1> PICK step \in Steps, j \in Job :
      /\ pc' = [pc EXCEPT ![b] = step]
      /\ job' = [job EXCEPT ![b] = j]
      /\ step # "idle" => j.id \in Wakeups
      /\ step \in {"fetch", "claim", "dispatch", "running"}
           => fails'[b][j.id] < FailureLimit
      /\ step = "post" => j.text \in Texts
  BY DEF Moves
<1>1. ControlOK'
  BY DEF IInv, ControlOK
<1>2. pc'[b] = step /\ job'[b] = j
  BY DEF IInv, ControlOK
<1>3. ASSUME NEW c \in Bridges, c # b
      PROVE  pc'[c] = pc[c] /\ job'[c] = job[c] /\ fails'[c] = fails[c]
  BY <1>3 DEF IInv, ControlOK, OwnFails
<1>4. JobOK'
  BY <1>2, <1>3 DEF IInv, JobOK
<1>5. QED
  BY <1>1, <1>4

(* j is a well-formed successor of the locals of b, for the same wakeup.   *)
SameJob(b, j) == j \in Job /\ j.id = job[b].id

LEMMA JobValues ==
  ASSUME IInv, NEW b \in Bridges
  PROVE  /\ NoJob \in Job
         /\ \A n \in Notification :
              [NoJob EXCEPT !.id = n.id, !.seen = n.seen] \in Job
         /\ SameJob(b, [job[b] EXCEPT !.baselineKnown = TRUE, !.baseline = Posted])
         /\ SameJob(b, [job[b] EXCEPT !.baselineKnown = FALSE])
         /\ \A text \in Texts \cup {NoText} : SameJob(b, [job[b] EXCEPT !.text = text])
         /\ SameJob(b, [job[b] EXCEPT !.replied = TRUE])
         /\ SameJob(b, [job[b] EXCEPT !.marked = TRUE])
         /\ job[b].tries + 1 < PostAttempts
              => /\ SameJob(b, [job[b] EXCEPT !.tries = @ + 1])
                 /\ [job[b] EXCEPT !.tries = @ + 1].text = job[b].text
<1> USE DEF SameJob
<1>1. job[b] \in Job
  BY DEF IInv, ControlOK
<1>2. NoJob \in Job
  BY BridgeConstants DEF NoJob, Job
<1>3. ASSUME NEW n \in Notification
      PROVE  [NoJob EXCEPT !.id = n.id, !.seen = n.seen] \in Job
  BY <1>2 DEF Notification, Job
<1>4. Posted \subseteq Message
  BY DEF Posted
<1>5. /\ SameJob(b, [job[b] EXCEPT !.baselineKnown = TRUE, !.baseline = Posted])
      /\ SameJob(b, [job[b] EXCEPT !.baselineKnown = FALSE])
  BY <1>1, <1>4 DEF Job
<1>6. ASSUME NEW text \in Texts \cup {NoText}
      PROVE  SameJob(b, [job[b] EXCEPT !.text = text])
  BY <1>1 DEF Job
<1>7. /\ SameJob(b, [job[b] EXCEPT !.replied = TRUE])
      /\ SameJob(b, [job[b] EXCEPT !.marked = TRUE])
  BY <1>1 DEF Job
<1>8. ASSUME job[b].tries + 1 < PostAttempts
      PROVE  /\ SameJob(b, [job[b] EXCEPT !.tries = @ + 1])
             /\ [job[b] EXCEPT !.tries = @ + 1].text = job[b].text
  BY <1>1, <1>8, BridgeConstants DEF Job
<1>9. QED
  BY <1>2, <1>3, <1>5, <1>6, <1>7, <1>8

(* The ways a step sets pc[b] and job[b].                                  *)
LEMMA MovesBy ==
  ASSUME IInv, NEW b \in Bridges, NEW step \in Steps, NEW j \in Job,
         Goto(b, step), job' = [job EXCEPT ![b] = j],
         step # "idle" => j.id \in Wakeups,
         step \in {"fetch", "claim", "dispatch", "running"}
           => fails'[b][j.id] < FailureLimit,
         step = "post" => j.text \in Texts
  PROVE  Moves(b)
  BY DEF Moves, Goto

LEMMA MovesByGoto ==
  ASSUME IInv, NEW b \in Bridges, NEW step \in Steps,
         Goto(b, step), UNCHANGED job, pc[b] # "idle",
         step \in {"fetch", "claim", "dispatch", "running"}
           => fails'[b][job[b].id] < FailureLimit,
         step = "post" => job[b].text \in Texts
  PROVE  Moves(b)
<1>1. job[b] \in Job /\ job' = [job EXCEPT ![b] = job[b]]
  BY DEF IInv, ControlOK
<1>2. job[b].id \in Wakeups
  BY DEF IInv, JobOK
<1>3. QED
  BY <1>1, <1>2, MovesBy

LEMMA MovesByReturn ==
  ASSUME IInv, NEW b \in Bridges, Return(b)
  PROVE  Moves(b)
<1>1. "idle" \in Steps
  BY DEF Steps
<1>2. QED
  BY <1>1, JobValues, MovesBy DEF Return

LEMMA MovesByStart ==
  ASSUME IInv, NEW b \in Bridges, NEW n \in Notification,
         NEW step \in {"read", "recomplete", "fetch"}, Start(b, n, step),
         step = "fetch" => fails'[b][n.id] < FailureLimit
  PROVE  Moves(b)
<1> DEFINE j == [NoJob EXCEPT !.id = n.id, !.seen = n.seen]
<1>1. j \in Job
  BY JobValues
<1>2. j.id = n.id /\ n.id \in Wakeups
  BY DEF Notification, NoJob
<1>3. step \in Steps /\ step \notin {"idle", "claim", "dispatch", "running", "post"}
  BY DEF Steps
<1>4. Goto(b, step) /\ job' = [job EXCEPT ![b] = j]
  BY DEF Start
<1> HIDE DEF j
<1>5. QED
  BY <1>1, <1>2, <1>3, <1>4, MovesBy

(* UNCHANGED pc and job is a move to where the instance already is.        *)
LEMMA MovesNowhere ==
  ASSUME IInv, NEW b \in Bridges, UNCHANGED <<pc, job, fails>>
  PROVE  Moves(b)
  BY DEF Moves, IInv, ControlOK, JobOK

LEMMA ControlStep == IInv /\ [Next]_vars => ControlOK' /\ JobOK'
<1> SUFFICES ASSUME IInv, [Next]_vars PROVE ControlOK' /\ JobOK'
  OBVIOUS
<1> USE DEF OwnFails
<1>1. ASSUME UNCHANGED <<batch, pc, job, fails>> PROVE ControlOK' /\ JobOK'
  BY <1>1 DEF IInv, ControlOK, JobOK
<1>2. ASSUME NEW b \in Bridges, Moves(b), OwnFails(b), UNCHANGED batch
      PROVE  ControlOK' /\ JobOK'
  BY <1>2, MovesStep DEF IInv, ControlOK
<1>3. ASSUME NEW b \in Bridges, NEW n \in Notification, Take(b, n), Moves(b), OwnFails(b)
      PROVE  ControlOK' /\ JobOK'
  <2>1. batch' \in [Bridges -> SUBSET Notification]
    BY <1>3 DEF Take, IInv, ControlOK
  <2>2. QED
    BY <1>3, <2>1, MovesStep
<1>4. ASSUME NEW b \in Bridges, Drain(b) PROVE ControlOK' /\ JobOK'
  <2>1. {[id |-> w, seen |-> rows[w].notification] : w \in Listed} \subseteq Notification
    BY DEF IInv, QueueInv, RowsOK, Row, NotificationStatus, Listed, Notification
  <2>2. batch' \in [Bridges -> SUBSET Notification]
    BY <1>4, <2>1 DEF Drain, IInv, ControlOK
  <2>3. QED
    BY <1>4, <2>2, MovesNowhere, MovesStep DEF Drain, stateVars
<1>5. ASSUME NEW b \in Bridges, NEW n \in Notification, TakeUnacknowledged(b, n)
      PROVE  ControlOK' /\ JobOK'
  <2>1. Take(b, n) /\ UNCHANGED fails
    BY <1>5 DEF TakeUnacknowledged
  <2>2. Start(b, n, "read") \/ UNCHANGED <<pc, job>>
    BY <1>5 DEF TakeUnacknowledged
  <2>3. Moves(b)
    BY <2>1, <2>2, MovesByStart, MovesNowhere
  <2>4. QED
    BY <1>3, <2>1, <2>3
<1>6. ASSUME NEW b \in Bridges, NEW n \in Notification, TakeHandled(b, n)
      PROVE  ControlOK' /\ JobOK'
  <2>1. Take(b, n) /\ UNCHANGED fails
    BY <1>6 DEF TakeHandled, stateVars
  <2>2. Start(b, n, "recomplete") \/ Start(b, n, "read") \/ UNCHANGED <<pc, job>>
    BY <1>6 DEF TakeHandled
  <2>3. Moves(b)
    BY <2>1, <2>2, MovesByStart, MovesNowhere
  <2>4. QED
    BY <1>3, <2>1, <2>3
<1>7. ASSUME NEW b \in Bridges, NEW n \in Notification, TakeGivenUp(b, n)
      PROVE  ControlOK' /\ JobOK'
  <2>1. Take(b, n) /\ UNCHANGED fails /\ Start(b, n, "read")
    BY <1>7 DEF TakeGivenUp
  <2>2. QED
    BY <1>3, <2>1, MovesByStart
<1>8. ASSUME NEW b \in Bridges, NEW n \in Notification, TakeBackedOff(b, n)
      PROVE  ControlOK' /\ JobOK'
  BY <1>3, <1>8, MovesNowhere DEF TakeBackedOff, stateVars
<1>9. ASSUME NEW b \in Bridges, NEW n \in Notification, TakeFresh(b, n)
      PROVE  ControlOK' /\ JobOK'
  <2>1. Take(b, n) /\ UNCHANGED fails /\ Start(b, n, "fetch")
    BY <1>9 DEF TakeFresh, stateVars
  <2>2. fails'[b][n.id] < FailureLimit
    BY <1>9 DEF TakeFresh, stateVars
  <2>3. QED
    BY <1>3, <2>1, <2>2, MovesByStart
<1>10. ASSUME NEW b \in Bridges, FetchPacket(b) \/ ClaimWakeup(b) \/ AdapterFails(b)
       PROVE  ControlOK' /\ JobOK'
  <2>1. /\ UNCHANGED batch /\ pc[b] # "idle"
        /\ job[b].id \in Wakeups /\ fails[b][job[b].id] < FailureLimit
    BY <1>10 DEF FetchPacket, ClaimWakeup, AdapterFails, IInv, JobOK
  <2>2. \/ UNCHANGED <<fails, job>> /\ (Goto(b, "claim") \/ Goto(b, "dispatch"))
        \/ UNCHANGED fails /\ Return(b)
        \/ UNCHANGED job /\ RecordFailure(b)
    BY <1>10 DEF FetchPacket, ClaimWakeup, AdapterFails
  <2>3. CASE UNCHANGED <<fails, job>> /\ (Goto(b, "claim") \/ Goto(b, "dispatch"))
    BY <1>2, <2>1, <2>3, MovesByGoto DEF Steps
  <2>4. CASE UNCHANGED fails /\ Return(b)
    BY <1>2, <2>1, <2>4, MovesByReturn
  <2>5. CASE UNCHANGED job /\ RecordFailure(b)
    <3>1. OwnFails(b) /\ Goto(b, "fail")
      BY <2>5 DEF RecordFailure, IInv, LocalOK
    <3>2. QED
      BY <1>2, <2>1, <2>5, <3>1, MovesByGoto DEF Steps
  <2>6. QED
    BY <2>2, <2>3, <2>4, <2>5
<1>11. ASSUME NEW b \in Bridges, Dispatch(b) PROVE ControlOK' /\ JobOK'
  <2>1. /\ UNCHANGED <<batch, fails>> /\ pc[b] # "idle" /\ Goto(b, "running")
        /\ job[b].id \in Wakeups /\ fails[b][job[b].id] < FailureLimit
    BY <1>11 DEF Dispatch, stateVars, IInv, JobOK
  <2>2. PICK j : SameJob(b, j) /\ job' = [job EXCEPT ![b] = j]
    <3>1. \/ job' = [job EXCEPT ![b] = [job[b] EXCEPT !.baselineKnown = FALSE]]
          \/ job' = [job EXCEPT ![b] =
                       [job[b] EXCEPT !.baselineKnown = TRUE, !.baseline = Posted]]
      BY <1>11 DEF Dispatch
    <3>2. QED
      BY <3>1, JobValues
  <2>3. Moves(b)
    BY <2>1, <2>2, MovesBy DEF Steps, SameJob
  <2>4. QED
    BY SMTT(20), <1>2, <2>1, <2>3
<1>12. ASSUME NEW b \in Bridges, NEW text \in Texts \cup {NoText}, AdapterReturns(b, text)
       PROVE  ControlOK' /\ JobOK'
  <2> DEFINE j == [job[b] EXCEPT !.text = text]
  <2>1. /\ UNCHANGED batch /\ Goto(b, "inspect") /\ job[b].id \in Wakeups
    BY <1>12, JobAtHand DEF AdapterReturns, IInv
  <2>2. j \in Job /\ j.id = job[b].id
    BY JobValues DEF SameJob
  <2>3. job' = [job EXCEPT ![b] = j]
    BY <1>12 DEF AdapterReturns
  <2>4. OwnFails(b)
    BY <1>12 DEF AdapterReturns, IInv, LocalOK
  <2> HIDE DEF j
  <2>5. Moves(b)
    BY <2>1, <2>2, <2>3, MovesBy DEF Steps
  <2>6. QED
    BY <1>2, <2>1, <2>4, <2>5
<1>13. ASSUME NEW b \in Bridges, Inspect(b) PROVE ControlOK' /\ JobOK'
  <2>1. UNCHANGED <<batch, fails>> /\ pc[b] # "idle" /\ job[b].id \in Wakeups
    BY <1>13, JobAtHand DEF Inspect, stateVars, IInv
  <2>2. CASE Goto(b, "consume") /\ job' = [job EXCEPT ![b] = [@ EXCEPT !.replied = TRUE]]
    <3> DEFINE j == [job[b] EXCEPT !.replied = TRUE]
    <3>1. j \in Job /\ job' = [job EXCEPT ![b] = j] /\ j.id = job[b].id
      BY <2>2, JobValues DEF SameJob
    <3> HIDE DEF j
    <3>2. QED
      BY <1>2, <2>1, <2>2, <3>1, MovesBy DEF Steps
  <2>3. CASE Goto(b, IF job[b].text # NoText THEN "post" ELSE "complete") /\ UNCHANGED job
    <3>1. job[b].text \in Texts \cup {NoText}
      BY DEF IInv, ControlOK, Job
    <3>2. QED
      BY <1>2, <2>1, <2>3, <3>1, MovesByGoto DEF Steps
  <2>4. job' = [job EXCEPT ![b].replied = TRUE]
          => job' = [job EXCEPT ![b] = [@ EXCEPT !.replied = TRUE]]
    OBVIOUS
  <2>5. QED
    BY <1>13, <2>2, <2>3, <2>4 DEF Inspect
<1>14. ASSUME NEW b \in Bridges, PostReply(b) PROVE ControlOK' /\ JobOK'
  <2>1. /\ UNCHANGED <<batch, fails>> /\ pc[b] # "idle" /\ pc[b] = "post"
        /\ job[b].id \in Wakeups /\ job[b].text \in Texts
    BY <1>14 DEF PostReply, stateVars, IInv, JobOK
  <2>2. \/ Goto(b, "consume") /\ job' = [job EXCEPT ![b] = [@ EXCEPT !.replied = TRUE]]
        \/ Goto(b, "failThenRead") /\ UNCHANGED job
        \/ /\ job[b].tries + 1 < PostAttempts
           /\ job' = [job EXCEPT ![b].tries = @ + 1]
           /\ UNCHANGED pc
    <3>1. \/ Goto(b, "consume") /\ job' = [job EXCEPT ![b].replied = TRUE]
          \/ PostAgainOrGiveUp(b)
      BY <1>14 DEF PostReply
    <3>2. CASE Goto(b, "consume") /\ job' = [job EXCEPT ![b].replied = TRUE]
      BY <3>2
    <3>3. CASE PostAgainOrGiveUp(b)
      BY <3>3 DEF PostAgainOrGiveUp
    <3>4. QED
      BY <3>1, <3>2, <3>3
  <2>3. CASE Goto(b, "consume") /\ job' = [job EXCEPT ![b] = [@ EXCEPT !.replied = TRUE]]
    <3> DEFINE j == [job[b] EXCEPT !.replied = TRUE]
    <3>1. j \in Job /\ job' = [job EXCEPT ![b] = j] /\ j.id = job[b].id
      BY <2>3, JobValues DEF SameJob
    <3> HIDE DEF j
    <3>2. QED
      BY <1>2, <2>1, <2>3, <3>1, MovesBy DEF Steps
  <2>4. CASE Goto(b, "failThenRead") /\ UNCHANGED job
    BY <1>2, <2>1, <2>4, MovesByGoto DEF Steps
  <2>5. CASE /\ job[b].tries + 1 < PostAttempts
             /\ job' = [job EXCEPT ![b].tries = @ + 1]
             /\ UNCHANGED pc
    <3> DEFINE j == [job[b] EXCEPT !.tries = @ + 1]
    <3>1. /\ j \in Job /\ job' = [job EXCEPT ![b] = j]
          /\ j.id = job[b].id /\ j.text = job[b].text
      <4>1. SameJob(b, j) /\ j.text = job[b].text
        BY <2>5, JobValues
      <4>2. QED
        BY <2>5, <4>1 DEF SameJob
    <3>2. Goto(b, "post")
      BY <2>1, <2>5 DEF Goto, IInv, ControlOK
    <3> HIDE DEF j
    <3>3. QED
      BY <1>2, <2>1, <3>1, <3>2, MovesBy DEF Steps
  <2>6. QED
    BY <2>2, <2>3, <2>4, <2>5
<1>15. ASSUME NEW b \in Bridges, Consume(b) \/ ConsumeSilent(b)
       PROVE  ControlOK' /\ JobOK'
  <2>1. UNCHANGED <<batch, fails>> /\ pc[b] # "idle" /\ job[b].id \in Wakeups
    BY <1>15, JobAtHand DEF Consume, ConsumeSilent, ConsumeThen, IInv
  <2>2. \E step \in {"markPending", "complete", "read"} :
          /\ Goto(b, step)
          /\ \/ job' = [job EXCEPT ![b] = [@ EXCEPT !.marked = TRUE]]
             \/ UNCHANGED job
    BY <1>15 DEF Consume, ConsumeSilent, ConsumeThen
  <2>3. PICK step \in {"markPending", "complete", "read"} :
          /\ Goto(b, step)
          /\ \/ job' = [job EXCEPT ![b] = [@ EXCEPT !.marked = TRUE]]
             \/ UNCHANGED job
    BY <2>2
  <2>4. CASE UNCHANGED job
    BY <1>2, <2>1, <2>3, <2>4, MovesByGoto DEF Steps
  <2>5. CASE job' = [job EXCEPT ![b] = [@ EXCEPT !.marked = TRUE]]
    <3> DEFINE j == [job[b] EXCEPT !.marked = TRUE]
    <3>1. j \in Job /\ job' = [job EXCEPT ![b] = j] /\ j.id = job[b].id
      BY <2>5, JobValues DEF SameJob
    <3> HIDE DEF j
    <3>2. step \in Steps \ {"idle", "fetch", "claim", "dispatch", "running", "post"}
      BY DEF Steps
    <3>3. Moves(b)
      BY <2>1, <2>3, <3>1, <3>2, MovesBy
    <3>4. QED
      BY SMTT(20), <1>2, <2>1, <3>3
  <2>6. QED
    BY <2>3, <2>4, <2>5
<1>16. ASSUME NEW b \in Bridges,
              \/ MarkPending(b) \/ Complete(b) \/ ClearPending(b) \/ CompleteAgain(b)
              \/ ClearPendingAgain(b) \/ FailAndReturn(b) \/ FailThenRead(b) \/ AckRead(b)
       PROVE  ControlOK' /\ JobOK'
  <2>1. UNCHANGED <<batch, fails>> /\ pc[b] # "idle"
    BY <1>16 DEF MarkPending, Complete, ClearPending, CompleteAgain, ClearPendingAgain,
                 FailAndReturn, FailThenRead, AckRead, stateVars
  <2>2. \/ Return(b)
        \/ \E step \in {"clearPending", "consumeSilent", "read", "failThenRead",
                       "complete", "reclear", "fail"} :
             Goto(b, step) /\ UNCHANGED job
    BY <1>16 DEF MarkPending, Complete, ClearPending, CompleteAgain, ClearPendingAgain,
                 FailAndReturn, FailThenRead, AckRead, AfterComplete
  <2>3. Moves(b)
    BY <2>1, <2>2, MovesByReturn, MovesByGoto DEF Steps
  <2>4. QED
    BY <1>2, <2>1, <2>3
<1>17. ASSUME NEW b \in Bridges, Crash(b) PROVE ControlOK' /\ JobOK'
  <2>1. batch' \in [Bridges -> SUBSET Notification] /\ OwnFails(b)
    BY <1>17 DEF Crash, IInv, ControlOK, LocalOK
  <2>2. QED
    BY <1>17, <2>1, MovesByReturn, MovesStep DEF Crash
<1>18. ASSUME \/ \E w \in Wakeups : Enqueue(w)
              \/ \E m \in MarkRequest : AskMark(m[1], m[2]) \/ FinishMark(m[1], m[2])
              \/ \E b \in Bridges : \/ AgentPosts(b)
                                    \/ \E w \in Wakeups : RetryDue(b, w)
              \/ UNCHANGED vars
       PROVE  UNCHANGED <<batch, pc, job, fails>>
  BY <1>18 DEF Enqueue, AskMark, FinishMark, AgentPosts, RetryDue, stateVars, vars
<1>19. QED
  BY <1>1, <1>4, <1>5, <1>6, <1>7, <1>8, <1>9, <1>10, <1>11, <1>12, <1>13, <1>14, <1>15,
     <1>16, <1>17, <1>18
  DEF Next, BridgeStep

LEMMA ThreadStep == IInv /\ [Next]_vars => ThreadOK'
<1> SUFFICES ASSUME IInv, [Next]_vars PROVE ThreadOK'
  OBVIOUS
<1> DEFINE Counted == /\ faults' \in {faults, faults + 1}
                      /\ crashes' \in {crashes, crashes + 1}
<1>1. ASSUME UNCHANGED <<threadVars, history>>, Counted PROVE ThreadOK'
  BY <1>1 DEF IInv, ThreadOK, threadVars, history
<1>2. ASSUME \/ \E w \in Wakeups : Enqueue(w)
             \/ \E m \in MarkRequest : AskMark(m[1], m[2]) \/ FinishMark(m[1], m[2])
             \/ \E b \in Bridges, w \in Wakeups : RetryDue(b, w)
             \/ \E b \in Bridges : Drain(b) \/ Crash(b)
             \/ UNCHANGED vars
      PROVE  UNCHANGED <<threadVars, history>> /\ Counted
  BY <1>2 DEF Enqueue, AskMark, FinishMark, RetryDue, Drain, Crash, vars, threadVars, history
<1>3. ASSUME NEW b \in Bridges, NEW n \in Notification,
             \/ TakeUnacknowledged(b, n) \/ TakeHandled(b, n)
             \/ TakeBackedOff(b, n) \/ TakeFresh(b, n)
      PROVE  UNCHANGED <<threadVars, history>> /\ Counted
  BY <1>3 DEF TakeUnacknowledged, TakeHandled, TakeBackedOff, TakeFresh, Take,
              Persist, PersistFails, Fault, NoFault
<1>4. ASSUME NEW b \in Bridges, NEW n \in Notification, TakeGivenUp(b, n)
      PROVE  ThreadOK'
  <2>1. n.id \in Wakeups
    BY DEF Notification
  <2>2. UNCHANGED <<threadVars, runners, runs, answer, before>> /\ Counted
        /\ gaveUp' = [gaveUp EXCEPT ![b] = @ \cup {n.id}]
    BY <1>4 DEF TakeGivenUp, Take, Persist, PersistFails, Fault, NoFault
  <2>3. QED
    BY <2>1, <2>2 DEF IInv, ThreadOK, Outcome, threadVars
<1>5. ASSUME NEW b \in Bridges,
             \/ FetchPacket(b) \/ ClaimWakeup(b) \/ AdapterFails(b) \/ Inspect(b)
             \/ Consume(b) \/ ConsumeSilent(b) \/ MarkPending(b) \/ Complete(b)
             \/ ClearPending(b) \/ CompleteAgain(b) \/ ClearPendingAgain(b)
             \/ FailAndReturn(b) \/ FailThenRead(b) \/ AckRead(b)
      PROVE  UNCHANGED <<threadVars, history>> /\ Counted
  BY <1>5 DEF FetchPacket, ClaimWakeup, AdapterFails, Inspect, Consume, ConsumeSilent,
              ConsumeThen, MarkPending, Complete, ClearPending, CompleteAgain,
              ClearPendingAgain, FailAndReturn, FailThenRead, ReportFailure, AckRead,
              Persist, PersistFails, Fault, NoFault
<1>6. ASSUME NEW b \in Bridges, Dispatch(b) PROVE ThreadOK'
  <2>1. job[b].id \in Wakeups
    BY <1>6, JobAtHand DEF Dispatch, IInv
  <2>2. /\ UNCHANGED threadVars /\ Counted
        /\ runners' = [runners EXCEPT ![job[b].id] = @ \cup {b}]
        /\ runs' = [runs EXCEPT ![job[b].id] = @ + 1]
        /\ answer' = [answer EXCEPT ![job[b].id] = "none"]
        /\ before' = [before EXCEPT ![job[b].id] = Posted]
        /\ gaveUp' = [gaveUp EXCEPT ![b] = @ \ {job[b].id}]
    BY <1>6 DEF Dispatch, Fault, NoFault
  <2>3. QED
    BY <2>1, <2>2 DEF IInv, ThreadOK, Outcome, Posted, threadVars
<1>7. ASSUME NEW b \in Bridges, NEW text \in Texts \cup {NoText}, AdapterReturns(b, text)
      PROVE  ThreadOK'
  BY <1>7 DEF AdapterReturns, IInv, ThreadOK, Outcome, threadVars
<1>8. ASSUME NEW b \in Bridges, PostReply(b) PROVE ThreadOK'
  <2>1. job[b].id \in Wakeups /\ job[b].text \in Texts
    BY <1>8 DEF PostReply, IInv, JobOK
  <2>2. /\ UNCHANGED <<direct, history>> /\ Counted
        /\ UNCHANGED reply \/ AppendReply(job[b].id, job[b].text)
        /\ UNCHANGED replay \/ replay' = [replay EXCEPT ![job[b].id] = job[b].text]
    BY <1>8 DEF PostReply, Fault, NoFault
  <2>3. reply' \in [Wakeups -> Texts \cup {NoText}]
    BY <2>1, <2>2 DEF IInv, ThreadOK, AppendReply
  <2>4. replay' \in [Wakeups -> Texts \cup {NoText}]
    BY <2>1, <2>2 DEF IInv, ThreadOK
  <2>5. QED
    BY <2>2, <2>3, <2>4 DEF IInv, ThreadOK, history
<1>9. ASSUME NEW b \in Bridges, AgentPosts(b) PROVE ThreadOK'
  BY <1>9, JobAtHand DEF AgentPosts, IInv, ThreadOK, history
<1> HIDE DEF Counted
<1>10. QED
  BY <1>1, <1>2, <1>3, <1>4, <1>5, <1>6, <1>7, <1>8, <1>9 DEF Next, BridgeStep

-----------------------------------------------------------------------------
(* Ownership. *)

(* Who ran the agent for a wakeup stays the owner of its row.              *)
LEMMA OwnershipStep ==
  ASSUME QueueInv, [QueueNext]_queueVars, OwnerRuns, runners \in [Wakeups -> SUBSET Bridges]
  PROVE  \A w \in Wakeups : runners[w] \subseteq {rows'[w].owner}
<1> SUFFICES ASSUME NEW w \in Wakeups, NEW r \in runners[w]
             PROVE  r = rows'[w].owner
  OBVIOUS
<1>1. r = rows[w].owner /\ r \in Bridges
  BY DEF OwnerRuns
<1>2. rows[w].owner # NoBridge
  BY <1>1, NoBridgeAssumption
<1>3. QED
  BY <1>1, <1>2, QueueStepOK DEF OwnerStep

(* A row that exists changes its owner or its delivery status only by a    *)
(* step of an instance that is not about to run the agent, and that owns   *)
(* the row unless nobody does.                                             *)
LEMMA RowsByStep ==
  ASSUME IInv, [Next]_vars, NEW w \in Wakeups
  PROVE  \/ rows'[w].owner = rows[w].owner /\ rows'[w].status = rows[w].status
         \/ rows[w].status = "absent"
         \/ \E b \in Bridges : /\ pc[b] \notin {"dispatch", "running"}
                               /\ rows[w].owner \in {NoBridge, b}
<1> DEFINE Kept == rows'[w].owner = rows[w].owner /\ rows'[w].status = rows[w].status
<1>0. RowsOK
  BY DEF IInv, QueueInv
<1>1. ASSUME NEW v \in Wakeups, Enqueue(v) PROVE Kept \/ rows[w].status = "absent"
  BY <1>0, <1>1, UpsertStep DEF Enqueue, OnlyRow
<1>2. ASSUME NEW m \in MarkRequest, AskMark(m[1], m[2]) \/ FinishMark(m[1], m[2])
      PROVE  Kept
  <2>1. m[1] \in Wakeups /\ m[2] \in {"read", "dismissed"}
    BY DEF MarkRequest
  <2>2. UNCHANGED rows \/ MarkAgentWakeupNotification(m[1], m[2])
    BY <1>2 DEF AskMark, FinishMark, CheckMark, WriteMark
  <2>3. QED
    BY <1>0, <2>1, <2>2, MarkStep DEF OnlyRow
<1>3. ASSUME NEW b \in Bridges, ClaimWakeup(b)
      PROVE  Kept \/ (pc[b] \notin {"dispatch", "running"} /\ rows[w].owner \in {NoBridge, b})
  <2>1. pc[b] = "claim" /\ job[b].id \in Wakeups
        /\ (UNCHANGED rows \/ ClaimAgentWakeup(b, job[b].id))
    BY <1>3, JobAtHand DEF ClaimWakeup, IInv
  <2>2. QED
    BY <1>0, <2>1, ClaimStep DEF OnlyRow
<1>4. ASSUME NEW b \in Bridges,
             Complete(b) \/ CompleteAgain(b) \/ FailAndReturn(b) \/ FailThenRead(b)
      PROVE  Kept \/ (pc[b] \notin {"dispatch", "running"} /\ rows[w].owner \in {NoBridge, b})
  <2>1. pc[b] \notin {"idle", "dispatch", "running"} /\ job[b].id \in Wakeups
    BY <1>4, JobAtHand DEF Complete, CompleteAgain, FailAndReturn, FailThenRead, IInv
  <2>2. UNCHANGED rows \/ \E status \in {"completed", "failed"} :
                            SetAgentWakeupStatus(b, job[b].id, status)
    BY <1>4 DEF Complete, CompleteAgain, FailAndReturn, FailThenRead, ReportFailure,
                CompleteAgentWakeup, FailAgentWakeup
  <2>3. QED
    BY <1>0, <2>1, <2>2, SetStatusStep DEF OnlyRow
<1>5. ASSUME NEW b \in Bridges, AckRead(b) PROVE UNCHANGED rows
  BY SMTT(20), <1>5 DEF AckRead, CheckMark, queueVars
<1>6. ASSUME NEW b \in Bridges,
             \/ Drain(b)
             \/ \E n \in Notification : \/ TakeUnacknowledged(b, n)
                                        \/ TakeHandled(b, n)
                                        \/ TakeGivenUp(b, n)
                                        \/ TakeBackedOff(b, n)
                                        \/ TakeFresh(b, n)
             \/ FetchPacket(b) \/ Dispatch(b)
             \/ \E text \in Texts \cup {NoText} : AdapterReturns(b, text)
             \/ AdapterFails(b) \/ Inspect(b) \/ PostReply(b)
      PROVE  UNCHANGED rows
  BY <1>6 DEF Drain, TakeUnacknowledged, TakeHandled, TakeGivenUp, TakeBackedOff,
              TakeFresh, Take, FetchPacket, Dispatch, AdapterReturns, AdapterFails,
              Inspect, PostReply
<1>7. ASSUME NEW b \in Bridges,
             \/ Consume(b) \/ ConsumeSilent(b)
             \/ MarkPending(b) \/ ClearPending(b) \/ ClearPendingAgain(b)
             \/ AgentPosts(b) \/ Crash(b)
             \/ \E v \in Wakeups : RetryDue(b, v)
      PROVE  UNCHANGED rows
  BY <1>7 DEF Consume, ConsumeSilent, ConsumeThen, MarkPending, ClearPending,
              ClearPendingAgain, AgentPosts, Crash, RetryDue
<1>8. CASE UNCHANGED vars
  BY <1>8 DEF vars
<1>9. QED
  BY <1>1, <1>2, <1>3, <1>4, <1>5, <1>6, <1>7, <1>8 DEF Next, BridgeStep

AfterRun == {"running", "inspect", "post"}

(* How instance c comes to the calls that ClaimHolds is about.             *)
Arrives(c) ==
  /\ pc'[c] = "dispatch" =>
       \/ pc[c] = "dispatch" /\ job'[c] = job[c]
       \/ ClaimAgentWakeup(c, job[c].id) /\ pc[c] = "claim" /\ job'[c] = job[c]
  /\ pc'[c] \in AfterRun =>
       /\ job'[c].id = job[c].id
       /\ pc[c] \in AfterRun \/ Dispatch(c)

LEMMA ArrivesStep ==
  ASSUME IInv, [Next]_vars, NEW c \in Bridges
  PROVE  Arrives(c)
<1>0. pc \in [Bridges -> Steps] /\ job \in [Bridges -> Job]
  BY DEF IInv, ControlOK
<1>1. ASSUME UNCHANGED <<pc, job>> PROVE Arrives(c)
  BY <1>1 DEF Arrives
<1>2. ASSUME NEW b \in Bridges, NEW step \in Steps \ ({"dispatch"} \cup AfterRun),
             Goto(b, step), UNCHANGED job \/ \E j : job' = [job EXCEPT ![b] = j]
      PROVE  Arrives(c)
  BY <1>0, <1>2 DEF Arrives, Goto
<1>3. ASSUME NEW b \in Bridges, NEW n \in Notification,
             \/ TakeUnacknowledged(b, n) \/ TakeHandled(b, n) \/ TakeGivenUp(b, n)
             \/ TakeBackedOff(b, n) \/ TakeFresh(b, n)
      PROVE  Arrives(c)
  <2>1. \/ UNCHANGED <<pc, job>>
        \/ \E step \in {"read", "recomplete", "fetch"} : Start(b, n, step)
    BY <1>3 DEF TakeUnacknowledged, TakeHandled, TakeGivenUp, TakeBackedOff, TakeFresh
  <2>2. {"read", "recomplete", "fetch"} \subseteq Steps \ ({"dispatch"} \cup AfterRun)
    BY DEF Steps, AfterRun
  <2>3. QED
    BY <1>1, <1>2, <2>1, <2>2 DEF Start
<1>4. ASSUME NEW b \in Bridges, ClaimWakeup(b) PROVE Arrives(c)
  <2>1. pc[b] = "claim"
        /\ \/ Goto(b, "dispatch") /\ UNCHANGED job /\ ClaimAgentWakeup(b, job[b].id)
           \/ Return(b)
           \/ Goto(b, "fail") /\ UNCHANGED job
    BY <1>4 DEF ClaimWakeup, RecordFailure
  <2>2. CASE Goto(b, "dispatch") /\ UNCHANGED job /\ ClaimAgentWakeup(b, job[b].id)
    BY <1>0, <2>1, <2>2 DEF Arrives, Goto, AfterRun
  <2>3. CASE Return(b) \/ (Goto(b, "fail") /\ UNCHANGED job)
    BY <1>2, <2>3 DEF Return, Steps, AfterRun
  <2>4. QED
    BY <2>1, <2>2, <2>3
<1>5. ASSUME NEW b \in Bridges, Dispatch(b) PROVE Arrives(c)
  <2>1. Goto(b, "running")
        /\ \/ job' = [job EXCEPT ![b] = [@ EXCEPT !.baselineKnown = FALSE]]
           \/ job' = [job EXCEPT ![b] =
                         [@ EXCEPT !.baselineKnown = TRUE, !.baseline = Posted]]
    BY <1>5 DEF Dispatch
  <2>2. job'[b].id = job[b].id /\ pc'[b] = "running"
    BY <1>0, <2>1 DEF Goto, Job
  <2>3. ASSUME c # b PROVE pc'[c] = pc[c] /\ job'[c] = job[c]
    BY <1>0, <2>1, <2>3 DEF Goto
  <2>4. QED
    BY <1>5, <2>2, <2>3 DEF Arrives
<1>6. ASSUME NEW b \in Bridges, NEW text \in Texts \cup {NoText}, AdapterReturns(b, text)
      PROVE  Arrives(c)
  <2>1. pc[b] = "running" /\ Goto(b, "inspect") /\ job' = [job EXCEPT ![b].text = text]
    BY <1>6 DEF AdapterReturns
  <2>2. QED
    BY <1>0, <2>1 DEF Arrives, Goto, Job, AfterRun
<1>7. ASSUME NEW b \in Bridges, Inspect(b) PROVE Arrives(c)
  <2>1. pc[b] = "inspect"
        /\ \/ Goto(b, "consume") /\ job' = [job EXCEPT ![b].replied = TRUE]
           \/ Goto(b, "post") /\ UNCHANGED job
           \/ Goto(b, "complete") /\ UNCHANGED job
    BY <1>7 DEF Inspect
  <2>2. QED
    BY <1>0, <2>1 DEF Arrives, Goto, AfterRun
<1>8. ASSUME NEW b \in Bridges, PostReply(b) PROVE Arrives(c)
  <2>1. pc[b] = "post"
        /\ \/ Goto(b, "consume") /\ job' = [job EXCEPT ![b].replied = TRUE]
           \/ Goto(b, "failThenRead") /\ UNCHANGED job
           \/ UNCHANGED pc /\ job' = [job EXCEPT ![b].tries = @ + 1]
    BY <1>8 DEF PostReply, PostAgainOrGiveUp
  <2>2. QED
    BY <1>0, <2>1 DEF Arrives, Goto, Job, AfterRun
<1>9. ASSUME NEW b \in Bridges,
             \/ FetchPacket(b) \/ AdapterFails(b) \/ Consume(b) \/ ConsumeSilent(b)
             \/ MarkPending(b) \/ Complete(b) \/ ClearPending(b) \/ CompleteAgain(b)
             \/ ClearPendingAgain(b) \/ FailAndReturn(b) \/ FailThenRead(b) \/ AckRead(b)
             \/ Crash(b)
      PROVE  Arrives(c)
  <2>1. \/ \E step \in {"claim", "fail", "markPending", "complete", "read", "failThenRead",
                       "clearPending", "consumeSilent", "reclear"} : Goto(b, step)
        \/ Return(b)
    BY <1>9 DEF FetchPacket, AdapterFails, Consume, ConsumeSilent, ConsumeThen, MarkPending,
                Complete, ClearPending, CompleteAgain, ClearPendingAgain, FailAndReturn,
                FailThenRead, AckRead, Crash, RecordFailure, AfterComplete
  <2>2. UNCHANGED job \/ \E j : job' = [job EXCEPT ![b] = j]
    BY <1>9 DEF FetchPacket, AdapterFails, Consume, ConsumeSilent, ConsumeThen, MarkPending,
                Complete, ClearPending, CompleteAgain, ClearPendingAgain, FailAndReturn,
                FailThenRead, AckRead, Crash, RecordFailure, Return
  <2>3. QED
    BY <1>2, <2>1, <2>2 DEF Return, Steps, AfterRun
<1>10. ASSUME \/ \E w \in Wakeups : Enqueue(w)
              \/ \E m \in MarkRequest : AskMark(m[1], m[2]) \/ FinishMark(m[1], m[2])
              \/ \E b \in Bridges : \/ Drain(b) \/ AgentPosts(b)
                                    \/ \E w \in Wakeups : RetryDue(b, w)
              \/ UNCHANGED vars
       PROVE  UNCHANGED <<pc, job>>
  BY <1>10 DEF Enqueue, AskMark, FinishMark, Drain, AgentPosts, RetryDue, vars
<1>11. QED
  BY <1>1, <1>3, <1>4, <1>5, <1>6, <1>7, <1>8, <1>9, <1>10 DEF Next, BridgeStep

(* Runs are recorded by Dispatch and by nothing else.                      *)
LEMMA RunsStep ==
  ASSUME IInv, [Next]_vars
  PROVE  \/ UNCHANGED <<runners, runs>>
         \/ \E b \in Bridges : Dispatch(b)
<1>1. ASSUME \/ \E w \in Wakeups : Enqueue(w)
             \/ \E m \in MarkRequest : AskMark(m[1], m[2]) \/ FinishMark(m[1], m[2])
             \/ \E b \in Bridges : \/ AgentPosts(b) \/ Crash(b)
                                   \/ \E w \in Wakeups : RetryDue(b, w)
             \/ UNCHANGED vars
      PROVE  UNCHANGED <<runners, runs>>
  BY SMTT(20), <1>1 DEF Enqueue, AskMark, FinishMark, AgentPosts, Crash, RetryDue, vars, history
<1>2. ASSUME NEW b \in Bridges, BridgeStep(b), ~ Dispatch(b)
      PROVE  UNCHANGED <<runners, runs>>
  BY <1>2 DEF BridgeStep, Drain, TakeUnacknowledged, TakeHandled, TakeGivenUp,
              TakeBackedOff, TakeFresh, FetchPacket, ClaimWakeup, AdapterReturns,
              AdapterFails, Inspect, PostReply, Consume, ConsumeSilent, ConsumeThen,
              MarkPending, Complete, ClearPending, CompleteAgain, ClearPendingAgain,
              FailAndReturn, FailThenRead, AckRead, history
<1>3. QED
  BY <1>1, <1>2 DEF Next

LEMMA DispatchRuns ==
  ASSUME IInv, NEW b \in Bridges, Dispatch(b)
  PROVE  /\ job[b].id \in Wakeups /\ pc[b] = "dispatch"
         /\ runners' = [runners EXCEPT ![job[b].id] = @ \cup {b}]
         /\ runs' = [runs EXCEPT ![job[b].id] = @ + 1]
         /\ UNCHANGED <<rows, reply>>
         /\ rows[job[b].id].owner = b /\ rows[job[b].id].status = "claimed"
<1>1. job[b].id \in Wakeups /\ pc[b] = "dispatch"
  BY JobAtHand DEF Dispatch, IInv
<1>2. QED
  BY <1>1 DEF Dispatch, IInv, ClaimHolds, threadVars

LEMMA OwnerRunsStep == IInv /\ [Next]_vars => OwnerRuns'
<1> SUFFICES ASSUME IInv, [Next]_vars PROVE OwnerRuns'
  OBVIOUS
<1>1. \A w \in Wakeups : runners[w] \subseteq {rows'[w].owner}
  BY QueueFrame, OwnershipStep DEF IInv, ThreadOK
<1>2. CASE UNCHANGED runners
  BY <1>1, <1>2 DEF OwnerRuns
<1>3. ASSUME NEW b \in Bridges, Dispatch(b) PROVE OwnerRuns'
  BY <1>1, <1>3, DispatchRuns DEF OwnerRuns, IInv, ThreadOK
<1>4. QED
  BY <1>2, <1>3, RunsStep

LEMMA ClaimHoldsStep == IInv /\ [Next]_vars => ClaimHolds'
<1> SUFFICES ASSUME IInv, [Next]_vars, NEW c \in Bridges
             PROVE  /\ pc'[c] = "dispatch" => /\ rows'[job'[c].id].owner = c
                                              /\ rows'[job'[c].id].status = "claimed"
                    /\ pc'[c] \in AfterRun => c \in runners'[job'[c].id]
  BY DEF ClaimHolds, AfterRun
<1>1. Arrives(c)
  BY ArrivesStep
<1>2. ASSUME pc[c] = "dispatch", pc'[c] = "dispatch", job'[c] = job[c]
      PROVE  /\ rows'[job'[c].id].owner = c
             /\ rows'[job'[c].id].status = "claimed"
  <2>1. job[c].id \in Wakeups /\ rows[job[c].id].owner = c /\ rows[job[c].id].status = "claimed"
    BY <1>2, JobAtHand DEF IInv, ClaimHolds
  <2>2. c # NoBridge
    BY NoBridgeAssumption
  <2>3. QED
    BY <1>2, <2>1, <2>2, RowsByStep
<1>3. ASSUME ClaimAgentWakeup(c, job[c].id), pc[c] = "claim", job'[c] = job[c]
      PROVE  /\ rows'[job'[c].id].owner = c
             /\ rows'[job'[c].id].status = "claimed"
  <2>1. job[c].id \in Wakeups
    BY <1>3, JobAtHand DEF IInv
  <2>2. QED
    BY <1>3, <2>1, ClaimStep DEF IInv, QueueInv
<1>4. ASSUME pc'[c] \in AfterRun PROVE c \in runners'[job'[c].id]
  <2>1. job'[c].id = job[c].id /\ (pc[c] \in AfterRun \/ Dispatch(c))
    BY <1>1, <1>4 DEF Arrives
  <2>2. ASSUME Dispatch(c) PROVE c \in runners'[job[c].id]
    BY <2>2, DispatchRuns DEF IInv, ThreadOK
  <2>3. ASSUME pc[c] \in AfterRun PROVE c \in runners'[job[c].id]
    <3>1. job[c].id \in Wakeups /\ c \in runners[job[c].id]
      BY <2>3, JobAtHand DEF IInv, ClaimHolds, AfterRun
    <3>2. ASSUME NEW b \in Bridges, Dispatch(b) PROVE c \in runners'[job[c].id]
      BY <3>1, <3>2, DispatchRuns DEF IInv, ThreadOK
    <3>3. QED
      BY <3>1, <3>2, RunsStep
  <2>4. QED
    BY <2>1, <2>2, <2>3
<1>5. QED
  BY <1>1, <1>2, <1>3, <1>4 DEF Arrives

LEMMA StepInv == IInv /\ [Next]_vars => IInv'
<1> SUFFICES ASSUME IInv, [Next]_vars PROVE IInv'
  OBVIOUS
<1>1. QueueInv'
  BY QueueFrame, QueueStepOK DEF IInv
<1>2. QED
  BY <1>1, LocalStep, ControlStep, ThreadStep, ClaimHoldsStep, OwnerRunsStep DEF IInv

(* The inductive invariant holds in every reachable state.                 *)
THEOREM BridgeInvariant == Spec => []IInv
  BY InitInv, StepInv, PTL DEF Spec

(* Every variable keeps its type; in particular no failure count passes    *)
(* the retry limit and no reply is attempted more often than allowed.      *)
THEOREM TypeCorrect == Spec => []TypeOK
  BY BridgeInvariant, InvImpliesType, PTL

(* Only the instance named by the row ever runs the agent for a wakeup,    *)
(* whatever calls are lost and whichever instances crash.                  *)
THEOREM RunByOwnerOnly == Spec => []OwnerRuns
<1>1. IInv => OwnerRuns
  BY DEF IInv
<1>2. QED
  BY <1>1, BridgeInvariant, PTL

(* A run starts only while the row is claimed, never after the wakeup has  *)
(* been completed or failed.                                               *)
THEOREM NoRunAfterSettling == Spec => RunsOnlyWhileClaimed
<1> DEFINE ClaimedRun ==
      \A w \in Wakeups : runs'[w] # runs[w] => rows[w].status = "claimed"
<1>1. IInv /\ [Next]_vars => ClaimedRun
  <2> SUFFICES ASSUME IInv, [Next]_vars PROVE ClaimedRun
    OBVIOUS
  <2>1. ASSUME NEW b \in Bridges, Dispatch(b) PROVE ClaimedRun
    BY <2>1, DispatchRuns DEF IInv, ThreadOK
  <2>2. QED
    BY <2>1, RunsStep
<1>2. QED
  BY <1>1, BridgeInvariant, PTL DEF Spec, RunsOnlyWhileClaimed

-----------------------------------------------------------------------------
(* The bridges and the queue implement WakeDelivery. *)

(* Replies are posted by PostReply and by nothing else.                    *)
LEMMA RepliesStep ==
  ASSUME IInv, [Next]_vars
  PROVE  UNCHANGED reply \/ \E b \in Bridges : PostReply(b)
<1>1. ASSUME \/ \E w \in Wakeups : Enqueue(w)
             \/ \E m \in MarkRequest : AskMark(m[1], m[2]) \/ FinishMark(m[1], m[2])
             \/ \E b \in Bridges : \/ AgentPosts(b) \/ Crash(b)
                                   \/ \E w \in Wakeups : RetryDue(b, w)
             \/ UNCHANGED vars
      PROVE  UNCHANGED reply
  BY SMTT(20), <1>1 DEF Enqueue, AskMark, FinishMark, AgentPosts, Crash, RetryDue, vars, threadVars
<1>2. ASSUME NEW b \in Bridges, BridgeStep(b), ~ PostReply(b)
      PROVE  UNCHANGED reply
  BY <1>2 DEF BridgeStep, Drain, TakeUnacknowledged, TakeHandled, TakeGivenUp,
              TakeBackedOff, TakeFresh, Take, FetchPacket, ClaimWakeup, Dispatch,
              AdapterReturns, AdapterFails, Inspect, Consume, ConsumeSilent, ConsumeThen,
              MarkPending, Complete, ClearPending, CompleteAgain, ClearPendingAgain,
              FailAndReturn, FailThenRead, AckRead, threadVars
<1>3. QED
  BY <1>1, <1>2 DEF Next

LEMMA PostAnswers ==
  ASSUME IInv, NEW b \in Bridges, PostReply(b)
  PROVE  /\ UNCHANGED <<rows, runners>>
         /\ \/ UNCHANGED reply
            \/ /\ job[b].id \in Wakeups /\ job[b].text \in Texts
               /\ runners[job[b].id] # {}
               /\ reply[job[b].id] = NoText
               /\ reply' = [reply EXCEPT ![job[b].id] = job[b].text]
<1>1. job[b].id \in Wakeups /\ job[b].text \in Texts /\ b \in runners[job[b].id]
  BY DEF PostReply, IInv, JobOK, ClaimHolds
<1>2. UNCHANGED reply \/ AppendReply(job[b].id, job[b].text)
  BY DEF PostReply
<1>3. ASSUME AppendReply(job[b].id, job[b].text), reply[job[b].id] # NoText
      PROVE  UNCHANGED reply
  BY <1>1, <1>3 DEF AppendReply, IInv, ThreadOK
<1>4. QED
  BY <1>1, <1>2, <1>3 DEF PostReply, AppendReply, history

LEMMA DeliveryInitOK == Init => Delivery!DeliveryInit
  BY DEF Init, QueueInit, NewRow, Delivery!DeliveryInit

LEMMA DeliveryStepOK ==
  IInv /\ [Next]_vars => [Delivery!DeliveryNext]_(Delivery!deliveryVars)
<1> SUFFICES ASSUME IInv, [Next]_vars
             PROVE  Delivery!DeliveryNext \/ UNCHANGED <<Owners, runners, reply>>
  BY DEF Delivery!deliveryVars, Owners
<1>1. ASSUME NEW b \in Bridges, Dispatch(b) PROVE Delivery!DeliveryNext
  <2>1. Delivery!RunAgent(job[b].id, b)
    BY <1>1, DispatchRuns DEF Delivery!RunAgent
  <2>2. QED
    BY <1>1, <2>1, DispatchRuns DEF Delivery!DeliveryNext
<1>2. ASSUME NEW b \in Bridges, PostReply(b)
      PROVE  Delivery!DeliveryNext \/ UNCHANGED <<Owners, runners, reply>>
  <2>1. CASE UNCHANGED reply
    BY <1>2, <2>1, PostAnswers DEF Owners
  <2>2. CASE ~ UNCHANGED reply
    <3>1. Delivery!Answer(job[b].id, job[b].text)
      BY <1>2, <2>2, PostAnswers DEF Delivery!Answer
    <3>2. QED
      BY <1>2, <2>2, <3>1, PostAnswers DEF Delivery!DeliveryNext
  <2>3. QED
    BY <2>1, <2>2
<1>3. CASE UNCHANGED <<runners, reply>>
  <2>1. \/ Owners' = Owners
        \/ \E w \in Wakeups, b \in Bridges :
             Owners[w] = NoBridge /\ Owners' = [Owners EXCEPT ![w] = b]
    BY QueueFrame, OwnersStep DEF IInv
  <2>2. ASSUME NEW w \in Wakeups, NEW b \in Bridges,
               Owners[w] = NoBridge, Owners' = [Owners EXCEPT ![w] = b]
        PROVE  Delivery!DeliveryNext
    <3>1. Delivery!Acquire(w, b)
      BY <1>3, <2>2 DEF Delivery!Acquire, Owners
    <3>2. QED
      BY <3>1 DEF Delivery!DeliveryNext
  <2>3. QED
    BY <1>3, <2>1, <2>2
<1>4. QED
  BY <1>1, <1>2, <1>3, RunsStep, RepliesStep

(* The detailed bridges, with their retries, files, lost calls and         *)
(* crashes, implement WakeDelivery: one owner for good, runs by the owner  *)
(* only, one reply, never replaced.                                        *)
THEOREM DeliveryImplemented == Spec => ImplementsDelivery
  BY DeliveryInitOK, DeliveryStepOK, BridgeInvariant, PTL
  DEF Spec, ImplementsDelivery, Delivery!DeliverySpec

-----------------------------------------------------------------------------
(* What an instance remembers, in memory and in its file: the file is      *)
(* never ahead of memory, a pending completion is of a handled wakeup, and *)
(* an instance on its way to run the agent does not remember the wakeup.   *)
MemoryOK(b) ==
  /\ disk[b].handled \subseteq mem[b].handled
  /\ mem[b].pending \subseteq mem[b].handled
  /\ disk[b].pending \subseteq disk[b].handled
  /\ pc[b] \in {"fetch", "claim", "dispatch", "running"}
       => job[b].id \notin mem[b].handled \cup noAck[b]
  /\ pc[b] = "markPending" => job[b].id \in mem[b].handled
  /\ pc[b] = "recomplete" => job[b].id \in mem[b].pending

Memories == \A b \in Bridges : MemoryOK(b)

(* A step of instance b, of the agent it runs, or of the clock for it. *)
StepOf(b) ==
  \/ BridgeStep(b)
  \/ AgentPosts(b)
  \/ Crash(b)
  \/ \E w \in Wakeups : RetryDue(b, w)

(* What belongs to instance c. *)
Stands(c) ==
  /\ mem'[c] = mem[c] /\ disk'[c] = disk[c] /\ noAck'[c] = noAck[c]
  /\ pc'[c] = pc[c] /\ job'[c] = job[c]

LEMMA PersistOne ==
  ASSUME LocalOK, NEW b \in Bridges, NEW new \in State,
         Persist(b, new) \/ PersistFails(b, new)
  PROVE  /\ mem'[b] = new /\ disk'[b] \in {disk[b], new}
         /\ \A c \in Bridges : c # b => mem'[c] = mem[c] /\ disk'[c] = disk[c]
  BY DEF LocalOK, Persist, PersistFails

LEMMA JobOne ==
  ASSUME ControlOK, NEW b \in Bridges
  PROVE  /\ \A step : Goto(b, step) => /\ pc'[b] = step
                                       /\ \A c \in Bridges : c # b => pc'[c] = pc[c]
         /\ \A j : job' = [job EXCEPT ![b] = j] =>
              /\ job'[b] = j
              /\ \A c \in Bridges : c # b => job'[c] = job[c]
  BY DEF ControlOK, Goto

(* An instance changes nothing that belongs to another. *)
LEMMA OthersStand ==
  ASSUME IInv, NEW b \in Bridges, StepOf(b), NEW c \in Bridges, c # b
  PROVE  Stands(c)
<1> USE DEF IInv, Stands
<1>1. pc'[c] = pc[c] /\ job'[c] = job[c]
  <2>1. /\ UNCHANGED pc \/ \E step : pc' = [pc EXCEPT ![b] = step]
        /\ UNCHANGED job \/ \E j : job' = [job EXCEPT ![b] = j]
    <3>1. ASSUME NEW n \in Notification,
                 \/ TakeUnacknowledged(b, n) \/ TakeHandled(b, n) \/ TakeGivenUp(b, n)
                 \/ TakeBackedOff(b, n) \/ TakeFresh(b, n)
          PROVE  /\ UNCHANGED pc \/ \E step : pc' = [pc EXCEPT ![b] = step]
                 /\ UNCHANGED job \/ \E j : job' = [job EXCEPT ![b] = j]
      BY <3>1 DEF TakeUnacknowledged, TakeHandled, TakeGivenUp, TakeBackedOff,
                  TakeFresh, Start, Goto
    <3>2. CASE Drain(b) \/ FetchPacket(b) \/ ClaimWakeup(b) \/ Dispatch(b)
               \/ AdapterFails(b) \/ Inspect(b)
               \/ \E text \in Texts \cup {NoText} : AdapterReturns(b, text)
      BY <3>2 DEF Drain, FetchPacket, ClaimWakeup, Dispatch, AdapterFails, Inspect,
                  AdapterReturns, RecordFailure, Return, Goto
    <3>3. CASE PostReply(b) \/ Consume(b) \/ ConsumeSilent(b) \/ MarkPending(b)
               \/ Complete(b) \/ ClearPending(b)
      BY <3>3 DEF PostReply, PostAgainOrGiveUp, Consume, ConsumeSilent, ConsumeThen,
                  MarkPending, Complete, ClearPending, Goto
    <3>4. CASE CompleteAgain(b) \/ ClearPendingAgain(b) \/ FailAndReturn(b)
               \/ FailThenRead(b) \/ AckRead(b)
      BY <3>4 DEF CompleteAgain, ClearPendingAgain, FailAndReturn, FailThenRead,
                  AckRead, Return, Goto
    <3>5. CASE AgentPosts(b) \/ Crash(b) \/ \E w \in Wakeups : RetryDue(b, w)
      BY <3>5 DEF AgentPosts, Crash, RetryDue, Return, Goto
    <3>6. QED
      BY <3>1, <3>2, <3>3, <3>4, <3>5 DEF StepOf, BridgeStep
  <2>2. QED
    BY <2>1 DEF ControlOK
<1>2. mem'[c] = mem[c] /\ disk'[c] = disk[c] /\ noAck'[c] = noAck[c]
  <2>1. /\ UNCHANGED mem \/ \E new : mem' = [mem EXCEPT ![b] = new]
        /\ UNCHANGED disk \/ \E new : disk' = [disk EXCEPT ![b] = new]
        /\ UNCHANGED noAck \/ \E new : noAck' = [noAck EXCEPT ![b] = new]
    <3>1. ASSUME NEW n \in Notification,
                 \/ TakeUnacknowledged(b, n) \/ TakeHandled(b, n) \/ TakeGivenUp(b, n)
                 \/ TakeBackedOff(b, n) \/ TakeFresh(b, n)
          PROVE  /\ UNCHANGED mem \/ \E new : mem' = [mem EXCEPT ![b] = new]
                 /\ UNCHANGED disk \/ \E new : disk' = [disk EXCEPT ![b] = new]
                 /\ UNCHANGED noAck \/ \E new : noAck' = [noAck EXCEPT ![b] = new]
      BY <3>1 DEF TakeUnacknowledged, TakeHandled, TakeGivenUp, TakeBackedOff,
                  TakeFresh, Persist, PersistFails, stateVars
    <3>2. CASE Drain(b) \/ FetchPacket(b) \/ ClaimWakeup(b) \/ Dispatch(b)
               \/ AdapterFails(b) \/ Inspect(b)
               \/ \E text \in Texts \cup {NoText} : AdapterReturns(b, text)
      BY <3>2 DEF Drain, FetchPacket, ClaimWakeup, Dispatch, AdapterFails, Inspect,
                  AdapterReturns, stateVars
    <3>3. CASE PostReply(b) \/ Consume(b) \/ ConsumeSilent(b) \/ MarkPending(b)
               \/ Complete(b) \/ ClearPending(b)
      BY <3>3 DEF PostReply, Consume, ConsumeSilent, ConsumeThen, MarkPending,
                  Complete, ClearPending, Persist, PersistFails, stateVars
    <3>4. CASE CompleteAgain(b) \/ ClearPendingAgain(b) \/ FailAndReturn(b)
               \/ FailThenRead(b) \/ AckRead(b)
      BY <3>4 DEF CompleteAgain, ClearPendingAgain, FailAndReturn, FailThenRead,
                  AckRead, Persist, PersistFails, stateVars
    <3>5. CASE AgentPosts(b) \/ Crash(b) \/ \E w \in Wakeups : RetryDue(b, w)
      BY <3>5 DEF AgentPosts, Crash, RetryDue, stateVars
    <3>6. QED
      BY <3>1, <3>2, <3>3, <3>4, <3>5 DEF StepOf, BridgeStep
  <2>2. QED
    BY <2>1 DEF LocalOK
<1>3. QED
  BY <1>1, <1>2

(* A step that changes neither memory nor file nor place keeps MemoryOK.   *)
LEMMA MemoryStands ==
  ASSUME NEW c \in Bridges, MemoryOK(c), Stands(c)
  PROVE  MemoryOK(c)'
  BY DEF MemoryOK, Stands

LEMMA StartOne ==
  ASSUME ControlOK, NEW b \in Bridges, NEW n \in Notification, NEW step, Start(b, n, step)
  PROVE  pc'[b] = step /\ job'[b].id = n.id
<1> DEFINE j == [NoJob EXCEPT !.id = n.id, !.seen = n.seen]
<1>1. j.id = n.id
  BY DEF NoJob
<1>2. Goto(b, step) /\ job' = [job EXCEPT ![b] = j]
  BY DEF Start
<1> HIDE DEF j
<1>3. QED
  BY ZenonT(40), <1>1, <1>2, JobOne

LEMMA JobKept ==
  ASSUME IInv, NEW b \in Bridges, NEW j, SameJob(b, j), job' = [job EXCEPT ![b] = j]
  PROVE  job'[b].id = job[b].id
  BY JobOne DEF IInv, SameJob

(* The marks a step of the instance writes. *)
LEMMA MarksOne ==
  ASSUME LocalOK, NEW b \in Bridges, NEW w \in Wakeups
  PROVE  /\ WithHandled(b, w).handled = mem[b].handled \cup {w}
         /\ WithHandled(b, w).pending = mem[b].pending
         /\ WithPending(b, w).handled = mem[b].handled
         /\ WithPending(b, w).pending = mem[b].pending \cup {w}
         /\ WithoutPending(b, w).handled = mem[b].handled
         /\ WithoutPending(b, w).pending = mem[b].pending \ {w}
  BY DEF LocalOK, State, WithHandled, WithPending, WithoutPending

(* Every step keeps what its own instance remembers in order. *)
LEMMA OwnMemory ==
  ASSUME IInv, NEW b \in Bridges, MemoryOK(b), StepOf(b)
  PROVE  MemoryOK(b)'
<1> USE DEF IInv
<1>1. ASSUME NEW n \in Notification, TakeUnacknowledged(b, n) PROVE MemoryOK(b)'
  <2>1. n.id \in Wakeups
    BY DEF Notification
  <2>2. CASE Persist(b, WithHandled(b, n.id)) /\ Start(b, n, "read")
    BY <2>1, <2>2, StateValues, PersistOne, MarksOne, StartOne DEF MemoryOK
  <2>3. CASE PersistFails(b, WithHandled(b, n.id)) /\ UNCHANGED <<noAck, pc, job>>
    <3>1. pc[b] = "idle"
      BY <1>1 DEF TakeUnacknowledged, Take
    <3>2. QED
      BY <2>1, <2>3, <3>1, StateValues, PersistOne, MarksOne DEF MemoryOK
  <2>4. QED
    BY <1>1, <2>2, <2>3 DEF TakeUnacknowledged
<1>2. ASSUME NEW n \in Notification, TakeHandled(b, n) PROVE MemoryOK(b)'
  <2>1. UNCHANGED <<mem, disk, noAck>>
    BY <1>2 DEF TakeHandled, stateVars
  <2>2. \/ Start(b, n, "read")
        \/ Start(b, n, "recomplete") /\ n.id \in mem[b].pending
        \/ UNCHANGED <<pc, job>>
    BY <1>2 DEF TakeHandled
  <2>3. QED
    BY <2>1, <2>2, StartOne DEF MemoryOK
<1>3. ASSUME NEW n \in Notification, TakeGivenUp(b, n) PROVE MemoryOK(b)'
  <2>1. n.id \in Wakeups
    BY DEF Notification
  <2>2. Persist(b, WithHandled(b, n.id)) \/ PersistFails(b, WithHandled(b, n.id))
    BY <1>3 DEF TakeGivenUp
  <2>3. Start(b, n, "read")
    BY <1>3 DEF TakeGivenUp
  <2>4. QED
    BY <2>1, <2>2, <2>3, StateValues, PersistOne, MarksOne, StartOne DEF MemoryOK
<1>4. ASSUME NEW n \in Notification, TakeBackedOff(b, n) PROVE MemoryOK(b)'
  BY <1>4 DEF TakeBackedOff, stateVars, MemoryOK
<1>5. ASSUME NEW n \in Notification, TakeFresh(b, n) PROVE MemoryOK(b)'
  <2>1. UNCHANGED <<mem, disk, noAck>> /\ Start(b, n, "fetch") /\ IsNew(b, n.id)
    BY <1>5 DEF TakeFresh, stateVars
  <2>2. QED
    BY <2>1, StartOne DEF MemoryOK, IsNew
<1>6. CASE FetchPacket(b) \/ ClaimWakeup(b) \/ AdapterFails(b)
  <2>1. UNCHANGED <<mem, disk, noAck>>
    BY <1>6 DEF FetchPacket, ClaimWakeup, AdapterFails
  <2>2. /\ pc[b] \in {"fetch", "claim", "running"}
        /\ \/ UNCHANGED job /\ \E step \in {"claim", "dispatch", "fail"} : Goto(b, step)
           \/ Goto(b, "idle")
    BY <1>6 DEF FetchPacket, ClaimWakeup, AdapterFails, RecordFailure, Return
  <2>3. QED
    BY <2>1, <2>2, JobOne DEF MemoryOK
<1>7. CASE Dispatch(b)
  <2>1. UNCHANGED <<mem, disk, noAck>> /\ pc[b] = "dispatch" /\ Goto(b, "running")
    BY SMTT(20), <1>7 DEF Dispatch, stateVars
  <2>2. job'[b].id = job[b].id
    <3>1. \/ job' = [job EXCEPT ![b] = [job[b] EXCEPT !.baselineKnown = FALSE]]
          \/ job' = [job EXCEPT ![b] =
                       [job[b] EXCEPT !.baselineKnown = TRUE, !.baseline = Posted]]
      BY <1>7 DEF Dispatch
    <3>2. QED
      BY <3>1, JobValues, JobKept
  <2>3. QED
    BY <2>1, <2>2, JobOne DEF MemoryOK
<1>8. ASSUME NEW text \in Texts \cup {NoText}, AdapterReturns(b, text) PROVE MemoryOK(b)'
  <2>1. pc'[b] = "inspect"
    BY <1>8, JobOne DEF AdapterReturns
  <2>2. UNCHANGED mem /\ UNCHANGED noAck /\ disk'[b] \in {disk[b], mem[b]}
    BY <1>8 DEF AdapterReturns, LocalOK
  <2>3. QED
    BY <2>1, <2>2 DEF MemoryOK
<1>9. CASE Inspect(b) \/ PostReply(b) \/ Complete(b) \/ CompleteAgain(b)
           \/ FailAndReturn(b) \/ FailThenRead(b) \/ AckRead(b)
  <2>1. UNCHANGED <<mem, disk, noAck>>
    BY <1>9 DEF Inspect, PostReply, Complete, CompleteAgain, FailAndReturn,
                FailThenRead, AckRead, stateVars
  <2>2. \/ pc'[b] \in {"idle", "consume", "post", "complete", "failThenRead", "read",
                       "clearPending", "consumeSilent", "reclear", "fail"}
    BY <1>9, JobOne DEF Inspect, PostReply, PostAgainOrGiveUp, Complete, CompleteAgain,
                FailAndReturn, FailThenRead, AckRead, Return, AfterComplete
  <2>3. QED
    BY <2>1, <2>2 DEF MemoryOK
<1>10. CASE Consume(b) \/ ConsumeSilent(b)
  <2>1. job[b].id \in Wakeups
    BY <1>10, JobAtHand DEF Consume, ConsumeSilent
  <2>2. \/ /\ Persist(b, WithHandled(b, job[b].id))
           /\ pc'[b] \in {"markPending", "read"} /\ job'[b].id = job[b].id
        \/ /\ PersistFails(b, WithHandled(b, job[b].id))
           /\ pc'[b] \in {"complete", "read"}
    <3>1. ASSUME job' = [job EXCEPT ![b] = [job[b] EXCEPT !.marked = TRUE]]
          PROVE  job'[b].id = job[b].id
      BY <3>1, JobValues, JobKept
    <3>2. QED
      BY <1>10, <3>1, JobOne DEF Consume, ConsumeSilent, ConsumeThen
  <2>3. QED
    BY <2>1, <2>2, StateValues, PersistOne, MarksOne DEF MemoryOK
<1>11. CASE MarkPending(b)
  <2>1. /\ job[b].id \in Wakeups /\ pc[b] = "markPending"
        /\ pc'[b] \in {"complete", "failThenRead"}
    BY <1>11, JobAtHand, JobOne DEF MarkPending
  <2>2. \/ Persist(b, WithPending(b, job[b].id))
        \/ PersistFails(b, WithPending(b, job[b].id))
    BY <1>11 DEF MarkPending
  <2>3. UNCHANGED noAck
    BY <1>11 DEF MarkPending
  <2>4. QED
    BY <2>1, <2>2, <2>3, StateValues, PersistOne, MarksOne DEF MemoryOK
<1>12. CASE ClearPending(b) \/ ClearPendingAgain(b)
  <2>1. /\ job[b].id \in Wakeups
        /\ pc'[b] \in {"read", "failThenRead", "idle", "fail"}
    BY <1>12, JobAtHand, JobOne DEF ClearPending, ClearPendingAgain, Return
  <2>2. \/ Persist(b, WithoutPending(b, job[b].id))
        \/ PersistFails(b, WithoutPending(b, job[b].id))
    BY <1>12 DEF ClearPending, ClearPendingAgain
  <2>3. QED
    BY <2>1, <2>2, StateValues, PersistOne, MarksOne DEF MemoryOK
<1>13. CASE Crash(b)
  <2>1. mem'[b] = disk[b] /\ UNCHANGED disk /\ noAck'[b] = {} /\ pc'[b] = "idle"
    BY <1>13, JobOne DEF Crash, Return, LocalOK
  <2>2. QED
    BY <2>1 DEF MemoryOK
<1>14. CASE Drain(b) \/ AgentPosts(b) \/ \E w \in Wakeups : RetryDue(b, w)
  BY <1>14 DEF Drain, AgentPosts, RetryDue, stateVars, MemoryOK
<1>15. QED
  BY <1>1, <1>2, <1>3, <1>4, <1>5, <1>6, <1>7, <1>8, <1>9, <1>10, <1>11, <1>12, <1>13,
     <1>14
  DEF StepOf, BridgeStep

(* Steps of the surroundings and stuttering touch no instance. *)
LEMMA WorldStands ==
  ASSUME [Next]_vars, \A b \in Bridges : ~ StepOf(b)
  PROVE  /\ \A c \in Bridges : Stands(c)
         /\ UNCHANGED <<runs, answer, before, gaveUp, reply, direct, faults, crashes>>
<1>1. \/ \E w \in Wakeups : Enqueue(w)
      \/ \E m \in MarkRequest : AskMark(m[1], m[2]) \/ FinishMark(m[1], m[2])
      \/ UNCHANGED vars
  BY DEF Next, StepOf
<1>2. QED
  BY <1>1 DEF Enqueue, AskMark, FinishMark, vars, stateVars, history, threadVars, Stands

LEMMA MemoriesStep == IInv /\ Memories /\ [Next]_vars => Memories'
<1> SUFFICES ASSUME IInv, Memories, [Next]_vars, NEW c \in Bridges
             PROVE  MemoryOK(c)'
  BY DEF Memories
<1>1. MemoryOK(c)
  BY DEF Memories
<1>2. CASE StepOf(c)
  BY <1>1, <1>2, OwnMemory
<1>3. CASE ~ StepOf(c)
  <2>1. Stands(c)
    BY <1>3, OthersStand, WorldStands
  <2>2. QED
    BY <1>1, <2>1, MemoryStands
<1>4. QED
  BY <1>2, <1>3

-----------------------------------------------------------------------------
(* Why a further run of the agent takes a crash or a failed call. *)

SettledStatus == {"completed", "failed"}

(* Instance b will not run the agent for wakeup w again unless it forgets  *)
(* what it remembers or a call of its present handling fails.              *)
Keeps(b, w) ==
  \/ w \in mem[b].handled \cup noAck[b]
  \/ /\ pc[b] \in {"running", "inspect", "post", "consume", "complete", "failThenRead"}
     /\ job[b].id = w

(* Nobody will: the row is settled, or its owner keeps it. *)
Spent(w) ==
  \/ rows[w].status \in SettledStatus
  \/ \E b \in Bridges : rows[w].owner = b /\ Keeps(b, w)

RunsPaid(w) == runs[w] <= crashes + faults + (IF Spent(w) THEN 1 ELSE 0)

(* A settled row stays settled, whatever is asked of the queue. *)
LEMMA SettledStays ==
  ASSUME QueueInv, [QueueNext]_queueVars, NEW w \in Wakeups, rows[w].status \in SettledStatus
  PROVE  rows'[w].status \in SettledStatus
<1> USE DEF SettledStatus
<1>1. RowsOK
  BY DEF QueueInv
<1>2. ASSUME NEW v \in Wakeups, UpsertAgentWakeup(v) PROVE rows'[w] = rows[w]
  BY <1>1, <1>2, UpsertStep DEF OnlyRow
<1>3. ASSUME NEW v \in Wakeups, NEW b \in Bridges, ClaimAgentWakeup(b, v)
      PROVE  rows'[w] = rows[w]
  <2>1. v # w
    BY <1>3 DEF ClaimAgentWakeup, CanClaim
  <2>2. QED
    BY <1>1, <1>3, <2>1, ClaimStep DEF OnlyRow
<1>4. ASSUME NEW v \in Wakeups, NEW b \in Bridges, NEW status \in SettledStatus,
             SetAgentWakeupStatus(b, v, status)
      PROVE  rows'[w].status \in SettledStatus
  <2>1. v # w => rows'[w] = rows[w]
    BY <1>1, <1>4, SetStatusStep DEF OnlyRow
  <2>2. v = w => rows'[w].status = status
    BY <1>1, <1>4, SetStatusStep
  <2>3. QED
    BY <2>1, <2>2
<1>5. ASSUME NEW m \in MarkRequest, CheckMark(m[1], m[2]) \/ WriteMark(m[1], m[2])
      PROVE  rows'[w].status = rows[w].status
  <2>1. m[1] \in Wakeups /\ m[2] \in {"read", "dismissed"}
    BY DEF MarkRequest
  <2>2. QED
    BY <1>1, <1>5, <2>1, MarkStep DEF CheckMark, WriteMark, OnlyRow
<1>6. QED
  BY <1>2, <1>3, <1>4, <1>5
  DEF QueueNext, queueVars, CompleteAgentWakeup, FailAgentWakeup

(* One more fault or crash. *)
Pays == crashes' + faults' = crashes + faults + 1

LEMMA Costs ==
  ASSUME IInv, [Next]_vars
  PROVE  /\ crashes' \in Nat /\ faults' \in Nat
         /\ crashes' >= crashes /\ faults' >= faults
<1>1. ThreadOK /\ ThreadOK'
  BY StepInv DEF IInv
<1>2. ASSUME NEW b \in Bridges, BridgeStep(b)
      PROVE  crashes' = crashes /\ (faults' = faults \/ faults' = faults + 1)
  <2>1. ASSUME NEW n \in Notification,
               \/ TakeUnacknowledged(b, n) \/ TakeHandled(b, n) \/ TakeGivenUp(b, n)
               \/ TakeBackedOff(b, n) \/ TakeFresh(b, n)
        PROVE  crashes' = crashes /\ (faults' = faults \/ faults' = faults + 1)
    BY <2>1 DEF TakeUnacknowledged, TakeHandled, TakeGivenUp, TakeBackedOff, TakeFresh,
                Take, Persist, PersistFails, Fault, NoFault
  <2>2. CASE Drain(b) \/ FetchPacket(b) \/ ClaimWakeup(b) \/ Dispatch(b)
             \/ AdapterFails(b) \/ Inspect(b)
             \/ \E text \in Texts \cup {NoText} : AdapterReturns(b, text)
    BY <2>2 DEF Drain, FetchPacket, ClaimWakeup, Dispatch, AdapterFails, Inspect,
                AdapterReturns, Fault, NoFault
  <2>3. CASE PostReply(b) \/ Consume(b) \/ ConsumeSilent(b) \/ MarkPending(b)
             \/ Complete(b) \/ ClearPending(b)
    BY <2>3 DEF PostReply, Consume, ConsumeSilent, ConsumeThen, MarkPending,
                Complete, ClearPending, Persist, PersistFails, Fault, NoFault
  <2>4. CASE CompleteAgain(b) \/ ClearPendingAgain(b) \/ FailAndReturn(b)
             \/ FailThenRead(b) \/ AckRead(b)
    BY <2>4 DEF CompleteAgain, ClearPendingAgain, FailAndReturn, FailThenRead, AckRead,
                ReportFailure, Persist, PersistFails, Fault, NoFault
  <2>5. QED
    BY <1>2, <2>1, <2>2, <2>3, <2>4 DEF BridgeStep
<1>3. CASE UNCHANGED <<crashes, faults>>
  BY <1>1, <1>3 DEF ThreadOK
<1>4. ASSUME NEW b \in Bridges, Crash(b)
      PROVE  crashes' = crashes + 1 /\ faults' = faults
  BY <1>4 DEF Crash
<1>5. ASSUME NEW b \in Bridges, AgentPosts(b) \/ \E w \in Wakeups : RetryDue(b, w)
      PROVE  UNCHANGED <<crashes, faults>>
  BY <1>5 DEF AgentPosts, RetryDue
<1>6. CASE \A b \in Bridges : ~ StepOf(b)
  BY <1>3, <1>6, WorldStands
<1>7. QED
  BY <1>1, <1>2, <1>3, <1>4, <1>5, <1>6 DEF StepOf, ThreadOK

(* What a step leaves of the marks of its own instance. *)
MarksStay(b) == mem[b].handled \cup noAck[b] \subseteq mem'[b].handled \cup noAck'[b]

LEMMA MarksStayOnDisk ==
  ASSUME LocalOK, NEW b \in Bridges, NEW w \in Wakeups,
         \/ Persist(b, WithHandled(b, w)) \/ PersistFails(b, WithHandled(b, w))
         \/ Persist(b, WithPending(b, w)) \/ PersistFails(b, WithPending(b, w))
         \/ Persist(b, WithoutPending(b, w)) \/ PersistFails(b, WithoutPending(b, w))
  PROVE  mem[b].handled \subseteq mem'[b].handled
  BY StateValues, PersistOne, MarksOne

(* While it stays up, an instance forgets nothing. *)
LEMMA NothingForgotten ==
  ASSUME IInv, NEW b \in Bridges, StepOf(b), ~ Crash(b)
  PROVE  MarksStay(b)
<1> USE DEF IInv, MarksStay
<1>1. ASSUME NEW n \in Notification, TakeUnacknowledged(b, n) PROVE MarksStay(b)
  <2>1. n.id \in Wakeups
    BY DEF Notification
  <2>2. \/ /\ Persist(b, WithHandled(b, n.id))
           /\ noAck' = [noAck EXCEPT ![b] = noAck[b] \ {n.id}]
        \/ PersistFails(b, WithHandled(b, n.id)) /\ UNCHANGED noAck
    BY <1>1 DEF TakeUnacknowledged
  <2>3. CASE Persist(b, WithHandled(b, n.id))
             /\ noAck' = [noAck EXCEPT ![b] = noAck[b] \ {n.id}]
    <3>1. noAck'[b] = noAck[b] \ {n.id}
      BY <2>3 DEF LocalOK
    <3>2. QED
      BY <2>1, <2>3, <3>1, StateValues, PersistOne, MarksOne
  <2>4. QED
    BY <2>1, <2>2, <2>3, MarksStayOnDisk
<1>2. ASSUME NEW n \in Notification, TakeGivenUp(b, n) PROVE MarksStay(b)
  <2>1. n.id \in Wakeups
    BY DEF Notification
  <2>2. UNCHANGED noAck
        /\ (Persist(b, WithHandled(b, n.id)) \/ PersistFails(b, WithHandled(b, n.id)))
    BY <1>2 DEF TakeGivenUp
  <2>3. QED
    BY <2>1, <2>2, MarksStayOnDisk
<1>3. CASE Consume(b) \/ ConsumeSilent(b)
  <2>1. job[b].id \in Wakeups
    BY <1>3, JobAtHand DEF Consume, ConsumeSilent
  <2>2. /\ \/ Persist(b, WithHandled(b, job[b].id))
           \/ PersistFails(b, WithHandled(b, job[b].id))
        /\ \/ UNCHANGED noAck
           \/ noAck' = [noAck EXCEPT ![b] = noAck[b] \cup {job[b].id}]
    BY <1>3 DEF Consume, ConsumeSilent, ConsumeThen
  <2>3. noAck[b] \subseteq noAck'[b]
    BY <2>2 DEF LocalOK
  <2>4. QED
    BY <2>1, <2>2, <2>3, MarksStayOnDisk
<1>4. CASE MarkPending(b) \/ ClearPending(b) \/ ClearPendingAgain(b)
  <2>1. job[b].id \in Wakeups
    BY <1>4, JobAtHand DEF MarkPending, ClearPending, ClearPendingAgain
  <2>2. /\ \/ Persist(b, WithPending(b, job[b].id))
           \/ PersistFails(b, WithPending(b, job[b].id))
           \/ Persist(b, WithoutPending(b, job[b].id))
           \/ PersistFails(b, WithoutPending(b, job[b].id))
        /\ UNCHANGED noAck
    BY <1>4 DEF MarkPending, ClearPending, ClearPendingAgain
  <2>3. QED
    BY <2>1, <2>2, MarksStayOnDisk
<1>5. CASE \/ Drain(b) \/ FetchPacket(b) \/ ClaimWakeup(b) \/ Dispatch(b)
           \/ AdapterFails(b) \/ Inspect(b) \/ PostReply(b) \/ Complete(b)
           \/ CompleteAgain(b) \/ FailAndReturn(b) \/ FailThenRead(b) \/ AckRead(b)
           \/ AgentPosts(b)
           \/ \E text \in Texts \cup {NoText} : AdapterReturns(b, text)
           \/ \E w \in Wakeups : RetryDue(b, w)
           \/ \E n \in Notification :
                TakeHandled(b, n) \/ TakeBackedOff(b, n) \/ TakeFresh(b, n)
  BY <1>5 DEF Drain, FetchPacket, ClaimWakeup, Dispatch, AdapterFails, Inspect, PostReply,
              Complete, CompleteAgain, FailAndReturn, FailThenRead, AckRead, AgentPosts,
              AdapterReturns, RetryDue, TakeHandled, TakeBackedOff, TakeFresh, stateVars
<1>6. QED
  BY <1>1, <1>2, <1>3, <1>4, <1>5 DEF StepOf, BridgeStep

(* What an owner keeps it goes on keeping, unless the row gets settled or  *)
(* the step is a crash or contains a failed call.                          *)
LEMMA OwnKeeps ==
  ASSUME IInv, NEW b \in Bridges, StepOf(b), NEW w \in Wakeups,
         Keeps(b, w), rows[w].owner = b
  PROVE  Keeps(b, w)' \/ rows'[w].status \in SettledStatus \/ Pays
<1> USE DEF IInv, Keeps
<1>1. CASE Crash(b)
  BY <1>1 DEF Crash, Pays, ThreadOK
<1>2. CASE ~ Crash(b) /\ w \in mem[b].handled \cup noAck[b]
  BY <1>2, NothingForgotten DEF MarksStay
<1>3. CASE /\ pc[b] \in {"running", "inspect", "post", "consume", "complete",
                         "failThenRead"}
           /\ job[b].id = w
           /\ ~ Crash(b)
  <2>1. CASE AdapterFails(b)
    BY <2>1 DEF AdapterFails, Fault, Pays, ThreadOK
  <2>2. ASSUME NEW text \in Texts \cup {NoText}, AdapterReturns(b, text)
        PROVE  Keeps(b, w)'
    <3>1. job' = [job EXCEPT ![b] = [job[b] EXCEPT !.text = text]]
          /\ Goto(b, "inspect")
      BY <2>2 DEF AdapterReturns
    <3>2. QED
      BY <1>3, <3>1, JobValues, JobKept, JobOne
  <2>3. CASE Inspect(b)
    <3>1. \/ UNCHANGED job
          \/ job' = [job EXCEPT ![b] = [job[b] EXCEPT !.replied = TRUE]]
      BY <2>3 DEF Inspect
    <3>2. pc'[b] \in {"consume", "post", "complete"}
      BY SMTT(20), <2>3, JobOne DEF Inspect
    <3>3. QED
      BY <1>3, <3>1, <3>2, JobValues, JobKept
  <2>4. CASE PostReply(b)
    <3>1. \/ UNCHANGED job
          \/ job' = [job EXCEPT ![b] = [job[b] EXCEPT !.replied = TRUE]]
          \/ /\ job[b].tries + 1 < PostAttempts
             /\ job' = [job EXCEPT ![b] = [job[b] EXCEPT !.tries = @ + 1]]
      BY <2>4 DEF PostReply, PostAgainOrGiveUp
    <3>2. pc'[b] \in {"post", "consume", "failThenRead"}
      BY <2>4, JobOne DEF PostReply, PostAgainOrGiveUp
    <3>3. QED
      BY <1>3, <3>1, <3>2, JobValues, JobKept
  <2>5. CASE Consume(b)
    <3>1. \/ Persist(b, WithHandled(b, w))
          \/ noAck' = [noAck EXCEPT ![b] = noAck[b] \cup {w}]
      BY <1>3, <2>5 DEF Consume, ConsumeThen
    <3>2. QED
      BY <3>1, StateValues, PersistOne, MarksOne DEF LocalOK
  <2>6. CASE Complete(b)
    <3>1. CompleteAgentWakeup(b, w) \/ (Goto(b, "failThenRead") /\ UNCHANGED job)
      BY <1>3, <2>6 DEF Complete
    <3>2. CompleteAgentWakeup(b, w) => rows'[w].status = "completed"
      BY SetStatusStep DEF CompleteAgentWakeup, QueueInv
    <3>3. QED
      BY <1>3, <3>1, <3>2, JobOne DEF SettledStatus
  <2>7. CASE FailThenRead(b)
    <3>1. CanSetStatus(b, w)
      BY NoBridgeAssumption DEF CanSetStatus, Exists, QueueInv, RowsOK, RowOK
    <3>2. FailAgentWakeup(b, w) \/ (Fault /\ UNCHANGED crashes)
      BY <1>3, <2>7, <3>1 DEF FailThenRead, ReportFailure
    <3>3. FailAgentWakeup(b, w) => rows'[w].status = "failed"
      BY SetStatusStep DEF FailAgentWakeup, QueueInv
    <3>4. QED
      BY <3>2, <3>3 DEF SettledStatus, Fault, Pays, ThreadOK
  <2>8. CASE AgentPosts(b) \/ \E v \in Wakeups : RetryDue(b, v)
    BY <1>3, <2>8 DEF AgentPosts, RetryDue
  <2>9. QED
    BY <1>3, <2>1, <2>2, <2>3, <2>4, <2>5, <2>6, <2>7, <2>8
    DEF StepOf, BridgeStep, Drain, TakeUnacknowledged, TakeHandled, TakeGivenUp,
        TakeBackedOff, TakeFresh, Take, FetchPacket, ClaimWakeup, Dispatch, ConsumeSilent,
        MarkPending, ClearPending, CompleteAgain, ClearPendingAgain, FailAndReturn, AckRead
<1>4. QED
  BY <1>1, <1>2, <1>3

(* A wakeup that is spent stays spent, or the step costs something. *)
LEMMA SpentStays ==
  ASSUME IInv, [Next]_vars, NEW w \in Wakeups, Spent(w)
  PROVE  Spent(w)' \/ Pays
<1>1. CASE rows[w].status \in SettledStatus
  BY <1>1, QueueFrame, SettledStays DEF IInv, Spent
<1>2. ASSUME NEW c \in Bridges, rows[w].owner = c, Keeps(c, w)
      PROVE  Spent(w)' \/ Pays
  <2>1. rows'[w].owner = c
    BY <1>2, QueueFrame, QueueStepOK, NoBridgeAssumption DEF IInv, OwnerStep
  <2>2. CASE StepOf(c)
    BY <1>2, <2>1, <2>2, OwnKeeps DEF Spent
  <2>3. CASE ~ StepOf(c)
    <3>1. Stands(c)
      BY <2>3, OthersStand, WorldStands
    <3>2. QED
      BY <1>2, <2>1, <3>1 DEF Spent, Keeps, Stands
  <2>4. QED
    BY <2>2, <2>3
<1>3. QED
  BY <1>1, <1>2 DEF Spent

(* A run starts only for a wakeup that is not spent, and makes it spent. *)
LEMMA DispatchSpends ==
  ASSUME IInv, Memories, NEW b \in Bridges, NEW w \in Wakeups, Dispatch(b), job[b].id = w
  PROVE  ~ Spent(w) /\ Spent(w)'
<1>1. /\ pc[b] = "dispatch" /\ UNCHANGED rows
      /\ rows[w].owner = b /\ rows[w].status = "claimed"
  BY DispatchRuns
<1>2. MemoryOK(b)
  BY DEF Memories
<1>3. ~ Spent(w)
  BY <1>1, <1>2 DEF Spent, SettledStatus, Keeps, MemoryOK
<1>4. pc'[b] = "running"
  BY SMTT(20), JobOne DEF IInv, Dispatch
<1>5. job'[b].id = w
  <2>1. \/ job' = [job EXCEPT ![b] = [job[b] EXCEPT !.baselineKnown = FALSE]]
        \/ job' = [job EXCEPT ![b] =
                     [job[b] EXCEPT !.baselineKnown = TRUE, !.baseline = Posted]]
    BY DEF Dispatch
  <2>2. QED
    BY <2>1, JobValues, JobKept
<1>6. Spent(w)'
  BY <1>1, <1>4, <1>5 DEF Spent, Keeps
<1>7. QED
  BY <1>3, <1>6

AllRunsPaid == \A w \in Wakeups : RunsPaid(w)

LEMMA RunsPaidStep ==
  IInv /\ Memories /\ AllRunsPaid /\ [Next]_vars => AllRunsPaid'
<1> SUFFICES ASSUME IInv, Memories, AllRunsPaid, [Next]_vars, NEW w \in Wakeups
             PROVE  RunsPaid(w)'
  BY DEF AllRunsPaid
<1>1. /\ crashes \in Nat /\ faults \in Nat /\ crashes' \in Nat /\ faults' \in Nat
      /\ crashes' >= crashes /\ faults' >= faults
      /\ runs[w] \in Nat
  BY Costs DEF IInv, ThreadOK
<1>2. RunsPaid(w)
  BY DEF AllRunsPaid
<1>3. CASE runs'[w] = runs[w]
  <2>1. CASE Spent(w)
    <3>1. Spent(w)' \/ Pays
      BY <2>1, SpentStays
    <3>2. runs[w] <= crashes + faults + 1
      BY <1>2, <2>1 DEF RunsPaid
    <3>3. runs'[w] <= crashes' + faults' + 1
      BY <1>1, <1>3, <3>2
    <3>4. CASE Spent(w)'
      BY <3>3, <3>4 DEF RunsPaid
    <3>5. CASE Pays
      <4>1. runs'[w] <= crashes' + faults'
        BY <1>1, <1>3, <3>2, <3>5 DEF Pays
      <4>2. QED
        BY <1>1, <3>3, <4>1 DEF RunsPaid
    <3>6. QED
      BY <3>1, <3>4, <3>5
  <2>2. CASE ~ Spent(w)
    BY <1>1, <1>2, <1>3, <2>2 DEF RunsPaid
  <2>3. QED
    BY <2>1, <2>2
<1>4. ASSUME NEW b \in Bridges, Dispatch(b), job[b].id = w PROVE RunsPaid(w)'
  <2>1. ~ Spent(w) /\ Spent(w)'
    BY <1>4, DispatchSpends
  <2>2. runs'[w] = runs[w] + 1
    BY <1>4, DispatchRuns DEF IInv, ThreadOK
  <2>3. QED
    BY <1>1, <1>2, <2>1, <2>2 DEF RunsPaid
<1>5. ASSUME NEW b \in Bridges, Dispatch(b), job[b].id # w PROVE runs'[w] = runs[w]
  BY <1>5, DispatchRuns DEF IInv, ThreadOK
<1>6. QED
  BY <1>3, <1>4, <1>5, RunsStep

LEMMA MemoriesInit == Init => Memories /\ AllRunsPaid
<1> SUFFICES ASSUME Init PROVE Memories /\ AllRunsPaid
  OBVIOUS
<1>1. Memories
  BY DEF Init, Memories, MemoryOK
<1>2. ASSUME NEW w \in Wakeups PROVE RunsPaid(w)
  BY DEF Init, RunsPaid
<1>3. QED
  BY <1>1, <1>2 DEF AllRunsPaid

(* A completion is retried only for a wakeup that is recorded as handled,  *)
(* in memory and in the file a restart reads, whatever writes fail and     *)
(* whenever the bridge dies.                                               *)
THEOREM PendingHandled == Spec => []PendingIsHandled
<1>1. Memories => PendingIsHandled
  BY DEF Memories, MemoryOK, PendingIsHandled
<1>2. QED
  BY <1>1, MemoriesInit, MemoriesStep, BridgeInvariant, PTL DEF Spec

(* Every run of the agent after the first takes a crash or a failed call,  *)
(* for any number of instances and wakeups and any limits.                 *)
THEOREM RerunsArePaid == Spec => []RedispatchTakesAFault
<1>1. IInv /\ AllRunsPaid => RedispatchTakesAFault
  <2> SUFFICES ASSUME IInv, AllRunsPaid, NEW w \in Wakeups
               PROVE  runs[w] <= 1 + crashes + faults
    BY DEF RedispatchTakesAFault
  <2>1. runs[w] \in Nat /\ crashes \in Nat /\ faults \in Nat
    BY DEF IInv, ThreadOK
  <2>2. RunsPaid(w)
    BY DEF AllRunsPaid
  <2>3. QED
    BY <2>1, <2>2 DEF RunsPaid
<1>2. QED
  BY <1>1, MemoriesInit, MemoriesStep, RunsPaidStep, BridgeInvariant, PTL DEF Spec

-----------------------------------------------------------------------------
(* Why what is completed or remembered as handled has been answered. *)

Silent == {"consume", "markPending", "complete", "consumeSilent"}

(* What instance b works on after its claim is its own. *)
OwnedOK(b) ==
  /\ pc[b] = "running" => /\ rows[job[b].id].owner = b
                          /\ rows[job[b].id].status = "claimed"
  /\ pc[b] \in {"inspect", "post"} \cup Silent => rows[job[b].id].owner = b
  /\ \A w \in mem[b].pending \cup disk[b].pending : rows[w].owner = b

(* And whoever let the agent speak in the thread had claimed its wakeup. *)
Owned ==
  /\ \A b \in Bridges : OwnedOK(b)
  /\ \A m \in Posted : rows[m[2]].owner # NoBridge

(* While instance b runs the agent and looks for its answer, what it       *)
(* listed before the run is what was there, and every later message is of  *)
(* this wakeup or of another instance's.                                   *)
RunOK(b) ==
  pc[b] \in {"running", "inspect"} =>
    /\ job[b].baselineKnown => job[b].baseline = before[job[b].id]
    /\ \A m \in Posted \ before[job[b].id] :
         m[2] = job[b].id \/ rows[m[2]].owner # b

EarnedOK(b) ==
  /\ pc[b] \in {"inspect", "post"} => answer[job[b].id] = job[b].text
  /\ pc[b] \in Silent => Earned(job[b].id)
  /\ \A w \in mem[b].pending \cup disk[b].pending : Earned(w)
  /\ \A w \in (mem[b].handled \cup noAck[b]) \ gaveUp[b] :
       rows[w].owner = b /\ Earned(w)

Earnings ==
  /\ \A b \in Bridges : RunOK(b) /\ EarnedOK(b)
  /\ \A w \in Wakeups : rows[w].completedAt => rows[w].owner # NoBridge /\ Earned(w)

(* Owners of rows stay what they are. *)
LEMMA OwnersStay ==
  ASSUME IInv, [Next]_vars, NEW w \in Wakeups, rows[w].owner # NoBridge
  PROVE  rows'[w].owner = rows[w].owner
  BY QueueFrame, QueueStepOK DEF IInv, OwnerStep

(* The agent's messages are those of its runs and the bridge's replies:    *)
(* none leaves the thread, and a new one is posted for the wakeup at hand. *)
LEMMA MessagesStep ==
  ASSUME IInv, [Next]_vars
  PROVE  /\ Posted \subseteq Posted'
         /\ \A m \in Posted' \ Posted : \E b \in Bridges :
              StepOf(b) /\ pc[b] \in {"running", "post"} /\ m[2] = job[b].id
<1>1. ASSUME UNCHANGED <<direct, reply>> PROVE UNCHANGED Posted
  BY <1>1 DEF Posted
<1>2. ASSUME NEW b \in Bridges, PostReply(b)
      PROVE  /\ Posted \subseteq Posted' /\ pc[b] = "post"
             /\ \A m \in Posted' \ Posted : m[2] = job[b].id
  <2>1. pc[b] = "post" /\ UNCHANGED direct
    BY <1>2 DEF PostReply
  <2>2. \/ UNCHANGED reply
        \/ /\ job[b].id \in Wakeups /\ job[b].text # NoText
           /\ reply' = [reply EXCEPT ![job[b].id] = job[b].text]
    BY <1>2, PostAnswers, BridgeConstants
  <2>3. QED
    BY <2>1, <2>2 DEF Posted, Message, IInv, ThreadOK
<1>3. ASSUME NEW b \in Bridges, AgentPosts(b)
      PROVE  /\ Posted \subseteq Posted' /\ pc[b] = "running"
             /\ \A m \in Posted' \ Posted : m[2] = job[b].id
  BY <1>3 DEF AgentPosts, Posted
<1>4. ASSUME NEW b \in Bridges, BridgeStep(b), ~ PostReply(b)
      PROVE  UNCHANGED <<direct, reply>>
  BY <1>4 DEF BridgeStep, Drain, TakeUnacknowledged, TakeHandled, TakeGivenUp,
              TakeBackedOff, TakeFresh, Take, FetchPacket, ClaimWakeup, Dispatch,
              AdapterReturns, AdapterFails, Inspect, Consume, ConsumeSilent,
              ConsumeThen, MarkPending, Complete, ClearPending, CompleteAgain,
              ClearPendingAgain, FailAndReturn, FailThenRead, AckRead, threadVars
<1>5. ASSUME NEW b \in Bridges, Crash(b) \/ \E w \in Wakeups : RetryDue(b, w)
      PROVE  UNCHANGED <<direct, reply>>
  BY <1>5 DEF Crash, RetryDue, threadVars
<1>6. CASE \A b \in Bridges : ~ StepOf(b)
  BY <1>1, <1>6, WorldStands
<1>7. ASSUME NEW b \in Bridges, StepOf(b)
      PROVE  /\ Posted \subseteq Posted'
             /\ \A m \in Posted' \ Posted : pc[b] \in {"running", "post"} /\ m[2] = job[b].id
  BY <1>1, <1>2, <1>3, <1>4, <1>5, <1>7 DEF StepOf
<1>8. QED
  BY <1>6, <1>7

(* How the outcome of a wakeup's latest run and the messages it started    *)
(* from change.                                                            *)
LEMMA AnswerSteps ==
  ASSUME IInv, [Next]_vars, NEW w \in Wakeups
  PROVE  \/ answer'[w] = answer[w] /\ before'[w] = before[w]
         \/ \E b \in Bridges : /\ pc[b] \in {"dispatch", "running"} /\ job[b].id = w
                               /\ StepOf(b)
<1> USE DEF IInv, ThreadOK
<1>1. ASSUME NEW b \in Bridges, NEW n \in Notification, TakeGivenUp(b, n)
      PROVE  UNCHANGED <<answer, before>>
  BY <1>1 DEF TakeGivenUp
<1>2. ASSUME NEW b \in Bridges,
             Dispatch(b) \/ \E text \in Texts \cup {NoText} : AdapterReturns(b, text)
      PROVE  /\ pc[b] \in {"dispatch", "running"}
             /\ job[b].id = w \/ (answer'[w] = answer[w] /\ before'[w] = before[w])
  BY <1>2 DEF Dispatch, AdapterReturns
<1>3. ASSUME NEW b \in Bridges, BridgeStep(b), ~ Dispatch(b),
             \A text \in Texts \cup {NoText} : ~ AdapterReturns(b, text),
             \A n \in Notification : ~ TakeGivenUp(b, n)
      PROVE  UNCHANGED <<answer, before>>
  BY <1>3 DEF BridgeStep, Drain, TakeUnacknowledged, TakeHandled,
              TakeBackedOff, TakeFresh, Take, FetchPacket, ClaimWakeup,
              AdapterFails, Inspect, PostReply, Consume, ConsumeSilent,
              ConsumeThen, MarkPending, Complete, ClearPending, CompleteAgain,
              ClearPendingAgain, FailAndReturn, FailThenRead, AckRead, history
<1>4. ASSUME NEW b \in Bridges,
             AgentPosts(b) \/ Crash(b) \/ \E v \in Wakeups : RetryDue(b, v)
      PROVE  UNCHANGED <<answer, before>>
  BY <1>4 DEF AgentPosts, Crash, RetryDue, history
<1>5. CASE \A b \in Bridges : ~ StepOf(b)
  BY <1>5, WorldStands
<1>6. QED
  BY <1>1, <1>2, <1>3, <1>4, <1>5 DEF StepOf, BridgeStep

(* What was in the thread before a run is noted when it starts. *)
LEMMA BeforeStep ==
  ASSUME IInv, [Next]_vars
  PROVE  UNCHANGED before \/ \E b \in Bridges : Dispatch(b)
<1>1. ASSUME NEW b \in Bridges, BridgeStep(b), ~ Dispatch(b) PROVE UNCHANGED before
  BY <1>1 DEF BridgeStep, Drain, TakeUnacknowledged, TakeHandled, TakeGivenUp,
              TakeBackedOff, TakeFresh, Take, FetchPacket, ClaimWakeup, AdapterReturns,
              AdapterFails, Inspect, PostReply, Consume, ConsumeSilent,
              ConsumeThen, MarkPending, Complete, ClearPending, CompleteAgain,
              ClearPendingAgain, FailAndReturn, FailThenRead, AckRead, history
<1>2. ASSUME NEW b \in Bridges,
             AgentPosts(b) \/ Crash(b) \/ \E v \in Wakeups : RetryDue(b, v)
      PROVE  UNCHANGED before
  BY <1>2 DEF AgentPosts, Crash, RetryDue, history
<1>3. CASE \A b \in Bridges : ~ StepOf(b)
  BY <1>3, WorldStands
<1>4. QED
  BY <1>1, <1>2, <1>3 DEF StepOf

(* Only a run takes a wakeup off those its instance has given up. *)
LEMMA GivenUpStep ==
  ASSUME IInv, [Next]_vars, NEW c \in Bridges, NEW w \in gaveUp[c] \ gaveUp'[c]
  PROVE  pc[c] = "dispatch" /\ job[c].id = w
<1> USE DEF IInv, ThreadOK
<1>1. ASSUME NEW b \in Bridges, NEW n \in Notification, TakeGivenUp(b, n) PROVE FALSE
  BY <1>1 DEF TakeGivenUp
<1>2. ASSUME NEW b \in Bridges, Dispatch(b)
      PROVE  pc[c] = "dispatch" /\ job[c].id = w
  BY <1>2 DEF Dispatch
<1>3. ASSUME NEW b \in Bridges, BridgeStep(b), ~ Dispatch(b),
             \A n \in Notification : ~ TakeGivenUp(b, n)
      PROVE  UNCHANGED gaveUp
  BY <1>3 DEF BridgeStep, Drain, TakeUnacknowledged, TakeHandled,
              TakeBackedOff, TakeFresh, Take, FetchPacket, ClaimWakeup, AdapterReturns,
              AdapterFails, Inspect, PostReply, Consume, ConsumeSilent,
              ConsumeThen, MarkPending, Complete, ClearPending, CompleteAgain,
              ClearPendingAgain, FailAndReturn, FailThenRead, AckRead, history
<1>4. ASSUME NEW b \in Bridges,
             AgentPosts(b) \/ Crash(b) \/ \E v \in Wakeups : RetryDue(b, v)
      PROVE  UNCHANGED gaveUp
  BY <1>4 DEF AgentPosts, Crash, RetryDue, history
<1>5. CASE \A b \in Bridges : ~ StepOf(b)
  BY <1>5, WorldStands
<1>6. QED
  BY <1>1, <1>2, <1>3, <1>4, <1>5 DEF StepOf

(* The owner of wakeup w, if it is claimed at all, is not about to run the *)
(* agent for it or waiting for it.                                         *)
Quiet(w) ==
  \/ rows[w].status # "claimed"
  \/ \E c \in Bridges :
       /\ rows[w].owner = c
       /\ w \in mem[c].handled \cup noAck[c] \/ pc[c] \notin {"dispatch", "running"}

LEMMA QuietAnswer ==
  ASSUME IInv, Memories, Owned, [Next]_vars, NEW w \in Wakeups, Quiet(w)
  PROVE  answer'[w] = answer[w] /\ before'[w] = before[w]
<1>1. ASSUME NEW b \in Bridges, pc[b] \in {"dispatch", "running"}, job[b].id = w
      PROVE  /\ rows[w].status = "claimed" /\ rows[w].owner = b
             /\ w \notin mem[b].handled \cup noAck[b]
  BY <1>1 DEF IInv, ClaimHolds, Owned, OwnedOK, Memories, MemoryOK
<1>2. QED
  BY <1>1, AnswerSteps DEF Quiet

LEMMA AnsweredStays ==
  ASSUME IInv, Owned, [Next]_vars, NEW w \in Wakeups, rows[w].owner # NoBridge,
         before'[w] = before[w], Answered(w)
  PROVE  Answered(w)'
<1>1. CASE reply[w] # NoText
  <2>1. reply'[w] # NoText
    <3>1. ASSUME NEW b \in Bridges, PostReply(b) PROVE reply'[w] # NoText
      BY <1>1, <3>1, PostAnswers DEF IInv, ThreadOK
    <3>2. QED
      BY <1>1, <3>1, RepliesStep
  <2>2. QED
    BY <2>1 DEF Answered
<1>2. ASSUME NEW m \in Posted \ before[w], m[2] = w \/ rows[m[2]].owner # rows[w].owner
      PROVE  Answered(w)'
  <2>1. m \in Posted' \ before'[w]
    BY MessagesStep
  <2>2. m[2] \in Wakeups /\ rows[m[2]].owner # NoBridge
    BY DEF Owned, Posted, Message
  <2>3. rows'[m[2]].owner = rows[m[2]].owner /\ rows'[w].owner = rows[w].owner
    BY <2>2, OwnersStay
  <2>4. QED
    BY <1>2, <2>1, <2>3 DEF Answered
<1>3. QED
  BY <1>1, <1>2 DEF Answered

LEMMA QuietEarned ==
  ASSUME IInv, Memories, Owned, [Next]_vars, NEW w \in Wakeups, Quiet(w),
         rows[w].owner # NoBridge, Earned(w)
  PROVE  Earned(w)'
  BY QuietAnswer, AnsweredStays DEF Earned

(* From which call a step of instance c leads to which. *)
LEMMA OwnArrives ==
  ASSUME IInv, NEW c \in Bridges, StepOf(c)
  PROVE  /\ pc'[c] = "running" =>
              job'[c].id = job[c].id /\ (pc[c] = "running" \/ Dispatch(c))
         /\ pc'[c] \in {"inspect", "post"} \cup Silent =>
              /\ job'[c].id = job[c].id
              /\ pc[c] \in {"running", "inspect", "post"} \cup Silent
<1> USE DEF IInv, Silent
<1>1. ASSUME NEW n \in Notification,
             \/ TakeUnacknowledged(c, n) \/ TakeHandled(c, n) \/ TakeGivenUp(c, n)
             \/ TakeBackedOff(c, n) \/ TakeFresh(c, n)
      PROVE  pc'[c] \in {"idle", "read", "recomplete", "fetch"}
  <2>1. pc[c] = "idle" /\ (UNCHANGED pc \/ \E step \in {"read", "recomplete", "fetch"} :
                             Goto(c, step))
    BY <1>1 DEF TakeUnacknowledged, TakeHandled, TakeGivenUp, TakeBackedOff, TakeFresh,
                Take, Start
  <2>2. QED
    BY <2>1, JobOne
<1>2. CASE FetchPacket(c) \/ ClaimWakeup(c) \/ AdapterFails(c) \/ ConsumeSilent(c)
           \/ ClearPending(c) \/ CompleteAgain(c) \/ ClearPendingAgain(c)
           \/ FailAndReturn(c) \/ FailThenRead(c) \/ AckRead(c) \/ Crash(c)
  <2>1. pc'[c] \in {"idle", "claim", "dispatch", "fail", "read", "failThenRead", "reclear"}
    BY SMTT(20), <1>2, JobOne
    DEF FetchPacket, ClaimWakeup, AdapterFails, ConsumeSilent, ConsumeThen,
        ClearPending, CompleteAgain, ClearPendingAgain, FailAndReturn,
        FailThenRead, AckRead, Crash, RecordFailure, Return
  <2>2. QED
    BY <2>1
<1>3. CASE Dispatch(c)
  <2>1. pc'[c] = "running"
    BY <1>3, JobOne DEF Dispatch
  <2>2. \/ job' = [job EXCEPT ![c] = [job[c] EXCEPT !.baselineKnown = FALSE]]
        \/ job' = [job EXCEPT ![c] =
                     [job[c] EXCEPT !.baselineKnown = TRUE, !.baseline = Posted]]
    BY <1>3 DEF Dispatch
  <2>3. QED
    BY <1>3, <2>1, <2>2, JobValues, JobKept
<1>4. ASSUME NEW text \in Texts \cup {NoText}, AdapterReturns(c, text)
      PROVE  pc[c] = "running" /\ pc'[c] = "inspect" /\ job'[c].id = job[c].id
  <2>1. job' = [job EXCEPT ![c] = [job[c] EXCEPT !.text = text]]
    BY <1>4 DEF AdapterReturns
  <2>2. QED
    BY ZenonT(40), <1>4, <2>1, JobValues, JobKept, JobOne DEF AdapterReturns
<1>5. CASE Inspect(c) \/ PostReply(c) \/ Consume(c) \/ MarkPending(c)
  <2>1. \/ UNCHANGED job
        \/ job' = [job EXCEPT ![c] = [job[c] EXCEPT !.replied = TRUE]]
        \/ job' = [job EXCEPT ![c] = [job[c] EXCEPT !.marked = TRUE]]
        \/ /\ job[c].tries + 1 < PostAttempts
           /\ job' = [job EXCEPT ![c] = [job[c] EXCEPT !.tries = @ + 1]]
    BY <1>5 DEF Inspect, PostReply, PostAgainOrGiveUp, Consume, ConsumeThen, MarkPending
  <2>2. job'[c].id = job[c].id
    BY <2>1, JobValues, JobKept
  <2>3. /\ pc[c] \in {"inspect", "post", "consume", "markPending"}
        /\ pc'[c] \in {"post", "consume", "complete", "failThenRead", "markPending"}
    BY <1>5, JobOne DEF Inspect, PostReply, PostAgainOrGiveUp, Consume, ConsumeThen,
                        MarkPending
  <2>4. QED
    BY <2>2, <2>3
<1>6. CASE Complete(c)
  <2>1. UNCHANGED job /\ pc[c] = "complete"
    BY <1>6 DEF Complete
  <2>2. pc'[c] \in {"clearPending", "consumeSilent", "read", "failThenRead"}
    BY <1>6, JobOne DEF Complete, AfterComplete
  <2>3. QED
    BY <2>1, <2>2
<1>7. CASE Drain(c) \/ AgentPosts(c) \/ \E w \in Wakeups : RetryDue(c, w)
  BY <1>7 DEF Drain, AgentPosts, RetryDue
<1>8. QED
  BY <1>1, <1>2, <1>3, <1>4, <1>5, <1>6, <1>7 DEF StepOf, BridgeStep

(* A completion becomes pending only at the wakeup at hand. *)
LEMMA PendingOne ==
  ASSUME IInv, NEW c \in Bridges, StepOf(c),
         NEW w \in mem'[c].pending \cup disk'[c].pending
  PROVE  \/ w \in mem[c].pending \cup disk[c].pending
         \/ pc[c] = "markPending" /\ w = job[c].id
<1> USE DEF IInv
<1>1. ASSUME NEW n \in Notification, TakeUnacknowledged(c, n) \/ TakeGivenUp(c, n)
      PROVE  w \in mem[c].pending \cup disk[c].pending
  <2>1. /\ n.id \in Wakeups
        /\ Persist(c, WithHandled(c, n.id)) \/ PersistFails(c, WithHandled(c, n.id))
    BY <1>1 DEF TakeUnacknowledged, TakeGivenUp, Notification
  <2>2. QED
    BY <2>1, StateValues, PersistOne, MarksOne
<1>2. CASE Consume(c) \/ ConsumeSilent(c) \/ MarkPending(c) \/ ClearPending(c)
           \/ ClearPendingAgain(c)
  <2>1. job[c].id \in Wakeups
    BY <1>2, JobAtHand DEF Consume, ConsumeSilent, MarkPending, ClearPending,
                           ClearPendingAgain
  <2>2. \E new \in {WithHandled(c, job[c].id), WithoutPending(c, job[c].id)} \cup
                   (IF pc[c] = "markPending" THEN {WithPending(c, job[c].id)} ELSE {}) :
          Persist(c, new) \/ PersistFails(c, new)
    BY <1>2 DEF Consume, ConsumeSilent, ConsumeThen, MarkPending, ClearPending,
                ClearPendingAgain
  <2>3. QED
    BY <2>1, <2>2, StateValues, PersistOne, MarksOne
<1>3. ASSUME NEW text \in Texts \cup {NoText}, AdapterReturns(c, text)
      PROVE  w \in mem[c].pending \cup disk[c].pending
  BY <1>3 DEF AdapterReturns, LocalOK
<1>4. CASE Crash(c)
  BY <1>4 DEF Crash, LocalOK
<1>5. CASE \/ Drain(c) \/ FetchPacket(c) \/ ClaimWakeup(c) \/ Dispatch(c)
           \/ AdapterFails(c) \/ Inspect(c) \/ PostReply(c) \/ Complete(c)
           \/ CompleteAgain(c) \/ FailAndReturn(c) \/ FailThenRead(c) \/ AckRead(c)
           \/ AgentPosts(c)
           \/ \E v \in Wakeups : RetryDue(c, v)
           \/ \E n \in Notification :
                TakeHandled(c, n) \/ TakeBackedOff(c, n) \/ TakeFresh(c, n)
  BY <1>5 DEF Drain, FetchPacket, ClaimWakeup, Dispatch, AdapterFails, Inspect, PostReply,
              Complete, CompleteAgain, FailAndReturn, FailThenRead, AckRead, AgentPosts,
              RetryDue, TakeHandled, TakeBackedOff, TakeFresh, stateVars
<1>6. QED
  BY <1>1, <1>2, <1>3, <1>4, <1>5 DEF StepOf, BridgeStep

LEMMA OwnedOne ==
  ASSUME IInv, Owned, [Next]_vars, NEW c \in Bridges
  PROVE  OwnedOK(c)'
<1>1. OwnedOK(c) /\ c # NoBridge
  BY NoBridgeAssumption DEF Owned
<1>2. ASSUME NEW w \in Wakeups, rows[w].owner = c PROVE rows'[w].owner = c
  BY <1>1, <1>2, QueueFrame, QueueStepOK DEF IInv, OwnerStep
<1>3. ASSUME NEW w \in Wakeups, rows[w].owner = c, rows[w].status = "claimed",
             pc[c] = "running"
      PROVE  rows'[w].status = "claimed"
  BY <1>1, <1>3, RowsByStep
<1>4. mem[c].pending \cup disk[c].pending \subseteq Wakeups
  BY DEF IInv, LocalOK, State
<1>5. pc[c] # "idle" => job[c].id \in Wakeups
  BY JobAtHand DEF IInv
<1>6. CASE ~ StepOf(c)
  <2>1. Stands(c)
    BY <1>6, OthersStand, WorldStands
  <2>2. QED
    BY <1>1, <1>2, <1>3, <1>4, <1>5, <2>1 DEF OwnedOK, Stands, Silent
<1>7. CASE StepOf(c)
  <2>1. ASSUME pc'[c] = "running"
        PROVE  rows'[job'[c].id].owner = c /\ rows'[job'[c].id].status = "claimed"
    <3>1. CASE Dispatch(c)
      BY <1>7, <2>1, <3>1, OwnArrives, DispatchRuns
    <3>2. CASE pc[c] = "running"
      BY <1>1, <1>2, <1>3, <1>5, <1>7, <2>1, <3>2, OwnArrives DEF OwnedOK
    <3>3. QED
      BY <1>7, <2>1, <3>1, <3>2, OwnArrives
  <2>2. ASSUME pc'[c] \in {"inspect", "post"} \cup Silent
        PROVE  rows'[job'[c].id].owner = c
    BY <1>1, <1>2, <1>5, <1>7, <2>2, OwnArrives DEF OwnedOK, Silent
  <2>3. ASSUME NEW w \in mem'[c].pending \cup disk'[c].pending
        PROVE  rows'[w].owner = c
    BY <1>1, <1>2, <1>4, <1>5, <1>7, PendingOne DEF OwnedOK, Silent
  <2>4. QED
    BY <2>1, <2>2, <2>3 DEF OwnedOK
<1>8. QED
  BY <1>6, <1>7

LEMMA OwnedStep == IInv /\ Owned /\ [Next]_vars => Owned'
<1> SUFFICES ASSUME IInv, Owned, [Next]_vars PROVE Owned'
  OBVIOUS
<1>1. ASSUME NEW m \in Posted' PROVE rows'[m[2]].owner # NoBridge
  <2>1. m[2] \in Wakeups
    BY DEF Posted, Message
  <2>2. rows[m[2]].owner # NoBridge
    <3>1. CASE m \in Posted
      BY <3>1 DEF Owned
    <3>2. CASE m \notin Posted
      <4>1. PICK b \in Bridges : pc[b] \in {"running", "post"} /\ m[2] = job[b].id
        BY <3>2, MessagesStep
      <4>2. QED
        BY <4>1, NoBridgeAssumption DEF Owned, OwnedOK
    <3>3. QED
      BY <3>1, <3>2
  <2>3. QED
    BY <2>1, <2>2, OwnersStay
<1>2. QED
  BY <1>1, OwnedOne DEF Owned

(* How an instance comes to run the agent, or to look for its answer. *)
LEMMA RunArrives ==
  ASSUME IInv, NEW c \in Bridges, StepOf(c), pc'[c] \in {"running", "inspect"}
  PROVE  \/ Dispatch(c)
         \/ \E text \in Texts \cup {NoText} : AdapterReturns(c, text)
         \/ pc[c] \in {"running", "inspect"} /\ UNCHANGED job
<1> USE DEF IInv
<1>1. Dispatch(c) \/ pc[c] \in {"running", "inspect", "post"} \cup Silent
  BY OwnArrives
<1>2. CASE AgentPosts(c) \/ \E v \in Wakeups : RetryDue(c, v)
  BY <1>2 DEF AgentPosts, RetryDue
<1>3. CASE \/ AdapterFails(c) \/ Inspect(c) \/ PostReply(c) \/ Consume(c)
           \/ ConsumeSilent(c) \/ MarkPending(c) \/ Complete(c) \/ Crash(c)
  <2>1. pc'[c] \in {"fail", "markPending", "complete", "read", "failThenRead", "post",
                    "consume", "clearPending", "consumeSilent", "idle"}
    BY SMTT(20), <1>3, JobOne
    DEF AdapterFails, RecordFailure, Inspect, PostReply, PostAgainOrGiveUp, Consume,
        ConsumeSilent, ConsumeThen, MarkPending, Complete, AfterComplete, Crash, Return
  <2>2. QED
    BY <2>1
<1>4. QED
  BY <1>1, <1>2, <1>3
  DEF StepOf, BridgeStep, Drain, TakeUnacknowledged, TakeHandled, TakeGivenUp,
      TakeBackedOff, TakeFresh, Take, FetchPacket, ClaimWakeup, ClearPending,
      CompleteAgain, ClearPendingAgain, FailAndReturn, FailThenRead, AckRead, Silent

LEMMA RunStep ==
  ASSUME IInv, Owned, [Next]_vars, NEW c \in Bridges, RunOK(c),
         pc'[c] \in {"running", "inspect"}
  PROVE  RunOK(c)'
<1> USE DEF IInv
<1>1. CASE Dispatch(c)
  <2>1. /\ job[c].id \in Wakeups /\ UNCHANGED Posted
        /\ before' = [before EXCEPT ![job[c].id] = Posted]
    BY <1>1, JobAtHand DEF Dispatch, threadVars, Posted
  <2>2. /\ job'[c].id = job[c].id
        /\ job'[c].baselineKnown => job'[c].baseline = Posted
    <3>1. \/ job' = [job EXCEPT ![c] = [job[c] EXCEPT !.baselineKnown = FALSE]]
          \/ job' = [job EXCEPT ![c] =
                       [job[c] EXCEPT !.baselineKnown = TRUE, !.baseline = Posted]]
      BY <1>1 DEF Dispatch
    <3>2. QED
      BY <3>1 DEF ControlOK, Job
  <2>3. before'[job'[c].id] = Posted'
    BY <2>1, <2>2 DEF ThreadOK
  <2>4. QED
    BY <2>1, <2>2, <2>3 DEF RunOK
<1>2. CASE ~ Dispatch(c)
  <2>1. /\ pc[c] \in {"running", "inspect"} /\ job'[c].id = job[c].id
        /\ job'[c].baselineKnown = job[c].baselineKnown
        /\ job'[c].baseline = job[c].baseline
    <3>1. CASE ~ StepOf(c)
      <4>1. Stands(c)
        BY <3>1, OthersStand, WorldStands
      <4>2. QED
        BY <4>1 DEF Stands
    <3>2. ASSUME NEW text \in Texts \cup {NoText}, AdapterReturns(c, text)
          PROVE  /\ pc[c] \in {"running", "inspect"} /\ job'[c].id = job[c].id
                 /\ job'[c].baselineKnown = job[c].baselineKnown
                 /\ job'[c].baseline = job[c].baseline
      BY <3>2 DEF AdapterReturns, ControlOK, Job
    <3>3. QED
      BY <1>2, <3>1, <3>2, RunArrives
  <2> DEFINE w == job[c].id
  <2>2. w \in Wakeups /\ rows[w].owner = c /\ c # NoBridge
    BY <2>1, JobAtHand, NoBridgeAssumption DEF Owned, OwnedOK
  <2>3. before'[w] = before[w]
    <3>1. ASSUME NEW b \in Bridges, Dispatch(b) PROVE before'[w] = before[w]
      <4>1. b # c
        BY <1>2, <3>1
      <4>2. job[b].id # w
        BY <2>2, <3>1, <4>1, DispatchRuns
      <4>3. QED
        BY <3>1, <4>2 DEF Dispatch, ThreadOK
    <3>2. QED
      BY <3>1, BeforeStep
  <2>4. ASSUME NEW m \in Posted' \ before'[w]
        PROVE  m[2] = w \/ rows'[m[2]].owner # c
    <3>1. m[2] \in Wakeups
      BY DEF Posted, Message
    <3>2. CASE m \in Posted
      <4>1. /\ m[2] = w \/ rows[m[2]].owner # c
            /\ rows[m[2]].owner # NoBridge
        BY <2>1, <2>3, <3>2 DEF RunOK, Owned
      <4>2. QED
        BY <3>1, <4>1, OwnersStay
    <3>3. CASE m \notin Posted
      <4>1. PICK b \in Bridges : pc[b] \in {"running", "post"} /\ m[2] = job[b].id
        BY <3>3, MessagesStep
      <4>2. rows[m[2]].owner = b /\ b # NoBridge
        BY <4>1, NoBridgeAssumption DEF Owned, OwnedOK
      <4>3. rows'[m[2]].owner = b
        BY <3>1, <4>2, OwnersStay
      <4>4. QED
        BY <4>1, <4>3
    <3>4. QED
      BY <3>2, <3>3
  <2>5. QED
    BY <2>1, <2>3, <2>4 DEF RunOK
<1>3. QED
  BY <1>1, <1>2

(* A wakeup is remembered as handled only at the end of its handling, or   *)
(* when it is given up.                                                    *)
LEMMA HandledOne ==
  ASSUME IInv, NEW c \in Bridges, MemoryOK(c), StepOf(c),
         NEW w \in mem'[c].handled \cup noAck'[c]
  PROVE  \/ w \in mem[c].handled \cup noAck[c]
         \/ pc[c] \in {"consume", "consumeSilent"} /\ w = job[c].id
         \/ \E n \in Notification : TakeGivenUp(c, n) /\ n.id = w
<1> USE DEF IInv
<1>1. ASSUME NEW n \in Notification, TakeUnacknowledged(c, n)
      PROVE  w \in mem[c].handled \cup noAck[c]
  <2>1. /\ n.id \in Wakeups /\ n.id \in noAck[c]
        /\ Persist(c, WithHandled(c, n.id)) \/ PersistFails(c, WithHandled(c, n.id))
        /\ noAck'[c] \subseteq noAck[c]
    BY <1>1 DEF TakeUnacknowledged, Notification, LocalOK
  <2>2. QED
    BY <2>1, StateValues, PersistOne, MarksOne
<1>2. ASSUME NEW n \in Notification, TakeGivenUp(c, n)
      PROVE  n.id = w \/ w \in mem[c].handled \cup noAck[c]
  <2>1. /\ n.id \in Wakeups /\ UNCHANGED noAck
        /\ Persist(c, WithHandled(c, n.id)) \/ PersistFails(c, WithHandled(c, n.id))
    BY <1>2 DEF TakeGivenUp, Notification
  <2>2. QED
    BY <2>1, StateValues, PersistOne, MarksOne
<1>3. CASE Consume(c) \/ ConsumeSilent(c)
  <2>1. job[c].id \in Wakeups
    BY <1>3, JobAtHand DEF Consume, ConsumeSilent
  <2>2. /\ \/ Persist(c, WithHandled(c, job[c].id))
           \/ PersistFails(c, WithHandled(c, job[c].id))
        /\ \/ UNCHANGED noAck
           \/ noAck' = [noAck EXCEPT ![c] = noAck[c] \cup {job[c].id}]
        /\ pc[c] \in {"consume", "consumeSilent"}
    BY <1>3 DEF Consume, ConsumeSilent, ConsumeThen
  <2>3. noAck'[c] \subseteq noAck[c] \cup {job[c].id}
    BY <2>2 DEF LocalOK
  <2>4. QED
    BY <2>1, <2>2, <2>3, StateValues, PersistOne, MarksOne
<1>4. CASE MarkPending(c) \/ ClearPending(c) \/ ClearPendingAgain(c)
  <2>1. job[c].id \in Wakeups
    BY <1>4, JobAtHand DEF MarkPending, ClearPending, ClearPendingAgain
  <2>2. /\ \/ Persist(c, WithPending(c, job[c].id))
           \/ PersistFails(c, WithPending(c, job[c].id))
           \/ Persist(c, WithoutPending(c, job[c].id))
           \/ PersistFails(c, WithoutPending(c, job[c].id))
        /\ UNCHANGED noAck
    BY <1>4 DEF MarkPending, ClearPending, ClearPendingAgain
  <2>3. QED
    BY <2>1, <2>2, StateValues, PersistOne, MarksOne
<1>5. CASE Crash(c)
  <2>1. mem'[c] = disk[c] /\ noAck'[c] = {}
    BY <1>5 DEF Crash, LocalOK
  <2>2. QED
    BY <2>1 DEF MemoryOK
<1>6. CASE \/ Drain(c) \/ FetchPacket(c) \/ ClaimWakeup(c) \/ Dispatch(c)
           \/ AdapterFails(c) \/ Inspect(c) \/ PostReply(c) \/ Complete(c)
           \/ CompleteAgain(c) \/ FailAndReturn(c) \/ FailThenRead(c) \/ AckRead(c)
           \/ AgentPosts(c)
           \/ \E text \in Texts \cup {NoText} : AdapterReturns(c, text)
           \/ \E v \in Wakeups : RetryDue(c, v)
           \/ \E n \in Notification :
                TakeHandled(c, n) \/ TakeBackedOff(c, n) \/ TakeFresh(c, n)
  BY <1>6 DEF Drain, FetchPacket, ClaimWakeup, Dispatch, AdapterFails, Inspect, PostReply,
              Complete, CompleteAgain, FailAndReturn, FailThenRead, AckRead, AgentPosts,
              AdapterReturns, RetryDue, TakeHandled, TakeBackedOff, TakeFresh, stateVars
<1>7. QED
  BY <1>1, <1>2, <1>3, <1>4, <1>5, <1>6 DEF StepOf, BridgeStep

(* Who gets to the end of its handling has earned it. *)
LEMMA SilentOne ==
  ASSUME IInv, Memories, Owned, [Next]_vars, NEW c \in Bridges, RunOK(c), EarnedOK(c),
         StepOf(c), pc'[c] \in Silent, NEW w, w = job'[c].id
  PROVE  w \in Wakeups /\ Earned(w)'
<1> USE DEF IInv
<1>1. /\ w = job[c].id /\ w \in Wakeups
      /\ pc[c] \in {"running", "inspect", "post"} \cup Silent
  BY OwnArrives, JobAtHand DEF Silent
<1>2. rows[w].owner = c /\ c # NoBridge
  BY <1>1, NoBridgeAssumption DEF Owned, OwnedOK, Silent
<1>3. ~ (\E text \in Texts \cup {NoText} : AdapterReturns(c, text)) /\ pc[c] # "running"
  <2>1. ASSUME NEW text \in Texts \cup {NoText}, AdapterReturns(c, text) PROVE FALSE
    BY <2>1, JobOne DEF AdapterReturns, Silent
  <2>2. ASSUME pc[c] = "running" PROVE pc'[c] \in {"running", "fail", "idle"}
    <3>1. CASE AdapterFails(c) \/ Crash(c)
      BY <3>1, JobOne DEF AdapterFails, RecordFailure, Crash, Return
    <3>2. CASE AgentPosts(c) \/ \E v \in Wakeups : RetryDue(c, v)
      BY <2>2, <3>2 DEF AgentPosts, RetryDue
    <3>3. QED
      BY <2>1, <2>2, <3>1, <3>2
      DEF StepOf, BridgeStep, Drain, TakeUnacknowledged, TakeHandled, TakeGivenUp,
          TakeBackedOff, TakeFresh, Take, FetchPacket, ClaimWakeup, Dispatch, Inspect,
          PostReply, Consume, ConsumeSilent, MarkPending, Complete, ClearPending,
          CompleteAgain, ClearPendingAgain, FailAndReturn, FailThenRead, AckRead
  <2>3. QED
    BY <2>1, <2>2 DEF Silent
<1>4. Quiet(w)
  BY <1>1, <1>2, <1>3 DEF Quiet, Silent
<1>5. CASE pc[c] \in Silent
  <2>1. Earned(w)
    BY <1>1, <1>5 DEF EarnedOK
  <2>2. QED
    BY <1>1, <1>2, <1>4, <2>1, QuietEarned
<1>6. CASE pc[c] \in {"inspect", "post"}
  <2>1. answer[w] = job[c].text /\ job[c].text \in Texts \cup {NoText}
    BY <1>1, <1>6 DEF EarnedOK, ControlOK, Job
  <2>2. answer'[w] = job[c].text /\ before'[w] = before[w]
    BY <1>1, <1>4, <2>1, QuietAnswer
  <2>3. answer'[w] # "none"
    BY <2>1, <2>2, BridgeConstants
  <2>4. Answered(w)' \/ answer'[w] \notin Texts
    <3>1. CASE Inspect(c)
      <4>1. \/ pc[c] = "inspect" /\ job[c].baselineKnown /\ Posted \ job[c].baseline # {}
            \/ pc'[c] = "post" \/ job[c].text = NoText
        BY <3>1, JobOne DEF Inspect
      <4>2. pc'[c] # "post"
        BY DEF Silent
      <4>3. job[c].text = NoText => answer'[w] \notin Texts
        BY <2>2, BridgeConstants
      <4>4. CASE pc[c] = "inspect" /\ job[c].baselineKnown /\ Posted \ job[c].baseline # {}
        <5>1. PICK m \in Posted \ before[w] : m[2] = w \/ rows[m[2]].owner # c
          BY <1>1, <4>4 DEF RunOK
        <5>2. Answered(w)
          BY <1>2, <5>1 DEF Answered
        <5>3. QED
          BY <1>1, <1>2, <2>2, <5>2, AnsweredStays
      <4>5. QED
        BY <4>1, <4>2, <4>3, <4>4
    <3>2. CASE PostReply(c)
      <4>1. AppendReply(w, job[c].text) \/ pc'[c] \in {"post", "failThenRead"}
        BY <1>1, <1>6, <3>2, JobOne DEF PostReply, PostAgainOrGiveUp
      <4>2. AppendReply(w, job[c].text)
        BY <4>1 DEF Silent
      <4>3. pc[c] = "post"
        BY <3>2 DEF PostReply
      <4>4. reply'[w] # NoText
        BY <1>1, <4>2, <4>3, BridgeConstants DEF AppendReply, ThreadOK, JobOK
      <4>5. QED
        BY <1>1, <4>4 DEF Answered
    <3>3. CASE ~ Inspect(c) /\ ~ PostReply(c)
      <4>1. pc'[c] \in {"inspect", "post", "idle"}
        <5>1. CASE AgentPosts(c) \/ \E v \in Wakeups : RetryDue(c, v)
          BY <1>6, <5>1 DEF AgentPosts, RetryDue
        <5>2. CASE Crash(c)
          BY <5>2, JobOne DEF Crash, Return
        <5>3. QED
          BY <1>6, <3>3, <5>1, <5>2
          DEF StepOf, BridgeStep, Drain, TakeUnacknowledged, TakeHandled, TakeGivenUp,
              TakeBackedOff, TakeFresh, Take, FetchPacket, ClaimWakeup, Dispatch,
              AdapterReturns, AdapterFails, Consume, ConsumeSilent, MarkPending,
              Complete, ClearPending, CompleteAgain, ClearPendingAgain,
              FailAndReturn, FailThenRead, AckRead
      <4>2. QED
        BY <4>1 DEF Silent
    <3>4. QED
      BY <3>1, <3>2, <3>3
  <2>5. QED
    BY <1>1, <2>3, <2>4 DEF Earned
<1>7. QED
  BY <1>1, <1>3, <1>5, <1>6

(* Which step changes the rows, and how. *)
LEMMA RowSteps ==
  ASSUME IInv, [Next]_vars
  PROVE  \/ UNCHANGED rows
         \/ \E w \in Wakeups : UpsertAgentWakeup(w)
         \/ \E m \in MarkRequest : MarkAgentWakeupNotification(m[1], m[2])
         \/ \E b \in Bridges :
              /\ job[b].id \in Wakeups
              /\ \/ pc[b] = "claim" /\ ClaimAgentWakeup(b, job[b].id)
                 \/ /\ Complete(b) \/ CompleteAgain(b)
                    /\ CompleteAgentWakeup(b, job[b].id)
                 \/ FailAgentWakeup(b, job[b].id)
<1> USE DEF IInv
<1>1. ASSUME NEW b \in Bridges, BridgeStep(b)
      PROVE  \/ UNCHANGED rows
             \/ /\ job[b].id \in Wakeups
                /\ \/ pc[b] = "claim" /\ ClaimAgentWakeup(b, job[b].id)
                   \/ /\ Complete(b) \/ CompleteAgain(b)
                      /\ CompleteAgentWakeup(b, job[b].id)
                   \/ FailAgentWakeup(b, job[b].id)
  <2>1. CASE ClaimWakeup(b)
    BY <2>1, JobAtHand DEF ClaimWakeup
  <2>2. CASE Complete(b) \/ CompleteAgain(b)
    BY <2>2, JobAtHand DEF Complete, CompleteAgain
  <2>3. CASE FailAndReturn(b) \/ FailThenRead(b)
    BY <2>3, JobAtHand DEF FailAndReturn, FailThenRead, ReportFailure
  <2>4. CASE AckRead(b)
    BY <2>4 DEF AckRead, CheckMark, queueVars
  <2>5. ASSUME NEW n \in Notification,
               \/ TakeUnacknowledged(b, n) \/ TakeHandled(b, n) \/ TakeGivenUp(b, n)
               \/ TakeBackedOff(b, n) \/ TakeFresh(b, n)
        PROVE  UNCHANGED rows
    BY <2>5 DEF TakeUnacknowledged, TakeHandled, TakeGivenUp, TakeBackedOff, TakeFresh,
                Take
  <2>6. CASE \/ Drain(b) \/ FetchPacket(b) \/ Dispatch(b) \/ AdapterFails(b)
             \/ Inspect(b) \/ PostReply(b) \/ Consume(b) \/ ConsumeSilent(b)
             \/ MarkPending(b) \/ ClearPending(b) \/ ClearPendingAgain(b)
             \/ \E text \in Texts \cup {NoText} : AdapterReturns(b, text)
    BY <2>6 DEF Drain, FetchPacket, Dispatch, AdapterFails, Inspect, PostReply,
                Consume, ConsumeSilent, ConsumeThen, MarkPending, ClearPending,
                ClearPendingAgain, AdapterReturns
  <2>7. QED
    BY <1>1, <2>1, <2>2, <2>3, <2>4, <2>5, <2>6 DEF BridgeStep
<1>2. ASSUME NEW b \in Bridges,
             AgentPosts(b) \/ Crash(b) \/ \E w \in Wakeups : RetryDue(b, w)
      PROVE  UNCHANGED rows
  BY <1>2 DEF AgentPosts, Crash, RetryDue
<1>3. ASSUME NEW m \in MarkRequest, AskMark(m[1], m[2]) \/ FinishMark(m[1], m[2])
      PROVE  UNCHANGED rows \/ MarkAgentWakeupNotification(m[1], m[2])
  BY <1>3 DEF AskMark, FinishMark, CheckMark, WriteMark
<1>4. ASSUME NEW w \in Wakeups, Enqueue(w) PROVE UpsertAgentWakeup(w)
  BY <1>4 DEF Enqueue
<1>5. CASE UNCHANGED vars
  BY <1>5 DEF vars
<1>6. QED
  BY <1>1, <1>2, <1>3, <1>4, <1>5 DEF Next

(* A row is completed by a bridge that has the wakeup at hand. *)
LEMMA CompletedBy ==
  ASSUME IInv, [Next]_vars, NEW w \in Wakeups, rows'[w].completedAt, ~ rows[w].completedAt
  PROVE  \E b \in Bridges : /\ Complete(b) \/ CompleteAgain(b)
                            /\ job[b].id = w /\ rows[w].owner \in {b, NoBridge}
<1>0. rows \in [Wakeups -> Row]
  BY DEF IInv, QueueInv, RowsOK
<1>1. ASSUME NEW v \in Wakeups, UpsertAgentWakeup(v) PROVE FALSE
  BY <1>0, <1>1 DEF UpsertAgentWakeup, NewRow, Row
<1>2. ASSUME NEW m \in MarkRequest, MarkAgentWakeupNotification(m[1], m[2]) PROVE FALSE
  <2>1. m[1] \in Wakeups
    BY DEF MarkRequest
  <2>2. QED
    BY <1>0, <1>2, <2>1 DEF MarkAgentWakeupNotification, Row
<1>3. ASSUME NEW b \in Bridges, job[b].id \in Wakeups, ClaimAgentWakeup(b, job[b].id)
      PROVE  FALSE
  BY <1>0, <1>3 DEF ClaimAgentWakeup, Row
<1>4. ASSUME NEW b \in Bridges, job[b].id \in Wakeups, FailAgentWakeup(b, job[b].id)
      PROVE  FALSE
  BY <1>0, <1>4 DEF FailAgentWakeup, SetAgentWakeupStatus, Settled, Row
<1>5. ASSUME NEW b \in Bridges, job[b].id \in Wakeups, CompleteAgentWakeup(b, job[b].id)
      PROVE  job[b].id = w /\ rows[w].owner \in {b, NoBridge}
  BY <1>0, <1>5 DEF CompleteAgentWakeup, SetAgentWakeupStatus, CanSetStatus, Row
<1>6. QED
  BY <1>1, <1>2, <1>3, <1>4, <1>5, RowSteps

LEMMA EarnedStep ==
  ASSUME IInv, Memories, Owned, Earnings, [Next]_vars, NEW c \in Bridges
  PROVE  EarnedOK(c)'
<1> USE DEF IInv
<1>1. RunOK(c) /\ EarnedOK(c) /\ c # NoBridge /\ MemoryOK(c)
  BY NoBridgeAssumption DEF Earnings, Memories
<1>2. pc[c] # "idle" => job[c].id \in Wakeups
  BY JobAtHand
<1>3. ASSUME NEW w \in Wakeups, rows[w].owner = c, pc[c] \notin {"dispatch", "running"}
      PROVE  Quiet(w)
  BY <1>3 DEF Quiet
<1>4. ASSUME pc'[c] \in {"inspect", "post"}
      PROVE  answer'[job'[c].id] = job'[c].text
  <2>1. CASE job'[c] = job[c] /\ pc[c] \in {"inspect", "post"}
    <3>1. Quiet(job[c].id)
      BY <1>2, <1>3, <2>1 DEF Owned, OwnedOK
    <3>2. QED
      BY <1>1, <1>2, <2>1, <3>1, QuietAnswer DEF EarnedOK
  <2>2. ASSUME NEW text \in Texts \cup {NoText}, AdapterReturns(c, text)
        PROVE  answer'[job'[c].id] = job'[c].text
    <3>1. /\ job' = [job EXCEPT ![c] = [job[c] EXCEPT !.text = text]]
          /\ answer' = [answer EXCEPT ![job[c].id] = text]
          /\ pc[c] = "running"
      BY <2>2 DEF AdapterReturns
    <3>2. job'[c].id = job[c].id /\ answer'[job[c].id] = text
      BY <1>2, <3>1, JobValues, JobKept DEF ThreadOK
    <3>3. job'[c].text = text
      BY <3>1 DEF ControlOK, Job
    <3>4. QED
      BY <3>2, <3>3
  <2>3. CASE PostReply(c)
    <3>1. /\ pc[c] = "post" /\ UNCHANGED answer
          /\ \/ pc'[c] \in {"consume", "failThenRead"}
             \/ /\ job[c].tries + 1 < PostAttempts
                /\ job' = [job EXCEPT ![c] = [job[c] EXCEPT !.tries = @ + 1]]
      BY <2>3, JobOne DEF PostReply, PostAgainOrGiveUp, history
    <3>2. job'[c].id = job[c].id /\ job'[c].text = job[c].text
      <4>1. /\ job[c].tries + 1 < PostAttempts
            /\ job' = [job EXCEPT ![c] = [job[c] EXCEPT !.tries = @ + 1]]
        BY SMTT(20), <1>4, <3>1
      <4>2. DEFINE j == [job[c] EXCEPT !.tries = @ + 1]
      <4>3. j.id = job[c].id /\ j.text = job[c].text
        BY <4>1, JobValues DEF SameJob
      <4>4. job' = [job EXCEPT ![c] = j]
        BY <4>1
      <4> HIDE DEF j
      <4>5. QED
        BY <4>3, <4>4, JobOne
    <3>3. QED
      BY <1>1, <3>1, <3>2 DEF EarnedOK
  <2>4. CASE Inspect(c)
    <3>1. /\ pc[c] = "inspect" /\ UNCHANGED answer
          /\ pc'[c] = "consume" \/ UNCHANGED job
      BY <2>4, JobOne DEF Inspect, history
    <3>2. QED
      BY <1>1, <1>4, <3>1 DEF EarnedOK
  <2>5. CASE ~ StepOf(c)
    <3>1. Stands(c)
      BY <2>5, OthersStand, WorldStands
    <3>2. QED
      BY <1>4, <2>1, <3>1 DEF Stands
  <2>6. CASE /\ StepOf(c) /\ ~ PostReply(c) /\ ~ Inspect(c)
             /\ \A text \in Texts \cup {NoText} : ~ AdapterReturns(c, text)
    <3>1. pc[c] \in {"running", "inspect", "post"} \cup Silent
      BY <1>4, <2>6, OwnArrives
    <3>2. CASE AgentPosts(c) \/ \E v \in Wakeups : RetryDue(c, v)
      <4>1. UNCHANGED <<pc, job>>
        BY <3>2 DEF AgentPosts, RetryDue
      <4>2. QED
        BY <1>4, <2>1, <4>1
    <3>3. CASE ~ AgentPosts(c) /\ \A v \in Wakeups : ~ RetryDue(c, v)
      <4>1. \/ AdapterFails(c) \/ Consume(c) \/ ConsumeSilent(c) \/ MarkPending(c)
            \/ Complete(c) \/ Crash(c)
        BY <2>6, <3>1, <3>3
        DEF StepOf, BridgeStep, Drain, TakeUnacknowledged, TakeHandled, TakeGivenUp,
            TakeBackedOff, TakeFresh, Take, FetchPacket, ClaimWakeup, Dispatch,
            ClearPending, CompleteAgain, ClearPendingAgain, FailAndReturn,
            FailThenRead, AckRead, Silent
      <4>2. pc'[c] \in {"fail", "markPending", "complete", "read", "failThenRead",
                        "clearPending", "consumeSilent", "idle"}
        BY <4>1, JobOne DEF AdapterFails, RecordFailure, Consume, ConsumeSilent,
                            ConsumeThen, MarkPending, Complete, AfterComplete, Crash, Return
      <4>3. QED
        BY <1>4, <4>2
    <3>4. QED
      BY <3>2, <3>3
  <2>7. QED
    BY <2>2, <2>3, <2>4, <2>5, <2>6
<1>5. ASSUME NEW w, pc'[c] \in Silent, w = job'[c].id PROVE Earned(w)'
  <2>1. CASE StepOf(c)
    BY <1>1, <1>5, <2>1, SilentOne
  <2>2. CASE ~ StepOf(c)
    <3>1. Stands(c)
      BY <2>2, OthersStand, WorldStands
    <3>2. w \in Wakeups /\ Earned(w) /\ Quiet(w) /\ rows[w].owner = c
      BY <1>1, <1>2, <1>3, <1>5, <3>1 DEF Stands, Silent, EarnedOK, Owned, OwnedOK
    <3>3. QED
      BY <1>1, <3>2, QuietEarned
  <2>3. QED
    BY <2>1, <2>2
<1>6. ASSUME NEW w \in (mem'[c].handled \cup noAck'[c]) \ gaveUp'[c]
      PROVE  rows'[w].owner = c /\ Earned(w)'
  <2>1. w \in Wakeups
    BY LocalStep DEF LocalOK, State
  <2>2. ASSUME rows[w].owner = c, Earned(w), Quiet(w)
        PROVE  rows'[w].owner = c /\ Earned(w)'
    BY <1>1, <2>1, <2>2, OwnersStay, QuietEarned
  <2>3. CASE w \in mem[c].handled \cup noAck[c]
    <3>1. w \notin gaveUp[c]
      <4>1. ASSUME w \in gaveUp[c] PROVE pc[c] = "dispatch" /\ job[c].id = w
        BY <1>6, <4>1, GivenUpStep
      <4>2. QED
        BY <1>1, <2>3, <4>1 DEF MemoryOK
    <3>2. rows[w].owner = c /\ Earned(w) /\ Quiet(w)
      BY <1>1, <2>3, <3>1 DEF EarnedOK, Quiet
    <3>3. QED
      BY <2>2, <3>2
  <2>4. CASE pc[c] \in {"consume", "consumeSilent"} /\ w = job[c].id
    <3>1. rows[w].owner = c
      BY <2>4 DEF Silent, Owned, OwnedOK
    <3>2. Earned(w) /\ Quiet(w)
      BY <1>1, <1>3, <2>1, <2>4, <3>1 DEF EarnedOK, Silent
    <3>3. QED
      BY <2>2, <3>1, <3>2
  <2>5. ASSUME NEW n \in Notification, TakeGivenUp(c, n), n.id = w PROVE FALSE
    BY <1>6, <2>5 DEF TakeGivenUp, ThreadOK
  <2>6. CASE ~ StepOf(c)
    <3>1. Stands(c)
      BY <2>6, OthersStand, WorldStands
    <3>2. QED
      BY <1>6, <2>3, <3>1 DEF Stands
  <2>7. QED
    BY <1>1, <1>6, <2>3, <2>4, <2>5, <2>6, HandledOne
<1>7. ASSUME NEW w \in mem'[c].pending \cup disk'[c].pending PROVE Earned(w)'
  <2>1. w \in Wakeups
    BY LocalStep DEF LocalOK, State
  <2>2. CASE w \in mem[c].pending \cup disk[c].pending
    <3>1. w \in mem[c].handled
      BY <1>1, <2>2 DEF MemoryOK
    <3>2. rows[w].owner = c /\ Earned(w)
      BY <1>1, <2>2 DEF Owned, OwnedOK, EarnedOK
    <3>3. QED
      BY <1>1, <2>1, <3>1, <3>2, QuietEarned DEF Quiet
  <2>3. CASE pc[c] = "markPending" /\ w = job[c].id
    <3>1. rows[w].owner = c /\ Earned(w)
      BY <1>1, <2>3 DEF Owned, OwnedOK, EarnedOK, Silent
    <3>2. QED
      BY <1>1, <1>3, <2>1, <2>3, <3>1, QuietEarned
  <2>4. CASE ~ StepOf(c)
    <3>1. Stands(c)
      BY <2>4, OthersStand, WorldStands
    <3>2. QED
      BY <1>7, <2>2, <3>1 DEF Stands
  <2>5. QED
    BY <1>7, <2>2, <2>3, <2>4, PendingOne
<1>8. QED
  BY <1>4, <1>5, <1>6, <1>7 DEF EarnedOK

LEMMA CompletedStep ==
  ASSUME IInv, Memories, Owned, Earnings, [Next]_vars, NEW w \in Wakeups,
         rows'[w].completedAt
  PROVE  rows'[w].owner # NoBridge /\ Earned(w)'
<1> USE DEF IInv
<1>1. ASSUME rows[w].owner # NoBridge, Earned(w), Quiet(w)
      PROVE  rows'[w].owner # NoBridge /\ Earned(w)'
  BY <1>1, OwnersStay, QuietEarned
<1>2. CASE rows[w].completedAt
  <2>1. Quiet(w)
    BY <1>2 DEF Quiet, QueueInv, RowsOK, RowOK
  <2>2. QED
    BY <1>1, <1>2, <2>1 DEF Earnings
<1>3. CASE ~ rows[w].completedAt
  <2>1. PICK b \in Bridges : (Complete(b) \/ CompleteAgain(b)) /\ job[b].id = w
    BY <1>3, CompletedBy
  <2>2. MemoryOK(b) /\ EarnedOK(b) /\ OwnedOK(b) /\ b # NoBridge
    BY NoBridgeAssumption DEF Memories, Earnings, Owned
  <2>3. /\ pc[b] \notin {"dispatch", "running"}
        /\ pc[b] = "complete" \/ w \in mem[b].pending
    BY <2>1, <2>2 DEF Complete, CompleteAgain, MemoryOK
  <2>4. rows[w].owner = b /\ Earned(w)
    BY <2>1, <2>2, <2>3 DEF OwnedOK, EarnedOK, Silent
  <2>5. QED
    BY <1>1, <2>2, <2>3, <2>4 DEF Quiet
<1>4. QED
  BY <1>2, <1>3

LEMMA EarningsInit == Init => Owned /\ Earnings
<1> SUFFICES ASSUME Init PROVE Owned /\ Earnings
  OBVIOUS
<1>1. Posted = {}
  <2>1. reply = [w \in Wakeups |-> NoText] /\ direct = {}
    BY DEF Init
  <2>2. \A m \in Message : m[2] \in Wakeups
    BY DEF Message
  <2>3. QED
    BY <2>1, <2>2 DEF Posted
<1>2. Owned
  BY <1>1 DEF Init, Owned, OwnedOK, Silent
<1>3. Earnings
  BY DEF Init, QueueInit, NewRow, Earnings, RunOK, EarnedOK, Silent
<1>4. QED
  BY <1>2, <1>3

LEMMA EarningsStep ==
  IInv /\ Memories /\ Owned /\ Earnings /\ [Next]_vars => Earnings'
<1> SUFFICES ASSUME IInv, Memories, Owned, Earnings, [Next]_vars PROVE Earnings'
  OBVIOUS
<1>1. ASSUME NEW c \in Bridges PROVE RunOK(c)'
  BY RunStep DEF Earnings, RunOK
<1>2. QED
  BY <1>1, EarnedStep, CompletedStep DEF Earnings

(* In every reachable state, for any number of wakeups and instances: what *)
(* an instance works on after its claim is its own; every message that is  *)
(* in the thread since a run began is of that wakeup or of another         *)
(* instance's; and what is remembered or completed has been earned.        *)
THEOREM EarningsHold == Spec => [](Memories /\ Owned /\ Earnings)
  BY MemoriesInit, EarningsInit, MemoriesStep, OwnedStep, EarningsStep, BridgeInvariant,
     PTL
  DEF Spec

(* A wakeup that was ever completed was run to its end and, if that run    *)
(* returned a text, is answered, for any number of wakeups in the thread   *)
(* and of instances that serve the agent.                                  *)
THEOREM CompletedAnswered == Spec => []CompletedIsAnswered
<1>1. Earnings => CompletedIsAnswered
  BY DEF Earnings, CompletedIsAnswered
<1>2. QED
  BY <1>1, EarningsHold, PTL

(* What an instance remembers as handled is its own and was answered or    *)
(* given up, for any number of wakeups and instances, whatever calls and   *)
(* writes fail and whenever it crashes.                                    *)
THEOREM MarksEarned == Spec => []MarksAreEarned
<1>1. Memories /\ Earnings => MarksAreEarned
  BY DEF Memories, MemoryOK, Earnings, EarnedOK, MarksAreEarned, PendingIsHandled,
         HandledIsAnswered
<1>2. QED
  BY <1>1, EarningsHold, PTL

=============================================================================
