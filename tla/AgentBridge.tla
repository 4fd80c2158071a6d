----------------------------- MODULE AgentBridge -----------------------------
(***************************************************************************)
(* The agent bridge: the process beside an agent that drains the agent's   *)
(* notifications, claims each wakeup, runs the agent through its adapter,  *)
(* posts the reply and reports the outcome                                 *)
(* (adapters/agent-bridge/anx_agent_bridge/bridge.py, state_store.py).     *)
(*                                                                         *)
(* Several bridge instances may serve the same agent.  Each instance is    *)
(* sequential; every call it makes to anx-core, every write of its state   *)
(* file and every adapter run is a step of its own, so instances, the      *)
(* agent, the person who reads or dismisses notifications and crashes      *)
(* interleave between them.  pc[b] names the next call of instance b       *)
(* inside _handle_notification.                                            *)
(*                                                                         *)
(* A call may go wrong before or after it took effect at the server, and a *)
(* write of the state file may fail before or after the rename: each such  *)
(* outcome costs one of MaxFaults.  A crash loses everything in memory and *)
(* costs one of MaxCrashes.  All wakeups share one thread: that is where   *)
(* the bridges can disturb each other.                                     *)
(*                                                                         *)
(* Left out: the check-in thread, prompts, the session map (its write is   *)
(* kept, because it flushes the whole state file), permanently malformed   *)
(* wake artifacts, and the 5000-entry limit of the handled set.            *)
(***************************************************************************)
EXTENDS AgentWakeups

CONSTANTS
  Texts,         \* final texts the adapter may return
  NoText,        \* no final text / no reply posted
  NoWakeup,      \* no notification under way
  FailureLimit,  \* WAKEUP_FAILURE_RETRY_LIMIT
  PostAttempts,  \* REPLY_POST_RETRY_ATTEMPTS
  MaxFaults,     \* bound on failed calls and writes
  MaxCrashes     \* bound on crashes

ASSUME BridgeConstants ==
  /\ NoText \notin Texts
  /\ "none" \notin Texts \cup {NoText}
  /\ NoWakeup \notin Wakeups
  /\ FailureLimit \in Nat \ {0}
  /\ PostAttempts \in Nat \ {0}
  /\ MaxFaults \in Nat
  /\ MaxCrashes \in Nat

VARIABLES
  mem,       \* JSONStateStore._data: handled and completion-pending ids
  disk,      \* the same two sets as last written to the state file
  noAck,     \* _completion_without_local_ack
  fails,     \* _failure_counts
  waiting,   \* wakeups whose _next_retry_at_monotonic is in the future
  batch,     \* what is left of the last listing, with the status it showed
  pc,        \* next call of the instance
  job,       \* locals of _handle_notification
  reply,     \* wakeup -> text of the bridge's message_posted event for it
  replay,    \* wakeup -> text whose answer is recorded under its request key
  direct,    \* wakeups during whose run the agent itself posted a message
  runners,   \* history: instances that ran the adapter for a wakeup
  runs,      \* history: number of adapter runs for a wakeup
  answer,    \* history: outcome of the latest adapter run of a wakeup
  before,    \* history: messages in the thread when that run began
  gaveUp,    \* history: wakeups an instance gave up since it last ran them
  faults,    \* failed calls and writes so far
  crashes    \* crashes so far

stateVars == <<mem, disk, noAck, fails, waiting>>
threadVars == <<reply, replay, direct>>
history == <<runners, runs, answer, before, gaveUp>>
vars == <<rows, checked, mem, disk, noAck, fails, waiting, batch, pc, job,
          reply, replay, direct, runners, runs, answer, before, gaveUp, faults,
          crashes>>

Steps == {"idle", "fetch", "claim", "dispatch", "running", "inspect", "post",
          "consume", "markPending", "complete", "clearPending",
          "consumeSilent", "failThenRead", "read",
          "recomplete", "reclear", "fail"}

(* A message_posted event of the agent's actor: a bridge reply, whose      *)
(* request key makes it unique per wakeup, or a direct post.               *)
Message == {"reply", "direct"} \X Wakeups

Posted == {m \in Message :
             \/ m[1] = "reply" /\ reply[m[2]] # NoText
             \/ m[1] = "direct" /\ m[2] \in direct}

State == [handled : SUBSET Wakeups, pending : SUBSET Wakeups]

Notification == [id : Wakeups, seen : {"unread", "read"}]

(* baselineKnown is FALSE when listing the agent's messages failed (None). *)
Job == [id            : Wakeups \cup {NoWakeup},
        seen          : {"unread", "read"},
        baselineKnown : BOOLEAN,
        baseline      : SUBSET Message,
        text          : Texts \cup {NoText},
        tries         : 0 .. PostAttempts,
        replied       : BOOLEAN,
        marked        : BOOLEAN]

NoJob == [id |-> NoWakeup, seen |-> "unread", baselineKnown |-> FALSE,
          baseline |-> {}, text |-> NoText, tries |-> 0,
          replied |-> FALSE, marked |-> FALSE]

(* Outcome of the latest adapter run of a wakeup: none yet, or the run     *)
(* failed; or its final text.                                              *)
Outcome == Texts \cup {NoText, "none"}

TypeOK ==
  /\ QueueTypeOK
  /\ mem \in [Bridges -> State]
  /\ disk \in [Bridges -> State]
  /\ noAck \in [Bridges -> SUBSET Wakeups]
  /\ fails \in [Bridges -> [Wakeups -> 0 .. FailureLimit]]
  /\ waiting \in [Bridges -> SUBSET Wakeups]
  /\ batch \in [Bridges -> SUBSET Notification]
  /\ pc \in [Bridges -> Steps]
  /\ job \in [Bridges -> Job]
  /\ reply \in [Wakeups -> Texts \cup {NoText}]
  /\ replay \in [Wakeups -> Texts \cup {NoText}]
  /\ direct \subseteq Wakeups
  /\ runners \in [Wakeups -> SUBSET Bridges]
  /\ runs \in [Wakeups -> Nat]
  /\ answer \in [Wakeups -> Outcome]
  /\ before \in [Wakeups -> SUBSET Message]
  /\ gaveUp \in [Bridges -> SUBSET Wakeups]
  /\ faults \in Nat
  /\ crashes \in Nat

Init ==
  /\ QueueInit
  /\ mem = [b \in Bridges |-> [handled |-> {}, pending |-> {}]]
  /\ disk = mem
  /\ noAck = [b \in Bridges |-> {}]
  /\ fails = [b \in Bridges |-> [w \in Wakeups |-> 0]]
  /\ waiting = [b \in Bridges |-> {}]
  /\ batch = [b \in Bridges |-> {}]
  /\ pc = [b \in Bridges |-> "idle"]
  /\ job = [b \in Bridges |-> NoJob]
  /\ reply = [w \in Wakeups |-> NoText]
  /\ replay = reply
  /\ direct = {}
  /\ runners = [w \in Wakeups |-> {}]
  /\ runs = [w \in Wakeups |-> 0]
  /\ answer = [w \in Wakeups |-> "none"]
  /\ before = [w \in Wakeups |-> {}]
  /\ gaveUp = [b \in Bridges |-> {}]
  /\ faults = 0
  /\ crashes = 0

-----------------------------------------------------------------------------
(* Building blocks. *)

Fault == faults < MaxFaults /\ faults' = faults + 1
NoFault == UNCHANGED faults

Goto(b, step) == pc' = [pc EXCEPT ![b] = step]

(* _handle_notification returns. *)
Return(b) == Goto(b, "idle") /\ job' = [job EXCEPT ![b] = NoJob]

(* JSONStateStore.set: memory first, then the file.  A failed flush leaves *)
(* memory changed; it may fail before or after the atomic rename.          *)
Persist(b, new) ==
  /\ mem' = [mem EXCEPT ![b] = new]
  /\ disk' = [disk EXCEPT ![b] = new]
  /\ NoFault

PersistFails(b, new) ==
  /\ mem' = [mem EXCEPT ![b] = new]
  /\ disk' \in {disk, [disk EXCEPT ![b] = new]}
  /\ Fault

WithHandled(b, w) == [mem[b] EXCEPT !.handled = @ \cup {w}]
WithPending(b, w) == [mem[b] EXCEPT !.pending = @ \cup {w}]
WithoutPending(b, w) == [mem[b] EXCEPT !.pending = @ \ {w}]

(* _record_wakeup_failure: count, schedule the retry, then report failed.  *)
RecordFailure(b) ==
  LET w == job[b].id IN
  /\ fails' = [fails EXCEPT ![b][w] = @ + 1]
  /\ waiting' = [waiting EXCEPT ![b] = @ \cup {w}]
  /\ Goto(b, "fail")

-----------------------------------------------------------------------------
(* The world around the bridges. *)

(* The router or a card assignment enqueues a wakeup. *)
Enqueue(w) ==
  /\ ~ Exists(w)
  /\ UpsertAgentWakeup(w)
  /\ UNCHANGED <<checked, stateVars, batch, pc, job, threadVars, history,
                 faults, crashes>>

(* A read or dismiss request of the agent's CLI passes its check. *)
AskMark(w, target) ==
  /\ CheckMark(w, target)
  /\ UNCHANGED <<stateVars, batch, pc, job, threadVars, history, faults, crashes>>

(* Its update, or that of a bridge's read acknowledgement, is executed. *)
FinishMark(w, target) ==
  /\ WriteMark(w, target)
  /\ UNCHANGED <<stateVars, batch, pc, job, threadVars, history, faults, crashes>>

(* Time passes: a scheduled retry becomes due. *)
RetryDue(b, w) ==
  /\ w \in waiting[b]
  /\ waiting' = [waiting EXCEPT ![b] = @ \ {w}]
  /\ UNCHANGED <<rows, checked, mem, disk, noAck, fails, batch, pc, job,
                 threadVars, history, faults, crashes>>

-----------------------------------------------------------------------------
(* _drain_notifications: list, then handle what was listed. *)

Drain(b) ==
  /\ pc[b] = "idle"
  /\ batch[b] = {}
  /\ batch' = [batch EXCEPT ![b] =
                 {[id |-> w, seen |-> rows[w].notification] : w \in Listed}]
  /\ UNCHANGED <<rows, checked, stateVars, pc, job, threadVars, history,
                 faults, crashes>>

(* The instance turns to notification n of the listing. *)
Take(b, n) ==
  /\ pc[b] = "idle"
  /\ n \in batch[b]
  /\ batch' = [batch EXCEPT ![b] = @ \ {n}]
  /\ UNCHANGED <<rows, checked, threadVars, crashes>>

Start(b, n, step) ==
  /\ Goto(b, step)
  /\ job' = [job EXCEPT ![b] = [NoJob EXCEPT !.id = n.id, !.seen = n.seen]]

(* Consumed earlier without a durable record: write the record again. *)
TakeUnacknowledged(b, n) ==
  /\ Take(b, n)
  /\ n.id \in noAck[b]
  /\ \/ /\ Persist(b, WithHandled(b, n.id))
        /\ noAck' = [noAck EXCEPT ![b] = @ \ {n.id}]
        /\ Start(b, n, "read")
     \/ /\ PersistFails(b, WithHandled(b, n.id))
        /\ UNCHANGED <<noAck, pc, job>>
  /\ UNCHANGED <<fails, waiting, history>>

(* Mutant: a pending completion is not retried. *)
TakeHandled_NoRetry(b, n) ==
  /\ Take(b, n)
  /\ n.id \notin noAck[b]
  /\ n.id \in mem[b].handled
  /\ IF n.seen # "read" THEN Start(b, n, "read") ELSE UNCHANGED <<pc, job>>
  /\ UNCHANGED <<stateVars, history, faults>>

(* Already handled: retry a pending completion, else acknowledge as read. *)
TakeHandled(b, n) ==
  /\ Take(b, n)
  /\ n.id \notin noAck[b]
  /\ n.id \in mem[b].handled
  /\ \/ n.id \in mem[b].pending /\ Start(b, n, "recomplete")
     \/ n.id \notin mem[b].pending /\ n.seen # "read" /\ Start(b, n, "read")
     \/ n.id \notin mem[b].pending /\ n.seen = "read" /\ UNCHANGED <<pc, job>>
  /\ UNCHANGED <<stateVars, history, faults>>

IsNew(b, w) == w \notin noAck[b] /\ w \notin mem[b].handled

(* Too many consecutive failures: consume without running the agent. *)
TakeGivenUp(b, n) ==
  /\ Take(b, n)
  /\ IsNew(b, n.id)
  /\ fails[b][n.id] >= FailureLimit
  /\ Persist(b, WithHandled(b, n.id)) \/ PersistFails(b, WithHandled(b, n.id))
  /\ Start(b, n, "read")
  /\ gaveUp' = [gaveUp EXCEPT ![b] = @ \cup {n.id}]
  /\ UNCHANGED <<noAck, fails, waiting, runners, runs, answer, before>>

TakeBackedOff(b, n) ==
  /\ Take(b, n)
  /\ IsNew(b, n.id)
  /\ fails[b][n.id] \in 1 .. FailureLimit - 1
  /\ n.id \in waiting[b]
  /\ UNCHANGED <<stateVars, pc, job, history, faults>>

TakeFresh(b, n) ==
  /\ Take(b, n)
  /\ IsNew(b, n.id)
  /\ fails[b][n.id] < FailureLimit
  /\ fails[b][n.id] > 0 => n.id \notin waiting[b]
  /\ Start(b, n, "fetch")
  /\ UNCHANGED <<stateVars, history, faults>>

-----------------------------------------------------------------------------
(* Before the adapter runs. *)

(* get_artifact_content and WakePacket.from_content *)
FetchPacket(b) ==
  /\ pc[b] = "fetch"
  /\ \/ Goto(b, "claim") /\ NoFault /\ UNCHANGED <<fails, waiting>>
     \/ RecordFailure(b) /\ Fault
  /\ UNCHANGED <<rows, checked, mem, disk, noAck, batch, job, threadVars,
                 history, crashes>>

(* Mutant: a refused claim (409) does not stop the bridge. *)
ClaimWakeup_IgnoresConflict(b) ==
  LET w == job[b].id IN
  /\ pc[b] = "claim"
  /\ ClaimAgentWakeup(b, w) \/ (~ CanClaim(b, w) /\ UNCHANGED rows)
  /\ Goto(b, "dispatch") /\ NoFault
  /\ UNCHANGED <<fails, waiting, job>>
  /\ UNCHANGED <<checked, mem, disk, noAck, batch, threadVars, history, crashes>>

(* _claim_wakeup: claimed; refused with 409 and skipped; or an error,      *)
(* raised before or after the claim was applied.                           *)
ClaimWakeup(b) ==
  LET w == job[b].id IN
  /\ pc[b] = "claim"
  /\ \/ /\ ClaimAgentWakeup(b, w)
        /\ Goto(b, "dispatch") /\ NoFault
        /\ UNCHANGED <<fails, waiting, job>>
     \/ /\ ~ CanClaim(b, w)
        /\ Return(b) /\ NoFault
        /\ UNCHANGED <<rows, fails, waiting>>
     \/ /\ UNCHANGED rows \/ ClaimAgentWakeup(b, w)
        /\ RecordFailure(b) /\ Fault
        /\ UNCHANGED job
  /\ UNCHANGED <<checked, mem, disk, noAck, batch, threadVars, history, crashes>>

(* The agent's messages are listed (a failure is remembered as None), then *)
(* the adapter starts.                                                     *)
Dispatch(b) ==
  LET w == job[b].id IN
  /\ pc[b] = "dispatch"
  /\ \/ /\ NoFault
        /\ job' = [job EXCEPT ![b] =
                     [@ EXCEPT !.baselineKnown = TRUE, !.baseline = Posted]]
     \/ Fault /\ job' = [job EXCEPT ![b] = [@ EXCEPT !.baselineKnown = FALSE]]
  /\ Goto(b, "running")
  /\ runners' = [runners EXCEPT ![w] = @ \cup {b}]
  /\ runs' = [runs EXCEPT ![w] = @ + 1]
  /\ answer' = [answer EXCEPT ![w] = "none"]
  /\ before' = [before EXCEPT ![w] = Posted]
  /\ gaveUp' = [gaveUp EXCEPT ![b] = @ \ {w}]
  /\ UNCHANGED <<rows, checked, stateVars, batch, threadVars, crashes>>

(* The agent posts a message in the thread while it runs. *)
AgentPosts(b) ==
  LET w == job[b].id IN
  /\ pc[b] = "running"
  /\ w \notin direct
  /\ direct' = direct \cup {w}
  /\ UNCHANGED <<rows, checked, stateVars, batch, pc, job, reply, replay,
                 history, faults, crashes>>

(* The adapter returns: the failure count is dropped, and set_session, if  *)
(* there is a session id, writes the state file (its failure is ignored).  *)
AdapterReturns(b, text) ==
  LET w == job[b].id IN
  /\ pc[b] = "running"
  /\ answer' = [answer EXCEPT ![w] = text]
  /\ fails' = [fails EXCEPT ![b][w] = 0]
  /\ waiting' = [waiting EXCEPT ![b] = @ \ {w}]
  /\ disk' \in {disk, [disk EXCEPT ![b] = mem[b]]}
  /\ job' = [job EXCEPT ![b].text = text]
  /\ Goto(b, "inspect")
  /\ UNCHANGED <<rows, checked, mem, noAck, batch, threadVars, runners, runs,
                 before, gaveUp, faults, crashes>>

AdapterFails(b) ==
  /\ pc[b] = "running"
  /\ RecordFailure(b)
  /\ Fault
  /\ UNCHANGED <<rows, checked, mem, disk, noAck, batch, job, threadVars,
                 history, crashes>>

-----------------------------------------------------------------------------
(* After a successful run. *)

(* Mutant: a failed listing counts as "the agent has posted". *)
Inspect_FailureSuppresses(b) ==
  LET postedSince == ~ job[b].baselineKnown \/ Posted \ job[b].baseline # {} IN
  /\ pc[b] = "inspect"
  /\ NoFault
  /\ job' = [job EXCEPT ![b].replied = postedSince]
  /\ Goto(b, CASE postedSince               -> "consume"
               [] job[b].text = NoText       -> "complete"
               [] OTHER                      -> "post")
  /\ UNCHANGED <<rows, checked, stateVars, batch, threadVars, history, crashes>>

(* _agent_posted_message_since: any new message of this actor in the       *)
(* thread suppresses the fallback reply.  A failed listing counts as no.   *)
Inspect(b) ==
  LET j == job[b]
      postedSince == j.baselineKnown /\ Posted \ j.baseline # {}
      fallback == IF j.text # NoText THEN "post" ELSE "complete"
  IN
  /\ pc[b] = "inspect"
  /\ \/ /\ postedSince /\ NoFault
        /\ job' = [job EXCEPT ![b].replied = TRUE]
        /\ Goto(b, "consume")
     \/ ~ postedSince /\ NoFault /\ Goto(b, fallback) /\ UNCHANGED job
     \/ j.baselineKnown /\ Fault /\ Goto(b, fallback) /\ UNCHANGED job
  /\ UNCHANGED <<rows, checked, stateVars, batch, threadVars, history, crashes>>

(* Mutant: no request key, so the event of an earlier post is replaced. *)
AppendReply_NoKey(w, text) == reply' = [reply EXCEPT ![w] = text]

(* What POST /events does with the wakeup's request key: the event id      *)
(* derives from the key, so an event is appended only once.                *)
AppendReply(w, text) ==
  reply' = [reply EXCEPT ![w] = IF @ = NoText THEN text ELSE @]

(* The answer recorded under the key belongs to one body: another body is  *)
(* refused (409).  Until an answer is recorded any body is accepted, and   *)
(* answered with the event that is there.                                  *)
KeyAccepts(w, text) == replay[w] \in {NoText, text}

(* Mutant: the last failed attempt is swallowed. *)
PostAgainOrGiveUp_Swallows(b) ==
  IF job[b].tries + 1 < PostAttempts
  THEN job' = [job EXCEPT ![b].tries = @ + 1] /\ UNCHANGED pc
  ELSE Goto(b, "complete") /\ UNCHANGED job

PostAgainOrGiveUp(b) ==
  IF job[b].tries + 1 < PostAttempts
  THEN job' = [job EXCEPT ![b].tries = @ + 1] /\ UNCHANGED pc
  ELSE Goto(b, "failThenRead") /\ UNCHANGED job

(* Posted; refused; or failed in transit, before the event was appended,   *)
(* between the event and the recorded answer, or after both.               *)
PostReply(b) ==
  LET w == job[b].id
      text == job[b].text
      Recorded == replay' = [replay EXCEPT ![w] = text]
  IN
  /\ pc[b] = "post"
  /\ \/ /\ KeyAccepts(w, text) /\ NoFault
        /\ AppendReply(w, text) /\ Recorded
        /\ job' = [job EXCEPT ![b].replied = TRUE]
        /\ Goto(b, "consume")
     \/ /\ ~ KeyAccepts(w, text) /\ NoFault
        /\ UNCHANGED <<reply, replay>>
        /\ PostAgainOrGiveUp(b)
     \/ /\ Fault
        /\ \/ UNCHANGED <<reply, replay>>
           \/ KeyAccepts(w, text) /\ AppendReply(w, text) /\ (UNCHANGED replay \/ Recorded)
        /\ PostAgainOrGiveUp(b)
  /\ UNCHANGED <<rows, checked, stateVars, batch, direct, history, crashes>>

(* _mark_wakeup_consumed, in the two places where it is called. *)
ConsumeThen(b, next) ==
  LET w == job[b].id IN
  /\ \/ /\ Persist(b, WithHandled(b, w))
        /\ job' = [job EXCEPT ![b].marked = TRUE]
        /\ Goto(b, next)
        /\ UNCHANGED noAck
     \/ /\ PersistFails(b, WithHandled(b, w))
        /\ noAck' = [noAck EXCEPT ![b] = @ \cup {w}]
        /\ Goto(b, IF next = "markPending" THEN "complete" ELSE next)
        /\ UNCHANGED job
  /\ UNCHANGED <<rows, checked, fails, waiting, batch, threadVars, history, crashes>>

Consume(b) == pc[b] = "consume" /\ ConsumeThen(b, "markPending")
ConsumeSilent(b) == pc[b] = "consumeSilent" /\ ConsumeThen(b, "read")

MarkPending(b) ==
  LET new == WithPending(b, job[b].id) IN
  /\ pc[b] = "markPending"
  /\ \/ Persist(b, new) /\ Goto(b, "complete")
     \/ PersistFails(b, new) /\ Goto(b, "failThenRead")
  /\ UNCHANGED <<rows, checked, noAck, fails, waiting, batch, job, threadVars,
                 history, crashes>>

AfterComplete(j) ==
  CASE j.marked    -> "clearPending"
    [] ~ j.replied -> "consumeSilent"
    [] OTHER       -> "read"

(* complete_agent_wakeup: done; or refused, or failed in transit. *)
Complete(b) ==
  LET w == job[b].id IN
  /\ pc[b] = "complete"
  /\ \/ /\ CompleteAgentWakeup(b, w)
        /\ Goto(b, AfterComplete(job[b])) /\ NoFault
     \/ /\ UNCHANGED rows \/ CompleteAgentWakeup(b, w)
        /\ Goto(b, "failThenRead")
        /\ IF CanSetStatus(b, w) THEN Fault ELSE NoFault
  /\ UNCHANGED <<checked, stateVars, batch, job, threadVars, history, crashes>>

ClearPending(b) ==
  LET new == WithoutPending(b, job[b].id) IN
  /\ pc[b] = "clearPending"
  /\ \/ Persist(b, new) /\ Goto(b, "read")
     \/ PersistFails(b, new) /\ Goto(b, "failThenRead")
  /\ UNCHANGED <<rows, checked, noAck, fails, waiting, batch, job, threadVars,
                 history, crashes>>

-----------------------------------------------------------------------------
(* Completion retry of an already handled wakeup. *)

CompleteAgain(b) ==
  LET w == job[b].id IN
  /\ pc[b] = "recomplete"
  /\ \/ CompleteAgentWakeup(b, w) /\ Goto(b, "reclear") /\ NoFault
     \/ /\ UNCHANGED rows \/ CompleteAgentWakeup(b, w)
        /\ Goto(b, "fail")
        /\ IF CanSetStatus(b, w) THEN Fault ELSE NoFault
  /\ UNCHANGED <<checked, stateVars, batch, job, threadVars, history, crashes>>

ClearPendingAgain(b) ==
  LET new == WithoutPending(b, job[b].id) IN
  /\ pc[b] = "reclear"
  /\ \/ /\ Persist(b, new)
        /\ IF job[b].seen = "read" THEN Return(b)
           ELSE Goto(b, "read") /\ UNCHANGED job
     \/ PersistFails(b, new) /\ Goto(b, "fail") /\ UNCHANGED job
  /\ UNCHANGED <<rows, checked, noAck, fails, waiting, batch, threadVars,
                 history, crashes>>

-----------------------------------------------------------------------------
(* Reporting a failure, and the read acknowledgement. *)

(* fail_agent_wakeup, best effort: applied, refused (the row belongs to    *)
(* another instance), or failed in transit.                                *)
ReportFailure(b, w) ==
  \/ FailAgentWakeup(b, w) /\ NoFault
  \/ ~ CanSetStatus(b, w) /\ UNCHANGED rows /\ NoFault
  \/ UNCHANGED rows /\ Fault

FailAndReturn(b) ==
  /\ pc[b] = "fail"
  /\ ReportFailure(b, job[b].id)
  /\ Return(b)
  /\ UNCHANGED <<checked, stateVars, batch, threadVars, history, crashes>>

FailThenRead(b) ==
  /\ pc[b] = "failThenRead"
  /\ ReportFailure(b, job[b].id)
  /\ Goto(b, "read")
  /\ UNCHANGED <<checked, stateVars, batch, job, threadVars, history, crashes>>

(* _mark_notification_read: the request reaches the handler's check, which *)
(* lets it pass or not, or every attempt fails; the bridge goes on.        *)
AckRead(b) ==
  LET w == job[b].id IN
  /\ pc[b] = "read"
  /\ \/ CheckMark(w, "read") /\ NoFault
     \/ ~ PassesMarkCheck(w, "read") /\ UNCHANGED queueVars /\ NoFault
     \/ UNCHANGED queueVars /\ Fault
  /\ Return(b)
  /\ UNCHANGED <<stateVars, batch, threadVars, history, crashes>>

-----------------------------------------------------------------------------
(* The process dies and starts again with what the state file holds. *)
Crash(b) ==
  /\ crashes < MaxCrashes
  /\ crashes' = crashes + 1
  /\ mem' = [mem EXCEPT ![b] = disk[b]]
  /\ noAck' = [noAck EXCEPT ![b] = {}]
  /\ fails' = [fails EXCEPT ![b] = [w \in Wakeups |-> 0]]
  /\ waiting' = [waiting EXCEPT ![b] = {}]
  /\ batch' = [batch EXCEPT ![b] = {}]
  /\ Return(b)
  /\ UNCHANGED <<rows, checked, disk, threadVars, history, faults>>

BridgeStep(b) ==
  \/ Drain(b)
  \/ \E n \in Notification : \/ TakeUnacknowledged(b, n)
                             \/ TakeHandled(b, n)
                             \/ TakeGivenUp(b, n)
                             \/ TakeBackedOff(b, n)
                             \/ TakeFresh(b, n)
  \/ FetchPacket(b)
  \/ ClaimWakeup(b)
  \/ Dispatch(b)
  \/ \E text \in Texts \cup {NoText} : AdapterReturns(b, text)
  \/ AdapterFails(b)
  \/ Inspect(b)
  \/ PostReply(b)
  \/ Consume(b)
  \/ ConsumeSilent(b)
  \/ MarkPending(b)
  \/ Complete(b)
  \/ ClearPending(b)
  \/ CompleteAgain(b)
  \/ ClearPendingAgain(b)
  \/ FailAndReturn(b)
  \/ FailThenRead(b)
  \/ AckRead(b)

Next ==
  \/ \E w \in Wakeups : Enqueue(w)
  \/ \E m \in MarkRequest : AskMark(m[1], m[2]) \/ FinishMark(m[1], m[2])
  \/ \E b \in Bridges : \/ BridgeStep(b)
                        \/ AgentPosts(b)
                        \/ Crash(b)
                        \/ \E w \in Wakeups : RetryDue(b, w)

Spec == Init /\ [][Next]_vars

(* A bridge loops for ever, accepted requests are executed and time        *)
(* passes; nobody has to post, dismiss or enqueue anything, and faults and *)
(* crashes are finitely many.                                              *)
Fairness ==
  /\ \A b \in Bridges : WF_vars(BridgeStep(b))
  /\ \A b \in Bridges, w \in Wakeups : WF_vars(RetryDue(b, w))
  /\ \A m \in MarkRequest : WF_vars(FinishMark(m[1], m[2]))

FairSpec == Spec /\ Fairness

-----------------------------------------------------------------------------
(* Safety. *)

(* At most one bridge instance ever runs the agent for a wakeup, and it is *)
(* the one the row names: two instances of one agent that list the same    *)
(* notification never both dispatch it, whatever calls get lost.           *)
OwnerRuns == \A w \in Wakeups : runners[w] \subseteq {rows[w].owner}

(* A run starts only while the row is claimed: never once it has been      *)
(* completed or failed.                                                    *)
RunsOnlyWhileClaimed ==
  [][\A w \in Wakeups : runs'[w] # runs[w] => rows[w].status = "claimed"]_vars

(* Each further run of the agent for the same wakeup is paid for by a      *)
(* crash or a failed call: the listing keeps showing a read notification,  *)
(* and still nothing but a crash or a lost report makes it run again.      *)
RedispatchTakesAFault ==
  \A w \in Wakeups : runs[w] <= 1 + crashes + faults

(* The completion of a wakeup is retried only if it is also recorded as    *)
(* handled, in memory and in the file a restart reads: otherwise the       *)
(* restarted bridge would run the agent again instead.                     *)
PendingIsHandled ==
  \A b \in Bridges : /\ mem[b].pending \subseteq mem[b].handled
                     /\ disk[b].pending \subseteq disk[b].handled

(* The thread answers wakeup w: the bridge's reply for it (perhaps with    *)
(* the text of an earlier run), or a message since its latest run began,   *)
(* posted by the agent in that run, or in the run of a wakeup that belongs *)
(* to another instance: from the thread the bridge cannot tell the two.    *)
Answered(w) ==
  \/ reply[w] # NoText
  \/ \E m \in Posted \ before[w] : m[2] = w \/ rows[m[2]].owner # rows[w].owner

(* The latest run of wakeup w has ended, and if it returned a text the     *)
(* thread answers the wakeup.                                              *)
Earned(w) == answer[w] # "none" /\ (answer[w] \in Texts => Answered(w))

(* A wakeup that was ever completed was run to its end, and if that run    *)
(* returned a text, the thread holds an answer that is its own, or that of *)
(* another instance of the agent which spoke during the run.               *)
CompletedIsAnswered == \A w \in Wakeups : rows[w].completedAt => Earned(w)

(* A bridge remembers as handled, unless it has given it up, only a wakeup *)
(* that is its own and was run to its end, with an answer in the thread if *)
(* the run returned a text.                                                *)
HandledIsAnswered ==
  \A b \in Bridges : \A w \in mem[b].handled \ gaveUp[b] :
    rows[w].owner = b /\ Earned(w)

(* What a bridge remembers is earned, whatever writes of the state file    *)
(* fail and whenever it dies: a pending completion is of a handled wakeup, *)
(* and a handled wakeup is its own and answered or given up.               *)
MarksAreEarned == PendingIsHandled /\ HandledIsAnswered

(* The bridges and the queue keep the promise of WakeDelivery: one owner   *)
(* for good, runs by the owner only, one reply, never replaced.            *)
Delivery == INSTANCE WakeDelivery
              WITH owner <- [w \in Wakeups |-> rows[w].owner]

ImplementsDelivery == Delivery!DeliverySpec

-----------------------------------------------------------------------------
(* Liveness. *)

Dismissed(w) == rows[w].notification = "dismissed"

(* Every wakeup is completed or failed, unless it is dismissed first; or   *)
(* else a bridge remembers it as handled, with no completion pending, and  *)
(* this takes a crash (between the two marks) or three failed calls or     *)
(* writes.  Such a row stays claimed for good: whoever lists it again does *)
(* nothing.  No smaller number of lost calls and writes leaves one so.     *)
WakeupSettles ==
  \A w \in Wakeups :
    Exists(w) ~> \/ rows[w].status \in {"completed", "failed"}
                \/ Dismissed(w)
                \/ /\ crashes > 0 \/ faults >= 3
                   /\ \E b \in Bridges : w \in mem[b].handled \ mem[b].pending

(* A completion left pending, in memory and on disk, is retried until the  *)
(* row says completed, unless the notification is dismissed, which hides   *)
(* it from the bridge: the failed status reported in between is corrected. *)
PendingCompletes ==
  \A b \in Bridges, w \in Wakeups :
    w \in mem[b].pending \cap disk[b].pending
      ~> rows[w].status = "completed" \/ Dismissed(w)

-----------------------------------------------------------------------------
(* What the repository says of the bridge and the code does not do. *)

(* After a first failed attempt the bridge makes another attempt (and so   *)
(* the count grows or is cleared), or the wakeup is dismissed meanwhile.   *)
FailedAttemptIsRetried ==
  \A b \in Bridges, w \in Wakeups :
    fails[b][w] = 1 ~> fails[b][w] # 1 \/ Dismissed(w)

=============================================================================
