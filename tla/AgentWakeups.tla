---------------------------- MODULE AgentWakeups ----------------------------
(***************************************************************************)
(* The durable queue of agent wakeups kept by anx-core: the table          *)
(* agent_wakeups (core/internal/primitives/agent_wakeups.go) behind the    *)
(* handlers of core/internal/server/agent_notifications_handlers.go.       *)
(*                                                                         *)
(* Every row has a delivery status, the bridge instance that claimed it    *)
(* and a notification status.  The operations are SQL statements guarded   *)
(* by their WHERE clause, so each is one atomic step, except the           *)
(* read/dismiss handler, which loads the row, checks it and then updates   *)
(* it without a transaction: a request that has passed its check and not   *)
(* yet written is an element of "checked".                                 *)
(*                                                                         *)
(* All rows belong to one agent (one target_actor_id): requests of other   *)
(* actors match no row.  Texts, refs and timestamps are left out, except   *)
(* whether completed_at and failed_at have been set.  Two identical        *)
(* requests in flight count once in "checked".                             *)
(***************************************************************************)
EXTENDS Naturals, FiniteSets

CONSTANTS
  Wakeups,    \* wakeup ids of one agent
  Bridges,    \* bridge instance ids of that agent
  NoBridge    \* the empty bridge_instance_id of an unclaimed row

ASSUME NoBridgeAssumption == NoBridge \notin Bridges

VARIABLES
  rows,       \* wakeup id -> row of agent_wakeups ("absent" before the insert)
  checked     \* read/dismiss requests between their check and their update

queueVars == <<rows, checked>>

DeliveryStatus == {"absent", "requested", "claimed", "completed", "failed"}
NotificationStatus == {"unread", "read", "dismissed"}

Row == [status       : DeliveryStatus,
        owner        : Bridges \cup {NoBridge},
        notification : NotificationStatus,
        completedAt  : BOOLEAN,
        failedAt     : BOOLEAN]

(* A request to mark notification w as read or as dismissed. *)
MarkRequest == Wakeups \X {"read", "dismissed"}

QueueTypeOK ==
  /\ rows \in [Wakeups -> Row]
  /\ checked \subseteq MarkRequest

NewRow(status) ==
  [status |-> status, owner |-> NoBridge, notification |-> "unread",
   completedAt |-> FALSE, failedAt |-> FALSE]

Exists(w) == rows[w].status # "absent"

(* What GET /agent-notifications?status=unread&status=read returns: the    *)
(* filter is on the notification status, never on the delivery status.     *)
Listed == {w \in Wakeups : Exists(w) /\ rows[w].notification # "dismissed"}

QueueInit ==
  /\ rows = [w \in Wakeups |-> NewRow("absent")]
  /\ checked = {}

-----------------------------------------------------------------------------
(* Row updates, one per SQL statement. *)

(* INSERT ... ON CONFLICT(wakeup_id) DO NOTHING *)
UpsertAgentWakeup(w) ==
  rows' = [rows EXCEPT ![w] = IF Exists(w) THEN @ ELSE NewRow("requested")]

(* Mutants of the claim's WHERE clause: any instance may take over a       *)
(* claimed row; the clause of complete and fail is used instead; an        *)
(* instance may not claim again what it has claimed.                       *)
CanClaim_AnyInstance(b, w) == rows[w].status \in {"requested", "claimed"}
CanClaim_AnyStatus(b, w) == Exists(w) /\ rows[w].owner \in {b, NoBridge}
CanClaim_NotAgain(b, w) == rows[w].status = "requested"

(* The WHERE clause of the claim. *)
CanClaim(b, w) ==
  \/ rows[w].status = "requested"
  \/ rows[w].status = "claimed" /\ rows[w].owner = b

ClaimAgentWakeup(b, w) ==
  /\ CanClaim(b, w)
  /\ rows' = [rows EXCEPT ![w] = [@ EXCEPT !.status = "claimed", !.owner = b]]

(* The WHERE clause of complete and fail: it tests the bridge instance and *)
(* not the status, and an unclaimed row matches every instance.            *)
CanSetStatus(b, w) ==
  /\ Exists(w)
  /\ rows[w].owner \in {b, NoBridge}

Settled(row, status) ==
  [row EXCEPT !.status = status,
              !.completedAt = @ \/ status = "completed",
              !.failedAt = @ \/ status = "failed"]

SetAgentWakeupStatus(b, w, status) ==
  /\ CanSetStatus(b, w)
  /\ rows' = [rows EXCEPT ![w] = Settled(@, status)]

CompleteAgentWakeup(b, w) == SetAgentWakeupStatus(b, w, "completed")
FailAgentWakeup(b, w) == SetAgentWakeupStatus(b, w, "failed")

(* The unconditional update of the read/dismiss handler. *)
MarkAgentWakeupNotification(w, status) ==
  rows' = [rows EXCEPT ![w] = [@ EXCEPT !.notification = status]]

-----------------------------------------------------------------------------
(* The read/dismiss handler, in its two steps. *)

(* The check made on the loaded row: a dismissed notification cannot be    *)
(* marked read, and a notification already in the target status is         *)
(* returned without an update.                                             *)
PassesMarkCheck(w, target) ==
  /\ Exists(w)
  /\ rows[w].notification # target
  /\ ~ (rows[w].notification = "dismissed" /\ target = "read")

CheckMark(w, target) ==
  /\ PassesMarkCheck(w, target)
  /\ checked' = checked \cup {<<w, target>>}
  /\ UNCHANGED rows

WriteMark(w, target) ==
  /\ <<w, target>> \in checked
  /\ MarkAgentWakeupNotification(w, target)
  /\ checked' = checked \ {<<w, target>>}

-----------------------------------------------------------------------------
(* The queue under arbitrary clients: bridges may call in any order.       *)

QueueNext ==
  \/ \E w \in Wakeups :
       \/ UpsertAgentWakeup(w) /\ UNCHANGED checked
       \/ \E b \in Bridges :
            /\ \/ ClaimAgentWakeup(b, w)
               \/ CompleteAgentWakeup(b, w)
               \/ FailAgentWakeup(b, w)
            /\ UNCHANGED checked
  \/ \E m \in MarkRequest : CheckMark(m[1], m[2]) \/ WriteMark(m[1], m[2])

QueueSpec == QueueInit /\ [][QueueNext]_queueVars

(* A row that names a bridge instance names it for good: whatever clients  *)
(* send, in whatever order, no claim, completion or failure report hands   *)
(* a wakeup over to another instance.                                      *)
OwnerStays ==
  [][\A w \in Wakeups :
       rows[w].owner # NoBridge => rows'[w].owner = rows[w].owner]_queueVars

(* A wakeup that some instance holds claimed is not settled yet, and one   *)
(* that is settled never starts again: no claim resurrects a row whose     *)
(* completion or failure has been recorded, whoever recorded it.           *)
SettledIsFinal ==
  \A w \in Wakeups :
    rows[w].completedAt \/ rows[w].failedAt => rows[w].status \in {"completed", "failed"}

=============================================================================
