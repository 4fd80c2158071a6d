---------------------------- MODULE WakeDelivery ----------------------------
(***************************************************************************)
(* What the wakeup queue and the agent bridges promise together, with no   *)
(* queue rows, files, retries or crashes in sight: a wakeup is owned by at *)
(* most one bridge instance, for good; only its owner ever runs the agent  *)
(* for it; and it receives at most one bridge reply, after a run, which is *)
(* never replaced.  The agent may be run more than once.                   *)
(***************************************************************************)
CONSTANTS Wakeups, Bridges, Texts, NoBridge, NoText

VARIABLES
  owner,      \* wakeup -> the bridge instance it belongs to
  runners,    \* wakeup -> bridge instances that ran the agent for it
  reply       \* wakeup -> text of the reply posted for it

deliveryVars == <<owner, runners, reply>>

DeliveryInit ==
  /\ owner = [w \in Wakeups |-> NoBridge]
  /\ runners = [w \in Wakeups |-> {}]
  /\ reply = [w \in Wakeups |-> NoText]

Acquire(w, b) ==
  /\ owner[w] = NoBridge
  /\ owner' = [owner EXCEPT ![w] = b]
  /\ UNCHANGED <<runners, reply>>

RunAgent(w, b) ==
  /\ owner[w] = b
  /\ runners' = [runners EXCEPT ![w] = @ \cup {b}]
  /\ UNCHANGED <<owner, reply>>

Answer(w, text) ==
  /\ runners[w] # {}
  /\ reply[w] = NoText
  /\ reply' = [reply EXCEPT ![w] = text]
  /\ UNCHANGED <<owner, runners>>

DeliveryNext ==
  \E w \in Wakeups :
    \/ \E b \in Bridges : Acquire(w, b) \/ RunAgent(w, b)
    \/ \E text \in Texts : Answer(w, text)

DeliverySpec == DeliveryInit /\ [][DeliveryNext]_deliveryVars

=============================================================================
