------------------------------- MODULE Admission -------------------------------
(***************************************************************************)
(* What onboarding promises, with no requests, sessions or clocks in       *)
(* sight: tickets are issued by members, a ticket admits one member that   *)
(* came to the door before it expired, and is spent by it, a void or spent *)
(* ticket admits nobody, and a member who has left never comes back.       *)
(***************************************************************************)
CONSTANTS Tickets, Members, FirstTicket, NoTicket

VARIABLES
  ticket,   \* ticket -> "unissued", "open", "expired", "spent" or "void"
  member,   \* member -> "out", "in" or "left"
  door      \* member -> the ticket with which it waits at the door, or NoTicket

admissionVars == <<ticket, member, door>>

AdmissionInit ==
  /\ ticket = [t \in Tickets |-> IF t = FirstTicket THEN "open" ELSE "unissued"]
  /\ member = [m \in Members |-> "out"]
  /\ door = [m \in Members |-> NoTicket]

(* The issuer may leave while the ticket is being written. *)
Issue(t) ==
  /\ ticket[t] = "unissued"
  /\ \E m \in Members : member[m] # "out"
  /\ ticket' = [ticket EXCEPT ![t] = "open"]
  /\ UNCHANGED <<member, door>>

(* A ticket that has expired does not let anyone wait. *)
Knock(t, m) ==
  /\ ticket[t] \notin {"unissued", "expired"}
  /\ member[m] = "out"
  /\ door' = [door EXCEPT ![m] = t]
  /\ UNCHANGED <<ticket, member>>

(* Who waits may be let in after the ticket expired. *)
Admit(t, m) ==
  /\ door[m] = t
  /\ ticket[t] \in {"open", "expired"}
  /\ member[m] = "out"
  /\ ticket' = [ticket EXCEPT ![t] = "spent"]
  /\ member' = [member EXCEPT ![m] = "in"]
  /\ door' = [door EXCEPT ![m] = NoTicket]

GoAway(M) ==
  /\ UNCHANGED <<ticket, member>>
  /\ door' = [m \in Members |-> IF m \in M THEN NoTicket ELSE door[m]]

Expire(T) ==
  /\ UNCHANGED <<member, door>>
  /\ \A t \in T : ticket[t] = "open"
  /\ ticket' = [t \in Tickets |-> IF t \in T THEN "expired" ELSE ticket[t]]

Void(t) ==
  /\ ticket[t] \in {"open", "expired"}
  /\ ticket' = [ticket EXCEPT ![t] = "void"]
  /\ UNCHANGED <<member, door>>

Leave(m) ==
  /\ member[m] = "in"
  /\ member' = [member EXCEPT ![m] = "left"]
  /\ UNCHANGED <<ticket, door>>

AdmissionNext ==
  \/ \E T \in SUBSET Tickets : Expire(T)
  \/ \E M \in SUBSET Members : GoAway(M)
  \/ \E t \in Tickets :
       \/ Issue(t) \/ Void(t)
       \/ \E m \in Members : Knock(t, m) \/ Admit(t, m)
  \/ \E m \in Members : Leave(m)

AdmissionSpec == AdmissionInit /\ [][AdmissionNext]_admissionVars

=============================================================================
