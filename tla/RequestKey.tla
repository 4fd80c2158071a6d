------------------------------ MODULE RequestKey ------------------------------
(***************************************************************************)
(* What POST /events promises the requests that share a request key, with  *)
(* no database steps in sight: an event is stored under an id for good;    *)
(* the first body to be accepted wins the key, for good; a request is      *)
(* answered once, with the event of its id when its body is the winner,    *)
(* with a mismatch when another body has won, without regard to its body   *)
(* when the event could not be loaded, or its answer is lost.              *)
(*                                                                         *)
(* The event need not be that of the winner: the request that stored it    *)
(* may have been cut short before it was accepted.  The winner is          *)
(* remembered with its type trimmed, and a later body is compared as it    *)
(* comes.                                                                  *)
(***************************************************************************)
CONSTANTS Requests, Bodies, NoBody, Ids, IdOf, Trimmed

VARIABLES
  stored,  \* id -> body of the event stored under it
  winner,  \* body that was accepted
  given    \* request -> its answer

keyVars == <<stored, winner, given>>

Answer(code, x, e) == [code |-> code, body |-> x, event |-> e]

Unanswered(r) == given[r].code = "none"

KeyInit ==
  /\ stored \in [Ids -> Bodies \cup {NoBody}]
  /\ winner = NoBody
  /\ given = [r \in Requests |-> Answer("none", NoBody, NoBody)]

Store(x) ==
  /\ stored[IdOf[x]] = NoBody
  /\ stored' = [stored EXCEPT ![IdOf[x]] = x]
  /\ UNCHANGED <<winner, given>>

Accept(r, x) ==
  /\ Unanswered(r)
  /\ stored[IdOf[x]] # NoBody
  /\ winner \in {NoBody, Trimmed[x]}
  /\ winner' = Trimmed[x]
  /\ given' = [given EXCEPT ![r] = Answer("created", x, stored[IdOf[x]])]
  /\ UNCHANGED stored

Refuse(r, x) ==
  /\ Unanswered(r)
  /\ winner \notin {NoBody, x}
  /\ given' = [given EXCEPT ![r] = Answer("mismatch", x, NoBody)]
  /\ UNCHANGED <<stored, winner>>

Drop(r, x) ==
  /\ Unanswered(r)
  /\ \E code \in {"exists", "lost"} :
       given' = [given EXCEPT ![r] = Answer(code, x, NoBody)]
  /\ UNCHANGED <<stored, winner>>

KeyNext ==
  \E x \in Bodies : \/ Store(x)
                    \/ \E r \in Requests : Accept(r, x) \/ Refuse(r, x) \/ Drop(r, x)

KeySpec == KeyInit /\ [][KeyNext]_keyVars

=============================================================================
