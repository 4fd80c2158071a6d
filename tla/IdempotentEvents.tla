--------------------------- MODULE IdempotentEvents ---------------------------
(***************************************************************************)
(* POST /events with a request_key: handleAppendEvent                      *)
(* (core/internal/server/primitives_handlers.go) with the idempotency      *)
(* records of core/internal/server/idempotency.go and                      *)
(* core/internal/primitives/idempotency_store.go.                          *)
(*                                                                         *)
(* One actor, one scope and one request key.  The handler reads the        *)
(* recorded answer, appends the event and records the answer in three      *)
(* separate database steps: requests with the key, equal or different in   *)
(* body, interleave between them, and each may be cut short between any    *)
(* two (the server stops, the client goes away, the database returns an    *)
(* error).                                                                 *)
(*                                                                         *)
(* A body is a valid one; it stands for its hash and for the event it      *)
(* describes.  The event id derives from the key unless the body gives     *)
(* one, so requests with the key may aim at different events, and an id    *)
(* may have been taken before.  The blanks around the type of an event     *)
(* are cut off in place between the two hashings of the body: what is      *)
(* recorded is the hash of the trimmed body.                               *)
(***************************************************************************)
CONSTANTS
  Requests,   \* requests sent with the key, retries included
  Bodies,     \* bodies they may carry
  NoBody,     \* no event, no record
  Ids,        \* event ids: the derived one and those that bodies give
  IdOf,       \* body -> id of its event
  Trimmed     \* body -> the body with its type trimmed

ASSUME NoBodyAssumption == NoBody \notin Bodies
ASSUME BodyAssumption ==
  /\ IdOf \in [Bodies -> Ids] /\ Trimmed \in [Bodies -> Bodies]
  /\ \A x \in Bodies : Trimmed[Trimmed[x]] = Trimmed[x] /\ IdOf[Trimmed[x]] = IdOf[x]

VARIABLES
  event,      \* id -> body of the event stored under it
  record,     \* row of idempotency_replays: hash of the body, event answered
  pc,         \* next database step of a request
  body,       \* its body
  found,      \* the event it will answer with
  answer      \* its answer

vars == <<event, record, pc, body, found, answer>>

NoRecord == [hash |-> NoBody, event |-> NoBody]

TypeOK ==
  /\ event \in [Ids -> Bodies \cup {NoBody}]
  /\ record \in [hash : Bodies, event : Bodies] \cup {NoRecord}
  /\ pc \in [Requests -> {"new", "read", "append", "load", "persist", "reread", "done"}]
  /\ body \in [Requests -> Bodies \cup {NoBody}]
  /\ found \in [Requests -> Bodies \cup {NoBody}]
  /\ answer \in [Requests -> {"none", "created", "mismatch", "exists", "lost"}]

(* Events of other requests may be there already, under their ids. *)
Init ==
  /\ event \in [Ids -> {Trimmed[x] : x \in Bodies} \cup {NoBody}]
  /\ \A i \in Ids : event[i] # NoBody => IdOf[event[i]] = i
  /\ record = NoRecord
  /\ pc = [r \in Requests |-> "new"]
  /\ body = [r \in Requests |-> NoBody]
  /\ found = [r \in Requests |-> NoBody]
  /\ answer = [r \in Requests |-> "none"]

-----------------------------------------------------------------------------
Goto(r, step) == pc' = [pc EXCEPT ![r] = step]

(* 201 with event x in the answer, and the three endings without one. *)
Created(r, x) ==
  /\ Goto(r, "done")
  /\ answer' = [answer EXCEPT ![r] = "created"]
  /\ found' = [found EXCEPT ![r] = x]

Refused(r, code) ==
  /\ Goto(r, "done")
  /\ answer' = [answer EXCEPT ![r] = code]
  /\ UNCHANGED found

(* Mutant: the hash of the body is not compared. *)
Replay_AnyBody(r, hash) == Created(r, record.event)

(* The recorded answer is replayed to its own body, and other bodies are   *)
(* refused with 409: "key reuse does not match the original request body". *)
Replay(r, hash) ==
  \/ record.hash = hash /\ Created(r, record.event)
  \/ record.hash # hash /\ Refused(r, "mismatch")

Send(r, x) ==
  /\ pc[r] = "new"
  /\ body' = [body EXCEPT ![r] = x]
  /\ Goto(r, "read")
  /\ UNCHANGED <<event, record, found, answer>>

(* readIdempotencyReplay, with the hash of the body as it came. *)
ReadReplay(r) ==
  /\ pc[r] = "read"
  /\ \/ record = NoRecord /\ Goto(r, "append") /\ UNCHANGED <<found, answer>>
     \/ record # NoRecord /\ Replay(r, body[r])
  /\ UNCHANGED <<event, record, body>>

(* AppendEvent: inserted, or a unique column is taken; this may also be    *)
(* the handle, which is picked before the insert.                          *)
AppendEvent(r) ==
  LET x == Trimmed[body[r]] IN
  /\ pc[r] = "append"
  /\ \/ /\ event[IdOf[x]] = NoBody
        /\ event' = [event EXCEPT ![IdOf[x]] = x]
        /\ found' = [found EXCEPT ![r] = x]
        /\ Goto(r, "persist")
     \/ Goto(r, "load") /\ UNCHANGED <<event, found>>
  /\ UNCHANGED <<record, body, answer>>

(* Mutant: the request answers with its own event instead of the stored.   *)
LoadExisting_Own(r) ==
  /\ pc[r] = "load"
  /\ found' = [found EXCEPT ![r] = Trimmed[body[r]]]
  /\ Goto(r, "persist")
  /\ UNCHANGED <<event, record, body, answer>>

(* GetEvent after the conflict.  If it fails or finds nothing the answer   *)
(* is 409 "event already exists", whatever the body.                       *)
LoadExisting(r) ==
  LET stored == event[IdOf[body[r]]] IN
  /\ pc[r] = "load"
  /\ \/ /\ stored # NoBody
        /\ found' = [found EXCEPT ![r] = stored]
        /\ Goto(r, "persist")
        /\ UNCHANGED answer
     \/ Refused(r, "exists")
  /\ UNCHANGED <<event, record, body>>

(* Mutant: a record that is already there is overwritten. *)
PersistReplay_Overwrites(r) ==
  /\ pc[r] = "persist"
  /\ record' = [hash |-> Trimmed[body[r]], event |-> found[r]]
  /\ Created(r, found[r])
  /\ UNCHANGED <<event, body>>

(* PutIdempotencyReplay, with the hash of the trimmed body: inserted, or   *)
(* another request has recorded first.                                     *)
PersistReplay(r) ==
  /\ pc[r] = "persist"
  /\ \/ /\ record = NoRecord
        /\ record' = [hash |-> Trimmed[body[r]], event |-> found[r]]
        /\ Created(r, found[r])
     \/ /\ record # NoRecord
        /\ Goto(r, "reread")
        /\ UNCHANGED <<record, found, answer>>
  /\ UNCHANGED <<event, body>>

(* GetIdempotencyReplay after that conflict, compared with the same hash.  *)
Reread(r) ==
  /\ pc[r] = "reread"
  /\ Replay(r, Trimmed[body[r]])
  /\ UNCHANGED <<event, record, body>>

(* The request ends without its next step: the process stops, the client   *)
(* is gone, or the database fails and the answer is 500.                   *)
Cut(r) ==
  /\ pc[r] \notin {"new", "done"}
  /\ Refused(r, "lost")
  /\ UNCHANGED <<event, record, body>>

Finished == \A r \in Requests : pc[r] = "done"

Next ==
  \/ \E r \in Requests :
       \/ \E x \in Bodies : Send(r, x)
       \/ ReadReplay(r)
       \/ AppendEvent(r)
       \/ LoadExisting(r)
       \/ PersistReplay(r)
       \/ Reread(r)
       \/ Cut(r)
  \/ Finished /\ UNCHANGED vars

Spec == Init /\ [][Next]_vars

-----------------------------------------------------------------------------
(* All requests answered 201 carried the same body, up to blanks around    *)
(* the type: however equal and different bodies race for the key, with the *)
(* event of one or of several ids, only one of them is ever accepted.      *)
OneBodyAccepted ==
  \A r, s \in Requests :
    answer[r] = "created" /\ answer[s] = "created"
      => Trimmed[body[r]] = Trimmed[body[s]]

(* Every 201 shows the event that is stored under the id of its body.      *)
CreatedShowsEvent ==
  \A r \in Requests :
    answer[r] = "created" => found[r] = event[IdOf[body[r]]] /\ found[r] # NoBody

(* What a client sees of the requests: nothing before the answer.          *)
Seen(r) ==
  [code |-> answer[r],
   body |-> IF answer[r] = "none" THEN NoBody ELSE body[r],
   event |-> IF answer[r] = "created" THEN found[r] ELSE NoBody]

Promise == INSTANCE RequestKey WITH
  stored <- event, winner <- record.hash, given <- [r \in Requests |-> Seen(r)]

(* However the database steps of the requests interleave and wherever they *)
(* are cut short, the key behaves as if each answer were given in one      *)
(* step: stored events and the winning body never change, and every answer *)
(* agrees with both.                                                       *)
ImplementsRequestKey == Promise!KeySpec

(* A body that was accepted is never refused as another body: a retry, as  *)
(* early or late as may be, is not told that it does not match.  The body  *)
(* must come with its type trimmed, because this is how the accepted one   *)
(* was recorded: an equal retry of a padded body is refused.  Nor does     *)
(* this speak of the 409 after a failed load, which any body may meet.     *)
AcceptedBodyNotRefused ==
  \A r, s \in Requests :
    answer[r] = "created" /\ answer[s] = "mismatch" => body[s] # Trimmed[body[r]]

=============================================================================
