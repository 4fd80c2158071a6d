------------------------ MODULE IdempotentEvents_proofs ------------------------
(***************************************************************************)
(* Proofs about IdempotentEvents, for any number of requests and bodies.   *)
(***************************************************************************)
EXTENDS IdempotentEvents, TLAPS

(* What an accepted request was answered is what is recorded under its     *)
(* trimmed body; what is recorded, or about to be, is the stored event.    *)
RecordOK ==
  record # NoRecord =>
    /\ Trimmed[record.hash] = record.hash
    /\ record.event = event[IdOf[record.hash]] /\ record.event # NoBody

RequestOK(r) ==
  /\ pc[r] \notin {"new", "done"} => body[r] \in Bodies
  /\ pc[r] = "persist" => found[r] = event[IdOf[body[r]]] /\ found[r] # NoBody
  /\ pc[r] = "reread" => record # NoRecord
  /\ answer[r] = "created" => /\ record # NoRecord
                              /\ body[r] \in Bodies /\ record.hash = Trimmed[body[r]]
                              /\ found[r] = event[IdOf[body[r]]] /\ found[r] # NoBody
  /\ answer[r] = "mismatch" => record # NoRecord /\ record.hash # body[r]
  /\ answer[r] # "none" => pc[r] = "done"

IInv == TypeOK /\ RecordOK /\ \A r \in Requests : RequestOK(r)

LEMMA RecordType == TypeOK /\ record # NoRecord => record \in [hash : Bodies, event : Bodies]
  BY DEF TypeOK

LEMMA NoRecordHash == NoRecord.hash = NoBody /\ NoRecord \notin [hash : Bodies, event : Bodies]
  BY NoBodyAssumption DEF NoRecord

LEMMA Constants ==
  ASSUME NEW x \in Bodies
  PROVE  /\ x # NoBody /\ IdOf[x] \in Ids /\ Trimmed[x] \in Bodies
         /\ Trimmed[Trimmed[x]] = Trimmed[x] /\ IdOf[Trimmed[x]] = IdOf[x]
  BY NoBodyAssumption, BodyAssumption

LEMMA InitOK == Init => IInv
<1> SUFFICES ASSUME Init PROVE IInv
  OBVIOUS
<1>1. {Trimmed[x] : x \in Bodies} \subseteq Bodies
  BY Constants
<1>2. QED
  BY <1>1 DEF Init, IInv, TypeOK, RecordOK, RequestOK, NoRecord

(* A step that leaves events and record alone and moves one request.       *)
LEMMA MovesOne ==
  ASSUME IInv, NEW r \in Requests, TypeOK', RequestOK(r)', UNCHANGED <<event, record>>,
         \A s \in Requests \ {r} : /\ pc'[s] = pc[s] /\ body'[s] = body[s]
                                   /\ found'[s] = found[s] /\ answer'[s] = answer[s]
  PROVE  IInv'
<1>1. RecordOK'
  BY DEF IInv, RecordOK
<1>2. \A s \in Requests \ {r} : RequestOK(s)'
  BY DEF IInv, RequestOK
<1>3. QED
  BY <1>1, <1>2 DEF IInv

(* A replay is made for the body or for the trimmed body.                  *)
LEMMA ReplayOK ==
  ASSUME IInv, NEW r \in Requests, NEW h \in {body[r], Trimmed[body[r]]}, Replay(r, h),
         pc[r] \in {"read", "reread"}, record # NoRecord, UNCHANGED <<event, record, body>>
  PROVE  IInv'
<1> DEFINE x == body[r]
<1>1. /\ x \in Bodies /\ record \in [hash : Bodies, event : Bodies]
      /\ Trimmed[record.hash] = record.hash
      /\ record.event = event[IdOf[record.hash]] /\ record.event # NoBody
  BY RecordType DEF IInv, RequestOK, RecordOK
<1>2. CASE record.hash = h /\ Created(r, record.event)
  <2>1. record.hash = Trimmed[x] /\ record.event = event[IdOf[x]]
    BY <1>1, <1>2, Constants
  <2>2. TypeOK'
    BY <1>1, <1>2 DEF Created, Goto, IInv, TypeOK
  <2>3. RequestOK(r)'
    BY <1>1, <1>2, <2>1 DEF Created, Goto, IInv, TypeOK, RequestOK
  <2>4. QED
    BY <1>2, <2>2, <2>3, MovesOne DEF Created, Goto, IInv, TypeOK
<1>3. CASE record.hash # h /\ Refused(r, "mismatch")
  <2>1. record.hash # x
    BY <1>1, <1>3
  <2>2. TypeOK'
    BY <1>3 DEF Refused, Goto, IInv, TypeOK
  <2>3. RequestOK(r)'
    BY <1>1, <1>3, <2>1 DEF Refused, Goto, IInv, TypeOK, RequestOK
  <2>4. QED
    BY <1>3, <2>2, <2>3, MovesOne DEF Refused, Goto, IInv, TypeOK
<1>4. QED
  BY <1>2, <1>3 DEF Replay

LEMMA StepOK == IInv /\ [Next]_vars => IInv'
<1> SUFFICES ASSUME IInv, [Next]_vars PROVE IInv'
  OBVIOUS
<1> USE DEF Goto
<1>1. ASSUME NEW r \in Requests, NEW x \in Bodies, Send(r, x) PROVE IInv'
  <2>1. TypeOK' /\ RequestOK(r)'
    BY <1>1 DEF Send, IInv, TypeOK, RequestOK
  <2>2. QED
    BY <1>1, <2>1, MovesOne DEF Send, IInv, TypeOK
<1>2. ASSUME NEW r \in Requests, ReadReplay(r) PROVE IInv'
  <2>1. CASE record = NoRecord /\ Goto(r, "append") /\ UNCHANGED <<found, answer>>
    <3>1. TypeOK' /\ RequestOK(r)'
      BY <1>2, <2>1 DEF ReadReplay, IInv, TypeOK, RequestOK
    <3>2. QED
      BY <1>2, <2>1, <3>1, MovesOne DEF ReadReplay, IInv, TypeOK
  <2>2. CASE record # NoRecord /\ Replay(r, body[r])
    BY <1>2, <2>2, ReplayOK DEF ReadReplay
  <2>3. QED
    BY <1>2, <2>1, <2>2 DEF ReadReplay
<1>3. ASSUME NEW r \in Requests, AppendEvent(r) PROVE IInv'
  <2> DEFINE x == Trimmed[body[r]]
  <2>0. x \in Bodies /\ x # NoBody /\ IdOf[x] \in Ids /\ IdOf[body[r]] = IdOf[x]
    BY <1>3, Constants DEF AppendEvent, IInv, RequestOK
  <2>1. CASE event[IdOf[x]] = NoBody /\ event' = [event EXCEPT ![IdOf[x]] = x]
             /\ found' = [found EXCEPT ![r] = x] /\ Goto(r, "persist")
    <3>1. TypeOK'
      BY <1>3, <2>0, <2>1 DEF AppendEvent, IInv, TypeOK
    <3>2. \A i \in Ids : event[i] # NoBody => event'[i] = event[i]
      BY <2>0, <2>1 DEF IInv, TypeOK
    <3>3. RecordOK'
      <4> SUFFICES ASSUME record # NoRecord PROVE RecordOK'
        BY <1>3 DEF AppendEvent, RecordOK
      <4>1. IdOf[record.hash] \in Ids
        BY RecordType, Constants DEF IInv
      <4>2. QED
        BY <1>3, <3>2, <4>1 DEF AppendEvent, IInv, RecordOK
    <3>4. RequestOK(r)'
      <4>1. event'[IdOf[x]] = x /\ found'[r] = x /\ pc'[r] = "persist"
        BY <2>0, <2>1 DEF IInv, TypeOK
      <4>2. QED
        BY <1>3, <2>0, <4>1 DEF AppendEvent, IInv, RequestOK
    <3>5. ASSUME NEW s \in Requests \ {r} PROVE RequestOK(s)'
      <4>1. /\ pc'[s] = pc[s] /\ body'[s] = body[s] /\ found'[s] = found[s]
            /\ answer'[s] = answer[s] /\ record' = record
        BY <1>3, <2>1 DEF AppendEvent, IInv, TypeOK
      <4>2. body[s] \in Bodies => IdOf[body[s]] \in Ids
        BY Constants
      <4>3. QED
        BY <3>2, <4>1, <4>2 DEF IInv, RequestOK
    <3>6. QED
      BY <3>1, <3>3, <3>4, <3>5 DEF IInv
  <2>2. CASE Goto(r, "load") /\ UNCHANGED <<event, found>>
    <3>1. TypeOK' /\ RequestOK(r)'
      BY <1>3, <2>2 DEF AppendEvent, IInv, TypeOK, RequestOK
    <3>2. QED
      BY <1>3, <2>2, <3>1, MovesOne DEF AppendEvent, IInv, TypeOK
  <2>3. QED
    BY <1>3, <2>1, <2>2 DEF AppendEvent
<1>4. ASSUME NEW r \in Requests, Refused(r, "lost") \/ Refused(r, "exists"),
             pc[r] \notin {"new", "done"}, UNCHANGED <<event, record, body>>
      PROVE  IInv'
  <2>1. TypeOK' /\ RequestOK(r)'
    BY <1>4 DEF Refused, IInv, TypeOK, RequestOK
  <2>2. QED
    BY <1>4, <2>1, MovesOne DEF Refused, IInv, TypeOK
<1>5. ASSUME NEW r \in Requests, LoadExisting(r) PROVE IInv'
  <2> DEFINE e == event[IdOf[body[r]]]
  <2>1. CASE e # NoBody /\ found' = [found EXCEPT ![r] = e]
             /\ Goto(r, "persist") /\ UNCHANGED answer
    <3>1. body[r] \in Bodies /\ e \in Bodies
      BY <1>5, <2>1, Constants DEF LoadExisting, IInv, RequestOK, TypeOK
    <3>2. TypeOK' /\ RequestOK(r)'
      BY <1>5, <2>1, <3>1 DEF LoadExisting, IInv, TypeOK, RequestOK
    <3>3. QED
      BY <1>5, <2>1, <3>2, MovesOne DEF LoadExisting, IInv, TypeOK
  <2>2. CASE Refused(r, "exists")
    BY <1>4, <1>5, <2>2 DEF LoadExisting
  <2>3. QED
    BY <1>5, <2>1, <2>2 DEF LoadExisting
<1>6. ASSUME NEW r \in Requests, PersistReplay(r) PROVE IInv'
  <2> DEFINE x == Trimmed[body[r]]
  <2>1. CASE record = NoRecord
    <3>1. /\ body[r] \in Bodies /\ x \in Bodies /\ Trimmed[x] = x
          /\ IdOf[x] = IdOf[body[r]] /\ found[r] \in Bodies
          /\ found[r] = event[IdOf[x]] /\ found[r] # NoBody
      BY <1>6, Constants DEF PersistReplay, IInv, RequestOK, TypeOK
    <3>2. /\ record' = [hash |-> x, event |-> found[r]]
          /\ UNCHANGED <<event, body>> /\ Created(r, found[r])
      BY <1>6, <2>1 DEF PersistReplay
    <3>3. record' # NoRecord /\ record'.hash = x /\ record'.event = found[r]
          /\ record' \in [hash : Bodies, event : Bodies]
      BY <3>1, <3>2, NoBodyAssumption DEF NoRecord
    <3>4. TypeOK'
      BY <3>1, <3>2, <3>3 DEF Created, IInv, TypeOK
    <3>5. RecordOK'
      BY <3>1, <3>2, <3>3 DEF RecordOK
    <3>6. \A s \in Requests \ {r} : RequestOK(s)'
      BY <2>1, <3>2 DEF Created, IInv, TypeOK, RequestOK
    <3>7. RequestOK(r)'
      BY <3>1, <3>2, <3>3 DEF Created, IInv, TypeOK, RequestOK
    <3>8. QED
      BY <3>4, <3>5, <3>6, <3>7 DEF IInv
  <2>2. CASE record # NoRecord
    <3>1. TypeOK' /\ RequestOK(r)'
      BY <1>6, <2>2 DEF PersistReplay, IInv, TypeOK, RequestOK
    <3>2. QED
      BY <1>6, <2>2, <3>1, MovesOne DEF PersistReplay, IInv, TypeOK
  <2>3. QED
    BY <2>1, <2>2
<1>7. ASSUME NEW r \in Requests, Reread(r) PROVE IInv'
  <2>1. record # NoRecord
    BY <1>7 DEF Reread, IInv, RequestOK
  <2>2. QED
    BY <1>7, <2>1, ReplayOK DEF Reread
<1>8. ASSUME NEW r \in Requests, Cut(r) PROVE IInv'
  BY <1>4, <1>8 DEF Cut
<1>9. CASE UNCHANGED vars
  BY <1>9 DEF vars, IInv, TypeOK, RecordOK, RequestOK
<1>10. QED
  BY <1>1, <1>2, <1>3, <1>5, <1>6, <1>7, <1>8, <1>9 DEF Next

LEMMA Invariant == Spec => []IInv
  BY InitOK, StepOK, PTL DEF Spec

(* Every variable keeps its type.                                          *)
THEOREM TypesHold == Spec => []TypeOK
<1>1. IInv => TypeOK
  BY DEF IInv
<1>2. QED
  BY <1>1, Invariant, PTL

(* However requests with one key race, and wherever they are cut short,    *)
(* all that are answered 201 carried the same body, up to the blanks that  *)
(* are trimmed off its type.                                               *)
THEOREM AtMostOneBody == Spec => []OneBodyAccepted
<1>1. IInv => OneBodyAccepted
  BY DEF IInv, RequestOK, OneBodyAccepted
<1>2. QED
  BY <1>1, Invariant, PTL

(* Every 201 shows the event that is stored under the id of its body.      *)
THEOREM AnswersShowEvent == Spec => []CreatedShowsEvent
<1>1. IInv => CreatedShowsEvent
  BY DEF IInv, RequestOK, CreatedShowsEvent
<1>2. QED
  BY <1>1, Invariant, PTL

(* No request, however it races, is told that an accepted body, sent as it *)
(* was recorded, does not match the key.                                   *)
THEOREM RetriesAreSafe == Spec => []AcceptedBodyNotRefused
<1>1. IInv => AcceptedBodyNotRefused
  BY DEF IInv, RequestOK, AcceptedBodyNotRefused
<1>2. QED
  BY <1>1, Invariant, PTL

-----------------------------------------------------------------------------
(* The promise of RequestKey.                                              *)

Views == [r \in Requests |-> Seen(r)]

LEMMA SameViews ==
  ASSUME UNCHANGED <<body, answer, found>>
  PROVE  Views' = Views
  BY DEF Views, Seen

(* Before its answer nothing of a request is seen, whatever it finds.      *)
LEMMA UnseenStep ==
  ASSUME NEW r \in Requests, IInv, answer[r] = "none", UNCHANGED answer,
         \A s \in Requests \ {r} : body'[s] = body[s] /\ found'[s] = found[s]
  PROVE  Views' = Views
<1>1. \A s \in Requests : Seen(s)' = Seen(s)
  BY DEF Seen, IInv, TypeOK
<1>2. QED
  BY <1>1 DEF Views

(* A request that is answered is seen with its answer, and no other view   *)
(* changes.                                                                *)
LEMMA AnsweredStep ==
  ASSUME NEW r \in Requests, IInv, NEW code \in {"created", "mismatch", "exists", "lost"},
         UNCHANGED body, answer' = [answer EXCEPT ![r] = code],
         \A s \in Requests \ {r} : found'[s] = found[s]
  PROVE  Views' = [Views EXCEPT ![r] =
                     [code |-> code, body |-> body[r],
                      event |-> IF code = "created" THEN found'[r] ELSE NoBody]]
<1>1. \A s \in Requests \ {r} : Seen(s)' = Seen(s)
  BY DEF Seen, IInv, TypeOK
<1>2. Seen(r)' = [code |-> code, body |-> body[r],
                  event |-> IF code = "created" THEN found'[r] ELSE NoBody]
  BY DEF Seen, IInv, TypeOK
<1>3. QED
  BY <1>1, <1>2 DEF Views

LEMMA PromiseInit == Init => Promise!KeyInit
<1> SUFFICES ASSUME Init PROVE Promise!KeyInit
  OBVIOUS
<1>1. event \in [Ids -> Bodies \cup {NoBody}]
  BY InitOK DEF IInv, TypeOK
<1>2. QED
  BY <1>1 DEF Init, Promise!KeyInit, Promise!Answer, NoRecord, Seen

(* A request that is under way has a body and no answer.                   *)
LEMMA NotAnswered ==
  ASSUME NEW r \in Requests, IInv, pc[r] # "done"
  PROVE  /\ answer[r] = "none" /\ Promise!Unanswered(r)
         /\ pc[r] # "new" => body[r] \in Bodies
  BY DEF IInv, RequestOK, TypeOK, Promise!Unanswered, Seen

(* A 201 with the stored event to a body that has won or can win, and the  *)
(* endings without an event, are answers of the promise.                   *)
LEMMA CreatedAccepts ==
  ASSUME NEW r \in Requests, IInv, pc[r] \notin {"new", "done"}, NEW e,
         Created(r, e), UNCHANGED <<event, body>>, e = event[IdOf[body[r]]], e # NoBody,
         record.hash \in {NoBody, Trimmed[body[r]]}, record'.hash = Trimmed[body[r]]
  PROVE  Promise!KeyNext
<1>1. Promise!Unanswered(r) /\ body[r] \in Bodies
  BY NotAnswered
<1>2. found'[r] = e /\ \A s \in Requests \ {r} : found'[s] = found[s]
  BY DEF Created, IInv, TypeOK
<1>3. Views' = [Views EXCEPT ![r] = [code |-> "created", body |-> body[r], event |-> e]]
  BY <1>2, AnsweredStep DEF Created
<1>4. Promise!Accept(r, body[r])
  BY <1>1, <1>3 DEF Promise!Accept, Promise!Answer, Views
<1>5. QED
  BY <1>1, <1>4 DEF Promise!KeyNext

LEMMA RefusedDrops ==
  ASSUME NEW r \in Requests, IInv, pc[r] \notin {"new", "done"},
         NEW code \in {"mismatch", "exists", "lost"}, Refused(r, code),
         UNCHANGED <<event, record, body>>,
         code = "mismatch" => record.hash \notin {NoBody, body[r]}
  PROVE  Promise!KeyNext
<1>1. Promise!Unanswered(r) /\ body[r] \in Bodies
  BY NotAnswered
<1>2. Views' = [Views EXCEPT ![r] = [code |-> code, body |-> body[r], event |-> NoBody]]
  BY AnsweredStep DEF Refused
<1>3. Promise!Refuse(r, body[r]) \/ Promise!Drop(r, body[r])
  BY <1>1, <1>2 DEF Promise!Refuse, Promise!Drop, Promise!Answer, Views
<1>4. QED
  BY <1>1, <1>3 DEF Promise!KeyNext

LEMMA ReplayAnswers ==
  ASSUME NEW r \in Requests, IInv, pc[r] \in {"read", "reread"}, record # NoRecord,
         NEW h \in {body[r], Trimmed[body[r]]}, Replay(r, h), UNCHANGED <<event, record, body>>
  PROVE  Promise!KeyNext
<1>1. /\ record.hash \in Bodies /\ record.hash # NoBody /\ body[r] \in Bodies
      /\ Trimmed[record.hash] = record.hash
      /\ record.event = event[IdOf[record.hash]] /\ record.event # NoBody
  BY RecordType, NoBodyAssumption, NotAnswered DEF IInv, RecordOK
<1>2. CASE record.hash = h /\ Created(r, record.event)
  <2>1. record.hash = Trimmed[body[r]] /\ record.event = event[IdOf[body[r]]]
    BY <1>1, <1>2, Constants
  <2>2. QED
    BY <1>1, <1>2, <2>1, CreatedAccepts
<1>3. CASE record.hash # h /\ Refused(r, "mismatch")
  <2>1. record.hash \notin {NoBody, body[r]}
    BY <1>1, <1>3
  <2>2. QED
    BY <1>3, <2>1, RefusedDrops
<1>4. QED
  BY <1>2, <1>3 DEF Replay

LEMMA PromiseStep == IInv /\ [Next]_vars => [Promise!KeyNext]_(Promise!keyVars)
<1> SUFFICES ASSUME IInv, [Next]_vars
             PROVE  [Promise!KeyNext]_(Promise!keyVars)
  OBVIOUS
<1>0. ASSUME Views' = Views, UNCHANGED <<event, record>>
      PROVE  UNCHANGED Promise!keyVars
  BY <1>0 DEF Promise!keyVars, Views
<1>1. ASSUME NEW r \in Requests, NEW x \in Bodies, Send(r, x)
      PROVE  UNCHANGED Promise!keyVars
  <2>1. answer[r] = "none" /\ \A s \in Requests \ {r} : body'[s] = body[s] /\ found'[s] = found[s]
    BY <1>1, NotAnswered DEF Send, IInv, TypeOK
  <2>2. QED
    BY <1>0, <1>1, <2>1, UnseenStep DEF Send
<1>2. ASSUME NEW r \in Requests, ReadReplay(r)
      PROVE  [Promise!KeyNext]_(Promise!keyVars)
  <2>1. CASE record = NoRecord /\ UNCHANGED <<found, answer>>
    BY <1>0, <1>2, <2>1, SameViews DEF ReadReplay
  <2>2. CASE record # NoRecord /\ Replay(r, body[r])
    BY <1>2, <2>2, ReplayAnswers DEF ReadReplay
  <2>3. QED
    BY <1>2, <2>1, <2>2 DEF ReadReplay
<1>3. ASSUME NEW r \in Requests, AppendEvent(r)
      PROVE  [Promise!KeyNext]_(Promise!keyVars)
  <2> DEFINE x == Trimmed[body[r]]
  <2>1. x \in Bodies /\ answer[r] = "none"
    BY <1>3, NotAnswered, Constants DEF AppendEvent
  <2>2. Views' = Views
    BY <1>3, <2>1, UnseenStep DEF AppendEvent, IInv, TypeOK
  <2>3. CASE event[IdOf[x]] = NoBody /\ event' = [event EXCEPT ![IdOf[x]] = x]
    <3>1. Promise!Store(x)
      BY <1>3, <2>2, <2>3 DEF AppendEvent, Promise!Store, Views
    <3>2. QED
      BY <2>1, <3>1 DEF Promise!KeyNext
  <2>4. CASE UNCHANGED event
    BY <1>0, <1>3, <2>2, <2>4 DEF AppendEvent
  <2>5. QED
    BY <1>3, <2>3, <2>4 DEF AppendEvent
<1>4. ASSUME NEW r \in Requests, LoadExisting(r)
      PROVE  [Promise!KeyNext]_(Promise!keyVars)
  <2>1. answer[r] = "none" /\ pc[r] = "load"
    BY <1>4, NotAnswered DEF LoadExisting
  <2>2. CASE UNCHANGED answer /\ \A s \in Requests \ {r} : found'[s] = found[s]
    BY <1>0, <1>4, <2>1, <2>2, UnseenStep DEF LoadExisting
  <2>3. CASE Refused(r, "exists")
    BY <1>4, <2>1, <2>3, RefusedDrops DEF LoadExisting
  <2>4. QED
    BY <1>4, <2>2, <2>3 DEF LoadExisting, IInv, TypeOK
<1>5. ASSUME NEW r \in Requests, PersistReplay(r)
      PROVE  [Promise!KeyNext]_(Promise!keyVars)
  <2>1. pc[r] = "persist" /\ found[r] = event[IdOf[body[r]]] /\ found[r] # NoBody
    BY <1>5 DEF PersistReplay, IInv, RequestOK
  <2>2. CASE record = NoRecord
    <3>1. Created(r, found[r]) /\ record.hash = NoBody /\ record'.hash = Trimmed[body[r]]
      BY <1>5, <2>1, <2>2, NoRecordHash DEF PersistReplay
    <3>2. QED
      BY <1>5, <2>1, <3>1, CreatedAccepts DEF PersistReplay
  <2>3. CASE record # NoRecord
    BY <1>0, <1>5, <2>3, SameViews DEF PersistReplay
  <2>4. QED
    BY <2>2, <2>3
<1>6. ASSUME NEW r \in Requests, Reread(r)
      PROVE  [Promise!KeyNext]_(Promise!keyVars)
  <2>1. record # NoRecord
    BY <1>6 DEF Reread, IInv, RequestOK
  <2>2. QED
    BY <1>6, <2>1, ReplayAnswers DEF Reread
<1>7. ASSUME NEW r \in Requests, Cut(r)
      PROVE  [Promise!KeyNext]_(Promise!keyVars)
  BY <1>7, RefusedDrops DEF Cut
<1>8. CASE UNCHANGED vars
  BY <1>0, <1>8, SameViews DEF vars
<1>9. QED
  BY <1>1, <1>2, <1>3, <1>4, <1>5, <1>6, <1>7, <1>8 DEF Next

(* The requests with one key are answered as if each answer were given in  *)
(* one step, from stored events that stay and one winning body.            *)
THEOREM RequestKeyImplemented == Spec => ImplementsRequestKey
  BY PromiseInit, PromiseStep, Invariant, PTL
     DEF Spec, ImplementsRequestKey, Promise!KeySpec

=============================================================================
