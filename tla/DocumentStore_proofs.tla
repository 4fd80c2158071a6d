------------------------ MODULE DocumentStore_proofs ------------------------
(***************************************************************************)
(* Proofs about the documents of DocumentStore, for every set of requests, *)
(* documents and threads and every choice of the calls made on each.       *)
(***************************************************************************)
EXTENDS DocumentStore, SequenceTheorems, TLAPS

-----------------------------------------------------------------------------
(* The inductive invariant. *)

Marking == {"trash", "archive", "unarchive", "restore"}

(* The calls that change which revision is the head, those that also       *)
(* change the timestamp, and those that end a time in the trash.           *)
HeadOps == {"create", "revise", "purge"}
TimeOps == HeadOps \union {"patch"}
TrashEnds == {"restore", "create", "purge"}

(* A revision that was written: its request will write no other one.       *)
Used(x) == x \in Docs \/ (x \in Requests /\ req[x].pc = "answered")

(* The revisions of a document are numbered without gap or repetition and  *)
(* the head is the last of them.                                           *)
RevisionsOK ==
  /\ \A v \in revisions :
       /\ Used(v.id)
       /\ row[v.doc].here /\ v.number \in 1 .. row[v.doc].number
       /\ v.id = row[v.doc].head <=> v.number = row[v.doc].number
  /\ \A v, w \in revisions :
       v.id = w.id \/ (v.doc = w.doc /\ v.number = w.number) => v = w
  /\ \A d \in Docs : row[d].here =>
       /\ row[d].number > 0 /\ Used(row[d].head)
       /\ \A n \in 1 .. row[d].number : \E v \in revisions : v.doc = d /\ v.number = n

(* No row was written after what its timestamp says. *)
TimestampsOK ==
  \A d \in Docs :
    /\ row[d].updated <= Len(commits)
    /\ row[d].here => \A j \in Positions : commits[j].doc = d /\ commits[j].op \in TimeOps
                                             => j <= row[d].updated

(* A summary s of document d takes the first n commits into account. *)
Shows(s, d, n) ==
  \A i \in Positions :
    /\ i <= n /\ commits[i].doc = d /\ commits[i].says
    /\ \A j \in Positions : i < j /\ j <= n /\ commits[j].doc = d
                              => ~ commits[j].says /\ commits[j].op # "purge"
    => \/ s = commits[i].by
       \/ \E j \in Positions : /\ i < j /\ j <= n /\ commits[j].doc = d
                               /\ commits[j].op = "revise" /\ commits[j].loaded < i

SummariesOK == \A d \in Docs : Shows(row[d].summary, d, Len(commits))

(* A document that was trashed for good is in the trash, if it is there.   *)
TrashOK ==
  \A i \in Positions :
    /\ commits[i].op = "trash" /\ row[commits[i].doc].here
    /\ \A k \in Positions : i < k /\ commits[k].doc = commits[i].doc
                              => commits[k].op \notin TrashEnds
    => row[commits[i].doc].trashed

-----------------------------------------------------------------------------
(* What a call in flight remembers. *)

(* Nothing happened to the head that q is based on since q read it. *)
HeadStands(q) ==
  row[q.doc].here /\ row[q.doc].head = q.base
    => \A j \in Positions : j > q.read /\ commits[j].doc = q.doc
                              => commits[j].op \notin HeadOps

(* A call that was sent, checked or loaded. *)
CallOK(q) ==
  /\ q.doc \in Docs
  /\ q.op \in {"patch", "revise"} \union Marking
  /\ q.op = "patch" => q.says
  /\ q.op \in Marking => ~ q.says /\ ~ q.strict
  /\ q.op # "revise" => ~ q.named
  /\ q.want <= q.read /\ q.read <= Len(commits)
  /\ q.base # Nil => Used(q.base)
  /\ q.op = "revise" /\ (q.named \/ (q.strict /\ q.pc # "sent")) => HeadStands(q)

(* What q loaded is the row as it is, or another call has written it since. *)
LoadedOK(q) ==
  /\ q.saw.here /\ q.saw.head # Nil /\ Used(q.saw.head) /\ q.saw.thread \in Threads
  /\ q.loaded <= Len(commits)
  /\ q.op = "revise" => q.saw.head = q.base
  /\ q.op = "patch" /\ q.strict => q.saw.updated = q.want
  /\ row[q.doc].here /\ row[q.doc].head = q.saw.head
       => row[q.doc].number = q.saw.number /\ row[q.doc].thread = q.saw.thread
  /\ Shows(q.saw.summary, q.doc, q.loaded)
  /\ q.op = "archive" /\ row[q.doc].trashed
       => \E j \in Positions : /\ q.loaded < j /\ commits[j].doc = q.doc
                               /\ commits[j].op = "trash"
  /\ q.op = "trash" =>
       \A i \in Positions :
         i <= q.loaded /\ commits[i].doc = q.doc /\ commits[i].op = "trash"
           => \E k \in Positions : /\ i < k /\ commits[k].doc = q.doc
                                   /\ commits[k].op \in TrashEnds

InFlight == {"sent", "checked", "loaded"}

CallsOK ==
  \A r \in Requests : \A q \in {req[r]} :
    /\ q.pc \in InFlight => CallOK(q)
    /\ q.pc = "loaded" => LoadedOK(q)

(* SummaryIsLatest follows from SummariesOK; the other properties that are *)
(* proved are part of the invariant themselves.                            *)
IInv ==
  /\ TypeOK /\ RevisionsOK /\ TimestampsOK /\ SummariesOK /\ TrashOK /\ ThreadBinding
  /\ CallsOK

-----------------------------------------------------------------------------
(* What a step does.  Every step is quiet (it changes one request and no   *)
(* table) or it is one of five kinds of write.                             *)

(* The record of a committed call is last in the log. *)
Logged(r, q) ==
  /\ Len(commits') = Len(commits) + 1
  /\ \A i \in Positions : commits'[i] = commits[i]
  /\ commits'[Now].op = q.op /\ commits'[Now].doc = q.doc /\ commits'[Now].by = r
  /\ commits'[Now].says = q.says /\ commits'[Now].loaded = q.loaded
  /\ commits'[Now].read = q.read
  /\ commits'[Now].based <=> (q.strict \/ q.named)

Commits(r, q) ==
  /\ Logged(r, q)
  /\ commits' \in Seq(CommitRecord)
  /\ req[r].pc \in {"idle", "loaded"}
  /\ req' = [req EXCEPT ![r] = Answered]

OnlyRow(d) == row' = [row EXCEPT ![d] = row'[d]]

Creates(r, d, t) ==
  /\ MayBind(d, t) /\ ~ row[d].here
  /\ OnlyRow(d) /\ row'[d] = NewRow(r, t, Now)
  /\ revisions' = revisions \union {[id |-> r, doc |-> d, number |-> 1, prev |-> Nil]}
  /\ subject' = [subject EXCEPT ![t] = d]
  /\ Commits(r, Created(d, t))

Patches(r, d) ==
  /\ req[r].pc = "loaded" /\ req[r].op = "patch" /\ req[r].doc = d
  /\ row[d].here /\ row[d].updated = req[r].saw.updated
  /\ OnlyRow(d) /\ row'[d] = [row[d] EXCEPT !.summary = r, !.updated = Now]
  /\ Commits(r, req[r])
  /\ UNCHANGED <<revisions, subject>>

NextThread(q) == IF q.thread = Nil THEN q.saw.thread ELSE q.thread

Revises(r, d) ==
  /\ req[r].pc = "loaded" /\ req[r].op = "revise" /\ req[r].doc = d
  /\ MayBind(d, NextThread(req[r]))
  /\ \A v \in revisions : v.doc = d => v.number # req[r].saw.number + 1
  /\ row[d].here /\ row[d].head = req[r].base
  /\ OnlyRow(d) /\ row'[d] = RevisedRow(req[r], r, row[d], NextThread(req[r]))
  /\ revisions' = revisions \union {[id |-> r, doc |-> d, number |-> req[r].saw.number + 1,
                                     prev |-> req[r].saw.head]}
  /\ subject' = Rebound(d, req[r].saw.thread, NextThread(req[r]))
  /\ Commits(r, req[r])

Marks(r, d) ==
  /\ req[r].pc = "loaded" /\ req[r].op \in Marking /\ req[r].doc = d
  /\ OnlyRow(d)
  /\ row'[d] = IF row[d].here THEN [row[d] EXCEPT !.trashed = row'[d].trashed,
                                                  !.archived = row'[d].archived]
                              ELSE row[d]
  /\ row'[d].trashed \in BOOLEAN /\ row'[d].archived \in BOOLEAN
  /\ row[d].here =>
       /\ req[r].op = "trash" => row'[d].trashed /\ ~ row'[d].archived
       /\ req[r].op = "archive" => row'[d].trashed = row[d].trashed
       /\ req[r].op = "unarchive" => row'[d].trashed = row[d].trashed /\ ~ row'[d].archived
       /\ req[r].op = "restore" => ~ row'[d].trashed
  /\ Commits(r, req[r])
  /\ UNCHANGED <<revisions, subject>>

Purges(r, d) ==
  /\ row[d].here /\ row[d].trashed
  /\ OnlyRow(d) /\ row'[d] = NoRow
  /\ revisions' = {v \in revisions : v.doc # d}
  /\ subject' = subject
  /\ Commits(r, [Plain("purge", d, Nil, FALSE) EXCEPT !.loaded = Len(commits)])

Writes(r, d) ==
  \/ \E t \in Threads : Creates(r, d, t)
  \/ Patches(r, d)
  \/ Revises(r, d)
  \/ Marks(r, d)
  \/ Purges(r, d)

(* A call q that is about to be checked or loaded: one in flight or one    *)
(* that comes without anything its client saw.                             *)
Arrives(r, q, stage) ==
  \/ req[r].pc = stage /\ q = req[r]
  \/ /\ req[r].pc = "idle"
     /\ \E op \in {"patch", "revise"} \union Marking, d \in Docs,
           t \in Threads \union {Nil}, says \in BOOLEAN :
          /\ q = Plain(op, d, t, says)
          /\ op = "patch" => says
          /\ op \in Marking => ~ says
          /\ stage = "sent" => op = "revise"

BasedCall(op, d, t, says, strict, named) ==
  [Plain(op, d, t, says) EXCEPT
     !.pc = IF op = "revise" THEN "sent" ELSE "checked",
     !.strict = strict, !.named = named,
     !.base = row[d].head, !.want = row[d].updated]

Sends(r) ==
  /\ req[r].pc = "idle"
  /\ \E op \in {"patch", "revise"}, d \in Docs, t \in Threads \union {Nil},
        says, strict, named \in BOOLEAN :
       /\ strict # named
       /\ op = "patch" => strict /\ says
       /\ req'[r] = BasedCall(op, d, t, says, strict, named)

Checks(r) ==
  \E q \in Request :
    /\ Arrives(r, q, "sent")
    /\ row[q.doc].here /\ (q.strict => q.want = row[q.doc].updated)
    /\ req'[r] = [q EXCEPT !.pc = "checked",
                           !.base = IF q.named THEN q.base ELSE row[q.doc].head]

Loads(r) ==
  \E q \in Request :
    /\ Arrives(r, q, "checked")
    /\ Admissible(q, row[q.doc]) /\ ~ AlreadyDone(q, row[q.doc])
    /\ req'[r] = [q EXCEPT !.pc = "loaded", !.saw = row[q.doc], !.loaded = Len(commits)]

Quiet(r) ==
  /\ UNCHANGED <<row, revisions, subject, commits>>
  /\ req' = [req EXCEPT ![r] = req'[r]]
  /\ req[r].pc # "answered"
  /\ Sends(r) \/ Checks(r) \/ Loads(r) \/ req'[r] = Answered

LEMMA NowLogged ==
  ASSUME TypeOK, NEW r \in Requests, NEW q \in Request, q.doc \in Docs,
         NEW rev \in RevisionIds \union {Nil},
         req[r].pc \in {"idle", "loaded"}, Commit(r, q, rev)
  PROVE  Commits(r, q)
<1> DEFINE c == [op |-> q.op, doc |-> q.doc, by |-> r, rev |-> rev,
                 says |-> q.says, based |-> q.strict \/ q.named,
                 read |-> q.read, loaded |-> q.loaded]
<1>1. c \in CommitRecord
  BY DEF CommitRecord, Request
<1>2. commits' = Append(commits, c) /\ commits \in Seq(CommitRecord)
  BY DEF Commit, TypeOK
<1>3. /\ commits' \in Seq(CommitRecord)
      /\ Len(commits') = Len(commits) + 1
      /\ \A i \in 1 .. Len(commits) : commits'[i] = commits[i]
      /\ commits'[Len(commits) + 1] = c
  <2> HIDE DEF c
  <2>1. QED
    BY <1>1, <1>2
<1>4. Logged(r, q)
  <2>1. commits'[Now] = c
    BY <1>3 DEF Now
  <2>2. commits'[Now].based <=> (q.strict \/ q.named)
    <3>1. q.strict \in BOOLEAN /\ q.named \in BOOLEAN
      BY DEF Request
    <3>2. c.based = (q.strict \/ q.named)
      OBVIOUS
    <3> HIDE DEF c
    <3>3. QED
      BY <2>1, <3>1, <3>2
  <2>3. c.op = q.op /\ c.doc = q.doc /\ c.by = r
    OBVIOUS
  <2>4. c.says = q.says
    OBVIOUS
  <2>5. c.loaded = q.loaded /\ c.read = q.read
    OBVIOUS
  <2> HIDE DEF c
  <2>6. QED
    BY <1>3, <2>1, <2>2, <2>3, <2>4, <2>5 DEF Logged, Positions, Now
<1>5. QED
  BY <1>3, <1>4 DEF Commits, Commit, Answer

LEMMA RefusesQuietly ==
  ASSUME TypeOK, NEW r \in Requests, req[r].pc # "answered", Refuse(r)
  PROVE  Quiet(r)
<1>1. req \in [Requests -> Request]
  BY DEF TypeOK
<1>2. req' = [req EXCEPT ![r] = Answered]
  BY DEF Refuse, Answer
<1>3. QED
  BY <1>1, <1>2 DEF Refuse, Quiet

LEMMA PlainIsRequest ==
  ASSUME TypeOK, NEW op \in Calls, NEW d \in Docs, NEW t \in Threads \union {Nil},
         NEW says \in BOOLEAN
  PROVE  Plain(op, d, t, says) \in Request
<1>1. Len(commits) \in Nat
  BY DEF TypeOK
<1>2. QED
  BY <1>1 DEF Plain, Idle, Request, Row, NoRow

LEMMA QuietKinds ==
  ASSUME TypeOK, NEW r \in Requests,
         \/ \E d \in Docs : \E op \in Operations[d] :
              \/ \E thread \in Threads \union {Nil}, says, strict, named \in BOOLEAN :
                   SendBasedOnRead(r, op, d, thread, says, strict, named)
              \/ op = "revise" /\ \E thread \in Threads \union {Nil}, says \in BOOLEAN :
                   CheckPlainRevision(r, d, thread, says)
              \/ LoadPlain(r, op, d)
         \/ CheckRevision(r)
         \/ LoadChecked(r)
  PROVE  Quiet(r)
<1>1. req \in [Requests -> Request]
  BY DEF TypeOK
<1>2. Marking \subseteq Calls /\ "patch" \in Calls /\ "revise" \in Calls
  BY DEF Marking, Calls
<1>3. ASSUME NEW q \in Request, Arrives(r, q, "sent"), Check(r, q), req[r].pc # "answered"
      PROVE  Quiet(r)
  <2>1. CASE row[q.doc].here /\ (q.strict => q.want = row[q.doc].updated)
    <3> DEFINE n == [q EXCEPT !.pc = "checked",
                              !.base = IF q.named THEN @ ELSE row[q.doc].head]
    <3>1. req' = [req EXCEPT ![r] = n] /\ UNCHANGED <<row, revisions, subject, commits>>
      BY <1>3, <2>1 DEF Check
    <3>2. req'[r] = n
      BY <1>1, <3>1
    <3>3. Checks(r)
      BY <1>3, <2>1, <3>2 DEF Checks
    <3> HIDE DEF n
    <3>4. QED
      BY <1>3, <3>1, <3>2, <3>3 DEF Quiet
  <2>2. CASE ~ (row[q.doc].here /\ (q.strict => q.want = row[q.doc].updated))
    BY <1>3, <2>2, RefusesQuietly DEF Check, Refuse
  <2>3. QED
    BY <2>1, <2>2
<1>4. ASSUME NEW q \in Request, Arrives(r, q, "checked"), LoadRow(r, q), req[r].pc # "answered"
      PROVE  Quiet(r)
  <2>1. CASE Admissible(q, row[q.doc]) /\ ~ AlreadyDone(q, row[q.doc])
    <3> DEFINE n == [q EXCEPT !.pc = "loaded", !.saw = row[q.doc], !.loaded = Len(commits)]
    <3>1. req' = [req EXCEPT ![r] = n] /\ UNCHANGED <<row, revisions, subject, commits>>
      BY <1>4, <2>1 DEF LoadRow
    <3>2. req'[r] = n
      BY <1>1, <3>1
    <3>3. Loads(r)
      BY <1>4, <2>1, <3>2 DEF Loads
    <3> HIDE DEF n
    <3>4. QED
      BY <1>4, <3>1, <3>2, <3>3 DEF Quiet
  <2>2. CASE ~ (Admissible(q, row[q.doc]) /\ ~ AlreadyDone(q, row[q.doc]))
    BY <1>4, <2>2, RefusesQuietly DEF LoadRow, Refuse
  <2>3. QED
    BY <2>1, <2>2
<1>5. ASSUME NEW d \in Docs, NEW op \in Operations[d], NEW thread \in Threads \union {Nil},
             NEW says \in BOOLEAN, NEW strict \in BOOLEAN, NEW named \in BOOLEAN,
             SendBasedOnRead(r, op, d, thread, says, strict, named)
      PROVE  Quiet(r)
  <2> DEFINE n == BasedCall(op, d, thread, says, strict, named)
  <2>1. /\ req' = [req EXCEPT ![r] = n] /\ UNCHANGED <<row, revisions, subject, commits>>
        /\ req[r].pc = "idle" /\ strict # named
        /\ op = "revise" \/ (op = "patch" /\ strict /\ says)
    BY <1>5 DEF SendBasedOnRead, BasedCall
  <2>2. req'[r] = n
    BY <1>1, <2>1
  <2>3. Sends(r)
    BY <2>1, <2>2 DEF Sends
  <2> HIDE DEF n
  <2>4. QED
    BY <2>1, <2>2, <2>3 DEF Quiet
<1>6. ASSUME NEW d \in Docs, NEW thread \in Threads \union {Nil}, NEW says \in BOOLEAN,
             CheckPlainRevision(r, d, thread, says)
      PROVE  Quiet(r)
  <2> DEFINE q == Plain("revise", d, thread, says)
  <2>1. q \in Request
    BY <1>2, PlainIsRequest
  <2>2. Arrives(r, q, "sent") /\ req[r].pc # "answered" /\ Check(r, q)
    BY <1>6 DEF Arrives, CheckPlainRevision, Marking
  <2> HIDE DEF q
  <2>3. QED
    BY <1>3, <2>1, <2>2
<1>7. ASSUME NEW d \in Docs, NEW op \in Operations[d], LoadPlain(r, op, d)
      PROVE  Quiet(r)
  <2> DEFINE q == Plain(op, d, Nil, op = "patch")
  <2>1. req[r].pc = "idle" /\ op \in {"patch"} \union Marking /\ LoadRow(r, q)
    BY <1>7 DEF LoadPlain, Marking
  <2>2. q \in Request
    BY <1>2, <2>1, PlainIsRequest
  <2>3. Arrives(r, q, "checked") /\ req[r].pc # "answered"
    <3>1. (op = "patch") \in BOOLEAN /\ op \in {"patch", "revise"} \union Marking
      BY <2>1
    <3>2. op \in Marking => op # "patch"
      BY DEF Marking
    <3>3. QED
      BY <2>1, <3>1, <3>2 DEF Arrives
  <2> HIDE DEF q
  <2>4. QED
    BY <1>4, <2>1, <2>2, <2>3
<1>8. ASSUME CheckRevision(r) PROVE Quiet(r)
  BY <1>1, <1>3, <1>8 DEF CheckRevision, Arrives
<1>9. ASSUME LoadChecked(r) PROVE Quiet(r)
  BY <1>1, <1>4, <1>9 DEF LoadChecked, Arrives
<1>10. QED
  BY <1>5, <1>6, <1>7, <1>8, <1>9, SMTT(40)

LEMMA CreateKinds ==
  ASSUME TypeOK, NEW r \in Requests, NEW d \in Docs, NEW t \in Threads,
         CreateDocument(r, d, t)
  PROVE  Quiet(r) \/ Creates(r, d, t)
<1>1. CASE ~ (MayBind(d, t) /\ ~ row[d].here)
  BY <1>1, RefusesQuietly DEF CreateDocument
<1>2. CASE MayBind(d, t) /\ ~ row[d].here
  <2> DEFINE q == Created(d, t)
  <2>1. q \in Request /\ q.doc = d
    <3>1. "create" \in Calls /\ Plain("create", d, t, TRUE) \in Request
      BY PlainIsRequest DEF Calls
    <3>2. Len(commits) \in Nat
      BY DEF TypeOK
    <3>3. q \in Request
      BY <3>1, <3>2 DEF Created, Request
    <3>4. QED
      BY <3>3 DEF Created, Plain, Idle
  <2>2. /\ row' = [row EXCEPT ![d] = NewRow(r, t, Now)]
        /\ revisions' = revisions \union {[id |-> r, doc |-> d, number |-> 1, prev |-> Nil]}
        /\ subject' = [subject EXCEPT ![t] = d]
        /\ Commit(r, q, r)
        /\ req[r].pc = "idle"
    BY <1>2 DEF CreateDocument
  <2> HIDE DEF q
  <2>3. Commits(r, q)
    BY <2>1, <2>2, NowLogged DEF RevisionIds
  <2>4. row'[d] = NewRow(r, t, Now) /\ OnlyRow(d)
    BY <2>2 DEF TypeOK, OnlyRow
  <2>5. QED
    BY <1>2, <2>2, <2>3, <2>4 DEF Creates, q
<1>3. QED
  BY <1>1, <1>2

LEMMA PatchKinds ==
  ASSUME TypeOK, NEW r \in Requests, PatchDocument(r)
  PROVE  Quiet(r) \/ Patches(r, req[r].doc)
<1> DEFINE d == req[r].doc
<1>1. req[r] \in Request /\ d \in Docs /\ Ready(r, "patch")
  BY DEF TypeOK, PatchDocument, Ready
<1>2. CASE ~ (row[d].here /\ row[d].updated = req[r].saw.updated)
  BY <1>1, <1>2, RefusesQuietly DEF PatchDocument, Ready
<1>3. CASE row[d].here /\ row[d].updated = req[r].saw.updated
  <2>1. /\ row' = [row EXCEPT ![d].summary = r, ![d].updated = Now]
        /\ Commit(r, req[r], Nil)
        /\ UNCHANGED <<revisions, subject>>
    BY <1>3 DEF PatchDocument
  <2>2. Commits(r, req[r])
    BY <1>1, <2>1, NowLogged DEF Ready
  <2>3. row'[d] = [row[d] EXCEPT !.summary = r, !.updated = Now]
    BY <1>1, <2>1 DEF TypeOK
  <2>4. OnlyRow(d)
    BY <1>1, <2>1 DEF TypeOK, OnlyRow
  <2>5. QED
    BY <1>1, <1>3, <2>1, <2>2, <2>3, <2>4 DEF Patches, Ready
<1>4. QED
  BY <1>2, <1>3

LEMMA ReviseKinds ==
  ASSUME TypeOK, NEW r \in Requests, UpdateDocument(r)
  PROVE  Quiet(r) \/ Revises(r, req[r].doc)
<1> DEFINE q == req[r]
           d == req[r].doc
           t == NextThread(req[r])
           n == req[r].saw.number + 1
           allowed == /\ MayBind(d, t)
                      /\ \A v \in revisions : v.doc = d => v.number # n
                      /\ row[d].here /\ row[d].head = q.base
<1>1. req[r] \in Request /\ d \in Docs /\ Ready(r, "revise")
  BY DEF TypeOK, UpdateDocument, Ready
<1>2. CASE ~ allowed
  BY <1>1, <1>2, RefusesQuietly DEF UpdateDocument, Ready, NextThread
<1>3. CASE allowed
  <2>1. /\ row' = [row EXCEPT ![d] = RevisedRow(q, r, row[d], t)]
        /\ revisions' = revisions \union
                          {[id |-> r, doc |-> d, number |-> n, prev |-> q.saw.head]}
        /\ subject' = Rebound(d, q.saw.thread, t)
        /\ Commit(r, req[r], r)
    BY <1>3 DEF UpdateDocument, NextThread
  <2>2. Commits(r, req[r])
    BY <1>1, <2>1, NowLogged DEF Ready, RevisionIds
  <2>3. row'[d] = RevisedRow(q, r, row[d], t) /\ OnlyRow(d)
    BY <1>1, <2>1 DEF TypeOK, OnlyRow
  <2>4. QED
    BY <1>1, <1>3, <2>1, <2>2, <2>3 DEF Revises, Ready
<1>4. QED
  BY <1>2, <1>3

LEMMA MarkKinds ==
  ASSUME TypeOK, NEW r \in Requests,
         TrashDocument(r) \/ ArchiveDocument(r) \/ UnarchiveDocument(r) \/ RestoreDocument(r)
  PROVE  Marks(r, req[r].doc)
<1> DEFINE d == req[r].doc
<1>1. req[r].pc = "loaded" /\ req[r].op \in Marking
  BY DEF TrashDocument, ArchiveDocument, UnarchiveDocument, RestoreDocument, Ready, Marking
<1>2. req[r] \in Request /\ d \in Docs /\ req[r].saw.head \in RevisionIds \union {Nil}
      /\ row[d] \in Row
  BY <1>1 DEF TypeOK, Request, Row
<1>3. Commits(r, req[r]) /\ UNCHANGED <<revisions, subject>>
  BY <1>1, <1>2, NowLogged, SMTT(40)
  DEF TrashDocument, ArchiveDocument, UnarchiveDocument, RestoreDocument
<1>4. PICK a \in BOOLEAN, b \in BOOLEAN :
        /\ Mark(r, [row[d] EXCEPT !.trashed = a, !.archived = b])
        /\ req[r].op = "trash" => a /\ ~ b
        /\ req[r].op = "archive" => a = row[d].trashed
        /\ req[r].op = "unarchive" => a = row[d].trashed /\ ~ b
        /\ req[r].op = "restore" => ~ a
  <2>1. /\ row[d].trashed \in BOOLEAN /\ row[d].archived \in BOOLEAN
        /\ \A a, b \in BOOLEAN :
             [row[d] EXCEPT !.trashed = a, !.archived = b]
               = [row[d] EXCEPT !.trashed = a, !.archived = b]
        /\ [row[d] EXCEPT !.trashed = FALSE]
             = [row[d] EXCEPT !.trashed = FALSE, !.archived = row[d].archived]
        /\ [row[d] EXCEPT !.archived = TRUE]
             = [row[d] EXCEPT !.trashed = row[d].trashed, !.archived = TRUE]
        /\ [row[d] EXCEPT !.archived = FALSE]
             = [row[d] EXCEPT !.trashed = row[d].trashed, !.archived = FALSE]
    BY <1>2 DEF Row
  <2>2. CASE TrashDocument(r)
    BY <2>1, <2>2 DEF TrashDocument, Trashed, Ready
  <2>3. CASE ArchiveDocument(r)
    BY <2>1, <2>3, ZenonT(60) DEF ArchiveDocument, Ready
  <2>4. CASE UnarchiveDocument(r)
    BY <2>1, <2>4 DEF UnarchiveDocument, Ready
  <2>5. CASE RestoreDocument(r)
    BY <2>1, <2>5 DEF RestoreDocument, Ready
  <2>6. QED
    BY <2>2, <2>3, <2>4, <2>5
<1>5. row' = [row EXCEPT ![d] = IF row[d].here
                                THEN [row[d] EXCEPT !.trashed = a, !.archived = b]
                                ELSE row[d]]
  BY <1>4 DEF Mark
<1>6. CASE row[d].here
  <2>1. row'[d] = [row[d] EXCEPT !.trashed = a, !.archived = b] /\ OnlyRow(d)
    BY <1>2, <1>5, <1>6 DEF TypeOK, OnlyRow
  <2>2. row'[d].trashed = a /\ row'[d].archived = b
    BY <1>2, <2>1 DEF Row
  <2>3. QED
    BY <1>1, <1>3, <1>4, <1>6, <2>1, <2>2 DEF Marks
<1>7. CASE ~ row[d].here
  <2>1. row'[d] = row[d] /\ OnlyRow(d)
    BY <1>2, <1>5, <1>7 DEF TypeOK, OnlyRow
  <2>2. QED
    BY <1>1, <1>2, <1>3, <1>7, <2>1 DEF Marks, Row
<1>8. QED
  BY <1>6, <1>7

LEMMA PurgeKinds ==
  ASSUME TypeOK, NEW r \in Requests, NEW d \in Docs, PurgeDocument(r, d)
  PROVE  Quiet(r) \/ Purges(r, d)
<1>1. CASE ~ (row[d].here /\ row[d].trashed)
  BY <1>1, RefusesQuietly DEF PurgeDocument
<1>2. CASE row[d].here /\ row[d].trashed
  <2> DEFINE q == [Plain("purge", d, Nil, FALSE) EXCEPT !.loaded = Len(commits)]
  <2>1. q \in Request /\ q.doc = d
    <3>1. "purge" \in Calls /\ Plain("purge", d, Nil, FALSE) \in Request
      BY PlainIsRequest DEF Calls
    <3>2. Len(commits) \in Nat
      BY DEF TypeOK
    <3>3. q \in Request
      BY <3>1, <3>2 DEF Request
    <3>4. QED
      BY <3>3 DEF Plain, Idle
  <2>2. /\ row' = [row EXCEPT ![d] = NoRow]
        /\ revisions' = {v \in revisions : v.doc # d}
        /\ Commit(r, q, Nil) /\ subject' = subject
        /\ req[r].pc = "idle"
    BY <1>2 DEF PurgeDocument
  <2> HIDE DEF q
  <2>3. Commits(r, q)
    BY <2>1, <2>2, NowLogged
  <2>4. row'[d] = NoRow /\ OnlyRow(d)
    BY <2>2, SMTT(40) DEF TypeOK, OnlyRow
  <2>5. QED
    BY <1>2, <2>2, <2>3, <2>4 DEF Purges, q
<1>3. QED
  BY <1>1, <1>2

LEMMA StepKinds ==
  ASSUME TypeOK, Next
  PROVE  \E r \in Requests : Quiet(r) \/ \E d \in Docs : Writes(r, d)
<1> USE DEF Writes
<1>1. PICK r \in Requests :
        \/ \E d \in Docs : \E op \in Operations[d] :
             \/ \E thread \in Threads \union {Nil}, says, strict, named \in BOOLEAN :
                  SendBasedOnRead(r, op, d, thread, says, strict, named)
             \/ op = "revise" /\ \E thread \in Threads \union {Nil}, says \in BOOLEAN :
                  CheckPlainRevision(r, d, thread, says)
             \/ LoadPlain(r, op, d)
             \/ op = "create" /\ \E t \in Threads : CreateDocument(r, d, t)
             \/ op = "purge" /\ PurgeDocument(r, d)
        \/ CheckRevision(r) \/ LoadChecked(r)
        \/ PatchDocument(r) \/ UpdateDocument(r)
        \/ TrashDocument(r) \/ ArchiveDocument(r) \/ UnarchiveDocument(r) \/ RestoreDocument(r)
  BY DEF Next
<1>2. req[r].pc = "loaded" => req[r].doc \in Docs
  BY DEF TypeOK
<1>3. QED
  BY <1>1, <1>2, QuietKinds, CreateKinds, PatchKinds, ReviseKinds, MarkKinds, PurgeKinds
  DEF PatchDocument, UpdateDocument, TrashDocument, ArchiveDocument, UnarchiveDocument,
      RestoreDocument, Ready

-----------------------------------------------------------------------------
(* Types. *)

LEMMA LogLength == ASSUME TypeOK PROVE Len(commits) \in Nat /\ Now \in Nat /\ NoRow \in Row
  BY DEF TypeOK, Now, NoRow, Row

LEMMA RowTypes ==
  ASSUME TypeOK, NEW r \in Requests, NEW d \in Docs, Writes(r, d)
  PROVE  row'[d] \in Row /\ (~ row'[d].here => row'[d] = NoRow)
<1>1. row[d] \in Row /\ req[r] \in Request /\ (~ row[d].here => row[d] = NoRow)
  BY DEF TypeOK
<1>2. r \in RevisionIds
  BY DEF RevisionIds
<1>3. ASSUME NEW t \in Threads, Creates(r, d, t)
      PROVE  row'[d] \in Row /\ row'[d].here
  <2>1. NewRow(r, t, Now) \in Row
    BY <1>2, LogLength DEF NewRow, Row
  <2>2. NewRow(r, t, Now).here
    BY LogLength DEF NewRow, Row
  <2>3. QED
    BY <1>3, <2>1, <2>2 DEF Creates
<1>4. CASE Patches(r, d)
  BY <1>1, <1>2, <1>4, LogLength DEF Patches, Row
<1>5. CASE Revises(r, d)
  <2>1. NextThread(req[r]) \in Threads \union {Nil} /\ req[r].saw.number + 1 \in Nat
        /\ req[r].saw.summary \in RevisionIds \union {Nil}
    BY <1>1 DEF NextThread, Request, Row
  <2>2. row'[d] \in Row
    BY <1>1, <1>2, <1>5, <2>1, LogLength, ZenonT(60) DEF Revises, RevisedRow, Row
  <2>3. row'[d].here
    BY <1>1, <1>5 DEF Revises, RevisedRow, Row
  <2>4. QED
    BY <2>2, <2>3
<1>6. CASE Marks(r, d)
  <2>1. row'[d] \in Row
    BY <1>1, <1>6, ZenonT(60) DEF Marks, Row
  <2>2. row'[d].here <=> row[d].here
    BY <1>1, <1>6 DEF Marks, Row
  <2>3. QED
    BY <1>1, <1>6, <2>1, <2>2 DEF Marks
<1>7. CASE Purges(r, d)
  BY <1>7, LogLength DEF Purges
<1>8. QED
  BY <1>3, <1>4, <1>5, <1>6, <1>7 DEF Writes

LEMMA ArrivalTypes ==
  ASSUME TypeOK, NEW r \in Requests, NEW q \in Request,
         Arrives(r, q, "sent") \/ Arrives(r, q, "checked")
  PROVE  q.doc \in Docs
<1>1. \A op, d, t, says : Plain(op, d, t, says).doc = d
  BY DEF Plain, Idle
<1>2. QED
  BY <1>1 DEF Arrives, TypeOK

LEMMA RequestTypes ==
  ASSUME TypeOK, NEW r \in Requests, Sends(r) \/ Checks(r) \/ Loads(r) \/ req'[r] = Answered
  PROVE  /\ req'[r] \in Request
         /\ req'[r].pc \in InFlight => req'[r].doc \in Docs
<1>1. \A d \in Docs : row[d] \in Row
  BY DEF TypeOK
<1>2. CASE Sends(r)
  <2>1. PICK op \in {"patch", "revise"}, d \in Docs, t \in Threads \union {Nil},
             says \in BOOLEAN, strict \in BOOLEAN, named \in BOOLEAN :
          req'[r] = BasedCall(op, d, t, says, strict, named)
    BY <1>2 DEF Sends
  <2>2. Plain(op, d, t, says) \in Request /\ Plain(op, d, t, says).doc = d
    <3>1. op \in Calls
      BY DEF Calls
    <3>2. QED
      BY <3>1, PlainIsRequest DEF Plain, Idle
  <2>3. row[d].head \in RevisionIds \union {Nil} /\ row[d].updated \in Nat
    BY <1>1 DEF Row
  <2> DEFINE p == Plain(op, d, t, says)
  <2>4. req'[r] = [p EXCEPT !.pc = IF op = "revise" THEN "sent" ELSE "checked",
                            !.strict = strict, !.named = named,
                            !.base = row[d].head, !.want = row[d].updated]
    BY <2>1 DEF BasedCall
  <2> HIDE DEF p
  <2>5. p \in Request /\ p.doc = d
    BY <2>2 DEF p
  <2>6. QED
    BY <2>3, <2>4, <2>5 DEF Request
<1>3. CASE Checks(r)
  <2>1. PICK q \in Request :
          /\ Arrives(r, q, "sent")
          /\ req'[r] = [q EXCEPT !.pc = "checked",
                                 !.base = IF q.named THEN q.base ELSE row[q.doc].head]
    BY <1>3 DEF Checks
  <2>2. q.doc \in Docs
    BY <2>1, ArrivalTypes
  <2>3. row[q.doc].head \in RevisionIds \union {Nil}
    BY <1>1, <2>2 DEF Row
  <2>4. QED
    BY <2>1, <2>2, <2>3 DEF Request
<1>4. CASE Loads(r)
  <2>1. PICK q \in Request :
          /\ Arrives(r, q, "checked")
          /\ req'[r] = [q EXCEPT !.pc = "loaded", !.saw = row[q.doc], !.loaded = Len(commits)]
    BY <1>4 DEF Loads
  <2>2. q.doc \in Docs
    BY <2>1, ArrivalTypes
  <2>3. QED
    BY <1>1, <2>1, <2>2, LogLength DEF Request
<1>5. Answered \in Request /\ Answered.pc \notin InFlight
  BY LogLength DEF Answered, Idle, Request, Calls, InFlight
<1>6. QED
  BY <1>2, <1>3, <1>4, <1>5

LEMMA TypeStep == TypeOK /\ [Next]_vars => TypeOK'
<1> SUFFICES ASSUME TypeOK, [Next]_vars PROVE TypeOK'
  OBVIOUS
<1> USE DEF TypeOK
<1>1. CASE UNCHANGED vars
  BY <1>1 DEF vars, Revision, RevisionIds
<1>2. ASSUME NEW r \in Requests, Quiet(r) PROVE TypeOK'
  <2>1. req'[r] \in Request /\ (req'[r].pc \in InFlight => req'[r].doc \in Docs)
    BY <1>2, RequestTypes DEF Quiet
  <2>2. req' \in [Requests -> Request]
        /\ \A s \in Requests : req'[s].pc \in InFlight => req'[s].doc \in Docs
    BY <1>2, <2>1 DEF Quiet, InFlight
  <2>3. QED
    BY <1>2, <2>2 DEF Quiet, InFlight
<1>3. ASSUME NEW r \in Requests, NEW d \in Docs, Writes(r, d) PROVE TypeOK'
  <2>1. row'[d] \in Row /\ (~ row'[d].here => row'[d] = NoRow)
    BY <1>3, RowTypes
  <2>2. OnlyRow(d)
    BY <1>3 DEF Writes, Creates, Patches, Revises, Marks, Purges
  <2>3. row' \in [Docs -> Row] /\ \A e \in Docs : ~ row'[e].here => row'[e] = NoRow
    BY <2>1, <2>2 DEF OnlyRow
  <2>4. commits' \in Seq(CommitRecord) /\ req' = [req EXCEPT ![r] = Answered]
    BY <1>3 DEF Writes, Creates, Patches, Revises, Marks, Purges, Commits
  <2>5. /\ req' \in [Requests -> Request]
        /\ \A s \in Requests : req'[s].pc \in InFlight => req'[s].doc \in Docs
    <3>1. Answered \in Request /\ Answered.pc \notin InFlight
      BY LogLength DEF Answered, Idle, Request, Calls, InFlight
    <3>2. QED
      BY <2>4, <3>1 DEF InFlight
  <2>6. revisions' \subseteq Revision /\ subject' \in [Threads -> Docs \union {Nil}]
    <3>1. r \in RevisionIds /\ req[r].saw \in Row
      BY DEF RevisionIds, Request
    <3>2. ASSUME NEW t \in Threads, Creates(r, d, t)
          PROVE  revisions' \subseteq Revision /\ subject' \in [Threads -> Docs \union {Nil}]
      BY <3>1, <3>2 DEF Creates, Revision
    <3>3. CASE Revises(r, d)
      <4>1. [id |-> r, doc |-> d, number |-> req[r].saw.number + 1, prev |-> req[r].saw.head]
              \in Revision
        BY <3>1 DEF Revision, Row
      <4>2. subject' \in [Threads -> Docs \union {Nil}]
        BY <3>3 DEF Revises, Rebound
      <4>3. QED
        BY <3>3, <4>1, <4>2 DEF Revises
    <3>4. QED
      BY <1>3, <3>2, <3>3 DEF Writes, Patches, Marks, Purges
  <2>7. QED
    BY <2>3, <2>4, <2>5, <2>6 DEF InFlight
<1>4. QED
  BY <1>1, <1>2, <1>3, StepKinds

-----------------------------------------------------------------------------
(* The effect of a write on the columns, and on the requests. *)

LEMMA CreateColumns ==
  ASSUME TypeOK, NEW r \in Requests, NEW d \in Docs, NEW t \in Threads, Creates(r, d, t)
  PROVE  /\ row'[d].here /\ row'[d].head = r /\ row'[d].number = 1 /\ row'[d].thread = t
         /\ row'[d].summary = r /\ row'[d].updated = Now
         /\ ~ row'[d].trashed /\ ~ row'[d].archived
<1>1. NoRow.number = 0 /\ ~ NoRow.trashed /\ ~ NoRow.archived
  BY DEF NoRow
<1>2. QED
  BY <1>1, LogLength DEF Creates, NewRow, Row

LEMMA PatchColumns ==
  ASSUME TypeOK, NEW r \in Requests, NEW d \in Docs, Patches(r, d)
  PROVE  /\ row'[d].here = row[d].here /\ row'[d].head = row[d].head
         /\ row'[d].number = row[d].number /\ row'[d].thread = row[d].thread
         /\ row'[d].summary = r /\ row'[d].updated = Now
         /\ row'[d].trashed = row[d].trashed /\ row'[d].archived = row[d].archived
<1>1. row[d] \in Row
  BY DEF TypeOK
<1>2. row'[d] = [row[d] EXCEPT !.summary = r, !.updated = Now]
  BY DEF Patches
<1>3. QED
  BY <1>1, <1>2 DEF Row

LEMMA ReviseColumns ==
  ASSUME TypeOK, NEW r \in Requests, NEW d \in Docs, Revises(r, d)
  PROVE  /\ row'[d].here = row[d].here /\ row'[d].head = r
         /\ row'[d].number = req[r].saw.number + 1 /\ row'[d].thread = NextThread(req[r])
         /\ row'[d].summary = (IF req[r].says THEN r ELSE req[r].saw.summary)
         /\ row'[d].updated = Now
         /\ row'[d].trashed = row[d].trashed /\ row'[d].archived = row[d].archived
<1>1. row[d] \in Row
  BY DEF TypeOK
<1>2. row'[d] = RevisedRow(req[r], r, row[d], NextThread(req[r]))
  BY DEF Revises
<1>3. QED
  BY <1>1, <1>2 DEF RevisedRow, Row

LEMMA MarkColumns ==
  ASSUME TypeOK, NEW r \in Requests, NEW d \in Docs, Marks(r, d)
  PROVE  /\ row'[d].here = row[d].here /\ row'[d].head = row[d].head
         /\ row'[d].number = row[d].number /\ row'[d].thread = row[d].thread
         /\ row'[d].summary = row[d].summary /\ row'[d].updated = row[d].updated
  BY DEF TypeOK, Marks, Row

LEMMA PurgeColumns ==
  ASSUME NEW r \in Requests, NEW d \in Docs, Purges(r, d)
  PROVE  /\ ~ row'[d].here /\ row'[d].head = Nil /\ row'[d].number = 0
         /\ row'[d].thread = Nil /\ row'[d].summary = Nil /\ row'[d].updated = 0
         /\ ~ row'[d].trashed /\ ~ row'[d].archived
  BY DEF Purges, NoRow

LEMMA WriteFrame ==
  ASSUME TypeOK, NEW r \in Requests, NEW d \in Docs, Writes(r, d)
  PROVE  /\ \A e \in Docs \ {d} : row'[e] = row[e]
         /\ req[r].pc \in {"idle", "loaded"} /\ req'[r].pc = "answered"
         /\ \A s \in Requests \ {r} : req'[s] = req[s]
         /\ Positions' = Positions \union {Now} /\ Now \notin Positions
         /\ Now = Len(commits) + 1 /\ Len(commits') = Now
         /\ \A i \in Positions : commits'[i] = commits[i]
         /\ commits'[Now].doc = d /\ commits'[Now].by = r
<1>1. row \in [Docs -> Row] /\ req \in [Requests -> Request]
  BY DEF TypeOK
<1>2. \A e \in Docs \ {d} : row'[e] = row[e]
  BY <1>1 DEF Writes, Creates, Patches, Revises, Marks, Purges, OnlyRow
<1>3. \/ \E t \in Threads : Creates(r, d, t) /\ Commits(r, Created(d, t))
      \/ req[r].doc = d /\ Commits(r, req[r])
      \/ Commits(r, [Plain("purge", d, Nil, FALSE) EXCEPT !.loaded = Len(commits)])
  BY DEF Writes, Creates, Patches, Revises, Marks, Purges
<1>4. /\ \A t : Created(d, t).doc = d
      /\ [Plain("purge", d, Nil, FALSE) EXCEPT !.loaded = Len(commits)].doc = d
  BY DEF Created, Plain, Idle
<1>5. PICK q : q.doc = d /\ Commits(r, q)
  BY <1>3, <1>4
<1>6. Answered.pc = "answered"
  BY DEF Answered, Idle
<1>7. /\ Len(commits') = Now /\ \A i \in Positions : commits'[i] = commits[i]
      /\ commits'[Now].doc = d /\ commits'[Now].by = r
      /\ req[r].pc \in {"idle", "loaded"} /\ req' = [req EXCEPT ![r] = Answered]
  BY <1>5 DEF Commits, Logged, Now
<1>8. Positions' = Positions \union {Now} /\ Now \notin Positions
  BY <1>7, LogLength DEF Positions, Now
<1>9. req'[r].pc = "answered" /\ \A s \in Requests \ {r} : req'[s] = req[s]
  BY <1>1, <1>6, <1>7
<1>10. QED
  BY <1>2, <1>7, <1>8, <1>9 DEF Now

LEMMA UsedStays ==
  ASSUME TypeOK, [Next]_vars, NEW x, Used(x)
  PROVE  Used(x)'
<1>1. CASE UNCHANGED vars
  BY <1>1 DEF vars, Used
<1>2. ASSUME NEW r \in Requests, Quiet(r) PROVE Used(x)'
  BY <1>2 DEF Quiet, Used, TypeOK
<1>3. ASSUME NEW r \in Requests, NEW d \in Docs, Writes(r, d) PROVE Used(x)'
  BY <1>3, WriteFrame DEF Used
<1>4. QED
  BY <1>1, <1>2, <1>3, StepKinds

(* The revision a call writes is new. *)
LEMMA NewRevision ==
  ASSUME TypeOK, NEW r \in Requests, NEW d \in Docs, Writes(r, d)
  PROVE  ~ Used(r) /\ Used(r)' /\ r # Nil /\ r \in RevisionIds
  BY WriteFrame, DocumentConstants DEF Used, RevisionIds

-----------------------------------------------------------------------------
(* The revisions of a document. *)

LEMMA RevisionsStep ==
  ASSUME TypeOK, RevisionsOK, CallsOK, [Next]_vars
  PROVE  RevisionsOK'
<1>0. \A v \in revisions : v.doc \in Docs /\ v.number \in Nat /\ v.id \in RevisionIds
  BY DEF TypeOK, Revision
<1>1. CASE UNCHANGED <<row, revisions>>
  <2>1. \A x : Used(x) => Used(x)'
    BY UsedStays
  <2>2. QED
    BY <1>1, <2>1 DEF RevisionsOK
<1>2. ASSUME NEW r \in Requests, NEW d \in Docs, Writes(r, d) PROVE RevisionsOK'
  <2> USE DEF RevisionsOK
  <2>1. /\ \A x : Used(x) => Used(x)'
        /\ ~ Used(r) /\ Used(r)' /\ r # Nil
        /\ \A e \in Docs \ {d} : row'[e] = row[e]
    BY <1>2, UsedStays, NewRevision, WriteFrame
  <2> USE DEF Used
  <2>2. CASE Patches(r, d) \/ Marks(r, d)
    <3>1. /\ row'[d].here = row[d].here /\ row'[d].head = row[d].head
          /\ row'[d].number = row[d].number
      BY <2>2, PatchColumns, MarkColumns
    <3>2. revisions' = revisions
      BY <2>2 DEF Patches, Marks
    <3>3. \A e \in Docs : /\ row'[e].here = row[e].here /\ row'[e].head = row[e].head
                          /\ row'[e].number = row[e].number
      BY <2>1, <3>1
    <3>4. QED
      BY <1>0, <2>1, <3>2, <3>3
  <2>3. CASE Purges(r, d)
    <3>1. revisions' = {v \in revisions : v.doc # d} /\ ~ row'[d].here
      BY <2>3, PurgeColumns DEF Purges
    <3>2. QED
      BY <1>0, <2>1, <3>1
  <2>4. ASSUME NEW n \in Nat \ {0}, NEW u,
               \/ n = 1 /\ ~ row[d].here
               \/ row[d].here /\ n = row[d].number + 1,
               row'[d].here, row'[d].head = r, row'[d].number = n,
               u.id = r, u.doc = d, u.number = n, revisions' = revisions \union {u}
        PROVE  RevisionsOK'
    <3>1. u.id = r /\ u.doc = d /\ u.number = n
      BY <2>4
    <3>2. \A v \in revisions' : v \in revisions \/ v = u
      BY <2>4
    <3>3. u \in revisions' /\ revisions \subseteq revisions'
      BY <2>4
    <3>4. ASSUME NEW v \in revisions PROVE v.id # r /\ (v.doc = d => v.number < n)
      <4>1. Used(v.id) /\ row[v.doc].here /\ v.number \in 1 .. row[v.doc].number
        OBVIOUS
      <4>2. row[v.doc].number \in Nat
        BY <1>0 DEF TypeOK, Row
      <4>3. QED
        BY <1>0, <2>1, <2>4, <4>1, <4>2
    <3>5. ASSUME NEW v \in revisions'
          PROVE  /\ Used(v.id)'
                 /\ row'[v.doc].here /\ v.number \in 1 .. row'[v.doc].number
                 /\ v.id = row'[v.doc].head <=> v.number = row'[v.doc].number
      <4>1. CASE v = u
        BY <2>1, <2>4, <3>1, <4>1
      <4>2. CASE v \in revisions /\ v.doc = d
        BY <1>0, <2>1, <2>4, <3>4, <4>2
      <4>3. CASE v \in revisions /\ v.doc # d
        BY <1>0, <2>1, <4>3
      <4>4. QED
        BY <3>2, <4>1, <4>2, <4>3
    <3>6. ASSUME NEW v \in revisions', NEW w \in revisions',
                 v.id = w.id \/ (v.doc = w.doc /\ v.number = w.number)
          PROVE  v = w
      BY <1>0, <3>1, <3>2, <3>4, <3>6
    <3>7. ASSUME NEW e \in Docs, row'[e].here
          PROVE  /\ row'[e].number > 0 /\ Used(row[e].head)'
                 /\ \A k \in 1 .. row'[e].number :
                      \E v \in revisions' : v.doc = e /\ v.number = k
      <4>1. CASE e # d
        <5>1. row'[e] = row[e]
          BY <2>1, <4>1
        <5>2. /\ row[e].number > 0 /\ Used(row[e].head)
              /\ \A k \in 1 .. row[e].number :
                   \E v \in revisions : v.doc = e /\ v.number = k
          BY <3>7, <5>1
        <5>3. Used(row[e].head)'
          BY <2>1, <5>1, <5>2
        <5>4. QED
          BY <3>3, <5>1, <5>2, <5>3
      <4>2. CASE e = d
        <5>1. ASSUME NEW k \in 1 .. n PROVE \E v \in revisions' : v.doc = d /\ v.number = k
          <6>1. CASE k = n
            BY <3>1, <3>3, <6>1
          <6>2. CASE k # n
            <7>1. row[d].here /\ k \in 1 .. row[d].number
              <8>1. row[d].number \in Nat
                BY DEF TypeOK, Row
              <8>2. QED
                BY <2>4, <6>2, <8>1
            <7>2. QED
              BY <3>3, <7>1
          <6>3. QED
            BY <6>1, <6>2
        <5>2. QED
          BY <2>1, <2>4, <4>2, <5>1
      <4>3. QED
        BY <4>1, <4>2
    <3>8. QED
      BY <3>5, <3>6, <3>7
  <2>5. ASSUME NEW t \in Threads, Creates(r, d, t) PROVE RevisionsOK'
    <3>1. ~ row[d].here /\ row'[d].here /\ row'[d].head = r /\ row'[d].number = 1
      BY <2>5, CreateColumns, ZenonT(60) DEF Creates
    <3> DEFINE u == [id |-> r, doc |-> d, number |-> 1, prev |-> Nil]
    <3>2. revisions' = revisions \union {u} /\ u.id = r /\ u.doc = d /\ u.number = 1
      BY <2>5 DEF Creates
    <3> HIDE DEF u
    <3>3. QED
      BY <2>4, <3>1, <3>2
  <2>6. CASE Revises(r, d)
    <3>1. LoadedOK(req[r])
      BY <2>6 DEF Revises, CallsOK
    <3>2. row[d].here /\ row[d].number = req[r].saw.number /\ row[d].number \in Nat
      BY <2>6, <3>1 DEF Revises, LoadedOK, TypeOK, Row
    <3>3. row'[d].here /\ row'[d].head = r /\ row'[d].number = row[d].number + 1
      BY <2>6, <3>2, ReviseColumns
    <3> DEFINE u == [id |-> r, doc |-> d, number |-> row[d].number + 1,
                     prev |-> req[r].saw.head]
    <3>4. /\ revisions' = revisions \union {u}
          /\ u.id = r /\ u.doc = d /\ u.number = row[d].number + 1
      BY <2>6, <3>2 DEF Revises
    <3> HIDE DEF u
    <3>5. QED
      BY <2>4, <3>2, <3>3, <3>4
  <2>7. QED
    BY <1>2, <2>2, <2>3, <2>5, <2>6 DEF Writes
<1>3. QED
  BY <1>1, <1>2, StepKinds DEF Quiet, vars

-----------------------------------------------------------------------------
(* The rows against the log. *)

LEMMA Recorded ==
  ASSUME NEW r \in Requests, NEW d \in Docs
  PROVE  /\ \A t \in Threads : Creates(r, d, t) =>
              commits'[Now].op = "create" /\ commits'[Now].says /\ ~ commits'[Now].based
         /\ Patches(r, d) \/ Revises(r, d) \/ Marks(r, d) =>
              /\ req[r].pc = "loaded" /\ req[r].doc = d
              /\ commits'[Now].op = req[r].op /\ commits'[Now].says = req[r].says
              /\ commits'[Now].loaded = req[r].loaded /\ commits'[Now].read = req[r].read
              /\ commits'[Now].based <=> (req[r].strict \/ req[r].named)
         /\ Purges(r, d) =>
              commits'[Now].op = "purge" /\ ~ commits'[Now].says /\ ~ commits'[Now].based
<1>1. ASSUME NEW t \in Threads, Creates(r, d, t)
      PROVE  commits'[Now].op = "create" /\ commits'[Now].says /\ ~ commits'[Now].based
  <2>1. /\ Created(d, t).op = "create" /\ Created(d, t).says
        /\ ~ Created(d, t).strict /\ ~ Created(d, t).named
    BY DEF Created, Plain, Idle
  <2>2. QED
    BY <1>1, <2>1 DEF Creates, Commits, Logged
<1>2. ASSUME Patches(r, d) \/ Revises(r, d) \/ Marks(r, d)
      PROVE  /\ req[r].pc = "loaded" /\ req[r].doc = d
             /\ commits'[Now].op = req[r].op /\ commits'[Now].says = req[r].says
             /\ commits'[Now].loaded = req[r].loaded /\ commits'[Now].read = req[r].read
             /\ commits'[Now].based <=> (req[r].strict \/ req[r].named)
  BY <1>2 DEF Patches, Revises, Marks, Commits, Logged
<1>3. ASSUME Purges(r, d)
      PROVE  commits'[Now].op = "purge" /\ ~ commits'[Now].says /\ ~ commits'[Now].based
  <2> DEFINE q == [Plain("purge", d, Nil, FALSE) EXCEPT !.loaded = Len(commits)]
  <2>1. q.op = "purge" /\ ~ q.says /\ ~ q.strict /\ ~ q.named
    BY DEF Plain, Idle
  <2>2. Logged(r, q)
    BY <1>3 DEF Purges, Commits
  <2> HIDE DEF q
  <2>3. QED
    BY <2>1, <2>2 DEF Logged
<1>4. QED
  BY <1>1, <1>2, <1>3

LEMMA RecordedOps ==
  ASSUME TypeOK, NEW r \in Requests, NEW d \in Docs, Writes(r, d)
  PROVE  /\ (\E t \in Threads : Creates(r, d, t)) <=> commits'[Now].op = "create"
         /\ Patches(r, d) <=> commits'[Now].op = "patch"
         /\ Revises(r, d) <=> commits'[Now].op = "revise"
         /\ Marks(r, d) <=> commits'[Now].op \in Marking
         /\ Purges(r, d) <=> commits'[Now].op = "purge"
<1>1. /\ Patches(r, d) => req[r].op = "patch"
      /\ Revises(r, d) => req[r].op = "revise"
      /\ Marks(r, d) => req[r].op \in Marking
  BY DEF Patches, Revises, Marks
<1>2. {"create", "patch", "revise", "purge"} \intersect Marking = {}
  BY DEF Marking
<1>3. QED
  BY <1>1, <1>2, Recorded DEF Writes

LEMMA TimestampsStep ==
  ASSUME TypeOK, TimestampsOK, [Next]_vars
  PROVE  TimestampsOK'
<1>1. CASE UNCHANGED <<row, commits>>
  BY <1>1 DEF TimestampsOK, Positions
<1>2. ASSUME NEW r \in Requests, NEW d \in Docs, Writes(r, d) PROVE TimestampsOK'
  <2>1. /\ Positions' = Positions \union {Now} /\ Now = Len(commits) + 1 /\ Len(commits') = Now
        /\ \A i \in Positions : commits'[i] = commits[i] /\ i \in Nat /\ i <= Now
        /\ commits'[Now].doc = d
        /\ \A e \in Docs \ {d} : row'[e] = row[e]
        /\ Len(commits) \in Nat /\ Now \in Nat
        /\ \A e \in Docs : row[e].updated \in Nat
    BY <1>2, WriteFrame, LogLength DEF TypeOK, Row, Positions
  <2>2. \/ row'[d].updated = Now
        \/ row'[d].updated = 0 /\ ~ row'[d].here
        \/ /\ row'[d].updated = row[d].updated /\ (row'[d].here <=> row[d].here)
           /\ commits'[Now].op \notin TimeOps
    <3>1. ASSUME NEW t \in Threads, Creates(r, d, t) PROVE row'[d].updated = Now
      BY <3>1, CreateColumns
    <3>2. Patches(r, d) \/ Revises(r, d) => row'[d].updated = Now
      BY PatchColumns, ReviseColumns
    <3>3. Marks(r, d) => /\ row'[d].updated = row[d].updated /\ (row'[d].here <=> row[d].here)
                         /\ commits'[Now].op \notin TimeOps
      BY <1>2, MarkColumns, RecordedOps DEF TimeOps, HeadOps, Marking
    <3>4. Purges(r, d) => row'[d].updated = 0 /\ ~ row'[d].here
      BY PurgeColumns
    <3>5. QED
      BY <1>2, <3>1, <3>2, <3>3, <3>4 DEF Writes
  <2>3. QED
    BY <2>1, <2>2 DEF TimestampsOK
<1>3. QED
  BY <1>1, <1>2, StepKinds DEF Quiet, vars

LEMMA TrashStep ==
  ASSUME TypeOK, TrashOK, [Next]_vars
  PROVE  TrashOK'
<1>1. CASE UNCHANGED <<row, commits>>
  BY <1>1 DEF TrashOK, Positions
<1>2. ASSUME NEW r \in Requests, NEW d \in Docs, Writes(r, d) PROVE TrashOK'
  <2>1. /\ Positions' = Positions \union {Now}
        /\ \A i \in Positions : commits'[i] = commits[i] /\ i < Now
        /\ commits'[Now].doc = d
        /\ \A e \in Docs \ {d} : row'[e] = row[e]
    BY <1>2, WriteFrame, LogLength DEF Positions, Now
  <2>2. \A i \in Positions : commits[i].doc \in Docs
    <3>1. \A i \in Positions : commits[i] \in CommitRecord
      BY DEF TypeOK, Positions
    <3>2. QED
      BY <3>1 DEF CommitRecord
  <2>3. \/ commits'[Now].op \in TrashEnds
        \/ /\ commits'[Now].op # "trash"
           /\ row'[d].trashed = row[d].trashed /\ row'[d].here = row[d].here
        \/ commits'[Now].op = "trash" /\ (row'[d].here => row'[d].trashed)
    <3>1. CASE Marks(r, d)
      <4>1. row'[d].here = row[d].here /\ commits'[Now].op = req[r].op
            /\ req[r].op \in Marking
        BY <3>1, MarkColumns, Recorded DEF Marks
      <4>2. row[d].here \/ row'[d].trashed = row[d].trashed
        BY <3>1 DEF Marks
      <4>3. QED
        BY <3>1, <4>1, <4>2, SMTT(40) DEF Marks, Marking, TrashEnds
    <3>2. QED
      BY <1>2, <3>1, PatchColumns, ReviseColumns, RecordedOps DEF Writes, TrashEnds
  <2>4. SUFFICES ASSUME NEW i \in Positions', commits'[i].op = "trash",
                        row'[commits'[i].doc].here,
                        \A k \in Positions' : i < k /\ commits'[k].doc = commits'[i].doc
                                                => commits'[k].op \notin TrashEnds
                 PROVE  row'[commits'[i].doc].trashed
    BY DEF TrashOK
  <2>5. CASE i = Now
    BY <2>1, <2>3, <2>4, <2>5 DEF TrashEnds
  <2>6. CASE i \in Positions
    <3>1. /\ commits[i].op = "trash"
          /\ \A k \in Positions : i < k /\ commits[k].doc = commits[i].doc
                                    => commits[k].op \notin TrashEnds
          /\ commits[i].doc = d => commits'[Now].op \notin TrashEnds
      BY <2>1, <2>4, <2>6
    <3>2. row[commits[i].doc].here => row[commits[i].doc].trashed
      BY <2>6, <3>1 DEF TrashOK
    <3>3. commits[i].doc \in Docs
      BY <2>2, <2>6
    <3>4. QED
      BY <2>1, <2>3, <2>4, <2>6, <3>1, <3>2, <3>3
  <2>7. QED
    BY <2>1, <2>5, <2>6
<1>3. QED
  BY <1>1, <1>2, StepKinds DEF Quiet, vars

LEMMA BindingStep ==
  ASSUME TypeOK, ThreadBinding, CallsOK, [Next]_vars
  PROVE  ThreadBinding'
<1>1. CASE UNCHANGED <<row, subject, commits>>
  BY <1>1 DEF ThreadBinding, Positions
<1>2. ASSUME NEW r \in Requests, NEW d \in Docs, Writes(r, d) PROVE ThreadBinding'
  <2>1. /\ Positions' = Positions \union {Now}
        /\ \A i \in Positions : commits'[i] = commits[i]
        /\ commits'[Now].doc = d
        /\ \A e \in Docs \ {d} : row'[e] = row[e]
    BY <1>2, WriteFrame
  <2>2. \A e \in Docs : (\E i \in Positions : commits[i].op = "purge" /\ commits[i].doc = e)
          => \E i \in Positions' : commits'[i].op = "purge" /\ commits'[i].doc = e
    BY <2>1
  <2>3. CASE Patches(r, d) \/ Marks(r, d)
    <3>1. row'[d].here = row[d].here /\ row'[d].thread = row[d].thread
      BY <2>3, PatchColumns, MarkColumns
    <3>2. subject' = subject
      BY <2>3 DEF Patches, Marks
    <3>3. \A e \in Docs : row'[e].here = row[e].here /\ row'[e].thread = row[e].thread
      BY <2>1, <3>1
    <3>4. QED
      BY <2>2, <3>2, <3>3 DEF ThreadBinding
  <2>4. CASE Purges(r, d)
    <3>1. subject' = subject /\ ~ row'[d].here /\ commits'[Now].op = "purge"
      BY <2>4, PurgeColumns, Recorded DEF Purges
    <3>2. \E i \in Positions' : commits'[i].op = "purge" /\ commits'[i].doc = d
      BY <2>1, <3>1
    <3>3. QED
      BY <2>1, <2>2, <3>1, <3>2 DEF ThreadBinding
  <2>5. ASSUME NEW t \in Threads, MayBind(d, t), row'[d].here, row'[d].thread = t,
               subject'[t] = d,
               \A x \in Threads \ {t} :
                 subject'[x] = IF row[d].here /\ x = row[d].thread THEN Nil ELSE subject[x]
        PROVE  ThreadBinding'
    <3>1. Nil \notin Docs /\ subject[t] \in {Nil, d}
      BY <2>5, DocumentConstants DEF MayBind
    <3>2. ASSUME NEW e \in Docs, row'[e].here
          PROVE  row'[e].thread \in Threads /\ subject'[row'[e].thread] = e
      <4>1. CASE e = d
        BY <2>5, <4>1
      <4>2. CASE e # d
        <5>1. row'[e] = row[e] /\ row[e].thread \in Threads /\ subject[row[e].thread] = e
          BY <2>1, <3>2, <4>2 DEF ThreadBinding
        <5>2. row[e].thread # t
          BY <3>1, <4>2, <5>1
        <5>3. row[d].here => row[e].thread # row[d].thread
          BY <4>2, <5>1 DEF ThreadBinding
        <5>4. QED
          BY <2>5, <5>1, <5>2, <5>3
      <4>3. QED
        BY <4>1, <4>2
    <3>3. ASSUME NEW x \in Threads, NEW e \in Docs, subject'[x] = e
          PROVE  \/ row'[e].here /\ row'[e].thread = x
                 \/ \E i \in Positions' : commits'[i].op = "purge" /\ commits'[i].doc = e
      <4>1. CASE x = t
        BY <2>5, <3>3, <4>1
      <4>2. CASE x # t
        <5>1. subject[x] = e /\ ~ (row[d].here /\ x = row[d].thread)
          BY <2>5, <3>1, <3>3, <4>2
        <5>2. \/ row[e].here /\ row[e].thread = x
              \/ \E i \in Positions : commits[i].op = "purge" /\ commits[i].doc = e
          BY <5>1 DEF ThreadBinding
        <5>3. QED
          BY <2>1, <2>2, <5>1, <5>2
      <4>3. QED
        BY <4>1, <4>2
    <3>4. QED
      BY <3>2, <3>3 DEF ThreadBinding
  <2>6. ASSUME NEW t \in Threads, Creates(r, d, t) PROVE ThreadBinding'
    <3>1. row'[d].here /\ row'[d].thread = t
      BY <2>6, CreateColumns
    <3>2. MayBind(d, t) /\ ~ row[d].here /\ subject' = [subject EXCEPT ![t] = d]
      BY <2>6 DEF Creates
    <3>3. QED
      BY <2>5, <3>1, <3>2 DEF TypeOK
  <2>7. CASE Revises(r, d)
    <3>1. LoadedOK(req[r]) /\ req[r] \in Request
      BY <2>7 DEF Revises, CallsOK, TypeOK
    <3>2. row[d].here /\ row[d].thread = req[r].saw.thread /\ row[d].thread \in Threads
          /\ subject[row[d].thread] = d
      BY <2>7, <3>1 DEF Revises, LoadedOK, ThreadBinding
    <3>3. NextThread(req[r]) \in Threads
      BY <3>1, <3>2 DEF NextThread, Request
    <3>4. /\ MayBind(d, NextThread(req[r])) /\ row'[d].here
          /\ row'[d].thread = NextThread(req[r])
          /\ subject' = Rebound(d, row[d].thread, NextThread(req[r]))
      BY <2>7, <3>2, ReviseColumns DEF Revises
    <3>5. QED
      BY <2>5, <3>2, <3>3, <3>4 DEF Rebound
  <2>8. QED
    BY <1>2, <2>3, <2>4, <2>6, <2>7 DEF Writes
<1>3. QED
  BY <1>1, <1>2, StepKinds DEF Quiet, vars

(* What a request that writes owes to its own call. *)
LEMMA WriterOK ==
  ASSUME TypeOK, CallsOK, NEW r \in Requests, NEW d \in Docs,
         Patches(r, d) \/ Revises(r, d) \/ Marks(r, d)
  PROVE  /\ req[r] \in Request /\ req[r].pc = "loaded" /\ req[r].doc = d
         /\ CallOK(req[r]) /\ LoadedOK(req[r])
<1>1. req[r].pc = "loaded" /\ req[r].doc = d
  BY Recorded
<1>2. QED
  BY <1>1 DEF CallsOK, InFlight, TypeOK

LEMMA SummariesStep ==
  ASSUME TypeOK, SummariesOK, CallsOK, [Next]_vars
  PROVE  SummariesOK'
<1>1. CASE UNCHANGED <<row, commits>>
  BY <1>1 DEF SummariesOK, Shows, Positions
<1>2. ASSUME NEW r \in Requests, NEW d \in Docs, Writes(r, d) PROVE SummariesOK'
  <2>1. /\ Positions' = Positions \union {Now} /\ Now = Len(commits) + 1 /\ Len(commits') = Now
        /\ \A i \in Positions : commits'[i] = commits[i] /\ i < Now /\ i \in Nat
                                 /\ i <= Len(commits)
        /\ commits'[Now].doc = d /\ commits'[Now].by = r
        /\ \A e \in Docs \ {d} : row'[e] = row[e]
        /\ Len(commits) \in Nat /\ Now \in Nat
    BY <1>2, WriteFrame, LogLength DEF Positions
  <2>2. SUFFICES ASSUME NEW e \in Docs, NEW i \in Positions',
                        commits'[i].doc = e, commits'[i].says,
                        \A j \in Positions' : i < j /\ j <= Len(commits') /\ commits'[j].doc = e
                                       => ~ commits'[j].says /\ commits'[j].op # "purge"
                 PROVE  \/ row'[e].summary = commits'[i].by
                        \/ \E j \in Positions' :
                             /\ i < j /\ j <= Len(commits') /\ commits'[j].doc = e
                             /\ commits'[j].op = "revise" /\ commits'[j].loaded < i
    BY DEF SummariesOK, Shows
  <2>3. /\ \A t \in Threads : Creates(r, d, t) => row'[d].summary = r /\ commits'[Now].says
        /\ Patches(r, d) => row'[d].summary = r /\ commits'[Now].says
        /\ Revises(r, d) => row'[d].summary = IF commits'[Now].says THEN r
                                              ELSE req[r].saw.summary
        /\ Marks(r, d) => row'[d].summary = row[d].summary /\ ~ commits'[Now].says
        /\ Purges(r, d) => commits'[Now].op = "purge" /\ ~ commits'[Now].says
    <3>1. \A t \in Threads : Creates(r, d, t) => row'[d].summary = r /\ commits'[Now].says
      BY CreateColumns, Recorded
    <3>2. Patches(r, d) => row'[d].summary = r /\ commits'[Now].says
      <4> SUFFICES ASSUME Patches(r, d) PROVE row'[d].summary = r /\ commits'[Now].says
        BY SMTT(40)
      <4>1. req[r].op = "patch" /\ CallOK(req[r]) /\ commits'[Now].says = req[r].says
        BY WriterOK, Recorded DEF Patches
      <4>2. req[r].says
        BY <4>1 DEF CallOK
      <4>3. row'[d].summary = r
        BY PatchColumns
      <4>4. QED
        BY <4>1, <4>2, <4>3
    <3>3. Revises(r, d) => row'[d].summary = IF commits'[Now].says THEN r
                                             ELSE req[r].saw.summary
      BY ReviseColumns, Recorded, SMTT(40)
    <3>4. Marks(r, d) => row'[d].summary = row[d].summary /\ ~ commits'[Now].says
      BY MarkColumns, Recorded, WriterOK DEF Marks, CallOK
    <3>5. QED
      BY <3>1, <3>2, <3>3, <3>4, Recorded
  <2>4. CASE i = Now
    BY <1>2, <2>1, <2>2, <2>3, <2>4 DEF Writes
  <2>5. CASE i \in Positions
    <3>1. /\ commits[i].doc = e /\ commits[i].says /\ commits[i].by = commits'[i].by
          /\ \A j \in Positions : i < j /\ commits[j].doc = e
                                    => ~ commits[j].says /\ commits[j].op # "purge"
          /\ d = e => ~ commits'[Now].says /\ commits'[Now].op # "purge"
      BY <2>1, <2>2, <2>5
    <3>2. ASSUME NEW s, NEW n \in Nat, n <= Len(commits), i <= n, Shows(s, e, n)
          PROVE  \/ s = commits'[i].by
                 \/ \E j \in Positions' :
                      /\ i < j /\ j <= Len(commits') /\ commits'[j].doc = e
                      /\ commits'[j].op = "revise" /\ commits'[j].loaded < i
      <4>1. \/ s = commits[i].by
            \/ \E j \in Positions : /\ i < j /\ j <= n /\ commits[j].doc = e
                                    /\ commits[j].op = "revise" /\ commits[j].loaded < i
        BY <2>5, <3>1, <3>2 DEF Shows
      <4>2. QED
        BY <2>1, <3>1, <4>1
    <3>3. CASE row'[e].summary = row[e].summary
      <4>1. Shows(row[e].summary, e, Len(commits))
        BY DEF SummariesOK
      <4>2. QED
        BY <2>1, <2>5, <3>2, <3>3, <4>1
    <3>4. CASE row'[e].summary # row[e].summary
      <4>1. e = d /\ Revises(r, d) /\ row'[e].summary = req[r].saw.summary
        BY <1>2, <2>1, <2>3, <3>1, <3>4 DEF Writes
      <4>2. /\ commits'[Now].op = "revise" /\ commits'[Now].loaded = req[r].loaded
            /\ req[r].doc = d /\ Shows(req[r].saw.summary, d, req[r].loaded)
            /\ req[r].loaded \in Nat /\ req[r].loaded <= Len(commits)
        BY <4>1, WriterOK, Recorded DEF Revises, LoadedOK, Request
      <4>3. CASE i <= req[r].loaded
        BY <3>2, <4>1, <4>2, <4>3
      <4>4. CASE req[r].loaded < i
        BY <2>1, <2>5, <4>1, <4>2, <4>4
      <4>5. QED
        BY <2>1, <2>5, <4>2, <4>3, <4>4
    <3>5. QED
      BY <3>3, <3>4
  <2>6. QED
    BY <2>1, <2>4, <2>5
<1>3. QED
  BY <1>1, <1>2, StepKinds DEF Quiet, vars

-----------------------------------------------------------------------------
(* The properties of the log. *)


LEMMA BlindStep ==
  ASSUME TypeOK, TimestampsOK, CallsOK, NoBlindWrite, [Next]_vars
  PROVE  NoBlindWrite'
<1>1. CASE UNCHANGED commits
  BY <1>1 DEF NoBlindWrite, Positions, Between
<1>2. ASSUME NEW r \in Requests, NEW d \in Docs, Writes(r, d) PROVE NoBlindWrite'
  <2>1. /\ Positions' = Positions \union {Now}
        /\ \A i \in Positions : commits'[i] = commits[i] /\ i < Now /\ i \in Nat
        /\ commits'[Now].doc = d /\ Now \in Nat
    BY <1>2, WriteFrame, LogLength DEF Positions, Now
  <2>2. SUFFICES ASSUME NEW i \in Positions', NEW j \in Positions',
                        commits'[i].based, commits'[i].read < j, j < i,
                        commits'[j].doc = commits'[i].doc
                 PROVE  /\ commits'[j].op \notin {"create", "revise", "purge"}
                        /\ commits'[i].op = "patch" => commits'[j].op # "patch"
    BY DEF NoBlindWrite, Between
  <2>3. CASE i \in Positions
    <3>1. j \in Positions
      BY <2>1, <2>2, <2>3
    <3>2. QED
      BY <2>1, <2>2, <2>3, <3>1 DEF NoBlindWrite, Between
  <2>4. CASE i = Now
    <3>1. j \in Positions /\ commits'[j] = commits[j] /\ commits[j].doc = d
      BY <2>1, <2>2, <2>4
    <3>2. Patches(r, d) \/ Revises(r, d) \/ Marks(r, d)
      BY <1>2, <2>2, <2>4, Recorded DEF Writes
    <3>3. /\ CallOK(req[r]) /\ LoadedOK(req[r]) /\ req[r].doc = d /\ req[r].pc = "loaded"
          /\ req[r].strict \/ req[r].named
          /\ commits'[Now].op = req[r].op /\ req[r].read < j
          /\ req[r] \in Request
      BY <2>2, <2>4, <3>2, WriterOK, Recorded
    <3>4. CASE Patches(r, d)
      <4>1. row[d].here /\ row[d].updated = req[r].want /\ req[r].want <= req[r].read
        BY <3>3, <3>4 DEF Patches, CallOK, LoadedOK
      <4>2. commits[j].op \notin TimeOps
        <5>1. req[r].want \in Nat /\ req[r].read \in Nat /\ j \in Nat
          BY <2>1, <3>1, <3>3 DEF Request
        <5>2. QED
          BY <3>1, <3>3, <4>1, <5>1 DEF TimestampsOK
      <4>3. QED
        BY <3>1, <4>2 DEF TimeOps, HeadOps
    <3>5. CASE Revises(r, d)
      <4>1. HeadStands(req[r]) /\ row[d].here /\ row[d].head = req[r].base
        BY <3>3, <3>5 DEF Revises, CallOK
      <4>2. commits[j].op \notin HeadOps
        BY <3>1, <3>3, <4>1 DEF HeadStands
      <4>3. QED
        BY <2>4, <3>1, <3>3, <3>5, <4>2 DEF HeadOps, Revises
    <3>6. CASE Marks(r, d)
      BY <3>3, <3>6 DEF Marks, CallOK, Marking
    <3>7. QED
      BY <3>2, <3>4, <3>5, <3>6
  <2>5. QED
    BY <2>1, <2>3, <2>4
<1>3. QED
  BY <1>1, <1>2, StepKinds DEF Quiet, vars

LEMMA AlternateStep ==
  ASSUME TypeOK, CallsOK, TrashEventsAlternate, [Next]_vars
  PROVE  TrashEventsAlternate'
<1>1. CASE UNCHANGED commits
  BY <1>1 DEF TrashEventsAlternate, Positions, Between
<1>2. ASSUME NEW r \in Requests, NEW d \in Docs, Writes(r, d) PROVE TrashEventsAlternate'
  <2>1. /\ Positions' = Positions \union {Now}
        /\ \A i \in Positions : commits'[i] = commits[i] /\ i < Now /\ i \in Nat
        /\ commits'[Now].doc = d /\ Now \in Nat
    BY <1>2, WriteFrame, LogLength DEF Positions, Now
  <2>2. SUFFICES ASSUME NEW i \in Positions', NEW j \in Positions',
                        commits'[i].op = "trash", commits'[j].op = "trash",
                        i < j, commits'[i].doc = commits'[j].doc,
                        \A k \in Positions' : i < k /\ k < j /\ commits'[k].doc = commits'[j].doc
                                         => commits'[k].op \notin {"restore", "create", "purge"}
                 PROVE  commits'[j].loaded < i
    BY DEF TrashEventsAlternate, Between
  <2>3. i \in Positions /\ commits'[i] = commits[i]
    BY <2>1, <2>2
  <2>4. CASE j \in Positions
    <3>1. commits'[j] = commits[j]
      BY <2>1, <2>4
    <3>2. \A k \in Positions : Between(i, k, j)
             => commits[k].op \notin {"restore", "create", "purge"}
      BY <2>1, <2>2, <3>1 DEF Between
    <3>3. QED
      BY <2>2, <2>3, <2>4, <3>1, <3>2 DEF TrashEventsAlternate
  <2>5. CASE j = Now
    <3>1. Marks(r, d) /\ commits'[Now].loaded = req[r].loaded /\ req[r].op = "trash"
          /\ commits[i].op = "trash" /\ commits[i].doc = d
      BY <1>2, <2>1, <2>2, <2>3, <2>5, RecordedOps, Recorded DEF Marking
    <3>2. LoadedOK(req[r]) /\ req[r].doc = d /\ req[r].loaded \in Nat
      BY <3>1, WriterOK DEF Request
    <3>3. ASSUME i <= req[r].loaded PROVE FALSE
      <4>1. PICK k \in Positions : i < k /\ commits[k].doc = d /\ commits[k].op \in TrashEnds
        BY <2>3, <3>1, <3>2, <3>3 DEF LoadedOK
      <4>2. QED
        BY <2>1, <2>2, <2>5, <4>1 DEF TrashEnds
    <3>4. QED
      BY <2>1, <2>3, <2>5, <3>1, <3>2, <3>3
  <2>6. QED
    BY <2>1, <2>4, <2>5
<1>3. QED
  BY <1>1, <1>2, StepKinds DEF Quiet, vars

LEMMA MarksStep ==
  ASSUME TypeOK, CallsOK, MarksExclude, [Next]_vars
  PROVE  MarksExclude'
<1>1. CASE UNCHANGED <<row, commits>>
  BY <1>1 DEF MarksExclude, Positions, Between
<1>2. ASSUME NEW r \in Requests, NEW d \in Docs, Writes(r, d) PROVE MarksExclude'
  <2>1. /\ Positions' = Positions \union {Now}
        /\ \A i \in Positions : commits'[i] = commits[i] /\ i < Now
        /\ commits'[Now].doc = d
        /\ \A e \in Docs \ {d} : row'[e] = row[e]
    BY <1>2, WriteFrame, LogLength DEF Positions, Now
  <2>2. SUFFICES ASSUME NEW e \in Docs, row'[e].trashed, row'[e].archived
                 PROVE  \E i, j \in Positions' :
                          /\ commits'[i].op = "archive" /\ commits'[i].doc = e
                          /\ commits'[j].op = "trash"
                          /\ commits'[i].loaded < j /\ j < i
                          /\ commits'[j].doc = commits'[i].doc
    BY DEF MarksExclude, Between
  <2>3. CASE row[e].trashed /\ row[e].archived
    <3>1. PICK i \in Positions, j \in Positions :
            /\ commits[i].op = "archive" /\ commits[i].doc = e
            /\ commits[j].op = "trash"
            /\ commits[i].loaded < j /\ j < i
            /\ commits[j].doc = commits[i].doc
      BY <2>3 DEF MarksExclude, Between
    <3>2. QED
      BY <2>1, <3>1
  <2>4. CASE ~ (row[e].trashed /\ row[e].archived)
    <3>1. e = d /\ Marks(r, d) /\ row[d].here
      <4>1. e = d
        BY <2>1, <2>2, <2>4
      <4>2. Marks(r, d)
        BY <1>2, <2>2, <2>4, <4>1, CreateColumns, PatchColumns, ReviseColumns, PurgeColumns
        DEF Writes
      <4>3. row[d].here
        BY <2>2, <2>4, <4>1, <4>2, SMTT(40) DEF Marks
      <4>4. QED
        BY <4>1, <4>2, <4>3
    <3>2. req[r].op = "archive" /\ row[d].trashed
      BY <2>2, <2>4, <3>1, WriterOK DEF Marks, Marking
    <3>3. /\ LoadedOK(req[r]) /\ req[r].doc = d
          /\ commits'[Now].op = "archive" /\ commits'[Now].loaded = req[r].loaded
      BY <3>1, <3>2, WriterOK, Recorded
    <3>4. PICK j \in Positions : /\ req[r].loaded < j /\ commits[j].doc = d
                                 /\ commits[j].op = "trash"
      BY <3>2, <3>3 DEF LoadedOK
    <3>5. QED
      BY <2>1, <3>1, <3>3, <3>4
  <2>5. QED
    BY <2>3, <2>4
<1>3. QED
  BY <1>1, <1>2, StepKinds DEF Quiet, vars

-----------------------------------------------------------------------------
(* The calls in flight. *)

(* The columns a call relies on change with the head, which is new then.   *)
LEMMA HeadMoves ==
  ASSUME TypeOK, NEW r \in Requests, NEW d \in Docs, Writes(r, d)
  PROVE  \/ ~ row'[d].here
         \/ row'[d].head = r
         \/ /\ row[d].here /\ row'[d].head = row[d].head
            /\ row'[d].number = row[d].number /\ row'[d].thread = row[d].thread
            /\ commits'[Now].op \notin HeadOps
<1>1. ASSUME NEW t \in Threads, Creates(r, d, t) PROVE row'[d].head = r
  BY <1>1, CreateColumns
<1>2. Revises(r, d) => row'[d].head = r
  BY ReviseColumns
<1>3. Purges(r, d) => ~ row'[d].here
  BY PurgeColumns
<1>4. Patches(r, d) \/ Marks(r, d) =>
        /\ row'[d].here = row[d].here /\ row'[d].head = row[d].head
        /\ row'[d].number = row[d].number /\ row'[d].thread = row[d].thread
  BY PatchColumns, MarkColumns
<1>5. Patches(r, d) \/ Marks(r, d) => commits'[Now].op \notin HeadOps
  BY RecordedOps DEF HeadOps, Marking
<1>6. QED
  BY <1>1, <1>2, <1>3, <1>4, <1>5 DEF Writes

LEMMA TrashMoves ==
  ASSUME TypeOK, NEW r \in Requests, NEW d \in Docs, Writes(r, d), row'[d].trashed
  PROVE  row[d].trashed \/ commits'[Now].op = "trash"
<1>1. CASE Marks(r, d)
  <2>1. commits'[Now].op = req[r].op /\ req[r].op \in Marking
    BY <1>1, Recorded DEF Marks
  <2>2. QED
    BY <1>1, <2>1 DEF Marks, Marking
<1>2. QED
  BY <1>1, CreateColumns, PatchColumns, ReviseColumns, PurgeColumns DEF Writes

LEMMA LogGrows ==
  ASSUME TypeOK, NEW r \in Requests, NEW d \in Docs, Writes(r, d)
  PROVE  /\ Positions' = Positions \union {Now} /\ Now = Len(commits) + 1 /\ Len(commits') = Now
         /\ Len(commits) \in Nat /\ Now \in Nat
         /\ \A i \in Positions : /\ commits'[i] = commits[i]
                                 /\ i \in Nat /\ i < Now /\ i <= Len(commits)
         /\ commits'[Now].doc = d
         /\ \A e \in Docs \ {d} : row'[e] = row[e]
  BY WriteFrame, LogLength DEF Positions

LEMMA ShowsStays ==
  ASSUME TypeOK, NEW r \in Requests, NEW d \in Docs, Writes(r, d),
         NEW s, NEW e \in Docs, NEW n \in Nat, n <= Len(commits), Shows(s, e, n)
  PROVE  Shows(s, e, n)'
<1>1. SUFFICES ASSUME NEW i \in Positions', i <= n, commits'[i].doc = e, commits'[i].says,
                      \A j \in Positions' : i < j /\ j <= n /\ commits'[j].doc = e
                                     => ~ commits'[j].says /\ commits'[j].op # "purge"
               PROVE  \/ s = commits'[i].by
                      \/ \E j \in Positions' :
                           /\ i < j /\ j <= n /\ commits'[j].doc = e
                           /\ commits'[j].op = "revise" /\ commits'[j].loaded < i
  BY DEF Shows
<1>2. i \in Positions /\ commits'[i] = commits[i]
  BY <1>1, LogGrows
<1>3. \A j \in Positions : i < j /\ j <= n /\ commits[j].doc = e
                             => ~ commits[j].says /\ commits[j].op # "purge"
  BY <1>1, LogGrows
<1>4. \/ s = commits[i].by
      \/ \E j \in Positions : /\ i < j /\ j <= n /\ commits[j].doc = e
                              /\ commits[j].op = "revise" /\ commits[j].loaded < i
  BY <1>1, <1>2, <1>3 DEF Shows
<1>5. QED
  BY <1>2, <1>4, LogGrows

LEMMA CallStays ==
  ASSUME TypeOK, [Next]_vars, NEW r \in Requests, NEW d \in Docs, Writes(r, d),
         NEW q \in Request, CallOK(q)
  PROVE  CallOK(q)'
<1>1. q.read <= Len(commits') /\ (q.base # Nil => Used(q.base)')
  <2>1. q.read \in Nat /\ q.read <= Len(commits)
    BY DEF CallOK, Request
  <2>2. q.base # Nil => Used(q.base)'
    BY UsedStays DEF CallOK
  <2>3. QED
    BY <2>1, <2>2, LogGrows
<1>2. ASSUME HeadStands(q) PROVE HeadStands(q)'
  <2>1. SUFFICES ASSUME row'[q.doc].here, row'[q.doc].head = q.base,
                        NEW j \in Positions', j > q.read, commits'[j].doc = q.doc
                 PROVE  commits'[j].op \notin HeadOps
    BY DEF HeadStands
  <2>2. row'[q.doc].head # r \/ q.doc # d
    <3>1. q.base = r => Used(r)
      BY NewRevision DEF CallOK
    <3>2. QED
      BY <2>1, <3>1, NewRevision
  <2>3. row[q.doc].here /\ row[q.doc].head = q.base
    BY <2>1, <2>2, LogGrows, HeadMoves DEF CallOK
  <2>4. CASE j \in Positions
    BY <1>2, <2>1, <2>3, <2>4, LogGrows DEF HeadStands
  <2>5. CASE j = Now
    BY <2>1, <2>2, <2>5, LogGrows, HeadMoves
  <2>6. QED
    BY <2>4, <2>5, LogGrows
<1>3. QED
  BY <1>1, <1>2 DEF CallOK

LEMMA LoadedStays ==
  ASSUME TypeOK, [Next]_vars, NEW r \in Requests, NEW d \in Docs, Writes(r, d),
         NEW q \in Request, q.doc \in Docs, LoadedOK(q)
  PROVE  LoadedOK(q)'
<1>1. q.loaded \in Nat /\ q.loaded <= Len(commits)
  BY DEF LoadedOK, Request
<1>2. Used(q.saw.head)' /\ q.loaded <= Len(commits')
  <2>1. Used(q.saw.head)'
    BY UsedStays DEF LoadedOK
  <2>2. QED
    BY <1>1, <2>1, LogGrows
<1>3. ASSUME row'[q.doc].here, row'[q.doc].head = q.saw.head
      PROVE  row'[q.doc].number = q.saw.number /\ row'[q.doc].thread = q.saw.thread
  <2>1. CASE q.doc # d
    BY <1>3, <2>1, LogGrows DEF LoadedOK
  <2>2. CASE q.doc = d
    <3>1. q.saw.head # r
      BY NewRevision DEF LoadedOK
    <3>2. QED
      BY <1>3, <2>2, <3>1, HeadMoves DEF LoadedOK
  <2>3. QED
    BY <2>1, <2>2
<1>4. Shows(q.saw.summary, q.doc, q.loaded)'
  BY <1>1, ShowsStays DEF LoadedOK
<1>5. ASSUME q.op = "archive", row'[q.doc].trashed
      PROVE  \E j \in Positions' : /\ q.loaded < j /\ commits'[j].doc = q.doc
                                   /\ commits'[j].op = "trash"
  <2>1. CASE row[q.doc].trashed
    <3>1. PICK j \in Positions : /\ q.loaded < j /\ commits[j].doc = q.doc
                                 /\ commits[j].op = "trash"
      BY <1>5, <2>1 DEF LoadedOK
    <3>2. QED
      BY <3>1, LogGrows
  <2>2. CASE ~ row[q.doc].trashed
    <3>1. q.doc = d
      BY <1>5, <2>2, LogGrows
    <3>2. commits'[Now].op = "trash"
      BY <1>5, <2>2, <3>1, TrashMoves
    <3>3. QED
      BY <1>1, <3>1, <3>2, LogGrows
  <2>3. QED
    BY <2>1, <2>2
<1>6. ASSUME q.op = "trash", NEW i \in Positions',
             i <= q.loaded, commits'[i].doc = q.doc, commits'[i].op = "trash"
      PROVE  \E k \in Positions' : /\ i < k /\ commits'[k].doc = q.doc
                                   /\ commits'[k].op \in TrashEnds
  <2>1. i \in Positions /\ commits'[i] = commits[i]
    BY <1>1, <1>6, LogGrows
  <2>2. PICK k \in Positions : /\ i < k /\ commits[k].doc = q.doc
                               /\ commits[k].op \in TrashEnds
    BY <1>6, <2>1 DEF LoadedOK
  <2>3. QED
    BY <2>2, LogGrows
<1>7. QED
  BY <1>2, <1>3, <1>4, <1>5, <1>6 DEF LoadedOK

(* A quiet step leaves what is said of a call as it is. *)
LEMMA QuietStays ==
  ASSUME TypeOK, [Next]_vars, UNCHANGED <<row, commits>>, NEW q
  PROVE  /\ CallOK(q) => CallOK(q)'
         /\ LoadedOK(q) => LoadedOK(q)'
<1>1. \A x : Used(x) => Used(x)'
  BY UsedStays
<1>2. Positions' = Positions
  BY DEF Positions
<1>3. HeadStands(q) <=> HeadStands(q)'
  BY <1>2 DEF HeadStands
<1>4. Shows(q.saw.summary, q.doc, q.loaded) => Shows(q.saw.summary, q.doc, q.loaded)'
  BY <1>2 DEF Shows
<1>5. CallOK(q) => CallOK(q)'
  BY <1>1, <1>3 DEF CallOK
<1>6. LoadedOK(q) => LoadedOK(q)'
  BY <1>1, <1>2, <1>4 DEF LoadedOK
<1>7. QED
  BY <1>5, <1>6

LEMMA ArrivingOK ==
  ASSUME TypeOK, CallsOK, NEW r \in Requests, NEW q \in Request,
         NEW stage \in {"sent", "checked"}, Arrives(r, q, stage)
  PROVE  CallOK(q)
<1>1. CASE req[r].pc = stage /\ q = req[r]
  BY <1>1 DEF CallsOK, InFlight
<1>2. ASSUME NEW op \in {"patch", "revise"} \union Marking, NEW d \in Docs,
             NEW t \in Threads \union {Nil}, NEW says \in BOOLEAN,
             q = Plain(op, d, t, says), op = "patch" => says, op \in Marking => ~ says
      PROVE  CallOK(q)
  <2>1. /\ q.doc = d /\ q.op = op /\ q.says = says /\ ~ q.strict /\ ~ q.named
        /\ q.want = 0 /\ q.read = Len(commits) /\ q.base = Nil
    BY <1>2 DEF Plain, Idle
  <2>2. QED
    BY <1>2, <2>1, LogLength DEF CallOK
<1>3. QED
  BY <1>1, <1>2 DEF Arrives

LEMMA SentOK ==
  ASSUME TypeOK, RevisionsOK, TimestampsOK, NEW r \in Requests, Sends(r),
         NEW n \in Request, n = req'[r]
  PROVE  CallOK(n) /\ n.pc # "loaded"
<1>1. PICK op \in {"patch", "revise"}, d \in Docs, t \in Threads \union {Nil},
           says \in BOOLEAN, strict \in BOOLEAN, named \in BOOLEAN :
        /\ strict # named
        /\ op = "patch" => strict /\ says
        /\ n = BasedCall(op, d, t, says, strict, named)
  BY DEF Sends
<1>2. /\ n.doc = d /\ n.op = op /\ n.says = says /\ n.strict = strict /\ n.named = named
      /\ n.want = row[d].updated /\ n.read = Len(commits) /\ n.base = row[d].head
      /\ n.pc \in {"sent", "checked"}
  BY <1>1 DEF BasedCall, Plain, Idle
<1>3. row[d].head # Nil => Used(row[d].head)
  <2>1. CASE row[d].here
    BY <2>1 DEF RevisionsOK
  <2>2. CASE ~ row[d].here
    BY <2>2 DEF TypeOK, NoRow
  <2>3. QED
    BY <2>1, <2>2
<1>4. HeadStands(n)
  BY <1>2, LogLength DEF HeadStands, Positions
<1>5. row[d].updated <= Len(commits)
  BY DEF TimestampsOK
<1>6. QED
  BY <1>1, <1>2, <1>3, <1>4, <1>5, LogLength DEF CallOK, Marking

LEMMA CheckedOK ==
  ASSUME TypeOK, RevisionsOK, TimestampsOK, CallsOK, NEW r \in Requests, Checks(r),
         NEW n \in Request, n = req'[r]
  PROVE  CallOK(n) /\ n.pc # "loaded"
<1>1. PICK q \in Request :
        /\ Arrives(r, q, "sent")
        /\ row[q.doc].here /\ (q.strict => q.want = row[q.doc].updated)
        /\ n = [q EXCEPT !.pc = "checked",
                         !.base = IF q.named THEN q.base ELSE row[q.doc].head]
  BY DEF Checks
<1>2. CallOK(q) /\ q.doc \in Docs
  BY <1>1, ArrivingOK DEF CallOK
<1>3. /\ n.doc = q.doc /\ n.op = q.op /\ n.says = q.says /\ n.strict = q.strict
      /\ n.named = q.named /\ n.want = q.want /\ n.read = q.read /\ n.pc = "checked"
      /\ n.base = IF q.named THEN q.base ELSE row[q.doc].head
  BY <1>1 DEF Request
<1>4. Used(row[q.doc].head)
  BY <1>1, <1>2 DEF RevisionsOK
<1>5. ASSUME n.op = "revise", n.named PROVE HeadStands(n)
  <2>1. HeadStands(q) /\ n.base = q.base
    BY <1>2, <1>3, <1>5 DEF CallOK
  <2>2. QED
    BY <1>3, <2>1 DEF HeadStands
<1>6. ASSUME n.strict PROVE HeadStands(n)
  <2>1. ASSUME NEW j \in Positions, j > n.read, commits[j].doc = n.doc
        PROVE  commits[j].op \notin HeadOps
    <3>1. /\ row[q.doc].updated <= q.read /\ q.read \in Nat /\ j \in Nat
          /\ row[q.doc].updated \in Nat
      BY <1>1, <1>2, <1>3, <1>6 DEF CallOK, Request, Positions
    <3>2. commits[j].op \notin TimeOps
      BY <1>1, <1>2, <1>3, <2>1, <3>1 DEF TimestampsOK
    <3>3. QED
      BY <3>2 DEF TimeOps
  <2>2. QED
    BY <2>1 DEF HeadStands
<1>7. n.base # Nil => Used(n.base)
  BY <1>2, <1>3, <1>4 DEF CallOK
<1>8. QED
  BY <1>2, <1>3, <1>5, <1>6, <1>7 DEF CallOK

LEMMA LoadedNow ==
  ASSUME TypeOK, RevisionsOK, SummariesOK, TrashOK, ThreadBinding, CallsOK,
         NEW r \in Requests, Loads(r), NEW n \in Request, n = req'[r]
  PROVE  CallOK(n) /\ LoadedOK(n)
<1>1. PICK q \in Request :
        /\ Arrives(r, q, "checked")
        /\ Admissible(q, row[q.doc]) /\ ~ AlreadyDone(q, row[q.doc])
        /\ n = [q EXCEPT !.pc = "loaded", !.saw = row[q.doc], !.loaded = Len(commits)]
  BY DEF Loads
<1>2. CallOK(q) /\ q.doc \in Docs /\ q.pc # "sent"
  <2>1. q.pc # "sent"
    BY <1>1, ZenonT(60) DEF Arrives, Plain, Idle
  <2>2. QED
    BY <1>1, <2>1, ArrivingOK DEF CallOK
<1>3. /\ n.doc = q.doc /\ n.op = q.op /\ n.says = q.says /\ n.strict = q.strict
      /\ n.named = q.named /\ n.want = q.want /\ n.read = q.read /\ n.base = q.base
      /\ n.pc = "loaded" /\ n.saw = row[q.doc] /\ n.loaded = Len(commits)
  BY <1>1 DEF Request
<1>4. HeadStands(q) => HeadStands(n)
  BY <1>3 DEF HeadStands
<1>5. CallOK(n)
  BY <1>2, <1>3, <1>4 DEF CallOK
<1>6. row[q.doc].here
  BY <1>1 DEF Admissible
<1>7. n.saw.here /\ n.saw.head # Nil /\ Used(n.saw.head) /\ n.saw.thread \in Threads
  BY <1>2, <1>3, <1>6, DocumentConstants DEF RevisionsOK, Used, ThreadBinding
<1>8. /\ n.op = "revise" => n.saw.head = n.base
      /\ n.op = "patch" /\ n.strict => n.saw.updated = n.want
      /\ n.op = "archive" => ~ row[n.doc].trashed
      /\ n.op = "trash" => ~ row[n.doc].trashed
  BY <1>1, <1>3 DEF Admissible, AlreadyDone
<1>9. Shows(n.saw.summary, n.doc, n.loaded)
  BY <1>2, <1>3 DEF SummariesOK
<1>10. ASSUME n.op = "trash", NEW i \in Positions, commits[i].doc = n.doc,
              commits[i].op = "trash"
       PROVE  \E k \in Positions : /\ i < k /\ commits[k].doc = n.doc
                                   /\ commits[k].op \in TrashEnds
  BY <1>3, <1>6, <1>8, <1>10 DEF TrashOK
<1>11. QED
  BY <1>3, <1>5, <1>7, <1>8, <1>9, <1>10, LogLength DEF LoadedOK

LEMMA CallsStep ==
  ASSUME IInv, [Next]_vars
  PROVE  CallsOK'
<1> USE DEF IInv
<1>1. req \in [Requests -> Request] /\ req' \in [Requests -> Request]
  BY TypeStep DEF TypeOK
<1>2. SUFFICES ASSUME NEW s \in Requests, NEW n \in Request, n = req'[s], n.pc \in InFlight
               PROVE  CallOK(n)' /\ (n.pc = "loaded" => LoadedOK(n)')
  <2>1. \A s \in Requests : req'[s] \in Request
    BY <1>1
  <2>2. QED
    BY <2>1 DEF CallsOK, InFlight
<1>3. ASSUME n = req[s] PROVE CallOK(n) /\ (n.pc = "loaded" => LoadedOK(n)) /\ n.doc \in Docs
  BY <1>2, <1>3 DEF CallsOK, CallOK
<1>4. CASE UNCHANGED vars
  BY <1>2, <1>3, <1>4, QuietStays DEF vars
<1>5. ASSUME NEW r \in Requests, Quiet(r)
      PROVE  CallOK(n)' /\ (n.pc = "loaded" => LoadedOK(n)')
  <2>1. CallOK(n) /\ (n.pc = "loaded" => LoadedOK(n))
    <3>1. CASE s # r
      BY <1>1, <1>2, <1>3, <1>5, <3>1 DEF Quiet
    <3>2. CASE s = r
      <4>1. n # Answered
        BY <1>2 DEF InFlight, Answered, Idle
      <4>2. QED
        BY <1>2, <1>5, <3>2, <4>1, SentOK, CheckedOK, LoadedNow DEF Quiet
    <3>3. QED
      BY <3>1, <3>2
  <2>2. QED
    BY <1>5, <2>1, QuietStays DEF Quiet
<1>6. ASSUME NEW r \in Requests, NEW d \in Docs, Writes(r, d)
      PROVE  CallOK(n)' /\ (n.pc = "loaded" => LoadedOK(n)')
  <2>1. n = req[s]
    BY <1>2, <1>6, WriteFrame DEF InFlight
  <2>2. QED
    BY <1>3, <1>6, <2>1, CallStays, LoadedStays
<1>7. QED
  BY <1>4, <1>5, <1>6, StepKinds

-----------------------------------------------------------------------------
(* The invariant holds at the start and in every step. *)

First(d) == [id |-> d, doc |-> d, number |-> 1, prev |-> Nil]

(* What a document from before is like. *)
LEMMA OldRows ==
  ASSUME Init
  PROVE  \E present \in SUBSET Docs :
           /\ revisions = {First(d) : d \in present}
           /\ \A d \in present : First(d) \in revisions
           /\ row \in [Docs -> Row]
           /\ \A d \in present :
                /\ row[d].here /\ row[d].head = d /\ row[d].number = 1
                /\ row[d].thread = OwnThread[d] /\ row[d].summary = d /\ row[d].updated = 0
                /\ ~ (row[d].trashed /\ row[d].archived)
           /\ \A d \in Docs \ present : row[d] = NoRow
           /\ subject \in [Threads -> Docs \union {Nil}]
           /\ \A d \in present : subject[OwnThread[d]] = d
           /\ \A t \in Threads, d \in Docs : subject[t] = d => d \in present /\ OwnThread[d] = t
<1>1. PICK present \in SUBSET OldDocs, trash \in SUBSET OldDocs, archive \in SUBSET OldDocs :
        /\ trash \union archive \subseteq present /\ trash \intersect archive = {}
        /\ row = [d \in Docs |->
                    IF d \in present
                    THEN [NewRow(d, OwnThread[d], 0) EXCEPT !.trashed = d \in trash,
                                                            !.archived = d \in archive]
                    ELSE NoRow]
        /\ revisions = {First(d) : d \in present}
        /\ subject = [t \in Threads |-> IF \E d \in present : OwnThread[d] = t
                                        THEN CHOOSE d \in present : OwnThread[d] = t
                                        ELSE Nil]
  BY DEF Init, First
<1>2. present \subseteq Docs /\ OwnThread \in [Docs -> Threads] /\ Nil \notin Docs
      /\ \A d, e \in Docs : OwnThread[d] = OwnThread[e] => d = e
  BY DocumentConstants
<1>3. NoRow \in Row
  BY DEF NoRow, Row
<1>4. ASSUME NEW d \in present
      PROVE  /\ row[d] \in Row
             /\ row[d].here /\ row[d].head = d /\ row[d].number = 1
             /\ row[d].thread = OwnThread[d] /\ row[d].summary = d /\ row[d].updated = 0
             /\ ~ (row[d].trashed /\ row[d].archived)
  <2>1. NewRow(d, OwnThread[d], 0) \in Row
    BY <1>2, <1>3 DEF NewRow, Row, RevisionIds
  <2>2. /\ NewRow(d, OwnThread[d], 0).here /\ NewRow(d, OwnThread[d], 0).head = d
        /\ NewRow(d, OwnThread[d], 0).number = 1
        /\ NewRow(d, OwnThread[d], 0).thread = OwnThread[d]
        /\ NewRow(d, OwnThread[d], 0).summary = d /\ NewRow(d, OwnThread[d], 0).updated = 0
    BY <1>3 DEF NewRow, Row
  <2> DEFINE base == NewRow(d, OwnThread[d], 0)
  <2> HIDE DEF base
  <2>3. PICK a \in BOOLEAN, b \in BOOLEAN :
          ~ (a /\ b) /\ row[d] = [base EXCEPT !.trashed = a, !.archived = b]
    <3>1. row[d] = [base EXCEPT !.trashed = d \in trash, !.archived = d \in archive]
      BY <1>1, <1>2 DEF base
    <3>2. (d \in trash) \in BOOLEAN /\ (d \in archive) \in BOOLEAN
      OBVIOUS
    <3>3. ~ (d \in trash /\ d \in archive)
      BY <1>1
    <3>4. QED
      BY <3>1, <3>2, <3>3
  <2>4. /\ base \in Row /\ base.here /\ base.head = d /\ base.number = 1
        /\ base.thread = OwnThread[d] /\ base.summary = d /\ base.updated = 0
    BY <2>1, <2>2 DEF base
  <2>5. row[d].trashed = a /\ row[d].archived = b
    BY <2>3, <2>4 DEF Row
  <2>6. row[d] \in Row
    BY <2>3, <2>4, ZenonT(60) DEF Row
  <2>7. /\ row[d].here = base.here /\ row[d].head = base.head
        /\ row[d].number = base.number /\ row[d].thread = base.thread
        /\ row[d].summary = base.summary /\ row[d].updated = base.updated
    BY <2>3, <2>4, ZenonT(60) DEF Row
  <2>8. ~ (row[d].trashed /\ row[d].archived)
    BY <2>3, <2>5
  <2>9. QED
    BY <2>4, <2>6, <2>7, <2>8
<1>5. \A d \in Docs \ present : row[d] = NoRow
  BY <1>1
<1>6. row \in [Docs -> Row]
  <2>1. \A d \in Docs : row[d] \in Row
    BY <1>3, <1>4, <1>5
  <2>2. row = [d \in Docs |-> row[d]]
    BY <1>1
  <2>3. QED
    BY <2>1, <2>2
<1>7. \A t \in Threads : IF \E d \in present : OwnThread[d] = t
                         THEN subject[t] \in present /\ OwnThread[subject[t]] = t
                         ELSE subject[t] = Nil
  BY <1>1
<1>8. subject \in [Threads -> Docs \union {Nil}]
  BY <1>1, <1>2, <1>7
<1>9. \A d \in present : subject[OwnThread[d]] = d
  BY <1>2, <1>7
<1>10. \A t \in Threads, d \in Docs : subject[t] = d => d \in present /\ OwnThread[d] = t
  BY <1>2, <1>7
<1>11. \A d \in present : First(d) \in revisions
  BY <1>1
<1>12. QED
  BY <1>1, <1>2, <1>4, <1>5, <1>6, <1>8, <1>9, <1>10, <1>11, ZenonT(60)

LEMMA InitOK == Init => IInv /\ NoBlindWrite /\ TrashEventsAlternate /\ MarksExclude
<1> SUFFICES ASSUME Init PROVE IInv /\ NoBlindWrite /\ TrashEventsAlternate /\ MarksExclude
  OBVIOUS
<1>1. PICK present \in SUBSET Docs :
        /\ revisions = {First(d) : d \in present}
        /\ \A d \in present : First(d) \in revisions
        /\ row \in [Docs -> Row]
        /\ \A d \in present :
             /\ row[d].here /\ row[d].head = d /\ row[d].number = 1
             /\ row[d].thread = OwnThread[d] /\ row[d].summary = d /\ row[d].updated = 0
             /\ ~ (row[d].trashed /\ row[d].archived)
        /\ \A d \in Docs \ present : row[d] = NoRow
        /\ subject \in [Threads -> Docs \union {Nil}]
        /\ \A d \in present : subject[OwnThread[d]] = d
        /\ \A t \in Threads, d \in Docs : subject[t] = d => d \in present /\ OwnThread[d] = t
  BY OldRows
<1>2. commits = <<>> /\ Len(commits) = 0 /\ Positions = {} /\ commits \in Seq(CommitRecord)
  <2>1. commits = <<>>
    BY DEF Init
  <2>2. QED
    BY <2>1 DEF Positions
<1>3. req = [r \in Requests |-> Idle]
  BY DEF Init
<1>4. NoRow \in Row /\ ~ NoRow.here /\ NoRow.updated = 0 /\ ~ NoRow.trashed
  BY DEF NoRow, Row
<1>5. Idle \in Request /\ Idle.pc = "idle"
  BY <1>4 DEF Idle, Request, Calls
<1>6. \A d \in present : /\ First(d).id = d /\ First(d).doc = d /\ First(d).number = 1
                         /\ First(d) \in Revision
  BY DEF First, Revision, RevisionIds
<1>7. TypeOK
  BY <1>1, <1>2, <1>3, <1>4, <1>5, <1>6 DEF TypeOK
<1>8. RevisionsOK
  <2>1. \A v \in revisions : v.doc \in present /\ v = First(v.doc) /\ v.id = v.doc /\ v.number = 1
    BY <1>1, <1>6
  <2>2. \A d \in Docs : row[d].here => d \in present
    BY <1>1, <1>4
  <2>3. QED
    BY <1>1, <1>6, <2>1, <2>2 DEF RevisionsOK, Used
<1>9. TimestampsOK /\ SummariesOK /\ TrashOK
  <2>1. \A d \in Docs : row[d].updated = 0
    BY <1>1, <1>4
  <2>2. QED
    BY <1>2, <2>1 DEF TimestampsOK, SummariesOK, Shows, TrashOK
<1>10. ThreadBinding
  <2>1. \A d \in Docs : row[d].here => d \in present
    BY <1>1, <1>4
  <2>2. QED
    BY <1>1, <2>1, DocumentConstants DEF ThreadBinding
<1>11. CallsOK
  BY <1>3, <1>5 DEF CallsOK, InFlight
<1>12. MarksExclude
  BY <1>1, <1>4 DEF MarksExclude
<1>13. QED
  BY <1>2, <1>7, <1>8, <1>9, <1>10, <1>11, <1>12
  DEF IInv, NoBlindWrite, TrashEventsAlternate

LEMMA StepOK == IInv /\ [Next]_vars => IInv'
<1> SUFFICES ASSUME IInv, [Next]_vars PROVE IInv'
  OBVIOUS
<1>1. TypeOK' /\ CallsOK'
  BY TypeStep, CallsStep DEF IInv
<1>2. RevisionsOK' /\ TimestampsOK' /\ SummariesOK' /\ TrashOK' /\ ThreadBinding'
  BY RevisionsStep, TimestampsStep, SummariesStep, TrashStep, BindingStep DEF IInv
<1>3. QED
  BY <1>1, <1>2 DEF IInv

(* Whatever requests overlap in whatever way and wherever a handler dies,  *)
(* the tables are consistent with the log, the revisions of a document are *)
(* numbered without gap, and a call in flight remembers what was true.     *)
THEOREM DocumentInvariant == Spec => []IInv
  BY InitOK, StepOK, PTL DEF Spec

(* Every variable keeps its type.                                          *)
THEOREM TypesHold == Spec => []TypeOK
<1>1. IInv => TypeOK
  BY DEF IInv
<1>2. QED
  BY <1>1, DocumentInvariant, PTL

(* A call that names the head or the timestamp its client saw never writes *)
(* over a later revision, or for a patch over a later patch: the two reads *)
(* outside of the transaction cannot let anything slip through.            *)
THEOREM NothingOverwrittenBlindly == Spec => []NoBlindWrite
<1>1. IInv /\ NoBlindWrite /\ [Next]_vars => NoBlindWrite'
  BY BlindStep DEF IInv
<1>2. QED
  BY <1>1, InitOK, DocumentInvariant, PTL DEF Spec

(* A committed summary is lost only to an update that had loaded its row   *)
(* before and gives none of its own.                                       *)
THEOREM SummariesLostOnlyByOverlap == Spec => []SummaryIsLatest
<1>1. TypeOK /\ SummariesOK => SummaryIsLatest
  <2> SUFFICES ASSUME TypeOK, SummariesOK, NEW i \in Positions, commits[i].says,
                      \A j \in Positions : j > i /\ commits[j].doc = commits[i].doc =>
                                             ~ commits[j].says /\ commits[j].op # "purge"
               PROVE  \/ row[commits[i].doc].summary = commits[i].by
                      \/ \E j \in Positions : /\ j > i /\ commits[j].doc = commits[i].doc
                                              /\ commits[j].op = "revise"
                                              /\ commits[j].loaded < i
    BY DEF SummaryIsLatest
  <2>1. commits[i] \in CommitRecord
    BY DEF TypeOK, Positions
  <2>2. commits[i].doc \in Docs
    BY <2>1 DEF CommitRecord
  <2>3. Shows(row[commits[i].doc].summary, commits[i].doc, Len(commits))
    BY <2>2 DEF SummariesOK
  <2>4. \A j \in Positions : j \in Nat /\ j <= Len(commits)
    BY LogLength DEF Positions
  <2>5. QED
    BY <2>3, <2>4 DEF Shows
<1>2. QED
  BY <1>1, DocumentInvariant, PTL DEF IInv

(* The marks of a document exclude each other, unless an archive call was  *)
(* overtaken by a trash call between its read and its write.               *)
THEOREM MarksMeetOnlyByOverlap == Spec => []MarksExclude
<1>1. IInv /\ MarksExclude /\ [Next]_vars => MarksExclude'
  BY MarksStep DEF IInv
<1>2. QED
  BY <1>1, InitOK, DocumentInvariant, PTL DEF Spec

(* The log tells twice in a row that a document was trashed only where the *)
(* two calls overlapped.                                                   *)
THEOREM TrashTwiceOnlyByOverlap == Spec => []TrashEventsAlternate
<1>1. IInv /\ TrashEventsAlternate /\ [Next]_vars => TrashEventsAlternate'
  BY AlternateStep DEF IInv
<1>2. QED
  BY <1>1, InitOK, DocumentInvariant, PTL DEF Spec

(* A document and its backing thread name each other, however updates that *)
(* move the document to another thread overlap.                            *)
THEOREM ThreadsStayBound == Spec => []ThreadBinding
  BY DocumentInvariant, PTL DEF IInv

-----------------------------------------------------------------------------
(* The revisions of a document are a history in the sense of               *)
(* RevisionHistory.                                                        *)

Links == [rev : RevisionIds, base : RevisionIds \union {Nil}]

LEMMA OneOfEachNumber ==
  ASSUME TypeOK, RevisionsOK, NEW v \in revisions
  PROVE  RevisionNumbered(v.doc, v.number) = v
<1>1. \A w \in revisions : w.doc = v.doc /\ w.number = v.number => w = v
  BY DEF RevisionsOK
<1>2. QED
  BY <1>1 DEF RevisionNumbered

LEMMA NumberedRevision ==
  ASSUME TypeOK, RevisionsOK, NEW d \in Docs, NEW n \in 1 .. row[d].number
  PROVE  /\ RevisionNumbered(d, n) \in revisions
         /\ RevisionNumbered(d, n).doc = d /\ RevisionNumbered(d, n).number = n
         /\ Entry(RevisionNumbered(d, n)) \in Links
<1>1. row[d].here
  <2>1. row[d].number # 0
    BY DEF TypeOK, Row
  <2>2. QED
    BY <2>1 DEF TypeOK, NoRow
<1>2. PICK v \in revisions : v.doc = d /\ v.number = n
  BY <1>1 DEF RevisionsOK
<1>3. RevisionNumbered(d, n) = v
  BY <1>2, OneOfEachNumber
<1>4. QED
  BY <1>2, <1>3 DEF TypeOK, Revision, Entry, Links

ChainFits(d) ==
  /\ Chain[d] \in Seq(Links) /\ Len(Chain[d]) = row[d].number
  /\ DOMAIN Chain[d] = 1 .. row[d].number
  /\ \A n \in 1 .. row[d].number : Chain[d][n] = Entry(RevisionNumbered(d, n))
  /\ Chain[d] = <<>> <=> ~ row[d].here

LEMMA ChainOf == TypeOK /\ RevisionsOK => \A d \in Docs : ChainFits(d)
<1> SUFFICES ASSUME TypeOK, RevisionsOK, NEW d \in Docs PROVE ChainFits(d)
  OBVIOUS
<1>1. row[d].number \in Nat /\ (row[d].here <=> row[d].number > 0)
  BY DEF TypeOK, Row, RevisionsOK, NoRow
<1>2. Chain[d] = [n \in 1 .. row[d].number |-> Entry(RevisionNumbered(d, n))]
  BY DEF Chain
<1>3. Chain[d] \in [1 .. row[d].number -> Links]
  BY <1>2, NumberedRevision
<1>4. Chain[d] \in Seq(Links) /\ Len(Chain[d]) = row[d].number
  BY <1>1, <1>3, SeqDef
<1>5. Chain[d] = <<>> <=> Len(Chain[d]) = 0
  <2>1. <<>> \in Seq(Links) /\ Len(<<>>) = 0
    BY EmptySeq
  <2>2. Len(Chain[d]) = 0 => Chain[d] = <<>>
    BY <1>4, <2>1, SeqEqual
  <2>3. QED
    BY <2>1, <2>2
<1>6. QED
  BY <1>1, <1>2, <1>4, <1>5 DEF ChainFits

LEMMA ChainOfNext == TypeOK' /\ RevisionsOK' => \A d \in Docs : ChainFits(d)'
<1>1. (TypeOK /\ RevisionsOK => \A d \in Docs : ChainFits(d))'
  BY ChainOf, PTL
<1>2. QED
  BY <1>1

LEMMA WrittenIsUsed ==
  ASSUME TypeOK, RevisionsOK, NEW x \in History!Written
  PROVE  Used(x)
<1>1. PICK d \in Docs : \E n \in DOMAIN Chain[d] : x = Chain[d][n].rev
  BY DEF History!Written
<1>2. PICK n \in 1 .. row[d].number :
        x = Chain[d][n].rev /\ Chain[d][n] = Entry(RevisionNumbered(d, n))
  BY <1>1, ChainOf DEF ChainFits
<1>3. RevisionNumbered(d, n) \in revisions
  BY <1>2, NumberedRevision
<1>4. QED
  BY <1>1, <1>2, <1>3 DEF Entry, RevisionsOK

LEMMA HistoryInit == Init => History!Init
<1> SUFFICES ASSUME Init PROVE History!Init
  OBVIOUS
<1>1. TypeOK /\ RevisionsOK
  BY InitOK DEF IInv
<1>2. PICK present \in SUBSET Docs :
        /\ \A d \in present : First(d) \in revisions /\ row[d].number = 1 /\ row[d].here
        /\ \A d \in Docs \ present : row[d] = NoRow
  BY OldRows
<1>3. ASSUME NEW d \in Docs \ present PROVE Chain[d] = <<>>
  <2>1. ~ row[d].here
    BY <1>2 DEF NoRow
  <2>2. QED
    BY <1>1, <2>1, ChainOf DEF ChainFits
<1>4. ASSUME NEW d \in present
      PROVE  Chain[d] = <<History!Entry(d, Nil)>> /\ Chain[d][1].rev = d /\ d \in RevisionIds
  <2>1. First(d).doc = d /\ First(d).number = 1 /\ First(d).id = d /\ First(d).prev = Nil
    BY DEF First
  <2>2. RevisionNumbered(d, 1) = First(d)
    BY <1>1, <1>2, <2>1, OneOfEachNumber
  <2>3. Chain[d] \in Seq(Links) /\ Len(Chain[d]) = 1 /\ Chain[d][1] = Entry(First(d))
    <3>1. ChainFits(d) /\ row[d].number = 1
      BY <1>1, <1>2, ChainOf
    <3>2. QED
      BY <2>2, <3>1 DEF ChainFits
  <2>4. Entry(First(d)) = History!Entry(d, Nil) /\ Entry(First(d)).rev = d
    BY <2>1 DEF Entry, History!Entry
  <2>5. /\ <<History!Entry(d, Nil)>> \in Seq(Links) /\ Len(<<History!Entry(d, Nil)>>) = 1
        /\ <<History!Entry(d, Nil)>>[1] = History!Entry(d, Nil)
    <3>1. History!Entry(d, Nil) \in Links
      BY DEF History!Entry, Links, RevisionIds
    <3>2. QED
      BY <3>1
  <2>6. Chain[d] = <<History!Entry(d, Nil)>>
    <3>1. \A i \in 1 .. Len(Chain[d]) : Chain[d][i] = <<History!Entry(d, Nil)>>[i]
      BY <2>3, <2>4, <2>5
    <3>2. QED
      BY <2>3, <2>5, <3>1, SeqEqual
  <2>7. QED
    BY <2>3, <2>4, <2>6 DEF RevisionIds
<1>5. Chain \in [Docs -> {<<>>} \union {<<History!Entry(v, Nil)>> : v \in RevisionIds}]
  <2>1. ASSUME NEW d \in Docs
        PROVE  Chain[d] \in {<<>>} \union {<<History!Entry(v, Nil)>> : v \in RevisionIds}
    BY <1>3, <1>4
  <2>2. Chain = [d \in Docs |-> Chain[d]]
    BY DEF Chain
  <2>3. QED
    BY <2>1, <2>2
<1>6. ASSUME NEW d \in Docs, NEW e \in Docs, Chain[d] = Chain[e], Chain[d] # <<>> PROVE d = e
  BY <1>3, <1>4, <1>6
<1>7. QED
  BY <1>5, <1>6 DEF History!Init

(* A chain is read from the number of its revisions and the revisions.     *)
LEMMA ChainKept ==
  ASSUME TypeOK, RevisionsOK, TypeOK', RevisionsOK', NEW d \in Docs,
         NEW n \in 1 .. row[d].number, RevisionNumbered(d, n) \in revisions'
  PROVE  RevisionNumbered(d, n)' = RevisionNumbered(d, n)
<1>1. PICK v \in revisions' : v = RevisionNumbered(d, n) /\ v.doc = d /\ v.number = n
  BY NumberedRevision
<1>2. \A w \in revisions' : w.doc = d /\ w.number = n => w = v
  BY <1>1 DEF RevisionsOK
<1>3. QED
  BY <1>1, <1>2 DEF RevisionNumbered

LEMMA ChainUnchanged ==
  ASSUME TypeOK, RevisionsOK, TypeOK', RevisionsOK', NEW d \in Docs,
         row'[d].number = row[d].number, \A v \in revisions : v.doc = d => v \in revisions'
  PROVE  Chain'[d] = Chain[d]
<1>1. ASSUME NEW n \in 1 .. row[d].number
      PROVE  RevisionNumbered(d, n)' = RevisionNumbered(d, n)
  BY NumberedRevision, ChainKept
<1>2. QED
  BY <1>1 DEF Chain, Entry

LEMMA HistoryStep ==
  ASSUME IInv, IInv', [Next]_vars
  PROVE  [History!Next]_Chain
<1> USE DEF IInv
<1>1. CASE UNCHANGED <<row, revisions>>
  BY <1>1 DEF Chain, RevisionNumbered
<1>2. ASSUME NEW r \in Requests, NEW d \in Docs, Writes(r, d)
      PROVE  [History!Next]_Chain
  <2>1. \A e \in Docs \ {d} : row'[e] = row[e]
    BY <1>2, WriteFrame
  <2>2. r \in RevisionIds /\ r \notin History!Written
    BY <1>2, NewRevision, WrittenIsUsed
  <2>3. ASSUME \A e \in Docs \ {d} : \A v \in revisions : v.doc = e => v \in revisions'
        PROVE  \A e \in Docs \ {d} : Chain'[e] = Chain[e]
    BY <2>1, <2>3, ChainUnchanged
  <2>4. ASSUME NEW c, Chain'[d] = c, \A e \in Docs \ {d} : Chain'[e] = Chain[e]
        PROVE  Chain' = [Chain EXCEPT ![d] = c]
    <3>1. Chain = [e \in Docs |-> Chain[e]] /\ Chain' = [e \in Docs |-> Chain'[e]]
      BY DEF Chain
    <3> HIDE DEF Chain
    <3>2. QED
      BY <2>4, <3>1
  <2>5. CASE Patches(r, d) \/ Marks(r, d)
    <3>1. row'[d].number = row[d].number
      BY <2>5, PatchColumns, MarkColumns
    <3>2. revisions' = revisions
      BY <2>5 DEF Patches, Marks
    <3>3. \A e \in Docs : Chain'[e] = Chain[e]
      BY <2>1, <3>1, <3>2, ChainUnchanged
    <3>4. Chain' = Chain
      <4>1. Chain = [e \in Docs |-> Chain[e]] /\ Chain' = [e \in Docs |-> Chain'[e]]
        BY DEF Chain
      <4>2. QED
        BY <3>3, <4>1
    <3>5. QED
      BY <3>4
  <2>6. CASE Purges(r, d)
    <3>1. revisions' = {v \in revisions : v.doc # d} /\ row[d].here
      BY <2>6 DEF Purges
    <3>2. ~ row'[d].here
      BY <2>6, PurgeColumns
    <3>3. Chain'[d] = <<>> /\ Chain[d] # <<>>
      BY <3>1, <3>2, ChainOf, ChainOfNext DEF ChainFits
    <3>4. Chain' = [Chain EXCEPT ![d] = <<>>]
      BY <2>3, <2>4, <3>1, <3>3
    <3>5. QED
      BY <3>3, <3>4 DEF History!Next, History!Purge
  <2>7. ASSUME NEW t \in Threads, Creates(r, d, t) PROVE [History!Next]_Chain
    <3> DEFINE u == [id |-> r, doc |-> d, number |-> 1, prev |-> Nil]
    <3>1. ~ row[d].here /\ revisions' = revisions \union {u}
      BY <2>7 DEF Creates
    <3>2. u.id = r /\ u.doc = d /\ u.number = 1 /\ u.prev = Nil
      OBVIOUS
    <3> HIDE DEF u
    <3>3. u \in revisions' /\ row'[d].number = 1
      BY <2>7, <3>1, CreateColumns
    <3>4. RevisionNumbered(d, 1)' = u
      <4>1. \A w \in revisions' : w.doc = d /\ w.number = 1 => w = u
        BY <3>2, <3>3 DEF RevisionsOK
      <4>2. QED
        BY <3>2, <3>3, <4>1 DEF RevisionNumbered
    <3>5. /\ Chain'[d] \in Seq(Links') /\ Len(Chain'[d]) = 1
          /\ Chain'[d][1] = Entry(RevisionNumbered(d, 1))'
      <4>1. ChainFits(d)' /\ 1 \in 1 .. row'[d].number
        BY <3>3, ChainOfNext
      <4>2. QED
        BY <3>3, <4>1 DEF ChainFits
    <3>6. Chain'[d] = <<History!Entry(r, Nil)>>
      <4>1. Chain'[d][1] = History!Entry(r, Nil) /\ History!Entry(r, Nil) \in Links
        BY <2>2, <3>2, <3>4, <3>5 DEF Entry, History!Entry, Links
      <4>2. Links' = Links
        BY DEF Links, RevisionIds
      <4> DEFINE h == History!Entry(r, Nil)
      <4> HIDE DEF h
      <4>3. <<h>> \in Seq(Links) /\ Len(<<h>>) = 1 /\ <<h>>[1] = h
        BY <4>1 DEF h
      <4>4. \A i \in 1 .. Len(Chain'[d]) : Chain'[d][i] = <<h>>[i]
        BY <3>5, <4>1, <4>3 DEF h
      <4>5. QED
        BY <3>5, <4>2, <4>3, <4>4, SeqEqual DEF h
    <3>7. Chain' = [Chain EXCEPT ![d] = <<History!Entry(r, Nil)>>]
      BY <2>3, <2>4, <3>1, <3>6
    <3>8. Chain[d] = <<>>
      BY <3>1, ChainOf DEF ChainFits
    <3>9. QED
      BY <2>2, <3>7, <3>8 DEF History!Next, History!Create
  <2>8. CASE Revises(r, d)
    <3>0. PICK n : n = row[d].number + 1
      OBVIOUS
    <3> DEFINE u == [id |-> r, doc |-> d, number |-> n, prev |-> row[d].head]
               h == History!Entry(r, row[d].head)
    <3>1. LoadedOK(req[r]) /\ row[d].here /\ row[d].number \in Nat /\ row[d].number > 0
      BY <2>8, WriterOK DEF Revises, TypeOK, Row, RevisionsOK
    <3>2. req[r].saw.head = row[d].head /\ req[r].saw.number = row[d].number
      BY <2>8, <3>1 DEF Revises, LoadedOK
    <3>3. revisions' = revisions \union {u}
      BY <2>8, <3>0, <3>2 DEF Revises
    <3>4. u.id = r /\ u.doc = d /\ u.number = n /\ u.prev = row[d].head
      OBVIOUS
    <3> HIDE DEF u
    <3>5. u \in revisions' /\ row'[d].number = n /\ n \in Nat
      BY <2>8, <3>0, <3>1, <3>2, <3>3, ReviseColumns
    <3>6. RevisionNumbered(d, n)' = u
      <4>1. \A w \in revisions' : w.doc = d /\ w.number = n => w = u
        BY <3>4, <3>5 DEF RevisionsOK
      <4>2. QED
        BY <3>4, <3>5, <4>1 DEF RevisionNumbered
    <3>7. Links' = Links
      BY DEF Links, RevisionIds
    <3>8. /\ Chain'[d] \in Seq(Links) /\ Len(Chain'[d]) = n
          /\ \A k \in 1 .. n : Chain'[d][k] = Entry(RevisionNumbered(d, k))'
      BY <3>5, <3>7, ChainOfNext DEF ChainFits
    <3>9. /\ Chain[d] \in Seq(Links) /\ Len(Chain[d]) = row[d].number /\ Chain[d] # <<>>
          /\ \A k \in 1 .. row[d].number : Chain[d][k] = Entry(RevisionNumbered(d, k))
      BY <3>1, ChainOf DEF ChainFits
    <3>10. Chain[d][Len(Chain[d])].rev = row[d].head
      <4>1. row[d].number \in 1 .. row[d].number
        BY <3>1
      <4>2. RevisionNumbered(d, row[d].number).id = row[d].head
        BY <4>1, NumberedRevision DEF RevisionsOK
      <4>3. Chain[d][row[d].number] = Entry(RevisionNumbered(d, row[d].number))
        BY <3>9, <4>1
      <4>4. QED
        BY <3>9, <4>2, <4>3 DEF Entry
    <3>11. h \in Links /\ Entry(u) = h
      <4>1. row[d].head \in RevisionIds \union {Nil}
        BY DEF TypeOK, Row
      <4>2. QED
        BY <2>2, <3>4, <4>1 DEF Entry, History!Entry, Links
    <3> HIDE DEF h
    <3>12. Chain'[d] = Append(Chain[d], h)
      <4>1. /\ Append(Chain[d], h) \in Seq(Links) /\ Len(Append(Chain[d], h)) = n
            /\ \A k \in 1 .. row[d].number : Append(Chain[d], h)[k] = Chain[d][k]
            /\ Append(Chain[d], h)[n] = h
        BY <3>0, <3>9, <3>11, AppendProperties
      <4>2. ASSUME NEW k \in 1 .. n PROVE Chain'[d][k] = Append(Chain[d], h)[k]
        <5>1. CASE k = n
          BY <3>6, <3>8, <3>11, <4>1, <5>1 DEF Entry
        <5>2. CASE k # n
          <6>1. k \in 1 .. row[d].number
            BY <3>0, <3>1, <5>2
          <6>2. RevisionNumbered(d, k)' = RevisionNumbered(d, k)
            BY <3>3, <6>1, NumberedRevision, ChainKept
          <6>3. QED
            BY <3>8, <3>9, <4>1, <6>1, <6>2 DEF Entry
        <5>3. QED
          BY <5>1, <5>2
      <4>3. QED
        BY <3>8, <4>1, <4>2, SeqEqual
    <3>13. Chain' = [Chain EXCEPT ![d] = Append(Chain[d], h)]
      BY <2>3, <2>4, <3>3, <3>12
    <3>14. QED
      BY <2>2, <3>9, <3>10, <3>13 DEF History!Next, History!Revise, h
  <2>9. QED
    BY <1>2, <2>5, <2>6, <2>7, <2>8 DEF Writes
<1>3. QED
  BY <1>1, <1>2, StepKinds DEF Quiet, vars

(* Every call extends the history of a document by one revision made from  *)
(* its last one, ends the history, or leaves it: no two overlapping calls  *)
(* fork a history, skip a revision or write one twice.                     *)
THEOREM HistoryImplemented == Spec => ImplementsHistory
  BY HistoryInit, InitOK, StepOK, HistoryStep, PTL DEF Spec, ImplementsHistory, History!Spec
=============================================================================
