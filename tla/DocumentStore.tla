--------------------------- MODULE DocumentStore ---------------------------
(***************************************************************************)
(* Documents of the core (core/internal/primitives/docs_store.go) as the   *)
(* HTTP handlers of core/internal/server/docs_handlers.go call them.       *)
(*                                                                         *)
(* Every call but create and purge reads the document row outside of any   *)
(* transaction, decides on it, and writes in a second step.  What the      *)
(* second step checks again differs from call to call: a revision checks   *)
(* the head, a patch the timestamp, the lifecycle calls nothing.           *)
(*                                                                         *)
(* A request handles one call.  A request that takes no further step is a  *)
(* handler that died (crash, closed connection) at that point: its         *)
(* transaction is rolled back by SQLite, so it leaves no trace.            *)
(***************************************************************************)
EXTENDS Naturals, Sequences, FiniteSets

CONSTANTS
    Requests,    \* HTTP requests, each used for one call
    Docs,        \* document ids; the client may choose them
    OldDocs,     \* those a document may have from before
    Threads,     \* thread ids
    OwnThread,   \* the thread a document gets when none is named
    Operations,  \* the calls the clients make on each document
    Nil          \* no revision, no thread, no subject

Calls == {"create", "patch", "revise", "trash", "archive", "unarchive", "restore", "purge"}

ASSUME DocumentConstants ==
    /\ OldDocs \subseteq Docs
    /\ OwnThread \in [Docs -> Threads]
    /\ \A d, e \in Docs : OwnThread[d] = OwnThread[e] => d = e
    /\ Operations \in [Docs -> SUBSET Calls]
    /\ Nil \notin Requests \union Docs \union Threads
    /\ Requests \intersect Docs = {}

VARIABLES
    row,        \* documents table
    revisions,  \* document_revisions table
    subject,    \* subject_ref of the threads table
    commits,    \* committed calls in order; the eventful ones are the event log
    req         \* what each handler holds in its local variables

vars == <<row, revisions, subject, commits, req>>

\* A revision is named by the request that wrote it; the first revision of a
\* document that was there from the start by the document.
RevisionIds == Requests \union Docs

NoRow == [here |-> FALSE, head |-> Nil, number |-> 0, thread |-> Nil,
          summary |-> Nil, updated |-> 0, trashed |-> FALSE, archived |-> FALSE]

\* The row CreateDocument inserts.
NewRow(rev, thread, at) ==
    [NoRow EXCEPT !.here = TRUE, !.head = rev, !.number = 1, !.thread = thread,
                  !.summary = rev, !.updated = at]

Idle == [pc |-> "idle", op |-> "create", doc |-> Nil, thread |-> Nil,
         says |-> FALSE, strict |-> FALSE, named |-> FALSE,
         base |-> Nil, want |-> 0, read |-> 0, loaded |-> 0, saw |-> NoRow]

\* updated_at has nanoseconds: two writes of one row never carry the same one.
Now == Len(commits) + 1

Init ==
    /\ \E present, trash, archive \in SUBSET OldDocs :
         /\ trash \union archive \subseteq present /\ trash \intersect archive = {}
         /\ row = [d \in Docs |->
                     IF d \in present
                     THEN [NewRow(d, OwnThread[d], 0) EXCEPT !.trashed = d \in trash,
                                                             !.archived = d \in archive]
                     ELSE NoRow]
         /\ revisions = {[id |-> d, doc |-> d, number |-> 1, prev |-> Nil] : d \in present}
         /\ subject = [t \in Threads |-> IF \E d \in present : OwnThread[d] = t
                                         THEN CHOOSE d \in present : OwnThread[d] = t
                                         ELSE Nil]
    /\ commits = <<>>
    /\ req = [r \in Requests |-> Idle]

-----------------------------------------------------------------------------
(* The client, and the handler before the store is called. *)

\* The call is answered, with a result or with an error.
Answered == [Idle EXCEPT !.pc = "answered"]

Answer(r) == req' = [req EXCEPT ![r] = Answered]

Refuse(r) == Answer(r) /\ UNCHANGED <<row, revisions, subject, commits>>

\* A call that names nothing its client saw.
Plain(op, d, thread, says) ==
    [Idle EXCEPT !.op = op, !.doc = d, !.thread = thread, !.says = says,
                 !.read = Len(commits)]

\* The client reads the document and sends a patch or a revision built on what
\* it saw.  strict: it names the updated_at it saw; named: the head it saw.
SendBasedOnRead(r, op, d, thread, says, strict, named) ==
    /\ req[r].pc = "idle"
    /\ strict # named
    /\ op = "revise" \/ (op = "patch" /\ strict /\ thread = Nil /\ says)
    /\ req' = [req EXCEPT ![r] =
                 [Plain(op, d, thread, says) EXCEPT
                    !.pc = IF op = "revise" THEN "sent" ELSE "checked",
                    !.strict = strict, !.named = named,
                    !.base = row[d].head, !.want = row[d].updated]]
    /\ UNCHANGED <<row, revisions, subject, commits>>

\* handleCreateDocumentRevision reads the document, compares
\* if_document_updated_at, and takes the head as the base when none is named.
Check(r, q) ==
    /\ IF row[q.doc].here /\ (q.strict => q.want = row[q.doc].updated)
       THEN req' = [req EXCEPT ![r] =
                      [q EXCEPT !.pc = "checked",
                                !.base = IF q.named THEN @ ELSE row[q.doc].head]]
       ELSE Answer(r)
    /\ UNCHANGED <<row, revisions, subject, commits>>

CheckRevision(r) == req[r].pc = "sent" /\ Check(r, req[r])

CheckPlainRevision(r, d, thread, says) ==
    req[r].pc = "idle" /\ Check(r, Plain("revise", d, thread, says))

\* What a call requires of the row it loaded.
Admissible(q, doc) ==
    /\ doc.here
    /\ q.op = "patch" => (q.strict => q.want = doc.updated)
    /\ q.op = "revise" => doc.head = q.base
    /\ q.op = "archive" => ~doc.trashed
    /\ q.op = "unarchive" => doc.archived
    /\ q.op = "restore" => doc.trashed

\* Mutant: a trashed document is trashed again.
AlreadyDone_ButTrash(q, doc) == q.op = "archive" /\ doc.archived

\* A call that finds its work done answers with the row as it is.
AlreadyDone(q, doc) ==
    \/ q.op = "trash" /\ doc.trashed
    \/ q.op = "archive" /\ doc.archived

\* loadDocumentRow, outside of the transaction that follows.
LoadRow(r, q) ==
    LET doc == row[q.doc] IN
    /\ IF Admissible(q, doc) /\ ~AlreadyDone(q, doc)
       THEN req' = [req EXCEPT ![r] = [q EXCEPT !.pc = "loaded", !.saw = doc,
                                                !.loaded = Len(commits)]]
       ELSE Answer(r)
    /\ UNCHANGED <<row, revisions, subject, commits>>

LoadChecked(r) == req[r].pc = "checked" /\ LoadRow(r, req[r])

\* A patch without a timestamp and the lifecycle calls start here.
LoadPlain(r, op, d) ==
    /\ req[r].pc = "idle"
    /\ op \in {"patch", "trash", "archive", "unarchive", "restore"}
    /\ LoadRow(r, Plain(op, d, Nil, op = "patch"))

-----------------------------------------------------------------------------
(* The writes.  Each is one transaction. *)

\* The call took effect; the commit keeps which revision its event names.
Commit(r, q, rev) ==
    /\ commits' = Append(commits,
                    [op |-> q.op, doc |-> q.doc, by |-> r, rev |-> rev,
                     says |-> q.says, based |-> q.strict \/ q.named,
                     read |-> q.read, loaded |-> q.loaded])
    /\ Answer(r)

Ready(r, op) == req[r].pc = "loaded" /\ req[r].op = op

\* ensureDocumentBackingThreadTx: a thread bound to something else is refused.
MayBind(d, t) == subject[t] \in {Nil, d}

\* A create loads nothing.
Created(d, t) == [Plain("create", d, t, TRUE) EXCEPT !.loaded = Len(commits)]

\* The thread is the one the client names or else the document's own.
CreateDocument(r, d, t) ==
    /\ req[r].pc = "idle"
    /\ IF MayBind(d, t) /\ ~row[d].here
       THEN /\ row' = [row EXCEPT ![d] = NewRow(r, t, Now)]
            /\ revisions' = revisions \union
                              {[id |-> r, doc |-> d, number |-> 1, prev |-> Nil]}
            /\ subject' = [subject EXCEPT ![t] = d]
            /\ Commit(r, Created(d, t), r)
       ELSE Refuse(r)

\* Mutant: the patch is written without the timestamp in its WHERE clause.
PatchDocument_Unguarded(r) ==
    LET d == req[r].doc IN
    /\ Ready(r, "patch")
    /\ IF row[d].here
       THEN /\ row' = [row EXCEPT ![d].summary = r, ![d].updated = Now]
            /\ Commit(r, req[r], Nil)
            /\ UNCHANGED <<revisions, subject>>
       ELSE Refuse(r)

PatchDocument(r) ==
    LET q == req[r] d == req[r].doc IN
    /\ Ready(r, "patch")
    /\ IF row[d].here /\ row[d].updated = q.saw.updated
       THEN /\ row' = [row EXCEPT ![d].summary = r, ![d].updated = Now]
            /\ Commit(r, req[r], Nil)
            /\ UNCHANGED <<revisions, subject>>
       ELSE Refuse(r)

\* Mutant: an update that gives no summary clears it.
RevisedRow_Cleared(q, r, doc, t) ==
    [doc EXCEPT !.head = r, !.number = q.saw.number + 1, !.thread = t,
                !.summary = IF q.says THEN r ELSE Nil, !.updated = Now]

\* The row an update writes: what it loaded, but for the fields it sets.
RevisedRow(q, r, doc, t) ==
    [doc EXCEPT !.head = r, !.number = q.saw.number + 1, !.thread = t,
                !.summary = IF q.says THEN r ELSE q.saw.summary, !.updated = Now]

\* Mutant: the thread a document leaves keeps its subject.
Rebound_Kept(d, from, to) == [subject EXCEPT ![to] = d]

\* The thread moves: the new one is bound, the one the update loaded released.
Rebound(d, from, to) ==
    [t \in Threads |-> IF t = to THEN d
                       ELSE IF t = from /\ subject[t] = d THEN Nil
                       ELSE subject[t]]

\* Mutant: the head is moved without its old value in the WHERE clause.
UpdateDocument_AnyHead(r) ==
    LET q == req[r] d == req[r].doc
        t == IF q.thread = Nil THEN q.saw.thread ELSE q.thread
        n == q.saw.number + 1
    IN
    /\ Ready(r, "revise")
    /\ IF /\ MayBind(d, t)
          /\ \A v \in revisions : v.doc = d => v.number # n
          /\ row[d].here
       THEN /\ row' = [row EXCEPT ![d] = RevisedRow(q, r, row[d], t)]
            /\ revisions' = revisions \union
                              {[id |-> r, doc |-> d, number |-> n, prev |-> q.saw.head]}
            /\ subject' = Rebound(d, q.saw.thread, t)
            /\ Commit(r, req[r], r)
       ELSE Refuse(r)

\* The revision insert fails on UNIQUE(document_id, revision_number), the head
\* update on its WHERE clause; either rolls everything back.
UpdateDocument(r) ==
    LET q == req[r] d == req[r].doc
        t == IF q.thread = Nil THEN q.saw.thread ELSE q.thread
        n == q.saw.number + 1
    IN
    /\ Ready(r, "revise")
    /\ IF /\ MayBind(d, t)
          /\ \A v \in revisions : v.doc = d => v.number # n
          /\ row[d].here /\ row[d].head = q.base
       THEN /\ row' = [row EXCEPT ![d] = RevisedRow(q, r, row[d], t)]
            /\ revisions' = revisions \union
                              {[id |-> r, doc |-> d, number |-> n, prev |-> q.saw.head]}
            /\ subject' = Rebound(d, q.saw.thread, t)
            /\ Commit(r, req[r], r)
       ELSE Refuse(r)

\* The lifecycle updates name the document only: they apply to whatever row is
\* there by now, to none when it was purged, and commit in any case.
Mark(r, marked) ==
    LET d == req[r].doc IN row' = [row EXCEPT ![d] = IF row[d].here THEN marked ELSE row[d]]

\* Mutant: trashing leaves the archive mark.
Trashed_Marked(doc) == [doc EXCEPT !.trashed = TRUE]

\* Trashing takes the archive mark away.
Trashed(doc) == [doc EXCEPT !.trashed = TRUE, !.archived = FALSE]

TrashDocument(r) ==
    /\ Ready(r, "trash")
    /\ Mark(r, Trashed(row[req[r].doc]))
    /\ Commit(r, req[r], req[r].saw.head)
    /\ UNCHANGED <<revisions, subject>>

ArchiveDocument(r) ==
    /\ Ready(r, "archive")
    /\ Mark(r, [row[req[r].doc] EXCEPT !.archived = TRUE])
    /\ Commit(r, req[r], Nil)
    /\ UNCHANGED <<revisions, subject>>

UnarchiveDocument(r) ==
    /\ Ready(r, "unarchive")
    /\ Mark(r, [row[req[r].doc] EXCEPT !.archived = FALSE])
    /\ Commit(r, req[r], Nil)
    /\ UNCHANGED <<revisions, subject>>

RestoreDocument(r) ==
    /\ Ready(r, "restore")
    /\ Mark(r, [row[req[r].doc] EXCEPT !.trashed = FALSE])
    /\ Commit(r, req[r], req[r].saw.head)
    /\ UNCHANGED <<revisions, subject>>

\* PurgeDocument looks at the mark inside its transaction.  The backing thread
\* keeps the subject of the document that is gone.
PurgeDocument(r, d) ==
    /\ req[r].pc = "idle"
    /\ IF row[d].here /\ row[d].trashed
       THEN /\ row' = [row EXCEPT ![d] = NoRow]
            /\ revisions' = {v \in revisions : v.doc # d}
            /\ Commit(r, [Plain("purge", d, Nil, FALSE) EXCEPT !.loaded = Len(commits)], Nil)
            /\ UNCHANGED subject
       ELSE Refuse(r)

Next ==
    \E r \in Requests :
      \/ \E d \in Docs : \E op \in Operations[d] :
           \/ \E thread \in Threads \union {Nil}, says, strict, named \in BOOLEAN :
                SendBasedOnRead(r, op, d, thread, says, strict, named)
           \/ op = "revise" /\ \E thread \in Threads \union {Nil}, says \in BOOLEAN :
                CheckPlainRevision(r, d, thread, says)
           \/ LoadPlain(r, op, d)
           \/ op = "create" /\ \E t \in Threads : CreateDocument(r, d, t)
           \/ op = "purge" /\ PurgeDocument(r, d)
      \/ CheckRevision(r)
      \/ LoadChecked(r)
      \/ PatchDocument(r)
      \/ UpdateDocument(r)
      \/ TrashDocument(r)
      \/ ArchiveDocument(r)
      \/ UnarchiveDocument(r)
      \/ RestoreDocument(r)

Spec == Init /\ [][Next]_vars
-----------------------------------------------------------------------------
(* Properties. *)

Revision == [id : RevisionIds, doc : Docs, number : Nat \ {0}, prev : RevisionIds \union {Nil}]

Row == [here : BOOLEAN, head : RevisionIds \union {Nil}, number : Nat,
        thread : Threads \union {Nil}, summary : RevisionIds \union {Nil},
        updated : Nat, trashed : BOOLEAN, archived : BOOLEAN]

CommitRecord == [op : Calls, doc : Docs, by : Requests, rev : RevisionIds \union {Nil},
                 says : BOOLEAN, based : BOOLEAN, read : Nat, loaded : Nat]

Request == [pc : {"idle", "sent", "checked", "loaded", "answered"},
            op : Calls, doc : Docs \union {Nil},
            thread : Threads \union {Nil}, says : BOOLEAN, strict : BOOLEAN,
            named : BOOLEAN, base : RevisionIds \union {Nil}, want : Nat,
            read : Nat, loaded : Nat, saw : Row]

\* The types; a document that is not there leaves nothing in its row, whatever
\* call comes late.
TypeOK ==
    /\ row \in [Docs -> Row]
    /\ \A d \in Docs : ~row[d].here => row[d] = NoRow
    /\ revisions \subseteq Revision
    /\ subject \in [Threads -> Docs \union {Nil}]
    /\ commits \in Seq(CommitRecord)
    /\ req \in [Requests -> Request]
    /\ \A r \in Requests : req[r].pc \in {"sent", "checked", "loaded"} => req[r].doc \in Docs

Positions == 1..Len(commits)

\* Commit j on the same document lies between a position and commit i.
Between(from, j, i) == from < j /\ j < i /\ commits[j].doc = commits[i].doc

\* No blind write: a revision or a patch that names what its client saw (the
\* head, or the timestamp of the row) follows just that, though head and
\* timestamp are compared before the transaction that writes: nobody revised,
\* ended or, for a patch, patched the document in between.
NoBlindWrite ==
    \A i \in Positions : \A j \in Positions :
        commits[i].based /\ Between(commits[i].read, j, i) =>
            /\ commits[j].op \notin {"create", "revise", "purge"}
            /\ commits[i].op = "patch" => commits[j].op # "patch"

\* The summary of a document is the last one a caller gave, except where an
\* update that gave none had loaded its row before that and wrote the old one
\* back: the only way a committed summary is lost.
SummaryIsLatest ==
    \A i \in Positions :
        LET c == commits[i] d == commits[i].doc IN
        /\ c.says
        /\ \A j \in Positions : j > i /\ commits[j].doc = d =>
                                  ~commits[j].says /\ commits[j].op # "purge"
        => \/ row[d].summary = c.by
           \/ \E j \in Positions : /\ j > i /\ commits[j].doc = d
                                   /\ commits[j].op = "revise"
                                   /\ commits[j].loaded < i

\* A document is both trashed and archived only where an archive call loaded
\* it before it was trashed and wrote after that.
MarksExclude ==
    \A d \in Docs :
        row[d].trashed /\ row[d].archived =>
            \E i, j \in Positions : /\ commits[i].op = "archive" /\ commits[i].doc = d
                                    /\ commits[j].op = "trash"
                                    /\ Between(commits[i].loaded, j, i)

\* The event log tells of a document trashed twice in a row only where the two
\* calls overlapped.
TrashEventsAlternate ==
    \A i, j \in Positions :
        /\ commits[i].op = "trash" /\ commits[j].op = "trash"
        /\ i < j /\ commits[i].doc = commits[j].doc
        /\ \A k \in Positions : Between(i, k, j) =>
                commits[k].op \notin {"restore", "create", "purge"}
        => commits[j].loaded < i

\* The backing thread of a document is bound to it and to no other, and a
\* thread is bound to a document that does not use it only after a purge.
ThreadBinding ==
    /\ \A d \in Docs : row[d].here => /\ row[d].thread \in Threads
                                      /\ subject[row[d].thread] = d
    /\ \A t \in Threads, d \in Docs :
         subject[t] = d => \/ row[d].here /\ row[d].thread = t
                           \/ \E i \in Positions : /\ commits[i].op = "purge"
                                                   /\ commits[i].doc = d

\* What the calls promise of the revisions of a document: RevisionHistory.
RevisionNumbered(d, n) == CHOOSE v \in revisions : v.doc = d /\ v.number = n

Entry(v) == [rev |-> v.id, base |-> v.prev]

Chain == [d \in Docs |-> [n \in 1..row[d].number |-> Entry(RevisionNumbered(d, n))]]

History == INSTANCE RevisionHistory
           WITH Revisions <- RevisionIds, NoBase <- Nil, chain <- Chain

\* Every call extends the history of a document by one revision on top of the
\* head its caller was shown, ends it, or leaves it.
ImplementsHistory == History!Spec
=============================================================================
