----------------------------- MODULE BlobLedger -----------------------------
(***************************************************************************)
(* Contents of artifacts in the blob store of the core, the ledger that    *)
(* counts them and the quota checked against it                            *)
(* (core/internal/primitives/{blob_usage,quota,store,attachment_store,     *)
(* boards_store,docs_store}.go, core/internal/blob).                       *)
(*                                                                         *)
(* A blob is named by the hash of its content, so artifacts with equal     *)
(* contents share one.  Blobs live outside the database: a transaction     *)
(* covers the artifact and the ledger, never the blob.  Artifacts and      *)
(* document revisions move their blob into place before they commit, cards *)
(* after it, and a purge deletes blobs after it.                           *)
(*                                                                         *)
(* A database transaction that writes holds SQLite's write lock ("writer") *)
(* from its first write to its commit.  One that read before it wrote      *)
(* fails when another committed in between, so it is a single step here.   *)
(* The size of the database file, which the quota adds to the blobs', is   *)
(* left out.                                                               *)
(***************************************************************************)
EXTENDS Naturals, Sequences, FiniteSets, FiniteSetsExt

CONSTANTS
    Requests,     \* calls of the store, each made once
    Contents,     \* contents, each with its hash
    Size,         \* bytes of a content
    OldContents,  \* sets of contents that artifacts may have from before
    Quotas,       \* limits the process may be started with, 0: none
    Batches,      \* contents of the cards of one call
    MaxFaults,    \* bound on failed calls and crashes
    Nil

ASSUME BlobConstants ==
    /\ Size \in [Contents -> Nat]
    /\ OldContents \subseteq SUBSET Contents
    /\ Quotas \subseteq [artifacts : Nat, bytes : Nat]
    /\ Batches \subseteq Seq(Contents) \ {<<>>}
    /\ MaxFaults \in Nat
    /\ Nil \notin Requests \union Contents
    /\ Requests \intersect Contents = {}
    /\ Nil \notin [bytes : Nat, objects : Nat]

\* Tables have finitely many rows, and requests a bounded size.
ASSUME BlobBounds ==
    /\ \A old \in OldContents : IsFiniteSet(old)
    /\ Batches # {}
    /\ IsFiniteSet({Len(b) : b \in Batches})
    /\ IsFiniteSet({Size[c] : c \in Contents})

VARIABLES
    artifacts,  \* artifacts table
    ledger,     \* contents with a row in blob_usage_ledger
    totals,     \* the row of blob_usage_totals, Nil before the first rebuild
    files,      \* contents whose blob is in the store
    quota,      \* limits of this process
    metering,   \* holder of quotaMu
    writer,     \* holder of the database's write lock
    req,        \* what each call holds in its local variables
    met,        \* history: contents written or purged during a rebuild
    drift,      \* history: contents the ledger may have wrong
    disturbed,  \* history: contents whose blob may be missing or left over
    misled,     \* history: whether there ever was such a content
    faults      \* failures so far

tables == <<artifacts, ledger, totals>>
locks == <<metering, writer>>
history == <<met, drift, disturbed, misled>>
vars == <<tables, files, quota, locks, req, history, faults>>

Stages == {"idle", "ensure", "list", "begin", "stat", "plan", "planned",
           "promoted", "promote", "delete", "done"}

Idle == [pc |-> "idle", op |-> "rebuild", batch |-> <<>>, known |-> FALSE,
         left |-> {}, found |-> {}]

Done == [Idle EXCEPT !.pc = "done"]

\* An artifact: who wrote it, as which item of its call, its content, and
\* whether it is the revision of a card.
Artifact(r, i, c, card) == [by |-> r, item |-> i, content |-> c, card |-> card]

Referenced(as) == {a.content : a \in as}

Measure(cs) == [bytes |-> MapThenSumSet(LAMBDA c : Size[c], cs), objects |-> Cardinality(cs)]

\* What is there is within the limits.
Init ==
    /\ \E old \in OldContents :
         /\ artifacts = {Artifact(c, 1, c, FALSE) : c \in old}
         /\ files = old
         /\ \/ ledger = old /\ totals = Measure(old)
            \/ ledger = {} /\ totals = Nil
    /\ quota \in {q \in Quotas : (q.artifacts > 0 => Cardinality(artifacts) <= q.artifacts)
                                /\ (q.bytes > 0 => Measure(files).bytes <= q.bytes)}
    /\ metering = Nil /\ writer = Nil
    /\ req = [r \in Requests |-> Idle]
    /\ met = [r \in Requests |-> {}]
    /\ drift = {} /\ disturbed = {} /\ misled = FALSE
    /\ faults = 0

-----------------------------------------------------------------------------
(* Who is in the middle of what. *)

ItemsOf(q) == {q.batch[i] : i \in DOMAIN q.batch}

Writes(q) == IF q.pc \in {"planned", "promoted"} THEN ItemsOf(q)
             ELSE IF q.pc = "promote" THEN q.left ELSE {}

BeingWritten == UNION {Writes(req[r]) : r \in Requests}

BeingDeleted == UNION {req[r].left : r \in {x \in Requests : req[x].pc = "delete"}}

Rebuilding(r) == req[r].pc \in {"begin", "stat"}

\* Contents cs are touched while the rebuilds under way may have listed or
\* inspected them already.
Meet(cs) == met' = [r \in Requests |-> IF Rebuilding(r) THEN met[r] \union cs ELSE met[r]]

\* A ledger that was wrong once has let checks pass that later rebuilds do not undo.
Remember == misled' = (misled \/ drift' # {} \/ disturbed' # {})

-----------------------------------------------------------------------------
(* The quota. *)

Limited == quota.artifacts > 0 \/ quota.bytes > 0

\* Mutant: quotaMu is not taken.
Lock_None(r) == UNCHANGED metering

\* quotaMu is taken first and held to the end of the call.
Lock(r) == IF Limited THEN metering = Nil /\ metering' = r ELSE UNCHANGED metering

Unlock(S) == metering' = IF metering \in S THEN Nil ELSE metering

\* checkWorkspaceWriteQuota: one more artifact, growth more bytes.
WithinQuota(growth) ==
    /\ quota.bytes > 0 => totals.bytes + growth <= quota.bytes
    /\ quota.artifacts > 0 => Cardinality(artifacts) + 1 <= quota.artifacts

-----------------------------------------------------------------------------
(* The ledger. *)

Counted(t, cs) == IF t = Nil THEN Nil
                  ELSE [bytes |-> t.bytes + Measure(cs).bytes, objects |-> t.objects + Measure(cs).objects]

Uncounted(t, cs) == IF t = Nil THEN Nil
                    ELSE [bytes |-> t.bytes - Measure(cs).bytes, objects |-> t.objects - Measure(cs).objects]

\* Mutant: the totals are counted up whether or not a row was inserted.
Enter_Always(cs) ==
    /\ ledger' = ledger \union cs
    /\ totals' = Counted(totals, cs)

\* applyBlobLedgerWritePlanTx: a row that is there already is not counted again.
Enter(cs) ==
    /\ ledger' = ledger \union cs
    /\ totals' = Counted(totals, cs \ ledger)

\* removeBlobLedgerEntryTx, for contents without an artifact.
Strike(cs) ==
    /\ ledger' = ledger \ cs
    /\ totals' = Uncounted(totals, cs \intersect ledger)

Finish(r) ==
    /\ req' = [req EXCEPT ![r] = Done]
    /\ Unlock({r})

-----------------------------------------------------------------------------
(* Start of a write, and the ledger's first use. *)

\* A new artifact, attachment or document revision needs the ledger.
StartArtifact(r, c) ==
    /\ req[r].pc = "idle"
    /\ Lock(r)
    /\ req' = [req EXCEPT ![r] = [Idle EXCEPT !.op = "artifact", !.batch = <<c>>, !.pc = "ensure"]]
    /\ UNCHANGED <<tables, files, quota, writer, history, faults>>

\* Cards need it only when bytes are limited.
StartCards(r, batch) ==
    /\ req[r].pc = "idle"
    /\ Lock(r)
    /\ req' = [req EXCEPT ![r] = [Idle EXCEPT !.op = "cards", !.batch = batch,
                                    !.pc = IF quota.bytes > 0 THEN "ensure" ELSE "plan"]]
    /\ UNCHANGED <<tables, files, quota, writer, history, faults>>

\* ensureBlobUsageLedgerInitialized.
EnsureLedger(r) ==
    /\ req[r].pc = "ensure"
    /\ req' = [req EXCEPT ![r].pc = IF totals = Nil THEN "list" ELSE "plan"]
    /\ UNCHANGED <<tables, files, quota, locks, history, faults>>

-----------------------------------------------------------------------------
(* Rebuild, asked for by an operator or by a ledger without totals. *)

\* The contents are listed before the transaction begins.
ListContents(r) ==
    /\ req[r].pc \in {"idle", "list"}
    /\ req' = [req EXCEPT ![r].pc = "begin", ![r].left = Referenced(artifacts)]
    /\ met' = [met EXCEPT ![r] = BeingWritten]
    /\ UNCHANGED <<tables, files, quota, locks, drift, disturbed, misled, faults>>

BeginRebuild(r) ==
    /\ req[r].pc = "begin"
    /\ writer = Nil
    /\ writer' = r
    /\ req' = [req EXCEPT ![r].pc = "stat"]
    /\ UNCHANGED <<tables, files, quota, metering, history, faults>>

\* A missing blob is skipped.
StatContent(r, c) ==
    /\ req[r].pc = "stat"
    /\ c \in req[r].left
    /\ req' = [req EXCEPT ![r].left = @ \ {c}, ![r].found = @ \union ({c} \intersect files)]
    /\ UNCHANGED <<tables, files, quota, locks, history, faults>>

\* Mutant: the old rows are kept.
Rebuilt_Kept(found) == ledger \union found

\* The ledger a rebuild leaves: what it found, and nothing of before.
Rebuilt(found) == found

CommitRebuild(r) ==
    /\ req[r].pc = "stat"
    /\ req[r].left = {}
    /\ ledger' = Rebuilt(req[r].found)
    /\ totals' = Measure(ledger')
    /\ drift' = met[r]
    /\ writer' = Nil
    /\ IF req[r].op = "rebuild"
       THEN Finish(r)
       ELSE req' = [req EXCEPT ![r].pc = "plan", ![r].found = {}] /\ UNCHANGED metering
    /\ met' = [met EXCEPT ![r] = {}]
    /\ UNCHANGED <<artifacts, files, quota, disturbed, faults>>
    /\ Remember

-----------------------------------------------------------------------------
(* Artifacts, attachments and document revisions. *)

\* prepareBlobLedgerWritePlan and the quota check.  A content the ledger or the
\* store has already costs no bytes.  The reads are one step: writers that are
\* metered exclude each other, and a purge only makes room.
PlanArtifact(r) ==
    LET c == req[r].batch[1] IN
    /\ req[r].pc = "plan" /\ req[r].op = "artifact"
    /\ IF WithinQuota(IF c \in ledger \union files THEN 0 ELSE Size[c])
       THEN /\ req' = [req EXCEPT ![r].pc = "planned", ![r].known = c \in ledger]
            /\ Meet({c})
            /\ disturbed' = disturbed \union ({c} \intersect BeingDeleted)
            /\ UNCHANGED metering
       ELSE Finish(r) /\ UNCHANGED <<met, disturbed>>
    /\ UNCHANGED <<tables, files, quota, writer, drift, faults>>
    /\ Remember

\* The artifact is inserted, which takes the write lock, and the staged content
\* is moved into place (a blob that is there already stays).
PromoteArtifact(r) ==
    /\ req[r].pc = "planned"
    /\ writer = Nil
    /\ writer' = r
    /\ files' = files \union ItemsOf(req[r])
    /\ req' = [req EXCEPT ![r].pc = "promoted"]
    /\ UNCHANGED <<tables, quota, metering, history, faults>>

CommitArtifact(r) ==
    LET c == req[r].batch[1] IN
    /\ req[r].pc = "promoted"
    /\ artifacts' = artifacts \union {Artifact(r, 1, c, FALSE)}
    /\ Enter(IF req[r].known THEN {} ELSE {c})
    /\ writer' = Nil
    /\ Finish(r)
    /\ UNCHANGED <<files, quota, history, faults>>

-----------------------------------------------------------------------------
(* Cards and card revisions, one or a batch in one transaction. *)

\* Every card is checked as if it grew the store by its full size, and against
\* what was committed before the transaction, the cards before it not included.
CommitCards(r) ==
    LET cs == ItemsOf(req[r]) IN
    /\ req[r].pc = "plan" /\ req[r].op = "cards"
    /\ IF \A c \in cs : WithinQuota(Size[c])
       THEN /\ writer = Nil
            /\ artifacts' = artifacts \union
                 {Artifact(r, i, req[r].batch[i], TRUE) : i \in DOMAIN req[r].batch}
            /\ Enter(cs)
            /\ req' = [req EXCEPT ![r].pc = "promote", ![r].left = cs]
            /\ Meet(cs)
            /\ disturbed' = disturbed \union (cs \intersect BeingDeleted)
            /\ UNCHANGED metering
       ELSE Finish(r) /\ UNCHANGED <<tables, met, disturbed>>
    /\ UNCHANGED <<files, quota, writer, drift, faults>>
    /\ Remember

\* After the commit the staged contents are moved into place one by one.
PromoteCard(r, c) ==
    /\ req[r].pc = "promote"
    /\ c \in req[r].left
    /\ files' = files \union {c}
    /\ IF req[r].left = {c}
       THEN Finish(r)
       ELSE req' = [req EXCEPT ![r].left = @ \ {c}] /\ UNCHANGED metering
    /\ UNCHANGED <<tables, quota, writer, history, faults>>

-----------------------------------------------------------------------------
(* Purge of an artifact, or of all revisions of a card or a document. *)

\* Mutant: the content goes although another artifact has it.
Unreferenced_Any(gone) == Referenced(gone)

\* Contents of the deleted artifacts that no other artifact has.
Unreferenced(gone) == Referenced(gone) \ Referenced(artifacts \ gone)

\* The lifecycle mark a purge requires is not modelled: any artifact may have it.
Purge(r, gone) ==
    LET cs == Unreferenced(gone) IN
    /\ req[r].pc = "idle"
    /\ writer = Nil
    /\ gone # {} /\ gone \subseteq artifacts
    /\ \A a, b \in gone : a.card = b.card
    /\ artifacts' = artifacts \ gone
    /\ Strike(cs)
    /\ req' = [req EXCEPT ![r] = [Idle EXCEPT !.op = "purge", !.left = cs,
                                    !.pc = IF cs = {} THEN "done" ELSE "delete"]]
    /\ Meet(cs)
    /\ drift' = drift \union (cs \intersect BeingWritten)
    /\ disturbed' = disturbed \union (cs \intersect BeingWritten)
    /\ UNCHANGED <<files, quota, locks, faults>>
    /\ Remember

\* After the commit the blobs are deleted one by one, without another look at
\* the artifacts.
DeleteBlob(r, c) ==
    /\ req[r].pc = "delete"
    /\ c \in req[r].left
    /\ files' = files \ {c}
    /\ IF req[r].left = {c}
       THEN Finish(r)
       ELSE req' = [req EXCEPT ![r].left = @ \ {c}] /\ UNCHANGED metering
    /\ UNCHANGED <<tables, quota, writer, history, faults>>

-----------------------------------------------------------------------------
(* Failures. *)

\* The calls of S end where they are: their transactions are rolled back, what
\* they did to the store stays.
Cut(S) ==
    LET cs(stages) == UNION {Writes(req[r]) : r \in {x \in S : req[x].pc \in stages}} IN
    /\ S # {}
    /\ faults < MaxFaults /\ faults' = faults + 1
    /\ req' = [r \in Requests |-> IF r \in S THEN Done ELSE req[r]]
    /\ Unlock(S)
    /\ writer' = IF writer \in S THEN Nil ELSE writer
    /\ met' = [r \in Requests |-> IF r \in S THEN {} ELSE met[r]]
    /\ drift' = drift \union cs({"promoted"})
    /\ disturbed' = disturbed \union cs({"promoted", "promote"}) \union
                      UNION {req[r].left : r \in {x \in S : req[x].pc = "delete"}}
    /\ UNCHANGED <<tables, files, quota>>
    /\ Remember

InFlight == {r \in Requests : req[r].pc \notin {"idle", "done"}}

\* A statement, a promotion or a deletion fails and the call returns its error.
FailCall(r) == r \in InFlight /\ Cut({r})

Crash == Cut(InFlight)

-----------------------------------------------------------------------------
Next ==
    \/ \E r \in Requests :
         \/ \E c \in Contents : StartArtifact(r, c)
         \/ \E batch \in Batches : StartCards(r, batch)
         \/ EnsureLedger(r)
         \/ ListContents(r)
         \/ BeginRebuild(r)
         \/ \E c \in Contents : StatContent(r, c)
         \/ CommitRebuild(r)
         \/ PlanArtifact(r)
         \/ PromoteArtifact(r)
         \/ CommitArtifact(r)
         \/ CommitCards(r)
         \/ \E c \in Contents : PromoteCard(r, c)
         \/ \E gone \in SUBSET artifacts : Purge(r, gone)
         \/ \E c \in Contents : DeleteBlob(r, c)
         \/ FailCall(r)
    \/ Crash

Spec == Init /\ [][Next]_vars

-----------------------------------------------------------------------------
TypeOK ==
    /\ artifacts \subseteq [by : Requests \union Contents, item : Nat \ {0},
                            content : Contents, card : BOOLEAN]
    /\ ledger \subseteq Contents /\ files \subseteq Contents
    /\ totals = Nil \/ totals \in [bytes : Nat, objects : Nat]
    /\ quota \in Quotas
    /\ metering \in Requests \union {Nil} /\ writer \in Requests \union {Nil}
    /\ req \in [Requests -> [pc : Stages, op : {"artifact", "cards", "purge", "rebuild"},
                             batch : Batches \union {<<c>> : c \in Contents} \union {<<>>}, known : BOOLEAN,
                             left : SUBSET Contents, found : SUBSET Contents]]
    /\ met \in [Requests -> SUBSET Contents]
    /\ drift \subseteq Contents /\ disturbed \subseteq Contents /\ misled \in BOOLEAN
    /\ faults \in 0..MaxFaults

\* A blob is there exactly as long as an artifact needs it.  Only three things
\* leave an artifact without its blob or a blob without an artifact: a call that
\* was cut short next to the store, a write that overlapped the purge of the last
\* artifact with the same content, and a write or deletion still under way.
BlobsFollowArtifacts ==
    \A c \in Contents \ (disturbed \union BeingWritten \union BeingDeleted) :
        c \in files <=> c \in Referenced(artifacts)

\* The ledger counts the contents that artifacts have, without the blobs a
\* rebuild missed.  Crashes and failures between transactions do not make it
\* wrong, only a rebuild or purge that overlapped a write, a purge that overlapped
\* a rebuild, or a promotion whose commit failed; and the next rebuild that
\* nothing overlaps puts it right again.
LedgerFollowsArtifacts ==
    totals # Nil =>
      \A c \in Contents \ drift :
          /\ c \in ledger => c \in Referenced(artifacts)
          /\ (c \in Referenced(artifacts) \intersect files /\ c \notin BeingWritten) => c \in ledger

\* blob_usage_totals is what the rows of the ledger add up to, whichever of
\* writes, purges and rebuilds changed them.
TotalsMatchLedger == totals # Nil => totals = Measure(ledger)

MaxBatch == Max({Len(b) : b \in Batches})
Biggest == Max({Size[c] : c \in Contents})

\* Calls that check the quota and write later never exceed it together.  What
\* one batch of cards can exceed it by is the batch without one card, because
\* the check does not see the cards before it.  Bytes are promised only while
\* the ledger and the store were never in doubt: totals that missed a content
\* let more be written than fits, and the rebuild that finds it shows that.
QuotaRespected ==
    /\ quota.artifacts > 0 => Cardinality(artifacts) <= quota.artifacts + MaxBatch - 1
    /\ quota.bytes > 0 /\ totals # Nil /\ ~misled =>
         totals.bytes <= quota.bytes + (MaxBatch - 1) * Biggest
=============================================================================
