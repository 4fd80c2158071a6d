-------------------------- MODULE BlobLedger_proofs --------------------------
(***************************************************************************)
(* Proofs about BlobLedger, for any calls, contents, limits and failures:  *)
(* blobs and ledger follow the artifacts, the totals are the sum of the    *)
(* ledger, types are kept, and the quota is kept.                          *)
(***************************************************************************)
EXTENDS BlobLedger, FiniteSetTheorems, TLAPS

-----------------------------------------------------------------------------
(* The inductive invariant. *)

Call == [pc : Stages, op : {"artifact", "cards", "purge", "rebuild"},
         batch : Seq(Contents), known : BOOLEAN,
         left : SUBSET Contents, found : SUBSET Contents]

(* Calls, as far as the proofs look at them: a call that writes an artifact *)
(* has one content.                                                        *)
CallsShaped ==
  /\ req \in [Requests -> Call]
  /\ \A r \in Requests :
       /\ req[r].op = "artifact" => ItemsOf(req[r]) = {req[r].batch[1]}
       /\ req[r].pc \in {"planned", "promoted"} => req[r].op = "artifact"
       /\ req[r].pc # "stat" => req[r].found = {}
  /\ met \in [Requests -> SUBSET Contents]
  /\ Referenced(artifacts) \subseteq Contents

(* Where a content is held in a call. *)
Promoting(q, c) == q.pc = "promoted" /\ c \in ItemsOf(q)
Awaiting(q, c) == q.pc = "promote" /\ c \in q.left
Deleting(q, c) == q.pc = "delete" /\ c \in q.left

(* A blob that nothing disturbed has an artifact, is about to get one or is *)
(* about to go; an artifact has its blob, or its card is about to move it   *)
(* into place; a purge deletes what nobody has and nobody writes.           *)
BlobsAccounted ==
  \A c \in Contents \ disturbed :
    /\ c \in files => \/ c \in Referenced(artifacts)
                      \/ \E r \in Requests : Promoting(req[r], c) \/ Deleting(req[r], c)
    /\ c \in Referenced(artifacts) => c \in files \/ \E r \in Requests : Awaiting(req[r], c)
    /\ \A r \in Requests :
         /\ Promoting(req[r], c) => c \in files
         /\ Awaiting(req[r], c) => c \in Referenced(artifacts)
         /\ Deleting(req[r], c) => /\ c \notin Referenced(artifacts)
                                   /\ \A w \in Requests : c \notin Writes(req[w])

(* A rebuild under way has met the contents being written, and knows the    *)
(* contents it did not meet.                                               *)
RebuildsInformed ==
  \A r \in Requests : Rebuilding(r) => \A c \in Contents \ met[r] :
    /\ \A w \in Requests : c \notin Writes(req[w])
    /\ c \in req[r].left \union req[r].found => c \in Referenced(artifacts)
    /\ c \in Referenced(artifacts) =>
         c \in req[r].left \/ (req[r].pc = "stat" /\ (c \in req[r].found \/ c \notin files))

(* The ledger has what artifacts have, but for contents whose commit is      *)
(* still to come; what a planned write found there and what a card entered  *)
(* there is there.                                                          *)
LedgerAccounted ==
  totals # Nil => \A c \in Contents \ drift :
    /\ c \in ledger => c \in Referenced(artifacts)
    /\ c \in Referenced(artifacts) \intersect files =>
         c \in ledger \/ \E r \in Requests : Promoting(req[r], c)
    /\ \A r \in Requests :
         /\ c \in Writes(req[r]) /\ req[r].pc \in {"planned", "promoted"} /\ req[r].known => c \in ledger
         /\ Awaiting(req[r], c) => c \in ledger

BInv == CallsShaped /\ BlobsAccounted /\ RebuildsInformed /\ LedgerAccounted

(* An artifact that is written has one content. *)
LEMMA OneContent ==
  ASSUME NEW c \in Contents
  PROVE  ItemsOf([Idle EXCEPT !.op = "artifact", !.batch = <<c>>, !.pc = "ensure"]) = {c}
  BY DEF ItemsOf, Idle

LEMMA InitOK == Init => BInv
<1> SUFFICES ASSUME Init PROVE BInv
  OBVIOUS
<1>1. req = [r \in Requests |-> Idle] /\ met = [r \in Requests |-> {}]
  BY DEF Init
<1>2. PICK old \in OldContents :
        /\ artifacts = {Artifact(c, 1, c, FALSE) : c \in old}
        /\ files = old
        /\ (ledger = old /\ totals = Measure(old)) \/ (ledger = {} /\ totals = Nil)
  BY Zenon DEF Init
<1>8. Referenced(artifacts) = files
  <2>1. \A c : Artifact(c, 1, c, FALSE).content = c
    BY DEF Artifact
  <2> QED BY ZenonT(40), <1>2, <2>1 DEF Referenced
<1>3. totals # Nil => ledger = files
  BY <1>2
<1>9. old \subseteq Contents
  BY <1>2, BlobConstants
<1>10. <<>> \in Seq(Contents)
  OBVIOUS
<1>11. Idle \in Call /\ Idle.op = "rebuild" /\ Idle.pc = "idle" /\ Idle.found = {}
  BY <1>10 DEF Call, Idle, Stages
<1>12. Referenced(artifacts) \subseteq Contents
  BY <1>2, <1>8, <1>9
<1>4. CallsShaped
  BY <1>1, <1>11, <1>12 DEF CallsShaped
<1>5. BlobsAccounted
  BY <1>1, <1>8 DEF BlobsAccounted, Idle, Promoting, Awaiting, Deleting
<1>6. RebuildsInformed
  BY <1>1 DEF RebuildsInformed, Idle, Rebuilding
<1>7. LedgerAccounted
  BY <1>1, <1>8, <1>3 DEF LedgerAccounted, Idle, Awaiting
<1> QED BY <1>4, <1>5, <1>6, <1>7 DEF BInv

(* Steps of a call that holds nothing before and after. *)
Quiet == {"idle", "ensure", "list", "plan", "done"}

LEMMA QuietStep ==
  ASSUME BInv, NEW r \in Requests, NEW q \in Call,
         req' = [req EXCEPT ![r] = q], req[r].pc \in Quiet, q.pc \in Quiet,
         q.op = "artifact" => ItemsOf(q) = {q.batch[1]}, q.found = {},
         UNCHANGED <<artifacts, ledger, totals, files, met, drift, disturbed>>
  PROVE  BInv'
<1> USE DEF BInv
<1>1. req'[r] = q /\ \A w \in Requests : w # r => req'[w] = req[w]
  BY DEF CallsShaped
<1>9. Referenced(artifacts)' = Referenced(artifacts)
  OBVIOUS
<1>2. CallsShaped'
  BY <1>1, <1>9 DEF CallsShaped, Quiet
<1>3. /\ Writes(q) = {} /\ Writes(req[r]) = {}
      /\ q.pc \notin {"planned", "promoted", "promote", "delete", "begin", "stat"}
      /\ req[r].pc \notin {"planned", "promoted", "promote", "delete", "begin", "stat"}
  BY DEF Writes, Quiet
<1>4. \A w \in Requests : Writes(req'[w]) = Writes(req[w])
  BY <1>1, <1>3
<1>5. \A w \in Requests : \A c :
        /\ Promoting(req'[w], c) <=> Promoting(req[w], c)
        /\ Awaiting(req'[w], c) <=> Awaiting(req[w], c)
        /\ Deleting(req'[w], c) <=> Deleting(req[w], c)
  <2> TAKE w \in Requests
  <2> TAKE c
  <2>1. CASE w = r
    BY <2>1, <1>1, <1>3 DEF Promoting, Awaiting, Deleting
  <2>2. CASE w # r
    BY <2>2, <1>1 DEF Promoting, Awaiting, Deleting
  <2> QED BY <2>1, <2>2
<1>6. BlobsAccounted'
  BY <1>4, <1>5, <1>9 DEF BlobsAccounted
<1>7. RebuildsInformed'
  BY <1>1, <1>3, <1>4, <1>9 DEF RebuildsInformed, Rebuilding
<1>8. LedgerAccounted'
  BY <1>1, <1>3, <1>4, <1>5, <1>9 DEF LedgerAccounted
<1> QED BY <1>2, <1>6, <1>7, <1>8

LEMMA StillOK ==
  ASSUME BInv, UNCHANGED <<artifacts, ledger, totals, files, req, met, drift, disturbed>>
  PROVE  BInv'
<1>1. CallsShaped'
  BY DEF BInv, CallsShaped
<1>2. BlobsAccounted'
  BY DEF BInv, BlobsAccounted
<1>3. RebuildsInformed'
  BY DEF BInv, RebuildsInformed, Rebuilding
<1>4. LedgerAccounted'
  BY DEF BInv, LedgerAccounted
<1> QED BY <1>1, <1>2, <1>3, <1>4 DEF BInv

LEMMA StartArtifactOK ==
  ASSUME BInv, NEW r \in Requests, NEW c \in Contents, StartArtifact(r, c)
  PROVE  BInv'
<1> DEFINE q == [Idle EXCEPT !.op = "artifact", !.batch = <<c>>, !.pc = "ensure"]
<1>4. <<c>> \in Seq(Contents) /\ <<c>>[1] = c
  OBVIOUS
<1>1. q \in Call /\ q.pc = "ensure" /\ q.batch = <<c>> /\ q.found = {}
  BY <1>4 DEF Idle, Call, Stages
<1>5. ItemsOf(q) = {c}
  BY OneContent
<1>2. ItemsOf(q) = {q.batch[1]}
  BY <1>1, <1>4, <1>5
<1>3. /\ req' = [req EXCEPT ![r] = q] /\ req[r].pc = "idle"
      /\ UNCHANGED <<artifacts, ledger, totals, files, met, drift, disturbed>>
  BY DEF StartArtifact, tables, history
<1> HIDE DEF q
<1> QED BY <1>1, <1>2, <1>3, QuietStep DEF Quiet

LEMMA StartCardsOK ==
  ASSUME BInv, NEW r \in Requests, NEW batch \in Batches, StartCards(r, batch)
  PROVE  BInv'
<1> DEFINE q == [Idle EXCEPT !.op = "cards", !.batch = batch,
                             !.pc = IF quota.bytes > 0 THEN "ensure" ELSE "plan"]
<1>1. q \in Call /\ q.pc \in {"ensure", "plan"} /\ q.op = "cards" /\ q.found = {}
  BY BlobConstants DEF Idle, Call, Stages
<1>3. /\ req' = [req EXCEPT ![r] = q] /\ req[r].pc = "idle"
      /\ UNCHANGED <<artifacts, ledger, totals, files, met, drift, disturbed>>
  BY DEF StartCards, tables, history
<1> HIDE DEF q
<1> QED BY <1>1, <1>3, QuietStep DEF Quiet

LEMMA EnsureLedgerOK ==
  ASSUME BInv, NEW r \in Requests, EnsureLedger(r)
  PROVE  BInv'
<1> DEFINE q == [req[r] EXCEPT !.pc = IF totals = Nil THEN "list" ELSE "plan"]
<1>1. /\ q \in Call /\ q.pc \in {"list", "plan"} /\ q.op = req[r].op /\ q.batch = req[r].batch
      /\ q.found = req[r].found
  <2>1. req[r] \in Call
    BY DEF BInv, CallsShaped
  <2>2. {"list", "plan"} \subseteq Stages
    BY DEF Stages
  <2> QED BY <2>1, <2>2 DEF Call
<1>3. /\ req' = [req EXCEPT ![r] = q] /\ req[r].pc = "ensure"
      /\ UNCHANGED <<artifacts, ledger, totals, files, met, drift, disturbed>>
  BY DEF EnsureLedger, tables, history
<1> HIDE DEF q
<1>4. ItemsOf(q) = ItemsOf(req[r])
  BY <1>1 DEF ItemsOf
<1>2. q.op = "artifact" => ItemsOf(q) = {q.batch[1]}
  BY <1>1, <1>4 DEF BInv, CallsShaped
<1>5. q.found = {}
  BY <1>1, <1>3 DEF BInv, CallsShaped
<1> QED BY <1>1, <1>2, <1>3, <1>5, QuietStep DEF Quiet

-----------------------------------------------------------------------------
(* Steps of one call. *)

LEMMA OneCall ==
  ASSUME CallsShaped, NEW r \in Requests, NEW q \in Call,
         req' = [req EXCEPT ![r] = q],
         q.op = "artifact" => ItemsOf(q) = {q.batch[1]},
         q.pc \in {"planned", "promoted"} => q.op = "artifact",
         q.pc # "stat" => q.found = {},
         met' \in [Requests -> SUBSET Contents],
         Referenced(artifacts)' \subseteq Contents
  PROVE  /\ CallsShaped'
         /\ req'[r] = q /\ \A w \in Requests : w # r => req'[w] = req[w]
<1>1. req'[r] = q /\ \A w \in Requests : w # r => req'[w] = req[w]
  BY DEF CallsShaped
<1>2. req' \in [Requests -> Call]
  BY DEF CallsShaped
<1>3. \A w \in Requests : /\ req'[w].op = "artifact" => ItemsOf(req'[w]) = {req'[w].batch[1]}
                          /\ req'[w].pc \in {"planned", "promoted"} => req'[w].op = "artifact"
                          /\ req'[w].pc # "stat" => req'[w].found = {}
  BY <1>1 DEF CallsShaped
<1> QED BY <1>1, <1>2, <1>3 DEF CallsShaped

(* A call keeps what it writes: its contents and its operation. *)
LEMMA SameBatch ==
  ASSUME CallsShaped, NEW r \in Requests, NEW q \in Call, q.op = req[r].op, q.batch = req[r].batch
  PROVE  /\ ItemsOf(q) = ItemsOf(req[r])
         /\ q.op = "artifact" => ItemsOf(q) = {q.batch[1]}
<1>1. ItemsOf(q) = ItemsOf(req[r])
  BY DEF ItemsOf
<1> QED BY <1>1 DEF CallsShaped

(* The end of a call. *)
LEMMA FinishedCall ==
  /\ Done \in Call /\ Done.pc = "done" /\ Done.op = "rebuild" /\ Done.left = {} /\ Done.found = {}
  /\ Writes(Done) = {}
<1>1. <<>> \in Seq(Contents)
  OBVIOUS
<1>2. Done \in Call /\ Done.pc = "done" /\ Done.op = "rebuild" /\ Done.left = {} /\ Done.found = {}
  BY <1>1 DEF Done, Idle, Call, Stages
<1> QED BY <1>2 DEF Writes

LEMMA WritesContents == ASSUME CallsShaped PROVE BeingWritten \subseteq Contents
  BY DEF BeingWritten, Writes, ItemsOf, CallsShaped, Call

-----------------------------------------------------------------------------
(* A rebuild. *)

LEMMA ListContentsOK ==
  ASSUME BInv, NEW r \in Requests, ListContents(r)
  PROVE  BInv'
<1> USE DEF BInv
<1> DEFINE q == [req[r] EXCEPT !.pc = "begin", !.left = Referenced(artifacts)]
<1>0. req[r] \in Call /\ Referenced(artifacts) \in SUBSET Contents
  BY DEF CallsShaped
<1>1. /\ q \in Call /\ q.pc = "begin" /\ q.op = req[r].op /\ q.batch = req[r].batch
      /\ q.left = Referenced(artifacts) /\ q.found = req[r].found
  BY <1>0 DEF Call, Stages
<1>2. /\ req' = [req EXCEPT ![r] = q] /\ req[r].pc \in {"idle", "list"}
      /\ met' = [met EXCEPT ![r] = BeingWritten]
      /\ UNCHANGED <<artifacts, ledger, totals, files, drift, disturbed>>
  BY DEF ListContents, tables
<1> HIDE DEF q
<1>4. /\ met'[r] = BeingWritten /\ \A w \in Requests : w # r => met'[w] = met[w]
      /\ met' \in [Requests -> SUBSET Contents]
  BY <1>2, WritesContents DEF CallsShaped
<1>5. Referenced(artifacts)' = Referenced(artifacts)
  BY <1>2
<1>3. /\ CallsShaped'
      /\ req'[r] = q /\ \A w \in Requests : w # r => req'[w] = req[w]
  <2>1. q.found = {}
    BY <1>1, <1>2 DEF CallsShaped
  <2> QED BY ZenonT(40), <2>1, <1>0, <1>1, <1>2, <1>4, <1>5, SameBatch, OneCall
<1>7. \A w \in Requests : Writes(req'[w]) = Writes(req[w])
  BY <1>1, <1>2, <1>3 DEF Writes
<1>8. \A w \in Requests : \A c :
        /\ Promoting(req'[w], c) <=> Promoting(req[w], c)
        /\ Awaiting(req'[w], c) <=> Awaiting(req[w], c)
        /\ Deleting(req'[w], c) <=> Deleting(req[w], c)
  BY <1>1, <1>2, <1>3 DEF Promoting, Awaiting, Deleting
<1>9. BlobsAccounted'
  BY <1>2, <1>5, <1>7, <1>8 DEF BlobsAccounted
<1>12. \A c \in Contents \ BeingWritten : \A w \in Requests : c \notin Writes(req'[w])
  BY <1>7 DEF BeingWritten
<1>13. req'[r].pc = "begin" /\ req'[r].left = Referenced(artifacts) /\ req'[r].found = {}
  BY <1>1, <1>2, <1>3 DEF CallsShaped
<1>10. RebuildsInformed'
  <2> SUFFICES ASSUME NEW s \in Requests, Rebuilding(s)', NEW c \in Contents, c \notin met'[s]
               PROVE  /\ \A w \in Requests : c \notin Writes(req'[w])
                      /\ c \in req'[s].left \union req'[s].found => c \in Referenced(artifacts)
                      /\ c \in Referenced(artifacts) =>
                           \/ c \in req'[s].left
                           \/ req'[s].pc = "stat" /\ (c \in req'[s].found \/ c \notin files)
    BY <1>2, <1>5 DEF RebuildsInformed
  <2>1. CASE s = r
    BY <2>1, <1>4, <1>12, <1>13
  <2>2. CASE s # r
    BY <2>2, <1>3, <1>4, <1>7 DEF RebuildsInformed, Rebuilding
  <2> QED BY <2>1, <2>2
<1>11. LedgerAccounted'
  BY <1>1, <1>2, <1>3, <1>5, <1>7, <1>8 DEF LedgerAccounted
<1> QED BY <1>3, <1>9, <1>10, <1>11

LEMMA BeginRebuildOK ==
  ASSUME BInv, NEW r \in Requests, BeginRebuild(r)
  PROVE  BInv'
<1> USE DEF BInv
<1> DEFINE q == [req[r] EXCEPT !.pc = "stat"]
<1>0. req[r] \in Call
  BY DEF CallsShaped
<1>1. /\ q \in Call /\ q.pc = "stat" /\ q.op = req[r].op /\ q.batch = req[r].batch
      /\ q.left = req[r].left /\ q.found = req[r].found
  BY <1>0 DEF Call, Stages
<1>2. /\ req' = [req EXCEPT ![r] = q] /\ req[r].pc = "begin"
      /\ UNCHANGED <<artifacts, ledger, totals, files, met, drift, disturbed>>
  BY DEF BeginRebuild, tables, history
<1> HIDE DEF q
<1>5. Referenced(artifacts)' = Referenced(artifacts) /\ met' \in [Requests -> SUBSET Contents]
  BY <1>2 DEF CallsShaped
<1>3. /\ CallsShaped'
      /\ req'[r] = q /\ \A w \in Requests : w # r => req'[w] = req[w]
  <2>1. Referenced(artifacts)' \subseteq Contents
    BY <1>5 DEF CallsShaped
  <2> QED BY <2>1, <1>0, <1>1, <1>2, <1>5, SameBatch, OneCall
<1>7. \A w \in Requests : Writes(req'[w]) = Writes(req[w])
  BY <1>1, <1>2, <1>3 DEF Writes
<1>8. \A w \in Requests : \A c :
        /\ Promoting(req'[w], c) <=> Promoting(req[w], c)
        /\ Awaiting(req'[w], c) <=> Awaiting(req[w], c)
        /\ Deleting(req'[w], c) <=> Deleting(req[w], c)
  BY <1>1, <1>2, <1>3 DEF Promoting, Awaiting, Deleting
<1>9. BlobsAccounted'
  BY <1>2, <1>5, <1>7, <1>8 DEF BlobsAccounted
<1>10. RebuildsInformed'
  BY <1>1, <1>2, <1>3, <1>5, <1>7 DEF RebuildsInformed, Rebuilding
<1>11. LedgerAccounted'
  BY <1>1, <1>2, <1>3, <1>5, <1>7, <1>8 DEF LedgerAccounted
<1> QED BY <1>3, <1>9, <1>10, <1>11

LEMMA StatContentOK ==
  ASSUME BInv, NEW r \in Requests, NEW c \in Contents, StatContent(r, c)
  PROVE  BInv'
<1> USE DEF BInv
<1> DEFINE q == [req[r] EXCEPT !.left = @ \ {c}, !.found = @ \union ({c} \intersect files)]
<1>0. req[r] \in Call
  BY DEF CallsShaped
<1>1. /\ q \in Call /\ q.pc = req[r].pc /\ q.op = req[r].op /\ q.batch = req[r].batch
      /\ q.left = req[r].left \ {c} /\ q.found = req[r].found \union ({c} \intersect files)
  BY <1>0 DEF Call, Stages
<1>2. /\ req' = [req EXCEPT ![r] = q] /\ req[r].pc = "stat" /\ c \in req[r].left
      /\ UNCHANGED <<artifacts, ledger, totals, files, met, drift, disturbed>>
  BY DEF StatContent, tables, history
<1> HIDE DEF q
<1>5. Referenced(artifacts)' = Referenced(artifacts) /\ met' \in [Requests -> SUBSET Contents]
  BY <1>2 DEF CallsShaped
<1>3. /\ CallsShaped'
      /\ req'[r] = q /\ \A w \in Requests : w # r => req'[w] = req[w]
  <2>1. Referenced(artifacts)' \subseteq Contents
    BY <1>5 DEF CallsShaped
  <2> QED BY <2>1, <1>0, <1>1, <1>2, <1>5, SameBatch, OneCall
<1>7. \A w \in Requests : Writes(req'[w]) = Writes(req[w])
  BY <1>1, <1>2, <1>3 DEF Writes
<1>8. \A w \in Requests : \A d :
        /\ Promoting(req'[w], d) <=> Promoting(req[w], d)
        /\ Awaiting(req'[w], d) <=> Awaiting(req[w], d)
        /\ Deleting(req'[w], d) <=> Deleting(req[w], d)
  BY <1>1, <1>2, <1>3 DEF Promoting, Awaiting, Deleting
<1>9. BlobsAccounted'
  BY <1>2, <1>5, <1>7, <1>8 DEF BlobsAccounted
<1>10. RebuildsInformed'
  BY <1>1, <1>2, <1>3, <1>5, <1>7 DEF RebuildsInformed, Rebuilding
<1>11. LedgerAccounted'
  BY <1>1, <1>2, <1>3, <1>5, <1>7, <1>8 DEF LedgerAccounted
<1> QED BY <1>3, <1>9, <1>10, <1>11

LEMMA CommitRebuildOK ==
  ASSUME BInv, NEW r \in Requests, CommitRebuild(r)
  PROVE  BInv'
<1> USE DEF BInv
<1>1. PICK q \in Call :
        /\ req' = [req EXCEPT ![r] = q] /\ q.pc \in {"plan", "done"}
        /\ q.op = "artifact" => ItemsOf(q) = {q.batch[1]}
        /\ q.found = {}
  <2>1. CASE req[r].op = "rebuild"
    BY <2>1, FinishedCall DEF CommitRebuild, Finish
  <2>2. CASE req[r].op # "rebuild"
    <3> DEFINE q == [req[r] EXCEPT !.pc = "plan", !.found = {}]
    <3>0. req[r] \in Call
      BY DEF CallsShaped
    <3>1. q \in Call /\ q.pc = "plan" /\ q.op = req[r].op /\ q.batch = req[r].batch /\ q.found = {}
      BY <3>0 DEF Call, Stages
    <3>2. req' = [req EXCEPT ![r] = q]
      BY <2>2 DEF CommitRebuild
    <3> HIDE DEF q
    <3> QED BY <3>1, <3>2, SameBatch
  <2> QED BY <2>1, <2>2
<1>2. /\ req[r].pc = "stat" /\ req[r].left = {} /\ ledger' = req[r].found
      /\ drift' = met[r] /\ met' = [met EXCEPT ![r] = {}]
      /\ UNCHANGED <<artifacts, files, disturbed>>
  BY DEF CommitRebuild, Rebuilt
<1>4. /\ met' \in [Requests -> SUBSET Contents] /\ \A w \in Requests : w # r => met'[w] = met[w]
      /\ met[r] \subseteq Contents
  BY <1>2 DEF CallsShaped
<1>5. Referenced(artifacts)' = Referenced(artifacts)
  BY <1>2
<1>3. /\ CallsShaped'
      /\ req'[r] = q /\ \A w \in Requests : w # r => req'[w] = req[w]
  <2>1. Referenced(artifacts)' \subseteq Contents
    BY <1>5 DEF CallsShaped
  <2> QED BY <2>1, <1>1, <1>4, OneCall
<1>7. \A w \in Requests : Writes(req'[w]) = Writes(req[w])
  BY <1>1, <1>2, <1>3 DEF Writes
<1>8. \A w \in Requests : \A d :
        /\ Promoting(req'[w], d) <=> Promoting(req[w], d)
        /\ Awaiting(req'[w], d) <=> Awaiting(req[w], d)
        /\ Deleting(req'[w], d) <=> Deleting(req[w], d)
  BY <1>1, <1>2, <1>3 DEF Promoting, Awaiting, Deleting
<1>9. BlobsAccounted'
  BY <1>2, <1>5, <1>7, <1>8 DEF BlobsAccounted
<1>10. RebuildsInformed'
  BY <1>1, <1>2, <1>3, <1>4, <1>5, <1>7 DEF RebuildsInformed, Rebuilding
<1>11. LedgerAccounted'
  <2>1. \A c \in Contents \ met[r] :
          /\ \A w \in Requests : c \notin Writes(req[w])
          /\ c \in req[r].found => c \in Referenced(artifacts)
          /\ c \in Referenced(artifacts) \intersect files => c \in req[r].found
    BY <1>2 DEF RebuildsInformed, Rebuilding
  <2>2. \A c : \A w \in Requests : Awaiting(req[w], c) => c \in Writes(req[w])
    BY DEF Awaiting, Writes
  <2> QED BY <2>1, <2>2, <1>2, <1>5, <1>7, <1>8 DEF LedgerAccounted
<1> QED BY <1>3, <1>9, <1>10, <1>11

-----------------------------------------------------------------------------
(* Artifacts. *)

LEMMA PlanArtifactOK ==
  ASSUME BInv, NEW r \in Requests, PlanArtifact(r)
  PROVE  BInv'
<1> USE DEF BInv
<1>0. req[r] \in Call /\ ItemsOf(req[r]) = {req[r].batch[1]} /\ req[r].found = {}
      /\ req[r].batch[1] \in Contents
  <2>1. req[r] \in Call /\ ItemsOf(req[r]) = {req[r].batch[1]} /\ req[r].found = {}
    BY DEF CallsShaped, PlanArtifact
  <2>2. ItemsOf(req[r]) \subseteq Contents
    BY <2>1 DEF ItemsOf, Call
  <2> QED BY <2>1, <2>2
<1>1. CASE req' = [req EXCEPT ![r] = Done] /\ UNCHANGED <<artifacts, ledger, totals, files, met, drift, disturbed>>
  BY <1>1, FinishedCall, QuietStep DEF PlanArtifact, Quiet
<1>2. ASSUME /\ req' = [req EXCEPT ![r].pc = "planned", ![r].known = req[r].batch[1] \in ledger]
             /\ Meet({req[r].batch[1]})
             /\ disturbed' = disturbed \union ({req[r].batch[1]} \intersect BeingDeleted)
             /\ UNCHANGED <<artifacts, ledger, totals, files, drift>>
      PROVE  BInv'
  <2> DEFINE q == [req[r] EXCEPT !.pc = "planned", !.known = req[r].batch[1] \in ledger]
             b == req[r].batch[1]
  <2>1. /\ q \in Call /\ q.pc = "planned" /\ q.op = "artifact" /\ q.batch = req[r].batch
        /\ (q.known => b \in ledger) /\ q.found = req[r].found
        /\ req[r].pc = "plan" /\ req[r].op = "artifact"
    <3>1. PICK k \in BOOLEAN : k = (b \in ledger)
      <4>1. (b \in ledger) \in BOOLEAN
        OBVIOUS
      <4> QED BY <4>1, Zenon
    <3>2. q = [req[r] EXCEPT !.pc = "planned", !.known = k]
      BY <3>1
    <3>3. req[r].pc = "plan" /\ req[r].op = "artifact"
      BY DEF PlanArtifact
    <3> HIDE DEF q
    <3>4. /\ q \in Call /\ q.pc = "planned" /\ q.op = req[r].op /\ q.batch = req[r].batch
          /\ q.known = k /\ q.found = req[r].found
      BY <1>0, <3>2 DEF Call, Stages
    <3> QED BY <3>1, <3>3, <3>4
  <2>2. req' = [req EXCEPT ![r] = q]
    BY <1>2
  <2> HIDE DEF q
  <2>3. /\ met' \in [Requests -> SUBSET Contents]
        /\ \A w \in Requests : met'[w] = IF Rebuilding(w) THEN met[w] \union {b} ELSE met[w]
    BY <1>2, <1>0 DEF Meet, CallsShaped
  <2>4. Referenced(artifacts)' = Referenced(artifacts)
    BY <1>2
  <2>5. /\ CallsShaped'
        /\ req'[r] = q /\ \A w \in Requests : w # r => req'[w] = req[w]
    <3>1. Referenced(artifacts)' \subseteq Contents
      BY <2>4 DEF CallsShaped
    <3>2. q.op = "artifact" => ItemsOf(q) = {q.batch[1]}
      BY <2>1, SameBatch
    <3>3. q.pc # "stat" => q.found = {}
      BY <1>0, <2>1
    <3> QED BY <3>1, <3>2, <3>3, <2>1, <2>2, <2>3, OneCall
  <2>6. Writes(req'[r]) = {b} /\ \A w \in Requests : w # r => Writes(req'[w]) = Writes(req[w])
    BY <1>0, <2>1, <2>5, SameBatch DEF Writes
  <2>7. \A w \in Requests : \A d :
          /\ Promoting(req'[w], d) <=> Promoting(req[w], d)
          /\ Awaiting(req'[w], d) <=> Awaiting(req[w], d)
          /\ Deleting(req'[w], d) <=> Deleting(req[w], d)
    BY <2>1, <2>5 DEF Promoting, Awaiting, Deleting
  <2>8. \A w \in Requests : Deleting(req[w], b) => b \in disturbed'
    BY <1>2 DEF BeingDeleted, Deleting
  <2>12. disturbed \subseteq disturbed' /\ artifacts' = artifacts /\ files' = files
    BY <1>2
  <2>13. \A c \in Contents : c \notin disturbed' =>
            \A w \in Requests : Deleting(req[w], c) => \A x \in Requests : c \notin Writes(req'[x])
    BY <2>6, <2>8, <2>12 DEF BlobsAccounted
  <2> HIDE DEF b
  <2>9. BlobsAccounted'
    BY <2>4, <2>7, <2>12, <2>13 DEF BlobsAccounted
  <2>10. RebuildsInformed'
    BY ZenonT(40), <1>2, <2>1, <2>3, <2>4, <2>5, <2>6 DEF RebuildsInformed, Rebuilding
  <2>14. /\ ledger' = ledger /\ totals' = totals /\ drift' = drift
         /\ \A w \in Requests : w # r => req'[w] = req[w]
         /\ req'[r].known => b \in ledger
    BY <1>2, <2>1, <2>5
  <2>11. LedgerAccounted'
    BY <2>4, <2>6, <2>7, <2>12, <2>14 DEF LedgerAccounted
  <2> QED BY <2>5, <2>9, <2>10, <2>11
<1> QED BY <1>1, <1>2 DEF PlanArtifact, Finish, tables

LEMMA PromoteArtifactOK ==
  ASSUME BInv, NEW r \in Requests, PromoteArtifact(r)
  PROVE  BInv'
<1> USE DEF BInv
<1> DEFINE q == [req[r] EXCEPT !.pc = "promoted"]
<1>0. req[r] \in Call /\ req[r].pc = "planned" /\ req[r].op = "artifact" /\ req[r].found = {}
  BY DEF CallsShaped, PromoteArtifact
<1>1. /\ q \in Call /\ q.pc = "promoted" /\ q.op = req[r].op /\ q.batch = req[r].batch
      /\ q.found = req[r].found /\ q.known = req[r].known
  BY <1>0 DEF Call, Stages
<1>2. /\ req' = [req EXCEPT ![r] = q] /\ files' = files \union ItemsOf(req[r])
      /\ UNCHANGED <<artifacts, ledger, totals, met, drift, disturbed>>
  BY DEF PromoteArtifact, tables, history
<1> HIDE DEF q
<1>4. q.op = "artifact" => ItemsOf(q) = {q.batch[1]}
  BY <1>0, <1>1, SameBatch
<1>5. /\ Referenced(artifacts)' = Referenced(artifacts) /\ met' \in [Requests -> SUBSET Contents]
      /\ Referenced(artifacts)' \subseteq Contents
  BY <1>2 DEF CallsShaped
<1>3. /\ CallsShaped'
      /\ req'[r] = q /\ \A w \in Requests : w # r => req'[w] = req[w]
  BY <1>0, <1>1, <1>2, <1>4, <1>5, OneCall
<1>6. ItemsOf(q) = ItemsOf(req[r])
  BY <1>0, <1>1, SameBatch
<1>7. (\A w \in Requests : Writes(req'[w]) = Writes(req[w])) /\ Writes(req[r]) = ItemsOf(req[r])
  BY <1>0, <1>1, <1>3, <1>6 DEF Writes
<1>8. /\ \A w \in Requests : \A c :
           /\ Awaiting(req'[w], c) <=> Awaiting(req[w], c)
           /\ Deleting(req'[w], c) <=> Deleting(req[w], c)
      /\ \A w \in Requests : \A c :
           Promoting(req'[w], c) <=> (Promoting(req[w], c) \/ (w = r /\ c \in ItemsOf(req[r])))
  BY <1>0, <1>1, <1>3, <1>6 DEF Promoting, Awaiting, Deleting
<1>9. BlobsAccounted'
  BY <1>2, <1>5, <1>7, <1>8 DEF BlobsAccounted
<1>10. RebuildsInformed'
  BY <1>0, <1>1, <1>2, <1>3, <1>5, <1>7 DEF RebuildsInformed, Rebuilding
<1>11. LedgerAccounted'
  BY <1>0, <1>1, <1>2, <1>3, <1>5, <1>7, <1>8 DEF LedgerAccounted
<1> QED BY <1>3, <1>9, <1>10, <1>11

(* A commit adds the contents of its artifacts to those that are referenced. *)
LEMMA ReferencedGrows ==
  ASSUME NEW as, NEW more
  PROVE  Referenced(as \union more) = Referenced(as) \union Referenced(more)
  BY DEF Referenced

LEMMA ReferencedOne ==
  ASSUME NEW a PROVE Referenced({a}) = {a.content}
  BY DEF Referenced

LEMMA CommitArtifactOK ==
  ASSUME BInv, NEW r \in Requests, CommitArtifact(r)
  PROVE  BInv'
<1> USE DEF BInv
<1> DEFINE b == req[r].batch[1]
<1>0. /\ req[r] \in Call /\ req[r].pc = "promoted" /\ ItemsOf(req[r]) = {b}
      /\ b \in Contents
  <2>1. req[r] \in Call /\ req[r].pc = "promoted" /\ ItemsOf(req[r]) = {b}
    BY DEF CallsShaped, CommitArtifact
  <2>2. ItemsOf(req[r]) \subseteq Contents
    BY <2>1 DEF ItemsOf, Call
  <2> QED BY <2>1, <2>2
<1>1. Writes(req[r]) = {b} /\ Promoting(req[r], b)
  BY <1>0 DEF Writes, Promoting
<1>2. /\ req' = [req EXCEPT ![r] = Done]
      /\ artifacts' = artifacts \union {Artifact(r, 1, b, FALSE)}
      /\ ledger \subseteq ledger' /\ ledger' \subseteq ledger \union {b}
      /\ ~req[r].known => b \in ledger'
      /\ totals' # Nil => totals # Nil
      /\ UNCHANGED <<files, met, drift, disturbed>>
  BY DEF CommitArtifact, Enter, Counted, Finish, history
<1>5. Referenced(artifacts)' = Referenced(artifacts) \union {b}
  <2>1. PICK a : a = Artifact(r, 1, b, FALSE)
    OBVIOUS
  <2>2. a.content = b
    BY <2>1 DEF Artifact
  <2>3. artifacts' = artifacts \union {a}
    <3>1. artifacts' = artifacts \union {Artifact(r, 1, b, FALSE)}
      BY <1>2
    <3> QED BY <2>1, <3>1, Zenon
  <2>4. Referenced({a}) = {b}
    BY <2>2, ReferencedOne
  <2> HIDE DEF b
  <2> QED BY <2>3, <2>4, ReferencedGrows
<1>3. /\ CallsShaped'
      /\ req'[r] = Done /\ \A w \in Requests : w # r => req'[w] = req[w]
  <2>1. met' \in [Requests -> SUBSET Contents] /\ Referenced(artifacts)' \subseteq Contents
    BY <1>0, <1>2, <1>5 DEF CallsShaped
  <2> QED BY <2>1, <1>2, FinishedCall, OneCall
<1>7. Writes(req'[r]) = {} /\ \A w \in Requests : w # r => Writes(req'[w]) = Writes(req[w])
  BY <1>3, FinishedCall
<1>8. \A w \in Requests : \A c :
        /\ Awaiting(req'[w], c) <=> Awaiting(req[w], c)
        /\ Deleting(req'[w], c) <=> Deleting(req[w], c)
        /\ Promoting(req'[w], c) <=> (Promoting(req[w], c) /\ w # r)
        /\ Promoting(req[r], c) => c = b
  BY <1>0, <1>3, FinishedCall DEF Promoting, Awaiting, Deleting
<1> HIDE DEF b
<1>9. BlobsAccounted'
  <2> SUFFICES ASSUME NEW c \in Contents, c \notin disturbed
               PROVE  /\ c \in files => \/ c \in Referenced(artifacts)'
                                        \/ \E w \in Requests : Promoting(req'[w], c) \/ Deleting(req'[w], c)
                      /\ c \in Referenced(artifacts)' =>
                           c \in files \/ \E w \in Requests : Awaiting(req'[w], c)
                      /\ \A w \in Requests :
                           /\ Promoting(req'[w], c) => c \in files
                           /\ Awaiting(req'[w], c) => c \in Referenced(artifacts)'
                           /\ Deleting(req'[w], c) => /\ c \notin Referenced(artifacts)'
                                                     /\ \A x \in Requests : c \notin Writes(req'[x])
    BY <1>2 DEF BlobsAccounted
  <2>1. CASE c = b
    BY <2>1, <1>1, <1>5, <1>7, <1>8 DEF BlobsAccounted
  <2>2. CASE c # b
    BY <2>2, <1>1, <1>5, <1>7, <1>8 DEF BlobsAccounted
  <2> QED BY <2>1, <2>2
<1>10. RebuildsInformed'
  BY <1>0, <1>1, <1>2, <1>3, <1>5, <1>7, FinishedCall DEF RebuildsInformed, Rebuilding
<1>11. LedgerAccounted'
  BY ZenonT(40), <1>0, <1>1, <1>2, <1>3, <1>5, <1>7, <1>8, FinishedCall DEF LedgerAccounted
<1> QED BY <1>3, <1>9, <1>10, <1>11

-----------------------------------------------------------------------------
(* Cards. *)

LEMMA CommitCardsOK ==
  ASSUME BInv, NEW r \in Requests, CommitCards(r)
  PROVE  BInv'
<1> USE DEF BInv
<1> DEFINE cs == ItemsOf(req[r])
<1>0. /\ req[r] \in Call /\ req[r].pc = "plan" /\ req[r].op = "cards" /\ req[r].found = {}
      /\ cs \subseteq Contents
  <2>1. req[r] \in Call /\ req[r].pc = "plan" /\ req[r].op = "cards" /\ req[r].found = {}
    BY DEF CallsShaped, CommitCards
  <2> QED BY <2>1 DEF ItemsOf, Call
<1>1. CASE req' = [req EXCEPT ![r] = Done] /\ UNCHANGED <<artifacts, ledger, totals, files, met, drift, disturbed>>
  BY <1>0, <1>1, FinishedCall, QuietStep DEF Quiet
<1>2. ASSUME /\ artifacts' = artifacts \union
                  {Artifact(r, i, req[r].batch[i], TRUE) : i \in DOMAIN req[r].batch}
             /\ Enter(cs)
             /\ req' = [req EXCEPT ![r].pc = "promote", ![r].left = cs]
             /\ Meet(cs)
             /\ disturbed' = disturbed \union (cs \intersect BeingDeleted)
             /\ UNCHANGED <<files, drift>>
      PROVE  BInv'
  <2> DEFINE q == [req[r] EXCEPT !.pc = "promote", !.left = cs]
  <2>1. /\ q \in Call /\ q.pc = "promote" /\ q.op = "cards" /\ q.batch = req[r].batch
        /\ q.left = cs /\ q.found = {}
    BY <1>0 DEF Call, Stages
  <2>2. req' = [req EXCEPT ![r] = q]
    BY <1>2
  <2> HIDE DEF q
  <2>3. /\ met' \in [Requests -> SUBSET Contents]
        /\ \A w \in Requests : met'[w] = IF Rebuilding(w) THEN met[w] \union cs ELSE met[w]
    BY <1>2, <1>0 DEF Meet, CallsShaped
  <2>4. Referenced(artifacts)' = Referenced(artifacts) \union cs
    <3>1. PICK as : as = {Artifact(r, i, req[r].batch[i], TRUE) : i \in DOMAIN req[r].batch}
      OBVIOUS
    <3>2. \A i : Artifact(r, i, req[r].batch[i], TRUE).content = req[r].batch[i]
      BY DEF Artifact
    <3>4. \A a \in as : \E i \in DOMAIN req[r].batch : a.content = req[r].batch[i]
      BY <3>1, <3>2
    <3>5. \A i \in DOMAIN req[r].batch : \E a \in as : a.content = req[r].batch[i]
      BY <3>1, <3>2
    <3>3. Referenced(as) = cs
      <4>1. \A x : x \in Referenced(as) <=> \E a \in as : x = a.content
        BY DEF Referenced
      <4>2. \A x : x \in cs <=> \E i \in DOMAIN req[r].batch : x = req[r].batch[i]
        BY DEF ItemsOf
      <4> HIDE DEF cs
      <4>3. \A x : x \in Referenced(as) => x \in cs
        BY <3>4, <4>1, <4>2
      <4>4. \A x : x \in cs => x \in Referenced(as)
        BY <3>5, <4>1, <4>2
      <4> QED BY <4>3, <4>4
    <3>6. artifacts' = artifacts \union as
      BY <1>2, <3>1, Zenon
    <3> HIDE DEF cs
    <3> QED BY <3>3, <3>6, ReferencedGrows
  <2>5. /\ CallsShaped'
        /\ req'[r] = q /\ \A w \in Requests : w # r => req'[w] = req[w]
    <3>1. Referenced(artifacts)' \subseteq Contents
      BY <2>4, <1>0 DEF CallsShaped
    <3> QED BY <3>1, <2>1, <2>2, <2>3, OneCall
  <2>6. Writes(req'[r]) = cs /\ \A w \in Requests : w # r => Writes(req'[w]) = Writes(req[w])
    BY <2>1, <2>5 DEF Writes
  <2>7. \A w \in Requests : \A d :
          /\ Promoting(req'[w], d) <=> Promoting(req[w], d)
          /\ Awaiting(req'[w], d) <=> (Awaiting(req[w], d) \/ (w = r /\ d \in cs))
          /\ Deleting(req'[w], d) <=> Deleting(req[w], d)
    BY <1>0, <2>1, <2>5 DEF Promoting, Awaiting, Deleting
  <2>8. \A w \in Requests : \A d \in cs : Deleting(req[w], d) => d \in disturbed'
    BY <1>2 DEF BeingDeleted, Deleting
  <2>12. disturbed \subseteq disturbed' /\ files' = files /\ drift' = drift
    BY <1>2
  <2>13. ledger' = ledger \union cs /\ (totals' # Nil => totals # Nil)
    BY <1>2 DEF Enter, Counted
  <2> HIDE DEF cs
  <2>14. \A c \in Contents : c \notin disturbed' =>
            \A w \in Requests : Deleting(req[w], c) =>
                c \notin cs /\ \A x \in Requests : c \notin Writes(req'[x])
    BY <2>6, <2>8, <2>12 DEF BlobsAccounted
  <2>9. BlobsAccounted'
    BY <2>4, <2>7, <2>12, <2>14 DEF BlobsAccounted
  <2>10. RebuildsInformed'
    BY <1>0, <2>1, <2>3, <2>4, <2>5, <2>6, <2>12 DEF RebuildsInformed, Rebuilding
  <2>11. LedgerAccounted'
    BY <1>0, <2>1, <2>4, <2>5, <2>6, <2>7, <2>12, <2>13 DEF LedgerAccounted
  <2> QED BY <2>5, <2>9, <2>10, <2>11
<1> QED BY <1>1, <1>2 DEF CommitCards, Finish, tables

LEMMA PromoteCardOK ==
  ASSUME BInv, NEW r \in Requests, NEW c \in Contents, PromoteCard(r, c)
  PROVE  BInv'
<1> USE DEF BInv
<1>0. /\ req[r] \in Call /\ req[r].pc = "promote" /\ c \in req[r].left /\ req[r].found = {}
      /\ files' = files \union {c}
      /\ UNCHANGED <<artifacts, ledger, totals, met, drift, disturbed>>
  BY DEF CallsShaped, PromoteCard, tables, history
<1>1. PICK q \in Call :
        /\ req' = [req EXCEPT ![r] = q] /\ q.found = {}
        /\ q.op = "artifact" => ItemsOf(q) = {q.batch[1]}
        /\ q.pc \in {"promote", "done"}
        /\ IF q.pc = "promote" THEN q.left = req[r].left \ {c} ELSE req[r].left = {c}
  <2>1. CASE req[r].left = {c}
    BY <2>1, FinishedCall DEF PromoteCard, Finish
  <2>2. CASE req[r].left # {c}
    <3> DEFINE q == [req[r] EXCEPT !.left = @ \ {c}]
    <3>1. /\ q \in Call /\ q.pc = "promote" /\ q.op = req[r].op /\ q.batch = req[r].batch
          /\ q.found = {} /\ q.left = req[r].left \ {c}
      BY <1>0 DEF Call, Stages
    <3>2. req' = [req EXCEPT ![r] = q]
      BY <2>2 DEF PromoteCard
    <3> HIDE DEF q
    <3> QED BY <1>0, <3>1, <3>2, SameBatch
  <2> QED BY <2>1, <2>2
<1>5. /\ Referenced(artifacts)' = Referenced(artifacts) /\ met' \in [Requests -> SUBSET Contents]
      /\ Referenced(artifacts)' \subseteq Contents
  BY <1>0 DEF CallsShaped
<1>3. /\ CallsShaped'
      /\ req'[r] = q /\ \A w \in Requests : w # r => req'[w] = req[w]
  BY <1>1, <1>5, OneCall
<1>7. \A w \in Requests : Writes(req'[w]) \subseteq Writes(req[w])
  BY <1>0, <1>1, <1>3 DEF Writes
<1>8. \A w \in Requests : \A d :
        /\ Promoting(req'[w], d) <=> Promoting(req[w], d)
        /\ Awaiting(req'[w], d) <=> (Awaiting(req[w], d) /\ ~(w = r /\ d = c))
        /\ Deleting(req'[w], d) <=> Deleting(req[w], d)
  BY <1>0, <1>1, <1>3 DEF Promoting, Awaiting, Deleting
<1>6. Awaiting(req[r], c) /\ c \in Writes(req[r])
  BY <1>0 DEF Awaiting, Writes
<1>9. BlobsAccounted'
  <2>1. UNCHANGED <<artifacts, disturbed>> /\ files' = files \union {c}
    BY <1>0
  <2> QED BY SMTT(20), <1>5, <1>6, <1>7, <1>8, <2>1 DEF BlobsAccounted
<1>10. RebuildsInformed'
  BY <1>0, <1>1, <1>3, <1>5, <1>6, <1>7 DEF RebuildsInformed, Rebuilding
<1>11. LedgerAccounted'
  BY <1>0, <1>1, <1>3, <1>5, <1>6, <1>7, <1>8 DEF LedgerAccounted
<1> QED BY <1>3, <1>9, <1>10, <1>11

-----------------------------------------------------------------------------
(* Purges. *)

LEMMA PurgeOK ==
  ASSUME BInv, NEW r \in Requests, NEW gone \in SUBSET artifacts, Purge(r, gone)
  PROVE  BInv'
<1> USE DEF BInv
<1> DEFINE cs == Unreferenced(gone)
           q == [Idle EXCEPT !.op = "purge", !.left = cs,
                             !.pc = IF cs = {} THEN "done" ELSE "delete"]
<1>5. Referenced(artifacts)' = Referenced(artifacts) \ cs /\ cs \subseteq Referenced(artifacts)
  <2>1. artifacts' = artifacts \ gone
    BY DEF Purge
  <2>2. artifacts = (artifacts \ gone) \union gone
    OBVIOUS
  <2>3. Referenced(artifacts) = Referenced(artifacts \ gone) \union Referenced(gone)
    BY <2>2, ReferencedGrows
  <2> QED BY <2>1, <2>3 DEF Unreferenced
<1>0. cs \subseteq Contents /\ req[r].pc = "idle" /\ req[r].found = {}
  BY <1>5 DEF CallsShaped, Purge
<1>1. /\ q \in Call /\ q.pc \in {"done", "delete"} /\ q.op = "purge" /\ q.left = cs /\ q.found = {}
      /\ (q.pc = "delete" \/ cs = {})
  <2>1. <<>> \in Seq(Contents)
    OBVIOUS
  <2> QED BY <1>0, <2>1 DEF Idle, Call, Stages
<1>2. /\ req' = [req EXCEPT ![r] = q]
      /\ ledger' = ledger \ cs
      /\ totals' # Nil => totals # Nil
      /\ drift' = drift \union (cs \intersect BeingWritten)
      /\ disturbed' = disturbed \union (cs \intersect BeingWritten)
      /\ Meet(cs)
      /\ files' = files
  BY DEF Purge, Strike, Uncounted
<1> HIDE DEF q
<1>4. /\ met' \in [Requests -> SUBSET Contents]
      /\ \A w \in Requests : met'[w] = IF Rebuilding(w) THEN met[w] \union cs ELSE met[w]
  BY <1>2, <1>0 DEF Meet, CallsShaped
<1>3. /\ CallsShaped'
      /\ req'[r] = q /\ \A w \in Requests : w # r => req'[w] = req[w]
  <2>1. Referenced(artifacts)' \subseteq Contents
    BY <1>5 DEF CallsShaped
  <2> QED BY <2>1, <1>1, <1>2, <1>4, OneCall
<1>7. \A w \in Requests : Writes(req'[w]) = Writes(req[w])
  BY <1>0, <1>1, <1>3 DEF Writes
<1>8. \A w \in Requests : \A d :
        /\ Promoting(req'[w], d) <=> Promoting(req[w], d)
        /\ Awaiting(req'[w], d) <=> Awaiting(req[w], d)
        /\ Deleting(req'[w], d) <=> (Deleting(req[w], d) \/ (w = r /\ d \in cs))
  BY <1>0, <1>1, <1>3 DEF Promoting, Awaiting, Deleting
<1>6. \A c \in cs : \A w \in Requests : c \in Writes(req[w]) => c \in disturbed' /\ c \in drift'
  BY <1>2 DEF BeingWritten
<1>12. \A c : \A w \in Requests : Awaiting(req[w], c) => c \in Writes(req[w])
  BY DEF Awaiting, Writes
<1>13. disturbed \subseteq disturbed' /\ drift \subseteq drift'
  BY <1>2
<1> HIDE DEF cs
<1>9. BlobsAccounted'
  BY <1>2, <1>5, <1>6, <1>7, <1>8, <1>12, <1>13 DEF BlobsAccounted
<1>10. RebuildsInformed'
  BY <1>0, <1>1, <1>2, <1>3, <1>4, <1>5, <1>7 DEF RebuildsInformed, Rebuilding
<1>11. LedgerAccounted'
  BY <1>0, <1>1, <1>2, <1>3, <1>5, <1>6, <1>7, <1>8, <1>12, <1>13 DEF LedgerAccounted
<1> QED BY <1>3, <1>9, <1>10, <1>11

LEMMA DeleteBlobOK ==
  ASSUME BInv, NEW r \in Requests, NEW c \in Contents, DeleteBlob(r, c)
  PROVE  BInv'
<1> USE DEF BInv
<1>0. /\ req[r] \in Call /\ req[r].pc = "delete" /\ c \in req[r].left /\ req[r].found = {}
      /\ files' = files \ {c}
      /\ UNCHANGED <<artifacts, ledger, totals, met, drift, disturbed>>
  BY DEF CallsShaped, DeleteBlob, tables, history
<1>1. PICK q \in Call :
        /\ req' = [req EXCEPT ![r] = q] /\ q.found = {}
        /\ q.op = "artifact" => ItemsOf(q) = {q.batch[1]}
        /\ q.pc \in {"delete", "done"}
        /\ IF q.pc = "delete" THEN q.left = req[r].left \ {c} ELSE req[r].left = {c}
  <2>1. CASE req[r].left = {c}
    BY <2>1, FinishedCall DEF DeleteBlob, Finish
  <2>2. CASE req[r].left # {c}
    <3> DEFINE q == [req[r] EXCEPT !.left = @ \ {c}]
    <3>1. /\ q \in Call /\ q.pc = "delete" /\ q.op = req[r].op /\ q.batch = req[r].batch
          /\ q.found = {} /\ q.left = req[r].left \ {c}
      BY <1>0 DEF Call, Stages
    <3>2. req' = [req EXCEPT ![r] = q]
      BY <2>2 DEF DeleteBlob
    <3> HIDE DEF q
    <3> QED BY <1>0, <3>1, <3>2, SameBatch
  <2> QED BY <2>1, <2>2
<1>5. /\ Referenced(artifacts)' = Referenced(artifacts) /\ met' \in [Requests -> SUBSET Contents]
      /\ Referenced(artifacts)' \subseteq Contents
  BY <1>0 DEF CallsShaped
<1>3. /\ CallsShaped'
      /\ req'[r] = q /\ \A w \in Requests : w # r => req'[w] = req[w]
  BY <1>1, <1>5, OneCall
<1>7. \A w \in Requests : Writes(req'[w]) = Writes(req[w])
  BY <1>0, <1>1, <1>3 DEF Writes
<1>8. \A w \in Requests : \A d :
        /\ Promoting(req'[w], d) <=> Promoting(req[w], d)
        /\ Awaiting(req'[w], d) <=> Awaiting(req[w], d)
        /\ Deleting(req'[w], d) <=> (Deleting(req[w], d) /\ ~(w = r /\ d = c))
  BY <1>0, <1>1, <1>3 DEF Promoting, Awaiting, Deleting
<1>6. Deleting(req[r], c)
  BY <1>0 DEF Deleting
<1>12. \A d : \A w \in Requests : /\ Promoting(req[w], d) => d \in Writes(req[w])
                                 /\ Awaiting(req[w], d) => d \in Writes(req[w])
  BY DEF Awaiting, Promoting, Writes
<1>9. BlobsAccounted'
  <2>1. disturbed' = disturbed /\ files' = files \ {c}
    BY <1>0
  <2> SUFFICES ASSUME NEW d \in Contents, d \notin disturbed
               PROVE  /\ d \in files' => \/ d \in Referenced(artifacts)
                                         \/ \E w \in Requests : Promoting(req'[w], d) \/ Deleting(req'[w], d)
                      /\ d \in Referenced(artifacts) =>
                           d \in files' \/ \E w \in Requests : Awaiting(req'[w], d)
                      /\ \A w \in Requests :
                           /\ Promoting(req'[w], d) => d \in files'
                           /\ Awaiting(req'[w], d) => d \in Referenced(artifacts)
                           /\ Deleting(req'[w], d) => /\ d \notin Referenced(artifacts)
                                                     /\ \A x \in Requests : d \notin Writes(req'[x])
    BY <1>5, <2>1 DEF BlobsAccounted
  <2>2. CASE d = c
    <3>1. d \notin Referenced(artifacts) /\ \A x \in Requests : d \notin Writes(req[x])
      BY <1>6, <2>2 DEF BlobsAccounted
    <3>2. \A w \in Requests : ~Promoting(req[w], d) /\ ~Awaiting(req[w], d)
      BY <3>1 DEF Promoting, Awaiting, Writes
    <3> QED BY <1>7, <1>8, <2>1, <2>2, <3>1, <3>2
  <2>3. CASE d # c
    BY <1>7, <1>8, <2>1, <2>3 DEF BlobsAccounted
  <2> QED BY <2>2, <2>3
<1>10. RebuildsInformed'
  BY <1>0, <1>1, <1>3, <1>5, <1>7 DEF RebuildsInformed, Rebuilding
<1>11. LedgerAccounted'
  BY <1>0, <1>1, <1>3, <1>5, <1>7, <1>8 DEF LedgerAccounted
<1> QED BY <1>3, <1>9, <1>10, <1>11

-----------------------------------------------------------------------------
(* Failures. *)

LEMMA CutOK ==
  ASSUME BInv, NEW S \in SUBSET Requests, Cut(S)
  PROVE  BInv'
<1> USE DEF BInv
<1>0. /\ req' = [r \in Requests |-> IF r \in S THEN Done ELSE req[r]]
      /\ met' = [r \in Requests |-> IF r \in S THEN {} ELSE met[r]]
      /\ UNCHANGED <<artifacts, ledger, totals, files>>
  BY DEF Cut, tables
<1>1. /\ drift \subseteq drift' /\ disturbed \subseteq disturbed'
      /\ \A r \in S : \A c :
           /\ Promoting(req[r], c) => c \in drift' /\ c \in disturbed'
           /\ Awaiting(req[r], c) \/ Deleting(req[r], c) => c \in disturbed'
  <2>1. \A r \in S : \A c : /\ Promoting(req[r], c) => req[r].pc = "promoted" /\ c \in Writes(req[r])
                            /\ Awaiting(req[r], c) => req[r].pc = "promote" /\ c \in Writes(req[r])
    BY DEF Promoting, Awaiting, Writes
  <2> QED BY <2>1 DEF Cut, Deleting
<1>5. Referenced(artifacts)' = Referenced(artifacts) /\ met' \in [Requests -> SUBSET Contents]
  BY <1>0 DEF CallsShaped
<1>3. CallsShaped'
  BY <1>0, <1>5, FinishedCall DEF CallsShaped
<1>7. \A w \in Requests : Writes(req'[w]) = IF w \in S THEN {} ELSE Writes(req[w])
  BY <1>0, FinishedCall
<1>8. \A w \in Requests : \A d :
        /\ Promoting(req'[w], d) <=> (Promoting(req[w], d) /\ w \notin S)
        /\ Awaiting(req'[w], d) <=> (Awaiting(req[w], d) /\ w \notin S)
        /\ Deleting(req'[w], d) <=> (Deleting(req[w], d) /\ w \notin S)
  BY <1>0, FinishedCall DEF Promoting, Awaiting, Deleting
<1>9. BlobsAccounted'
  BY <1>0, <1>1, <1>5, <1>7, <1>8 DEF BlobsAccounted
<1>10. RebuildsInformed'
  BY <1>0, <1>5, <1>7, FinishedCall DEF RebuildsInformed, Rebuilding
<1>11. LedgerAccounted'
  BY <1>0, <1>1, <1>5, <1>7, <1>8, FinishedCall DEF LedgerAccounted
<1> QED BY <1>3, <1>9, <1>10, <1>11
-----------------------------------------------------------------------------
LEMMA NextOK == ASSUME BInv, [Next]_vars PROVE BInv'
<1>1. CASE UNCHANGED vars
  BY <1>1, StillOK DEF vars, tables, history
<1>2. ASSUME NEW r \in Requests, NEW c \in Contents,
             \/ StartArtifact(r, c) \/ StatContent(r, c) \/ PromoteCard(r, c) \/ DeleteBlob(r, c)
      PROVE  BInv'
  BY <1>2, StartArtifactOK, StatContentOK, PromoteCardOK, DeleteBlobOK
<1>3. ASSUME NEW r \in Requests, NEW batch \in Batches, StartCards(r, batch)
      PROVE  BInv'
  BY <1>3, StartCardsOK
<1>4. ASSUME NEW r \in Requests,
             \/ EnsureLedger(r) \/ ListContents(r) \/ BeginRebuild(r) \/ CommitRebuild(r)
             \/ PlanArtifact(r) \/ PromoteArtifact(r) \/ CommitArtifact(r) \/ CommitCards(r)
      PROVE  BInv'
  BY <1>4, EnsureLedgerOK, ListContentsOK, BeginRebuildOK, CommitRebuildOK,
     PlanArtifactOK, PromoteArtifactOK, CommitArtifactOK, CommitCardsOK
<1>5. ASSUME NEW r \in Requests, NEW gone \in SUBSET artifacts, Purge(r, gone)
      PROVE  BInv'
  BY <1>5, PurgeOK
<1>6. ASSUME NEW r \in Requests, FailCall(r)
      PROVE  BInv'
  BY <1>6, CutOK DEF FailCall
<1>7. CASE Crash
  <2>1. InFlight \in SUBSET Requests
    BY DEF InFlight
  <2> QED BY <1>7, <2>1, CutOK DEF Crash
<1> QED BY <1>1, <1>2, <1>3, <1>4, <1>5, <1>6, <1>7 DEF Next

(* Every behaviour of the store satisfies the inductive invariant, whatever *)
(* calls, contents, limits, batches and failures there are.                 *)
THEOREM BlobInvariant == Spec => []BInv
  BY InitOK, NextOK, PTL DEF Spec

(* Blobs and artifacts agree but for the contents that an overlap of a purge *)
(* with a write, or a call cut short next to the store, left uncertain.      *)
THEOREM BlobsAreThoseOfArtifacts == Spec => []BlobsFollowArtifacts
<1>1. BInv => BlobsFollowArtifacts
  <2> SUFFICES ASSUME BInv,
                      NEW c \in Contents \ (disturbed \union BeingWritten \union BeingDeleted)
               PROVE  c \in files <=> c \in Referenced(artifacts)
    BY DEF BlobsFollowArtifacts
  <2>1. \A r \in Requests : ~Promoting(req[r], c) /\ ~Awaiting(req[r], c) /\ ~Deleting(req[r], c)
    BY DEF BeingWritten, BeingDeleted, Writes, Promoting, Awaiting, Deleting
  <2> QED BY <2>1 DEF BInv, BlobsAccounted
<1> QED BY <1>1, BlobInvariant, PTL

(* The ledger counts the contents of artifacts but for those an overlap of a *)
(* purge or a rebuild left wrong, until the next rebuild.                    *)
THEOREM LedgerIsOfArtifacts == Spec => []LedgerFollowsArtifacts
<1>1. BInv => LedgerFollowsArtifacts
  <2> SUFFICES ASSUME BInv, totals # Nil, NEW c \in Contents \ drift
               PROVE  /\ c \in ledger => c \in Referenced(artifacts)
                      /\ c \in Referenced(artifacts) \intersect files /\ c \notin BeingWritten
                           => c \in ledger
    BY DEF LedgerFollowsArtifacts
  <2>1. c \notin BeingWritten => \A r \in Requests : ~Promoting(req[r], c)
    BY DEF BeingWritten, Writes, Promoting
  <2> QED BY <2>1 DEF BInv, LedgerAccounted
<1> QED BY <1>1, BlobInvariant, PTL

(* The bytes of contents, each by itself. *)
EachByte(cs) == {p \in cs \X (Nat \ {0}) : p[2] <= Size[p[1]]}

LEMMA BytesOfOne ==
  ASSUME NEW c \in Contents
  PROVE  IsFiniteSet(EachByte({c})) /\ Cardinality(EachByte({c})) = Size[c]
<1>1. Size[c] \in Nat
  BY BlobConstants
<1>2. EachByte({c}) = {c} \X (1..Size[c])
  BY <1>1 DEF EachByte
<1>3. IsFiniteSet(1..Size[c]) /\ Cardinality(1..Size[c]) = Size[c]
  BY <1>1, FS_Interval
<1>4. IsFiniteSet({c}) /\ Cardinality({c}) = 1
  BY FS_Singleton
<1>5. IsFiniteSet({c} \X (1..Size[c])) /\ Cardinality({c} \X (1..Size[c])) = 1 * Size[c]
  BY <1>3, <1>4, FS_Product
<1>6. 1 * Size[c] = Size[c]
  BY <1>1
<1> HIDE DEF EachByte
<1> QED BY Zenon, <1>2, <1>5, <1>6

LEMMA BytesFinite ==
  ASSUME NEW cs \in SUBSET Contents, IsFiniteSet(cs)
  PROVE  IsFiniteSet(EachByte(cs)) /\ Cardinality(EachByte(cs)) \in Nat
<1> DEFINE all == {EachByte({c}) : c \in cs}
           f == [c \in cs |-> EachByte({c})]
<1>1. f \in Surjection(cs, all)
  BY DEF Surjection
<1>2. IsFiniteSet(all)
  BY <1>1, FS_Surjection
<1>3. \A T \in all : IsFiniteSet(T)
  BY BytesOfOne
<1>4. IsFiniteSet(UNION all)
  <2> HIDE DEF all
  <2> QED BY <1>2, <1>3, FS_UNION
<1>5. EachByte(cs) = UNION all
  BY DEF EachByte
<1> QED BY <1>4, <1>5, FS_CardinalityType

LEMMA BytesApart ==
  ASSUME NEW S \in SUBSET Contents, NEW T \in SUBSET Contents, IsFiniteSet(S), IsFiniteSet(T), S \intersect T = {}
  PROVE  Cardinality(EachByte(S \union T)) = Cardinality(EachByte(S)) + Cardinality(EachByte(T))
<1>1. EachByte(S \union T) = EachByte(S) \union EachByte(T) /\ EachByte(S) \intersect EachByte(T) = {}
  BY DEF EachByte
<1>2. /\ IsFiniteSet(EachByte(S)) /\ Cardinality(EachByte(S)) \in Nat
      /\ IsFiniteSet(EachByte(T)) /\ Cardinality(EachByte(T)) \in Nat
  BY BytesFinite
<1>3. Cardinality(EachByte(S) \union EachByte(T)) =
        Cardinality(EachByte(S)) + Cardinality(EachByte(T)) - Cardinality(EachByte(S) \intersect EachByte(T))
  BY <1>2, FS_Union
<1>4. Cardinality(EachByte(S) \intersect EachByte(T)) = 0
  BY <1>1, FS_EmptySet
<1>5. Cardinality(EachByte(S \union T)) =
        Cardinality(EachByte(S)) + Cardinality(EachByte(T)) - 0
  BY Zenon, <1>1, <1>3, <1>4
<1> QED BY <1>2, <1>5

Pick(s) == CHOOSE x \in s : TRUE

AddsUp(h, T) == h = [s \in SUBSET T |-> IF s = {} THEN 0 ELSE Size[Pick(s)] + h[s \ {Pick(s)}]]

LEMMA OneMore ==
  ASSUME NEW s \in SUBSET Contents, IsFiniteSet(s), NEW x \in s
  PROVE  Cardinality(EachByte(s)) = Size[x] + Cardinality(EachByte(s \ {x}))
<1>1. s = {x} \union (s \ {x}) /\ {x} \intersect (s \ {x}) = {}
  OBVIOUS
<1>2. IsFiniteSet({x}) /\ IsFiniteSet(s \ {x})
  BY FS_Singleton, FS_RemoveElement
<1>3. Cardinality(EachByte({x} \union (s \ {x}))) = Cardinality(EachByte({x})) + Cardinality(EachByte(s \ {x}))
  BY <1>1, <1>2, BytesApart
<1> QED BY <1>1, <1>3, BytesOfOne

LEMMA NoBytes == Cardinality(EachByte({})) = 0
  BY FS_EmptySet DEF EachByte

LEMMA SumExists ==
  ASSUME NEW T \in SUBSET Contents, IsFiniteSet(T)
  PROVE  AddsUp([s \in SUBSET T |-> Cardinality(EachByte(s))], T)
<1> DEFINE h == [s \in SUBSET T |-> Cardinality(EachByte(s))]
<1>1. \A s \in SUBSET T : Cardinality(EachByte(s)) =
                            IF s = {} THEN 0 ELSE Size[Pick(s)] + h[s \ {Pick(s)}]
  <2> TAKE s \in SUBSET T
  <2>1. IsFiniteSet(s)
    BY FS_Subset
  <2>2. CASE s = {}
    BY <2>2, NoBytes
  <2>3. CASE s # {}
    <3>1. Pick(s) \in s
      BY <2>3 DEF Pick
    <3>2. h[s \ {Pick(s)}] = Cardinality(EachByte(s \ {Pick(s)}))
      OBVIOUS
    <3> HIDE DEF h
    <3> QED BY <2>1, <2>3, <3>1, <3>2, OneMore
  <2> QED BY <2>2, <2>3
<1> QED BY <1>1 DEF AddsUp

LEMMA SumUnique ==
  ASSUME NEW T \in SUBSET Contents, IsFiniteSet(T), NEW h, AddsUp(h, T)
  PROVE  h[T] = Cardinality(EachByte(T))
<1> DEFINE bad == {s \in SUBSET T : h[s] # Cardinality(EachByte(s))}
<1>1. SUFFICES ASSUME bad # {} PROVE FALSE
  OBVIOUS
<1>2. IsWellFoundedOn(StrictSubsetOrdering(T), SUBSET T)
  BY FS_StrictSubsetOrderingWellFounded, FS_FiniteSubsetsOfFinite
<1>3. PICK m \in bad : \A y \in bad : ~(<<y, m>> \in StrictSubsetOrdering(T))
  <2>1. bad \subseteq SUBSET T
    OBVIOUS
  <2> HIDE DEF bad
  <2> QED BY <1>1, <1>2, <2>1, WFMin
<1>4. h[m] = IF m = {} THEN 0 ELSE Size[Pick(m)] + h[m \ {Pick(m)}]
  BY DEF AddsUp
<1>5. CASE m = {}
  BY <1>4, <1>5, NoBytes
<1>6. CASE m # {}
  <2>1. Pick(m) \in m
    BY <1>6 DEF Pick
  <2>2. m \ {Pick(m)} \in SUBSET T /\ m \ {Pick(m)} \notin bad
    <3>1. <<m \ {Pick(m)}, m>> \in StrictSubsetOrdering(T)
      BY <2>1 DEF StrictSubsetOrdering
    <3> QED BY <3>1, <1>3
  <2>3. h[m \ {Pick(m)}] = Cardinality(EachByte(m \ {Pick(m)}))
    BY <2>2
  <2>4. IsFiniteSet(m) /\ m \in SUBSET Contents
    BY FS_Subset
  <2> QED BY <1>4, <1>6, <2>1, <2>3, <2>4, OneMore
<1> QED BY <1>5, <1>6

LEMMA SumCounts ==
  ASSUME NEW T \in SUBSET Contents, IsFiniteSet(T)
  PROVE  Measure(T) = [bytes |-> Cardinality(EachByte(T)), objects |-> Cardinality(T)]
<1> DEFINE h == CHOOSE g : AddsUp(g, T)
<1>1. AddsUp(h, T)
  BY SumExists
<1>2. h[T] = Cardinality(EachByte(T))
  <2> HIDE DEF h
  <2> QED BY <1>1, SumUnique
<1>3. MapThenSumSet(LAMBDA c : Size[c], T) = h[T]
  BY DEF MapThenSumSet, MapThenFoldSet, AddsUp, Pick
<1> QED BY <1>2, <1>3 DEF Measure

LEMMA MeasureTyped ==
  ASSUME NEW T \in SUBSET Contents, IsFiniteSet(T)
  PROVE  Measure(T) \in [bytes : Nat, objects : Nat]
<1>1. Cardinality(T) \in Nat /\ Cardinality(EachByte(T)) \in Nat
  BY BytesFinite, FS_CardinalityType
<1> QED BY <1>1, SumCounts

(* What is added is counted once, what is taken away is counted off. *)
LEMMA MeasureAdds ==
  ASSUME NEW S \in SUBSET Contents, NEW T \in SUBSET Contents, IsFiniteSet(S), IsFiniteSet(T)
  PROVE  /\ Measure(S \union T).bytes = Measure(S).bytes + Measure(T \ S).bytes
         /\ Measure(S \union T).objects = Measure(S).objects + Measure(T \ S).objects
<1>1. S \union T = S \union (T \ S) /\ S \intersect (T \ S) = {}
  OBVIOUS
<1>2. IsFiniteSet(T \ S) /\ IsFiniteSet(S \union (T \ S))
  BY FS_Difference, FS_Union
<1>3. Cardinality(EachByte(S \union (T \ S))) = Cardinality(EachByte(S)) + Cardinality(EachByte(T \ S))
  BY <1>1, <1>2, BytesApart
<1>4. Cardinality(S \union (T \ S)) = Cardinality(S) + Cardinality(T \ S)
  <2>1. Cardinality(S) \in Nat /\ Cardinality(T \ S) \in Nat
    BY <1>2, FS_CardinalityType
  <2>2. Cardinality(S \union (T \ S)) =
          Cardinality(S) + Cardinality(T \ S) - Cardinality(S \intersect (T \ S))
    BY <1>2, FS_Union
  <2>3. Cardinality(S \intersect (T \ S)) = 0
    BY <1>1, FS_EmptySet
  <2>4. Cardinality(S \union (T \ S)) = Cardinality(S) + Cardinality(T \ S) - 0
    BY Zenon, <2>2, <2>3
  <2> QED BY <2>1, <2>4
<1>5. /\ Measure(S) = [bytes |-> Cardinality(EachByte(S)), objects |-> Cardinality(S)]
      /\ Measure(T \ S) = [bytes |-> Cardinality(EachByte(T \ S)), objects |-> Cardinality(T \ S)]
      /\ Measure(S \union (T \ S)) = [bytes |-> Cardinality(EachByte(S \union (T \ S))),
                                      objects |-> Cardinality(S \union (T \ S))]
  BY <1>2, SumCounts
<1>6. /\ Measure(S).bytes = Cardinality(EachByte(S)) /\ Measure(S).objects = Cardinality(S)
      /\ Measure(T \ S).bytes = Cardinality(EachByte(T \ S)) /\ Measure(T \ S).objects = Cardinality(T \ S)
      /\ Measure(S \union (T \ S)).bytes = Cardinality(EachByte(S \union (T \ S)))
      /\ Measure(S \union (T \ S)).objects = Cardinality(S \union (T \ S))
  BY <1>5
<1> QED BY Zenon, <1>1, <1>3, <1>4, <1>6

LEMMA MeasureTakesOff ==
  ASSUME NEW S \in SUBSET Contents, NEW T \in SUBSET Contents, IsFiniteSet(S)
  PROVE  /\ Measure(S \ T).bytes = Measure(S).bytes - Measure(T \intersect S).bytes
         /\ Measure(S \ T).objects = Measure(S).objects - Measure(T \intersect S).objects
         /\ Measure(S \ T).bytes <= Measure(S).bytes
<1>1. IsFiniteSet(S \ T) /\ IsFiniteSet(T \intersect S)
  BY FS_Difference, FS_Intersection
<1>2. S = (T \intersect S) \union (S \ T) /\ (S \ T) \ (T \intersect S) = S \ T
  OBVIOUS
<1>3. /\ Measure((T \intersect S) \union (S \ T)).bytes
           = Measure(T \intersect S).bytes + Measure((S \ T) \ (T \intersect S)).bytes
      /\ Measure((T \intersect S) \union (S \ T)).objects
           = Measure(T \intersect S).objects + Measure((S \ T) \ (T \intersect S)).objects
  BY <1>1, MeasureAdds
<1>4. /\ Measure(S).bytes = Measure(T \intersect S).bytes + Measure(S \ T).bytes
      /\ Measure(S).objects = Measure(T \intersect S).objects + Measure(S \ T).objects
  BY Zenon, <1>2, <1>3
<1>5. /\ Measure(S \ T) \in [bytes : Nat, objects : Nat]
      /\ Measure(T \intersect S) \in [bytes : Nat, objects : Nat]
  BY <1>1, MeasureTyped
<1> QED BY <1>4, <1>5

LEMMA MeasureGrows ==
  ASSUME NEW S \in SUBSET Contents, NEW T \in SUBSET S, IsFiniteSet(S)
  PROVE  Measure(T).bytes <= Measure(S).bytes
<1>1. S \ (S \ T) = T /\ S \ T \in SUBSET Contents
  OBVIOUS
<1>2. Measure(S \ (S \ T)).bytes <= Measure(S).bytes
  BY <1>1, MeasureTakesOff
<1> QED BY <1>1, <1>2

LEMMA MeasureOfOne ==
  ASSUME NEW c \in Contents
  PROVE  Measure({c}).bytes = Size[c]
<1>1. IsFiniteSet({c})
  BY FS_Singleton
<1> QED BY <1>1, SumCounts, BytesOfOne

(* Finite, nonempty sets of numbers have a largest member. *)
LEMMA MaxIsLargest ==
  ASSUME NEW S \in SUBSET Nat, IsFiniteSet(S), S # {}
  PROVE  Max(S) \in S /\ \A x \in S : x <= Max(S)
<1> DEFINE bad == {T \in SUBSET S : T # {} /\ \A x \in T : \E y \in T : y > x}
<1>1. bad = {}
  <2> SUFFICES ASSUME bad # {} PROVE FALSE
    OBVIOUS
  <2>1. IsWellFoundedOn(StrictSubsetOrdering(S), SUBSET S)
    BY FS_StrictSubsetOrderingWellFounded, FS_FiniteSubsetsOfFinite
  <2>2. PICK m \in bad : \A y \in bad : ~(<<y, m>> \in StrictSubsetOrdering(S))
    <3>1. bad \subseteq SUBSET S
      OBVIOUS
    <3> HIDE DEF bad
    <3> QED BY <2>1, <3>1, WFMin
  <2>3. PICK x \in m : TRUE
    OBVIOUS
  <2>4. m \ {x} \notin bad
    <3>1. <<m \ {x}, m>> \in StrictSubsetOrdering(S)
      BY <2>3 DEF StrictSubsetOrdering
    <3> QED BY <3>1, <2>2
  <2>5. m \ {x} # {}
    BY <2>3
  <2>6. PICK z \in m \ {x} : \A y \in m \ {x} : ~(y > z)
    BY <2>4, <2>5
  <2>7. PICK v \in m : v > z
    BY <2>6
  <2>8. v = x
    BY <2>6, <2>7
  <2>9. PICK w \in m : w > x
    BY <2>3
  <2>10. w \in m \ {x} /\ w > z
    BY <2>3, <2>6, <2>7, <2>8, <2>9
  <2> QED BY <2>6, <2>10
<1>2. PICK x \in S : \A y \in S : ~(y > x)
  <2>1. S \notin bad
    BY <1>1
  <2> QED BY <2>1
<1>3. \A y \in S : x >= y
  BY <1>2
<1>4. Max(S) \in S /\ \A y \in S : Max(S) >= y
  BY <1>3 DEF Max
<1> QED BY <1>4

(* A batch has a card and at most MaxBatch, a content has at most Biggest bytes. *)
LEMMA Limits ==
  /\ MaxBatch \in Nat /\ MaxBatch >= 1 /\ \A b \in Batches : Len(b) <= MaxBatch
  /\ Biggest \in Nat /\ \A c \in Contents : Size[c] <= Biggest
<1> DEFINE lens == {Len(b) : b \in Batches}
           sizes == {Size[c] : c \in Contents}
<1>1. \A b \in Batches : b \in Seq(Contents) /\ Len(b) \in Nat /\ Len(b) >= 1 /\ b[1] \in Contents
  <2> TAKE b \in Batches
  <2>1. b \in Seq(Contents) /\ b # <<>>
    BY BlobConstants
  <2> QED BY <2>1
<1>2. lens \in SUBSET Nat /\ lens # {} /\ IsFiniteSet(lens)
  BY <1>1, BlobBounds
<1>3. Contents # {}
  BY <1>1, BlobBounds
<1>4. sizes \in SUBSET Nat /\ sizes # {} /\ IsFiniteSet(sizes)
  BY <1>3, BlobConstants, BlobBounds
<1>5. Max(lens) \in lens /\ \A x \in lens : x <= Max(lens)
  <2> HIDE DEF lens
  <2> QED BY <1>2, MaxIsLargest
<1>6. Max(sizes) \in sizes /\ \A x \in sizes : x <= Max(sizes)
  <2> HIDE DEF sizes
  <2> QED BY <1>4, MaxIsLargest
<1>7. MaxBatch \in Nat /\ MaxBatch >= 1 /\ \A b \in Batches : Len(b) <= MaxBatch
  <2>1. MaxBatch = Max(lens)
    BY DEF MaxBatch
  <2>2. \A b \in Batches : Len(b) \in lens
    OBVIOUS
  <2>3. \A x \in lens : x \in Nat /\ x >= 1
    BY <1>1
  <2> HIDE DEF lens
  <2> QED BY <1>5, <2>1, <2>2, <2>3
<1>8. Biggest \in Nat /\ \A c \in Contents : Size[c] <= Biggest
  <2>1. Biggest = Max(sizes)
    BY DEF Biggest
  <2>2. \A c \in Contents : Size[c] \in sizes
    OBVIOUS
  <2> HIDE DEF sizes
  <2> QED BY <1>4, <1>6, <2>1, <2>2
<1> QED BY <1>7, <1>8

(* A batch of cards has finitely many contents, no more than cards. *)
LEMMA BatchContents ==
  ASSUME NEW q, q.batch \in Seq(Contents)
  PROVE  /\ IsFiniteSet(ItemsOf(q)) /\ Cardinality(ItemsOf(q)) <= Len(q.batch)
         /\ ItemsOf(q) \subseteq Contents
<1>1. DOMAIN q.batch = 1..Len(q.batch) /\ Len(q.batch) \in Nat
  OBVIOUS
<1> DEFINE f == [i \in 1..Len(q.batch) |-> q.batch[i]]
<1>2. f \in Surjection(1..Len(q.batch), ItemsOf(q))
  BY <1>1 DEF Surjection, ItemsOf
<1>3. IsFiniteSet(1..Len(q.batch)) /\ Cardinality(1..Len(q.batch)) = Len(q.batch)
  BY <1>1, FS_Interval
<1>4. IsFiniteSet(ItemsOf(q)) /\ Cardinality(ItemsOf(q)) <= Cardinality(1..Len(q.batch))
  <2> HIDE DEF f
  <2> QED BY <1>2, <1>3, FS_Surjection
<1> QED BY <1>1, <1>3, <1>4 DEF ItemsOf

(* Contents of which one fits weigh no more than that one and the largest for *)
(* each of the others.                                                        *)
LEMMA BatchWeighs ==
  ASSUME NEW S \in SUBSET Contents, IsFiniteSet(S), NEW c \in S,
         NEW n \in Nat, Cardinality(S) <= n
  PROVE  Measure(S).bytes <= Size[c] + (n - 1) * Biggest
<1> DEFINE rest == S \ {c}
<1>1. IsFiniteSet(rest) /\ IsFiniteSet({c}) /\ Cardinality(rest) = Cardinality(S) - 1 /\ Cardinality(rest) \in Nat
      /\ Cardinality(S) \in Nat
  BY FS_RemoveElement, FS_Singleton, FS_CardinalityType
<1>2. Measure(S).bytes = Size[c] + Measure(rest).bytes
  <2>1. S = {c} \union rest /\ rest \ {c} = rest
    OBVIOUS
  <2>2. Measure({c} \union rest).bytes = Measure({c}).bytes + Measure(rest \ {c}).bytes
    BY <1>1, MeasureAdds
  <2> HIDE DEF rest
  <2> QED BY Zenon, <2>1, <2>2, MeasureOfOne
<1>3. Biggest \in Nat /\ \A d \in Contents : Size[d] <= Biggest /\ Size[d] \in Nat
  BY Limits, BlobConstants
<1>4. EachByte(rest) \subseteq rest \X (1..Biggest)
  BY <1>3 DEF EachByte
<1>5. IsFiniteSet(1..Biggest) /\ Cardinality(1..Biggest) = Biggest
  BY <1>3, FS_Interval
<1>6. /\ IsFiniteSet(rest \X (1..Biggest))
      /\ Cardinality(rest \X (1..Biggest)) = Cardinality(rest) * Biggest
  <2>1. Cardinality(rest \X (1..Biggest)) = Cardinality(rest) * Cardinality(1..Biggest)
    BY <1>1, <1>5, FS_Product
  <2> QED BY <1>1, <1>5, <2>1, FS_Product
<1>7. Cardinality(EachByte(rest)) <= Cardinality(rest) * Biggest
  BY <1>4, <1>6, FS_Subset
<1>8. Measure(rest).bytes = Cardinality(EachByte(rest))
  BY <1>1, SumCounts
<1>9. Cardinality(rest) * Biggest <= (n - 1) * Biggest
  <2>1. \A a, b, k \in Nat : a <= b => a * k <= b * k
    BY SMTT(20)
  <2>2. n - 1 \in Nat /\ Cardinality(rest) <= n - 1
    BY <1>1
  <2> QED BY <1>1, <1>3, <2>1, <2>2
<1>10. Measure(rest).bytes \in Nat /\ Size[c] \in Nat
  <2>1. Measure(rest) \in [bytes : Nat, objects : Nat]
    BY <1>1, MeasureTyped
  <2> QED BY <2>1, <1>3
<1>11. Cardinality(rest) * Biggest \in Nat /\ (n - 1) * Biggest \in Int
  BY <1>1, <1>3
<1> HIDE DEF rest
<1> QED BY <1>2, <1>7, <1>8, <1>9, <1>10, <1>11

-----------------------------------------------------------------------------
(* The ledger adds up. *)

(* Tables, store and what calls hold of them are finite. *)
Sized ==
  /\ IsFiniteSet(artifacts)
  /\ ledger \in SUBSET Contents /\ IsFiniteSet(ledger)
  /\ files \in SUBSET Contents /\ IsFiniteSet(files)
  /\ \A r \in Requests : IsFiniteSet(req[r].left) /\ IsFiniteSet(req[r].found)

CInv == Sized /\ TotalsMatchLedger

LEMMA ReferencedFinite ==
  ASSUME NEW S, IsFiniteSet(S)
  PROVE  IsFiniteSet(Referenced(S))
<1> DEFINE f == [a \in S |-> a.content]
<1>1. f \in Surjection(S, Referenced(S))
  BY DEF Surjection, Referenced
<1> QED BY <1>1, FS_Surjection

(* The artifacts of the cards of a batch. *)
CardsOf(r, q) == {Artifact(r, i, q.batch[i], TRUE) : i \in DOMAIN q.batch}

LEMMA BatchCards ==
  ASSUME NEW r, NEW q, q.batch \in Seq(Contents)
  PROVE  /\ IsFiniteSet(CardsOf(r, q))
         /\ Cardinality(CardsOf(r, q)) <= Len(q.batch) /\ Cardinality(CardsOf(r, q)) \in Nat
<1>1. DOMAIN q.batch = 1..Len(q.batch) /\ Len(q.batch) \in Nat
  OBVIOUS
<1> DEFINE f == [i \in 1..Len(q.batch) |-> Artifact(r, i, q.batch[i], TRUE)]
<1>2. f \in Surjection(1..Len(q.batch), CardsOf(r, q))
  BY <1>1 DEF Surjection, CardsOf
<1>3. IsFiniteSet(1..Len(q.batch)) /\ Cardinality(1..Len(q.batch)) = Len(q.batch)
  BY <1>1, FS_Interval
<1>4. IsFiniteSet(CardsOf(r, q)) /\ Cardinality(CardsOf(r, q)) <= Cardinality(1..Len(q.batch))
  <2> HIDE DEF f
  <2> QED BY <1>2, <1>3, FS_Surjection
<1> QED BY <1>3, <1>4, FS_CardinalityType

LEMMA EnterCounts ==
  ASSUME CInv, NEW cs \in SUBSET Contents, IsFiniteSet(cs), Enter(cs)
  PROVE  /\ ledger' \in SUBSET Contents /\ IsFiniteSet(ledger')
         /\ totals' # Nil => totals # Nil /\ totals' = Measure(ledger')
         /\ totals # Nil => totals' # Nil
<1>1. ledger' = ledger \union cs /\ totals' = Counted(totals, cs \ ledger)
  BY DEF Enter
<1>2. IsFiniteSet(ledger \union cs) /\ ledger \union cs \in SUBSET Contents
  BY FS_Union DEF CInv, Sized
<1>3. CASE totals = Nil
  BY <1>1, <1>2, <1>3 DEF Counted
<1>4. CASE totals # Nil
  <2>1. totals' = [bytes |-> Measure(ledger).bytes + Measure(cs \ ledger).bytes,
                   objects |-> Measure(ledger).objects + Measure(cs \ ledger).objects]
    BY <1>1, <1>4 DEF Counted, CInv, TotalsMatchLedger
  <2>2. /\ Measure(ledger \union cs).bytes = Measure(ledger).bytes + Measure(cs \ ledger).bytes
        /\ Measure(ledger \union cs).objects = Measure(ledger).objects + Measure(cs \ ledger).objects
    BY MeasureAdds DEF CInv, Sized
  <2>3. Measure(ledger \union cs) \in [bytes : Nat, objects : Nat]
    BY <1>2, MeasureTyped
  <2>4. totals' = Measure(ledger \union cs)
    BY <2>1, <2>2, <2>3
  <2> QED BY <1>1, <1>2, <1>4, <2>3, <2>4, BlobConstants
<1> QED BY <1>3, <1>4

LEMMA StrikeCounts ==
  ASSUME CInv, NEW cs \in SUBSET Contents, Strike(cs)
  PROVE  /\ ledger' \in SUBSET Contents /\ IsFiniteSet(ledger')
         /\ totals' # Nil => totals # Nil /\ totals' = Measure(ledger')
         /\ totals # Nil => totals' # Nil
<1>1. ledger' = ledger \ cs /\ totals' = Uncounted(totals, cs \intersect ledger)
  BY DEF Strike
<1>2. IsFiniteSet(ledger \ cs) /\ ledger \ cs \in SUBSET Contents
  BY FS_Difference DEF CInv, Sized
<1>3. CASE totals = Nil
  BY <1>1, <1>2, <1>3 DEF Uncounted
<1>4. CASE totals # Nil
  <2>1. totals' = [bytes |-> Measure(ledger).bytes - Measure(cs \intersect ledger).bytes,
                   objects |-> Measure(ledger).objects - Measure(cs \intersect ledger).objects]
    BY <1>1, <1>4 DEF Uncounted, CInv, TotalsMatchLedger
  <2>2. /\ Measure(ledger \ cs).bytes = Measure(ledger).bytes - Measure(cs \intersect ledger).bytes
        /\ Measure(ledger \ cs).objects = Measure(ledger).objects - Measure(cs \intersect ledger).objects
    BY MeasureTakesOff DEF CInv, Sized
  <2>3. Measure(ledger \ cs) \in [bytes : Nat, objects : Nat]
    BY <1>2, MeasureTyped
  <2>4. totals' = Measure(ledger \ cs)
    BY <2>1, <2>2, <2>3
  <2> QED BY <1>1, <1>2, <1>4, <2>3, <2>4, BlobConstants
<1> QED BY <1>3, <1>4

LEMMA InitCounts == Init => CInv
<1> SUFFICES ASSUME Init PROVE CInv
  OBVIOUS
<1>1. PICK old \in OldContents :
        /\ artifacts = {Artifact(c, 1, c, FALSE) : c \in old}
        /\ files = old
        /\ (ledger = old /\ totals = Measure(old)) \/ (ledger = {} /\ totals = Nil)
  BY Zenon DEF Init
<1>2. old \in SUBSET Contents /\ IsFiniteSet(old) /\ IsFiniteSet({})
  BY BlobConstants, BlobBounds, FS_EmptySet
<1>3. IsFiniteSet(artifacts)
  <2> DEFINE f == [c \in old |-> Artifact(c, 1, c, FALSE)]
  <2>1. f \in Surjection(old, artifacts)
    BY <1>1 DEF Surjection
  <2> HIDE DEF f
  <2> QED BY <1>2, <2>1, FS_Surjection
<1>4. \A r \in Requests : req[r].left = {} /\ req[r].found = {}
  BY DEF Init, Idle
<1>5. Sized
  BY <1>1, <1>2, <1>3, <1>4 DEF Sized
<1>6. TotalsMatchLedger
  BY <1>1 DEF TotalsMatchLedger
<1> QED BY <1>5, <1>6 DEF CInv

(* A step of one call. *)
LEMMA StepCounts ==
  ASSUME BInv, CInv, NEW r \in Requests, NEW q,
         req' = [req EXCEPT ![r] = q], IsFiniteSet(q.left), IsFiniteSet(q.found),
         IsFiniteSet(artifacts'),
         ledger' \in SUBSET Contents, IsFiniteSet(ledger'),
         files' \in SUBSET Contents, IsFiniteSet(files'),
         totals' # Nil => totals' = Measure(ledger')
  PROVE  CInv'
<1>1. \A w \in Requests : req'[w] = IF w = r THEN q ELSE req[w]
  BY DEF BInv, CallsShaped
<1>2. \A w \in Requests : IsFiniteSet(req'[w].left) /\ IsFiniteSet(req'[w].found)
  BY <1>1 DEF CInv, Sized
<1>3. TotalsMatchLedger'
  BY DEF TotalsMatchLedger
<1> QED BY <1>2, <1>3 DEF CInv, Sized

LEMMA NextCounts == ASSUME BInv, CInv, [Next]_vars PROVE CInv'
<1>0. /\ IsFiniteSet(artifacts)
      /\ ledger \in SUBSET Contents /\ IsFiniteSet(ledger)
      /\ files \in SUBSET Contents /\ IsFiniteSet(files)
      /\ \A r \in Requests : IsFiniteSet(req[r].left) /\ IsFiniteSet(req[r].found)
      /\ totals # Nil => totals = Measure(ledger)
      /\ req \in [Requests -> Call]
  BY DEF CInv, Sized, TotalsMatchLedger, BInv, CallsShaped
<1>a. IsFiniteSet({}) /\ \A c : IsFiniteSet({c})
  BY FS_EmptySet, FS_Singleton
<1>b. Done.left = {} /\ Done.found = {}
  BY DEF Done, Idle
<1>c. ASSUME UNCHANGED <<artifacts, ledger, totals, files>>
      PROVE  /\ IsFiniteSet(artifacts')
             /\ ledger' \in SUBSET Contents /\ IsFiniteSet(ledger')
             /\ files' \in SUBSET Contents /\ IsFiniteSet(files')
             /\ totals' # Nil => totals' = Measure(ledger')
  BY <1>c, <1>0
<1>d. \A r \in Requests : IsFiniteSet(ItemsOf(req[r])) /\ ItemsOf(req[r]) \in SUBSET Contents
  BY <1>0, BatchContents DEF Call
<1>1. CASE UNCHANGED vars
  BY <1>1 DEF CInv, Sized, TotalsMatchLedger, vars, tables
<1>2. ASSUME NEW r \in Requests, NEW c \in Contents, StartArtifact(r, c)
      PROVE  CInv'
  <2> DEFINE q == [Idle EXCEPT !.op = "artifact", !.batch = <<c>>, !.pc = "ensure"]
  <2>1. req' = [req EXCEPT ![r] = q] /\ q.left = {} /\ q.found = {}
    BY <1>2 DEF StartArtifact, Idle
  <2> HIDE DEF q
  <2>2. UNCHANGED <<artifacts, ledger, totals, files>>
    BY <1>2 DEF StartArtifact, tables
  <2> QED BY <1>a, <1>c, <2>1, <2>2, StepCounts
<1>3. ASSUME NEW r \in Requests, NEW batch \in Batches, StartCards(r, batch)
      PROVE  CInv'
  <2> DEFINE q == [Idle EXCEPT !.op = "cards", !.batch = batch,
                               !.pc = IF quota.bytes > 0 THEN "ensure" ELSE "plan"]
  <2>1. req' = [req EXCEPT ![r] = q] /\ q.left = {} /\ q.found = {}
    BY <1>3 DEF StartCards, Idle
  <2> HIDE DEF q
  <2>2. UNCHANGED <<artifacts, ledger, totals, files>>
    BY <1>3 DEF StartCards, tables
  <2> QED BY <1>a, <1>c, <2>1, <2>2, StepCounts
<1>4. ASSUME NEW r \in Requests, EnsureLedger(r) \/ BeginRebuild(r)
      PROVE  CInv'
  <2>1. PICK q : req' = [req EXCEPT ![r] = q] /\ q.left = req[r].left /\ q.found = req[r].found
    BY <1>0, <1>4 DEF EnsureLedger, BeginRebuild, Call
  <2>2. UNCHANGED <<artifacts, ledger, totals, files>>
    BY <1>4 DEF EnsureLedger, BeginRebuild, tables
  <2> QED BY <1>0, <1>c, <2>1, <2>2, StepCounts
<1>5. ASSUME NEW r \in Requests, ListContents(r)
      PROVE  CInv'
  <2> DEFINE q == [req[r] EXCEPT !.pc = "begin", !.left = Referenced(artifacts)]
  <2>1. q.left = Referenced(artifacts) /\ q.found = req[r].found
    BY <1>0 DEF Call
  <2>2. req' = [req EXCEPT ![r] = q] /\ UNCHANGED <<artifacts, ledger, totals, files>>
    BY <1>5 DEF ListContents, tables
  <2>3. IsFiniteSet(q.left) /\ IsFiniteSet(q.found)
    BY <1>0, <2>1, ReferencedFinite
  <2> HIDE DEF q
  <2> QED BY <1>c, <2>2, <2>3, StepCounts
<1>6. ASSUME NEW r \in Requests, NEW c \in Contents, StatContent(r, c)
      PROVE  CInv'
  <2> DEFINE q == [req[r] EXCEPT !.left = @ \ {c}, !.found = @ \union ({c} \intersect files)]
  <2>1. q.left = req[r].left \ {c} /\ q.found = req[r].found \union ({c} \intersect files)
    BY <1>0 DEF Call
  <2>2. req' = [req EXCEPT ![r] = q] /\ UNCHANGED <<artifacts, ledger, totals, files>>
    BY <1>6 DEF StatContent, tables
  <2>3. IsFiniteSet({c} \intersect files)
    BY <1>a, FS_Intersection
  <2>4. IsFiniteSet(q.left) /\ IsFiniteSet(q.found)
    <3>1. IsFiniteSet(req[r].left \ {c}) /\ IsFiniteSet(req[r].left) /\ IsFiniteSet(req[r].found)
      BY <1>0, FS_RemoveElement
    <3>2. IsFiniteSet(req[r].found \union ({c} \intersect files))
      BY <2>3, <3>1, FS_Union
    <3> HIDE DEF q
    <3> QED BY <2>1, <3>1, <3>2
  <2> HIDE DEF q
  <2> QED BY <1>c, <2>2, <2>4, StepCounts
<1>7. ASSUME NEW r \in Requests, CommitRebuild(r)
      PROVE  CInv'
  <2>1. PICK q : req' = [req EXCEPT ![r] = q] /\ q.left = {} /\ q.found = {}
    BY <1>0, <1>7, <1>b DEF CommitRebuild, Finish, Call
  <2>2. ledger' = req[r].found /\ totals' = Measure(ledger') /\ UNCHANGED <<artifacts, files>>
    BY <1>7 DEF CommitRebuild, Rebuilt
  <2>3. req[r].found \in SUBSET Contents
    BY <1>0 DEF Call
  <2> QED BY <1>0, <1>a, <2>1, <2>2, <2>3, StepCounts
<1>8. ASSUME NEW r \in Requests, PlanArtifact(r)
      PROVE  CInv'
  <2> DEFINE p == [req[r] EXCEPT !.pc = "planned", !.known = req[r].batch[1] \in ledger]
  <2>1. req' = [req EXCEPT ![r] = Done] \/ req' = [req EXCEPT ![r] = p]
    BY <1>8 DEF PlanArtifact, Finish
  <2>3. p.left = req[r].left /\ p.found = req[r].found
    BY <1>0 DEF Call
  <2> HIDE DEF p
  <2>4. IsFiniteSet(p.left) /\ IsFiniteSet(p.found) /\ IsFiniteSet(Done.left) /\ IsFiniteSet(Done.found)
    BY <1>0, <1>a, <1>b, <2>3
  <2>2. UNCHANGED <<artifacts, ledger, totals, files>>
    BY <1>8 DEF PlanArtifact, tables
  <2> QED BY <1>c, <2>1, <2>2, <2>4, StepCounts
<1>9. ASSUME NEW r \in Requests, PromoteArtifact(r)
      PROVE  CInv'
  <2> DEFINE q == [req[r] EXCEPT !.pc = "promoted"]
  <2>1. req' = [req EXCEPT ![r] = q] /\ q.left = req[r].left /\ q.found = req[r].found
    BY <1>0, <1>9 DEF PromoteArtifact, Call
  <2> HIDE DEF q
  <2>2. files' = files \union ItemsOf(req[r]) /\ UNCHANGED <<artifacts, ledger, totals>>
    BY <1>9 DEF PromoteArtifact, tables
  <2>3. IsFiniteSet(files') /\ files' \in SUBSET Contents
    BY <1>0, <1>d, <2>2, FS_Union
  <2> QED BY <1>0, <2>1, <2>2, <2>3, StepCounts
<1>10. ASSUME NEW r \in Requests, CommitArtifact(r)
       PROVE  CInv'
  <2> DEFINE c == req[r].batch[1]
  <2>1. req' = [req EXCEPT ![r] = Done] /\ files' = files
        /\ artifacts' = artifacts \union {Artifact(r, 1, c, FALSE)}
        /\ Enter(IF req[r].known THEN {} ELSE {c}) /\ req[r].pc = "promoted"
    BY <1>10 DEF CommitArtifact, Finish
  <2>2. c \in Contents
    <3>1. ItemsOf(req[r]) = {c}
      BY <2>1 DEF BInv, CallsShaped
    <3> QED BY <3>1, <1>d
  <2>3. IsFiniteSet(artifacts')
    BY <1>0, <2>1, FS_AddElement
  <2> DEFINE cs == IF req[r].known THEN {} ELSE {c}
  <2>4. cs \in SUBSET Contents /\ IsFiniteSet(cs) /\ Enter(cs)
    BY <1>a, <2>1, <2>2
  <2> HIDE DEF cs
  <2>5. ledger' \in SUBSET Contents /\ IsFiniteSet(ledger')
        /\ (totals' # Nil => totals' = Measure(ledger'))
    BY <2>4, EnterCounts
  <2> QED BY <1>0, <1>a, <1>b, <2>1, <2>3, <2>5, StepCounts
<1>11. ASSUME NEW r \in Requests, CommitCards(r)
       PROVE  CInv'
  <2>1. files' = files
    BY <1>11 DEF CommitCards
  <2>2. CASE UNCHANGED tables /\ Finish(r)
    <3>1. UNCHANGED <<artifacts, ledger, totals, files>> /\ req' = [req EXCEPT ![r] = Done]
      BY <2>1, <2>2 DEF tables, Finish
    <3> QED BY <1>a, <1>b, <1>c, <3>1, StepCounts
  <2>3. CASE /\ artifacts' = artifacts \union CardsOf(r, req[r])
             /\ Enter(ItemsOf(req[r]))
             /\ req' = [req EXCEPT ![r].pc = "promote", ![r].left = ItemsOf(req[r])]
    <3> DEFINE q == [req[r] EXCEPT !.pc = "promote", !.left = ItemsOf(req[r])]
    <3>1. q.left = ItemsOf(req[r]) /\ q.found = req[r].found /\ req' = [req EXCEPT ![r] = q]
      BY <1>0, <2>3 DEF Call
    <3> HIDE DEF q
    <3>2. IsFiniteSet(artifacts')
      <4>1. IsFiniteSet(CardsOf(r, req[r]))
        BY <1>0, BatchCards DEF Call
      <4> QED BY <1>0, <2>3, <4>1, FS_Union
    <3>3. ledger' \in SUBSET Contents /\ IsFiniteSet(ledger')
          /\ (totals' # Nil => totals' = Measure(ledger'))
      BY <1>d, <2>3, EnterCounts
    <3> QED BY <1>0, <1>d, <2>1, <3>1, <3>2, <3>3, StepCounts
  <2> QED BY <1>11, <2>2, <2>3 DEF CommitCards, CardsOf
<1>12. ASSUME NEW r \in Requests, NEW c \in Contents, PromoteCard(r, c)
       PROVE  CInv'
  <2>1. files' = files \union {c} /\ UNCHANGED <<artifacts, ledger, totals>>
    BY <1>12 DEF PromoteCard, tables
  <2>2. IsFiniteSet(files') /\ files' \in SUBSET Contents
    BY <1>0, <2>1, FS_AddElement
  <2>3. PICK q : req' = [req EXCEPT ![r] = q] /\ (q.left = {} \/ q.left = req[r].left \ {c})
                 /\ (q.found = {} \/ q.found = req[r].found)
    BY <1>0, <1>12, <1>b DEF PromoteCard, Finish, Call
  <2>4. IsFiniteSet(q.left) /\ IsFiniteSet(q.found)
    <3>1. IsFiniteSet(req[r].left \ {c}) /\ IsFiniteSet(req[r].found)
      BY <1>0, FS_RemoveElement
    <3> QED BY <1>a, <2>3, <3>1
  <2> QED BY <1>0, <2>1, <2>2, <2>3, <2>4, StepCounts
<1>13. ASSUME NEW r \in Requests, NEW gone \in SUBSET artifacts, Purge(r, gone)
       PROVE  CInv'
  <2> DEFINE cs == Unreferenced(gone)
  <2>1. files' = files /\ artifacts' = artifacts \ gone /\ Strike(cs)
    BY <1>13 DEF Purge
  <2>2. IsFiniteSet(artifacts')
    BY <1>0, <2>1, FS_Difference
  <2>3. IsFiniteSet(cs) /\ cs \in SUBSET Contents
    <3>1. IsFiniteSet(gone)
      BY <1>0, FS_Subset
    <3>2. IsFiniteSet(Referenced(gone))
      BY <3>1, ReferencedFinite
    <3>3. Referenced(gone) \subseteq Contents
      BY DEF Referenced, BInv, CallsShaped
    <3> QED BY <3>2, <3>3, FS_Difference DEF Unreferenced
  <2> DEFINE q == [Idle EXCEPT !.op = "purge", !.left = cs,
                               !.pc = IF cs = {} THEN "done" ELSE "delete"]
  <2>4. req' = [req EXCEPT ![r] = q] /\ q.left = cs /\ q.found = {}
    BY <1>13 DEF Purge, Idle
  <2> HIDE DEF cs, q
  <2>5. ledger' \in SUBSET Contents /\ IsFiniteSet(ledger')
        /\ (totals' # Nil => totals' = Measure(ledger'))
    BY <2>1, <2>3, StrikeCounts
  <2> QED BY <1>0, <1>a, <2>1, <2>2, <2>3, <2>4, <2>5, StepCounts
<1>14. ASSUME NEW r \in Requests, NEW c \in Contents, DeleteBlob(r, c)
       PROVE  CInv'
  <2>1. files' = files \ {c} /\ UNCHANGED <<artifacts, ledger, totals>>
    BY <1>14 DEF DeleteBlob, tables
  <2>2. IsFiniteSet(files') /\ files' \in SUBSET Contents
    BY <1>0, <2>1, FS_RemoveElement
  <2>3. PICK q : req' = [req EXCEPT ![r] = q] /\ (q.left = {} \/ q.left = req[r].left \ {c})
                 /\ (q.found = {} \/ q.found = req[r].found)
    BY <1>0, <1>14, <1>b DEF DeleteBlob, Finish, Call
  <2>4. IsFiniteSet(q.left) /\ IsFiniteSet(q.found)
    <3>1. IsFiniteSet(req[r].left \ {c}) /\ IsFiniteSet(req[r].found)
      BY <1>0, FS_RemoveElement
    <3> QED BY <1>a, <2>3, <3>1
  <2> QED BY <1>0, <2>1, <2>2, <2>3, <2>4, StepCounts
<1>15. ASSUME NEW S \in SUBSET Requests, Cut(S)
       PROVE  CInv'
  <2>1. UNCHANGED <<artifacts, ledger, totals, files>>
        /\ req' = [r \in Requests |-> IF r \in S THEN Done ELSE req[r]]
    BY <1>15 DEF Cut, tables
  <2>2. \A r \in Requests : IsFiniteSet(req'[r].left) /\ IsFiniteSet(req'[r].found)
    BY <1>0, <1>a, <1>b, <2>1
  <2> QED BY <1>c, <2>1, <2>2 DEF CInv, Sized, TotalsMatchLedger
<1>16. InFlight \in SUBSET Requests /\ \A r \in InFlight : {r} \in SUBSET Requests
  BY DEF InFlight
<1>17. ASSUME NEW r \in Requests, FailCall(r)
       PROVE  CInv'
  BY <1>15, <1>16, <1>17 DEF FailCall
<1>18. CASE Crash
  BY <1>15, <1>16, <1>18 DEF Crash
<1> QED BY <1>1, <1>2, <1>3, <1>4, <1>5, <1>6, <1>7, <1>8, <1>9, <1>10, <1>11, <1>12, <1>13, <1>14,
           <1>17, <1>18 DEF Next

(* Tables, store and calls stay finite, and the totals stay the sum of the rows. *)
THEOREM CountInvariant == Spec => []CInv
<1>1. BInv /\ CInv /\ [Next]_vars => CInv'
  BY NextCounts
<1> QED BY <1>1, InitCounts, BlobInvariant, PTL DEF Spec

(* The totals are what the rows of the ledger add up to, through every write, *)
(* purge, rebuild, failure and crash.                                         *)
THEOREM TotalsAddUp == Spec => []TotalsMatchLedger
<1>1. CInv => TotalsMatchLedger
  BY DEF CInv
<1> QED BY <1>1, CountInvariant, PTL

-----------------------------------------------------------------------------
(* Types. *)

Row == [by : Requests \union Contents, item : Nat \ {0}, content : Contents, card : BOOLEAN]

TypedCall == [pc : Stages, op : {"artifact", "cards", "purge", "rebuild"},
              batch : Batches \union {<<c>> : c \in Contents} \union {<<>>}, known : BOOLEAN,
              left : SUBSET Contents, found : SUBSET Contents]

LEMMA TotalsTyped == CInv => totals = Nil \/ totals \in [bytes : Nat, objects : Nat]
  BY MeasureTyped DEF CInv, Sized, TotalsMatchLedger

LEMMA InitTyped == Init /\ CInv => TypeOK
<1> SUFFICES ASSUME Init, CInv PROVE TypeOK
  OBVIOUS
<1>1. PICK old \in OldContents : artifacts = {Artifact(c, 1, c, FALSE) : c \in old}
  BY Zenon DEF Init
<1>2. artifacts \subseteq Row
  <2>1. \A c \in Contents : Artifact(c, 1, c, FALSE) \in Row
    BY DEF Artifact, Row
  <2>2. old \subseteq Contents
    BY BlobConstants
  <2> QED BY <1>1, <2>1, <2>2
<1>3. Idle \in TypedCall
  BY DEF Idle, TypedCall, Stages
<1>4. req \in [Requests -> TypedCall]
  BY <1>3 DEF Init
<1>5. quota \in Quotas
  BY DEF Init
<1>6. /\ metering = Nil /\ writer = Nil /\ drift = {} /\ disturbed = {} /\ misled = FALSE /\ faults = 0
      /\ met = [r \in Requests |-> {}]
  BY DEF Init
<1>7. 0 \in 0..MaxFaults
  BY BlobConstants
<1>8. totals = Nil \/ totals \in [bytes : Nat, objects : Nat]
  BY TotalsTyped
<1> QED BY <1>2, <1>4, <1>5, <1>6, <1>7, <1>8 DEF TypeOK, CInv, Sized, Row, TypedCall

(* A step of one call: tables, store and what rebuilds met are typed already. *)
LEMMA StepTyped ==
  ASSUME TypeOK, BInv', CInv', NEW r \in Requests, NEW q \in TypedCall, req' = [req EXCEPT ![r] = q],
         artifacts' \subseteq Row, quota' = quota,
         metering' \in Requests \union {Nil}, writer' \in Requests \union {Nil},
         drift' \subseteq Contents, disturbed' \subseteq Contents, misled' \in BOOLEAN, faults' = faults
  PROVE  TypeOK'
<1>1. req' \in [Requests -> TypedCall]
  BY DEF TypeOK, TypedCall
<1>2. totals' = Nil \/ totals' \in [bytes : Nat, objects : Nat]
  <2>1. (CInv => totals = Nil \/ totals \in [bytes : Nat, objects : Nat])'
    BY TotalsTyped, PTL
  <2> QED BY <2>1
<1>3. ledger' \subseteq Contents /\ files' \subseteq Contents
  BY DEF CInv, Sized
<1>4. met' \in [Requests -> SUBSET Contents]
  BY DEF BInv, CallsShaped
<1> QED BY <1>1, <1>2, <1>3, <1>4 DEF TypeOK, Row, TypedCall

LEMMA LocksTyped ==
  ASSUME metering \in Requests \union {Nil}, NEW r \in Requests
  PROVE  /\ Lock(r) => metering' \in Requests \union {Nil}
         /\ Unlock({r}) => metering' \in Requests \union {Nil}
         /\ UNCHANGED metering => metering' \in Requests \union {Nil}
  BY DEF Lock, Unlock

LEMMA NextTyped == ASSUME TypeOK, BInv, CInv, BInv', CInv', [Next]_vars PROVE TypeOK'
<1>0. /\ artifacts \subseteq Row /\ req \in [Requests -> TypedCall]
      /\ metering \in Requests \union {Nil} /\ writer \in Requests \union {Nil}
      /\ drift \subseteq Contents /\ disturbed \subseteq Contents /\ misled \in BOOLEAN
      /\ ledger \in SUBSET Contents /\ files \in SUBSET Contents /\ met \in [Requests -> SUBSET Contents]
  BY DEF TypeOK, Row, TypedCall
<1>a. Done \in TypedCall
  BY DEF Done, Idle, TypedCall, Stages
<1>b. BeingWritten \subseteq Contents /\ BeingDeleted \subseteq Contents
      /\ \A r \in Requests : ItemsOf(req[r]) \subseteq Contents
  <2>1. BeingDeleted \subseteq Contents
    BY <1>0 DEF BeingDeleted, TypedCall
  <2>2. \A r \in Requests : req[r].batch \in Seq(Contents)
    BY DEF BInv, CallsShaped, Call
  <2> QED BY <2>1, <2>2, WritesContents, BatchContents DEF BInv
<1>c. ASSUME UNCHANGED history
      PROVE  drift' \subseteq Contents /\ disturbed' \subseteq Contents /\ misled' \in BOOLEAN
  BY <1>0, <1>c DEF history
<1>d. Remember => misled' \in BOOLEAN
  BY <1>0 DEF Remember
<1>1. CASE UNCHANGED vars
  BY <1>1 DEF TypeOK, vars, tables, locks, history
<1>2. ASSUME NEW r \in Requests, NEW c \in Contents, StartArtifact(r, c)
      PROVE  TypeOK'
  <2> DEFINE q == [Idle EXCEPT !.op = "artifact", !.batch = <<c>>, !.pc = "ensure"]
  <2>1. q \in TypedCall
    BY DEF Idle, TypedCall, Stages
  <2>2. req' = [req EXCEPT ![r] = q] /\ UNCHANGED <<artifacts, quota, writer, faults>>
        /\ UNCHANGED history /\ Lock(r)
    BY <1>2 DEF StartArtifact, tables
  <2> HIDE DEF q
  <2> QED BY <1>0, <1>c, <2>1, <2>2, LocksTyped, StepTyped
<1>3. ASSUME NEW r \in Requests, NEW batch \in Batches, StartCards(r, batch)
      PROVE  TypeOK'
  <2> DEFINE q == [Idle EXCEPT !.op = "cards", !.batch = batch,
                               !.pc = IF quota.bytes > 0 THEN "ensure" ELSE "plan"]
  <2>1. q \in TypedCall
    BY DEF Idle, TypedCall, Stages
  <2>2. req' = [req EXCEPT ![r] = q] /\ UNCHANGED <<artifacts, quota, writer, faults>>
        /\ UNCHANGED history /\ Lock(r)
    BY <1>3 DEF StartCards, tables
  <2> HIDE DEF q
  <2> QED BY <1>0, <1>c, <2>1, <2>2, LocksTyped, StepTyped
<1>4. ASSUME NEW r \in Requests, EnsureLedger(r)
      PROVE  TypeOK'
  <2> DEFINE q == [req[r] EXCEPT !.pc = IF totals = Nil THEN "list" ELSE "plan"]
  <2>1. q \in TypedCall
    BY <1>0 DEF TypedCall, Stages
  <2>2. req' = [req EXCEPT ![r] = q] /\ UNCHANGED <<artifacts, quota, metering, writer, faults>>
        /\ UNCHANGED history
    BY <1>4 DEF EnsureLedger, tables, locks
  <2> HIDE DEF q
  <2> QED BY <1>0, <1>c, <2>1, <2>2, StepTyped
<1>5. ASSUME NEW r \in Requests, ListContents(r)
      PROVE  TypeOK'
  <2> DEFINE q == [req[r] EXCEPT !.pc = "begin", !.left = Referenced(artifacts)]
  <2>1. q \in TypedCall
    <3>1. Referenced(artifacts) \subseteq Contents
      BY DEF BInv, CallsShaped
    <3> QED BY <1>0, <3>1 DEF TypedCall, Stages
  <2>2. req' = [req EXCEPT ![r] = q]
        /\ UNCHANGED <<artifacts, quota, metering, writer, faults, drift, disturbed, misled>>
    BY <1>5 DEF ListContents, tables, locks
  <2> HIDE DEF q
  <2> QED BY <1>0, <2>1, <2>2, StepTyped
<1>6. ASSUME NEW r \in Requests, BeginRebuild(r)
      PROVE  TypeOK'
  <2> DEFINE q == [req[r] EXCEPT !.pc = "stat"]
  <2>1. q \in TypedCall
    BY <1>0 DEF TypedCall, Stages
  <2>2. req' = [req EXCEPT ![r] = q] /\ UNCHANGED <<artifacts, quota, metering, faults>>
        /\ UNCHANGED history /\ writer' = r
    BY <1>6 DEF BeginRebuild, tables
  <2> HIDE DEF q
  <2> QED BY <1>0, <1>c, <2>1, <2>2, StepTyped
<1>7. ASSUME NEW r \in Requests, NEW c \in Contents, StatContent(r, c)
      PROVE  TypeOK'
  <2> DEFINE q == [req[r] EXCEPT !.left = @ \ {c}, !.found = @ \union ({c} \intersect files)]
  <2>1. q \in TypedCall
    BY <1>0 DEF TypedCall
  <2>2. req' = [req EXCEPT ![r] = q] /\ UNCHANGED <<artifacts, quota, metering, writer, faults>>
        /\ UNCHANGED history
    BY <1>7 DEF StatContent, tables, locks
  <2> HIDE DEF q
  <2> QED BY <1>0, <1>c, <2>1, <2>2, StepTyped
<1>8. ASSUME NEW r \in Requests, CommitRebuild(r)
      PROVE  TypeOK'
  <2> DEFINE p == [req[r] EXCEPT !.pc = "plan", !.found = {}]
  <2>1. p \in TypedCall
    BY <1>0 DEF TypedCall, Stages
  <2>2. /\ \/ req' = [req EXCEPT ![r] = Done] /\ Unlock({r})
           \/ req' = [req EXCEPT ![r] = p] /\ UNCHANGED metering
        /\ UNCHANGED <<artifacts, quota, faults, disturbed>> /\ writer' = Nil /\ drift' = met[r] /\ Remember
    BY <1>8 DEF CommitRebuild, Finish
  <2>3. drift' \subseteq Contents
    BY <1>0, <2>2
  <2> HIDE DEF p
  <2> QED BY <1>0, <1>a, <1>d, <2>1, <2>2, <2>3, LocksTyped, StepTyped
<1>9. ASSUME NEW r \in Requests, PlanArtifact(r)
      PROVE  TypeOK'
  <2> DEFINE k == req[r].batch[1] \in ledger
             p == [req[r] EXCEPT !.pc = "planned", !.known = k]
  <2>1. p \in TypedCall
    <3>1. k \in BOOLEAN
      OBVIOUS
    <3> HIDE DEF k
    <3> QED BY <1>0, <3>1 DEF TypedCall, Stages
  <2>2. /\ \/ req' = [req EXCEPT ![r] = Done] /\ Unlock({r})
           \/ req' = [req EXCEPT ![r] = p] /\ UNCHANGED metering
        /\ UNCHANGED <<artifacts, quota, writer, faults, drift>> /\ Remember
    BY <1>9 DEF PlanArtifact, Finish, tables
  <2>3. disturbed' \subseteq Contents
    BY <1>0, <1>b, <1>9 DEF PlanArtifact
  <2> HIDE DEF p
  <2> QED BY <1>0, <1>a, <1>d, <2>1, <2>2, <2>3, LocksTyped, StepTyped
<1>10. ASSUME NEW r \in Requests, PromoteArtifact(r)
       PROVE  TypeOK'
  <2> DEFINE q == [req[r] EXCEPT !.pc = "promoted"]
  <2>1. q \in TypedCall
    BY <1>0 DEF TypedCall, Stages
  <2>2. req' = [req EXCEPT ![r] = q] /\ UNCHANGED <<artifacts, quota, metering, faults>>
        /\ UNCHANGED history /\ writer' = r
    BY <1>10 DEF PromoteArtifact, tables
  <2> HIDE DEF q
  <2> QED BY <1>0, <1>c, <2>1, <2>2, StepTyped
<1>11. ASSUME NEW r \in Requests, CommitArtifact(r)
       PROVE  TypeOK'
  <2>1. /\ req' = [req EXCEPT ![r] = Done] /\ Unlock({r}) /\ writer' = Nil
        /\ artifacts' = artifacts \union {Artifact(r, 1, req[r].batch[1], FALSE)}
        /\ req[r].pc = "promoted"
        /\ UNCHANGED <<quota, faults>> /\ UNCHANGED history
    BY <1>11 DEF CommitArtifact, Finish
  <2>2. req[r].batch[1] \in Contents
    <3>1. ItemsOf(req[r]) = {req[r].batch[1]}
      BY <2>1 DEF BInv, CallsShaped
    <3> QED BY <3>1, <1>b
  <2>3. Artifact(r, 1, req[r].batch[1], FALSE) \in Row
    BY <2>2 DEF Artifact, Row
  <2> QED BY <1>0, <1>a, <1>c, <2>1, <2>3, LocksTyped, StepTyped
<1>12. ASSUME NEW r \in Requests, CommitCards(r)
       PROVE  TypeOK'
  <2> DEFINE q == [req[r] EXCEPT !.pc = "promote", !.left = ItemsOf(req[r])]
  <2>1. q \in TypedCall
    BY <1>0, <1>b DEF TypedCall, Stages
  <2>2. UNCHANGED <<quota, writer, faults, drift>> /\ Remember
    BY <1>12 DEF CommitCards
  <2>3. disturbed' \subseteq Contents
    BY <1>0, <1>b, <1>12 DEF CommitCards
  <2>4. CASE /\ artifacts' = artifacts \union CardsOf(r, req[r])
             /\ req' = [req EXCEPT ![r].pc = "promote", ![r].left = ItemsOf(req[r])]
             /\ UNCHANGED metering
    <3>1. CardsOf(r, req[r]) \subseteq Row
      <4>1. req[r].batch \in Seq(Contents)
        BY DEF BInv, CallsShaped, Call
      <4>2. \A i \in DOMAIN req[r].batch : i \in Nat \ {0} /\ req[r].batch[i] \in Contents
        BY <4>1
      <4>3. \A i \in DOMAIN req[r].batch : Artifact(r, i, req[r].batch[i], TRUE) \in Row
        BY <4>2 DEF Artifact, Row
      <4> QED BY <4>3 DEF CardsOf
    <3>2. req' = [req EXCEPT ![r] = q]
      BY <2>4
    <3> HIDE DEF q
    <3> QED BY <1>0, <1>d, <2>1, <2>2, <2>3, <2>4, <3>1, <3>2, StepTyped
  <2>5. CASE artifacts' = artifacts /\ req' = [req EXCEPT ![r] = Done] /\ Unlock({r})
    BY <1>0, <1>a, <1>d, <2>2, <2>3, <2>5, LocksTyped, StepTyped
  <2> QED BY <1>12, <2>4, <2>5 DEF CommitCards, CardsOf, Finish, tables
<1>13. ASSUME NEW r \in Requests, NEW c \in Contents, PromoteCard(r, c) \/ DeleteBlob(r, c)
       PROVE  TypeOK'
  <2> DEFINE q == [req[r] EXCEPT !.left = @ \ {c}]
  <2>1. q \in TypedCall
    BY <1>0 DEF TypedCall
  <2>2. /\ \/ req' = [req EXCEPT ![r] = Done] /\ Unlock({r})
           \/ req' = [req EXCEPT ![r] = q] /\ UNCHANGED metering
        /\ UNCHANGED <<artifacts, quota, writer, faults>> /\ UNCHANGED history
    BY <1>13 DEF PromoteCard, DeleteBlob, Finish, tables
  <2> HIDE DEF q
  <2> QED BY <1>0, <1>a, <1>c, <2>1, <2>2, LocksTyped, StepTyped
<1>14. ASSUME NEW r \in Requests, NEW gone \in SUBSET artifacts, Purge(r, gone)
       PROVE  TypeOK'
  <2> DEFINE cs == Unreferenced(gone)
             q == [Idle EXCEPT !.op = "purge", !.left = cs,
                               !.pc = IF cs = {} THEN "done" ELSE "delete"]
  <2>1. cs \subseteq Contents
    BY <1>0 DEF Unreferenced, Referenced, Row
  <2>2. q \in TypedCall
    BY <2>1 DEF Idle, TypedCall, Stages
  <2>3. /\ req' = [req EXCEPT ![r] = q] /\ artifacts' = artifacts \ gone
        /\ UNCHANGED <<quota, metering, writer, faults>> /\ Remember
        /\ drift' = drift \union (cs \intersect BeingWritten)
        /\ disturbed' = disturbed \union (cs \intersect BeingWritten)
    BY <1>14 DEF Purge, locks
  <2> HIDE DEF cs, q
  <2>4. drift' \subseteq Contents /\ disturbed' \subseteq Contents /\ artifacts' \subseteq Row
    BY <1>0, <2>1, <2>3
  <2> QED BY <1>0, <1>d, <2>2, <2>3, <2>4, StepTyped
<1>15. ASSUME NEW S \in SUBSET Requests, Cut(S)
       PROVE  TypeOK'
  <2>1. req' \in [Requests -> TypedCall]
    BY <1>0, <1>a, <1>15 DEF Cut
  <2>2. drift' \subseteq Contents /\ disturbed' \subseteq Contents /\ misled' \in BOOLEAN
    <3>1. \A r \in Requests : Writes(req[r]) \subseteq Contents
      BY <1>b DEF BeingWritten
    <3>2. \A r \in Requests : req[r].left \subseteq Contents
      BY <1>0 DEF TypedCall
    <3> QED BY <1>0, <1>d, <1>15, <3>1, <3>2 DEF Cut
  <2>3. metering' \in Requests \union {Nil} /\ writer' \in Requests \union {Nil}
    BY <1>0, <1>15 DEF Cut, Unlock
  <2>4. faults' \in 0..MaxFaults
    BY <1>15, BlobConstants DEF Cut, TypeOK
  <2>5. UNCHANGED <<artifacts, ledger, totals, files, quota>>
    BY <1>15 DEF Cut, tables
  <2>6. met' \in [Requests -> SUBSET Contents]
    BY DEF BInv, CallsShaped
  <2> QED BY <2>1, <2>2, <2>3, <2>4, <2>5, <2>6 DEF TypeOK, Row, TypedCall
<1>16. InFlight \in SUBSET Requests /\ \A r \in InFlight : {r} \in SUBSET Requests
  BY DEF InFlight
<1>17. ASSUME NEW r \in Requests, FailCall(r)
       PROVE  TypeOK'
  BY <1>15, <1>16, <1>17 DEF FailCall
<1>18. CASE Crash
  BY <1>15, <1>16, <1>18 DEF Crash
<1> QED BY <1>1, <1>2, <1>3, <1>4, <1>5, <1>6, <1>7, <1>8, <1>9, <1>10, <1>11, <1>12, <1>13, <1>14,
           <1>17, <1>18 DEF Next

(* Types are kept; that the totals stay numbers needs the totals to be the sum *)
(* of the rows, because a purge counts off.                                    *)
THEOREM TypesHold == Spec => []TypeOK
<1>1. TypeOK /\ BInv /\ CInv /\ BInv' /\ CInv' /\ [Next]_vars => TypeOK'
  BY NextTyped
<1> QED BY <1>1, InitTyped, BlobInvariant, CountInvariant, PTL DEF Spec

-----------------------------------------------------------------------------
(* One metered call at a time. *)

Metered(q) == q.op \in {"artifact", "cards"}
Writing == {"plan", "planned", "promoted", "promote"}

(* With limits, whoever writes an artifact or cards holds quotaMu; when bytes *)
(* are limited, it plans with totals at hand.                                 *)
OneMetered ==
  \A r \in Requests :
    /\ Limited /\ Metered(req[r]) => metering = r
    /\ req[r].op = "cards" => req[r].batch \in Batches
    /\ quota.bytes > 0 /\ req[r].pc \in Writing => totals # Nil

LEMMA InitMetered == Init => OneMetered
  BY DEF Init, OneMetered, Metered, Writing, Idle

LEMMA StepMetered ==
  ASSUME OneMetered, TypeOK, NEW r \in Requests, NEW q, req' = [req EXCEPT ![r] = q], quota' = quota,
         \A w \in Requests : w # r /\ Limited /\ Metered(req[w]) => metering' = w,
         Limited /\ Metered(q) => metering' = r,
         q.op = "cards" => q.batch \in Batches,
         quota.bytes > 0 /\ q.pc \in Writing => totals' # Nil,
         totals # Nil => totals' # Nil
  PROVE  OneMetered'
<1>1. \A w \in Requests : req'[w] = IF w = r THEN q ELSE req[w]
  BY DEF TypeOK
<1>2. Limited' <=> Limited
  BY DEF Limited
<1> QED BY <1>1, <1>2 DEF OneMetered

(* What a call that takes, keeps or gives back quotaMu does to the others. *)
LEMMA LockIsExclusive ==
  ASSUME OneMetered, TypeOK, NEW r \in Requests
  PROVE  /\ Lock(r) => \A w \in Requests : w # r /\ Limited /\ Metered(req[w]) => metering' = w
         /\ Lock(r) /\ Limited => metering' = r
         /\ Unlock({r}) => \A w \in Requests : w # r /\ Limited /\ Metered(req[w]) => metering' = w
         /\ UNCHANGED metering => \A w \in Requests : Limited /\ Metered(req[w]) => metering' = w
         /\ \A w \in Requests : Limited /\ Metered(req[w]) /\ Metered(req[r]) => w = r
<1>1. Nil \notin Requests
  BY BlobConstants
<1>2. \A w \in Requests : Limited /\ Metered(req[w]) => metering = w
  BY DEF OneMetered
<1> HIDE DEF OneMetered
<1> QED BY <1>1, <1>2 DEF Lock, Unlock

LEMMA DoneUnmetered == ~Metered(Done) /\ Done.pc \notin Writing /\ Done.op # "cards"
  BY DEF Done, Idle, Metered, Writing

(* What a committed artifact enters in the ledger. *)
LEMMA ArtifactEntered ==
  ASSUME BInv, NEW r \in Requests, CommitArtifact(r)
  PROVE  \E cs \in SUBSET Contents : IsFiniteSet(cs) /\ cs \subseteq ItemsOf(req[r]) /\ Enter(cs)
<1> DEFINE cs == IF req[r].known THEN {} ELSE {req[r].batch[1]}
<1>1. Enter(cs) /\ req[r].pc = "promoted"
  BY DEF CommitArtifact
<1>2. ItemsOf(req[r]) = {req[r].batch[1]} /\ ItemsOf(req[r]) \subseteq Contents
  BY <1>1, BatchContents DEF BInv, CallsShaped, Call
<1>3. IsFiniteSet(cs) /\ cs \in SUBSET Contents /\ cs \subseteq ItemsOf(req[r])
  BY <1>2, FS_EmptySet, FS_Singleton
<1> HIDE DEF cs
<1> QED BY <1>1, <1>3

LEMMA NextMetered == ASSUME OneMetered, TypeOK, BInv, CInv, CInv', [Next]_vars PROVE OneMetered'
<1>0. req \in [Requests -> TypedCall]
  BY DEF TypeOK, TypedCall
<1>b. \A r \in Requests : /\ Limited /\ Metered(req[r]) => metering = r
                          /\ req[r].op = "cards" => req[r].batch \in Batches
                          /\ quota.bytes > 0 /\ req[r].pc \in Writing => totals # Nil
  BY DEF OneMetered
<1>c. \A r \in Requests : \A w \in Requests :
        /\ Unlock({r}) /\ w # r /\ Limited /\ Metered(req[w]) => metering' = w
        /\ UNCHANGED metering /\ Limited /\ Metered(req[w]) => metering' = w
  BY LockIsExclusive
<1>1. CASE UNCHANGED vars
  BY <1>1 DEF OneMetered, Limited, vars, tables, locks
<1>2. ASSUME NEW r \in Requests, NEW c \in Contents, StartArtifact(r, c)
      PROVE  OneMetered'
  <2> DEFINE q == [Idle EXCEPT !.op = "artifact", !.batch = <<c>>, !.pc = "ensure"]
  <2>1. q.op = "artifact" /\ q.pc \notin Writing
    BY DEF Idle, Writing
  <2>2. req' = [req EXCEPT ![r] = q] /\ quota' = quota /\ totals' = totals /\ Lock(r)
    BY <1>2 DEF StartArtifact, tables
  <2> HIDE DEF q
  <2> QED BY <2>1, <2>2, LockIsExclusive, StepMetered
<1>3. ASSUME NEW r \in Requests, NEW batch \in Batches, StartCards(r, batch)
      PROVE  OneMetered'
  <2> DEFINE q == [Idle EXCEPT !.op = "cards", !.batch = batch,
                               !.pc = IF quota.bytes > 0 THEN "ensure" ELSE "plan"]
  <2>1. q.op = "cards" /\ q.batch = batch /\ (quota.bytes > 0 => q.pc \notin Writing)
    BY DEF Idle, Writing
  <2>2. req' = [req EXCEPT ![r] = q] /\ quota' = quota /\ totals' = totals /\ Lock(r)
    BY <1>3 DEF StartCards, tables
  <2> HIDE DEF q
  <2>3. Metered(q)
    BY <2>1 DEF Metered
  <2> QED BY <2>1, <2>2, <2>3, LockIsExclusive, StepMetered
<1>4. ASSUME NEW r \in Requests, NEW q,
             req' = [req EXCEPT ![r] = q], q.op = req[r].op, q.batch = req[r].batch,
             UNCHANGED <<quota, metering>>, totals # Nil => totals' # Nil,
             quota.bytes > 0 /\ q.pc \in Writing => totals' # Nil
      PROVE  OneMetered'
  <2>1. Limited /\ Metered(q) => metering' = r
    BY <1>b, <1>4 DEF Metered
  <2>2. q.op = "cards" => q.batch \in Batches
    BY <1>b, <1>4
  <2> QED BY <1>4, <1>c, <2>1, <2>2, StepMetered
<1>d. ASSUME NEW r \in Requests, req' = [req EXCEPT ![r] = Done], quota' = quota,
             Unlock({r}) \/ UNCHANGED metering, totals # Nil => totals' # Nil
      PROVE  OneMetered'
  BY <1>d, <1>c, DoneUnmetered, StepMetered
<1>5. ASSUME NEW r \in Requests, EnsureLedger(r)
      PROVE  OneMetered'
  <2> DEFINE q == [req[r] EXCEPT !.pc = IF totals = Nil THEN "list" ELSE "plan"]
  <2>1. q.op = req[r].op /\ q.batch = req[r].batch /\ (q.pc \in Writing => totals # Nil)
    BY <1>0 DEF TypedCall, Writing
  <2>2. req' = [req EXCEPT ![r] = q] /\ UNCHANGED <<totals, quota, metering>> /\ req[r].pc = "ensure"
    BY <1>5 DEF EnsureLedger, tables, locks
  <2> HIDE DEF q
  <2> QED BY <1>4, <2>1, <2>2
<1>6. ASSUME NEW r \in Requests, ListContents(r)
      PROVE  OneMetered'
  <2> DEFINE q == [req[r] EXCEPT !.pc = "begin", !.left = Referenced(artifacts)]
  <2>1. q.op = req[r].op /\ q.batch = req[r].batch /\ q.pc \notin Writing
    BY <1>0 DEF TypedCall, Writing
  <2>2. req' = [req EXCEPT ![r] = q] /\ UNCHANGED <<totals, quota, metering>>
    BY <1>6 DEF ListContents, tables, locks
  <2> HIDE DEF q
  <2> QED BY <1>4, <2>1, <2>2
<1>7. ASSUME NEW r \in Requests, BeginRebuild(r)
      PROVE  OneMetered'
  <2> DEFINE q == [req[r] EXCEPT !.pc = "stat"]
  <2>1. q.op = req[r].op /\ q.batch = req[r].batch /\ q.pc \notin Writing
    BY <1>0 DEF TypedCall, Writing
  <2>2. req' = [req EXCEPT ![r] = q] /\ UNCHANGED <<totals, quota, metering>>
    BY <1>7 DEF BeginRebuild, tables
  <2> HIDE DEF q
  <2> QED BY <1>4, <2>1, <2>2
<1>8. ASSUME NEW r \in Requests, NEW c \in Contents, StatContent(r, c)
      PROVE  OneMetered'
  <2> DEFINE q == [req[r] EXCEPT !.left = @ \ {c}, !.found = @ \union ({c} \intersect files)]
  <2>1. q.op = req[r].op /\ q.batch = req[r].batch /\ q.pc \notin Writing
    BY <1>0, <1>8 DEF TypedCall, Writing, StatContent
  <2>2. req' = [req EXCEPT ![r] = q] /\ UNCHANGED <<totals, quota, metering>>
    BY <1>8 DEF StatContent, tables, locks
  <2> HIDE DEF q
  <2> QED BY <1>4, <2>1, <2>2
<1>9. ASSUME NEW r \in Requests, CommitRebuild(r)
      PROVE  OneMetered'
  <2> DEFINE p == [req[r] EXCEPT !.pc = "plan", !.found = {}]
  <2>1. p.op = req[r].op /\ p.batch = req[r].batch
    BY <1>0 DEF TypedCall
  <2>2. /\ \/ req' = [req EXCEPT ![r] = Done] /\ Unlock({r})
           \/ req' = [req EXCEPT ![r] = p] /\ UNCHANGED metering
        /\ quota' = quota /\ ledger' = req[r].found /\ totals' = Measure(ledger')
    BY <1>9 DEF CommitRebuild, Finish, Rebuilt
  <2>3. totals' # Nil
    <3>1. ledger' \in SUBSET Contents /\ IsFiniteSet(ledger')
      BY DEF CInv, Sized
    <3>2. Measure(ledger') \in [bytes : Nat, objects : Nat]
      BY <3>1, MeasureTyped
    <3> QED BY <2>2, <3>2, BlobConstants
  <2> HIDE DEF p
  <2> QED BY <1>4, <1>d, <2>1, <2>2, <2>3
<1>10. ASSUME NEW r \in Requests, PlanArtifact(r)
       PROVE  OneMetered'
  <2> DEFINE p == [req[r] EXCEPT !.pc = "planned", !.known = req[r].batch[1] \in ledger]
  <2>1. p.op = req[r].op /\ p.batch = req[r].batch
    BY <1>0 DEF TypedCall
  <2>2. /\ \/ req' = [req EXCEPT ![r] = Done] /\ Unlock({r})
           \/ req' = [req EXCEPT ![r] = p] /\ UNCHANGED metering
        /\ UNCHANGED <<quota, totals>> /\ req[r].pc = "plan"
    BY <1>10 DEF PlanArtifact, Finish, tables
  <2>3. quota.bytes > 0 => totals # Nil
    BY <1>b, <2>2 DEF Writing
  <2> HIDE DEF p
  <2> QED BY <1>4, <1>d, <2>1, <2>2, <2>3
<1>11. ASSUME NEW r \in Requests, PromoteArtifact(r)
       PROVE  OneMetered'
  <2> DEFINE q == [req[r] EXCEPT !.pc = "promoted"]
  <2>1. q.op = req[r].op /\ q.batch = req[r].batch
    BY <1>0 DEF TypedCall
  <2>2. req' = [req EXCEPT ![r] = q] /\ UNCHANGED <<totals, quota, metering>> /\ req[r].pc = "planned"
    BY <1>11 DEF PromoteArtifact, tables
  <2>3. quota.bytes > 0 => totals # Nil
    BY <1>b, <2>2 DEF Writing
  <2> HIDE DEF q
  <2> QED BY <1>4, <2>1, <2>2, <2>3
<1>12. ASSUME NEW r \in Requests, CommitArtifact(r)
       PROVE  OneMetered'
  <2>1. req' = [req EXCEPT ![r] = Done] /\ Unlock({r}) /\ quota' = quota
    BY <1>12 DEF CommitArtifact, Finish
  <2>2. totals # Nil => totals' # Nil
    BY <1>12, ArtifactEntered, EnterCounts
  <2> QED BY <1>d, <2>1, <2>2
<1>13. ASSUME NEW r \in Requests, CommitCards(r)
       PROVE  OneMetered'
  <2> DEFINE q == [req[r] EXCEPT !.pc = "promote", !.left = ItemsOf(req[r])]
  <2>1. q.op = req[r].op /\ q.batch = req[r].batch
    BY <1>0 DEF TypedCall
  <2>2. quota.bytes > 0 => totals # Nil
    BY <1>b, <1>13 DEF Writing, CommitCards
  <2>3. CASE Enter(ItemsOf(req[r])) /\ UNCHANGED <<quota, metering>>
             /\ req' = [req EXCEPT ![r].pc = "promote", ![r].left = ItemsOf(req[r])]
    <3>1. IsFiniteSet(ItemsOf(req[r])) /\ ItemsOf(req[r]) \in SUBSET Contents
      BY BatchContents DEF BInv, CallsShaped, Call
    <3>2. totals # Nil => totals' # Nil
      BY <2>3, <3>1, EnterCounts
    <3>3. req' = [req EXCEPT ![r] = q]
      BY <2>3
    <3> HIDE DEF q
    <3> QED BY <1>4, <2>1, <2>2, <2>3, <3>2, <3>3
  <2>4. CASE UNCHANGED <<totals, quota>> /\ req' = [req EXCEPT ![r] = Done] /\ Unlock({r})
    BY <1>d, <2>4
  <2> QED BY <1>13, <2>3, <2>4 DEF CommitCards, Finish, tables
<1>14. ASSUME NEW r \in Requests, NEW c \in Contents, PromoteCard(r, c) \/ DeleteBlob(r, c)
       PROVE  OneMetered'
  <2> DEFINE q == [req[r] EXCEPT !.left = @ \ {c}]
  <2>1. q.op = req[r].op /\ q.batch = req[r].batch /\ q.pc = req[r].pc
    BY <1>0 DEF TypedCall
  <2>2. /\ \/ req' = [req EXCEPT ![r] = Done] /\ Unlock({r})
           \/ req' = [req EXCEPT ![r] = q] /\ UNCHANGED metering
        /\ UNCHANGED <<totals, quota>>
    BY <1>14 DEF PromoteCard, DeleteBlob, Finish, tables
  <2> HIDE DEF q
  <2>3. quota.bytes > 0 /\ q.pc \in Writing => totals # Nil
    BY <1>b, <2>1
  <2> QED BY <1>4, <1>d, <2>1, <2>2, <2>3
<1>15. ASSUME NEW r \in Requests, NEW gone \in SUBSET artifacts, Purge(r, gone)
       PROVE  OneMetered'
  <2> DEFINE cs == Unreferenced(gone)
             q == [Idle EXCEPT !.op = "purge", !.left = cs,
                               !.pc = IF cs = {} THEN "done" ELSE "delete"]
  <2>1. q.op = "purge" /\ q.pc \notin Writing
    BY DEF Idle, Writing
  <2>2. req' = [req EXCEPT ![r] = q] /\ UNCHANGED <<quota, metering>> /\ Strike(cs)
    BY <1>15 DEF Purge, locks
  <2>3. cs \in SUBSET Contents
    BY DEF Unreferenced, Referenced, BInv, CallsShaped
  <2> HIDE DEF cs, q
  <2>4. totals # Nil => totals' # Nil
    BY <2>2, <2>3, StrikeCounts
  <2>5. ~Metered(q)
    BY <2>1 DEF Metered
  <2> QED BY <1>c, <2>1, <2>2, <2>4, <2>5, StepMetered
<1>16. ASSUME NEW S \in SUBSET Requests, Cut(S)
       PROVE  OneMetered'
  <2>1. /\ req' = [r \in Requests |-> IF r \in S THEN Done ELSE req[r]]
        /\ metering' = IF metering \in S THEN Nil ELSE metering
        /\ UNCHANGED <<totals, quota>>
    BY <1>16 DEF Cut, Unlock, tables
  <2>2. Limited' <=> Limited
    BY <2>1 DEF Limited
  <2> QED BY <1>b, <2>1, <2>2, DoneUnmetered DEF OneMetered
<1>17. InFlight \in SUBSET Requests /\ \A r \in InFlight : {r} \in SUBSET Requests
  BY DEF InFlight
<1>18. ASSUME NEW r \in Requests, FailCall(r)
       PROVE  OneMetered'
  BY <1>16, <1>17, <1>18 DEF FailCall
<1>19. CASE Crash
  BY <1>16, <1>17, <1>19 DEF Crash
<1> QED BY <1>1, <1>2, <1>3, <1>5, <1>6, <1>7, <1>8, <1>9, <1>10, <1>11, <1>12, <1>13, <1>14,
           <1>15, <1>18, <1>19 DEF Next

-----------------------------------------------------------------------------
(* The quota. *)

Checked(q) == q.pc \in {"planned", "promoted"}

(* What call r has checked and not written yet still fits. *)
ArtifactRoom(r) == quota.artifacts > 0 => Cardinality(artifacts) + 1 <= quota.artifacts
BytesRoom(r) == \A c \in ItemsOf(req[r]) : Measure(ledger \union {c}).bytes <= quota.bytes

ArtifactsFit ==
  quota.artifacts > 0 =>
    /\ Cardinality(artifacts) <= quota.artifacts + MaxBatch - 1
    /\ \A r \in Requests : Checked(req[r]) => ArtifactRoom(r)

(* While ledger and store were never in doubt: what there is, what the ledger *)
(* counts, and what a checked call will make of it.                           *)
BytesFit ==
  quota.bytes > 0 /\ ~misled =>
    /\ drift = {} /\ disturbed = {}
    /\ totals = Nil => Measure(files).bytes <= quota.bytes
    /\ totals # Nil => Measure(ledger).bytes <= quota.bytes + (MaxBatch - 1) * Biggest
    /\ \A r \in Requests : Checked(req[r]) => BytesRoom(r)

QInv == OneMetered /\ ArtifactsFit /\ BytesFit

LEMMA QuotaTyped ==
  ASSUME TypeOK
  PROVE  /\ quota.artifacts \in Nat /\ quota.bytes \in Nat
         /\ (MaxBatch - 1) * Biggest \in Nat /\ MaxBatch \in Nat /\ MaxBatch >= 1
<1>1. quota \in [artifacts : Nat, bytes : Nat]
  BY BlobConstants DEF TypeOK
<1>2. MaxBatch - 1 \in Nat /\ Biggest \in Nat /\ MaxBatch \in Nat /\ MaxBatch >= 1
  BY Limits
<1>3. \A a, b \in Nat : a * b \in Nat
  OBVIOUS
<1> QED BY <1>1, <1>2, <1>3

LEMMA InitFits == ASSUME Init, CInv, TypeOK PROVE ArtifactsFit /\ BytesFit
<1>1. /\ quota.artifacts > 0 => Cardinality(artifacts) <= quota.artifacts
      /\ quota.bytes > 0 => Measure(files).bytes <= quota.bytes
      /\ drift = {} /\ disturbed = {}
  BY DEF Init
<1>2. \A r \in Requests : ~Checked(req[r])
  BY DEF Init, Idle, Checked
<1>3. totals # Nil => ledger = files
  BY DEF Init
<1>4. Cardinality(artifacts) \in Nat /\ Measure(files) \in [bytes : Nat, objects : Nat]
  BY FS_CardinalityType, MeasureTyped DEF CInv, Sized
<1>5. ArtifactsFit
  BY <1>1, <1>2, <1>4, QuotaTyped DEF ArtifactsFit
<1>6. BytesFit
  BY <1>1, <1>2, <1>3, <1>4, QuotaTyped DEF BytesFit
<1> QED BY <1>5, <1>6

(* A step that adds nothing to tables and ledger keeps what fits, and a call   *)
(* it lets through has to fit.                                                 *)
LEMMA NothingAdded ==
  ASSUME TypeOK, CInv, QInv, BInv', quota' = quota,
         artifacts' \subseteq artifacts, ledger' \subseteq ledger,
         quota.bytes > 0 => files' \subseteq files \/ totals # Nil,
         totals' = Nil <=> totals = Nil,
         quota.bytes > 0 /\ ~misled' => ~misled /\ drift' = {} /\ disturbed' = {},
         \A w \in Requests : Checked(req'[w]) =>
           \/ Checked(req[w]) /\ req'[w].batch = req[w].batch
           \/ /\ quota.artifacts > 0 => Cardinality(artifacts) + 1 <= quota.artifacts
              /\ quota.bytes > 0 /\ ~misled' => 
                   \A c \in ItemsOf(req'[w]) : Measure(ledger \union {c}).bytes <= quota.bytes
  PROVE  ArtifactsFit' /\ BytesFit'
<1>0. /\ IsFiniteSet(artifacts) /\ IsFiniteSet(ledger) /\ IsFiniteSet(files)
      /\ ledger \in SUBSET Contents /\ files \in SUBSET Contents
      /\ req \in [Requests -> TypedCall]
  BY DEF CInv, Sized, TypeOK, TypedCall
<1>1. Cardinality(artifacts') <= Cardinality(artifacts)
      /\ Cardinality(artifacts') \in Nat /\ Cardinality(artifacts) \in Nat
  BY <1>0, FS_Subset, FS_CardinalityType
<1>2. ArtifactsFit'
  <2> SUFFICES ASSUME quota.artifacts > 0
               PROVE  /\ Cardinality(artifacts') <= quota.artifacts + MaxBatch - 1
                      /\ \A w \in Requests : Checked(req'[w]) => Cardinality(artifacts') + 1 <= quota.artifacts
    BY DEF ArtifactsFit, ArtifactRoom
  <2>1. /\ Cardinality(artifacts) <= quota.artifacts + MaxBatch - 1
        /\ \A w \in Requests : Checked(req[w]) => Cardinality(artifacts) + 1 <= quota.artifacts
    BY DEF QInv, ArtifactsFit, ArtifactRoom
  <2>2. \A w \in Requests : Checked(req'[w]) => Cardinality(artifacts) + 1 <= quota.artifacts
    BY <2>1
  <2> QED BY <1>1, <2>1, <2>2, QuotaTyped
<1>3. BytesFit'
  <2> SUFFICES ASSUME quota.bytes > 0, ~misled'
               PROVE  /\ drift' = {} /\ disturbed' = {}
                      /\ totals' = Nil => Measure(files').bytes <= quota.bytes
                      /\ totals' # Nil => Measure(ledger').bytes <= quota.bytes + (MaxBatch - 1) * Biggest
                      /\ \A w \in Requests : Checked(req'[w]) =>
                           \A c \in ItemsOf(req'[w]) : Measure(ledger' \union {c}).bytes <= quota.bytes
    BY DEF BytesFit, BytesRoom
  <2>1. /\ totals = Nil => Measure(files).bytes <= quota.bytes
        /\ totals # Nil => Measure(ledger).bytes <= quota.bytes + (MaxBatch - 1) * Biggest
        /\ \A w \in Requests : Checked(req[w]) =>
             \A c \in ItemsOf(req[w]) : Measure(ledger \union {c}).bytes <= quota.bytes
    BY DEF QInv, BytesFit, BytesRoom
  <2>2. totals' = Nil => Measure(files').bytes <= quota.bytes
    <3> SUFFICES ASSUME totals = Nil PROVE Measure(files').bytes <= quota.bytes
      OBVIOUS
    <3>1. Measure(files').bytes <= Measure(files).bytes
      BY <1>0, MeasureGrows
    <3>2. IsFiniteSet(files') /\ files' \in SUBSET Contents
      BY <1>0, FS_Subset
    <3>3. Measure(files') \in [bytes : Nat, objects : Nat] /\ Measure(files) \in [bytes : Nat, objects : Nat]
      BY <1>0, <3>2, MeasureTyped
    <3> QED BY <2>1, <3>1, <3>3, QuotaTyped
  <2>3. IsFiniteSet(ledger') /\ ledger' \in SUBSET Contents
    BY <1>0, FS_Subset
  <2>4. totals' # Nil => Measure(ledger').bytes <= quota.bytes + (MaxBatch - 1) * Biggest
    <3>1. Measure(ledger').bytes <= Measure(ledger).bytes
      BY <1>0, MeasureGrows
    <3>2. Measure(ledger') \in [bytes : Nat, objects : Nat] /\ Measure(ledger) \in [bytes : Nat, objects : Nat]
      BY <1>0, <2>3, MeasureTyped
    <3> QED BY <2>1, <3>1, <3>2, QuotaTyped
  <2>5. ASSUME NEW w \in Requests, Checked(req'[w]), NEW c \in ItemsOf(req'[w])
        PROVE  Measure(ledger' \union {c}).bytes <= quota.bytes
    <3>1. Measure(ledger \union {c}).bytes <= quota.bytes
      <4>1. Checked(req[w]) /\ req'[w].batch = req[w].batch => c \in ItemsOf(req[w])
        BY <2>5 DEF ItemsOf
      <4> QED BY <2>1, <2>5, <4>1
    <3>2. c \in Contents
      <4>1. req'[w].batch \in Seq(Contents)
        BY DEF BInv, CallsShaped, Call
      <4> QED BY <2>5, <4>1, BatchContents
    <3>3. /\ IsFiniteSet(ledger \union {c}) /\ ledger \union {c} \in SUBSET Contents
          /\ IsFiniteSet(ledger' \union {c}) /\ ledger' \union {c} \in SUBSET (ledger \union {c})
      BY <1>0, <2>3, <3>2, FS_AddElement
    <3>4. Measure(ledger' \union {c}).bytes <= Measure(ledger \union {c}).bytes
      BY <3>3, MeasureGrows
    <3>5. /\ Measure(ledger' \union {c}) \in [bytes : Nat, objects : Nat]
          /\ Measure(ledger \union {c}) \in [bytes : Nat, objects : Nat]
      BY <3>3, MeasureTyped
    <3> QED BY <3>1, <3>4, <3>5, QuotaTyped
  <2> QED BY <2>2, <2>4, <2>5
<1> QED BY <1>2, <1>3

(* Rebuilds by anybody: without a doubt about the ledger, what a rebuild finds *)
(* was counted before, or nothing was counted and all of it is what there is.  *)
LEMMA RebuildFits ==
  ASSUME TypeOK, BInv, CInv, CInv', QInv, NEW r \in Requests, CommitRebuild(r)
  PROVE  ArtifactsFit' /\ BytesFit'
<1>0. /\ IsFiniteSet(ledger) /\ IsFiniteSet(files)
      /\ ledger \in SUBSET Contents /\ files \in SUBSET Contents
      /\ req \in [Requests -> TypedCall]
  BY DEF CInv, Sized, TypeOK, TypedCall
<1>1. /\ UNCHANGED <<artifacts, files, quota, disturbed>>
      /\ ledger' = req[r].found /\ req[r].pc = "stat" /\ req[r].left = {}
      /\ drift' = met[r] /\ Remember /\ Rebuilding(r)
  BY DEF CommitRebuild, Rebuilt, Rebuilding
<1>2. \A w \in Requests : Checked(req'[w]) => w # r /\ Checked(req[w]) /\ req'[w] = req[w]
  <2> DEFINE p == [req[r] EXCEPT !.pc = "plan", !.found = {}]
  <2>1. p.pc = "plan" /\ Done.pc = "done"
    BY <1>0 DEF TypedCall, Done, Idle
  <2>2. req' = [req EXCEPT ![r] = Done] \/ req' = [req EXCEPT ![r] = p]
    BY DEF CommitRebuild, Finish
  <2> HIDE DEF p
  <2> QED BY <1>0, <2>1, <2>2 DEF Checked
<1>3. ArtifactsFit'
  BY <1>1, <1>2 DEF QInv, ArtifactsFit, ArtifactRoom
<1>4. BytesFit'
  <2> SUFFICES ASSUME quota.bytes > 0, ~misled'
               PROVE  /\ drift' = {} /\ disturbed' = {}
                      /\ totals' = Nil => Measure(files').bytes <= quota.bytes
                      /\ totals' # Nil => Measure(ledger').bytes <= quota.bytes + (MaxBatch - 1) * Biggest
                      /\ \A w \in Requests : Checked(req'[w]) =>
                           \A c \in ItemsOf(req'[w]) : Measure(ledger' \union {c}).bytes <= quota.bytes
    BY <1>1 DEF BytesFit, BytesRoom
  <2>1. ~misled /\ drift' = {} /\ disturbed' = {} /\ met[r] = {}
    BY <1>1 DEF Remember
  <2>2. /\ drift = {} /\ disturbed = {}
        /\ totals = Nil => Measure(files).bytes <= quota.bytes
        /\ totals # Nil => Measure(ledger).bytes <= quota.bytes + (MaxBatch - 1) * Biggest
    BY <2>1 DEF QInv, BytesFit
  <2>3. \A w \in Requests : \A c \in Contents : c \notin Writes(req[w])
    BY <1>1, <2>1 DEF BInv, RebuildsInformed
  <2>4. \A w \in Requests : \A c \in Contents : ~Promoting(req[w], c) /\ ~Awaiting(req[w], c)
    BY <2>3 DEF Promoting, Awaiting, Writes
  <2>5. req[r].found \subseteq Contents /\ req[r].found \subseteq Referenced(artifacts)
    BY <1>0, <1>1, <2>1 DEF BInv, RebuildsInformed, TypedCall
  <2>6. req[r].found \subseteq files
    BY <2>2, <2>4, <2>5 DEF BInv, BlobsAccounted
  <2>7. totals # Nil => req[r].found \subseteq ledger
    BY <2>2, <2>4, <2>5, <2>6 DEF BInv, LedgerAccounted
  <2>8. IsFiniteSet(req[r].found) /\ req[r].found \in SUBSET Contents
    BY <2>5 DEF CInv, Sized
  <2>9. Measure(req[r].found).bytes <= quota.bytes + (MaxBatch - 1) * Biggest
    <3>1. /\ Measure(files) \in [bytes : Nat, objects : Nat]
          /\ Measure(ledger) \in [bytes : Nat, objects : Nat]
          /\ Measure(req[r].found) \in [bytes : Nat, objects : Nat]
      BY <1>0, <2>8, MeasureTyped
    <3>2. CASE totals = Nil
      <4>1. Measure(req[r].found).bytes <= Measure(files).bytes
        BY <1>0, <2>6, MeasureGrows
      <4> QED BY <2>2, <3>1, <3>2, <4>1, QuotaTyped
    <3>3. CASE totals # Nil
      <4>1. Measure(req[r].found).bytes <= Measure(ledger).bytes
        BY <1>0, <2>7, <3>3, MeasureGrows
      <4> QED BY <2>2, <3>1, <3>3, <4>1, QuotaTyped
    <3> QED BY <3>2, <3>3
  <2>10. totals' # Nil
    <3>1. totals' = Measure(req[r].found)
      BY <1>1 DEF CommitRebuild
    <3>2. Measure(req[r].found) \in [bytes : Nat, objects : Nat]
      BY <2>8, MeasureTyped
    <3> QED BY <3>1, <3>2, BlobConstants
  <2>11. \A w \in Requests : Checked(req'[w]) => \A c : c \notin ItemsOf(req'[w])
    <3>1. \A w \in Requests : ItemsOf(req[w]) \subseteq Contents
      BY BatchContents DEF BInv, CallsShaped, Call
    <3>2. \A w \in Requests : Checked(req[w]) => Writes(req[w]) = ItemsOf(req[w])
      BY DEF Checked, Writes
    <3> QED BY <1>2, <2>3, <3>1, <3>2
  <2> QED BY <1>1, <2>1, <2>9, <2>10, <2>11
<1> QED BY <1>3, <1>4

(* The check of an artifact sees all that its commit will add. *)
LEMMA PlanFits ==
  ASSUME TypeOK, BInv, BInv', CInv, QInv, NEW r \in Requests, PlanArtifact(r)
  PROVE  ArtifactsFit' /\ BytesFit'
<1> DEFINE c == req[r].batch[1]
           growth == IF c \in ledger \union files THEN 0 ELSE Size[c]
<1>0. /\ IsFiniteSet(ledger) /\ ledger \in SUBSET Contents /\ req \in [Requests -> TypedCall]
  BY DEF CInv, Sized, TypeOK, TypedCall
<1>1. /\ UNCHANGED <<artifacts, ledger, totals, files, quota, drift>>
      /\ req[r].pc = "plan" /\ req[r].op = "artifact" /\ Remember
  BY DEF PlanArtifact, tables
<1>2. ItemsOf(req[r]) = {c} /\ c \in Contents
  <2>1. ItemsOf(req[r]) = {c}
    BY <1>1 DEF BInv, CallsShaped
  <2>2. ItemsOf(req[r]) \subseteq Contents
    BY BatchContents DEF BInv, CallsShaped, Call
  <2> QED BY <2>1, <2>2
<1>3. ~misled' => ~misled /\ drift' = {} /\ disturbed' = {}
  BY <1>1 DEF Remember
<1>4. CASE ~WithinQuota(growth)
  <2>1. req' = [req EXCEPT ![r] = Done]
    BY <1>4 DEF PlanArtifact, Finish
  <2>2. \A w \in Requests : Checked(req'[w]) => Checked(req[w]) /\ req'[w].batch = req[w].batch
    BY <1>0, <2>1 DEF Checked, Done, Idle
  <2> QED BY <1>1, <1>3, <2>2, NothingAdded
<1>5. CASE WithinQuota(growth)
  <2> DEFINE p == [req[r] EXCEPT !.pc = "planned", !.known = c \in ledger]
  <2>1. req' = [req EXCEPT ![r] = p] /\ disturbed' = disturbed \union ({c} \intersect BeingDeleted)
    BY <1>5 DEF PlanArtifact
  <2>2. p.batch = req[r].batch
    BY <1>0 DEF TypedCall
  <2> HIDE DEF p
  <2>3. req'[r].batch = req[r].batch /\ \A w \in Requests : w # r => req'[w] = req[w]
    BY <1>0, <2>1, <2>2
  <2>4. ItemsOf(req'[r]) = {c}
    BY <1>2, <2>3 DEF ItemsOf
  <2>5. quota.artifacts > 0 => Cardinality(artifacts) + 1 <= quota.artifacts
    BY <1>5 DEF WithinQuota
  <2>6. ASSUME quota.bytes > 0, ~misled'
        PROVE  Measure(ledger \union {c}).bytes <= quota.bytes
    <3>1. totals # Nil /\ totals = Measure(ledger)
      BY <1>1, <2>6 DEF QInv, OneMetered, Writing, CInv, TotalsMatchLedger
    <3>2. Measure(ledger).bytes + growth <= quota.bytes
      BY <1>5, <2>6, <3>1 DEF WithinQuota
    <3> HIDE DEF c
    <3>3. CASE c \in ledger
      <4>1. ledger \union {c} = ledger /\ growth = 0
        BY <3>3
      <4>2. Measure(ledger) \in [bytes : Nat, objects : Nat]
        BY <1>0, MeasureTyped
      <4> QED BY <3>2, <4>1, <4>2
    <3>4. CASE c \notin ledger
      <4>1. drift = {} /\ disturbed = {} /\ c \notin BeingDeleted
        BY <1>1, <1>3, <2>1, <2>6
      <4>2. \A w \in Requests : ~Promoting(req[w], c)
        <5> SUFFICES ASSUME NEW w \in Requests, req[w].pc = "promoted" PROVE FALSE
          BY DEF Promoting
        <5>1. Metered(req[w]) /\ Metered(req[r]) /\ Limited
          BY <1>1, <2>6 DEF BInv, CallsShaped, Metered, Limited
        <5>2. w = r
          BY <5>1, LockIsExclusive DEF QInv
        <5> QED BY <1>1, <5>2
      <4>3. \A w \in Requests : ~Deleting(req[w], c)
        BY <4>1 DEF Deleting, BeingDeleted
      <4>4. c \notin files
        <5>1. c \in files => c \in Referenced(artifacts)
          BY <1>2, <4>1, <4>2, <4>3 DEF BInv, BlobsAccounted
        <5>2. c \notin Referenced(artifacts) \intersect files
          BY <1>2, <3>1, <3>4, <4>1, <4>2 DEF BInv, LedgerAccounted
        <5> QED BY <5>1, <5>2
      <4>5. growth = Size[c]
        BY <3>4, <4>4
      <4>6. Measure(ledger \union {c}).bytes = Measure(ledger).bytes + Size[c]
        <5>1. IsFiniteSet({c}) /\ {c} \ ledger = {c}
          BY <3>4, FS_Singleton
        <5>2. Measure(ledger \union {c}).bytes = Measure(ledger).bytes + Measure({c} \ ledger).bytes
          BY <1>0, <1>2, <5>1, MeasureAdds
        <5> QED BY Zenon, <1>2, <5>1, <5>2, MeasureOfOne
      <4> QED BY Zenon, <3>2, <4>5, <4>6
    <3> QED BY <3>3, <3>4
  <2>7. \A w \in Requests : Checked(req'[w]) =>
           \/ Checked(req[w]) /\ req'[w].batch = req[w].batch
           \/ /\ quota.artifacts > 0 => Cardinality(artifacts) + 1 <= quota.artifacts
              /\ quota.bytes > 0 /\ ~misled' =>
                   \A d \in ItemsOf(req'[w]) : Measure(ledger \union {d}).bytes <= quota.bytes
    <3> HIDE DEF c
    <3> QED BY <2>3, <2>4, <2>5, <2>6
  <2> QED BY <1>1, <1>3, <2>7, NothingAdded
<1> QED BY <1>4, <1>5

(* When a limit is set, a checked call is the only one that is. *)
LEMMA CheckedAlone ==
  ASSUME TypeOK, BInv, QInv, NEW r \in Requests, Metered(req[r]), Limited
  PROVE  \A w \in Requests : Checked(req[w]) => w = r
<1>1. \A w \in Requests : Checked(req[w]) => Metered(req[w])
  BY DEF BInv, CallsShaped, Checked, Metered
<1> QED BY <1>1, LockIsExclusive DEF QInv

(* An artifact was checked alone and is added alone. *)
LEMMA CommitFits ==
  ASSUME TypeOK, BInv, CInv, CInv', QInv, NEW r \in Requests, CommitArtifact(r)
  PROVE  ArtifactsFit' /\ BytesFit'
<1>0. /\ IsFiniteSet(artifacts) /\ IsFiniteSet(ledger) /\ ledger \in SUBSET Contents
      /\ req \in [Requests -> TypedCall]
  BY DEF CInv, Sized, TypeOK, TypedCall
<1>1. /\ UNCHANGED <<files, quota, drift, disturbed, misled>> /\ req[r].pc = "promoted"
      /\ req' = [req EXCEPT ![r] = Done]
      /\ artifacts' = artifacts \union {Artifact(r, 1, req[r].batch[1], FALSE)}
  BY DEF CommitArtifact, Finish, history
<1>2. Metered(req[r]) /\ Checked(req[r])
  BY <1>1 DEF BInv, CallsShaped, Metered, Checked
<1>3. Limited => \A w \in Requests : ~Checked(req'[w])
  <2>1. Limited => \A w \in Requests : Checked(req[w]) => w = r
    BY <1>2, CheckedAlone
  <2>2. ~Checked(Done)
    BY DEF Done, Idle, Checked
  <2> QED BY <1>0, <1>1, <2>1, <2>2
<1>4. ArtifactsFit'
  <2> SUFFICES ASSUME quota.artifacts > 0
               PROVE  /\ Cardinality(artifacts') <= quota.artifacts + MaxBatch - 1
                      /\ \A w \in Requests : ~Checked(req'[w])
    BY <1>1 DEF ArtifactsFit, ArtifactRoom
  <2>1. Cardinality(artifacts) + 1 <= quota.artifacts
    BY <1>2 DEF QInv, ArtifactsFit, ArtifactRoom
  <2>2. Cardinality(artifacts') <= Cardinality(artifacts) + 1 /\ Cardinality(artifacts) \in Nat
        /\ Cardinality(artifacts') \in Nat
    <3>1. /\ IsFiniteSet(artifacts')
          /\ Cardinality(artifacts') = Cardinality(artifacts)
             \/ Cardinality(artifacts') = Cardinality(artifacts) + 1
      BY <1>0, <1>1, FS_AddElement
    <3>2. Cardinality(artifacts') \in Nat /\ Cardinality(artifacts) \in Nat
      BY <1>0, <3>1, FS_CardinalityType
    <3> QED BY <3>1, <3>2
  <2>3. Limited
    BY DEF Limited
  <2> QED BY <1>3, <2>1, <2>2, <2>3, QuotaTyped
<1>5. BytesFit'
  <2> SUFFICES ASSUME quota.bytes > 0, ~misled
               PROVE  /\ drift = {} /\ disturbed = {}
                      /\ totals' # Nil
                      /\ Measure(ledger').bytes <= quota.bytes + (MaxBatch - 1) * Biggest
                      /\ \A w \in Requests : ~Checked(req'[w])
    BY <1>1 DEF BytesFit, BytesRoom
  <2>1. /\ drift = {} /\ disturbed = {} /\ totals # Nil
        /\ Measure(ledger).bytes <= quota.bytes + (MaxBatch - 1) * Biggest
        /\ \A c \in ItemsOf(req[r]) : Measure(ledger \union {c}).bytes <= quota.bytes
    BY <1>1, <1>2 DEF QInv, BytesFit, BytesRoom, OneMetered, Writing
  <2>2. PICK cs \in SUBSET Contents : IsFiniteSet(cs) /\ cs \subseteq ItemsOf(req[r]) /\ Enter(cs)
    BY ArtifactEntered
  <2>3. totals' # Nil
    BY <2>1, <2>2, EnterCounts
  <2>4. ledger' = ledger \/ \E c \in ItemsOf(req[r]) : ledger' = ledger \union {c}
    <3>1. ItemsOf(req[r]) = {req[r].batch[1]}
      BY <1>1 DEF BInv, CallsShaped
    <3> QED BY <2>2, <3>1 DEF Enter
  <2>5. Measure(ledger') \in [bytes : Nat, objects : Nat]
    <3>1. ledger' \in SUBSET Contents /\ IsFiniteSet(ledger')
      BY DEF CInv, Sized
    <3> QED BY <3>1, MeasureTyped
  <2>6. Measure(ledger').bytes <= quota.bytes + (MaxBatch - 1) * Biggest
    <3>1. CASE ledger' = ledger
      BY <2>1, <3>1
    <3>2. CASE \E c \in ItemsOf(req[r]) : ledger' = ledger \union {c}
      <4>1. Measure(ledger').bytes <= quota.bytes
        BY <2>1, <3>2
      <4> QED BY <2>5, <4>1, QuotaTyped
    <3> QED BY <2>4, <3>1, <3>2
  <2>7. Limited
    BY DEF Limited
  <2> QED BY <1>3, <2>1, <2>3, <2>6, <2>7
<1> QED BY <1>4, <1>5

(* Every card of a batch was checked as if it came alone: all but one of them *)
(* can be too many.                                                           *)
LEMMA CardsFit ==
  ASSUME TypeOK, BInv, BInv', CInv, CInv', QInv, NEW r \in Requests, CommitCards(r)
  PROVE  ArtifactsFit' /\ BytesFit'
<1> DEFINE cs == ItemsOf(req[r])
           n == Len(req[r].batch)
<1>0. /\ IsFiniteSet(artifacts) /\ IsFiniteSet(ledger) /\ ledger \in SUBSET Contents
      /\ req \in [Requests -> TypedCall] /\ req[r].batch \in Seq(Contents)
  BY DEF CInv, Sized, TypeOK, TypedCall, BInv, CallsShaped, Call
<1>1. /\ UNCHANGED <<files, quota, drift>> /\ req[r].pc = "plan" /\ req[r].op = "cards" /\ Remember
  BY DEF CommitCards
<1>2. ~misled' => ~misled /\ drift' = {} /\ disturbed' = {}
  BY <1>1 DEF Remember
<1>3. CASE UNCHANGED tables /\ Finish(r)
  <2>1. req' = [req EXCEPT ![r] = Done] /\ UNCHANGED <<artifacts, ledger, totals>>
    BY <1>3 DEF Finish, tables
  <2>2. \A w \in Requests : Checked(req'[w]) => Checked(req[w]) /\ req'[w].batch = req[w].batch
    BY <1>0, <2>1 DEF Checked, Done, Idle
  <2> QED BY <1>1, <1>2, <2>1, <2>2, NothingAdded
<1>4. CASE /\ \A c \in cs : WithinQuota(Size[c])
           /\ artifacts' = artifacts \union CardsOf(r, req[r])
           /\ Enter(cs)
           /\ req' = [req EXCEPT ![r].pc = "promote", ![r].left = cs]
  <2>1. req[r].batch \in Batches /\ n \in Nat /\ n >= 1 /\ n <= MaxBatch
    <3>1. req[r].batch \in Batches
      BY <1>1 DEF QInv, OneMetered
    <3> QED BY <1>0, <3>1, Limits, BlobConstants
  <2>2. IsFiniteSet(cs) /\ Cardinality(cs) <= n /\ cs \in SUBSET Contents
    BY <1>0, BatchContents
  <2>3. PICK c \in cs : TRUE
    <3>1. 1 \in DOMAIN req[r].batch
      BY <1>0, <2>1
    <3> QED BY <3>1 DEF ItemsOf
  <2>4. WithinQuota(Size[c])
    BY <1>4
  <2>5. Limited => \A w \in Requests : ~Checked(req'[w])
    <3>1. Limited => \A w \in Requests : Checked(req[w]) => w = r
      BY <1>1, CheckedAlone DEF Metered
    <3>2. req'[r].pc = "promote" /\ \A w \in Requests : w # r => req'[w] = req[w]
      BY <1>0, <1>4 DEF TypedCall
    <3> QED BY <3>1, <3>2 DEF Checked
  <2> HIDE DEF cs, n
  <2>6. ArtifactsFit'
    <3> SUFFICES ASSUME quota.artifacts > 0
                 PROVE  /\ Cardinality(artifacts') <= quota.artifacts + MaxBatch - 1
                        /\ \A w \in Requests : ~Checked(req'[w])
      BY <1>1 DEF ArtifactsFit, ArtifactRoom
    <3>1. Cardinality(artifacts) + 1 <= quota.artifacts
      BY <2>4 DEF WithinQuota
    <3>2. /\ IsFiniteSet(CardsOf(r, req[r])) /\ Cardinality(CardsOf(r, req[r])) <= n
          /\ Cardinality(CardsOf(r, req[r])) \in Nat
      BY <1>0, BatchCards DEF n
    <3>3. /\ Cardinality(artifacts \union CardsOf(r, req[r])) =
               Cardinality(artifacts) + Cardinality(CardsOf(r, req[r]))
                 - Cardinality(artifacts \intersect CardsOf(r, req[r]))
          /\ IsFiniteSet(artifacts \intersect CardsOf(r, req[r]))
      BY <1>0, <3>2, FS_Union, FS_Intersection
    <3>4. Cardinality(artifacts \intersect CardsOf(r, req[r])) \in Nat /\ Cardinality(artifacts) \in Nat
      BY <1>0, <3>3, FS_CardinalityType
    <3>5. Cardinality(artifacts') <= Cardinality(artifacts) + n
      BY <1>4, <2>1, <3>2, <3>3, <3>4
    <3>6. Cardinality(artifacts') \in Nat
      BY FS_CardinalityType DEF CInv, Sized
    <3>7. Limited
      BY DEF Limited
    <3> QED BY <2>1, <2>5, <3>1, <3>4, <3>5, <3>6, <3>7, QuotaTyped
  <2>7. BytesFit'
    <3> SUFFICES ASSUME quota.bytes > 0, ~misled'
                 PROVE  /\ drift' = {} /\ disturbed' = {}
                        /\ totals' # Nil
                        /\ Measure(ledger').bytes <= quota.bytes + (MaxBatch - 1) * Biggest
                        /\ \A w \in Requests : ~Checked(req'[w])
      BY <1>1 DEF BytesFit, BytesRoom
    <3>1. totals # Nil /\ totals = Measure(ledger)
      BY <1>1 DEF QInv, OneMetered, Writing, CInv, TotalsMatchLedger
    <3>2. Measure(ledger).bytes + Size[c] <= quota.bytes
      BY <2>4, <3>1 DEF WithinQuota
    <3>3. totals' # Nil
      BY <1>4, <2>2, <3>1, EnterCounts
    <3>4. Measure(ledger').bytes = Measure(ledger).bytes + Measure(cs \ ledger).bytes
      <4>1. ledger' = ledger \union cs
        BY <1>4 DEF Enter
      <4> QED BY <1>0, <2>2, <4>1, MeasureAdds
    <3>5. Measure(cs \ ledger).bytes <= Measure(cs).bytes
      BY <2>2, MeasureGrows
    <3>6. Measure(cs).bytes <= Size[c] + (MaxBatch - 1) * Biggest
      <4>1. MaxBatch \in Nat /\ Cardinality(cs) \in Nat /\ Cardinality(cs) <= MaxBatch
        BY <2>1, <2>2, Limits, FS_CardinalityType
      <4> QED BY <2>2, <4>1, BatchWeighs
    <3>7. /\ Measure(ledger).bytes \in Nat /\ Measure(cs).bytes \in Nat
          /\ Measure(cs \ ledger).bytes \in Nat /\ Size[c] \in Nat
      <4>1. IsFiniteSet(cs \ ledger) /\ c \in Contents
        BY <2>2, FS_Difference
      <4>2. /\ Measure(ledger) \in [bytes : Nat, objects : Nat] /\ Measure(cs) \in [bytes : Nat, objects : Nat]
            /\ Measure(cs \ ledger) \in [bytes : Nat, objects : Nat]
        BY <1>0, <2>2, <4>1, MeasureTyped
      <4> QED BY <4>1, <4>2, BlobConstants
    <3>8. Measure(ledger').bytes <= quota.bytes + (MaxBatch - 1) * Biggest
      BY <3>2, <3>4, <3>5, <3>6, <3>7, QuotaTyped
    <3>9. Limited
      BY DEF Limited
    <3> QED BY <1>2, <2>5, <3>3, <3>8, <3>9
  <2> QED BY <2>6, <2>7
<1> QED BY <1>3, <1>4 DEF CommitCards, CardsOf

LEMMA NextFits ==
  ASSUME TypeOK, BInv, BInv', CInv, CInv', QInv, [Next]_vars
  PROVE  ArtifactsFit' /\ BytesFit'
<1>0. req \in [Requests -> TypedCall]
  BY DEF TypeOK, TypedCall
<1>a. ~Checked(Done)
  BY DEF Done, Idle, Checked
<1>b. \A r \in Requests : quota.bytes > 0 /\ req[r].pc \in Writing => totals # Nil
  BY DEF QInv, OneMetered
<1>c. ASSUME NEW r \in Requests, NEW q, req' = [req EXCEPT ![r] = q], quota' = quota,
             UNCHANGED <<artifacts, ledger, totals>>,
             quota.bytes > 0 => files' \subseteq files \/ totals # Nil,
             ~misled' => ~misled /\ UNCHANGED <<drift, disturbed>>,
             Checked(q) => Checked(req[r]) /\ q.batch = req[r].batch
      PROVE  ArtifactsFit' /\ BytesFit'
  <2>1. \A w \in Requests : Checked(req'[w]) => Checked(req[w]) /\ req'[w].batch = req[w].batch
    BY <1>0, <1>c
  <2>2. quota.bytes > 0 /\ ~misled' => ~misled /\ drift' = {} /\ disturbed' = {}
    BY <1>c DEF QInv, BytesFit
  <2> QED BY <1>c, <2>1, <2>2, NothingAdded
<1>d. ASSUME NEW r \in Requests, NEW q, req' = [req EXCEPT ![r] = q], ~Checked(q),
             UNCHANGED <<artifacts, ledger, totals, files, quota, drift, disturbed, misled>>
      PROVE  ArtifactsFit' /\ BytesFit'
  BY <1>c, <1>d
<1>1. CASE UNCHANGED vars
  BY <1>1 DEF QInv, ArtifactsFit, BytesFit, ArtifactRoom, BytesRoom, vars, tables, history
<1>2. ASSUME NEW r \in Requests, NEW c \in Contents, StartArtifact(r, c)
      PROVE  ArtifactsFit' /\ BytesFit'
  <2> DEFINE q == [Idle EXCEPT !.op = "artifact", !.batch = <<c>>, !.pc = "ensure"]
  <2>1. ~Checked(q)
    BY DEF Idle, Checked
  <2>2. /\ req' = [req EXCEPT ![r] = q]
        /\ UNCHANGED <<artifacts, ledger, totals, files, quota, drift, disturbed, misled>>
    BY <1>2 DEF StartArtifact, tables, history
  <2> HIDE DEF q
  <2> QED BY <1>d, <2>1, <2>2
<1>3. ASSUME NEW r \in Requests, NEW batch \in Batches, StartCards(r, batch)
      PROVE  ArtifactsFit' /\ BytesFit'
  <2> DEFINE q == [Idle EXCEPT !.op = "cards", !.batch = batch,
                               !.pc = IF quota.bytes > 0 THEN "ensure" ELSE "plan"]
  <2>1. ~Checked(q)
    BY DEF Idle, Checked
  <2>2. /\ req' = [req EXCEPT ![r] = q]
        /\ UNCHANGED <<artifacts, ledger, totals, files, quota, drift, disturbed, misled>>
    BY <1>3 DEF StartCards, tables, history
  <2> HIDE DEF q
  <2> QED BY <1>d, <2>1, <2>2
<1>4. ASSUME NEW r \in Requests, EnsureLedger(r)
      PROVE  ArtifactsFit' /\ BytesFit'
  <2> DEFINE q == [req[r] EXCEPT !.pc = IF totals = Nil THEN "list" ELSE "plan"]
  <2>1. ~Checked(q)
    BY <1>0 DEF TypedCall, Checked
  <2>2. /\ req' = [req EXCEPT ![r] = q]
        /\ UNCHANGED <<artifacts, ledger, totals, files, quota, drift, disturbed, misled>>
    BY <1>4 DEF EnsureLedger, tables, history
  <2> HIDE DEF q
  <2> QED BY <1>d, <2>1, <2>2
<1>5. ASSUME NEW r \in Requests, ListContents(r)
      PROVE  ArtifactsFit' /\ BytesFit'
  <2> DEFINE q == [req[r] EXCEPT !.pc = "begin", !.left = Referenced(artifacts)]
  <2>1. ~Checked(q)
    BY <1>0 DEF TypedCall, Checked
  <2>2. /\ req' = [req EXCEPT ![r] = q]
        /\ UNCHANGED <<artifacts, ledger, totals, files, quota, drift, disturbed, misled>>
    BY <1>5 DEF ListContents, tables
  <2> HIDE DEF q
  <2> QED BY <1>d, <2>1, <2>2
<1>6. ASSUME NEW r \in Requests, BeginRebuild(r)
      PROVE  ArtifactsFit' /\ BytesFit'
  <2> DEFINE q == [req[r] EXCEPT !.pc = "stat"]
  <2>1. ~Checked(q)
    BY <1>0 DEF TypedCall, Checked
  <2>2. /\ req' = [req EXCEPT ![r] = q]
        /\ UNCHANGED <<artifacts, ledger, totals, files, quota, drift, disturbed, misled>>
    BY <1>6 DEF BeginRebuild, tables, history
  <2> HIDE DEF q
  <2> QED BY <1>d, <2>1, <2>2
<1>7. ASSUME NEW r \in Requests, NEW c \in Contents, StatContent(r, c)
      PROVE  ArtifactsFit' /\ BytesFit'
  <2> DEFINE q == [req[r] EXCEPT !.left = @ \ {c}, !.found = @ \union ({c} \intersect files)]
  <2>1. ~Checked(q)
    BY <1>0, <1>7 DEF TypedCall, Checked, StatContent
  <2>2. /\ req' = [req EXCEPT ![r] = q]
        /\ UNCHANGED <<artifacts, ledger, totals, files, quota, drift, disturbed, misled>>
    BY <1>7 DEF StatContent, tables, history
  <2> HIDE DEF q
  <2> QED BY <1>d, <2>1, <2>2
<1>8. ASSUME NEW r \in Requests,
             CommitRebuild(r) \/ PlanArtifact(r) \/ CommitArtifact(r) \/ CommitCards(r)
      PROVE  ArtifactsFit' /\ BytesFit'
  BY <1>8, RebuildFits, PlanFits, CommitFits, CardsFit
<1>9. ASSUME NEW r \in Requests, PromoteArtifact(r)
      PROVE  ArtifactsFit' /\ BytesFit'
  <2> DEFINE q == [req[r] EXCEPT !.pc = "promoted"]
  <2>1. q.batch = req[r].batch
    BY <1>0 DEF TypedCall
  <2>2. /\ req' = [req EXCEPT ![r] = q] /\ req[r].pc = "planned"
        /\ UNCHANGED <<artifacts, ledger, totals, quota, drift, disturbed, misled>>
    BY <1>9 DEF PromoteArtifact, tables, history
  <2>3. Checked(req[r]) /\ (quota.bytes > 0 => totals # Nil)
    BY <1>b, <2>2 DEF Checked, Writing
  <2>4. ~misled' => ~misled
    BY <2>2
  <2> HIDE DEF q
  <2> QED BY <1>c, <2>1, <2>2, <2>3, <2>4
<1>10. ASSUME NEW r \in Requests, NEW c \in Contents, PromoteCard(r, c) \/ DeleteBlob(r, c)
       PROVE  ArtifactsFit' /\ BytesFit'
  <2> DEFINE q == [req[r] EXCEPT !.left = @ \ {c}]
  <2>1. ~Checked(q)
    BY <1>0, <1>10 DEF TypedCall, Checked, PromoteCard, DeleteBlob
  <2>2. /\ req' = [req EXCEPT ![r] = Done] \/ req' = [req EXCEPT ![r] = q]
        /\ UNCHANGED <<artifacts, ledger, totals, quota, drift, disturbed, misled>>
    BY <1>10 DEF PromoteCard, DeleteBlob, Finish, tables, history
  <2>3. quota.bytes > 0 => files' \subseteq files \/ totals # Nil
    BY <1>b, <1>10 DEF Writing, PromoteCard, DeleteBlob
  <2>4. ~misled' => ~misled
    BY <2>2
  <2> HIDE DEF q
  <2> QED BY <1>a, <1>c, <2>1, <2>2, <2>3, <2>4
<1>11. ASSUME NEW r \in Requests, NEW gone \in SUBSET artifacts, Purge(r, gone)
       PROVE  ArtifactsFit' /\ BytesFit'
  <2> DEFINE cs == Unreferenced(gone)
             q == [Idle EXCEPT !.op = "purge", !.left = cs,
                               !.pc = IF cs = {} THEN "done" ELSE "delete"]
  <2>1. ~Checked(q)
    BY DEF Idle, Checked
  <2>2. /\ req' = [req EXCEPT ![r] = q] /\ UNCHANGED <<files, quota>> /\ Strike(cs) /\ Remember
        /\ artifacts' = artifacts \ gone
    BY <1>11 DEF Purge
  <2>3. cs \in SUBSET Contents
    BY DEF Unreferenced, Referenced, BInv, CallsShaped
  <2> HIDE DEF cs, q
  <2>4. (totals' = Nil <=> totals = Nil) /\ ledger' \subseteq ledger
    BY <2>2, <2>3, StrikeCounts DEF Strike
  <2>5. ~misled' => ~misled /\ drift' = {} /\ disturbed' = {}
    BY <2>2 DEF Remember
  <2>6. \A w \in Requests : Checked(req'[w]) => Checked(req[w]) /\ req'[w].batch = req[w].batch
    BY <1>0, <2>1, <2>2
  <2> QED BY <2>2, <2>4, <2>5, <2>6, NothingAdded
<1>12. ASSUME NEW S \in SUBSET Requests, Cut(S)
       PROVE  ArtifactsFit' /\ BytesFit'
  <2>1. /\ req' = [r \in Requests |-> IF r \in S THEN Done ELSE req[r]] /\ Remember
        /\ UNCHANGED <<artifacts, ledger, totals, files, quota>>
    BY <1>12 DEF Cut, tables
  <2>2. ~misled' => ~misled /\ drift' = {} /\ disturbed' = {}
    BY <2>1 DEF Remember
  <2>3. \A w \in Requests : Checked(req'[w]) => Checked(req[w]) /\ req'[w].batch = req[w].batch
    BY <1>a, <2>1
  <2> QED BY <2>1, <2>2, <2>3, NothingAdded
<1>13. InFlight \in SUBSET Requests /\ \A r \in InFlight : {r} \in SUBSET Requests
  BY DEF InFlight
<1>14. ASSUME NEW r \in Requests, FailCall(r)
       PROVE  ArtifactsFit' /\ BytesFit'
  BY <1>12, <1>13, <1>14 DEF FailCall
<1>15. CASE Crash
  BY <1>12, <1>13, <1>15 DEF Crash
<1> QED BY <1>1, <1>2, <1>3, <1>4, <1>5, <1>6, <1>7, <1>8, <1>9, <1>10, <1>11, <1>14, <1>15 DEF Next

(* What the quota rests on: writers are metered one at a time, and what they   *)
(* checked still fits when they write it.                                      *)
THEOREM QuotaInvariant == Spec => []QInv
<1>1. Init /\ TypeOK /\ CInv => QInv
  BY InitMetered, InitFits DEF QInv
<1>2. QInv /\ TypeOK /\ BInv /\ CInv /\ BInv' /\ CInv' /\ [Next]_vars => QInv'
  BY NextMetered, NextFits DEF QInv
<1> QED BY <1>1, <1>2, TypesHold, BlobInvariant, CountInvariant, PTL DEF Spec

(* Calls that check the quota and write later never exceed it together, but    *)
(* for a batch without one of its cards: artifacts in every state, bytes as    *)
(* long as ledger and store were never in doubt.                               *)
THEOREM QuotaKept == Spec => []QuotaRespected
<1>1. QInv /\ CInv => QuotaRespected
  BY DEF QInv, ArtifactsFit, BytesFit, CInv, TotalsMatchLedger, QuotaRespected
<1> QED BY <1>1, QuotaInvariant, CountInvariant, PTL
================================================================================
