------------------------- MODULE ProjectionMaintenance -------------------------
(***************************************************************************)
(* The derived projections of one thread and everything that refreshes     *)
(* them: the background maintainer, the rebuild request, and the requests  *)
(* that write to the thread and then mark it dirty, refresh it, or both    *)
(* (core/internal/server/projection_maintenance.go, derived_projections.go *)
(* and core/internal/primitives/derived_store.go).                         *)
(*                                                                         *)
(* A row of topic_projection_refresh_status counts generations: every      *)
(* write to the thread asks for one more, a refresh starts on the newest   *)
(* one and reports it as materialized.  The refresh itself runs outside    *)
(* stepMu: it reads the thread, replaces its inbox items and then puts its *)
(* summary, three steps that those of other refreshes interleave with.     *)
(* The content of a projection is the number of writes it reflects.        *)
(*                                                                         *)
(* A failed call (a busy database, a client that has gone away) has no     *)
(* effect and costs one of MaxFaults; a crash ends everything in flight    *)
(* and costs one of MaxCrashes.                                            *)
(*                                                                         *)
(* Left out: the other threads, whose failure only makes a pass end early; *)
(* timestamps and the text of errors.  The reads of a refresh are one step *)
(* (the later ones can only return more).                                  *)
(***************************************************************************)
EXTENDS Naturals, Sequences

CONSTANTS
  Requests,    \* HTTP requests
  Workers,     \* the background maintainer, or none in manual mode
  Kinds,       \* what requests may be
  MaxFaults,   \* bound on failed calls
  MaxCrashes   \* bound on crashes

(* A request appends an event; or appends an ask for a human's attention,  *)
(* or the response to one; or changes a card; or rebuilds.                 *)
AllKinds == {"append", "ask", "respond", "card", "rebuild"}

ASSUME ProjectionConstants ==
  /\ Requests \cap Workers = {}
  /\ Kinds \subseteq AllKinds
  /\ MaxFaults \in Nat /\ MaxCrashes \in Nat

VARIABLES
  written,       \* canonical writes to the thread so far
  inbox, view,   \* how many of them the two derived tables reflect
  desired, materialized,   \* generations in the refresh status row
  inProgress,    \* in_progress_generation (0: NULL)
  queued,        \* the thread has a row in the dirty queue
  pc,            \* next step of a request or worker
  kind,          \* what the request is
  gen,           \* its startedGeneration (0: none)
  seen,          \* how many writes its refresh has read
  marked,        \* history: written when a generation was asked for
  shown,         \* history: the most writes a finished refresh has shown
  began,         \* history: written when a rebuild began
  overlapped,    \* history: two refreshes have run at the same time
  faults, crashes

status == <<desired, materialized, inProgress, queued, marked>>
tables == <<inbox, view, shown>>
vars == <<written, tables, status, pc, kind, gen, seen, began, overlapped,
          faults, crashes>>

Procs == Requests \cup Workers

Refreshing == {"inbox", "view"}
Steps == {"new", "idle", "mark", "list", "start", "clear", "read", "inbox",
          "view", "succeed", "requeue", "markFailed", "done", "failed"}

TypeOK ==
  /\ written \in Nat /\ inbox \in Nat /\ view \in Nat /\ shown \in Nat
  /\ desired \in Nat /\ materialized \in Nat /\ inProgress \in Nat
  /\ faults \in Nat /\ crashes \in Nat
  /\ queued \in BOOLEAN /\ overlapped \in BOOLEAN
  /\ pc \in [Procs -> Steps]
  /\ kind \in [Requests -> AllKinds]
  /\ gen \in [Procs -> Nat] /\ seen \in [Procs -> Nat]
  /\ began \in [Requests -> Nat]
  /\ marked \in Seq(Nat) /\ Len(marked) = desired

Init ==
  /\ written = 0 /\ inbox = 0 /\ view = 0 /\ shown = 0
  /\ desired = 0 /\ materialized = 0 /\ inProgress = 0
  /\ queued = FALSE /\ marked = <<>> /\ overlapped = FALSE
  /\ pc = [p \in Procs |-> IF p \in Workers THEN "idle" ELSE "new"]
  /\ kind \in [Requests -> Kinds]
  /\ gen = [p \in Procs |-> 0] /\ seen = [p \in Procs |-> 0]
  /\ began = [r \in Requests |-> 0]
  /\ faults = 0 /\ crashes = 0

-----------------------------------------------------------------------------
(* The refresh status row and the dirty queue. *)

Dirty == desired > materialized

(* Mutant: only the queue is listed. *)
Listed_QueueOnly == queued

(* ListDerivedTopicProjectionDirtyEntries: the queue, and every row whose  *)
(* newest generation is not materialized.                                  *)
Listed == queued \/ Dirty

MarkDirty ==
  /\ desired' = desired + 1
  /\ marked' = Append(marked, written)
  /\ queued' = TRUE
  /\ UNCHANGED <<materialized, inProgress>>

(* MarkTopicProjectionRefreshStarted *)
StartNewest(p) ==
  /\ inProgress' = IF Dirty THEN desired ELSE 0
  /\ gen' = [gen EXCEPT ![p] = IF Dirty THEN desired ELSE 0]
  /\ UNCHANGED <<desired, materialized, queued, marked>>

Larger(m, n) == IF m >= n THEN m ELSE n

(* Mutant: only an older generation is cleared. *)
Ended_Older(g) == IF inProgress < g THEN 0 ELSE inProgress

(* in_progress_generation, after generation g has come to an end.          *)
Ended(g) == IF inProgress <= g THEN 0 ELSE inProgress

(* Mutant: the newest generation is reported instead of the started one.   *)
Materialize_Newest(g) ==
  /\ materialized' = desired
  /\ inProgress' = Ended(desired)
  /\ UNCHANGED <<desired, queued, marked>>

(* MarkTopicProjectionRefreshSucceeded *)
Materialize(g) ==
  /\ materialized' = Larger(materialized, g)
  /\ inProgress' = Ended(g)
  /\ UNCHANGED <<desired, queued, marked>>

-----------------------------------------------------------------------------
Goto(p, step) == pc' = [pc EXCEPT ![p] = step]

(* stepMu: held from the start of a refresh until its queue row is         *)
(* cleared, and while a failure is recorded.                               *)
StepMu(p) == \A q \in Procs \ {p} : pc[q] \notin {"clear", "markFailed"}

(* Where a request or the worker goes when its refresh is over.            *)
Over(p) ==
  IF p \in Workers THEN "idle" ELSE IF kind[p] = "rebuild" THEN "list" ELSE "done"

(* Where it goes when it ends with an error.                               *)
Stopped(p) == IF p \in Workers THEN "idle" ELSE "failed"

(* Marking is best effort, except for the rebuild.                         *)
AfterMark(r) ==
  CASE kind[r] = "append"  -> "done"
    [] kind[r] = "ask"     -> "start"
    [] kind[r] = "card"    -> "read"
    [] kind[r] = "rebuild" -> "list"

(* The canonical write.  A response is not marked dirty at all, only       *)
(* refreshed inline.                                                       *)
Write(r) ==
  /\ pc[r] = "new"
  /\ kind[r] # "rebuild"
  /\ written' = written + 1
  /\ Goto(r, IF kind[r] = "respond" THEN "read" ELSE "mark")
  /\ UNCHANGED <<tables, status, kind, gen, seen, began, overlapped, faults, crashes>>

(* Mutant: the rebuild processes what is queued and marks nothing, as the  *)
(* runbook describes it.                                                   *)
BeginRebuild_QueuedOnly(r) ==
  /\ pc[r] = "new"
  /\ kind[r] = "rebuild"
  /\ began' = [began EXCEPT ![r] = written]
  /\ Goto(r, "list")
  /\ UNCHANGED <<written, tables, status, kind, gen, seen, overlapped, faults, crashes>>

(* RunFullRebuild begins by listing the threads. *)
BeginRebuild(r) ==
  /\ pc[r] = "new"
  /\ kind[r] = "rebuild"
  /\ began' = [began EXCEPT ![r] = written]
  /\ Goto(r, "mark")
  /\ UNCHANGED <<written, tables, status, kind, gen, seen, overlapped, faults, crashes>>

Mark(r) ==
  /\ pc[r] = "mark"
  /\ MarkDirty
  /\ Goto(r, AfterMark(r))
  /\ UNCHANGED <<written, tables, kind, gen, seen, began, overlapped, faults, crashes>>

(* processDirtyQueue: the thread is in the listing, or a rebuild finds the *)
(* listing empty and is done.                                              *)
List(p) ==
  /\ pc[p] \in {"idle", "list"}
  /\ \/ Listed /\ Goto(p, "start")
     \/ ~ Listed /\ pc[p] = "list" /\ Goto(p, "done")
  /\ UNCHANGED <<written, tables, status, kind, gen, seen, began, overlapped,
                 faults, crashes>>

Start(p) ==
  /\ pc[p] = "start" /\ StepMu(p)
  /\ StartNewest(p)
  /\ Goto(p, "clear")
  /\ UNCHANGED <<written, tables, kind, seen, began, overlapped, faults, crashes>>

(* ClearDerivedTopicProjectionDirty; nothing more to do if no generation   *)
(* was started.                                                            *)
Clear(p) ==
  /\ pc[p] = "clear" /\ StepMu(p)
  /\ queued' = FALSE
  /\ Goto(p, IF gen[p] = 0 THEN Over(p) ELSE "read")
  /\ UNCHANGED <<written, tables, desired, materialized, inProgress, marked, kind,
                 gen, seen, began, overlapped, faults, crashes>>

(* refreshDerivedTopicProjection: read the thread ...                      *)
Read(p) ==
  /\ pc[p] = "read"
  /\ seen' = [seen EXCEPT ![p] = written]
  /\ overlapped' = (overlapped \/ \E q \in Procs \ {p} : pc[q] \in Refreshing)
  /\ Goto(p, "inbox")
  /\ UNCHANGED <<written, tables, status, kind, gen, began, faults, crashes>>

(* ... ReplaceDerivedInboxItems ...                                        *)
WriteInbox(p) ==
  /\ pc[p] = "inbox"
  /\ inbox' = seen[p]
  /\ Goto(p, "view")
  /\ UNCHANGED <<written, view, shown, status, kind, gen, seen, began, overlapped,
                 faults, crashes>>

(* ... PutDerivedTopicProjection.  Without a started generation nothing is *)
(* reported.                                                               *)
WriteView(p) ==
  /\ pc[p] = "view"
  /\ view' = seen[p]
  /\ shown' = Larger(shown, seen[p])
  /\ seen' = [seen EXCEPT ![p] = 0]
  /\ Goto(p, IF gen[p] = 0 THEN Over(p) ELSE "succeed")
  /\ UNCHANGED <<written, inbox, status, kind, gen, began, overlapped,
                 faults, crashes>>

Succeed(p) ==
  /\ pc[p] = "succeed" /\ StepMu(p)
  /\ Materialize(gen[p])
  /\ gen' = [gen EXCEPT ![p] = 0]
  /\ Goto(p, Over(p))
  /\ UNCHANGED <<written, tables, kind, seen, began, overlapped, faults, crashes>>

(* RequeueTopicProjectionRefresh and MarkTopicProjectionRefreshFailed.     *)
Requeue(p) ==
  /\ pc[p] = "requeue" /\ StepMu(p)
  /\ queued' = TRUE
  /\ Goto(p, "markFailed")
  /\ UNCHANGED <<written, tables, desired, materialized, inProgress, marked, kind,
                 gen, seen, began, overlapped, faults, crashes>>

MarkFailed(p) ==
  /\ pc[p] = "markFailed" /\ StepMu(p)
  /\ inProgress' = Ended(gen[p])
  /\ gen' = [gen EXCEPT ![p] = 0]
  /\ Goto(p, Stopped(p))
  /\ UNCHANGED <<written, tables, desired, materialized, queued, marked, kind, seen,
                 began, overlapped, faults, crashes>>

Calling(p) == pc[p] \notin {"new", "idle", "done", "failed"}

(* Mutant: an error in the refresh is treated like one in marking: it is   *)
(* ignored.                                                                *)
OnError_Ignored(p) ==
  CASE pc[p] = "mark" /\ kind[p] # "rebuild"               -> AfterMark(p)
    [] pc[p] \in {"read", "inbox", "view"} /\ gen[p] # 0   -> "succeed"
    [] OTHER                                               -> Stopped(p)

(* Where a failed call leads. *)
OnError(p) ==
  CASE pc[p] = "mark" /\ kind[p] # "rebuild"               -> AfterMark(p)
    [] pc[p] \in {"read", "inbox", "view"} /\ gen[p] # 0   -> "requeue"
    [] OTHER                                               -> Stopped(p)

CallFails(p) ==
  /\ Calling(p)
  /\ pc[p] \in {"start", "clear", "succeed", "requeue", "markFailed"} => StepMu(p)
  /\ faults < MaxFaults /\ faults' = faults + 1
  /\ Goto(p, OnError(p))
  /\ gen' = [gen EXCEPT ![p] = IF OnError(p) = Stopped(p) THEN 0 ELSE @]
  /\ seen' = [seen EXCEPT ![p] = 0]
  /\ UNCHANGED <<written, tables, status, kind, began, overlapped, crashes>>

(* The process dies; the database stays. *)
Crash ==
  /\ crashes < MaxCrashes /\ crashes' = crashes + 1
  /\ pc' = [p \in Procs |-> IF Calling(p) THEN Stopped(p) ELSE pc[p]]
  /\ gen' = [p \in Procs |-> 0] /\ seen' = gen'
  /\ UNCHANGED <<written, tables, status, kind, began, overlapped, faults>>

-----------------------------------------------------------------------------
Go(p) ==
  \/ Mark(p)
  \/ List(p)
  \/ Start(p)
  \/ Clear(p)
  \/ Read(p)
  \/ WriteInbox(p)
  \/ WriteView(p)
  \/ Succeed(p)
  \/ Requeue(p)
  \/ MarkFailed(p)

Next ==
  \/ \E r \in Requests : Write(r) \/ BeginRebuild(r)
  \/ \E p \in Procs : Go(p) \/ CallFails(p)
  \/ Crash

Spec == Init /\ [][Next]_vars

(* The worker polls for ever, and requests that have begun go on; nobody   *)
(* has to send one.                                                        *)
FairSpec == Spec /\ \A p \in Procs : WF_vars(Go(p))

-----------------------------------------------------------------------------
(* Safety. *)

(* A generation is reported as materialized only if some refresh has shown *)
(* every write that had been made when the generation was asked for.       *)
MaterializedWasShown == materialized > 0 => shown >= marked[materialized]

Ledger == INSTANCE RefreshLedger WITH asked <- marked, served <- materialized

(* However refreshes, marks, failures and crashes interleave, the status   *)
(* row is a ledger of promises kept: a generation is reported only after   *)
(* the writes made before it was asked for were shown, and no late or      *)
(* repeated report takes it back.                                          *)
ImplementsLedger == Ledger!LedgerSpec

(* As long as no two refreshes have overlapped, both tables still show it: *)
(* overlapping refreshes are the only way in which a thread that is not    *)
(* dirty can have a projection older than its last mark.                   *)
FreshWithoutOverlap ==
  ~ overlapped /\ materialized > 0 =>
    inbox >= marked[materialized] /\ view >= marked[materialized]

(* The status row never says that a refresh is in flight for a thread that *)
(* has nothing left to refresh: nobody would ever clear it.                *)
InFlightIsDirty == inProgress # 0 => Dirty

(* A rebuild that answers 200 has repaired what was missed before: every   *)
(* write made before it began, marked or not, has been shown.              *)
RebuildRepairs ==
  \A r \in Requests : kind[r] = "rebuild" /\ pc[r] = "done" => shown >= began[r]

-----------------------------------------------------------------------------
(* Liveness. *)

(* Whatever fails or crashes, a thread that was marked dirty is refreshed  *)
(* for that mark in the end.  (Marks are finitely many, one per request.)  *)
DirtyIsRefreshed == Dirty ~> ~ Dirty

-----------------------------------------------------------------------------
(* runbooks/projection-maintenance.md: "Eventual consistency: projections  *)
(* may lag briefly behind canonical state".  So both tables catch up with  *)
(* the writes, for good.                                                   *)
ProjectionCatchesUp == <>[](inbox = written /\ view = written)

=============================================================================
