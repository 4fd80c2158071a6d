--------------------- MODULE ProjectionMaintenance_proofs ---------------------
(***************************************************************************)
(* Proofs about ProjectionMaintenance, for any number of requests of every *)
(* kind, any number of workers, faults and crashes.                        *)
(***************************************************************************)
EXTENDS ProjectionMaintenance, TLAPS

-----------------------------------------------------------------------------
(* The inductive invariant. *)

(* A generation that has been started is not newer than the newest one,    *)
(* and one in progress is newer than what is materialized.                 *)
Generations ==
  /\ materialized <= desired
  /\ inProgress <= desired
  /\ inProgress # 0 => inProgress > materialized
  /\ \A p \in Procs : gen[p] <= desired
  /\ \A p \in Procs : pc[p] = "succeed" => gen[p] # 0
  /\ \A g \in 1 .. desired : marked[g] <= written

(* A refresh has read at least the writes that its generation asks for.    *)
ReadEnough ==
  \A p \in Procs :
    /\ pc[p] \in Refreshing => seen[p] <= written
    /\ pc[p] \in Refreshing /\ gen[p] # 0 => marked[gen[p]] <= seen[p]

(* What succeeds, or has succeeded, was shown. *)
Reported ==
  /\ MaterializedWasShown
  /\ \A p \in Procs : pc[p] = "succeed" => marked[gen[p]] <= shown

(* Without overlap there is one refresh at a time, its snapshot is not     *)
(* older than the tables, and what succeeds is in both of them.            *)
OneAtATime ==
  /\ inbox <= written /\ view <= written
  /\ ~ overlapped =>
       /\ \A p, q \in Procs : pc[p] \in Refreshing /\ pc[q] \in Refreshing => p = q
       /\ \A p \in Procs :
            /\ pc[p] \in Refreshing => inbox <= seen[p] /\ view <= seen[p]
            /\ pc[p] = "view" => inbox = seen[p]
            /\ pc[p] = "succeed" => marked[gen[p]] <= inbox /\ marked[gen[p]] <= view
       /\ materialized > 0 =>
            marked[materialized] <= inbox /\ marked[materialized] <= view

(* Behind its mark, a rebuild relies on the newest generation.             *)
Rebuilding ==
  \A r \in Requests :
    /\ began[r] <= written
    /\ kind[r] = "rebuild" /\ pc[r] \notin {"new", "mark", "done", "failed"} =>
         desired > 0 /\ began[r] <= marked[desired]
    /\ kind[r] = "rebuild" /\ pc[r] = "done" => began[r] <= shown

(* The worker marks nothing and rebuilds nothing; a response is not marked. *)
Roles ==
  /\ \A w \in Workers : pc[w] \notin {"new", "mark", "list", "done", "failed"}
  /\ \A r \in Requests : pc[r] = "mark" => kind[r] # "respond"

PInv ==
  /\ TypeOK /\ Roles /\ Generations /\ ReadEnough
  /\ Reported /\ OneAtATime /\ Rebuilding

-----------------------------------------------------------------------------
(* The history of marks has one entry per generation; Append adds one.     *)
LEMMA Marks ==
  ASSUME TypeOK
  PROVE  /\ \A g \in 1 .. desired : marked[g] \in Nat
         /\ Append(marked, written) \in Seq(Nat)
         /\ Len(Append(marked, written)) = desired + 1
         /\ Append(marked, written)[desired + 1] = written
         /\ \A g \in 1 .. desired : Append(marked, written)[g] = marked[g]
<1>1. marked \in Seq(Nat) /\ Len(marked) = desired /\ written \in Nat /\ desired \in Nat
  BY DEF TypeOK
<1> QED
  BY <1>1

(* Who is who. *)
LEMMA Roster ==
  /\ Requests \subseteq Procs
  /\ \A p \in Procs : p \in Workers \/ p \in Requests
  /\ \A r \in Requests : r \notin Workers
BY ProjectionConstants DEF Procs

-----------------------------------------------------------------------------
(* A canonical write: what was read or marked before stays below it. *)
LEMMA WriteStep ==
  ASSUME PInv, NEW r \in Requests, Write(r)
  PROVE  PInv'
<1> USE DEF PInv
<1>1. TypeOK'
  BY Roster, Marks DEF Write, Goto, TypeOK, Steps, status, tables
<1>2. Roles'
  BY Roster DEF Write, Goto, TypeOK, Roles, status, tables
<1>3. Generations'
  BY SMTT(30), Roster, Marks DEF Write, Goto, TypeOK, Generations, status, tables
<1>4. ReadEnough'
  BY Roster, Marks DEF Write, Goto, TypeOK, ReadEnough, Generations, Refreshing, status, tables
<1>5. Reported'
  BY Roster, Marks DEF Write, Goto, TypeOK, Reported, MaterializedWasShown, Generations, ReadEnough, Refreshing, status, tables
<1>6. OneAtATime'
  BY Roster, Marks DEF Write, Goto, TypeOK, OneAtATime, Generations, ReadEnough, Refreshing, status, tables
<1>7. Rebuilding'
  BY Roster, Marks DEF Write, Goto, TypeOK, Rebuilding, Generations, Reported, MaterializedWasShown, Roles, status, tables
<1> QED
  BY <1>1, <1>2, <1>3, <1>4, <1>5, <1>6, <1>7

(* A rebuild begins. *)
LEMMA BeginRebuildStep ==
  ASSUME PInv, NEW r \in Requests, BeginRebuild(r)
  PROVE  PInv'
<1> USE DEF PInv
<1>1. TypeOK'
  BY Roster, Marks DEF BeginRebuild, Goto, TypeOK, Steps, status, tables
<1>2. Roles'
  BY Roster DEF BeginRebuild, Goto, TypeOK, Roles, status, tables
<1>3. Generations'
  BY Roster, Marks DEF BeginRebuild, Goto, TypeOK, Generations, status, tables
<1>4. ReadEnough'
  BY Roster, Marks DEF BeginRebuild, Goto, TypeOK, ReadEnough, Generations, Refreshing, status, tables
<1>5. Reported'
  BY Roster, Marks DEF BeginRebuild, Goto, TypeOK, Reported, MaterializedWasShown, Generations, ReadEnough, Refreshing, status, tables
<1>6. OneAtATime'
  BY Roster, Marks DEF BeginRebuild, Goto, TypeOK, OneAtATime, Generations, ReadEnough, Refreshing, status, tables
<1>7. Rebuilding'
  BY Roster, Marks DEF BeginRebuild, Goto, TypeOK, Rebuilding, Generations, Reported, MaterializedWasShown, Roles, status, tables
<1> QED
  BY <1>1, <1>2, <1>3, <1>4, <1>5, <1>6, <1>7

(* A mark asks for the writes made so far. *)
LEMMA MarkStep ==
  ASSUME PInv, NEW p \in Procs, Mark(p)
  PROVE  PInv'
<1> USE DEF PInv
<1>a. p \in Requests /\ pc[p] = "mark" /\ kind[p] \in AllKinds \ {"respond"}
  BY Roster DEF Mark, Roles, TypeOK
<1>b. /\ AfterMark(p) \in {"done", "start", "read", "list"}
      /\ kind[p] = "rebuild" => AfterMark(p) = "list"
  BY <1>a DEF AfterMark, AllKinds
<1>c. pc' = [pc EXCEPT ![p] = AfterMark(p)]
  BY DEF Mark, Goto
<1>d. /\ desired' = desired + 1
      /\ marked' \in Seq(Nat) /\ Len(marked') = desired'
      /\ marked'[desired'] = written
      /\ \A g \in 1 .. desired : marked'[g] = marked[g]
  BY Marks DEF Mark, MarkDirty
<1>e. UNCHANGED <<written, inbox, view, shown, materialized, inProgress, kind, gen,
                  seen, began, overlapped, faults, crashes>>
  BY DEF Mark, MarkDirty, tables
<1>1. TypeOK'
  BY <1>b, <1>c, <1>d, <1>e DEF TypeOK, Steps, Mark, MarkDirty
<1>2. Roles'
  BY <1>a, <1>b, <1>c, <1>e, Roster DEF TypeOK, Roles
<1>3. Generations'
  BY <1>b, <1>c, <1>d, <1>e DEF TypeOK, Generations
<1>4. ReadEnough'
  BY <1>b, <1>c, <1>d, <1>e DEF TypeOK, ReadEnough, Generations, Refreshing
<1>5. Reported'
  BY <1>b, <1>c, <1>d, <1>e DEF TypeOK, Reported, MaterializedWasShown, Generations
<1>6. OneAtATime'
  BY SMTT(20), <1>b, <1>c, <1>d, <1>e DEF TypeOK, OneAtATime, Generations, Refreshing
<1>7. Rebuilding'
  BY <1>b, <1>c, <1>d, <1>e, Roster DEF TypeOK, Rebuilding
<1> QED
  BY <1>1, <1>2, <1>3, <1>4, <1>5, <1>6, <1>7

(* An empty listing means that the newest generation is materialized. *)
LEMMA ListStep ==
  ASSUME PInv, NEW p \in Procs, List(p)
  PROVE  PInv'
<1> USE DEF PInv
<1>1. TypeOK'
  BY Roster, Marks DEF List, Listed, Dirty, Goto, TypeOK, Steps, status, tables
<1>2. Roles'
  <2>1. \/ pc' = [pc EXCEPT ![p] = "start"]
        \/ pc' = [pc EXCEPT ![p] = "done"] /\ pc[p] = "list"
    BY DEF List, Goto
  <2>2. pc \in [Procs -> Steps] /\ kind' = kind
    BY DEF List, TypeOK
  <2> QED
    BY <2>1, <2>2, Roster DEF Roles, Procs
<1>3. Generations'
  BY Roster, Marks DEF List, Listed, Dirty, Goto, TypeOK, Generations, status, tables
<1>4. ReadEnough'
  BY Roster, Marks DEF List, Listed, Dirty, Goto, TypeOK, ReadEnough, Generations, Refreshing, status, tables
<1>5. Reported'
  BY Roster, Marks DEF List, Listed, Dirty, Goto, TypeOK, Reported, MaterializedWasShown, Generations, ReadEnough, Refreshing, status, tables
<1>6. OneAtATime'
  BY ZenonT(60), Roster, Marks DEF List, Listed, Dirty, Goto, TypeOK, OneAtATime, Generations, ReadEnough, Refreshing, status, tables
<1>7. Rebuilding'
  BY Roster, Marks DEF List, Listed, Dirty, Goto, TypeOK, Rebuilding, Generations, Reported, MaterializedWasShown, Roles, status, tables
<1> QED
  BY <1>1, <1>2, <1>3, <1>4, <1>5, <1>6, <1>7

(* A refresh starts on the newest generation. *)
LEMMA StartStep ==
  ASSUME PInv, NEW p \in Procs, Start(p)
  PROVE  PInv'
<1> USE DEF PInv
<1>1. TypeOK'
  BY Roster, Marks DEF Start, StartNewest, Dirty, Goto, TypeOK, Steps, status, tables
<1>2. Roles'
  BY Roster DEF Start, StartNewest, Dirty, Goto, TypeOK, Roles, status, tables
<1>3. Generations'
  BY Roster, Marks DEF Start, StartNewest, Dirty, Goto, TypeOK, Generations, status, tables
<1>4. ReadEnough'
  BY Roster, Marks DEF Start, StartNewest, Dirty, Goto, TypeOK, ReadEnough, Generations, Refreshing, status, tables
<1>5. Reported'
  BY Roster, Marks DEF Start, StartNewest, Dirty, Goto, TypeOK, Reported, MaterializedWasShown, Generations, ReadEnough, Refreshing, status, tables
<1>6. OneAtATime'
  BY Roster, Marks DEF Start, StartNewest, Dirty, Goto, TypeOK, OneAtATime, Generations, ReadEnough, Refreshing, status, tables
<1>7. Rebuilding'
  BY Roster, Marks DEF Start, StartNewest, Dirty, Goto, TypeOK, Rebuilding, Generations, Reported, MaterializedWasShown, Roles, status, tables
<1> QED
  BY <1>1, <1>2, <1>3, <1>4, <1>5, <1>6, <1>7

(* The queue row goes. *)
LEMMA ClearStep ==
  ASSUME PInv, NEW p \in Procs, Clear(p)
  PROVE  PInv'
<1> USE DEF PInv
<1>1. TypeOK'
  BY Roster, Marks DEF Clear, Over, Goto, TypeOK, Steps, status, tables
<1>2. Roles'
  BY Roster DEF Clear, Over, Goto, TypeOK, Roles, status, tables
<1>3. Generations'
  BY Roster, Marks DEF Clear, Over, Goto, TypeOK, Generations, status, tables
<1>4. ReadEnough'
  BY Roster, Marks DEF Clear, Over, Goto, TypeOK, ReadEnough, Generations, Refreshing, status, tables
<1>5. Reported'
  BY Roster, Marks DEF Clear, Over, Goto, TypeOK, Reported, MaterializedWasShown, Generations, ReadEnough, Refreshing, status, tables
<1>6. OneAtATime'
  BY Roster, Marks DEF Clear, Over, Goto, TypeOK, OneAtATime, Generations, ReadEnough, Refreshing, status, tables
<1>7. Rebuilding'
  BY Roster, Marks DEF Clear, Over, Goto, TypeOK, Rebuilding, Generations, Reported, MaterializedWasShown, Roles, status, tables
<1> QED
  BY <1>1, <1>2, <1>3, <1>4, <1>5, <1>6, <1>7

(* The snapshot has every write made so far. *)
LEMMA ReadStep ==
  ASSUME PInv, NEW p \in Procs, Read(p)
  PROVE  PInv'
<1> USE DEF PInv
<1>1. TypeOK'
  BY Roster, Marks DEF Read, Refreshing, Goto, TypeOK, Steps, status, tables
<1>2. Roles'
  BY Roster DEF Read, Refreshing, Goto, TypeOK, Roles, status, tables
<1>3. Generations'
  BY Roster, Marks DEF Read, Refreshing, Goto, TypeOK, Generations, status, tables
<1>4. ReadEnough'
  BY Roster, Marks DEF Read, Refreshing, Goto, TypeOK, ReadEnough, Generations, Refreshing, status, tables
<1>5. Reported'
  BY Roster, Marks DEF Read, Refreshing, Goto, TypeOK, Reported, MaterializedWasShown, Generations, ReadEnough, Refreshing, status, tables
<1>6. OneAtATime'
  BY Roster, Marks DEF Read, Refreshing, Goto, TypeOK, OneAtATime, Generations, ReadEnough, Refreshing, status, tables
<1>7. Rebuilding'
  BY Roster, Marks DEF Read, Refreshing, Goto, TypeOK, Rebuilding, Generations, Reported, MaterializedWasShown, Roles, status, tables
<1> QED
  BY <1>1, <1>2, <1>3, <1>4, <1>5, <1>6, <1>7

(* The inbox items are replaced by the snapshot. *)
LEMMA WriteInboxStep ==
  ASSUME PInv, NEW p \in Procs, WriteInbox(p)
  PROVE  PInv'
<1> USE DEF PInv
<1>1. TypeOK'
  BY Roster, Marks DEF WriteInbox, Refreshing, Goto, TypeOK, Steps, status, tables
<1>2. Roles'
  BY Roster DEF WriteInbox, Refreshing, Goto, TypeOK, Roles, status, tables
<1>3. Generations'
  BY Roster, Marks DEF WriteInbox, Refreshing, Goto, TypeOK, Generations, status, tables
<1>4. ReadEnough'
  BY Roster, Marks DEF WriteInbox, Refreshing, Goto, TypeOK, ReadEnough, Generations, Refreshing, status, tables
<1>5. Reported'
  BY Roster, Marks DEF WriteInbox, Refreshing, Goto, TypeOK, Reported, MaterializedWasShown, Generations, ReadEnough, Refreshing, status, tables
<1>6. OneAtATime'
  BY SMTT(20), Roster, Marks DEF WriteInbox, Refreshing, Goto, TypeOK, OneAtATime, Generations, ReadEnough, Refreshing, status, tables
<1>7. Rebuilding'
  BY Roster, Marks DEF WriteInbox, Refreshing, Goto, TypeOK, Rebuilding, Generations, Reported, MaterializedWasShown, Roles, status, tables
<1> QED
  BY <1>1, <1>2, <1>3, <1>4, <1>5, <1>6, <1>7

(* The summary follows: the refresh has been shown. *)
LEMMA WriteViewStep ==
  ASSUME PInv, NEW p \in Procs, WriteView(p)
  PROVE  PInv'
<1> USE DEF PInv
<1>1. TypeOK'
  BY Roster, Marks DEF WriteView, Refreshing, Larger, Over, Goto, TypeOK, Steps, status, tables
<1>2. Roles'
  BY Roster DEF WriteView, Refreshing, Larger, Over, Goto, TypeOK, Roles, status, tables
<1>3. Generations'
  BY Roster, Marks DEF WriteView, Refreshing, Larger, Over, Goto, TypeOK, Generations, status, tables
<1>4. ReadEnough'
  BY Roster, Marks DEF WriteView, Refreshing, Larger, Over, Goto, TypeOK, ReadEnough, Generations, Refreshing, status, tables
<1>5. Reported'
  <2>1. shown' \in Nat /\ shown <= shown' /\ seen[p] <= shown'
    BY DEF WriteView, Larger, TypeOK
  <2>2. UNCHANGED <<materialized, desired, marked, gen>>
    BY DEF WriteView, status
  <2>3. \A g \in 1 .. desired : marked[g] \in Nat
    BY Marks
  <2>4. MaterializedWasShown'
    BY <2>1, <2>2, <2>3 DEF MaterializedWasShown, Reported, Generations, TypeOK
  <2>5. ASSUME NEW q \in Procs, pc'[q] = "succeed"
        PROVE  marked[gen[q]] <= shown'
    <3>1. gen[q] \in 1 .. desired
      BY <2>5 DEF WriteView, Goto, Over, Generations, TypeOK
    <3>2. CASE q = p
      BY <3>1, <3>2, <2>1, <2>3 DEF WriteView, ReadEnough, Refreshing, TypeOK
    <3>3. CASE q # p
      BY <3>1, <3>3, <2>1, <2>3, <2>5 DEF WriteView, Goto, Reported, TypeOK
    <3> QED
      BY <3>2, <3>3
  <2> QED
    BY <2>2, <2>4, <2>5 DEF Reported
<1>6. OneAtATime'
  BY SMTT(30), Roster, Marks DEF WriteView, Refreshing, Larger, Over, Goto, TypeOK, OneAtATime, Generations, ReadEnough, Refreshing, status, tables
<1>7. Rebuilding'
  BY SMTT(20), Roster, Marks DEF WriteView, Refreshing, Larger, Over, Goto, TypeOK, Rebuilding, Generations, Reported, MaterializedWasShown, Roles, status, tables
<1> QED
  BY <1>1, <1>2, <1>3, <1>4, <1>5, <1>6, <1>7

(* The started generation is reported. *)
LEMMA SucceedStep ==
  ASSUME PInv, NEW p \in Procs, Succeed(p)
  PROVE  PInv'
<1> USE DEF PInv
<1>1. TypeOK'
  BY Roster, Marks DEF Succeed, Materialize, Larger, Ended, Over, Goto, TypeOK, Steps, status, tables
<1>2. Roles'
  BY Roster DEF Succeed, Materialize, Larger, Ended, Over, Goto, TypeOK, Roles, status, tables
<1>3. Generations'
  BY Roster, Marks DEF Succeed, Materialize, Larger, Ended, Over, Goto, TypeOK, Generations, status, tables
<1>4. ReadEnough'
  BY Roster, Marks DEF Succeed, Materialize, Larger, Ended, Over, Goto, TypeOK, ReadEnough, Generations, Refreshing, status, tables
<1>5. Reported'
  BY Roster, Marks DEF Succeed, Materialize, Larger, Ended, Over, Goto, TypeOK, Reported, MaterializedWasShown, Generations, ReadEnough, Refreshing, status, tables
<1>6. OneAtATime'
  BY Roster, Marks DEF Succeed, Materialize, Larger, Ended, Over, Goto, TypeOK, OneAtATime, Generations, ReadEnough, Refreshing, status, tables
<1>7. Rebuilding'
  BY Roster, Marks DEF Succeed, Materialize, Larger, Ended, Over, Goto, TypeOK, Rebuilding, Generations, Reported, MaterializedWasShown, Roles, status, tables
<1> QED
  BY <1>1, <1>2, <1>3, <1>4, <1>5, <1>6, <1>7

(* The queue row comes back. *)
LEMMA RequeueStep ==
  ASSUME PInv, NEW p \in Procs, Requeue(p)
  PROVE  PInv'
<1> USE DEF PInv
<1>1. TypeOK'
  BY Roster, Marks DEF Requeue, Goto, TypeOK, Steps, status, tables
<1>2. Roles'
  BY Roster DEF Requeue, Goto, TypeOK, Roles, status, tables
<1>3. Generations'
  BY Roster, Marks DEF Requeue, Goto, TypeOK, Generations, status, tables
<1>4. ReadEnough'
  BY Roster, Marks DEF Requeue, Goto, TypeOK, ReadEnough, Generations, Refreshing, status, tables
<1>5. Reported'
  BY Roster, Marks DEF Requeue, Goto, TypeOK, Reported, MaterializedWasShown, Generations, ReadEnough, Refreshing, status, tables
<1>6. OneAtATime'
  BY Roster, Marks DEF Requeue, Goto, TypeOK, OneAtATime, Generations, ReadEnough, Refreshing, status, tables
<1>7. Rebuilding'
  BY Roster, Marks DEF Requeue, Goto, TypeOK, Rebuilding, Generations, Reported, MaterializedWasShown, Roles, status, tables
<1> QED
  BY <1>1, <1>2, <1>3, <1>4, <1>5, <1>6, <1>7

(* The failure is recorded. *)
LEMMA MarkFailedStep ==
  ASSUME PInv, NEW p \in Procs, MarkFailed(p)
  PROVE  PInv'
<1> USE DEF PInv
<1>1. TypeOK'
  BY Roster, Marks DEF MarkFailed, Ended, Stopped, Goto, TypeOK, Steps, status, tables
<1>2. Roles'
  BY Roster DEF MarkFailed, Ended, Stopped, Goto, TypeOK, Roles, status, tables
<1>3. Generations'
  BY Roster, Marks DEF MarkFailed, Ended, Stopped, Goto, TypeOK, Generations, status, tables
<1>4. ReadEnough'
  BY Roster, Marks DEF MarkFailed, Ended, Stopped, Goto, TypeOK, ReadEnough, Generations, Refreshing, status, tables
<1>5. Reported'
  BY Roster, Marks DEF MarkFailed, Ended, Stopped, Goto, TypeOK, Reported, MaterializedWasShown, Generations, ReadEnough, Refreshing, status, tables
<1>6. OneAtATime'
  BY Roster, Marks DEF MarkFailed, Ended, Stopped, Goto, TypeOK, OneAtATime, Generations, ReadEnough, Refreshing, status, tables
<1>7. Rebuilding'
  BY Roster, Marks DEF MarkFailed, Ended, Stopped, Goto, TypeOK, Rebuilding, Generations, Reported, MaterializedWasShown, Roles, status, tables
<1> QED
  BY <1>1, <1>2, <1>3, <1>4, <1>5, <1>6, <1>7

(* A failed call: a mark is skipped, a started refresh is queued again, or *)
(* the request or pass ends.                                               *)
LEMMA CallFailsStep ==
  ASSUME PInv, NEW p \in Procs, CallFails(p)
  PROVE  PInv'
<1> USE DEF PInv
<1>a. \/ /\ p \in Requests /\ kind[p] # "rebuild"
         /\ OnError(p) \in {"done", "start", "read"}
      \/ OnError(p) = "requeue" /\ pc[p] \in {"read", "inbox", "view"}
      \/ OnError(p) = Stopped(p)
  <2>1. CASE pc[p] = "mark" /\ kind[p] # "rebuild"
    <3>1. p \in Requests /\ kind[p] \in {"append", "ask", "card"}
      BY <2>1, Roster DEF Roles, TypeOK, AllKinds
    <3> QED
      BY <2>1, <3>1 DEF OnError, AfterMark
  <2>2. CASE ~ (pc[p] = "mark" /\ kind[p] # "rebuild")
    BY <2>2 DEF OnError
  <2> QED
    BY <2>1, <2>2
<1>b. /\ p \in Workers => Stopped(p) = "idle"
      /\ p \in Requests => Stopped(p) = "failed"
      /\ Stopped(p) \in {"idle", "failed"}
  BY Roster DEF Stopped
<1>c. /\ pc' = [pc EXCEPT ![p] = OnError(p)]
      /\ gen' = [gen EXCEPT ![p] = IF OnError(p) = Stopped(p) THEN 0 ELSE @]
      /\ seen' = [seen EXCEPT ![p] = 0]
  BY DEF CallFails, Goto
<1>d. UNCHANGED <<written, inbox, view, shown, desired, materialized, inProgress,
                  queued, marked, kind, began, overlapped, crashes>>
  BY DEF CallFails, status, tables
<1>e. faults' \in Nat
  BY DEF CallFails, TypeOK
<1>1. TypeOK'
  BY <1>a, <1>b, <1>c, <1>d, <1>e DEF TypeOK, Steps
<1>2. Roles'
  BY <1>a, <1>b, <1>c, <1>d, Roster DEF TypeOK, Roles
<1>3. Generations'
  BY <1>a, <1>b, <1>c, <1>d DEF TypeOK, Generations
<1>4. ReadEnough'
  BY <1>a, <1>b, <1>c, <1>d DEF TypeOK, ReadEnough, Refreshing
<1>5. Reported'
  BY <1>a, <1>b, <1>c, <1>d DEF TypeOK, Reported, MaterializedWasShown
<1>6. OneAtATime'
  BY <1>a, <1>b, <1>c, <1>d DEF TypeOK, OneAtATime, Refreshing
<1>7. Rebuilding'
  BY <1>a, <1>b, <1>c, <1>d, Roster DEF TypeOK, Rebuilding
<1> QED
  BY <1>1, <1>2, <1>3, <1>4, <1>5, <1>6, <1>7

(* A crash. *)
LEMMA CrashStep ==
  ASSUME PInv, Crash
  PROVE  PInv'
<1> USE DEF PInv
<1>1. TypeOK'
  BY DEF Crash, TypeOK, Steps, Stopped, status, tables
<1>2. Roles'
  <2>1. pc' = [p \in Procs |-> IF Calling(p) THEN Stopped(p) ELSE pc[p]] /\ kind' = kind
    BY DEF Crash
  <2>2. \A w \in Workers : pc'[w] \in {"idle", pc[w]}
    BY <2>1 DEF Stopped, Procs
  <2>3. \A r \in Requests : pc'[r] \in {"failed", pc[r]}
    BY <2>1, Roster DEF Stopped
  <2> QED
    BY <2>1, <2>2, <2>3 DEF Roles
<1>3. Generations'
  BY DEF Crash, TypeOK, Generations, Stopped, Calling, status, tables
<1>4. ReadEnough'
  BY DEF Crash, TypeOK, ReadEnough, Stopped, Calling, Refreshing, status, tables
<1>5. Reported'
  BY DEF Crash, TypeOK, Reported, MaterializedWasShown, Stopped, Calling, status, tables
<1>6. OneAtATime'
  BY DEF Crash, TypeOK, OneAtATime, Stopped, Calling, Refreshing, status, tables
<1>7. Rebuilding'
  BY Roster DEF Crash, TypeOK, Rebuilding, Stopped, Calling, status, tables
<1> QED
  BY <1>1, <1>2, <1>3, <1>4, <1>5, <1>6, <1>7

-----------------------------------------------------------------------------
LEMMA InitInv == Init => PInv
<1> SUFFICES ASSUME Init PROVE PInv
  OBVIOUS
<1>1. TypeOK
  <2>1. pc \in [Procs -> Steps]
    BY DEF Init, Steps
  <2>2. kind \in [Requests -> AllKinds]
    BY ProjectionConstants DEF Init
  <2>3. marked \in Seq(Nat) /\ Len(marked) = desired
    BY DEF Init
  <2>4. gen \in [Procs -> Nat] /\ seen \in [Procs -> Nat] /\ began \in [Requests -> Nat]
    BY DEF Init
  <2>5. /\ written \in Nat /\ inbox \in Nat /\ view \in Nat /\ shown \in Nat
        /\ desired \in Nat /\ materialized \in Nat /\ inProgress \in Nat
        /\ faults \in Nat /\ crashes \in Nat
        /\ queued \in BOOLEAN /\ overlapped \in BOOLEAN
    BY DEF Init
  <2> QED
    BY <2>1, <2>2, <2>3, <2>4, <2>5 DEF TypeOK
<1>2. Roles
  BY Roster DEF Init, Roles, Procs
<1>3. Generations
  BY DEF Init, Generations
<1>4. ReadEnough
  BY DEF Init, ReadEnough, Refreshing
<1>5. Reported /\ OneAtATime /\ Rebuilding
  BY Roster DEF Init, Reported, MaterializedWasShown, OneAtATime, Rebuilding, Refreshing
<1> QED
  BY <1>1, <1>2, <1>3, <1>4, <1>5 DEF PInv

LEMMA NextInv == PInv /\ [Next]_vars => PInv'
<1> SUFFICES ASSUME PInv, [Next]_vars PROVE PInv'
  OBVIOUS
<1>1. CASE \E r \in Requests : Write(r) \/ BeginRebuild(r)
  BY <1>1, WriteStep, BeginRebuildStep
<1>2. CASE \E p \in Procs : Go(p)
  BY <1>2, MarkStep, ListStep, StartStep, ClearStep, ReadStep, WriteInboxStep,
     WriteViewStep, SucceedStep, RequeueStep, MarkFailedStep DEF Go
<1>3. CASE \E p \in Procs : CallFails(p)
  BY <1>3, CallFailsStep
<1>4. CASE Crash
  BY <1>4, CrashStep
<1>5. CASE UNCHANGED vars
  BY <1>5 DEF vars, status, tables, PInv, TypeOK, Roles, Generations, ReadEnough,
     Reported, MaterializedWasShown, OneAtATime, Rebuilding
<1> QED
  BY <1>1, <1>2, <1>3, <1>4, <1>5 DEF Next

-----------------------------------------------------------------------------
(* The inductive invariant holds throughout.                               *)
THEOREM ProjectionInvariant == Spec => []PInv
BY InitInv, NextInv, PTL DEF Spec

(* Types. *)
THEOREM TypesHold == Spec => []TypeOK
<1>1. PInv => TypeOK
  BY DEF PInv
<1> QED
  BY <1>1, ProjectionInvariant, PTL

(* What MarkTopicProjectionRefreshSucceeded reports as materialized has    *)
(* been shown by a finished refresh, with every write that was made before *)
(* the generation was asked for, however many refreshes overlap.           *)
THEOREM ReportsAreTrue == Spec => []MaterializedWasShown
<1>1. PInv => MaterializedWasShown
  BY DEF PInv, Reported
<1> QED
  BY <1>1, ProjectionInvariant, PTL

(* The unlocked refresh is the only source of staleness: unless two        *)
(* refreshes have overlapped, both derived tables are as new as the        *)
(* materialized generation asks for.                                       *)
THEOREM StaleOnlyByOverlap == Spec => []FreshWithoutOverlap
<1>1. PInv => FreshWithoutOverlap
  BY DEF PInv, OneAtATime, FreshWithoutOverlap
<1> QED
  BY <1>1, ProjectionInvariant, PTL

(* in_progress_generation never outlives the work it stands for.           *)
THEOREM NothingInFlightForever == Spec => []InFlightIsDirty
<1>1. PInv => InFlightIsDirty
  BY DEF PInv, TypeOK, Generations, InFlightIsDirty, Dirty
<1> QED
  BY <1>1, ProjectionInvariant, PTL

(* POST /derived/rebuild answers 200 only after every write made before it *)
(* has been shown.                                                         *)
THEOREM RebuildIsComplete == Spec => []RebuildRepairs
<1>1. PInv => RebuildRepairs
  BY DEF PInv, Rebuilding, RebuildRepairs
<1> QED
  BY <1>1, ProjectionInvariant, PTL

-----------------------------------------------------------------------------
(* The ledger of RefreshLedger. *)

LedgerUnchanged == UNCHANGED <<written, marked, materialized, shown>>

LEMMA LedgerStep == PInv /\ [Next]_vars => [Ledger!LedgerNext]_(Ledger!ledgerVars)
<1> SUFFICES ASSUME PInv, [Next]_vars
             PROVE  [Ledger!LedgerNext]_(Ledger!ledgerVars)
  OBVIOUS
<1>1. ASSUME NEW r \in Requests, Write(r) PROVE Ledger!Change
  BY <1>1 DEF Write, status, tables, Ledger!Change
<1>2. ASSUME NEW p \in Procs, Mark(p) PROVE Ledger!Ask
  BY <1>2 DEF Mark, MarkDirty, tables, Ledger!Ask
<1>3. ASSUME NEW p \in Procs, WriteView(p) PROVE Ledger!Show \/ LedgerUnchanged
  <2>1. seen[p] \in Nat /\ shown \in Nat /\ written \in Nat /\ seen[p] <= written
    BY <1>3 DEF WriteView, PInv, TypeOK, ReadEnough, Refreshing
  <2>2. UNCHANGED <<written, marked, materialized>> /\ shown' = Larger(shown, seen[p])
    BY <1>3 DEF WriteView, status
  <2>3. CASE seen[p] <= shown
    BY <2>1, <2>2, <2>3 DEF Larger, LedgerUnchanged
  <2>4. CASE seen[p] > shown
    BY <2>1, <2>2, <2>4 DEF Larger, Ledger!Show
  <2>5. QED
    BY <2>1, <2>3, <2>4
<1>4. ASSUME NEW p \in Procs, Succeed(p) PROVE Ledger!Serve
  <2>1. /\ gen[p] \in 1 .. desired /\ marked[gen[p]] <= shown
        /\ materialized \in 0 .. desired
        /\ Len(marked) = desired
    BY <1>4 DEF Succeed, PInv, TypeOK, Generations, Reported
  <2>2. materialized > 0 => marked[materialized] <= shown
    BY Marks, <2>1 DEF PInv, TypeOK, Reported, MaterializedWasShown
  <2>3. /\ materialized' \in materialized .. Len(marked)
        /\ materialized' > 0 /\ marked[materialized'] <= shown
    BY <1>4, <2>1, <2>2 DEF Succeed, Materialize, Larger
  <2>4. UNCHANGED <<written, marked, shown>>
    BY <1>4 DEF Succeed, Materialize, tables
  <2>5. QED
    BY <2>3, <2>4 DEF Ledger!Serve
<1>5. CASE LedgerUnchanged
  BY <1>5 DEF LedgerUnchanged, Ledger!ledgerVars
<1>6. ASSUME NEW p \in Procs, Go(p), ~ Mark(p), ~ WriteView(p), ~ Succeed(p)
      PROVE  LedgerUnchanged
  BY <1>6 DEF Go, List, Start, StartNewest, Clear, Read, WriteInbox, Requeue, MarkFailed,
              status, tables, LedgerUnchanged
<1>7. ASSUME \/ \E r \in Requests : BeginRebuild(r)
             \/ \E p \in Procs : CallFails(p)
             \/ Crash
             \/ UNCHANGED vars
      PROVE  LedgerUnchanged
  BY <1>7 DEF BeginRebuild, CallFails, Crash, vars, status, tables, LedgerUnchanged
<1>8. QED
  BY <1>1, <1>2, <1>3, <1>4, <1>5, <1>6, <1>7 DEF Next, Ledger!LedgerNext

(* The refresh status of a thread keeps the promises of RefreshLedger, for *)
(* any number of requests, workers, faults and crashes.                    *)
THEOREM LedgerImplemented == Spec => ImplementsLedger
<1>1. Init => Ledger!LedgerInit
  BY DEF Init, Ledger!LedgerInit
<1>2. QED
  BY <1>1, LedgerStep, ProjectionInvariant, PTL
     DEF Spec, ImplementsLedger, Ledger!LedgerSpec

=============================================================================
