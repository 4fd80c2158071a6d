------------------------------ MODULE WakeRouter ------------------------------
(***************************************************************************)
(* The wake router: the sidecar of anx-core that tails message_posted      *)
(* events behind a durable cursor and turns every @mention into a wake     *)
(* packet and a queued wakeup, or into an exception_raised event in the    *)
(* thread (core/internal/router/router.go, state.go; wired in              *)
(* core/cmd/anx-core/main.go).                                             *)
(*                                                                         *)
(* Messages are numbered in the order of the cursor, by timestamp and then *)
(* by id.  The timestamp is taken before the insert and compared to the    *)
(* millisecond, so a message may be committed after one that follows it.   *)
(*                                                                         *)
(* The router is one goroutine.  Its calls on the stores and its writes of *)
(* the state file are steps; posting requests, changes of registrations,   *)
(* the cache's TTL, crashes and the graceful shutdown interleave with      *)
(* them.  On shutdown the context is cancelled, so that every call on a    *)
(* store fails from then on, but the goroutine goes on until the process   *)
(* exits.  A failure that is not due to the cancelled context costs one of *)
(* MaxFaults and may happen before or after the call took effect.          *)
(*                                                                         *)
(* Left out: contents of packets, the reason why an agent is not taggable, *)
(* readiness and health reporting, and the 200-principal page limit.       *)
(***************************************************************************)
EXTENDS Naturals, FiniteSets

CONSTANTS
  Agents,       \* agent principals, each with its handle
  NoAgent,      \* author of a message that no agent wrote; no mention at hand
  Texts,        \* what messages may be: agents mentioned, agent that wrote it
  MaxMessages,  \* bound on messages
  BatchSize,    \* eventBatchSize
  MaxLate,      \* bound on messages committed out of cursor order
  MaxChanges,   \* bound on changes of registrations
  MaxFaults,    \* bound on failed calls and writes
  MaxCrashes,   \* bound on crashes
  MaxStops      \* bound on graceful shutdowns

ASSUME RouterConstants ==
  /\ NoAgent \notin Agents
  /\ Texts \subseteq [to : SUBSET Agents, from : Agents \cup {NoAgent}]
  /\ MaxMessages \in Nat
  /\ BatchSize \in Nat \ {0}

VARIABLES
  posted,      \* committed messages
  to, from,    \* message -> agents it mentions, agent that wrote it
  registered,  \* agents that are taggable now
  cached,      \* agents that are taggable according to principalCache
  fresh,       \* the cache is filled and younger than its TTL
  cursor,      \* last_event_ts/_id in StateStore.values
  saved,       \* the same in the state file
  batch,       \* messages of the last listing not yet handled
  pc,          \* next step of the pass
  current,     \* the message at hand (0: none)
  todo,        \* mentions of the message at hand still to be routed
  mention,     \* the mention being routed
  routed,      \* some mention of the message at hand was routed
  packets,     \* <<message, agent>> with a wake artifact
  woken,       \* <<message, agent>> with a row in agent_wakeups
  unroutable,  \* <<message, agent>> with an exception "not taggable"
  failed,      \* <<message, agent>> with an exception mention_routing_failed
  stopping,    \* the context is cancelled
  late,        \* history: messages committed out of cursor order
  handled,     \* history: messages for which handleEvent returned nil
  offSince,    \* history: <<m, a>>, a was not taggable at some time since m
  changes, faults, crashes, stops

world == <<posted, to, from, registered, late, offSince, changes>>
results == <<packets, woken, unroutable, failed>>
pass == <<batch, pc, current, todo, mention, routed>>
vars == <<world, cached, fresh, cursor, saved, pass, results, stopping,
          handled, faults, crashes, stops>>

Messages == 1 .. MaxMessages
Mentions == Messages \X Agents

TypeOK ==
  /\ posted \subseteq Messages /\ late \subseteq posted /\ handled \subseteq posted
  /\ to \in [Messages -> SUBSET Agents]
  /\ from \in [Messages -> Agents \cup {NoAgent}]
  /\ registered \subseteq Agents /\ cached \subseteq Agents
  /\ fresh \in BOOLEAN /\ routed \in BOOLEAN /\ stopping \in BOOLEAN
  /\ cursor \in 0 .. MaxMessages /\ saved \in 0 .. MaxMessages
  /\ batch \subseteq posted
  /\ pc \in {"idle", "see", "route", "packet", "enqueue", "explain", "giveUp", "advance"}
  /\ current \in 0 .. MaxMessages
  /\ todo \subseteq Agents /\ mention \in Agents \cup {NoAgent}
  /\ packets \subseteq Mentions /\ woken \subseteq Mentions
  /\ unroutable \subseteq Mentions /\ failed \subseteq Mentions
  /\ offSince \subseteq Mentions
  /\ {changes, faults, crashes, stops} \subseteq Nat

Init ==
  /\ posted = {} /\ late = {} /\ handled = {}
  /\ to = [m \in Messages |-> {}]
  /\ from = [m \in Messages |-> NoAgent]
  /\ registered \in SUBSET Agents
  /\ cached = {} /\ fresh = FALSE
  /\ cursor = 0 /\ saved = 0
  /\ batch = {} /\ pc = "idle" /\ current = 0
  /\ todo = {} /\ mention = NoAgent /\ routed = FALSE
  /\ packets = {} /\ woken = {} /\ unroutable = {} /\ failed = {}
  /\ offSince = {} /\ stopping = FALSE
  /\ changes = 0 /\ faults = 0 /\ crashes = 0 /\ stops = 0

-----------------------------------------------------------------------------
(* The world around the router. *)

(* A message is committed.                                                 *)
Post(m, text) ==
  LET overtaken == \E n \in posted : n > m IN
  /\ m \notin posted
  /\ overtaken => Cardinality(late) < MaxLate
  /\ posted' = posted \cup {m}
  /\ late' = IF overtaken THEN late \cup {m} ELSE late
  /\ to' = [to EXCEPT ![m] = text.to]
  /\ from' = [from EXCEPT ![m] = text.from]
  /\ offSince' = offSince \cup ({m} \X (Agents \ registered))
  /\ UNCHANGED <<registered, changes, cached, fresh, cursor, saved, pass,
                 results, stopping, handled, faults, crashes, stops>>

(* An agent becomes taggable, or stops being so: revoked, unbound,         *)
(* disabled, its registration removed.                                     *)
ChangeRegistration(a) ==
  /\ changes < MaxChanges
  /\ changes' = changes + 1
  /\ \/ a \notin registered /\ registered' = registered \cup {a} /\ UNCHANGED offSince
     \/ /\ a \in registered
        /\ registered' = registered \ {a}
        /\ offSince' = offSince \cup (posted \X {a})
  /\ UNCHANGED <<posted, to, from, late, cached, fresh, cursor, saved, pass,
                 results, stopping, handled, faults, crashes, stops>>

CacheExpires ==
  /\ fresh
  /\ fresh' = FALSE
  /\ UNCHANGED <<world, cached, cursor, saved, pass, results, stopping,
                 handled, faults, crashes, stops>>

-----------------------------------------------------------------------------
(* Building blocks. *)

Goto(step) == pc' = step

(* A call on a store succeeds, or fails.  With the context cancelled it    *)
(* fails, and that is no fault.                                            *)
Succeeds == ~ stopping /\ UNCHANGED faults
Breaks == faults < MaxFaults /\ faults' = faults + 1
Fails == IF stopping THEN UNCHANGED faults ELSE Breaks

(* A failed call may have taken effect, unless it was never made.          *)
FailsWith(set, x) ==
  /\ Fails
  /\ set' = set \/ (~ stopping /\ set' = set \cup {x})

(* StateStore.Update and SetLastEventCursor write everything in memory, the *)
(* cursor with it; a failed write may have come as far as the rename.      *)
Saves(c) == cursor' = c /\ saved' = c
SaveFails(c) == cursor' = c /\ saved' \in {saved, c} /\ Breaks

(* runOnce returns an error: the rest of the batch is dropped. *)
EndPass ==
  /\ pc' = "idle" /\ batch' = {} /\ current' = 0
  /\ todo' = {} /\ mention' = NoAgent /\ routed' = FALSE

(* Messages are handled in cursor order. *)
First(m) == m \in batch /\ \A n \in batch : m <= n

Here == <<current, mention>>

Load == cached' = registered /\ fresh' = TRUE

NextMention ==
  /\ mention' = NoAgent /\ todo' = todo \ {mention}
  /\ Goto("route") /\ UNCHANGED <<batch, current>>

-----------------------------------------------------------------------------
(* runOnce: list the first messages after the cursor. *)

After == {m \in posted : m > cursor}
FirstOf(set) == {m \in set : Cardinality({n \in set : n <= m}) <= BatchSize}

Poll ==
  /\ pc = "idle"
  /\ After # {}
  /\ Succeeds
  /\ batch' = FirstOf(After)
  /\ Goto("see")
  /\ UNCHANGED <<world, cached, fresh, cursor, saved, current, todo, mention,
                 routed, results, stopping, handled, crashes, stops>>

(* Mutant: the cursor moves on before the message is handled. *)
SeeMessage_AdvancesFirst(m) ==
  /\ pc = "see" /\ First(m)
  /\ Saves(m)
  /\ UNCHANGED faults
  /\ to[m] # {} => Load /\ ~ stopping
  /\ to[m] = {} => UNCHANGED <<cached, fresh>>
  /\ current' = m /\ todo' = to[m] /\ Goto("route")
  /\ UNCHANGED <<batch, mention, routed>>
  /\ UNCHANGED <<world, results, stopping, handled, crashes, stops>>

(* handleEvent begins: the state file is written (with the cursor that is  *)
(* in memory), and for a message with mentions the principals are loaded   *)
(* unless the cache is fresh.  If either fails the pass ends.              *)
SeeMessage(m) ==
  LET Start == /\ current' = m /\ todo' = to[m] /\ Goto("route")
               /\ UNCHANGED <<batch, mention, routed>>
  IN
  /\ pc = "see" /\ First(m)
  /\ \/ /\ Saves(cursor) /\ UNCHANGED faults
        /\ to[m] = {} \/ fresh
        /\ Start /\ UNCHANGED <<cached, fresh>>
     \/ /\ Saves(cursor) /\ Succeeds
        /\ to[m] # {} /\ ~ fresh
        /\ Start /\ Load
     \/ /\ Saves(cursor) /\ Fails
        /\ to[m] # {} /\ ~ fresh
        /\ EndPass /\ UNCHANGED <<cached, fresh>>
     \/ /\ SaveFails(cursor)
        /\ EndPass /\ UNCHANGED <<cached, fresh>>
  /\ UNCHANGED <<world, results, stopping, handled, crashes, stops>>

-----------------------------------------------------------------------------
(* routeMention, once per mention. *)

(* Mutant: what the cache says is final. *)
Resolve_NoRefresh(a) ==
  /\ pc = "route" /\ a \in todo
  /\ mention' = a /\ UNCHANGED <<batch, current, todo, routed>>
  /\ UNCHANGED <<cached, fresh, faults>>
  /\ Goto(IF a \in cached THEN "packet" ELSE "explain")
  /\ UNCHANGED <<world, cursor, saved, results, stopping, handled, crashes, stops>>

(* An agent that is taggable according to the cache is routed at once,     *)
(* anything else is looked up again first.  An agent's mention of itself   *)
(* is dropped.                                                             *)
Resolve(a) ==
  LET Target == IF from[current] = a
                THEN todo' = todo \ {a} /\ UNCHANGED <<pc, mention>>
                ELSE mention' = a /\ Goto("packet") /\ UNCHANGED todo
  IN
  /\ pc = "route" /\ a \in todo
  /\ \/ a \in cached /\ Target /\ UNCHANGED <<cached, fresh, faults>>
     \/ /\ a \notin cached
        /\ Succeeds /\ Load
        /\ IF a \in registered THEN Target
           ELSE mention' = a /\ Goto("explain") /\ UNCHANGED todo
     \/ /\ a \notin cached
        /\ Fails /\ UNCHANGED <<cached, fresh>>
        /\ mention' = a /\ Goto("giveUp") /\ UNCHANGED todo
  /\ UNCHANGED <<world, cursor, saved, batch, current, routed, results, stopping,
                 handled, crashes, stops>>

(* Mutant: a failure to write the packet is ignored, as it is for card     *)
(* assignments (card_assignee_wake.go).                                    *)
CreatePacket_BestEffort ==
  /\ pc = "packet"
  /\ \/ Succeeds /\ packets' = packets \cup {Here}
     \/ Fails /\ UNCHANGED packets
  /\ Goto("enqueue") /\ UNCHANGED <<batch, current, todo, mention, routed>>
  /\ UNCHANGED <<world, cached, fresh, cursor, saved, woken, unroutable, failed,
                 stopping, handled, crashes, stops>>

(* GetThread and CreateArtifact; a packet that exists is left as it is.    *)
CreatePacket ==
  /\ pc = "packet"
  /\ \/ Succeeds /\ packets' = packets \cup {Here} /\ Goto("enqueue")
     \/ FailsWith(packets, Here) /\ Goto("giveUp")
  /\ UNCHANGED <<batch, current, todo, mention, routed>>
  /\ UNCHANGED <<world, cached, fresh, cursor, saved, woken, unroutable, failed,
                 stopping, handled, crashes, stops>>

(* UpsertAgentWakeup; a row that exists is left as it is. *)
Enqueue ==
  /\ pc = "enqueue"
  /\ \/ Succeeds /\ woken' = woken \cup {Here} /\ routed' = TRUE /\ NextMention
     \/ /\ FailsWith(woken, Here) /\ Goto("giveUp")
        /\ UNCHANGED <<batch, current, todo, mention, routed>>
  /\ UNCHANGED <<world, cached, fresh, cursor, saved, packets, unroutable, failed,
                 stopping, handled, crashes, stops>>

(* emitException for an agent that is not taggable. *)
Explain ==
  /\ pc = "explain"
  /\ \/ Succeeds /\ unroutable' = unroutable \cup {Here} /\ NextMention
     \/ /\ FailsWith(unroutable, Here) /\ Goto("giveUp")
        /\ UNCHANGED <<batch, current, todo, mention>>
  /\ UNCHANGED routed
  /\ UNCHANGED <<world, cached, fresh, cursor, saved, packets, woken, failed,
                 stopping, handled, crashes, stops>>

(* Mutant: a routing error is only logged. *)
GiveUp_Silent ==
  /\ pc = "giveUp"
  /\ NextMention /\ UNCHANGED <<routed, faults>>
  /\ UNCHANGED <<world, cached, fresh, cursor, saved, results, stopping, handled,
                 crashes, stops>>

(* routeMention returned an error: mention_routing_failed, best effort.    *)
GiveUp ==
  /\ pc = "giveUp"
  /\ \/ Succeeds /\ failed' = failed \cup {Here}
     \/ FailsWith(failed, Here)
  /\ NextMention /\ UNCHANGED routed
  /\ UNCHANGED <<world, cached, fresh, cursor, saved, packets, woken, unroutable,
                 stopping, handled, crashes, stops>>

-----------------------------------------------------------------------------
(* Mutant: the cursor is kept for messages without mentions. *)
Advance_TaggedOnly ==
  LET m == current IN
  /\ pc = "route" /\ todo = {}
  /\ IF to[m] = {} THEN UNCHANGED <<cursor, saved>> ELSE Saves(m)
  /\ handled' = handled \cup {m}
  /\ batch' = batch \ {m} /\ Goto(IF batch' = {} THEN "idle" ELSE "see")
  /\ current' = 0 /\ routed' = FALSE
  /\ UNCHANGED <<todo, mention, faults>>
  /\ UNCHANGED <<world, cached, fresh, results, stopping, crashes, stops>>

(* All mentions done.  What was routed is noted in the state file; if that *)
(* fails the pass ends and the message will be handled again.  Then the    *)
(* cursor moves, in memory and in the file; neither needs the context.     *)
Advance ==
  LET m == current IN
  /\ pc = "route" /\ todo = {}
  /\ \/ /\ routed /\ SaveFails(cursor) /\ EndPass
        /\ UNCHANGED handled
     \/ /\ Saves(m)
        /\ handled' = handled \cup {m}
        /\ batch' = batch \ {m} /\ Goto(IF batch' = {} THEN "idle" ELSE "see")
        /\ current' = 0 /\ routed' = FALSE
        /\ UNCHANGED <<todo, mention, faults>>
     \/ /\ SaveFails(m)
        /\ handled' = handled \cup {m}
        /\ EndPass
  /\ UNCHANGED <<world, cached, fresh, results, stopping, crashes, stops>>

-----------------------------------------------------------------------------
(* SIGTERM: the context is cancelled, requests in flight are awaited.      *)
Stop ==
  /\ ~ stopping
  /\ stops < MaxStops
  /\ stopping' = TRUE /\ stops' = stops + 1
  /\ UNCHANGED <<world, cached, fresh, cursor, saved, pass, results, handled,
                 faults, crashes>>

Restart ==
  /\ cursor' = saved
  /\ cached' = {} /\ fresh' = FALSE /\ stopping' = FALSE
  /\ EndPass
  /\ UNCHANGED <<world, saved, results, handled, faults, stops>>

(* The process exits after the shutdown, or crashes, and starts again.     *)
Exit == stopping /\ Restart /\ UNCHANGED crashes
Crash == crashes < MaxCrashes /\ crashes' = crashes + 1 /\ Restart

RouterStep ==
  \/ Poll
  \/ \E m \in Messages : SeeMessage(m)
  \/ \E a \in Agents : Resolve(a)
  \/ CreatePacket
  \/ Enqueue
  \/ Explain
  \/ GiveUp
  \/ Advance

Next ==
  \/ RouterStep
  \/ \E m \in Messages, text \in Texts : Post(m, text)
  \/ \E a \in Agents : ChangeRegistration(a)
  \/ CacheExpires
  \/ Stop
  \/ Exit
  \/ Crash

Spec == Init /\ [][Next]_vars

(* The router polls for ever, and a process that is stopping exits.        *)
FairSpec == Spec /\ WF_vars(RouterStep) /\ WF_vars(Exit)

-----------------------------------------------------------------------------
Settled(x) ==
  x \in woken \cup unroutable \cup failed \/ from[x[1]] = x[2]

(* The router is done with these messages. *)
Passed == handled \cup {m \in posted : m <= cursor}

(* Their mentions that left no trace at all. *)
Lost == {x \in Mentions : x[1] \in Passed /\ x[2] \in to[x[1]] /\ ~ Settled(x)}

(* Committed after a message that follows them, when the cursor or a       *)
(* listing was past their place: they are never listed.                    *)
Overlooked == {m \in late \ handled : m <= cursor}

(* While the process is not being stopped, a mention in a message that was *)
(* not overlooked disappears only if routing it failed and so did          *)
(* reporting that: two failures for each one.                              *)
LossTakesTwoFaults ==
  stops = 0 => 2 * Cardinality({x \in Lost : x[1] \notin Overlooked}) <= faults

(* Neither cursor passes a message that has not been handled, unless the   *)
(* message was committed after one that follows it: no failed write, crash *)
(* or abandoned batch makes the router skip a message.                     *)
CursorPassesHandled ==
  \A m \in posted \ late : m <= cursor \/ m <= saved => m \in handled

(* A queued wakeup has the packet that the bridge will fetch for it.       *)
WakeHasPacket == woken \subseteq packets

(* An agent is reported as not taggable for a message only if it was not   *)
(* taggable at some time since the message was posted, however old the     *)
(* cache is.                                                               *)
UnroutableWasOff == unroutable \subseteq offSince

(* The router gets past every message, and stays past it.                  *)
RouterCatchesUp == \A m \in Messages : m \in posted ~> [](cursor >= m)

=============================================================================
