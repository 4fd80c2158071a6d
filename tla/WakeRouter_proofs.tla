--------------------------- MODULE WakeRouter_proofs ---------------------------
(***************************************************************************)
(* Proofs about WakeRouter, for any number of agents and messages, any     *)
(* batch size and any number of faults, crashes and shutdowns.             *)
(***************************************************************************)
EXTENDS WakeRouter, FiniteSetTheorems, TLAPS

-----------------------------------------------------------------------------
(* The inductive invariant. *)

Busy == {"route", "packet", "enqueue", "explain", "giveUp"}

(* Types, as far as the argument needs them. *)
Shape ==
  /\ posted \subseteq Messages
  /\ handled \subseteq posted
  /\ registered \subseteq Agents
  /\ batch \subseteq posted
  /\ cursor \in posted \cup {0}
  /\ saved \in posted \cup {0}
  /\ pc \in Busy \cup {"idle", "see"}
  /\ todo \subseteq Agents
  /\ pc \in {"packet", "enqueue", "explain", "giveUp"} => mention \in Agents
  /\ to \in [Messages -> SUBSET Agents]

OnTime == posted \ late

(* What has been committed in order and lies at or below a position has    *)
(* been handled.                                                           *)
Covered(position) == \A m \in OnTime : m <= position => m \in handled

(* A batch leaves no message out: what was committed in order and lies     *)
(* between the cursor and a message of the batch is in the batch too.      *)
BatchHasNoGap ==
  \A n \in batch :
    /\ cursor < n
    /\ \A m \in OnTime : cursor < m /\ m < n => m \in batch

(* The message at hand is the first of the batch. *)
CurrentIsFirst == pc \in Busy => First(current)

Tail == Covered(cursor) /\ Covered(saved) /\ BatchHasNoGap /\ CurrentIsFirst

(* An agent that is not taggable now was off since every message.          *)
OffNow == \A m \in posted, a \in Agents \ registered : <<m, a>> \in offSince

Routing ==
  /\ WakeHasPacket
  /\ UnroutableWasOff
  /\ OffNow
  /\ pc = "enqueue" => Here \in packets
  /\ pc = "explain" => Here \in offSince

RInv == Shape /\ Tail /\ Routing

-----------------------------------------------------------------------------
(* The listing is a prefix of what lies behind the cursor. *)
LEMMA FirstOfIsPrefix ==
  ASSUME NEW set \in SUBSET Messages, NEW n \in FirstOf(set), NEW m \in set, m < n
  PROVE  m \in FirstOf(set)
<1> DEFINE Upto(k) == {i \in set : i <= k}
<1>1. n \in set /\ Cardinality(Upto(n)) <= BatchSize
  BY DEF FirstOf
<1>2. MaxMessages \in Nat /\ BatchSize \in Nat
  BY RouterConstants
<1>3. m \in Nat /\ n \in Nat /\ set \subseteq Int
  BY <1>1, <1>2 DEF Messages
<1>4. IsFiniteSet(Messages)
  BY <1>2, FS_Interval DEF Messages
<1>5. IsFiniteSet(Upto(n))
  BY <1>4, FS_Subset
<1>6. Upto(m) \subseteq Upto(n)
  <2> SUFFICES ASSUME NEW i \in set, i <= m PROVE i <= n
    OBVIOUS
  <2>1. i \in Int
    BY <1>3
  <2> QED
    BY <1>3, <2>1
<1>7. /\ IsFiniteSet(Upto(m))
      /\ Cardinality(Upto(m)) <= Cardinality(Upto(n))
  BY <1>5, <1>6, FS_Subset
<1>8. Cardinality(Upto(m)) \in Nat /\ Cardinality(Upto(n)) \in Nat
  BY <1>5, <1>7, FS_CardinalityType
<1>9. Cardinality(Upto(m)) <= BatchSize
  BY <1>1, <1>2, <1>7, <1>8
<1> QED
  BY <1>9 DEF FirstOf

(* Positions are numbers. *)
LEMMA Positions ==
  ASSUME Shape
  PROVE  /\ posted \subseteq Nat \ {0} /\ batch \subseteq Nat \ {0}
         /\ cursor \in Nat /\ saved \in Nat
BY RouterConstants DEF Shape, Messages

-----------------------------------------------------------------------------
(* Steps that leave the tail of the log alone: the cursor does not move,   *)
(* the batch is kept or dropped, nothing is committed.                     *)
LEMMA TailKept ==
  ASSUME Shape, Tail,
         UNCHANGED <<posted, late, handled, cursor>>,
         saved' \in {saved, cursor},
         \/ UNCHANGED <<batch, current>> /\ (pc' \in Busy => pc \in Busy)
         \/ batch' = batch /\ First(current')
         \/ batch' = {} /\ pc' = "idle"
  PROVE  Tail'
<1>1. Covered(cursor)' /\ Covered(saved)'
  BY DEF Tail, Covered, OnTime
<1>2. BatchHasNoGap'
  BY DEF Tail, BatchHasNoGap, OnTime
<1>3. CurrentIsFirst'
  BY DEF Tail, CurrentIsFirst, First, Busy
<1> QED
  BY <1>1, <1>2, <1>3 DEF Tail

(* A commit. *)
LEMMA PostStep ==
  ASSUME RInv, NEW m \in Messages, NEW text \in Texts, Post(m, text)
  PROVE  RInv'
<1> USE DEF RInv
<1>1. Shape'
  <2>1. to' \in [Messages -> SUBSET Agents]
    BY RouterConstants DEF Shape, Post
  <2> QED
    BY <2>1 DEF Shape, Post, pass
<1>2. \A n \in OnTime' : n \in OnTime \/ (n = m /\ \A k \in posted : ~ (k > m))
  BY DEF Post, OnTime, Shape
<1>3. Tail'
  <2>1. m \in Nat \ {0} /\ m \notin posted
    BY RouterConstants DEF Post, Messages
  <2>2. \A n \in OnTime' : n <= cursor \/ n <= saved => n \in OnTime
    BY <1>2, <2>1, Positions DEF Shape
  <2>3. Covered(cursor)' /\ Covered(saved)'
    BY <2>2 DEF Post, Tail, Covered
  <2>4. BatchHasNoGap'
    BY <1>2, <2>1, Positions DEF Post, pass, Shape, Tail, BatchHasNoGap
  <2>5. CurrentIsFirst'
    BY DEF Post, pass, Tail, CurrentIsFirst, First
  <2> QED
    BY <2>3, <2>4, <2>5 DEF Tail
<1>4. Routing'
  BY DEF Post, pass, results, Routing, WakeHasPacket, UnroutableWasOff, OffNow, Here
<1> QED
  BY <1>1, <1>3, <1>4

(* The cursor moves over the message at hand. *)
LEMMA AdvanceStep ==
  ASSUME RInv, Advance
  PROVE  RInv'
<1> USE DEF RInv
<1>0. current \in batch /\ current \in posted /\ \A n \in batch : current <= n
  BY DEF Advance, Tail, CurrentIsFirst, First, Busy, Shape
<1>1. Shape'
  BY <1>0 DEF Advance, Saves, SaveFails, Shape, world, EndPass, Goto, Busy
<1>2. Routing'
  BY DEF Advance, Routing, world, results, EndPass, Goto, WakeHasPacket,
         UnroutableWasOff, OffNow
<1>3. CASE UNCHANGED <<cursor, handled>> /\ saved' \in {saved, cursor} /\ EndPass
  BY <1>1, <1>2, <1>3, TailKept DEF Advance, world, EndPass
<1>4. CASE cursor' = current /\ handled' = handled \cup {current}
  <2>1. saved' \in {saved, current} /\ batch' \in {{}, batch \ {current}} /\ pc' \notin Busy
    BY <1>4, <1>0, Positions DEF Advance, Saves, SaveFails, EndPass, Goto, Busy
  <2>2. UNCHANGED <<posted, late>>
    BY DEF Advance, world
  <2>3. \A m \in OnTime : m <= current => m \in handled'
    <3> SUFFICES ASSUME NEW m \in OnTime, m <= current
                 PROVE  m \in handled'
      OBVIOUS
    <3>1. CASE m <= cursor
      BY <3>1, <1>4 DEF Tail, Covered
    <3>2. CASE m = current
      BY <3>2, <1>4
    <3>3. CASE cursor < m /\ m < current
      BY <3>3, <1>0, Positions DEF Tail, BatchHasNoGap, OnTime
    <3> QED
      BY <3>1, <3>2, <3>3, <1>0, Positions DEF OnTime
  <2>4. Covered(cursor)'
    BY <2>2, <2>3, <1>4 DEF Covered, OnTime
  <2>5. Covered(saved)'
    BY <2>1, <2>2, <2>3, <1>4 DEF Covered, OnTime, Tail
  <2>6. BatchHasNoGap'
    BY <2>1, <2>2, <1>0, <1>4, Positions DEF Tail, BatchHasNoGap, OnTime
  <2> QED
    BY <2>1, <2>4, <2>5, <2>6, <1>1, <1>2 DEF Tail, CurrentIsFirst
<1> QED
  BY <1>3, <1>4 DEF Advance, Saves, SaveFails

(* A restart takes the cursor back to the file. *)
LEMMA RestartStep ==
  ASSUME RInv, Restart
  PROVE  RInv'
<1> USE DEF RInv
<1>1. Shape'
  BY DEF Restart, EndPass, world, Shape
<1>2. Tail'
  BY DEF Restart, EndPass, world, Tail, Covered, OnTime, BatchHasNoGap,
         CurrentIsFirst, Busy
<1>3. Routing'
  BY DEF Restart, EndPass, world, results, Routing, WakeHasPacket,
         UnroutableWasOff, OffNow
<1> QED
  BY <1>1, <1>2, <1>3

(* A listing. *)
LEMMA PollStep ==
  ASSUME RInv, Poll
  PROVE  RInv'
<1> USE DEF RInv
<1>1. FirstOf(After) \subseteq After /\ After \subseteq posted
  BY DEF FirstOf, After
<1>2. Shape'
  BY <1>1 DEF Poll, Shape, world, results, Goto, Busy
<1>3. BatchHasNoGap'
  <2> SUFFICES ASSUME NEW n \in FirstOf(After)
               PROVE  /\ cursor < n
                      /\ \A m \in OnTime : cursor < m /\ m < n => m \in FirstOf(After)
    BY DEF Poll, world, BatchHasNoGap, OnTime
  <2>1. cursor < n
    BY <1>1, Positions DEF After
  <2>2. ASSUME NEW m \in OnTime, cursor < m, m < n
        PROVE  m \in FirstOf(After)
    <3>1. m \in After /\ After \in SUBSET Messages
      BY <2>2, Positions DEF After, OnTime, Shape
    <3> QED
      BY <3>1, <2>2, FirstOfIsPrefix
  <2> QED
    BY <2>1, <2>2
<1>4. Tail'
  BY <1>3 DEF Poll, world, Tail, Covered, OnTime, CurrentIsFirst, Goto, Busy
<1>5. Routing'
  BY DEF Poll, world, results, Routing, WakeHasPacket, UnroutableWasOff, OffNow, Goto
<1> QED
  BY <1>2, <1>4, <1>5

LEMMA SeeMessageStep ==
  ASSUME RInv, NEW m \in Messages, SeeMessage(m)
  PROVE  RInv'
<1> USE DEF RInv
<1>1. /\ UNCHANGED <<world, cursor, results, handled>>
      /\ saved' \in {saved, cursor}
      /\ \/ batch' = batch /\ current' = m /\ pc' = "route" /\ todo' = to[m]
         \/ batch' = {} /\ pc' = "idle" /\ todo' = {}
      /\ First(m)
  BY DEF SeeMessage, Saves, SaveFails, EndPass, Goto
<1>2. Shape'
  BY <1>1 DEF Shape, world, Busy
<1>3. Tail'
  BY <1>1, TailKept DEF world
<1>4. Routing'
  BY <1>1 DEF world, results, Routing, WakeHasPacket, UnroutableWasOff, OffNow
<1> QED
  BY <1>2, <1>3, <1>4

(* The steps of routeMention keep the batch and the message at hand.       *)
LEMMA ResolveStep ==
  ASSUME RInv, NEW a \in Agents, Resolve(a)
  PROVE  RInv'
<1> USE DEF RInv
<1>1. /\ UNCHANGED <<world, cursor, saved, batch, current, results, handled>>
      /\ pc = "route" /\ current \in posted
      /\ todo' \in {todo, todo \ {a}}
      /\ \/ pc' \in {"packet", "giveUp"} /\ mention' = a
         \/ pc' = "explain" /\ mention' = a /\ a \notin registered
         \/ pc' = "route"
  BY DEF Resolve, Goto, Tail, CurrentIsFirst, First, Busy, Shape
<1>2. Shape'
  BY <1>1 DEF Shape, world, Busy
<1>3. Tail'
  BY <1>1, TailKept DEF world, Busy
<1>4. pc' = "explain" => <<current, a>> \in offSince
  BY <1>1 DEF Routing, OffNow
<1>5. Routing'
  BY <1>1, <1>4 DEF world, results, Routing, WakeHasPacket, UnroutableWasOff,
                    OffNow, Here
<1> QED
  BY <1>2, <1>3, <1>5

LEMMA CreatePacketStep ==
  ASSUME RInv, CreatePacket
  PROVE  RInv'
<1> USE DEF RInv
<1>1. /\ UNCHANGED <<world, cursor, saved, batch, current, todo, mention, handled>>
      /\ UNCHANGED <<woken, unroutable>>
      /\ pc = "packet" /\ packets \subseteq packets'
      /\ \/ pc' = "enqueue" /\ Here \in packets'
         \/ pc' = "giveUp"
  BY DEF CreatePacket, FailsWith, Goto
<1>2. Shape'
  BY <1>1 DEF Shape, world, Busy
<1>3. Tail'
  BY <1>1, TailKept DEF world, Busy
<1>4. Routing'
  BY <1>1 DEF world, Routing, WakeHasPacket, UnroutableWasOff, OffNow, Here
<1> QED
  BY <1>2, <1>3, <1>4

LEMMA EnqueueStep ==
  ASSUME RInv, Enqueue
  PROVE  RInv'
<1> USE DEF RInv
<1>1. /\ UNCHANGED <<world, cursor, saved, batch, current, handled>>
      /\ UNCHANGED <<packets, unroutable>>
      /\ pc = "enqueue" /\ woken' \subseteq woken \cup {Here}
      /\ pc' \in {"route", "giveUp"} /\ (pc' = "giveUp" => mention' = mention)
      /\ todo' \subseteq todo
  BY DEF Enqueue, FailsWith, Goto, NextMention
<1>2. Shape'
  BY <1>1 DEF Shape, world, Busy
<1>3. Tail'
  BY <1>1, TailKept DEF world, Busy
<1>4. Routing'
  BY <1>1 DEF world, Routing, WakeHasPacket, UnroutableWasOff, OffNow
<1> QED
  BY <1>2, <1>3, <1>4

LEMMA ExplainStep ==
  ASSUME RInv, Explain
  PROVE  RInv'
<1> USE DEF RInv
<1>1. /\ UNCHANGED <<world, cursor, saved, batch, current, handled>>
      /\ UNCHANGED <<packets, woken>>
      /\ pc = "explain" /\ unroutable' \subseteq unroutable \cup {Here}
      /\ pc' \in {"route", "giveUp"} /\ (pc' = "giveUp" => mention' = mention)
      /\ todo' \subseteq todo
  BY DEF Explain, FailsWith, Goto, NextMention
<1>2. Shape'
  BY <1>1 DEF Shape, world, Busy
<1>3. Tail'
  BY <1>1, TailKept DEF world, Busy
<1>4. Routing'
  BY <1>1 DEF world, Routing, WakeHasPacket, UnroutableWasOff, OffNow
<1> QED
  BY <1>2, <1>3, <1>4

LEMMA GiveUpStep ==
  ASSUME RInv, GiveUp
  PROVE  RInv'
<1> USE DEF RInv
<1>1. /\ UNCHANGED <<world, cursor, saved, batch, current, handled>>
      /\ UNCHANGED <<packets, woken, unroutable>>
      /\ pc = "giveUp" /\ pc' = "route" /\ todo' \subseteq todo
  BY DEF GiveUp, Goto, NextMention
<1>2. Shape'
  BY <1>1 DEF Shape, world, Busy
<1>3. Tail'
  BY <1>1, TailKept DEF world, Busy
<1>4. Routing'
  BY <1>1 DEF world, Routing, WakeHasPacket, UnroutableWasOff, OffNow
<1> QED
  BY <1>2, <1>3, <1>4

LEMMA RegistrationStep ==
  ASSUME RInv, NEW a \in Agents, ChangeRegistration(a)
  PROVE  RInv'
<1> USE DEF RInv
<1>1. Shape'
  BY DEF ChangeRegistration, pass, Shape
<1>2. Tail'
  BY TailKept DEF ChangeRegistration, pass
<1>3. OffNow' /\ offSince \subseteq offSince'
  BY DEF ChangeRegistration, Routing, OffNow, Shape
<1>4. Routing'
  BY <1>3 DEF ChangeRegistration, pass, results, Routing, WakeHasPacket,
              UnroutableWasOff, Here
<1> QED
  BY <1>1, <1>2, <1>4

(* Steps that touch nothing the invariant speaks of.                       *)
LEMMA QuietStep ==
  ASSUME RInv, UNCHANGED <<world, cursor, saved, pass, results, handled>>
  PROVE  RInv'
<1> USE DEF RInv
<1>1. Shape'
  BY DEF world, pass, Shape
<1>2. Tail'
  BY TailKept DEF world, pass
<1>3. Routing'
  BY DEF world, pass, results, Routing, WakeHasPacket, UnroutableWasOff, OffNow, Here
<1> QED
  BY <1>1, <1>2, <1>3

-----------------------------------------------------------------------------
(* The invariant holds in every reachable state of the router.             *)
THEOREM RouterInvariant == Spec => []RInv
<1>1. Init => RInv
  BY RouterConstants
     DEF Init, RInv, Shape, Tail, Routing, Covered, OnTime, BatchHasNoGap,
         CurrentIsFirst, Busy, WakeHasPacket, UnroutableWasOff, OffNow, Messages
<1>2. RInv /\ [Next]_vars => RInv'
  <2> SUFFICES ASSUME RInv, [Next]_vars PROVE RInv'
    OBVIOUS
  <2>1. CASE RouterStep
    BY <2>1, PollStep, SeeMessageStep, ResolveStep, CreatePacketStep, EnqueueStep,
       ExplainStep, GiveUpStep, AdvanceStep DEF RouterStep
  <2>2. CASE \E m \in Messages, text \in Texts : Post(m, text)
    BY <2>2, PostStep
  <2>3. CASE \E a \in Agents : ChangeRegistration(a)
    BY <2>3, RegistrationStep
  <2>4. CASE CacheExpires
    BY <2>4, QuietStep DEF CacheExpires
  <2>5. CASE Stop
    BY <2>5, QuietStep DEF Stop
  <2>6. CASE Exit \/ Crash
    BY <2>6, RestartStep DEF Exit, Crash
  <2>7. CASE UNCHANGED vars
    BY <2>7, QuietStep DEF vars
  <2> QED
    BY <2>1, <2>2, <2>3, <2>4, <2>5, <2>6, <2>7 DEF Next
<1> QED
  BY <1>1, <1>2, PTL DEF Spec

(* Faults are counted. *)
LEMMA FaultsCounted ==
  ASSUME faults \in Nat, [Next]_vars
  PROVE  faults' \in Nat
<1>1. UNCHANGED faults \/ Breaks
  <2>1. CASE RouterStep
    BY <2>1 DEF RouterStep, Poll, SeeMessage, Resolve, CreatePacket, Enqueue, Explain,
                GiveUp, Advance, FailsWith, Saves, SaveFails, Succeeds, Fails
  <2>2. CASE ~ RouterStep
    BY <2>2 DEF Next, Post, ChangeRegistration, CacheExpires, Stop, Exit, Crash, Restart, vars
  <2>3. QED
    BY <2>1, <2>2
<1>2. QED
  BY <1>1 DEF Breaks

(* Every variable keeps its type. *)
LEMMA TypeStep == TypeOK /\ RInv /\ RInv' /\ [Next]_vars => TypeOK'
<1> SUFFICES ASSUME TypeOK, RInv, RInv', [Next]_vars PROVE TypeOK'
  OBVIOUS
<1> USE DEF TypeOK
<1>1. /\ posted' \subseteq Messages /\ handled' \subseteq posted' /\ batch' \subseteq posted'
      /\ registered' \subseteq Agents /\ to' \in [Messages -> SUBSET Agents]
      /\ cursor' \in 0 .. MaxMessages /\ saved' \in 0 .. MaxMessages /\ todo' \subseteq Agents
      /\ pc' \in {"idle", "see", "route", "packet", "enqueue", "explain", "giveUp", "advance"}
  BY RouterConstants DEF RInv, Shape, Busy, Messages
<1>2. /\ pc \in Busy => current \in Messages
      /\ pc \in {"packet", "enqueue", "explain", "giveUp"} => Here \in Mentions
      /\ pc \in {"packet", "enqueue", "explain", "giveUp"} => mention \in Agents
  BY DEF RInv, Shape, Tail, CurrentIsFirst, First, Mentions, Here, Busy
<1>3. /\ late' \subseteq posted' /\ from' \in [Messages -> Agents \cup {NoAgent}]
      /\ offSince' \subseteq Mentions /\ changes' \in Nat
  <2>1. ASSUME NEW m \in Messages, NEW text \in Texts, Post(m, text)
        PROVE  /\ late' \subseteq posted' /\ from' \in [Messages -> Agents \cup {NoAgent}]
               /\ offSince' \subseteq Mentions /\ changes' \in Nat
    BY <2>1, RouterConstants DEF Post, Mentions
  <2>2. ASSUME NEW a \in Agents, ChangeRegistration(a)
        PROVE  /\ late' \subseteq posted' /\ from' \in [Messages -> Agents \cup {NoAgent}]
               /\ offSince' \subseteq Mentions /\ changes' \in Nat
    BY <2>2 DEF ChangeRegistration, Mentions
  <2>3. CASE UNCHANGED world
    BY <2>3 DEF world
  <2>4. QED
    BY <2>1, <2>2, <2>3 DEF Next, RouterStep, Poll, SeeMessage, Resolve, CreatePacket,
         Enqueue, Explain, GiveUp, Advance, CacheExpires, Stop, Exit, Crash, Restart, vars
<1>4. /\ packets' \subseteq Mentions /\ woken' \subseteq Mentions
      /\ unroutable' \subseteq Mentions /\ failed' \subseteq Mentions
  <2>1. CASE UNCHANGED results
    BY <2>1 DEF results
  <2>2. CASE CreatePacket
    BY <1>2, <2>2 DEF CreatePacket, FailsWith
  <2>3. CASE Enqueue
    BY <1>2, <2>3 DEF Enqueue, FailsWith
  <2>4. CASE Explain
    BY <1>2, <2>4 DEF Explain, FailsWith
  <2>5. CASE GiveUp
    BY <1>2, <2>5 DEF GiveUp, FailsWith
  <2>6. QED
    BY <2>1, <2>2, <2>3, <2>4, <2>5 DEF Next, RouterStep, Poll, SeeMessage, Resolve, Advance,
         Post, ChangeRegistration, CacheExpires, Stop, Exit, Crash, Restart, vars
<1>5. /\ cached' \subseteq Agents /\ fresh' \in BOOLEAN /\ stopping' \in BOOLEAN
      /\ crashes' \in Nat /\ stops' \in Nat
  <2>1. CASE Load /\ UNCHANGED <<stopping, crashes, stops>>
    BY <2>1 DEF Load
  <2>2. CASE UNCHANGED <<cached, fresh, stopping, crashes, stops>>
    BY <2>2
  <2>3. CASE CacheExpires
    BY <2>3 DEF CacheExpires
  <2>4. CASE Stop
    BY <2>4 DEF Stop
  <2>5. CASE Exit
    BY <2>5 DEF Exit, Restart
  <2>6. CASE Crash
    <3>1. crashes \in Nat /\ stops \in Nat
      OBVIOUS
    <3>2. crashes' = crashes + 1 /\ UNCHANGED stops /\ Restart
      BY <2>6 DEF Crash, Restart
    <3>3. cached' \subseteq Agents /\ fresh' \in BOOLEAN /\ stopping' \in BOOLEAN
      BY <3>2 DEF Restart
    <3>4. QED
      BY <3>1, <3>2, <3>3
  <2>7. QED
    BY <2>1, <2>2, <2>3, <2>4, <2>5, <2>6 DEF Next, RouterStep, Poll, SeeMessage, Resolve,
       CreatePacket, Enqueue, Explain, GiveUp, Advance, Post, ChangeRegistration, vars
<1>6. faults' \in Nat
  BY FaultsCounted
<1>0. 0 \in 0 .. MaxMessages
  BY RouterConstants
<1>7. /\ routed' \in BOOLEAN /\ current' \in 0 .. MaxMessages
      /\ mention' \in Agents \cup {NoAgent}
  <2>1. ASSUME EndPass
        PROVE  /\ routed' \in BOOLEAN /\ current' \in 0 .. MaxMessages
               /\ mention' \in Agents \cup {NoAgent}
    BY <1>0, <2>1 DEF EndPass
  <2>2. ASSUME NEW m \in Messages, SeeMessage(m)
        PROVE  /\ routed' \in BOOLEAN /\ current' \in 0 .. MaxMessages
               /\ mention' \in Agents \cup {NoAgent}
    BY <2>1, <2>2, RouterConstants DEF SeeMessage, Messages
  <2>3. ASSUME NEW a \in Agents, Resolve(a)
        PROVE  /\ routed' \in BOOLEAN /\ current' \in 0 .. MaxMessages
               /\ mention' \in Agents \cup {NoAgent}
    BY <2>3 DEF Resolve
  <2>4. CASE Enqueue \/ Explain \/ GiveUp
    BY <2>4 DEF Enqueue, Explain, GiveUp, NextMention
  <2>5. CASE Advance
    BY <1>0, <2>1, <2>5 DEF Advance
  <2>6. CASE Exit \/ Crash
    BY <2>1, <2>6 DEF Exit, Crash, Restart
  <2>7. CASE UNCHANGED <<routed, current, mention>>
    BY <2>7
  <2>8. QED
    BY <2>2, <2>3, <2>4, <2>5, <2>6, <2>7 DEF Next, RouterStep, Poll, CreatePacket,
         Post, ChangeRegistration, CacheExpires, Stop, pass, vars
<1>8. QED
  BY <1>1, <1>3, <1>4, <1>5, <1>6, <1>7

THEOREM TypesHold == Spec => []TypeOK
<1>1. Init => TypeOK
  <2> SUFFICES ASSUME Init PROVE TypeOK
    OBVIOUS
  <2>1. 0 \in 0 .. MaxMessages /\ 0 \in Nat
    BY RouterConstants
  <2>2. {changes, faults, crashes, stops} \subseteq Nat
    BY <2>1 DEF Init
  <2>3. QED
    BY <2>1, <2>2 DEF Init, TypeOK
<1>2. QED
  BY <1>1, TypeStep, RouterInvariant, PTL DEF Spec

(* No message that was committed in order is skipped: neither the cursor   *)
(* in memory nor the one in the file passes it before handleEvent has      *)
(* succeeded for it, across failures, crashes and shutdowns.               *)
THEOREM NothingSkipped == Spec => []CursorPassesHandled
<1>1. RInv => CursorPassesHandled
  BY DEF RInv, Tail, Covered, OnTime, CursorPassesHandled
<1> QED
  BY <1>1, RouterInvariant, PTL

(* Every row of the wakeup queue that the router wrote has its packet.     *)
THEOREM PacketBeforeWake == Spec => []WakeHasPacket
<1>1. RInv => WakeHasPacket
  BY DEF RInv, Routing
<1> QED
  BY <1>1, RouterInvariant, PTL

(* An exception "not taggable" is never due to an old cache only.          *)
THEOREM ReportedWasOff == Spec => []UnroutableWasOff
<1>1. RInv => UnroutableWasOff
  BY DEF RInv, Routing
<1> QED
  BY <1>1, RouterInvariant, PTL

-----------------------------------------------------------------------------
(* Why a lost mention takes two failures. *)

(* Mentions of the message at hand that are done and left no trace.        *)
Skipped ==
  {x \in Mentions : /\ pc \in Busy /\ x[1] = current
                    /\ x[2] \in to[current] \ todo /\ ~ Settled(x)}

(* Mentions of handled messages that left none. *)
Dropped == {x \in Mentions : x[1] \in handled /\ x[2] \in to[x[1]] /\ ~ Settled(x)}

Gone == Dropped \cup Skipped

(* The failure that led to giveUp has been paid, its mention is not gone.  *)
Debt == IF pc = "giveUp" THEN 1 ELSE 0

GonePaid == IsFiniteSet(Gone) /\ 2 * Cardinality(Gone) + Debt <= faults

LossInv ==
  /\ stops \in Nat /\ faults \in Nat
  /\ stops = 0 => ~ stopping /\ GonePaid

(* What a step may do to the mentions that are gone: none is added and     *)
(* every failure that leads to giveUp is counted, or the one at hand is    *)
(* added by the second failure.                                            *)
Accounted ==
  \/ Gone' \subseteq Gone /\ faults' \in Nat /\ faults + Debt' <= faults' + Debt
  \/ /\ Gone' \subseteq Gone \cup {Here}
     /\ pc = "giveUp" /\ pc' # "giveUp" /\ faults' = faults + 1

LEMMA AccountsAddUp ==
  ASSUME NEW c \in Nat, NEW d \in Nat, NEW e \in Nat,
         NEW c1 \in Nat, NEW d1 \in Nat, NEW e1 \in Nat,
         2 * c + d <= e, c1 <= c, e + d1 <= e1 + d
  PROVE  2 * c1 + d1 <= e1
  OBVIOUS

LEMMA Sums ==
  ASSUME NEW d \in Nat, NEW e \in Nat, NEW d1 \in Nat, NEW e1 \in Nat,
         (e1 = e + 1 /\ d1 <= d + 1) \/ (e1 = e /\ d1 <= d)
  PROVE  e + d1 <= e1 + d
  OBVIOUS

LEMMA AccountedPays ==
  ASSUME faults \in Nat, GonePaid, Accounted
  PROVE  GonePaid'
<1> USE DEF GonePaid
<1>1. IsFiniteSet(Gone) /\ Cardinality(Gone) \in Nat /\ Debt \in {0, 1} /\ Debt' \in {0, 1}
  BY FS_CardinalityType DEF Debt
<1>2. CASE Gone' \subseteq Gone /\ faults' \in Nat /\ faults + Debt' <= faults' + Debt
  <2>1. IsFiniteSet(Gone') /\ Cardinality(Gone') <= Cardinality(Gone)
    BY <1>1, <1>2, FS_Subset
  <2>2. Cardinality(Gone') \in Nat
    BY <2>1, FS_CardinalityType
  <2>3. Debt \in Nat /\ Debt' \in Nat
    BY <1>1
  <2>4. 2 * Cardinality(Gone') + Debt' <= faults'
    BY <1>1, <1>2, <2>1, <2>2, <2>3, AccountsAddUp
  <2>5. QED
    BY <2>1, <2>4
<1>3. CASE /\ Gone' \subseteq Gone \cup {Here}
           /\ pc = "giveUp" /\ pc' # "giveUp" /\ faults' = faults + 1
  <2>1. /\ IsFiniteSet(Gone \cup {Here})
        /\ Cardinality(Gone \cup {Here}) \in {Cardinality(Gone), Cardinality(Gone) + 1}
    BY <1>1, FS_AddElement
  <2>2. IsFiniteSet(Gone') /\ Cardinality(Gone') <= Cardinality(Gone \cup {Here})
    BY <1>3, <2>1, FS_Subset
  <2>3. Cardinality(Gone') \in Nat
    BY <2>2, FS_CardinalityType
  <2>4. Debt = 1 /\ Debt' = 0
    BY <1>3 DEF Debt
  <2>5. QED
    BY <1>1, <1>3, <2>1, <2>2, <2>3, <2>4
<1>4. QED
  BY <1>2, <1>3 DEF Accounted

(* What has left a trace keeps it. *)
LEMMA SettledKept ==
  ASSUME woken \subseteq woken', unroutable \subseteq unroutable', failed \subseteq failed',
         UNCHANGED from, NEW x, Settled(x)
  PROVE  Settled(x)'
  BY DEF Settled

(* A step that handles nothing, keeps the traces, and leaves the message   *)
(* at hand or its open mentions, or drops the batch.                       *)
LEMMA GoneKept ==
  ASSUME UNCHANGED <<to, from, handled>>,
         woken \subseteq woken', unroutable \subseteq unroutable', failed \subseteq failed',
         \/ pc' \notin Busy
         \/ todo' = to[current']
         \/ pc \in Busy /\ current' = current /\ todo \subseteq todo'
  PROVE  Gone' \subseteq Gone
<1>1. ASSUME NEW x, ~ Settled(x)' PROVE ~ Settled(x)
  BY <1>1, SettledKept
<1>2. Dropped' \subseteq Dropped
  BY <1>1 DEF Dropped
<1>3. Skipped' \subseteq Skipped
  BY <1>1 DEF Skipped
<1>4. QED
  BY <1>2, <1>3 DEF Gone

(* The same for a step that turns to the next mention: the one at hand has *)
(* left a trace or is added.                                               *)
LEMMA GoneNext ==
  ASSUME UNCHANGED <<to, from, handled>>, pc \in Busy,
         woken \subseteq woken', unroutable \subseteq unroutable', failed \subseteq failed',
         NextMention, NEW h, h = Here
  PROVE  /\ Gone' \subseteq Gone \cup {h}
         /\ Settled(h)' => Gone' \subseteq Gone
<1>1. ASSUME NEW x, ~ Settled(x)' PROVE ~ Settled(x)
  BY <1>1, SettledKept
<1>2. Dropped' \subseteq Dropped
  BY <1>1 DEF Dropped
<1>3. ASSUME NEW x \in Skipped' PROVE x \in Skipped \/ (x = h /\ ~ Settled(x)')
  BY <1>1, <1>3 DEF Skipped, NextMention, Here, Mentions
<1>4. QED
  BY <1>2, <1>3 DEF Gone

(* None is gone, and no failure that leads to giveUp goes uncounted. *)
LEMMA NoneGone ==
  ASSUME faults \in Nat, Gone' \subseteq Gone, faults' \in {faults, faults + 1},
         pc' = "giveUp" => pc = "giveUp" \/ faults' = faults + 1
  PROVE  Accounted
<1>1. Debt \in Nat /\ Debt' \in Nat /\ Debt' <= Debt + 1 /\ faults' \in Nat
  BY DEF Debt
<1>2. CASE faults' = faults + 1
  <2>1. faults + Debt' <= faults' + Debt
    BY <1>1, <1>2, Sums
  <2>2. QED
    BY <1>1, <2>1 DEF Accounted
<1>3. CASE faults' = faults
  <2>1. Debt' <= Debt
    BY <1>3 DEF Debt
  <2>2. faults + Debt' <= faults' + Debt
    BY <1>1, <1>3, <2>1, Sums
  <2>3. QED
    BY <1>1, <2>2 DEF Accounted
<1>4. QED
  BY <1>2, <1>3

(* Unless the process is being stopped, every step is accounted for. *)
LEMMA StepAccounted ==
  ASSUME RInv, faults \in Nat, ~ stopping, [Next]_vars
  PROVE  Accounted
<1> USE DEF Busy
<1>0. /\ (pc \in Busy => current \in posted)
      /\ posted \subseteq Messages /\ handled \subseteq posted
  BY DEF RInv, Tail, CurrentIsFirst, First, Shape
<1>1. ASSUME NEW m \in Messages, NEW text \in Texts, Post(m, text) PROVE Accounted
  <2>1. /\ UNCHANGED <<pc, current, todo, handled, woken, unroutable, failed, faults>>
        /\ \A n \in posted : to'[n] = to[n] /\ from'[n] = from[n]
    BY <1>0, <1>1 DEF Post, pass, results, RInv, Shape
  <2>2. \A x \in Mentions : x[1] \in posted => (Settled(x)' <=> Settled(x))
    BY <2>1 DEF Settled
  <2>3. Dropped' \subseteq Dropped
    BY <1>0, <2>1, <2>2 DEF Dropped
  <2>4. Skipped' \subseteq Skipped
    BY <1>0, <2>1, <2>2 DEF Skipped
  <2>5. QED
    BY <2>1, <2>3, <2>4, NoneGone DEF Gone
<1>2. CASE \/ \E a \in Agents : ChangeRegistration(a)
           \/ CacheExpires \/ Stop \/ UNCHANGED vars
  <2>1. UNCHANGED <<to, from, pc, current, todo, handled, woken, unroutable, failed, faults>>
    BY <1>2 DEF ChangeRegistration, CacheExpires, Stop, vars, world, pass, results
  <2>2. Gone' = Gone
    BY <2>1 DEF Gone, Dropped, Skipped, Settled
  <2>3. QED
    BY <2>1, <2>2, NoneGone
<1>3. CASE Exit \/ Crash
  <2>1. /\ UNCHANGED <<to, from, handled, woken, unroutable, failed, faults>>
        /\ pc' = "idle"
    BY <1>3 DEF Exit, Crash, Restart, EndPass, world, results
  <2>2. Gone' \subseteq Gone
    BY <2>1, GoneKept
  <2>3. QED
    BY <2>1, <2>2, NoneGone
<1>4. CASE Poll
  <2>1. /\ UNCHANGED <<to, from, handled, woken, unroutable, failed, faults>>
        /\ pc' = "see"
    BY <1>4 DEF Poll, Succeeds, Goto, world, results
  <2>2. Gone' \subseteq Gone
    BY <2>1, GoneKept
  <2>3. QED
    BY <2>1, <2>2, NoneGone
<1>5. ASSUME NEW m \in Messages, SeeMessage(m) PROVE Accounted
  <2>1. /\ UNCHANGED <<to, from, handled, woken, unroutable, failed>>
        /\ faults' \in {faults, faults + 1}
        /\ \/ pc' = "route" /\ todo' = to[m] /\ current' = m
           \/ pc' = "idle"
    BY <1>5 DEF SeeMessage, Succeeds, Fails, Breaks, SaveFails, EndPass, Goto, world, results
  <2>2. Gone' \subseteq Gone
    BY <2>1, GoneKept
  <2>3. QED
    BY <2>1, <2>2, NoneGone
<1>6. ASSUME NEW a \in Agents, Resolve(a) PROVE Accounted
  <2>1. /\ UNCHANGED <<to, from, handled, woken, unroutable, failed, current>>
        /\ pc = "route" /\ faults' \in {faults, faults + 1}
        /\ pc' = "giveUp" => faults' = faults + 1
        /\ \/ UNCHANGED todo
           \/ todo' = todo \ {a} /\ from[current] = a /\ pc' = pc
    BY <1>6 DEF Resolve, Succeeds, Fails, Breaks, Goto, world, results
  <2>2. Gone' \subseteq Gone
    <3>1. CASE UNCHANGED todo
      BY <2>1, <3>1, GoneKept
    <3>2. CASE todo' = todo \ {a} /\ from[current] = a /\ pc' = pc
      <4>1. \A x : Settled(x)' <=> Settled(x)
        BY <2>1 DEF Settled
      <4>2. Dropped' \subseteq Dropped
        BY <2>1, <4>1 DEF Dropped
      <4>3. \A x \in Mentions : x[1] = current /\ x[2] = a => Settled(x)
        BY <3>2 DEF Settled
      <4>4. Skipped' \subseteq Skipped
        BY <2>1, <3>2, <4>1, <4>3 DEF Skipped
      <4>5. QED
        BY <4>2, <4>4 DEF Gone
    <3>3. QED
      BY <2>1, <3>1, <3>2
  <2>3. QED
    BY <2>1, <2>2, NoneGone
<1>7. CASE CreatePacket
  <2>1. /\ UNCHANGED <<to, from, handled, woken, unroutable, failed, current, todo>>
        /\ pc = "packet" /\ pc' \in {"enqueue", "giveUp"}
        /\ faults' \in {faults, faults + 1}
        /\ pc' = "giveUp" => faults' = faults + 1
    BY <1>7 DEF CreatePacket, FailsWith, Succeeds, Fails, Breaks, Goto, world
  <2>2. Gone' \subseteq Gone
    BY <2>1, GoneKept
  <2>3. QED
    BY <2>1, <2>2, NoneGone
<1>8. CASE Enqueue \/ Explain
  <2>1. /\ UNCHANGED <<to, from, handled, failed>>
        /\ woken \subseteq woken' /\ unroutable \subseteq unroutable'
        /\ pc \in {"enqueue", "explain"}
    BY <1>8 DEF Enqueue, Explain, FailsWith, world
  <2>2. CASE NextMention /\ Here \in woken' \cup unroutable' /\ UNCHANGED faults
    <3>1. Gone' \subseteq Gone
      <4>1. PICK h : h = Here
        OBVIOUS
      <4>2. Settled(h)'
        BY <2>2, <4>1 DEF Settled
      <4>3. QED
        BY <2>1, <2>2, <4>1, <4>2, GoneNext
    <3>2. pc' = "route"
      BY <2>2 DEF NextMention, Goto
    <3>3. QED
      BY <2>1, <2>2, <3>1, <3>2, NoneGone
  <2>3. CASE pc' = "giveUp" /\ UNCHANGED <<current, todo>> /\ faults' = faults + 1
    <3>1. Gone' \subseteq Gone
      BY <2>1, <2>3, GoneKept
    <3>2. QED
      BY <2>1, <2>3, <3>1, NoneGone
  <2>4. QED
    BY <1>8, <2>2, <2>3 DEF Enqueue, Explain, FailsWith, Succeeds, Fails, Breaks, Goto
<1>9. CASE GiveUp
  <2>1. /\ UNCHANGED <<to, from, handled, woken, unroutable>> /\ failed \subseteq failed'
        /\ pc = "giveUp" /\ NextMention /\ pc' = "route"
        /\ \/ Here \in failed' /\ UNCHANGED faults
           \/ faults' = faults + 1
    BY <1>9 DEF GiveUp, FailsWith, Succeeds, Fails, Breaks, NextMention, Goto, world
  <2>2. PICK h : h = Here
    OBVIOUS
  <2>3. Gone' \subseteq Gone \cup {h} /\ (Settled(h)' => Gone' \subseteq Gone)
    BY <2>1, <2>2, GoneNext
  <2>4. h \in failed' => Settled(h)'
    BY DEF Settled
  <2>5. QED
    BY <2>1, <2>2, <2>3, <2>4 DEF Accounted, Debt
<1>10. CASE Advance
  <2>1. /\ UNCHANGED <<to, from, woken, unroutable, failed>>
        /\ pc = "route" /\ todo = {} /\ pc' \in {"idle", "see"}
        /\ faults' \in {faults, faults + 1}
        /\ handled' \in {handled, handled \cup {current}}
    BY <1>10 DEF Advance, Saves, SaveFails, Breaks, EndPass, Goto, world, results
  <2>2. \A x : Settled(x)' <=> Settled(x)
    BY <2>1 DEF Settled
  <2>3. Dropped' \subseteq Dropped \cup Skipped
    BY <2>1, <2>2 DEF Dropped, Skipped, Mentions
  <2>4. Skipped' = {}
    BY <2>1 DEF Skipped
  <2>5. QED
    BY <2>1, <2>3, <2>4, NoneGone DEF Gone
<1>11. QED
  BY <1>1, <1>2, <1>3, <1>4, <1>5, <1>6, <1>7, <1>8, <1>9, <1>10 DEF Next, RouterStep

(* Shutdowns are counted. *)
LEMMA StopsCounted ==
  ASSUME stops \in Nat, [Next]_vars
  PROVE  /\ stops' \in Nat
         /\ stops' = 0 => stops = 0 /\ (stopping' => stopping)
<1>1. CASE Stop
  BY <1>1 DEF Stop
<1>2. CASE ~ Stop
  <2>1. UNCHANGED stops /\ (stopping' => stopping)
    BY <1>2 DEF Next, RouterStep, Poll, SeeMessage, Resolve, CreatePacket, Enqueue, Explain,
                GiveUp, Advance, Post, ChangeRegistration, CacheExpires, Exit, Crash,
                Restart, vars
  <2>2. QED
    BY <2>1
<1>3. QED
  BY <1>1, <1>2

LEMMA LossStep == RInv /\ LossInv /\ [Next]_vars => LossInv'
<1> SUFFICES ASSUME RInv, LossInv, [Next]_vars PROVE LossInv'
  OBVIOUS
<1>1. /\ stops' \in Nat /\ faults' \in Nat
      /\ stops' = 0 => stops = 0 /\ (stopping' => stopping)
  BY StopsCounted, FaultsCounted DEF LossInv
<1>2. ASSUME stops' = 0 PROVE ~ stopping' /\ GonePaid'
  <2>1. ~ stopping /\ ~ stopping' /\ GonePaid /\ faults \in Nat
    BY <1>1, <1>2 DEF LossInv
  <2>2. QED
    BY <2>1, StepAccounted, AccountedPays
<1>3. QED
  BY <1>1, <1>2 DEF LossInv

LEMMA LossInit == Init => LossInv
<1> SUFFICES ASSUME Init PROVE LossInv
  OBVIOUS
<1>1. Gone = {}
  BY DEF Init, Gone, Dropped, Skipped, Busy
<1>2. IsFiniteSet({}) /\ Cardinality({}) = 0
  BY FS_EmptySet
<1>3. Debt = 0
  BY DEF Init, Debt
<1>4. QED
  BY <1>1, <1>2, <1>3 DEF Init, LossInv, GonePaid

(* Unless the process is stopped on purpose, every mention that disappears *)
(* without a trace has cost two failures, or its message was committed     *)
(* late and overlooked: for any number of messages and agents and however  *)
(* often the router crashes.                                               *)
THEOREM LossesArePaid == Spec => []LossTakesTwoFaults
<1>1. RInv /\ LossInv => LossTakesTwoFaults
  <2> DEFINE lost == {x \in Lost : x[1] \notin Overlooked}
  <2> SUFFICES ASSUME RInv, LossInv, stops = 0 PROVE 2 * Cardinality(lost) <= faults
    BY DEF LossTakesTwoFaults
  <2>1. IsFiniteSet(Gone) /\ 2 * Cardinality(Gone) + Debt <= faults /\ faults \in Nat
    BY DEF LossInv, GonePaid
  <2>2. lost \subseteq Gone
    <3>1. CursorPassesHandled
      BY DEF RInv, Tail, Covered, OnTime, CursorPassesHandled
    <3>2. \A m \in Passed \ Overlooked : m \in handled
      BY <3>1 DEF Passed, Overlooked, CursorPassesHandled
    <3>3. QED
      BY <3>2 DEF Lost, Gone, Dropped
  <2> HIDE DEF lost
  <2>3. /\ IsFiniteSet(lost) /\ Cardinality(lost) <= Cardinality(Gone)
        /\ Cardinality(lost) \in Nat /\ Cardinality(Gone) \in Nat
    BY <2>1, <2>2, FS_Subset, FS_CardinalityType
  <2>4. Debt \in {0, 1}
    BY DEF Debt
  <2>5. QED
    BY <2>1, <2>3, <2>4
<1>2. QED
  BY <1>1, LossInit, LossStep, RouterInvariant, PTL DEF Spec

=============================================================================
