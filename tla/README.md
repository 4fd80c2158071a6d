# Agent Nexus: TLA+ models of its core

Agent Nexus ("anx") keeps shared work objects (topics, threads, boards, cards,
documents) and an event log in one core server, and wakes agents when they are
mentioned or assigned. Two parts of it are hard to get right:

* the chain from *a message mentions an agent* to *that agent has answered once*:
  four processes, two state files, one SQLite database, calls that may be lost
  before or after they took effect, and restarts anywhere, with the
  infrastructure it leans on (idempotent event creation, derived projections);
* the core's own writes. A handler reads outside the transaction in which it
  writes later, blobs live outside the database, and an authorisation is given
  before it is used. Which reads are compared again, and by what, decides what
  concurrent requests can do to onboarding, documents, blobs and boards.

This directory models both, checks the models with TLC and proves the main
safety properties with TLAPS.

All source paths below are relative to the repository root;
`PROJECT.json` maps every definition to its lines (there with the prefix `src/`).

## 1. The system

### 1.1 Components

| component | state it keeps | operations | here |
|---|---|---|---|
| Wake router (`core/internal/router`, started by `core/cmd/anx-core/main.go` through `internal/sidecar`) | cursor and handled ids in a JSON file, principal cache in memory | poll new messages, resolve mentions, create packet, enqueue wakeup, report unroutable or failed mentions | `WakeRouter` |
| Wakeup queue (`core/internal/primitives/agent_wakeups.go`, `server/agent_notifications_handlers.go`, `server/card_assignee_wake.go`) | rows of `agent_wakeups` | upsert, claim, complete, fail, list, read, dismiss | `AgentWakeups` |
| Agent bridge (`adapters/agent-bridge`) | state file (handled, completion pending), retry counts in memory | drain, claim, run adapter, post reply, complete or fail, acknowledge | `AgentBridge`, abstractly `WakeDelivery` |
| Idempotent requests (`core/internal/server/idempotency.go`, `primitives/idempotency_store.go`) | replay table | POST /events with a request key | `IdempotentEvents` |
| Projection maintenance (`core/internal/server/projection_maintenance.go`, `derived_projections.go`, `primitives/derived_store.go`) | generations per thread, dirty queue, two derived tables | mark, list, start, refresh, succeed, fail, rebuild | `ProjectionMaintenance` |
| Authentication and onboarding (`core/internal/auth`, auth handlers of `core/internal/server`) | agents, invites, bootstrap state, passkey sessions in memory | register, passkey options and verify, create and revoke invites, revoke principals | `Onboarding`, abstractly `Admission` |
| Documents (`primitives/docs_store.go`, `server/docs_handlers.go`) | document row with its head, revisions, backing thread | create, revise, patch, archive, unarchive, trash, restore, purge | `DocumentStore`, abstractly `RevisionHistory` |
| Artifacts, quota and blobs (`primitives/store.go`, `blob_usage.go`, `quota.go`, `attachment_store.go`, `core/internal/blob`) | artifacts, blob usage ledger and totals, blob store | write an artifact, write cards, purge, rebuild the ledger | `BlobLedger` |
| Boards and cards (`primitives/boards_store.go`, `server/boards_handlers.go`) | rows of cards, edges with column and rank, `updated_at` of the board | create, patch, revise, move, archive, trash, restore, purge | `BoardCards` |
| Event log, ref edges (`primitives/store.go`) | append-only events | append, list after a cursor | seen through its clients |
| Inbox, human attention, home | derived inbox, read cursors | ask, respond, acknowledge, mark read | ask and respond only, in `ProjectionMaintenance` |
| Topics and threads | plain rows with lifecycle marks | create, patch, trash, restore | as backing threads of documents and parents of cards |
| Event streams (SSE) | a connection's cursor | list after the cursor | not modelled |
| Limits, schedules, heartbeat, secrets, handles, schema, migrations | small or none | validation, arithmetic, DDL | not modelled |
| CLI, web UI, MCP server, contracts, deployment | clients | HTTP calls | not modelled |

### 1.2 How they interact

```
 POST /events ──> event log ──poll──> wake router ──packet, row──> wakeup queue
      |  (IdempotentEvents)  (WakeRouter)                          (AgentWakeups)
      |                                                              |    ^
      +──mark dirty──> projection maintenance                  list, claim, complete, fail, read
      |                (ProjectionMaintenance)                       v    |
      +<───────────── reply under a request key ───────────────  agent bridge(s)
                                                                 (AgentBridge)
```

The bridge posts its reply through the same `POST /events` with a request key
derived from the wakeup, so what `IdempotentEvents` says of a key is what
`AgentBridge` uses in `AppendReply` and `KeyAccepts`.

```
 registration, passkeys, invites ──> agents, invites          (Onboarding)
 document calls ──> rows, revisions, backing threads          (DocumentStore)
 card calls ──────> rows, edges, board timestamp              (BoardCards)
        |  every artifact and revision has a content
        v
 quotaMu, write lock, ledger and totals | blob store outside  (BlobLedger)
```

Documents, cards and attachments write their contents through the same ledger;
`BlobLedger` has the two forms this takes (blob before the commit, blob after
it), and `DocumentStore` and `BoardCards` leave the contents out.

### 1.3 What is hard, and what correctness means

* **Router.** A batch may be abandoned anywhere; the cursor is written in memory
  and then in a file; a routing failure is swallowed after an attempt to report
  it; a message may be committed behind the cursor. *Correct:* no message that was
  committed in order is skipped, each of its mentions becomes a wakeup or leaves
  a trace unless two calls failed, no wakeup without its packet, no false "not
  taggable" from a cache.
* **Queue.** Claims race; reports come late; read and dismiss check first and
  write later. *Correct:* one owner for good, settled is settled, dismissed is
  dismissed.
* **Bridge.** Reply, handled mark, pending mark and completion are four separate
  effects. *Correct:* one instance runs the agent, extra runs only by a crash or
  a lost call, completed means answered, and a row stays claimed for ever only after
  a crash between two of the four, or several failures (3.1).
* **Request keys.** Lookup, insert, load and record are four steps. *Correct:*
  one body per key, retries agree (as far as the code makes them, 3.1).
* **Projections.** Refreshes run outside the lock and from several places.
  *Correct:* "materialized" is true, nothing stays dirty or in progress, a
  rebuild repairs what best-effort marks have missed.
* **Onboarding.** A token is checked outside the transaction that spends it, a
  passkey registration takes two requests, a call takes effect after it was
  authorised. *Correct:* a token admits one principal, only while it is neither
  spent nor revoked and only if the registration began before it expired; only an
  authority invites, nobody locks the humans out by accident.
* **Documents.** A call writes back a row that it loaded earlier; heads and
  timestamps are compared before the transaction. *Correct:* no write on top of
  something its client has not seen, and the three losses that do exist need two
  calls that overlap.
* **Blobs.** A content is shared by all artifacts that have it, and no
  transaction covers the store. *Correct:* every artifact has its blob and every
  blob an artifact, the ledger says so, except after the overlaps and failures
  the code accepts.
* **Boards.** Ranks are midpoints that run out, the column is stored twice, and
  a move is wrapped in reads and an event. *Correct:* a card stands where the
  call wanted it, done means resolved with evidence, events are true.

`PROJECT.json` lists each hazard at its line with the properties that cover it,
or the reason why none does.

## 2. The modules

| module | models | theorems in |
|---|---|---|
| `AgentWakeups` | the queue rows and the two-step read/dismiss handler, under arbitrary clients | `AgentBridge_proofs` |
| `AgentBridge` | any number of bridge instances on that queue (EXTENDS `AgentWakeups`) | `AgentBridge_proofs` |
| `WakeDelivery` | abstract: one owner, runs by the owner, one reply | implemented by `AgentBridge` |
| `IdempotentEvents` | requests that share one request key | `IdempotentEvents_proofs` |
| `RequestKey` | abstract: one event and one winning body, one-step answers | implemented by `IdempotentEvents` |
| `WakeRouter` | the router sidecar | `WakeRouter_proofs` |
| `ProjectionMaintenance` | the refresh protocol of one thread | `ProjectionMaintenance_proofs` |
| `RefreshLedger` | abstract: requests for a refresh, served once their writes were shown | implemented by `ProjectionMaintenance` |
| `Onboarding` | tokens, registrations, invites, revocations | `Onboarding_proofs` |
| `Admission` | abstract: tickets that admit one member | implemented by `Onboarding` |
| `DocumentStore` | the writing calls on documents | `DocumentStore_proofs` |
| `RevisionHistory` | abstract: each revision on the head its author saw | implemented by `DocumentStore` |
| `BlobLedger` | contents, ledger, quota | `BlobLedger_proofs` |
| `BoardCards` | the cards of one board | `BoardCards_proofs` |
| `MC*` | symmetry sets and message sets for TLC | |

Definitions named `X_Something` that a comment calls *Mutant* are variants of `X`
with a plausible bug; they are used by nothing except the mutation runs, which
put one in the place of `X` and expect the property named with it to fail.

### 2.1 AgentWakeups

`rows[w]` is the row of wakeup `w`: status, owner (`bridge_instance_id`), the
notification status, and whether `completed_at` and `failed_at` are set. Each
SQL statement is one action with its WHERE clause as guard: a claim needs
`requested`, or `claimed` by the same instance; a completion or failure report
only needs the owner to match. `checked` holds the read and dismiss requests that
have passed the handler's check and whose update is still to come. One target
actor is enough: every statement filters by it.

### 2.2 AgentBridge

`pc[b]` names the next call of `_handle_notification` in instance `b`; each
action is one call to the core, one write of the state file or one adapter run.

| action | code (`bridge.py`) |
|---|---|
| `Drain`, `Take*` | `_drain_notifications`, the early returns of `_handle_notification` |
| `FetchPacket`, `ClaimWakeup` | artifact fetch, `_claim_wakeup` |
| `Dispatch`, `AgentPosts`, `AdapterReturns`, `AdapterFails` | message baseline, adapter run |
| `Inspect`, `PostReply` | direct-answer test, `_post_reply_message_with_retries` |
| `Consume`, `MarkPending`, `Complete`, `ClearPending`, `ConsumeSilent` | writeback |
| `CompleteAgain`, `ClearPendingAgain` | completion retry of a handled wakeup |
| `FailAndReturn`, `FailThenRead`, `AckRead` | failure report, read acknowledgement |
| `Crash` | process death: memory is what the file holds |

A call may fail before or after it took effect, a file write before or after the
rename, with memory changed in either case, as in `JSONStateStore.set`.
`runners`, `runs`, `answer`, `before` and `gaveUp` are history variables and
guard nothing: `before[w]` is what the thread held when the latest run of `w`
began, `gaveUp[b]` the wakeups that `b` has marked handled by giving them up. All
wakeups share one thread, which is where instances can disturb each other, and
the agent posts at most one message of its own for each wakeup.

The bridge looks for messages of its actor that are new since the run began. So
`CompletedIsAnswered` and `MarksAreEarned` can promise no more than `Answered`: a
reply of the bridge for the wakeup, or a message since its latest run began that
is of that run or of a wakeup *another instance* owns. Messages from before the
run, or of this instance's other wakeups, do not count.

### 2.3 IdempotentEvents

One request key and one actor. `event[i]` is the event stored under id `i`: the id
derives from the key unless the body brings one (`IdOf`). `record` is the row of
the replay table. The steps are `ReadReplay`, `AppendEvent`, `LoadExisting` (after
a conflict), `PersistReplay` and `Reread` (after a replay conflict); `Cut` ends a
request before any of them (client gone, error, crash). A body and its hash are
one model value. `Trimmed` is what the handler does to the body in place between
the two hashings: the replay is looked up with the hash of the body as it came
(`primitives_handlers.go:70`), and recorded with that of the trimmed one (92, 138,
165). An insert may conflict although the id is free, because the event's handle
is unique too and is chosen before the insert; a load that fails or finds nothing
ends in 409 "event already exists" (`exists`), other than the 409 for a key that
is reused with another body (`mismatch`).

`RequestKey` is what a client may assume, without database steps: events that
are stored once, a body that wins once, and per request one answer that agrees
with both, or none (`Drop`: a lost request or a failed load, which says nothing
of the body). The mapping shows nothing of a request before its answer and takes
the hash of the record for the winner. That the event need not be the winner's
is part of the promise, because the code allows it (3.1).

### 2.4 WakeRouter

Messages are numbered in the order the router lists them, `(ts, id)`. The
timestamp is taken before the insert, so a message may be committed after one
with a larger number; such messages are recorded in `late`. The goroutine is
sequential (`pc`, `batch`, `current`, `todo`, `mention`); posting, registration
changes, cache expiry, crash and shutdown interleave between its calls. While
the process is stopping, any call that takes the context may fail without
costing a fault, since the context is cancelled; the writes of the cursor take
none. Every update of the state file also saves the cursor in memory.

Left out: messages without a thread (the code drops them silently), the limit of
200 principals, packet contents, readiness (no routing decision depends on it),
and a corrupt state file (the process exits).

### 2.5 ProjectionMaintenance

One thread, one dirty generation counter. Processes are requests and background
workers; an empty set of workers is manual mode. Request kinds:

| kind | code | steps |
|---|---|---|
| `append` | `primitives_handlers.go` | write, mark |
| `ask` | human-attention requests | write, mark, `RefreshThread` |
| `respond` | `inbox_ask_handlers.go:170-175` | write, inline refresh, no mark |
| `card` | `boards_handlers.go:1856-1880` | write, mark, inline refresh |
| `rebuild` | `RunFullRebuild` | mark, then pass over what is dirty |

`stepMu` is held for start with clear, for requeue with the failure mark, and
for success; the refresh itself (read, inbox table, view table) runs unlocked,
as in the code. The listing is the queue together with every thread whose
desired generation exceeds the materialized one, so an entry that was cleared
before a crash is found again. A failed call has no effect (local SQLite); a
crash ends everything in flight. `marked`, `shown`, `began` and `overlapped` are
history variables.

`RefreshLedger` is what the status row promises: marks are requests for a
refresh, `served` is the materialized generation; it only grows, and to a
generation whose writes were shown by some refresh that finished.

Left out: the other threads (a failure of theirs only ends a pass early), the
batch size and order of a pass, timestamps and error texts. The reads of one
refresh are one step.

### 2.6 Onboarding

Every registration attempt `r` may create the principal of the same name.

| action | code |
|---|---|
| `ClaimForAgent`, `PasskeyOptions` | the check of the token (`ResolveOnboardingClaim`), outside any transaction |
| `PasskeyVerify`, `Reap` | the second request of a passkey registration; sessions are in memory and expire |
| `BeginRegister` | `RegisterAgent`, `RegisterPasskeyAgent` take the time (`auth/store.go:269`, `auth/passkeys.go:87`); an agent's registration does so again when the database was busy |
| `Register` | the registration transaction: spend the token, create the principal, or roll back |
| `Authenticate` | a call gets its principal; `CreateInvite`, `RevokeInvite`, `RevokePrincipal` act on it later |
| `Tick`, `Restart` | the clock; a restart ends all sessions and calls |

The clock counts whole seconds. When a token is spent, its expiry is compared with
the time the registration `began`, not with that of the transaction, which may
wait 20 seconds for the database (`storage/workspace.go:120`): an invite may admit
after its expiry, and the model lets the clock run in between. The comparison is
of RFC3339Nano *text*, where `...00Z` sorts after `...00.5Z`, so an invite is still
good in the second in which it expires; `SpendInvite` says `>=` where `Resolves`
says `>`. `Admission` promises no more than the code: who came to the `door` before
the ticket expired may be let in later, unless it was spent or made void
meanwhile, and nobody comes to the door with an expired one. `lockout` is history:
the last human was revoked by a call that allowed it.

Left out: keys and their rotation, access and refresh tokens, external grants,
the audit log, user names.

### 2.7 DocumentStore

A request is a chain of steps of the handler and the store: the client's read
(`SendBasedOnRead`), the check in the handler (`CheckRevision`,
`CheckPlainRevision`), the load of the row (`LoadChecked`, `LoadPlain`), and the
transaction (`PatchDocument`, `UpdateDocument`, the lifecycle calls).
`CreateDocument` and `PurgeDocument` have their reads inside. What a transaction
compares again is in its guard (`updated_at` for a patch, the head and the
revision number for a revision, nothing for archive, trash, restore and
unarchive); what it writes back from the loaded row is taken from `saw`.
`commits` is the history of what took effect, with the place in it at which the
caller read and the store loaded; the properties are stated on it.

`RevisionHistory` is what a reader may assume: each document is a chain to which
a call appends one revision with the current head as its base, or which a purge
ends. Left out: contents (in `BlobLedger`), titles, labels, lists, edit-window
rules and replays of create.

### 2.8 BlobLedger

A content stands for its hash. `metering` is `quotaMu`, taken only if there are
limits; `writer` is SQLite's write lock, held from the first write of a
transaction to its commit. A call that read before it wrote is one step: SQLite
refuses its write if another transaction committed in between.

| action | code |
|---|---|
| `StartArtifact`, `StartCards`, `EnsureLedger` | start of a write, first use of the ledger |
| `ListContents`, `BeginRebuild`, `StatContent`, `CommitRebuild` | `RebuildBlobUsageLedger`: list, then inspect and replace in a transaction |
| `PlanArtifact`, `PromoteArtifact`, `CommitArtifact` | artifacts, attachments, document revisions: the blob is in place before the commit |
| `CommitCards`, `PromoteCard` | cards: the blobs are moved into place after the commit |
| `Purge`, `DeleteBlob` | references counted inside, blobs deleted after the commit |
| `FailCall`, `Crash` | a failing statement or file operation, process death |

`drift` and `disturbed` collect the contents for which an overlap or a failure
of a kind the code does not repair has happened; the properties say that nothing
else can be wrong. `drift` is forgotten by a rebuild, which repairs the ledger;
nothing repairs a blob, so `disturbed` only grows. `misled` remembers that there
ever was such a content, for the checks that went by a wrong ledger (3.1).

Left out: the size of the database file in the quota, the difference of the two
backends, sizes in the ledger beside the content (a function of it).

### 2.9 BoardCards

A card is one record for its row and its edge: `col` and `rank` are the edge's,
`listed` is the `column_key` of the row, which only some calls write. `Placed` is
`allocateBoardCardRank`: the midpoint of the neighbours, or after a rebalance of
the column if there is none. `fresh` holds the requests whose board `updated_at`
is still the current one; every write empties it (`Touch`). A move is
`ReadBoard` by the client, `LoadCardForEvent` by the handler, `MoveBoardCard` in
the store, and `EmitMoved`. `back` is history: the card was restored once.

Left out: titles, bodies, assignees, revisions, batches, events other than
`card_moved`, and the lifecycle of the board itself. `MaxRank` stands for the
end of the integers.

## 3. The runs

| run | question | result |
|---|---|---|
| `bridge_pair` | two instances, one wakeup, two faults and a crash | one owner, one reply, extra runs paid by faults, implements `WakeDelivery` |
| `bridge_retries` | one instance, real limits (3 attempts), six faults, a crash | marks in the state file are earned, every wakeup settles but after a crash between two marks or three failures (3.1), pending completions complete |
| `router` | two agents, two messages, cache and registrations changing | a mention in a message that was not overlooked is lost only by two failures, packet before row, no false report |
| `router_live` | batches of one, fault, crash, shutdown, late commit | cursor skips nothing committed in order, and passes everything |
| `request_key` | four requests, four bodies, two event ids | one body accepted, trimmed retries match, implements `RequestKey` |
| `projections` | two requests beside a worker, fault, crash | implements `RefreshLedger`, nothing stuck, stale only by overlap |
| `onboarding` | three registrations, two invites, two administrative calls | one admission per token, invites by authorities, humans stay, implements `Admission` |
| `documents` | three overlapping calls of any kind | no blind write, losses only by the named overlaps, implements `RevisionHistory` |
| `blobs` | three writes, purges or rebuilds, a failure, with and without limits | blobs, ledger, totals and quota wrong only by the named overlaps |
| `boards` | three cards, ranks that run out, moves | cards land where asked and the others keep their order, done is consistent, events are true |
| `bridge_retry_refused` | does a failed attempt get its retry? | **no** (finding) |
| `projection_stale` | do projections catch up without failures? | **no** (finding) |

The two findings are disagreements between a sentence of the repository and what
the code does; `PROJECT.json` quotes each sentence with its place:

1. A failed attempt fails the row, and the scheduled retry cannot claim a failed
   row; the limit of three attempts is never reached through failed runs.
2. A maintainer refresh and an inline refresh overlap, the older snapshot is
   written last, and the status says current.

### 3.1 What the code does beyond its promises

The following is behaviour of the code that the models have and that a reader
of its documentation may not expect. The properties are stated around it.

* A read acknowledgement that passed its check before a dismissal is written
  after it, and the notification is listed again (`agent_notifications_handlers.go`).
* Any new message of the actor in the thread suppresses the fallback reply, also
  one that another bridge instance posted for another wakeup. A wakeup may then be
  completed with no answer of its own; `Answered` says which messages can do this.
* A crash between the handled mark (`bridge.py:245`) and the completion-pending mark
  (247) leaves the row claimed for good: the restarted bridge finds the wakeup
  handled with nothing pending and only acknowledges it. Without a crash it takes
  at least three failures, such as those of the handled mark, of the completion
  and of the failure report: the next pass then writes the handled mark with no
  completion pending. `WakeupSettles` allows this and nothing else.
* Between the stored event and its recorded answer, a request with the same key
  and another body is answered 201 with the first one's event.
* If the load after a conflict fails, or the conflict was about the handle of the
  event, the answer is 409 "event already exists", also to the accepted body
  (`primitives_handlers.go:131-153`).
* A body whose type has blanks around it is recorded by the hash of the trimmed
  one: its own retry is refused as "does not match the original request body",
  while the trimmed one is taken for equal.
* Bodies with ids of their own may store several events under one key; only one
  of them is recorded and answered with 201.
* A message that is committed once the cursor or a listing is past its place is
  never listed; its mentions disappear with no failure at all (`Overlooked`).
* An invite may admit after it expired, if the registration began before and the
  transaction had to wait (2.6).
* At a graceful shutdown the routing calls fail with the cancelled context while
  the cursor, which needs none, is moved and saved: a mention may be passed
  over. `LossTakesTwoFaults` is checked without shutdowns.
* A card may move without its `card_moved` event, which is appended best effort
  after the move (`EmitMoved`), while `core/docs/spec-compliance.md:38` says that
  cards and their events "commit together or fail together".
* A document can be archived and trashed at once, and trashed twice with two
  events, if two lifecycle calls overlap (`MarksExclude`, `TrashEventsAlternate`).
* A revision that gives no summary writes back the one it loaded and so undoes a
  patch of the summary made in between (`SummaryIsLatest`).
* A purge that overlaps a write of the same content deletes the blob of the new
  artifact; a crash between the commit of cards and the promotion of their blobs
  leaves revisions without content (`BlobsFollowArtifacts`).
* The quota of a batch of cards is checked card by card against the state
  before the batch (`QuotaRespected`).
* A rebuild that overlaps a write can leave a content out of the ledger. Until
  the next rebuild the byte quota is then checked against totals that are too
  small, and more is let in than fits; that rebuild shows it but does not undo
  it. The shortest such behaviour has four calls. `QuotaRespected` therefore
  speaks of bytes only while no content was ever in doubt (`misled`).
* `GET /cards` shows the column of the row, which a plain move does not write:
  the listed column is stale until something else writes it. Only *done* agrees
  in both (`DoneIsConsistent`).
* Restoring a card does not ask whether its thread has got another card
  (`ThreadHasOneCard`).

### 3.2 Bounds

| bound | where | why it is enough |
|---|---|---|
| 1 wakeup, 2 instances, 2 texts | `bridge_pair` | races are between instances for one row; a second text shows reruns with another reply; two wakeups interact only through the thread (3.1), and the theorems have any number of them |
| `FailureLimit` 2, `PostAttempts` 2 | `bridge_pair` | first, middle and last attempt differ from 2 on; `bridge_retries` has the real 3 |
| `MaxFaults` 2 / 6 | bridge runs | 6 lets all three posts fail and the reports around them |
| `MaxCrashes` 1 | all | a second crash starts from a state that the first one already reaches with other faults |
| 2 messages, `BatchSize` 1 and 2, `MaxLate` 1 | router runs | one message behind the other in a batch and across two batches; one late commit between them |
| `MaxChanges` 1, `MaxStops` 0 or 1 | router runs | one registration or revocation during a pass; `LossTakesTwoFaults` speaks of runs without a shutdown; both runs have the late commit |
| 4 requests, 4 bodies, 2 ids | `request_key` | two equal ones against two others in every step; a padded body, another with the same id, one with an id of its own; each id free or taken at first |
| 2 requests, 1 worker, 1 fault, 1 crash | `projections` | any two kinds with the worker: three refreshes may overlap |
| 3 registrations, 2 invites, 2 calls | `onboarding` | two claim one token while a third, admitted before, invites or is revoked; two humans revoke each other |
| `MaxTime` 2, `SessionTTL` 0, lifetimes 1 | `onboarding` | issue, the second of expiry and the one after it, where a registration that began earlier may still spend; a session outlives its second or not |
| 3 requests on one document, creates of a second | `documents` | each loss needs two calls, the third shows it is not undone or doubled; the second document competes for threads |
| 3 calls, 3 contents of one byte, 2 cards in a batch | `blobs` | a content shared, one overlapping, one apart; a batch larger than the room left; `BlobLedger_proofs` has any number of calls, which the quota needed (3.1) |
| quotas none, or 2 artifacts and 1 byte | `blobs` | both limits reached by two calls |
| 3 cards, 3 columns, `RankStep` 2, `MaxRank` 6 | `boards` | midpoints run out after one move and numbers after three cards, so rebalances and ties occur; two cards share a thread |
| `Refs` of three kinds | `boards` | no refs, refs with evidence, refs without it |
| not every call on every card | `boards` | card 1 has all calls, 2 is created and moved, 3 created: neighbours of both kinds |

The passing `projections` run leaves out kind `card` to keep the state space
small: its steps are those of `append` followed by those of `respond`. The
proofs cover all kinds and any number of processes, and `projection_stale`
includes it.

Deadlock is checked wherever the system cannot stop. It is off for
the router, whose next states end with the bounded messages, changes and
crashes, and for projections, where all requests may be finished in manual mode
or the worker may have nothing to do. `IdempotentEvents` has an explicit
stuttering step when all requests are done. In `onboarding`, `documents`, `blobs`
and `boards` requests are finite in number, made once, or bounded by the clock,
so an end is expected.

### 3.3 Fairness

* Bridge: weak fairness of each instance (`run_forever` polls every 30 seconds
  and catches every exception), of a due retry (time passes), and of an update
  that has passed its check (the server executes it). Nobody has to enqueue,
  post, read or dismiss.
* Router: weak fairness of its steps (the ticker polls for ever) and of the exit
  of a stopping process (shutdown has a deadline, the supervisor restarts it).
* Projections: weak fairness of each process that has begun; the worker's ticker
  and notification channel wake it. No request has to be sent.
* Faults, crashes, late commits and changes are never forced, and there are
  finitely many of them: liveness says that the system recovers once they stop.

## 4. The proofs

Everything below is proved for every value of the constants: any sets of
wakeups, instances, agents, requests and bodies, any limits, any number of
faults and crashes. The assumptions are the named ASSUMEs on the constants (the
null values are not members of the sets they stand beside, the outcome "none" is
no text, trimming a trimmed body changes nothing, and limits are natural
numbers); TLC evaluates them too.

**Queue** (`QueueInvariant`, `SettledForGood`, `OwnerForGood`). `RowOK` relates
the columns of a row: no owner before a claim, an owner while claimed, no settling
timestamp before settling. Without the second part the claim guard would let a
row with a timestamp be claimed again, so `SettledIsFinal` alone is not
inductive. There is one lemma per SQL statement, used again for the bridge.

**Bridge** (`BridgeInvariant`, `TypeCorrect`, `RunByOwnerOnly`,
`NoRunAfterSettling`, `DeliveryImplemented`). Every bridge step is a queue step
or leaves the rows alone (`QueueFrame`), so the queue's invariant carries over.
What the queue cannot know is `ClaimHolds`: between the answer to its claim and
the start of the adapter an instance still owns the row, and the row is still
claimed, because only the owner can settle it and the owner is at this
very step. From the adapter's start to the post, the instance is among the
runners. The proof goes by the moves of the program counter: most actions only
move one instance, and `MovesBy` reduces them to where they move it. The
refinement maps `owner` to the owner column; a claim becomes `Acquire`, a
dispatch `RunAgent`, an appended reply `Answer`, and all else stutters.

**What the bridge remembers** (`PendingHandled`, `RerunsArePaid`, `EarningsHold`,
`CompletedAnswered`, `MarksEarned`). `MemoryOK` relates the two files of an
instance to its memory: the handled file is behind memory and the pending file
is covered by the handled one, because the code flushes in that order. A wakeup
is `Spent` when its row is settled or its owner `Keeps` it (is past the start of
the adapter, or remembers it). A run starts only for a wakeup that is not spent
and spends it; only a crash or a failed call turns a spent wakeup back into
one that is not. That is the count `RunsPaid` keeps, and `RedispatchTakesAFault` follows.
`Earned` says of a wakeup that its latest run ended and that the thread answers it
if a text was returned; it holds wherever an instance is on its way
to complete a wakeup (`EarnedOK`, `Owned`), and stays, because nobody can start
another run while the row is settled or its owner is elsewhere (`Quiet`), and
messages are never taken back. With several wakeups in the thread the bridge
cannot tell whose a new message is; `RunOK` says what it may rely on: while an
instance runs, the baseline it knows is what was there before, and what has come
since is of this very wakeup or of one that another instance owns, because the
instance itself is busy and no other instance speaks for its wakeups. No
assumption limits wakeups, instances, crashes, faults or attempts.

**Router** (`RouterInvariant`, `NothingSkipped`, `PacketBeforeWake`,
`ReportedWasOff`, `LossesArePaid`, `TypesHold`). `CursorPassesHandled` needs to know that the cursor moves from
one message to the next without a gap: `BatchHasNoGap` says that what was
committed in order between the cursor and a message of the batch is in the batch
as well, and `CurrentIsFirst` that the message at hand is the first of it. That a
listing has no gap is the lemma `FirstOfIsPrefix`. For the reports, `OffNow` says
that an agent that is off at present has been off at some time since every message so far;
the second lookup of the code, made on a refreshed cache, is what carries it over.
For the losses, `Gone` adds to the mentions that are lost those the message at
hand has already passed by (`Skipped`), and `Debt` is the failure that has been
paid when the router is about to report a mention it could not route. Mentions of `Overlooked` messages are not counted: they are lost for nothing. Twice
the number of `Gone` plus the debt never exceeds the faults; that `Gone` is
finite is part of the invariant, so the sets of messages and agents need not be.

**Request keys** (`AtMostOneBody`, `AnswersShowEvent`, `RetriesAreSafe`,
`RequestKeyImplemented`, `TypesHold`). The record is written at most once and
always shows a stored event; each accepted request carries the record's body up
to trimming, each mismatch another than the record's. For the refinement, a step either answers nobody, and
then nothing that is seen changes (`UnseenStep`), or answers one request and
changes its view alone (`AnsweredStep`). The answer is `Accept` where the record
is written or has the body's hash, `Refuse` where it has another: both need that
the record is only ever missing or final. Lost requests and failed loads are
`Drop`.

**Projections** (`ProjectionInvariant`, `ReportsAreTrue`, `StaleOnlyByOverlap`,
`NothingInFlightForever`, `RebuildIsComplete`, `LedgerImplemented`, `TypesHold`). `Generations`
orders the counters of the status row and of the processes; `ReadEnough` says
that a refresh started for a generation has read what was written when that
generation was marked, because the start comes before the read; `Reported`
carries it to success; `OneAtATime` describes the tables as long as no two
refreshes have overlapped; `Rebuilding` says that the newest generation covers
what was written before a rebuild began. In the refinement a mark is `Ask`, the
put of the summary `Show` if it is newer than all before, and a success `Serve`;
a failure, a crash, a start or a clear changes nothing the ledger has, so none
of them can take a report back.

**Onboarding** (`OnboardingInvariant`, `TokensAdmitOnce`, `OnlyAuthoritiesInvite`,
`NoAccidentalLockout`, `AdmissionImplemented`). A claim that was checked is only
a memory: the invariant must not say that its token is still open, and it does
not. What carries `TokensAdmitOnce` is the guard of the UPDATE that spends the
token. `OnlyAuthoritiesInvite` needs that a call in flight belongs to a
principal that exists, revoked or not, since an invite may be issued after its
issuer was revoked. `NoAccidentalLockout` is inductive because the revoking
transaction counts the humans itself. The refinement maps an invite to a ticket
by its consumer, its revocation and its expiry, taking the time of a registration
to `Knock`, the clock to `Expire`, and each registration that commits to `Admit`.
That the door stays open to those who began in time needs that a request holds
only tokens that were issued (`ClaimsAreIssued`).

**Documents** (`DocumentInvariant`, `NothingOverwrittenBlindly`,
`SummariesLostOnlyByOverlap`, `MarksMeetOnlyByOverlap`, `TrashTwiceOnlyByOverlap`,
`ThreadsStayBound`, `HistoryImplemented`, `TypesHold`). `StepKinds` reduces every step to a
quiet one or to one of five kinds of write. A handler's reads happen outside of
the transaction, so `LoadedOK` may say of what a call loaded only what other calls cannot
undo: either the head has moved (and to a revision that is new, because a
request writes one: `Used`), or number and thread are still those of the row. That is
why the comparison of the head alone protects the revision number, the base and
the thread that is released. `HeadStands` says the same of the commits since the
client's read, and `TimestampsOK` does it for the timestamp. For the lifecycle
calls, which compare nothing again, `LoadedOK` names the commit that came between
(a trash since an archive loaded, an end of the trash before a trash loaded), and
`Shows` says which summary a loaded row stands for. The refinement reads a
document's chain off the revisions by their numbers, which `RevisionsOK` shows to have no gap and
no repetition.

**Blobs** (`BlobInvariant`, `BlobsAreThoseOfArtifacts`, `LedgerIsOfArtifacts`).
Between plan, promotion and commit a content may be in the store without an
artifact, and after the commit of cards an artifact without its blob; the
invariant names for each stage what the call owes. The write lock gives that at
most one call is between its first write and its commit; a rebuild between its
listing and its commit has recorded in `met` every content that changed.

**Totals, types and quota of the blobs** (`CountInvariant`, `TotalsAddUp`,
`TypesHold`, `QuotaInvariant`, `QuotaKept`). The code's sum is a fold over a set
of contents, and the library's theorems about folds need induction over an
operator. Instead, `SumCounts` shows that the sum of the sizes is the number of
pairs of a content and one of its bytes: a smallest set for which it is not
would have an element, and without it be a smaller one. From there on the sum
behaves as a cardinality does (`MeasureAdds`, `MeasureTakesOff`, `MeasureGrows`),
and the totals are exact because a row that is there is not counted again and a
row that is not there is not counted off. That the totals stay natural numbers
follows from their being a sum, so `TypesHold` comes after `TotalsAddUp`. For the
quota, `OneMetered` says that `quotaMu` belongs to the call that is writing, and
that it plans with totals at hand; `ArtifactsFit` and `BytesFit` say that what a
call has *checked* still has room, although purges and rebuilds, which take no
`quotaMu`, come between check and commit: they only make room, and a rebuild
that met no write finds nothing that was not counted (`RebuildFits`). A content
counts as free when its blob is in the store; that it is then in the ledger too
(`PlanFits`) is where the ledger must never have been wrong. `BatchWeighs` bounds
what a batch adds by the card that was checked and the largest size for each of
the others. The proof assumes of the constants that batches and sizes are
bounded, as request bodies are (`server/handler.go:629`).

**Boards** (`BoardInvariant`, `TypeCorrect`, `CardsLandWhereAsked`,
`DoneStaysConsistent`, `EventsTellTheColumn`, `OneCardPerThread`). Rank and id
order the cards of a column totally (`AheadIsTotal`), so a place splits the
column into what is ahead and what is not (`FrontIsAhead`); the order of the cards
that stay is compared pair by pair, without the one that is moved; a rank with room on
both sides is strictly between (`RankFits`); a rebalance keeps the order
(`RebalanceKeepsOrder`) and leaves steps of `RankStep` between neighbours. That
the event is true needs `LoadedIsCurrent`: while a request's board timestamp is
current, the column it loaded is.

### 4.1 Model-checked only

* Liveness: `WakeupSettles`, `PendingCompletes`, `RouterCatchesUp`,
  `DirtyIsRefreshed`. Liveness under fairness and ENABLED are out of the
  prover's reach.

## 5. Limits of the models

* A call that is lost or fails is modelled; one that is delayed past the next
  call of its sender is not.
* The SQLite database is atomic per statement or transaction and survives
  crashes; the state files survive them by the atomic rename.
* Time is absent except for its effects: a retry becomes due, a cache expires, a
  message gets its place in the order before it is committed.
* The card-assignment path appears as an enqueue only; the packet it stores is
  flat, unlike the router's.
* SQLite's isolation is used as the code configures it: one writer, and a
  transaction that read before a commit of another cannot write.
* Each module has its own state. The modules meet in what they take from each
  other (1.2), not in a common next-state relation.
* The handled set of the bridge is not truncated (the code keeps 5000 ids).

## 6. What is left

* `WakePath`: the router's wakeups as the source of the bridge's queue, one
  composition from message to answer.
* `ThreadQueue`: the order of a maintenance pass over several threads, and the
  thread that always fails in front of it.
* Tokens: access and refresh tokens, key rotation, external grants.
* The lifecycle of boards and topics, the other handlers with a request key,
  reference edges of events, acknowledgements of the inbox.

Most of the repository's lines are commands, rendering, validation, SQL text and
generated clients. They keep no state that two actors share and are not
modelled; `PROJECT.json` names each of these parts.
