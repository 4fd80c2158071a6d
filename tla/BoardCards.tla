----------------------------- MODULE BoardCards -----------------------------
(***************************************************************************)
(* The cards of one board: core/internal/primitives/boards_store.go and    *)
(* the handler that moves a card in core/internal/server.                  *)
(*                                                                         *)
(* Where a card stands is stored twice: in the metadata of the edge from   *)
(* the board to the card (column_key and rank), which the board views and  *)
(* every store operation read, and in the column_key of the card's own     *)
(* row, which GET /cards shows.  The order in a column is that of the      *)
(* ranks, ties broken by the card's id; a rank between two neighbours is   *)
(* the midpoint, and when there is none all live cards of the column get   *)
(* new ranks in the same transaction.                                      *)
(*                                                                         *)
(* Each operation of the store is one transaction and one step.  A move is *)
(* several steps: the client reads the board's updated_at, the handler     *)
(* loads the card for the event it will append, and the store moves the    *)
(* card if the timestamp is still that.  The optional if_board_updated_at  *)
(* of the other calls and the if_updated_at of a patch only add refusals,  *)
(* which change nothing.  Cards are numbers in the order of their ids.     *)
(* Titles, bodies, assignees and revisions, the rank in the row of the     *)
(* card, and the collaboration events other than card_moved are left out;  *)
(* a batch of creates is CreateCard several times in one transaction.      *)
(***************************************************************************)
EXTENDS Integers, FiniteSets, FiniteSetsExt

CONSTANTS
    Cards,      \* ids of cards
    Columns,    \* column keys of the board, "done" among them
    ThreadOf,   \* the thread that related_refs of a card's create name
    NoThread,
    Calls,      \* which calls the clients make on a card
    Refs,       \* resolution_refs: "none", "proof" with an artifact or event, or others
    Requests,   \* handlers of POST .../move
    RankStep,   \* boardRankStep
    MaxRank,    \* math.MaxUint64
    Nil

\* col and rank are in the edge, listed is column_key in the row of the card.
Card == [col : Columns, rank : 1..MaxRank, listed : Columns,
         resolved : BOOLEAN, refs : Refs, parent : {ThreadOf[c] : c \in Cards},
         archived : BOOLEAN, trashed : BOOLEAN, back : BOOLEAN]

ASSUME BoardAssumption ==
    /\ Cards \subseteq Nat /\ IsFiniteSet(Cards) /\ Cards # {}
    /\ "done" \in Columns /\ {"none", "proof"} \subseteq Refs
    /\ RankStep \in Nat /\ RankStep > 1
    /\ MaxRank \in Nat /\ Cardinality(Cards) * RankStep <= MaxRank
    /\ Nil \notin Cards /\ Nil \notin Card

VARIABLES
    card,       \* the row of each card with its edge, or Nil
    fresh,      \* requests whose client knows the current updated_at of the board
    req         \* what each move handler holds in its local variables

vars == <<card, fresh, req>>

Idle == [pc |-> "idle", card |-> Nil, from |-> Nil, was |-> Nil]

Init ==
    /\ card = [c \in Cards |-> Nil]
    /\ fresh = {}
    /\ req = [r \in Requests |-> Idle]

\* The calls a client can make on the card; "resolve" is a create outside done
\* with a resolution or refs.
May(op, c) == op \in Calls[c]

Here(c) == card[c] # Nil
Live(cs, c) == cs[c] # Nil /\ ~cs[c].archived /\ ~cs[c].trashed

\* touchBoardRow: nobody knows the updated_at of the board any more.
Touch == fresh' = {}

-----------------------------------------------------------------------------
(* Order and ranks. *)

\* ORDER BY rank ASC, card_id ASC.
Ahead(cs, a, b) == cs[a].rank < cs[b].rank \/ (cs[a].rank = cs[b].rank /\ a < b)

\* loadOrderedBoardCards: the live cards of a column, without the one placed.
Others(c, k) == {d \in Cards \ {c} : Live(card, d) /\ card[d].col = k}

\* Where a card is to go in its column.
Places == {[side |-> "end", anchor |-> Nil]}
            \union [side : {"before", "after"}, anchor : Cards]

\* The anchor must be a live card of the column, and not the card itself.
CanPlace(c, k, at) == at.side = "end" \/ at.anchor \in Others(c, k)

\* Mutant: after the anchor is before it.
Front_Before(others, at) ==
    IF at.side = "end" THEN others
    ELSE {d \in others : Ahead(card, d, at.anchor)}

\* boardInsertIndex: which of the others come before.
Front(others, at) ==
    CASE at.side = "end" -> others
      [] at.side = "before" -> {d \in others : Ahead(card, d, at.anchor)}
      [] at.side = "after" -> {d \in others : Ahead(card, d, at.anchor)} \union {at.anchor}

NoRank == 0
Ranks(cs, S) == {cs[d].rank : d \in S}
LastRank(cs, S) == IF S = {} THEN NoRank ELSE Max(Ranks(cs, S))
FirstRank(cs, S) == IF S = {} THEN NoRank ELSE Min(Ranks(cs, S))

\* allocateBoardRankBetween fails between neighbours that leave no room, ties
\* included, and at the end of the numbers.
HasRoom(prev, next) ==
    IF next = NoRank THEN prev + RankStep <= MaxRank ELSE next > prev + 1

RankBetween(prev, next) ==
    IF next = NoRank THEN prev + RankStep ELSE prev + (next - prev) \div 2

\* rebalanceBoardColumnRanks: the others keep their order.
Rebalanced(others) ==
    [c \in Cards |->
       IF c \in others
       THEN [card[c] EXCEPT !.rank =
               RankStep * (1 + Cardinality({d \in others : Ahead(card, d, c)}))]
       ELSE card[c]]

\* allocateBoardCardRank, and the edge with that rank: the new rows and edges
\* when row becomes card c at a place of column k.
Placed(c, row, k, at) ==
    LET others == Others(c, k)
        front == Front(others, at)
        back == others \ front
        room == HasRoom(LastRank(card, front), FirstRank(card, back))
        cs == IF room THEN card ELSE Rebalanced(others)
        rank == RankBetween(LastRank(cs, front), FirstRank(cs, back))
    IN [cs EXCEPT ![c] = [row EXCEPT !.col = k, !.rank = rank]]

-----------------------------------------------------------------------------
(* Create, patch and revise. *)

\* Mutant: the thread is looked for among the cards of the default column only.
ParentFree_InBacklog(c, t) ==
    t # NoThread => \A d \in Cards \ {c} :
                       Live(card, d) /\ card[d].col = "backlog" => card[d].parent # t

\* ensureBoardCardParentThreadAvailable: no other live card is of the thread.
ParentFree(c, t) ==
    t # NoThread => \A d \in Cards \ {c} : Live(card, d) => card[d].parent # t

\* What the done column asks of a card, in prepareBoardCardInsert and in
\* UpdateBoardCard.
Completed(resolved, refs) == resolved /\ refs = "proof"

\* prepareBoardCardInsert takes the resolution from the refs in column done, and
\* any resolution elsewhere.
CreateCard(c, k, at, resolved, refs) ==
    LET done == resolved \/ (k = "done" /\ refs # "none") IN
    /\ May("create", c)
    /\ k # "done" /\ (resolved \/ refs # "none") => May("resolve", c)
    /\ ~Here(c)
    /\ k = "done" => Completed(done, refs)
    /\ ParentFree(c, ThreadOf[c])
    /\ CanPlace(c, k, at)
    /\ card' = Placed(c, [col |-> k, rank |-> NoRank, listed |-> k,
                          resolved |-> done, refs |-> refs, parent |-> ThreadOf[c],
                          archived |-> FALSE, trashed |-> FALSE, back |-> FALSE], k, at)
    /\ Touch
    /\ UNCHANGED req

\* UpdateBoardCard: the row takes column and rank from the edge.  resolution and
\* resolution_refs can be given or left, other fields be changed or not; a patch
\* that changes nothing is rolled back.
PatchCard(c, resolution, refs, other) ==
    LET row == card[c]
        given == IF resolution = "keep" THEN row.resolved ELSE resolution = "done"
        proof == IF refs = "keep" THEN row.refs ELSE refs
        done == given \/ (row.col = "done" /\ proof # "none")
    IN
    /\ May("patch", c)
    /\ Live(card, c)
    /\ IF row.col = "done" THEN Completed(done, proof) ELSE ~done
    /\ ParentFree(c, row.parent)
    /\ other \/ done # row.resolved \/ proof # row.refs
    /\ card' = [card EXCEPT ![c].resolved = done, ![c].refs = proof, ![c].listed = row.col]
    /\ Touch
    /\ UNCHANGED req

\* CreateCardRevision changes only what is not modelled here, and the board.
ReviseCard(c) ==
    /\ May("revise", c)
    /\ Live(card, c)
    /\ Touch
    /\ UNCHANGED <<card, req>>

-----------------------------------------------------------------------------
(* Moving a card. *)

\* The client reads the board and its updated_at.
ReadBoard(r) ==
    /\ req[r].pc = "idle"
    /\ r \notin fresh
    /\ fresh' = fresh \union {r}
    /\ UNCHANGED <<card, req>>

\* handleMoveCardMutation loads the card, archived or not, for the event.
LoadCardForEvent(r, c) ==
    /\ May("move", c)
    /\ req[r].pc = "idle"
    /\ Here(c)
    /\ req' = [req EXCEPT ![r] = [Idle EXCEPT !.pc = "loaded", !.card = c,
                                              !.from = card[c].col]]
    /\ UNCHANGED <<card, fresh>>

\* Mutant: the timestamp is not compared in the transaction.
TokenMatches_Any(r) == TRUE

\* ensureBoardUpdatedAtMatches in the transaction.
TokenMatches(r) == r \in fresh

\* Mutant: a card that leaves done keeps its resolution.
MovedRow_Kept(row, k, proof) ==
    IF proof THEN [row EXCEPT !.resolved = TRUE, !.refs = "proof", !.listed = k] ELSE row

\* resolveBoardCardMoveResolution: a resolution is set with its refs, or cleared
\* out of the done column, and only then the row is written, its column with it.
MovedRow(row, k, proof) ==
    IF proof THEN [row EXCEPT !.resolved = TRUE, !.refs = "proof", !.listed = k]
    ELSE IF k # "done" /\ (row.resolved \/ row.refs # "none")
    THEN [row EXCEPT !.resolved = FALSE, !.refs = "none", !.listed = k]
    ELSE row

\* The resolution can be left out in done only when the card has one there.
MayMove(row, k, proof) ==
    IF k = "done" THEN proof \/ (row.col = "done" /\ row.resolved) ELSE ~proof

\* MoveBoardCard with the place and, for the done column, the evidence that the
\* request names.
MoveBoardCard(r, k, at, proof) ==
    LET c == req[r].card IN
    /\ req[r].pc = "loaded"
    /\ TokenMatches(r)
    /\ Live(card, c)
    /\ CanPlace(c, k, at)
    /\ MayMove(card[c], k, proof)
    /\ card' = Placed(c, MovedRow(card[c], k, proof), k, at)
    /\ req' = [req EXCEPT ![r].pc = "moved", ![r].card = Nil, ![r].was = card[c].col]
    /\ Touch

\* The store refuses, for one reason or another, or fails.
RefuseMove(r) ==
    /\ req[r].pc = "loaded"
    /\ req' = [req EXCEPT ![r] = Idle]
    /\ UNCHANGED <<card, fresh>>

\* card_moved is appended, best effort: the answer is 200 without it too.
EmitMoved(r) ==
    /\ req[r].pc = "moved"
    /\ req' = [req EXCEPT ![r] = Idle]
    /\ UNCHANGED <<card, fresh>>

-----------------------------------------------------------------------------
(* The end of a card, and back.  What is refused or done already changes     *)
(* nothing.                                                                  *)

Rewrite(c, row) ==
    /\ card' = [card EXCEPT ![c] = row]
    /\ Touch
    /\ UNCHANGED req

\* ArchiveBoardCard refuses a trashed card.
ArchiveBoardCard(c) ==
    /\ May("archive", c)
    /\ Live(card, c)
    /\ Rewrite(c, [card[c] EXCEPT !.archived = TRUE])

\* TrashBoardCard: a card is in one of the two lanes.
TrashBoardCard(c) ==
    /\ May("trash", c)
    /\ Here(c) /\ ~card[c].trashed
    /\ Rewrite(c, [card[c] EXCEPT !.trashed = TRUE, !.archived = FALSE])

\* RestoreArchivedBoardCard takes the card out of the trash or else out of the
\* archive, at the rank it had, and does not ask for its thread again.
RestoreArchivedBoardCard(c) ==
    /\ May("restore", c)
    /\ Here(c) /\ ~Live(card, c)
    /\ Rewrite(c, IF card[c].trashed
                  THEN [card[c] EXCEPT !.trashed = FALSE, !.back = TRUE]
                  ELSE [card[c] EXCEPT !.archived = FALSE, !.back = TRUE])

\* PurgeArchivedBoardCard: the edge goes with the row.
PurgeArchivedBoardCard(c) ==
    /\ May("purge", c)
    /\ Here(c) /\ ~Live(card, c)
    /\ Rewrite(c, Nil)

-----------------------------------------------------------------------------
Next ==
    \/ \E c \in Cards :
         \/ \E k \in Columns, at \in Places, resolved \in BOOLEAN, refs \in Refs :
              CreateCard(c, k, at, resolved, refs)
         \/ \E resolution \in {"keep", "done", "clear"}, refs \in Refs \union {"keep"},
               other \in BOOLEAN :
              PatchCard(c, resolution, refs, other)
         \/ ReviseCard(c)
         \/ ArchiveBoardCard(c)
         \/ TrashBoardCard(c)
         \/ RestoreArchivedBoardCard(c)
         \/ PurgeArchivedBoardCard(c)
    \/ \E r \in Requests :
         \/ ReadBoard(r)
         \/ \E c \in Cards : LoadCardForEvent(r, c)
         \/ \E k \in Columns, at \in Places, proof \in BOOLEAN :
              MoveBoardCard(r, k, at, proof)
         \/ RefuseMove(r)
         \/ EmitMoved(r)

Spec == Init /\ [][Next]_vars

-----------------------------------------------------------------------------
(* Properties. *)

TypeOK ==
    /\ card \in [Cards -> Card \union {Nil}]
    /\ fresh \subseteq Requests
    /\ req \in [Requests -> [pc : {"idle", "loaded", "moved"}, card : Cards \union {Nil},
                             from : Columns \union {Nil}, was : Columns \union {Nil}]]

\* Card c is where the call wanted it: last of its column, or next to the anchor.
StandsAt(c, k, at) ==
    LET others == Others(c, k) IN
    CASE at.side = "end" -> \A d \in others : Ahead(card, d, c)
      [] at.side = "before" ->
           /\ Ahead(card, c, at.anchor)
           /\ \A d \in others \ {at.anchor} : Ahead(card, d, c) \/ Ahead(card, at.anchor, d)
      [] at.side = "after" ->
           /\ Ahead(card, at.anchor, c)
           /\ \A d \in others \ {at.anchor} : Ahead(card, d, at.anchor) \/ Ahead(card, c, d)

\* The live cards of a column.
Standing(k) == {d \in Cards : Live(card, d) /\ card[d].col = k}

\* The card that this step moves, if it is a move.
Moving == {req[r].card : r \in {s \in Requests : req[s].pc = "loaded" /\ req'[s].pc = "moved"}}

\* A card that is created or moved lands exactly at the place that the call
\* names, whatever ranks and ties earlier calls left and whether or not the
\* column is rebalanced; all other cards that stay in their column keep their
\* order, and no other call changes the order of any.
LandsWhereAsked ==
    [][/\ \A c \in Cards : ~Here(c) /\ Here(c)' =>
            \A k \in Columns, at \in Places, s \in BOOLEAN, f \in Refs :
              CreateCard(c, k, at, s, f) => StandsAt(c, k, at)'
       /\ \A r \in Requests, c \in Cards : req[r].card = c /\ req'[r].pc = "moved" =>
            \A k \in Columns, at \in Places, p \in BOOLEAN :
              MoveBoardCard(r, k, at, p) => StandsAt(c, k, at)'
       /\ \A k \in Columns : \A d, e \in (Standing(k) \cap Standing(k)') \ Moving :
            Ahead(card, d, e)' <=> Ahead(card, d, e)]_vars

\* Column and completion agree across both copies: a card stands in the done
\* column of the board exactly when GET /cards shows it there, though the listed
\* column may be stale otherwise, and then it has its resolution with evidence.
DoneIsConsistent ==
    \A c \in Cards : Here(c) =>
        /\ (card[c].col = "done") <=> (card[c].listed = "done")
        /\ card[c].col = "done" => Completed(card[c].resolved, card[c].refs)

\* card_moved says which column the card left, though the handler read it before
\* the transaction: what changed in between made the move a refused one.
MovedEventIsTrue == \A r \in Requests : req[r].pc = "moved" => req[r].from = req[r].was

\* Two live cards of one board belong to one thread only when one of them was
\* brought back, because a restore does not ask whether the thread is free.
ThreadHasOneCard ==
    \A c, d \in Cards :
        /\ c # d /\ Live(card, c) /\ Live(card, d)
        /\ card[c].parent = card[d].parent /\ card[c].parent # NoThread
        => card[c].back \/ card[d].back

=============================================================================
