----------------------------- MODULE RefreshLedger -----------------------------
(***************************************************************************)
(* What the refresh status of a thread promises, with no refreshes, queue  *)
(* or failures in sight: the thread is written to, refreshes are asked     *)
(* for, and some state of the thread is shown; a request for a refresh is  *)
(* reported as served only once everything that had been written when it   *)
(* was made has been shown, and what is served stays so.                   *)
(***************************************************************************)
EXTENDS Naturals, Sequences

VARIABLES
  written,  \* writes to the thread
  asked,    \* per request for a refresh, the writes made before it
  served,   \* number of the newest request reported as served
  shown     \* writes that the newest state shown reflects

ledgerVars == <<written, asked, served, shown>>

LedgerInit ==
  /\ written = 0
  /\ asked = <<>>
  /\ served = 0
  /\ shown = 0

Change ==
  /\ written' = written + 1
  /\ UNCHANGED <<asked, served, shown>>

Ask ==
  /\ asked' = Append(asked, written)
  /\ UNCHANGED <<written, served, shown>>

Show ==
  /\ \E n \in shown .. written : shown' = n
  /\ UNCHANGED <<written, asked, served>>

Serve ==
  /\ \E g \in served .. Len(asked) :
       /\ g > 0 /\ asked[g] <= shown
       /\ served' = g
  /\ UNCHANGED <<written, asked, shown>>

LedgerNext == Change \/ Ask \/ Show \/ Serve

LedgerSpec == LedgerInit /\ [][LedgerNext]_ledgerVars

=============================================================================
