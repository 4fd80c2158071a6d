--------------------------- MODULE RevisionHistory ---------------------------
(***************************************************************************)
(* What the document calls of the core promise of the revisions of a       *)
(* document: a history that starts with one revision, grows at its end by  *)
(* a revision made from the last one, and disappears as a whole.  A        *)
(* revision is written once: it is in no two histories and nowhere twice.  *)
(***************************************************************************)
EXTENDS Naturals, Sequences

CONSTANTS Docs, Revisions, NoBase

VARIABLE chain  \* per document its revisions, oldest first, with their bases

Entry(v, base) == [rev |-> v, base |-> base]

Written == UNION {{chain[d][n].rev : n \in DOMAIN chain[d]} : d \in Docs}

Init ==
    /\ chain \in [Docs -> {<<>>} \union {<<Entry(v, NoBase)>> : v \in Revisions}]
    /\ \A d, e \in Docs : chain[d] = chain[e] /\ chain[d] # <<>> => d = e

Create(d, v) ==
    /\ chain[d] = <<>>
    /\ v \notin Written
    /\ chain' = [chain EXCEPT ![d] = <<Entry(v, NoBase)>>]

Revise(d, v) ==
    /\ chain[d] # <<>>
    /\ v \notin Written
    /\ chain' = [chain EXCEPT ![d] =
                   Append(chain[d], Entry(v, chain[d][Len(chain[d])].rev))]

Purge(d) ==
    /\ chain[d] # <<>>
    /\ chain' = [chain EXCEPT ![d] = <<>>]

Next == \E d \in Docs : \/ \E v \in Revisions : Create(d, v) \/ Revise(d, v)
                        \/ Purge(d)

Spec == Init /\ [][Next]_chain
=============================================================================
