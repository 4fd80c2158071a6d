---------------------------- MODULE MCBlobLedger ----------------------------
(* BlobLedger with contents of one byte each. *)
EXTENDS BlobLedger, TLC

OneByte == [c \in Contents |-> 1]

AtMostOne == {{}} \union {{c} : c \in Contents}

\* One card, or two with different contents.
MCBatches == {<<c>> : c \in Contents} \union
             {<<p[1], p[2]>> : p \in {q \in Contents \X Contents : q[1] # q[2]}}

\* Without limits, and with limits of two artifacts and one content.
MCQuotas == {[artifacts |-> 0, bytes |-> 0], [artifacts |-> 2, bytes |-> 1]}

Symmetry == {p @@ q : p \in Permutations(Requests), q \in Permutations(Contents)}
=============================================================================
