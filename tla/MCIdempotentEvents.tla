-------------------------- MODULE MCIdempotentEvents --------------------------
(* IdempotentEvents with the constants given by the .cfg files.  "padded"  *)
(* is "plain" with blanks around its type, "other" has another text, and   *)
(* "own" gives its event an id of its own.                                 *)
EXTENDS IdempotentEvents, TLC

MCBodies == {"plain", "padded", "other", "own"}
MCIds == {"derived", "given"}
MCIdOf == [x \in MCBodies |-> IF x = "own" THEN "given" ELSE "derived"]
MCTrimmed == [x \in MCBodies |-> IF x = "padded" THEN "plain" ELSE x]

RequestSymmetry == Permutations(Requests)
=============================================================================
