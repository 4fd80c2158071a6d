--------------------------- MODULE MCDocumentStore ---------------------------
(* Instances of DocumentStore: a document's own thread has the document's id. *)
EXTENDS DocumentStore, TLC

IdAsThread == [d \in Docs |-> d]

\* Every call on one document; the others are created, under a thread of choice.
CONSTANT Subject
CallsOnOne == [d \in Docs |-> IF d = Subject THEN Calls ELSE {"create"}]

Symmetry == Permutations(Requests)
=============================================================================
