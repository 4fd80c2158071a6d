------------------------ MODULE MCProjectionMaintenance ------------------------
(* ProjectionMaintenance with the constants given by the .cfg files. *)
EXTENDS ProjectionMaintenance, TLC
=============================================================================
