--------------------------- MODULE MCDisplayFlow ----------------------------
(* DisplayFlow with the inductive invariant of its proof, for TLC. *)
EXTENDS DisplayFlow_proofs
=============================================================================
