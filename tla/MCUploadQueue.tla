--------------------------- MODULE MCUploadQueue ---------------------------
(* RoundRobin for TLC. *)
EXTENDS RoundRobin, TLC

Symmetry == Permutations(Users)
=============================================================================
