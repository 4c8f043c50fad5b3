--------------------------- MODULE MCCheckpointers ---------------------------
(* Small instances of Checkpointers for TLC. *)
EXTENDS Checkpointers, TLC

Symmetry == Permutations(Instances)
=============================================================================
