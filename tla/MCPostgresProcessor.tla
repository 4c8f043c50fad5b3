------------------------- MODULE MCPostgresProcessor -------------------------
(* Small instances of PostgresProcessor for TLC. *)
EXTENDS PostgresProcessor, TLC

Symmetry == Permutations(Instances)

=============================================================================
