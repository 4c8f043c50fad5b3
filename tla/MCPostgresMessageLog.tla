------------------------ MODULE MCPostgresMessageLog ------------------------
(* Small instances of PostgresMessageLog for TLC. *)
EXTENDS PostgresMessageLog, TLC

\* Appends of every kind: with a version, and with each of the names that the
\* store turns into "no version".
AnyVersion == 0..2 \cup {NO_CONCURRENCY_CHECK}

ReadVersion == 0..2

Symmetry == Permutations(Clients)

=============================================================================
