--------------------------- MODULE MCTaskProcessor ---------------------------
(* Small instances of TaskProcessor for TLC. *)
EXTENDS TaskProcessor

CONSTANTS t1, t2, t3, t4, g1

\* Two tasks of one group and two without.
OneGroup == [t \in Tasks |-> IF t \in {t1, t2} THEN g1 ELSE NoGroup]

=============================================================================
