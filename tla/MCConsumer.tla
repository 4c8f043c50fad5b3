----------------------------- MODULE MCConsumer -----------------------------
(* Small instances of Consumer for TLC: one processor that reads from the    *)
(* beginning and one that reads from the end.                                *)
EXTENDS Consumer

CONSTANTS early, late

FromBoth == [p \in Processors |-> IF p = early THEN 0 ELSE END]

AnySetup == [source : Sources, until : BOOLEAN]
=============================================================================
