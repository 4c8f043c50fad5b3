------------------------- MODULE MCWorkflowHandling -------------------------
(* Small instances of WorkflowHandling for TLC. *)
EXTENDS WorkflowHandling

\* Two inputs and one of the output handler; with an inbox of its own, where
\* each delivery stores the input once more, one input.
InputsByMode == [mode \in BOOLEAN |-> IF mode THEN 1 ELSE 2]
FedByMode    == [mode \in BOOLEAN |-> IF mode THEN 0 ELSE 1]
=============================================================================
