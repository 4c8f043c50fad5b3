---------------------------- MODULE MCProjections ----------------------------
(* Projections on small instances: bounds are in the configurations. *)
EXTENDS Projections
=============================================================================
