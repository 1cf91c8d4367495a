------------------------------- MODULE MCRuns -------------------------------
(* Runs at the bounds the configurations give. *)
EXTENDS Runs
=============================================================================
