---------------------------- MODULE MCBaselines ----------------------------
(* Model values for the settings; the engines are the strings of Reconciles. *)
EXTENDS Baselines
=============================================================================
