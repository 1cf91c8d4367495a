----------------------------- MODULE MCJobQueue -----------------------------
(* Instances of JobQueue for TLC: sweeps and duels.                         *)
EXTENDS JobQueue
=============================================================================
