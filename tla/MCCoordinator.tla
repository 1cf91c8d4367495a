--------------------------- MODULE MCCoordinator ---------------------------
(* Instances of Coordinator for TLC: a duel (the ring), a profile test and  *)
(* the scheduler's own monitoring run.                                      *)
EXTENDS Coordinator
=============================================================================
