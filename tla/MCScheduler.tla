----------------------------- MODULE MCScheduler -----------------------------
(* Scheduler for TLC: the value the user has, one candidate, and three pipes of which one has no shaper. *)
EXTENDS Scheduler
=============================================================================
