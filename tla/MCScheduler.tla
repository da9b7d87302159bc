----------------------------- MODULE MCScheduler -----------------------------
(* Scheduler with the numbers of CPUs and contexts given by each .cfg. *)
EXTENDS Scheduler
=============================================================================
