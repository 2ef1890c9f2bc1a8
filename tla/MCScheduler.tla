----------------------------- MODULE MCScheduler ------------------------------
(* Scheduler with its constants given by the cfg.                          *)
EXTENDS Scheduler
=============================================================================
