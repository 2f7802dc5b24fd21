-------------------------- MODULE MCSchedulerFair --------------------------
(* The instance of MCScheduler, with the history of SchedulerFair. *)
EXTENDS MCScheduler, SchedulerFair
=============================================================================
