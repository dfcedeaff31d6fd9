----------------------------- MODULE MCScheduler -----------------------------
(* Instances of Scheduler for TLC; the configurations give the constants.  *)
EXTENDS Scheduler
==============================================================================
