----------------------------- MODULE MCInterrupts -----------------------------
(* Instances of Interrupts for TLC; the configurations give the constants.  *)
EXTENDS Interrupts
===============================================================================
