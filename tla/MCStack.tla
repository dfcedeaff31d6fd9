------------------------------- MODULE MCStack -------------------------------
(* An instance of Stack for TLC; the configuration gives the constants.     *)
EXTENDS Stack

\* All processes are created with the same virtual address
MCESP0 == [p \in Procs |-> 9]
==============================================================================
