------------------------------- MODULE MCKHeap -------------------------------
(* Instances of KHeap for TLC; the configuration gives the constants.       *)
EXTENDS KHeap
===============================================================================
