-------------------------------- MODULE MCHeap --------------------------------
(* Instances of Heap for TLC; the configurations give the constants.        *)
EXTENDS Heap
===============================================================================
