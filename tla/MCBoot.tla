------------------------------- MODULE MCBoot -------------------------------
(* Instances of Boot for TLC; the configuration gives the other constants.   *)
EXTENDS Boot

\* A segment with uninitialised data, an unused header, and an empty segment,
\* behind the buffer
MCSegments ==
  << [null |-> FALSE, offset |-> 1, paddr |-> 8, filesz |-> 2, memsz |-> 3],
     [null |-> TRUE,  offset |-> 0, paddr |-> 9, filesz |-> 1, memsz |-> 1],
     [null |-> FALSE, offset |-> 0, paddr |-> 0, filesz |-> 0, memsz |-> 0] >>
===============================================================================
