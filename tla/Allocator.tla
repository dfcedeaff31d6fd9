------------------------------ MODULE Allocator ------------------------------
(***************************************************************************)
(* What malloc and free promise a process: a request is given an area of   *)
(* memory that overlaps no area in use, and an area stays in use, where it *)
(* is and as large as it is, until it is freed.  How the areas are found   *)
(* is not said, nor that one is found.                                     *)
(***************************************************************************)
EXTENDS Integers

CONSTANTS
  Sizes,   \* the sizes that are asked for
  LIMIT    \* the end of the memory that a heap may grow to

VARIABLE live   \* start of an area in use -> its size

Init == live = [p \in {} |-> 0]

\* The area is new to the caller.
Allocate(p, n) ==
  /\ p + n <= LIMIT
  /\ \A q \in DOMAIN live : p # q /\ (p + n <= q \/ q + live[q] <= p)
  /\ live' = [q \in DOMAIN live \cup {p} |-> IF q = p THEN n ELSE live[q]]

Release(p) == live' = [q \in DOMAIN live \ {p} |-> live[q]]

Next ==
  \/ \E p \in 0 .. LIMIT, n \in Sizes : Allocate(p, n)
  \/ \E p \in DOMAIN live : Release(p)

Spec == Init /\ [][Next]_live
==============================================================================
