-------------------------------- MODULE Stack --------------------------------
(***************************************************************************)
(* The stack under a switch of processes: the words that the CPU and       *)
(* irq_common_stub (idt.asm) push, seen as the structure regs_t by         *)
(* start_next_process (scheduler.c), which saves one process in it and     *)
(* loads another.                                                          *)
(*                                                                         *)
(* Everything runs in ring 0, so an interrupt stays on the stack of the    *)
(* interrupted process and pushes eflags, cs and eip only; iret pops the   *)
(* same three.  The fields useresp and ss of the structure are therefore   *)
(* the two words that were on top of that stack already.                   *)
(***************************************************************************)
EXTENDS Integers

CONSTANTS
  Procs,     \* the processes in the table
  Main,      \* main(), which is not in it
  DEPTH,     \* words of the stack, a natural number
  Words,     \* what processes push
  ESP0,      \* process -> the useresp that it is created with
  SS         \* the ss that it is created with (0x10)

VARIABLES
  stack,   \* address -> word; the stack grows down
  esp,     \* where it ends
  cur,     \* the process that runs
  saved,   \* process -> useresp and ss of last_state_regs
  own      \* history: interrupted process -> its esp

vars == <<stack, esp, cur, saved, own>>

Init ==
  /\ stack = [a \in 0 .. DEPTH + 1 |-> 0]
  /\ esp = DEPTH
  /\ cur = Main
  /\ saved = [p \in Procs |-> [useresp |-> ESP0[p], ss |-> SS]]
  /\ own = [p \in {} |-> 0]

-----------------------------------------------------------------------------
\* A process calls or returns
Push(w) ==
  /\ esp > 0
  /\ esp' = esp - 1
  /\ stack' = [stack EXCEPT ![esp - 1] = w]
  /\ UNCHANGED <<cur, saved, own>>

Pop ==
  /\ esp < DEPTH
  /\ esp' = esp + 1
  /\ UNCHANGED <<stack, cur, saved, own>>

\* The registers that the interrupt leaves for start_next_process
useresp == stack[esp]
ss == stack[esp + 1]

\* The timer interrupts, and start_next_process goes on with another process:
\* it copies the structure from the stack and to the stack.  popa drops the
\* field esp, and the iret leaves useresp and ss where they are.
SwitchTo(p) ==
  /\ p # cur
  /\ IF cur = Main THEN UNCHANGED <<saved, own>>   \* is_first_run
     ELSE /\ saved' = [saved EXCEPT ![cur] = [useresp |-> useresp, ss |-> ss]]
          /\ own' = [q \in DOMAIN own \cup {cur} |-> IF q = cur THEN esp ELSE own[q]]
  /\ stack' = [stack EXCEPT ![esp] = saved[p].useresp, ![esp + 1] = saved[p].ss]
  /\ cur' = p
  /\ UNCHANGED esp

Next ==
  \/ \E w \in Words : Push(w)
  \/ Pop
  \/ \E p \in Procs : SwitchTo(p)

Spec == Init /\ [][Next]_vars

-----------------------------------------------------------------------------
\* "useresp is esp of the process being run when the interrupt is raised", so
\* that the process can be resumed with it. (the structure regs_t as
\* start_next_process saves it)
UserespIsEsp == \A p \in DOMAIN own : p # cur => saved[p].useresp = own[p]
==============================================================================
