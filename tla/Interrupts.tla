----------------------------- MODULE Interrupts -----------------------------
(***************************************************************************)
(* From an interrupt request or a fault to its handler and back: the IDT   *)
(* (idt.c, isrs.c, irq.c), the stubs of idt.asm, irq_handler with the end  *)
(* of interrupt it sends, and fault_handler, which never returns.          *)
(*                                                                         *)
(* Every gate is an interrupt gate and no handler executes sti, so         *)
(* handlers do not nest.  The two 8259 interrupt controllers are modelled  *)
(* from how the code programs them: lines 0 to 7 belong to the master,     *)
(* 8 to 15 to the slave, whose output is line 2 of the master.             *)
(***************************************************************************)
EXTENDS Integers

CONSTANTS
  Lines,       \* the lines that devices are wired to
  Faults,      \* the exceptions that code may raise
  Procs,       \* the processes that the timer switches between
  StaleNos,    \* what int_no of registers that were never written may hold
  MaxRequests  \* bound: requests of the devices, spurious ones included

ASSUME InterruptsAssumption ==
  /\ Lines \subseteq (0 .. 15) \ {2}
  /\ Faults \subseteq 0 .. 31
  /\ StaleNos \subseteq 0 .. 255
  /\ MaxRequests \in Nat

VARIABLES
  boot,        \* the next step of main()
  gate,        \* vector -> where its gate leads: a handler, or a reset
  base,        \* the first vector of the master and of the slave
  routines,    \* the indices of irq_routines that are not 0
  reporters,   \* the indices of fault_handlers that are not 0
  irr, isr,    \* interrupt controllers: lines requested, lines in service
  cpu,         \* what the CPU executes
  vec,         \* the vector that was taken last
  int_no,      \* r->int_no in the frame of that interrupt
  words,       \* words on the stack between r->int_no and eip, plus one
  saved,       \* process -> int_no in its saved registers
  cur,         \* the process that runs, NoProc before the first switch
  requests,    \* requests so far
  faulted      \* history: has an exception been raised?

tables == <<gate, base, routines, reporters>>
frame == <<vec, int_no, words>>
procs == <<saved, cur>>
vars == <<boot, tables, irr, isr, cpu, frame, procs, requests, faulted>>

-----------------------------------------------------------------------------
NoProc == "none"

\* The steps of main() that matter here, each with the one that follows it.
\* The first four are idt_install, with interrupts off.
NextStep ==
  [isrs_install     |-> "irq_remap",        irq_remap     |-> "irq_install",
   irq_install      |-> "idt_load",         idt_load      |-> "init_paging",
   init_paging      |-> "timer_install",    timer_install |-> "keyboard_install",
   keyboard_install |-> "divide",           divide        |-> "done"]
At(s) == boot = s /\ cpu = "code" /\ boot' = NextStep[s]
InterruptsOn == boot \notin {"isrs_install", "irq_remap", "irq_install", "idt_load"}

\* idt_set_gate for a range of vectors
SetGates(vectors, handler) ==
  [v \in 0 .. 255 |-> IF v \in vectors THEN handler ELSE gate[v]]

isrs_install ==
  /\ At("isrs_install")
  /\ gate' = SetGates(0 .. 31, "fault_handler")
  /\ UNCHANGED <<base, routines, reporters, irr, isr, cpu, frame, procs,
                 requests, faulted>>

\* Mutant: the controllers keep the vectors the BIOS gave them.
RemappedNot == base

\* ICW2 of irq_remap
Remapped == [master |-> 32, slave |-> 40]

\* ICW1 also forgets the requests that were pending
irq_remap ==
  /\ At("irq_remap")
  /\ base' = Remapped
  /\ irr' = {} /\ isr' = {}
  /\ UNCHANGED <<gate, routines, reporters, cpu, frame, procs, requests, faulted>>

irq_install ==
  /\ At("irq_install")
  /\ gate' = SetGates(32 .. 47, "irq_handler")
  /\ UNCHANGED <<base, routines, reporters, irr, isr, cpu, frame, procs,
                 requests, faulted>>

\* lidt and sti
idt_load ==
  /\ At("idt_load")
  /\ UNCHANGED <<tables, irr, isr, cpu, frame, procs, requests, faulted>>

\* Mutant: irq_routines is indexed by the vector.
RoutineIndexVector(irq) == irq + 32

\* The index that irq_install_handler writes
RoutineIndex(irq) == irq

irq_install_handler ==
  /\ \/ At("timer_install") /\ routines' = routines \cup {RoutineIndex(0)}
     \/ At("keyboard_install") /\ routines' = routines \cup {RoutineIndex(1)}
  /\ UNCHANGED <<gate, base, reporters, irr, isr, cpu, frame, procs, requests,
                 faulted>>

register_fault_handler ==
  /\ \/ At("init_paging") /\ reporters' = reporters \cup {14}
     \/ At("divide") /\ reporters' = reporters \cup {0}
  /\ UNCHANGED <<gate, base, routines, irr, isr, cpu, frame, procs, requests,
                 faulted>>

Boot ==
  \/ isrs_install \/ irq_remap \/ irq_install \/ idt_load
  \/ irq_install_handler \/ register_fault_handler

-----------------------------------------------------------------------------
(* The interrupt controllers *)

Cascade(n) == IF n >= 8 THEN {n, 2} ELSE {n}
Rank(n) == IF n >= 8 THEN 12 + n ELSE 10 * n

\* A line whose rank is that of a line in service, or below, must wait
Deliverable(n) == n \in irr /\ \A m \in isr : Rank(n) < Rank(m)
Foremost(n) == Deliverable(n) /\ \A m \in irr : Rank(n) <= Rank(m)

VectorOf(n) == IF n >= 8 THEN base.slave + n - 8 ELSE base.master + n

\* A device asks for service
Request(n) ==
  /\ requests < MaxRequests /\ n \notin irr
  /\ irr' = irr \cup {n}
  /\ requests' = requests + 1
  /\ UNCHANGED <<boot, tables, isr, cpu, frame, procs, faulted>>

\* What a non-specific end of interrupt leaves in service, for the master
\* (the slave's lines apart) and for the slave
EndMaster(s) == {n \in s : n >= 8 \/ \E m \in s : m < 8 /\ m < n}
EndSlave(s) == {n \in s : n < 8 \/ \E m \in s : m >= 8 /\ m < n}

-----------------------------------------------------------------------------
(* The stubs *)

\* Exceptions for which the CPU pushes an error code
ErrorCodes == {8, 10, 11, 12, 13, 14, 17, 30}

\* Mutant: the stub of vector 17 pushes a dummy error code.
StubWordsPadded(v) == IF v \in ErrorCodes \ {17} THEN 1 ELSE 2

\* The words a stub pushes: its number, and 0 where the CPU pushes nothing
StubWords(v) == IF v \in {8, 10, 11, 12, 13, 14, 17, 30} THEN 1 ELSE 2

\* The CPU takes vector v and its stub calls irq_handler or fault_handler.
\* A vector without a gate resets the machine.
Enter(v) ==
  /\ vec' = v /\ int_no' = v
  /\ words' = StubWords(v) + (IF v \in ErrorCodes THEN 1 ELSE 0)
  /\ cpu' = gate[v]

Interrupt(n) ==
  /\ cpu = "code" /\ InterruptsOn /\ Foremost(n)
  /\ irr' = irr \ {n}
  /\ isr' = isr \cup Cascade(n)
  /\ Enter(VectorOf(n))
  /\ UNCHANGED <<boot, tables, procs, requests, faulted>>

\* A request that went away: the controller answers with its last line
\* without putting it in service
Spurious(n) ==
  /\ cpu = "code" /\ InterruptsOn /\ requests < MaxRequests
  /\ isr' = (isr \cup Cascade(n)) \ {n}
  /\ requests' = requests + 1
  /\ Enter(VectorOf(n))
  /\ UNCHANGED <<boot, tables, irr, procs, faulted>>

\* Code raises exception f, inside a handler of irq_routines too
Fault(f) ==
  /\ InterruptsOn
  /\ \/ cpu = "code"
     \/ cpu = "irq_handler" /\ vec - 32 \in routines
  /\ faulted' = TRUE
  /\ Enter(f)
  /\ UNCHANGED <<boot, tables, irr, isr, procs, requests>>

-----------------------------------------------------------------------------
(* irq_handler and fault_handler *)

\* The routine is called, if there is one
RunRoutine ==
  /\ cpu = "irq_handler"
  /\ cpu' = "end_of_interrupt"
  /\ UNCHANGED <<boot, tables, irr, isr, frame, procs, requests, faulted>>

\* ... and timer_handler may exchange the frame for the registers of another
\* process, int_no included
RunTimer(p) ==
  /\ cpu = "irq_handler" /\ vec = 32 /\ 0 \in routines /\ boot = "done"
  /\ cpu' = "end_of_interrupt"
  /\ saved' = (IF cur = NoProc THEN saved ELSE [saved EXCEPT ![cur] = int_no])
  /\ int_no' = saved'[p]
  /\ cur' = p
  /\ UNCHANGED <<boot, tables, irr, isr, vec, words, requests, faulted>>

\* Mutant: the slave's first line is not counted as the slave's.
FromSlaveStrict(no) == no > 40

\* r->int_no >= 40, of the frame as the routine left it
FromSlave(no) == no >= 40

\* Mutant: only one of the controllers is told.
EndedOne(no) == IF FromSlave(no) THEN EndSlave(isr) ELSE EndMaster(isr)

\* What the outb of 0x20 leaves in service
Ended(no) == EndMaster(IF FromSlave(no) THEN EndSlave(isr) ELSE isr)

EndOfInterrupt ==
  /\ cpu = "end_of_interrupt"
  /\ isr' = Ended(int_no)
  /\ cpu' = "code"
  /\ UNCHANGED <<boot, tables, irr, frame, procs, requests, faulted>>

\* fault_handler: a message, the registered handler, the end of interrupt for
\* the master, and an endless loop.  page_fault_handler does not come back.
FaultHandler ==
  /\ cpu = "fault_handler"
  /\ isr' = (IF int_no = 14 /\ 14 \in reporters THEN isr ELSE EndMaster(isr))
  /\ cpu' = "halted"
  /\ UNCHANGED <<boot, tables, irr, frame, procs, requests, faulted>>

Spin == cpu \in {"halted", "reset"} /\ UNCHANGED vars

-----------------------------------------------------------------------------
Init ==
  /\ boot = "isrs_install"
  /\ gate = [v \in 0 .. 255 |-> "reset"]
  /\ base = [master |-> 8, slave |-> 112]
  /\ routines = {} /\ reporters = {}
  /\ irr = {} /\ isr = {}
  /\ cpu = "code" /\ vec = 0 /\ int_no = 0 /\ words = 2
  /\ saved \in [Procs -> StaleNos] /\ cur = NoProc
  /\ requests = 0 /\ faulted = FALSE

Kernel ==
  \/ Boot
  \/ \E n \in 0 .. 15 : Interrupt(n)
  \/ RunRoutine \/ EndOfInterrupt \/ FaultHandler
  \/ \E p \in Procs : RunTimer(p)

Next ==
  \/ Kernel
  \/ \E n \in Lines : Request(n)
  \/ \E n \in {7, 15} : Spurious(n)
  \/ \E f \in Faults : Fault(f)
  \/ Spin

Spec == Init /\ [][Next]_vars

\* The CPU keeps executing, and accepts an interrupt that stays deliverable.
FairSpec == Spec /\ WF_vars(Kernel)

-----------------------------------------------------------------------------
(* Properties                                                              *)

\* Every variable keeps the range its declaration and use imply; in
\* particular irq_routines has 16 entries.
TypeOK ==
  /\ boot \in {"isrs_install", "irq_remap", "irq_install", "idt_load", "init_paging",
               "timer_install", "keyboard_install", "divide", "done"}
  /\ gate \in [0 .. 255 -> {"reset", "fault_handler", "irq_handler"}]
  /\ base \in [master : {8, 32}, slave : {40, 112}]
  /\ routines \subseteq 0 .. 15 /\ reporters \subseteq 0 .. 31
  /\ irr \subseteq 0 .. 15 /\ isr \subseteq 0 .. 15
  /\ cpu \in {"code", "irq_handler", "end_of_interrupt", "fault_handler",
              "halted", "reset"}
  /\ vec \in 0 .. 255 /\ int_no \in 0 .. 255 /\ words \in 1 .. 3
  /\ saved \in [Procs -> 0 .. 255] /\ cur \in Procs \cup {NoProc}
  /\ requests \in 0 .. MaxRequests /\ faulted \in BOOLEAN

\* No line is left in service behind the handlers, where it would block every
\* line below it for ever: neither by a line of the slave, nor by a spurious
\* request, nor when timer_handler has replaced the int_no that decides which
\* controllers are told. (irq_handler)
NoneLeftInService == cpu = "code" => isr = {}

\* A handler finds the number of its own interrupt in the frame, and eip where
\* regs_t has it. (the stubs of idt.asm)
FrameMatchesVector ==
  cpu \in {"irq_handler", "fault_handler"} => int_no = vec /\ words = 2

\* The machine stops only after an exception: no request of a device, whenever
\* it comes during the start of the system, is taken for an exception or finds
\* no gate. (the order of idt_install, irq_remap)
StopsOnlyOnFault ==
  cpu \in {"fault_handler", "halted", "reset"} => faulted

\* Every request that the started system receives is served, unless an
\* exception stops the machine.
EveryRequestServed ==
  \A n \in Lines : n \in irr ~> (n \notin irr \/ cpu \in {"halted", "reset"})
=============================================================================
