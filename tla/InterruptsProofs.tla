--------------------------- MODULE InterruptsProofs ---------------------------
(***************************************************************************)
(* Proofs about Interrupts, for every choice of lines, exceptions,         *)
(* processes and stale values of int_no.                                   *)
(*                                                                         *)
(* What irq_handler ends depends on r->int_no after the routine has run,   *)
(* and what is in service depends on the vector; the invariant ties the    *)
(* two together.  Only timer_handler changes int_no, and its own line      *)
(* belongs to the master, for which a superfluous end of interrupt to the  *)
(* slave has no effect, because nothing of the slave is in service.        *)
(***************************************************************************)
EXTENDS Interrupts, TLAPS

\* What idt_install has done by the time that main() has come to a step
IdtInv ==
  /\ boot # "isrs_install" => \A v \in 0 .. 31 : gate[v] = "fault_handler"
  /\ boot \notin {"isrs_install", "irq_remap"} =>
       base = [master |-> 32, slave |-> 40]
  /\ boot \notin {"isrs_install", "irq_remap", "irq_install"} =>
       \A v \in 32 .. 47 : gate[v] = "irq_handler"
  /\ ~InterruptsOn => cpu = "code"

\* What is in service, and what the frame says
ServiceInv ==
  /\ cpu = "code" => isr = {}
  /\ cpu \in {"irq_handler", "end_of_interrupt"} =>
       vec \in 32 .. 47 /\ isr \subseteq Cascade(vec - 32)
  /\ cpu = "end_of_interrupt" => vec = 32 \/ int_no = vec

IInv ==
  TypeOK /\ IdtInv /\ ServiceInv /\ FrameMatchesVector /\ StopsOnlyOnFault

\* No handler is entered beyond the end of irq_routines ...
LEMMA RoutinesWithin ==
  ASSUME routines \subseteq 0 .. 15, irq_install_handler
  PROVE  routines' \subseteq 0 .. 15
<1>1. routines' = routines \cup {0} \/ routines' = routines \cup {1}
  BY DEF irq_install_handler, RoutineIndex
<1>2. SUFFICES ASSUME NEW x \in routines' PROVE x \in 0 .. 15
  OBVIOUS
<1>3. x \in routines \/ x = 0 \/ x = 1
  BY <1>1
<1>4. CASE x \in routines
  BY <1>4
<1>5. CASE x = 0 \/ x = 1
  BY <1>5
<1> QED
  BY <1>3, <1>4, <1>5

\* ... or of fault_handlers
LEMMA ReportersWithin ==
  ASSUME reporters \subseteq 0 .. 31, register_fault_handler
  PROVE  reporters' \subseteq 0 .. 31
<1>1. reporters' = reporters \cup {0} \/ reporters' = reporters \cup {14}
  BY DEF register_fault_handler
<1>2. SUFFICES ASSUME NEW x \in reporters' PROVE x \in 0 .. 31
  OBVIOUS
<1>3. x \in reporters \/ x = 0 \/ x = 14
  BY <1>1
<1>4. CASE x \in reporters
  BY <1>4
<1>5. CASE x = 0 \/ x = 14
  BY <1>5
<1> QED
  BY <1>3, <1>4, <1>5

\* Whatever its vector, a frame has two words between gs..eax and eip: the
\* stub pushes a word less exactly where the CPU pushes one. (idt.asm)
LEMMA FrameWords ==
  ASSUME NEW v \in 0 .. 255
  PROVE  StubWords(v) + (IF v \in ErrorCodes THEN 1 ELSE 0) = 2
BY DEF StubWords, ErrorCodes

\* With line n alone in service, with the cascade if n is the slave's, the
\* two outb of irq_handler leave nothing in service, provided the frame tells
\* the lines of the slave apart.
LEMMA EndsAll ==
  ASSUME NEW n \in 0 .. 15, NEW no \in 0 .. 255,
         isr \subseteq Cascade(n), n >= 8 => no >= 40
  PROVE  Ended(no) = {}
<1>1. CASE n < 8
  <2>1. isr \subseteq {n}
    BY <1>1 DEF Cascade
  <2>2. EndSlave(isr) = isr
    BY <1>1, <2>1 DEF EndSlave
  <2>3. EndMaster(isr) = {}
    <3> SUFFICES ASSUME NEW k \in EndMaster(isr) PROVE FALSE
      OBVIOUS
    <3>1. k = n /\ \E m \in isr : m < 8 /\ m < k
      BY <1>1, <2>1 DEF EndMaster
    <3> QED
      BY <2>1, <3>1
  <2> QED
    BY <2>2, <2>3 DEF Ended
<1>2. CASE n >= 8
  <2>1. isr \subseteq {n, 2} /\ FromSlave(no)
    BY <1>2 DEF Cascade, FromSlave
  <2>2. EndSlave(isr) \subseteq {2}
    <3> SUFFICES ASSUME NEW k \in EndSlave(isr), k # 2 PROVE FALSE
      OBVIOUS
    <3>1. k = n /\ \E m \in isr : m >= 8 /\ m < k
      BY <1>2, <2>1 DEF EndSlave
    <3> QED
      BY <2>1, <3>1
  <2>3. EndMaster(EndSlave(isr)) = {}
    BY <2>2 DEF EndMaster
  <2> QED
    BY <2>1, <2>3 DEF Ended
<1> QED
  BY <1>1, <1>2

\* A request of line n enters irq_handler with n in service.
LEMMA EnterLine ==
  ASSUME IInv, NEW n \in 0 .. 15, cpu = "code", InterruptsOn,
         Enter(VectorOf(n))
  PROVE  /\ vec' = 32 + n /\ int_no' = 32 + n /\ words' = 2
         /\ cpu' = "irq_handler"
<1>1. VectorOf(n) = 32 + n
  BY DEF IInv, IdtInv, InterruptsOn, VectorOf
<1>2. 32 + n \in 32 .. 47 /\ 32 + n \in 0 .. 255
  OBVIOUS
<1>3. gate[32 + n] = "irq_handler"
  BY <1>2 DEF IInv, IdtInv, InterruptsOn
<1>4. cpu' = "irq_handler"
  BY <1>1, <1>3 DEF Enter
<1>5. words' = 2
  BY <1>1, <1>2, FrameWords DEF Enter
<1> QED
  BY <1>1, <1>4, <1>5 DEF Enter

LEMMA InitInv == Init => IInv
<1> SUFFICES ASSUME Init PROVE IInv
  OBVIOUS
<1>1. saved \in [Procs -> 0 .. 255]
  <2>1. saved \in [Procs -> StaleNos]
    BY DEF Init
  <2>2. StaleNos \subseteq 0 .. 255
    BY InterruptsAssumption
  <2> QED
    BY <2>1, <2>2
<1>2. TypeOK
  <2>1. gate \in [0 .. 255 -> {"reset", "fault_handler", "irq_handler"}]
    BY DEF Init
  <2>2. base \in [master : {8, 32}, slave : {40, 112}]
    BY DEF Init
  <2>3. vec \in 0 .. 255 /\ int_no \in 0 .. 255 /\ words \in 1 .. 3
        /\ requests \in 0 .. MaxRequests
    BY InterruptsAssumption DEF Init
  <2> QED
    BY <1>1, <2>1, <2>2, <2>3 DEF Init, TypeOK
<1>3. IdtInv /\ ServiceInv /\ FrameMatchesVector
  BY DEF Init, IdtInv, ServiceInv, FrameMatchesVector, InterruptsOn
<1>4. StopsOnlyOnFault
  BY DEF Init, StopsOnlyOnFault
<1> QED
  BY <1>2, <1>3, <1>4 DEF IInv

\* One step per action; what an action does not touch is left to the
\* definitions of the parts.
LEMMA NextInv == IInv /\ [Next]_vars => IInv'
<1> SUFFICES ASSUME IInv, [Next]_vars PROVE IInv'
  OBVIOUS
<1> USE InterruptsAssumption
<1>1. CASE Boot
  <2> USE DEF frame, procs, tables
  <2>1. /\ cpu = "code" /\ cpu' = "code" /\ isr' = {}
        /\ UNCHANGED <<frame, procs, requests, faulted>>
    BY <1>1
       DEF Boot, isrs_install, irq_remap, irq_install, idt_load,
           irq_install_handler, register_fault_handler, At, IInv, ServiceInv
  <2>2. ServiceInv' /\ FrameMatchesVector'
    BY <2>1 DEF ServiceInv, FrameMatchesVector
  <2>3. StopsOnlyOnFault'
    BY <2>1 DEF StopsOnlyOnFault
  <2>4. SetGates(0 .. 31, "fault_handler")
          \in [0 .. 255 -> {"reset", "fault_handler", "irq_handler"}]
    BY DEF SetGates, IInv, TypeOK
  <2>5. SetGates(32 .. 47, "irq_handler")
          \in [0 .. 255 -> {"reset", "fault_handler", "irq_handler"}]
    BY DEF SetGates, IInv, TypeOK
  <2>6. TypeOK' /\ IdtInv'
    <3> USE DEF IInv, TypeOK, IdtInv, At, NextStep, InterruptsOn
    <3>1. CASE isrs_install
      <4>1. /\ boot = "isrs_install" /\ boot' = "irq_remap"
            /\ gate' = SetGates(0 .. 31, "fault_handler")
            /\ UNCHANGED <<base, routines, reporters, irr>>
        BY <3>1 DEF isrs_install
      <4>2. TypeOK'
        BY <2>1, <2>4, <4>1
      <4>3. \A v \in 0 .. 31 : gate'[v] = "fault_handler"
        <5> SUFFICES ASSUME NEW v \in 0 .. 31 PROVE gate'[v] = "fault_handler"
          OBVIOUS
        <5>1. v \in 0 .. 255
          OBVIOUS
        <5> QED
          BY <4>1, <5>1, Zenon DEF SetGates
      <4>4. IdtInv'
        BY <2>1, <4>1, <4>3
      <4> QED
        BY <4>2, <4>4
    <3>2. CASE irq_remap
      <4>1. /\ boot = "irq_remap" /\ boot' = "irq_install"
            /\ base' = Remapped
            /\ irr' = {} /\ UNCHANGED <<gate, routines, reporters>>
        BY <3>2 DEF irq_remap
      <4>2. TypeOK'
        BY <2>1, <4>1 DEF Remapped
      <4>3. IdtInv'
        BY <2>1, <4>1 DEF Remapped
      <4> QED
        BY <4>2, <4>3
    <3>3. CASE irq_install
      <4>1. /\ boot = "irq_install" /\ boot' = "idt_load"
            /\ gate' = SetGates(32 .. 47, "irq_handler")
            /\ UNCHANGED <<base, routines, reporters, irr>>
        BY <3>3 DEF irq_install
      <4>2. TypeOK'
        BY <2>1, <2>5, <4>1
      <4>3. \A v \in 32 .. 47 : gate'[v] = "irq_handler"
        <5> SUFFICES ASSUME NEW v \in 32 .. 47 PROVE gate'[v] = "irq_handler"
          OBVIOUS
        <5>1. v \in 0 .. 255
          OBVIOUS
        <5> QED
          BY <4>1, <5>1, Zenon DEF SetGates
      <4>5. \A v \in 0 .. 31 : gate'[v] = "fault_handler"
        <5> SUFFICES ASSUME NEW v \in 0 .. 31 PROVE gate'[v] = "fault_handler"
          OBVIOUS
        <5>1. v \in 0 .. 255 /\ v \notin 32 .. 47
          OBVIOUS
        <5>2. gate[v] = "fault_handler"
          BY <4>1
        <5> QED
          BY <4>1, <5>1, <5>2, Zenon DEF SetGates
      <4>4. IdtInv'
        BY <2>1, <4>1, <4>3, <4>5
      <4> QED
        BY <4>2, <4>4
    <3>4. CASE idt_load
      BY <2>1, <3>4 DEF idt_load
    <3>5. CASE irq_install_handler
      <4>1. routines' \subseteq 0 .. 15
        BY <3>5, RoutinesWithin
      <4>2. /\ boot \in {"timer_install", "keyboard_install"}
            /\ boot' \in {"keyboard_install", "divide"}
            /\ UNCHANGED <<gate, base, reporters, irr>>
        BY <3>5 DEF irq_install_handler
      <4>3. TypeOK'
        BY <2>1, <4>1, <4>2
      <4>4. IdtInv'
        BY <4>2
      <4> QED
        BY <4>3, <4>4
    <3>6. CASE register_fault_handler
      <4>1. reporters' \subseteq 0 .. 31
        BY <3>6, ReportersWithin
      <4>2. /\ boot \in {"init_paging", "divide"}
            /\ boot' \in {"timer_install", "done"}
            /\ UNCHANGED <<gate, base, routines, irr>>
        BY <3>6 DEF register_fault_handler
      <4>3. TypeOK'
        BY <2>1, <4>1, <4>2
      <4>4. IdtInv'
        BY <4>2
      <4> QED
        BY <4>3, <4>4
    <3> QED
      BY <1>1, <3>1, <3>2, <3>3, <3>4, <3>5, <3>6 DEF Boot
  <2> QED
    BY <2>2, <2>3, <2>6 DEF IInv
<1>2. ASSUME NEW n \in 0 .. 15, Interrupt(n) PROVE IInv'
  <2>1. /\ vec' = 32 + n /\ int_no' = 32 + n /\ words' = 2
        /\ cpu' = "irq_handler"
    BY <1>2, EnterLine DEF Interrupt
  <2>2. isr = {} /\ isr' = Cascade(n) /\ irr' = irr \ {n}
    BY <1>2 DEF Interrupt, IInv, ServiceInv
  <2>3. UNCHANGED <<boot, tables, procs, requests, faulted>> /\ InterruptsOn
    BY <1>2 DEF Interrupt
  <2>4. Cascade(n) \subseteq 0 .. 15
    BY DEF Cascade
  <2>5. TypeOK'
    BY <2>1, <2>2, <2>3, <2>4 DEF IInv, TypeOK, tables, procs
  <2>6. IdtInv'
    BY <2>3 DEF IInv, IdtInv, InterruptsOn, tables
  <2>7. ServiceInv'
    BY <2>1, <2>2 DEF ServiceInv
  <2> QED
    BY <2>1, <2>5, <2>6, <2>7 DEF IInv, FrameMatchesVector, StopsOnlyOnFault
<1>3. ASSUME NEW n \in {7, 15}, Spurious(n) PROVE IInv'
  <2>1. /\ vec' = 32 + n /\ int_no' = 32 + n /\ words' = 2
        /\ cpu' = "irq_handler"
    BY <1>3, EnterLine DEF Spurious
  <2>2. isr' \subseteq Cascade(n) /\ requests' \in 0 .. MaxRequests
    <3>1. isr = {} /\ isr' = (isr \cup Cascade(n)) \ {n}
      BY <1>3 DEF Spurious, IInv, ServiceInv
    <3>2. requests \in 0 .. MaxRequests /\ requests < MaxRequests
          /\ requests' = requests + 1
      BY <1>3 DEF Spurious, IInv, TypeOK
    <3> QED
      BY <3>1, <3>2
  <2>3. UNCHANGED <<boot, tables, irr, procs, faulted>> /\ InterruptsOn
    BY <1>3 DEF Spurious
  <2>4. Cascade(n) \subseteq 0 .. 15
    BY DEF Cascade
  <2>5. TypeOK'
    BY <2>1, <2>2, <2>3, <2>4 DEF IInv, TypeOK, tables, procs
  <2>6. IdtInv'
    BY <2>3 DEF IInv, IdtInv, InterruptsOn, tables
  <2>7. ServiceInv'
    BY <2>1, <2>2 DEF ServiceInv
  <2> QED
    BY <2>1, <2>5, <2>6, <2>7 DEF IInv, FrameMatchesVector, StopsOnlyOnFault
<1>4. ASSUME NEW f \in Faults, Fault(f) PROVE IInv'
  <2>1. f \in 0 .. 31 /\ f \in 0 .. 255
    OBVIOUS
  <2>2. gate[f] = "fault_handler" /\ InterruptsOn
    BY <1>4, <2>1 DEF Fault, IInv, IdtInv, InterruptsOn
  <2>3. cpu' = "fault_handler"
    BY <1>4, <2>2 DEF Fault, Enter
  <2>4. vec' = f /\ int_no' = f /\ words' = 2 /\ faulted' = TRUE
    BY <1>4, <2>1, FrameWords DEF Fault, Enter
  <2>5. UNCHANGED <<boot, tables, irr, isr, procs, requests>>
    BY <1>4 DEF Fault
  <2>6. TypeOK'
    BY <2>1, <2>3, <2>4, <2>5 DEF IInv, TypeOK, tables, procs
  <2>7. IdtInv'
    BY <2>2, <2>5 DEF IInv, IdtInv, InterruptsOn, tables
  <2> QED
    BY <2>3, <2>4, <2>6, <2>7
       DEF IInv, ServiceInv, FrameMatchesVector, StopsOnlyOnFault
<1>5. CASE RunRoutine
  BY <1>5 DEF RunRoutine, IInv, TypeOK, IdtInv, ServiceInv, FrameMatchesVector,
              StopsOnlyOnFault, InterruptsOn, tables, frame, procs
<1>6. ASSUME NEW p \in Procs, RunTimer(p) PROVE IInv'
  <2>1. saved' \in [Procs -> 0 .. 255]
    BY <1>6 DEF RunTimer, IInv, TypeOK
  <2>2. int_no' \in 0 .. 255 /\ cur' \in Procs
    BY <1>6, <2>1 DEF RunTimer
  <2>3. TypeOK'
    BY <1>6, <2>1, <2>2 DEF RunTimer, IInv, TypeOK, tables
  <2> QED
    BY <1>6, <2>3 DEF RunTimer, IInv, IdtInv, ServiceInv, FrameMatchesVector,
                      StopsOnlyOnFault, InterruptsOn, tables
<1>7. CASE EndOfInterrupt
  <2>1. vec - 32 \in 0 .. 15 /\ int_no \in 0 .. 255
        /\ isr \subseteq Cascade(vec - 32)
        /\ (vec - 32 >= 8 => int_no >= 40)
    BY <1>7 DEF EndOfInterrupt, IInv, TypeOK, ServiceInv
  <2>2. isr' = {} /\ cpu' = "code"
    BY <1>7, <2>1, EndsAll DEF EndOfInterrupt
  <2>3. UNCHANGED <<boot, tables, irr, frame, procs, requests, faulted>>
    BY <1>7 DEF EndOfInterrupt
  <2>4. TypeOK'
    BY <2>2, <2>3 DEF IInv, TypeOK, tables, frame, procs
  <2> QED
    BY <2>2, <2>3, <2>4 DEF IInv, IdtInv, ServiceInv, FrameMatchesVector,
                            StopsOnlyOnFault, InterruptsOn, tables
<1>8. CASE FaultHandler
  <2>1. isr' \subseteq isr /\ cpu' = "halted" /\ cpu = "fault_handler"
    BY <1>8 DEF FaultHandler, EndMaster
  <2>2. UNCHANGED <<boot, tables, irr, frame, procs, requests, faulted>>
    BY <1>8 DEF FaultHandler
  <2>3. TypeOK'
    BY <2>1, <2>2 DEF IInv, TypeOK, tables, frame, procs
  <2> QED
    BY <2>1, <2>2, <2>3 DEF IInv, IdtInv, ServiceInv, FrameMatchesVector,
                            StopsOnlyOnFault, InterruptsOn, tables
<1>9. ASSUME NEW n \in Lines, Request(n) PROVE IInv'
  <2>1. n \in 0 .. 15
    OBVIOUS
  <2>2. irr' \subseteq 0 .. 15 /\ requests' \in 0 .. MaxRequests
    BY <1>9, <2>1 DEF Request, IInv, TypeOK
  <2> QED
    BY <1>9, <2>2 DEF Request, IInv, TypeOK, IdtInv, ServiceInv,
                      FrameMatchesVector, StopsOnlyOnFault, InterruptsOn,
                      tables, frame, procs
<1>10. CASE Spin \/ UNCHANGED vars
  <2>1. UNCHANGED vars
    BY <1>10 DEF Spin
  <2> USE <2>1 DEF vars, tables, frame, procs, IInv
  <2>2. TypeOK' /\ IdtInv'
    BY DEF TypeOK, IdtInv, InterruptsOn
  <2>3. ServiceInv' /\ FrameMatchesVector' /\ StopsOnlyOnFault'
    BY DEF ServiceInv, FrameMatchesVector, StopsOnlyOnFault
  <2> QED
    BY <2>2, <2>3
<1> QED
  BY <1>1, <1>2, <1>3, <1>4, <1>5, <1>6, <1>7, <1>8, <1>9, <1>10
     DEF Next, Kernel

LEMMA InvAlways == Spec => []IInv
BY InitInv, NextInv, PTL DEF Spec

\* The interrupt tables and the frame keep their types, and irq_routines is
\* never indexed outside its 16 entries.
THEOREM InterruptsTypeCorrect == Spec => []TypeOK
<1>1. IInv => TypeOK
  BY DEF IInv
<1> QED
  BY <1>1, InvAlways, PTL

\* No line is ever left in service when irq_handler has returned.
THEOREM EveryInterruptEnded == Spec => []NoneLeftInService
<1>1. IInv => NoneLeftInService
  BY DEF IInv, ServiceInv, NoneLeftInService
<1> QED
  BY <1>1, InvAlways, PTL

\* Every handler finds the frame that regs_t describes.
THEOREM FramesUniform == Spec => []FrameMatchesVector
<1>1. IInv => FrameMatchesVector
  BY DEF IInv
<1> QED
  BY <1>1, InvAlways, PTL

\* The kernel never stops because of an interrupt request, during idt_install
\* or later.
THEOREM RequestsNeverStop == Spec => []StopsOnlyOnFault
<1>1. IInv => StopsOnlyOnFault
  BY DEF IInv
<1> QED
  BY <1>1, InvAlways, PTL
===============================================================================
