--------------------------- MODULE SchedulerProofs ---------------------------
(***************************************************************************)
(* Proofs, for every value of the constants, of the invariants of          *)
(* Scheduler that the runs check on small instances.                       *)
(***************************************************************************)
EXTENDS Scheduler, TLAPS

-----------------------------------------------------------------------------
(* Type correctness                                                        *)

\* Whatever the priority level, time_slice returns one of five lengths.
LEMMA TimeSliceRange == \A level : TimeSlice(level) \in {5, 10, 25, 50, 100}
BY DEF TimeSlice

\* The tick counter of timer_handler stays an unsigned machine word.
LEMMA NextTickType ==
  ASSUME timer_ticks \in Nat, timer_ticks < WORD
  PROVE  NextTick \in Nat /\ NextTick < WORD
BY SchedulerAssumption DEF NextTick, SchedulerAssumption

\* Slot 0 and program 0 (the kernel process) exist in every instance.
LEMMA ZeroTypes == 0 \in Slots /\ 0 \in Programs
BY SchedulerAssumption DEF SchedulerAssumption, Slots, Programs

\* The registers that are prepared for a new program form a register file.
LEMMA FreshType ==
  \A p \in Programs \cup {Main, Nobody} : Fresh(p) \in Contexts
BY SchedulerAssumption DEF SchedulerAssumption, Fresh, Contexts

\* No boot step, timer interrupt, add_process or remove_process takes a
\* variable out of the range its C declaration implies.
LEMMA TypeStep == TypeOK /\ [Next]_vars => TypeOK'
<1> SUFFICES ASSUME TypeOK, [Next]_vars PROVE TypeOK'
  OBVIOUS
<1> USE SchedulerAssumption DEF SchedulerAssumption, TypeOK, procVars,
      schedVars, timerVars, cpuVars, addVars, ghostVars
<1>1. CASE SetTimerFreq
  BY <1>1 DEF SetTimerFreq
<1>2. CASE InitScheduler
  BY <1>2, ZeroTypes, FreshType DEF InitScheduler
<1>3. CASE SetCurrent
  BY <1>3 DEF SetCurrent, Slots
<1>4. CASE Activate
  BY <1>4 DEF Activate
<1>5. CASE Tick
  <2>1. CASE CountTick
    BY <2>1, NextTickType DEF CountTick
  <2>2. CASE ExpireInactive
    BY <2>2 DEF ExpireInactive, StartSlice
  <2>3. CASE ExpireSwitch
    <3>1. PICK i \in NextSlots :
            /\ last_state_regs' = SavedRegs
            /\ is_first_run' = FALSE
            /\ cpu' = last_state_regs'[i]
            /\ cr3' = DirectoryOf(i)
            /\ cur_proc_index' = i
            /\ StartSlice(TimeSlice(priority_level[i]))
            /\ waits' = [j \in Slots |-> IF j = i \/ j \notin Live THEN 0
                                         ELSE waits[j] + 1]
      BY <2>3 DEF ExpireSwitch
    <3>2. i \in Slots
      BY DEF NextSlots, Live
    <3>3. last_state_regs' \in [Slots -> Contexts]
      BY <3>1 DEF SavedRegs
    <3>4. cpu' \in Contexts /\ cur_proc_index' \in Slots
      BY <3>1, <3>2, <3>3
    <3>7. cr3' \in Programs
      BY <3>1, <3>2 DEF DirectoryOf
    <3>8. is_first_run' \in BOOLEAN
      BY <3>1
    <3>5. waits' \in [Slots -> Nat]
      BY <3>1
    <3>6. /\ time_slice_millis' \in {0, 5, 10, 25, 40, 50, 100}
          /\ timer_ticks' \in Nat /\ timer_ticks' < WORD
          /\ freq' \in {18, 100}
      BY <3>1, TimeSliceRange DEF StartSlice
    <3> QED
      BY <2>3, <3>3, <3>4, <3>5, <3>6, <3>7, <3>8 DEF ExpireSwitch
  <2>4. CASE ExpireAlone
    BY <2>4, TimeSliceRange DEF ExpireAlone, StartSlice
  <2> QED
    BY <1>5, <2>1, <2>2, <2>3, <2>4 DEF Tick
<1>6. CASE Work
  BY <1>6 DEF Work, RunsFreely, Contexts
<1>7. ASSUME NEW prio \in Priorities, AddBegin(prio) PROVE TypeOK'
  <2>1. PICK s \in Slots :
          /\ page_directory' = [page_directory EXCEPT ![s] = created + 1]
          /\ pid' = [pid EXCEPT ![s] = 0]
          /\ add_slot' = s
          /\ owner' = [owner EXCEPT ![s] = created + 1]
          /\ waits' = [waits EXCEPT ![s] = 0]
          /\ given' \subseteq given \cup {s}
    BY <1>7 DEF AddBegin
  <2>2. created + 1 \in Programs /\ 0 \in Slots
    BY <1>7 DEF AddBegin, Programs, Slots
  <2> QED
    BY <1>7, <2>1, <2>2 DEF AddBegin
<1>8. CASE AddFull
  <2>1. created' \in Programs
    BY <1>8 DEF AddFull, Programs
  <2> QED
    BY <1>8, <2>1 DEF AddFull
<1>9. CASE AddCopyRegs
  BY <1>9, FreshType DEF AddCopyRegs
<1>10. CASE AddCopyPriority
  BY <1>10 DEF AddCopyPriority
<1>11. CASE AddSetPid
  BY <1>11 DEF AddSetPid, PidFor
<1>12. ASSUME NEW i \in Slots, RemoveProcess(i) PROVE TypeOK'
  BY <1>12 DEF RemoveProcess
<1>13. CASE UNCHANGED vars
  BY <1>13 DEF vars
<1> QED
  BY <1>1, <1>2, <1>3, <1>4, <1>5, <1>6, <1>7, <1>8, <1>9, <1>10, <1>11,
     <1>12, <1>13 DEF Next, BootStep, AddStep

\* The values that the C globals start with are of their types.
LEMMA InitType == Init => TypeOK
<1> SUFFICES ASSUME Init PROVE TypeOK
  OBVIOUS
<1>1. Fresh(Nobody) \in Contexts /\ Fresh(Main) \in Contexts
  BY FreshType
<1>2. last_state_regs \in [Slots -> Contexts] /\ cpu \in Contexts
  BY <1>1 DEF Init
<1>3. /\ pid \in [Slots -> Slots \cup {NoPid}]
      /\ page_directory \in [Slots -> Programs]
      /\ priority_level \in [Slots -> 0..255]
      /\ owner \in [Slots -> Programs]
  BY ZeroTypes DEF Init
<1>4. progress \in [Programs -> Nat] /\ waits \in [Slots -> Nat]
  BY DEF Init
<1>5. timer_ticks \in Nat /\ timer_ticks < WORD /\ given \subseteq Slots
  BY SchedulerAssumption DEF SchedulerAssumption, Init
<1> QED
  BY <1>2, <1>3, <1>4, <1>5, ZeroTypes DEF Init, TypeOK

\* In every behaviour the process table, the timer and the CPU stay well
\* typed; a pid is -1 or the index of a slot of proc_arr.
THEOREM TypeCorrect == Spec => []TypeOK
BY InitType, TypeStep, PTL DEF Spec

-----------------------------------------------------------------------------
(* Bounded waiting                                                         *)

\* The inductive strengthening of BoundedWaiting: the switches a slot has been
\* passed over, plus the slots the scan still has to look at before it reaches
\* that slot, never exceed MAX_PROC.  Until init_scheduler has ended nobody
\* has waited.
WaitInv ==
  /\ \A j \in Slots : waits[j] + Dist(cur_proc_index, j) <= MAX_PROC
  /\ boot \in {"set_timer_freq", "init_scheduler", "set_current"} =>
       ~scheduler_active /\ \A j \in Slots : waits[j] = 0

\* The wrapped distance of start_next_process's scan lies in 1..MAX_PROC.
LEMMA DistRange ==
  \A from \in Slots \cup {-1}, to \in Slots :
    Dist(from, to) \in 1 .. MAX_PROC
BY SchedulerAssumption DEF SchedulerAssumption, Slots, Dist

\* When the scan stops at slot i, every slot that lies farther from the
\* current one has come nearer by the distance the scan went.
LEMMA DistShrinks ==
  ASSUME NEW c \in Slots \cup {-1}, NEW i \in Slots, NEW j \in Slots,
         j # i, Dist(c, i) <= Dist(c, j)
  PROVE  Dist(i, j) + 1 <= Dist(c, j)
BY SchedulerAssumption DEF SchedulerAssumption, Slots, Dist

\* Switching to the nearest live slot, and every other step, keeps WaitInv.
LEMMA WaitStep == TypeOK /\ WaitInv /\ [Next]_vars => WaitInv'
<1> SUFFICES ASSUME TypeOK, WaitInv, [Next]_vars PROVE WaitInv'
  OBVIOUS
<1> USE DEF WaitInv, procVars, schedVars, timerVars, cpuVars, addVars,
      ghostVars
<1> cur_proc_index \in Slots \cup {-1} /\ waits \in [Slots -> Nat]
  BY DEF TypeOK
<1>1. CASE BootStep
  <2>1. CASE SetTimerFreq
    BY <2>1 DEF SetTimerFreq, Dist
  <2>2. CASE InitScheduler
    BY <2>2 DEF InitScheduler, Dist
  <2>3. CASE SetCurrent
    <3>1. \A j \in Slots : Dist(0, j) \in 1 .. MAX_PROC
      BY DistRange, ZeroTypes
    <3>2. \A j \in Slots : waits'[j] = 0
      BY <2>3 DEF SetCurrent
    <3>3. cur_proc_index' = 0 /\ boot' = "activate"
      BY <2>3 DEF SetCurrent
    <3>4. \A j \in Slots : Dist(cur_proc_index, j)' = Dist(0, j)
      BY <3>3 DEF Dist
    <3>5. MAX_PROC \in Nat
      BY SchedulerAssumption DEF SchedulerAssumption
    <3> QED
      BY <3>1, <3>2, <3>3, <3>4, <3>5
  <2>4. CASE Activate
    BY <2>4 DEF Activate, Dist
  <2> QED
    BY <1>1, <2>1, <2>2, <2>3, <2>4 DEF BootStep
<1>2. CASE Tick
  <2>1. CASE CountTick \/ ExpireInactive \/ ExpireAlone
    BY <2>1 DEF CountTick, ExpireInactive, ExpireAlone, Dist
  <2>2. CASE ExpireSwitch
    <3>1. PICK i \in NextSlots :
            /\ cur_proc_index' = i
            /\ waits' = [j \in Slots |-> IF j = i \/ j \notin Live THEN 0
                                         ELSE waits[j] + 1]
      BY <2>2 DEF ExpireSwitch
    <3>2. /\ i \in Slots
          /\ \A j \in Live : Dist(cur_proc_index, i) <= Dist(cur_proc_index, j)
      BY DEF NextSlots, Live
    <3>3. ASSUME NEW j \in Slots
          PROVE  waits'[j] + Dist(i, j) <= MAX_PROC
      <4>1. Dist(i, j) \in 1 .. MAX_PROC
        BY <3>2, DistRange
      <4>2. CASE j = i \/ j \notin Live
        BY <3>1, <4>1, <4>2, SchedulerAssumption DEF SchedulerAssumption
      <4>3. CASE j # i /\ j \in Live
        <5>1. Dist(i, j) + 1 <= Dist(cur_proc_index, j)
          BY <3>2, <4>3, DistShrinks
        <5>2. waits'[j] = waits[j] + 1
          BY <3>1, <4>3
        <5>3. waits[j] \in Nat /\ Dist(cur_proc_index, j) \in 1 .. MAX_PROC
          BY DistRange
        <5> QED
          BY <4>1, <5>1, <5>2, <5>3, SchedulerAssumption
             DEF SchedulerAssumption
      <4> QED
        BY <4>2, <4>3
    <3>4. \A j \in Slots : Dist(cur_proc_index, j)' = Dist(i, j)
      BY <3>1 DEF Dist
    <3>5. boot' = boot /\ scheduler_active
      BY <2>2 DEF ExpireSwitch
    <3> QED
      BY <3>3, <3>4, <3>5
  <2> QED
    BY <1>2, <2>1, <2>2 DEF Tick
<1>3. ASSUME NEW prio \in Priorities, AddBegin(prio) PROVE WaitInv'
  <2>1. PICK s \in Slots : waits' = [waits EXCEPT ![s] = 0]
    BY <1>3 DEF AddBegin
  <2>2. cur_proc_index' = cur_proc_index /\ boot' = boot
        /\ scheduler_active' = scheduler_active
    BY <1>3 DEF AddBegin
  <2>3. \A j \in Slots : waits'[j] = IF j = s THEN 0 ELSE waits[j]
    BY <2>1
  <2>4. \A j \in Slots : Dist(cur_proc_index, j)' = Dist(cur_proc_index, j)
    BY <2>2 DEF Dist
  <2>5. \A j \in Slots : Dist(cur_proc_index, j) \in 1 .. MAX_PROC
    BY DistRange
  <2> QED
    BY <2>2, <2>3, <2>4, <2>5, SchedulerAssumption DEF SchedulerAssumption
<1>4. CASE Work \/ AddFull \/ AddStep
  BY <1>4 DEF Work, AddFull, AddStep, AddCopyRegs, AddCopyPriority, AddSetPid,
              Dist
<1>5. ASSUME NEW i \in Slots, RemoveProcess(i) PROVE WaitInv'
  BY <1>5 DEF RemoveProcess, Dist
<1>6. CASE UNCHANGED vars
  BY <1>6 DEF vars, Dist
<1> QED
  BY <1>1, <1>2, <1>3, <1>4, <1>5, <1>6 DEF Next

\* A live process is passed over by fewer than MAX_PROC switches before
\* start_next_process gives it the CPU, for any size of the table, any
\* priorities, and any interleaving of add_process and remove_process.
THEOREM WaitingBounded == Spec => []BoundedWaiting
<1>1. Init => WaitInv
  <2> SUFFICES ASSUME Init PROVE WaitInv
    OBVIOUS
  <2>1. \A j \in Slots : Dist(-1, j) \in 1 .. MAX_PROC
    BY DistRange
  <2> QED
    BY <2>1, SchedulerAssumption DEF SchedulerAssumption, Init, WaitInv
<1>2. TypeOK /\ WaitInv => BoundedWaiting
  <2> SUFFICES ASSUME TypeOK, WaitInv, NEW i \in Live
               PROVE  waits[i] < MAX_PROC
    BY DEF BoundedWaiting
  <2>1. i \in Slots /\ waits[i] \in Nat
    BY DEF TypeOK, Live
  <2>2. Dist(cur_proc_index, i) \in 1 .. MAX_PROC
    BY <2>1, DistRange DEF TypeOK
  <2>3. waits[i] + Dist(cur_proc_index, i) <= MAX_PROC
    BY <2>1 DEF WaitInv
  <2> QED
    BY <2>1, <2>2, <2>3, SchedulerAssumption DEF SchedulerAssumption
<1> QED
  BY <1>1, <1>2, TypeCorrect, WaitStep, PTL DEF Spec

-----------------------------------------------------------------------------
(* No process loses work or runs in a foreign address space                *)

\* A slot whose program may still run: live, or holding the CPU
Active(i) == i \in Live \/ (~is_first_run /\ i = cur_proc_index)

\* The program that runs in a slot: the one add_process was given for it or,
\* in a slot that was given away under a running process, still lol(), the
\* only one that calls add_process
Runner(i) == IF i \in given THEN 0 ELSE owner[i]

\* The registers of slot i are those of its runner, as far as it has got
Of(i) == [prog |-> Runner(i), n |-> progress[Runner(i)]]

\* What main() has done by the time the first switch abandons it
PhaseInv ==
  /\ boot # "spin" => ~scheduler_active
  /\ boot \in {"activate", "spin"} => cur_proc_index \in Slots
  /\ ~scheduler_active => is_first_run
  /\ scheduler_active => boot = "spin"
  /\ is_first_run =>
       /\ cpu.prog = Main /\ created = 0 /\ add_pc = "idle" /\ given = {}
       /\ \A i \in Slots : owner[i] = 0
       /\ \A p \in Programs : progress[p] = 0
       /\ Live \subseteq {0}
  /\ ~is_first_run => cpu.prog \in Programs

\* No two slots run the same program, and a program that has not been created
\* has done nothing.
OwnerInv ==
  /\ \A i, j \in Slots :
       Active(i) /\ Active(j) /\ Runner(i) = Runner(j) => i = j
  /\ \A i \in Slots : Active(i) => Runner(i) <= created
  /\ \A p \in Programs : p > created => progress[p] = 0

\* While add_process copies, its caller keeps the CPU and the new slot is the
\* one of the last program created, which has not run yet.  It is the caller's
\* own slot only if it was given away under the caller.
AddInv ==
  add_pc # "idle" =>
    /\ cpu.prog = 0 /\ ~is_first_run
    /\ add_slot \in Live
    /\ add_slot \in given <=> add_slot = cur_proc_index
    /\ owner[add_slot] = created /\ progress[created] = 0

\* The page directory of an active slot is the one made for its program,
\* unless the slot was given away under a running process.
DirectoryInv ==
  /\ \A i \in Slots : Active(i) /\ i \notin given =>
                        page_directory[i] = owner[i]
  /\ ~is_first_run /\ cur_proc_index \notin given =>
       cr3 = owner[cur_proc_index]

\* ContextPreserved, and the same of the slot that was given away: what is
\* saved there are the registers of lol(), with which lol() runs on.
RunnerContext ==
  /\ ~is_first_run => cpu = Of(cur_proc_index)
  /\ \A i \in Live :
       \/ ~is_first_run /\ i = cur_proc_index
       \/ add_pc = "copy_regs" /\ i = add_slot
       \/ last_state_regs[i] = Of(i)

ContextInv ==
  /\ TypeOK
  /\ PhaseInv
  /\ OwnerInv
  /\ AddInv
  /\ DirectoryInv
  /\ RunnerContext

\* The steps of main() up to the first switch keep ContextInv.
LEMMA ContextBoot == ContextInv /\ BootStep => ContextInv'
<1> SUFFICES ASSUME ContextInv, BootStep PROVE ContextInv'
  OBVIOUS
<1> USE DEF ContextInv, procVars, schedVars, timerVars, cpuVars, addVars,
      ghostVars
<1>1. TypeOK'
  BY TypeStep DEF Next
<1>2. CASE SetTimerFreq
  BY <1>1, <1>2 DEF SetTimerFreq, PhaseInv, OwnerInv, AddInv, DirectoryInv,
     RunnerContext, Active, Runner, Of, Live
<1>3. CASE InitScheduler
  <2>1. is_first_run /\ ~scheduler_active
    BY <1>3 DEF InitScheduler, PhaseInv
  <2>2. /\ is_first_run' = is_first_run /\ cur_proc_index' = cur_proc_index
        /\ scheduler_active' = scheduler_active /\ boot' = "set_current"
        /\ owner' = owner /\ progress' = progress /\ created' = created
        /\ add_pc' = add_pc /\ cpu' = cpu /\ given' = given
    BY <1>3 DEF InitScheduler
  <2>3. Live' = {0}
    BY <1>3, ZeroTypes DEF InitScheduler, Live, NoPid
  <2>4. last_state_regs'[0] = Fresh(0) /\ page_directory'[0] = 0
    BY <1>3, ZeroTypes DEF InitScheduler, TypeOK
  <2>5. PhaseInv'
    BY <2>1, <2>2, <2>3 DEF PhaseInv
  <2>6. OwnerInv'
    BY <2>1, <2>2, <2>3, ZeroTypes DEF PhaseInv, OwnerInv, Active, Runner
  <2>7. AddInv' /\ DirectoryInv'
    BY <2>1, <2>2, <2>3, <2>4, ZeroTypes
       DEF PhaseInv, AddInv, DirectoryInv, Active
  <2>8. RunnerContext'
    BY <2>1, <2>2, <2>3, <2>4, ZeroTypes
       DEF PhaseInv, RunnerContext, Runner, Of, Fresh
  <2> QED
    BY <1>1, <2>5, <2>6, <2>7, <2>8
<1>4. CASE SetCurrent
  <2>1. is_first_run /\ ~scheduler_active
    BY <1>4 DEF SetCurrent, PhaseInv
  <2> QED
    BY <1>1, <1>4, <2>1, ZeroTypes DEF SetCurrent, PhaseInv, OwnerInv, AddInv,
       DirectoryInv, RunnerContext, Active, Runner, Of, Live
<1>5. CASE Activate
  BY <1>1, <1>5 DEF Activate, PhaseInv, OwnerInv, AddInv, DirectoryInv,
     RunnerContext, Active, Runner, Of, Live
<1> QED
  BY <1>2, <1>3, <1>4, <1>5 DEF BootStep

\* start_next_process keeps ContextInv, provided that no time slice expires
\* inside add_process: it saves the outgoing registers before it loads those
\* of the incoming process, on the first run excepted.
LEMMA ContextTick ==
  ASSUME ~AddPreemptible
  PROVE  ContextInv /\ Tick => ContextInv'
<1> SUFFICES ASSUME ContextInv, Tick PROVE ContextInv'
  OBVIOUS
<1> USE DEF ContextInv, procVars, schedVars, timerVars, cpuVars, addVars,
      ghostVars
<1>1. TypeOK'
  BY TypeStep DEF Next
<1>2. CASE CountTick \/ ExpireInactive \/ ExpireAlone
  BY <1>1, <1>2 DEF CountTick, ExpireInactive, ExpireAlone, PhaseInv, OwnerInv,
     AddInv, DirectoryInv, RunnerContext, Active, Runner, Of, Live
<1>3. CASE ExpireSwitch
  <2>1. PICK i \in NextSlots :
          /\ last_state_regs' = SavedRegs
          /\ is_first_run' = FALSE
          /\ cpu' = last_state_regs'[i]
          /\ cr3' = DirectoryOf(i)
          /\ cur_proc_index' = i
    BY <1>3 DEF ExpireSwitch
  <2>2. i \in Slots /\ i \in Live
    BY DEF NextSlots, Live
  <2>3. /\ pid' = pid /\ page_directory' = page_directory
        /\ scheduler_active' = scheduler_active /\ boot' = boot
        /\ created' = created /\ add_pc' = add_pc /\ add_slot' = add_slot
        /\ owner' = owner /\ progress' = progress /\ given' = given
        /\ scheduler_active
    BY <1>3 DEF ExpireSwitch
  <2>4. add_pc = "idle"
    BY <1>3 DEF Tick, TickAllowed, ExpireSwitch
  <2>5. Live' = Live
    BY <2>3 DEF Live
  <2>6. \A j \in Slots : Active(j)' => j \in Live
    BY <2>1, <2>2, <2>5 DEF Active
  <2>7. cur_proc_index \in Slots
    BY <2>3 DEF PhaseInv
  <2>8. \A j \in Live :
          last_state_regs'[j] = Of(j)
    <3> SUFFICES ASSUME NEW j \in Live
                 PROVE  last_state_regs'[j]
                          = Of(j)
      OBVIOUS
    <3>1. j \in Slots
      BY DEF Live
    <3>2. CASE is_first_run \/ j # cur_proc_index
      <4>1. last_state_regs'[j] = last_state_regs[j]
        BY <2>1, <2>7, <3>1, <3>2 DEF SavedRegs, TypeOK
      <4> QED
        BY <2>4, <3>2, <4>1 DEF RunnerContext
    <3>3. CASE ~is_first_run /\ j = cur_proc_index
      <4>1. last_state_regs'[j] = cpu
        BY <2>1, <3>1, <3>3 DEF SavedRegs, TypeOK
      <4> QED
        BY <3>3, <4>1 DEF RunnerContext
    <3> QED
      BY <3>2, <3>3
  <2>9. cpu' = Of(i)
    BY <2>1, <2>2, <2>8
  <2>10. PhaseInv'
    <3>1. Runner(i) \in Programs
      BY <2>2, ZeroTypes DEF Runner, TypeOK
    <3> QED
      BY <2>1, <2>2, <2>3, <2>9, <3>1 DEF PhaseInv, Of
  <2>15. \A j \in Slots : Runner(j)' = Runner(j) /\ Of(j)' = Of(j)
    BY <2>3 DEF Runner, Of
  <2>11. OwnerInv'
    BY <2>3, <2>6, <2>15 DEF OwnerInv, Active
  <2>12. AddInv'
    BY <2>3, <2>4 DEF AddInv
  <2>13. DirectoryInv'
    BY <2>1, <2>2, <2>3, <2>6 DEF DirectoryInv, DirectoryOf, Active
  <2>14. RunnerContext'
    <3>1. Of(cur_proc_index)' = Of(i)
      BY <2>1, <2>3 DEF Runner, Of
    <3>2. Live' \subseteq Slots
      BY DEF Live
    <3> QED
      BY <2>1, <2>5, <2>8, <2>9, <2>15, <3>1, <3>2 DEF RunnerContext
  <2> QED
    BY <1>1, <2>10, <2>11, <2>12, <2>13, <2>14
<1> QED
  BY <1>2, <1>3 DEF Tick

\* A step of the running program is counted for that program alone.
LEMMA ContextWork == ContextInv /\ Work => ContextInv'
<1> SUFFICES ASSUME ContextInv, Work PROVE ContextInv'
  OBVIOUS
<1> USE DEF ContextInv, procVars, schedVars, timerVars, cpuVars, addVars,
      ghostVars
<1>1. TypeOK'
  BY TypeStep DEF Next
<1>2. ~is_first_run /\ cpu.prog \in Programs /\ cpu.prog = Runner(cur_proc_index)
  BY DEF Work, RunsFreely, PhaseInv, RunnerContext, Of, Programs, Main
<1>3. cpu.n = progress[cpu.prog] /\ add_pc = "idle"
  <2>1. cpu.n = progress[cpu.prog]
    BY <1>2 DEF RunnerContext, Of
  <2>2. add_pc = "idle"
    BY DEF Work, RunsFreely, AddInv
  <2> QED
    BY <2>1, <2>2
<1>4. /\ cpu' = [cpu EXCEPT !.n = @ + 1]
      /\ progress' = [progress EXCEPT ![cpu.prog] = @ + 1]
      /\ pid' = pid /\ page_directory' = page_directory
      /\ last_state_regs' = last_state_regs
      /\ scheduler_active' = scheduler_active /\ boot' = boot
      /\ cur_proc_index' = cur_proc_index /\ is_first_run' = is_first_run
      /\ created' = created /\ add_pc' = add_pc /\ add_slot' = add_slot
      /\ owner' = owner /\ cr3' = cr3 /\ given' = given
  BY DEF Work
<1>5. /\ Live' = Live
      /\ \A i \in Slots : Active(i)' = Active(i) /\ Runner(i)' = Runner(i)
  BY <1>4 DEF Live, Active, Runner
<1>6. /\ cpu'.prog = cpu.prog
      /\ cpu' = [prog |-> cpu.prog, n |-> progress'[cpu.prog]]
  BY <1>2, <1>3, <1>4 DEF TypeOK, Contexts
<1>7. /\ cur_proc_index \in Slots /\ Active(cur_proc_index)
  BY <1>2 DEF PhaseInv, Active
<1>8. PhaseInv'
  BY <1>2, <1>4, <1>6 DEF PhaseInv
<1>9. OwnerInv'
  <2>1. cpu.prog <= created
    BY <1>2, <1>7 DEF OwnerInv
  <2> QED
    BY <1>2, <1>4, <1>5, <2>1, SMTT(20) DEF OwnerInv, TypeOK, Programs
<1>10. AddInv' /\ DirectoryInv'
  BY <1>3, <1>4, <1>5 DEF AddInv, DirectoryInv
<1>11. RunnerContext'
  <2>1. ASSUME NEW j \in Live, j # cur_proc_index
        PROVE  Of(j)' = Of(j)
    <3>1. j \in Slots /\ Active(j)
      BY DEF Live, Active
    <3>2. Runner(j) # cpu.prog
      BY <1>2, <1>7, <2>1, <3>1 DEF OwnerInv
    <3>3. Runner(j) \in Programs
      BY <3>1, ZeroTypes DEF Runner, TypeOK
    <3>4. progress'[Runner(j)] = progress[Runner(j)]
      BY <1>4, <3>2, <3>3 DEF TypeOK
    <3> QED
      BY <1>5, <3>1, <3>4 DEF Of
  <2>2. cpu' = Of(cur_proc_index)'
    BY <1>2, <1>4, <1>5, <1>6, <1>7 DEF Of, Runner
  <2> QED
    BY <1>2, <1>3, <1>4, <1>5, <2>1, <2>2 DEF RunnerContext
<1> QED
  BY <1>1, <1>8, <1>9, <1>10, <1>11

\* add_process takes an empty slot for the program it creates.  Nobody runs in
\* that slot but, possibly, the caller itself, who stays its runner.
LEMMA ContextAddBegin ==
  ASSUME NEW prio \in Priorities
  PROVE  ContextInv /\ AddBegin(prio) => ContextInv'
<1> SUFFICES ASSUME ContextInv, AddBegin(prio) PROVE ContextInv'
  OBVIOUS
<1> USE DEF ContextInv, procVars, schedVars, timerVars, cpuVars, addVars,
      ghostVars
<1>1. TypeOK'
  BY TypeStep DEF Next
<1>2. /\ ~is_first_run /\ cpu.prog = 0 /\ add_pc = "idle"
      /\ cur_proc_index \in Slots
  BY DEF AddBegin, RunsFreely, PhaseInv, Main
<1>3. PICK s \in Slots :
        /\ pid[s] = NoPid
        /\ page_directory' = [page_directory EXCEPT ![s] = created + 1]
        /\ pid' = [pid EXCEPT ![s] = 0]
        /\ add_slot' = s
        /\ owner' = [owner EXCEPT ![s] = created + 1]
        /\ given' = IF s = cur_proc_index THEN given \cup {s} ELSE given \ {s}
  BY DEF AddBegin
<1>4. /\ created' = created + 1 /\ add_pc' = "copy_regs"
      /\ last_state_regs' = last_state_regs
      /\ scheduler_active' = scheduler_active /\ boot' = boot
      /\ cur_proc_index' = cur_proc_index /\ is_first_run' = is_first_run
      /\ cpu' = cpu /\ cr3' = cr3 /\ progress' = progress
  BY DEF AddBegin
<1>5. s \notin Live
  BY <1>3 DEF Live
<1>6. Live' = Live \cup {s}
  BY <1>3 DEF Live, NoPid, TypeOK
<1>7. \A j \in Slots : Active(j)' <=> (Active(j) \/ j = s)
  BY <1>4, <1>6 DEF Active
<1>8. \A j \in Slots :
        /\ owner'[j] = IF j = s THEN created + 1 ELSE owner[j]
        /\ page_directory'[j] = IF j = s THEN created + 1
                                ELSE page_directory[j]
        /\ j # s => (j \in given' <=> j \in given)
        /\ j = s => (j \in given' <=> s = cur_proc_index)
  BY <1>3 DEF TypeOK
<1>9. created \in Nat /\ created + 1 \in Programs
  <2>1. created \in 0 .. MaxCreated /\ created < MaxCreated /\ MaxCreated \in Nat
    BY SchedulerAssumption DEF SchedulerAssumption, AddBegin, TypeOK, Programs
  <2> QED
    BY <2>1 DEF Programs
<1>10. PhaseInv'
  BY <1>2, <1>4 DEF PhaseInv
<1>15. Runner(cur_proc_index) = 0
  BY <1>2 DEF RunnerContext, Of
<1>16. \A j \in Slots :
         Runner(j)' = IF j = s /\ s # cur_proc_index THEN created + 1
                      ELSE Runner(j)
  BY <1>8, <1>15 DEF Runner
<1>11. OwnerInv'
  <2>1. \A j \in Slots : Runner(j) \in Nat
    BY DEF Runner, TypeOK, Programs
  <2>2. \A j \in Slots : Active(j) => Runner(j) < created + 1
    BY <1>9, <2>1 DEF OwnerInv
  <2>3. Active(cur_proc_index)
    BY <1>2 DEF Active
  <2>4. ASSUME NEW i \in Slots, NEW j \in Slots, Active(i)', Active(j)',
               Runner(i)' = Runner(j)'
        PROVE  i = j
    <3>1. CASE s = cur_proc_index
      BY <1>7, <1>16, <2>3, <2>4, <3>1 DEF OwnerInv
    <3>2. CASE s # cur_proc_index /\ i = s /\ j # s
      BY <1>7, <1>9, <1>16, <2>1, <2>2, <2>4, <3>2
    <3>3. CASE s # cur_proc_index /\ i # s /\ j = s
      BY <1>7, <1>9, <1>16, <2>1, <2>2, <2>4, <3>3
    <3>4. CASE i # s /\ j # s
      BY <1>7, <1>16, <2>4, <3>4 DEF OwnerInv
    <3> QED
      BY <3>1, <3>2, <3>3, <3>4
  <2>5. \A j \in Slots : Active(j)' => Runner(j)' <= created'
    <3> SUFFICES ASSUME NEW j \in Slots, Active(j)'
                 PROVE  Runner(j)' <= created + 1
      BY <1>4
    <3> QED
      BY <1>7, <1>9, <1>15, <1>16, <2>1, <2>2
  <2>6. \A p \in Programs : p > created' => progress'[p] = 0
    BY <1>4, <1>9 DEF OwnerInv, Programs
  <2> QED
    BY <2>4, <2>5, <2>6 DEF OwnerInv
<1>12. AddInv'
  <2>1. progress[created + 1] = 0
    BY <1>9 DEF OwnerInv, Programs
  <2> QED
    BY <1>2, <1>3, <1>4, <1>6, <1>8, <2>1 DEF AddInv
<1>13. DirectoryInv'
  <2>1. \A j \in Slots : Active(j)' /\ j \notin given' =>
                           page_directory'[j] = owner'[j]
    BY <1>7, <1>8 DEF DirectoryInv
  <2>2. ~is_first_run' /\ cur_proc_index' \notin given' =>
          cr3' = owner'[cur_proc_index']
    BY <1>2, <1>4, <1>8 DEF DirectoryInv
  <2> QED
    BY <2>1, <2>2 DEF DirectoryInv
<1>14. RunnerContext'
  <2>1. Of(cur_proc_index)' = Of(cur_proc_index)
    BY <1>2, <1>4, <1>15, <1>16 DEF Of, Runner
  <2>2. \A j \in Live' : j # s => j \in Live /\ Of(j)' = Of(j)
    BY <1>4, <1>6, <1>16 DEF Live, Of
  <2> QED
    BY <1>2, <1>3, <1>4, <2>1, <2>2 DEF RunnerContext
<1> QED
  BY <1>1, <1>10, <1>11, <1>12, <1>13, <1>14

\* The rest of the copy that add_process makes, and a call that finds no
\* empty slot.
LEMMA ContextAddStep == ContextInv /\ (AddStep \/ AddFull) => ContextInv'
<1> SUFFICES ASSUME ContextInv, AddStep \/ AddFull PROVE ContextInv'
  OBVIOUS
<1> USE DEF ContextInv, procVars, schedVars, timerVars, cpuVars, addVars,
      ghostVars
<1>1. TypeOK'
  BY TypeStep DEF Next
<1>2. CASE AddCopyRegs
  <2>1. /\ ~is_first_run /\ add_slot \in Live /\ add_slot \in Slots
        /\ owner[add_slot] = created /\ progress[created] = 0
        /\ add_slot \in given => add_slot = cur_proc_index
    BY <1>2 DEF AddCopyRegs, InAdd, AddInv, TypeOK
  <2>2. \A j \in Slots : last_state_regs'[j]
          = IF j = add_slot THEN [prog |-> created, n |-> 0]
            ELSE last_state_regs[j]
    BY <1>2 DEF AddCopyRegs, TypeOK, Fresh
  <2>3. RunnerContext'
    <3>1. \A j \in Slots : Of(j)' = Of(j)
      BY <1>2 DEF AddCopyRegs, Of, Runner
    <3>2. cpu' = cpu /\ Of(cur_proc_index)' = Of(cur_proc_index)
      BY <1>2 DEF AddCopyRegs, Of, Runner
    <3>3. add_slot # cur_proc_index => last_state_regs'[add_slot] = Of(add_slot)
      BY <2>1, <2>2 DEF Of, Runner
    <3>4. /\ is_first_run' = is_first_run /\ cur_proc_index' = cur_proc_index
          /\ Live' = Live /\ Live \subseteq Slots
      BY <1>2 DEF AddCopyRegs, Live
    <3> QED
      BY <2>1, <2>2, <3>1, <3>2, <3>3, <3>4 DEF RunnerContext
  <2> QED
    BY <1>1, <1>2, <2>1, <2>3 DEF AddCopyRegs, InAdd, PhaseInv, OwnerInv,
       AddInv, DirectoryInv, Active, Runner, Of, Live
<1>3. CASE AddCopyPriority
  BY <1>1, <1>3 DEF AddCopyPriority, InAdd, PhaseInv, OwnerInv, AddInv,
     DirectoryInv, RunnerContext, Active, Runner, Of, Live
<1>4. CASE AddSetPid
  <2>1. /\ ~is_first_run /\ add_slot \in Live /\ add_pc = "set_pid"
    BY <1>4 DEF AddSetPid, InAdd, AddInv
  <2>2. Live' = Live
    BY <1>4, <2>1 DEF AddSetPid, PidFor, Live, NoPid, TypeOK, Slots
  <2>3. \A j \in Slots : Active(j)' = Active(j)
    BY <1>4, <2>2 DEF AddSetPid, Active
  <2> QED
    BY <1>1, <1>4, <2>1, <2>2, <2>3 DEF AddSetPid, PhaseInv, OwnerInv, AddInv,
       DirectoryInv, RunnerContext, Runner, Of
<1>5. CASE AddFull
  <2>1. ~is_first_run /\ add_pc = "idle"
    BY <1>5 DEF AddFull, RunsFreely, PhaseInv, Main
  <2>2. Live' = Live /\ \A j \in Slots : Active(j)' = Active(j)
    BY <1>5 DEF AddFull, Live, Active
  <2>3. OwnerInv'
    BY <1>5, <2>2, SMTT(20) DEF AddFull, OwnerInv, Runner, TypeOK, Programs
  <2> QED
    BY <1>1, <1>5, <2>1, <2>2, <2>3 DEF AddFull, PhaseInv, AddInv,
       DirectoryInv, RunnerContext, Runner, Of
<1> QED
  BY <1>2, <1>3, <1>4, <1>5 DEF AddStep

\* remove_process empties slots and touches nothing else.
LEMMA ContextRemove ==
  ASSUME NEW i \in Slots
  PROVE  ContextInv /\ RemoveProcess(i) => ContextInv'
<1> SUFFICES ASSUME ContextInv, RemoveProcess(i) PROVE ContextInv'
  OBVIOUS
<1> USE DEF ContextInv, procVars, schedVars, timerVars, cpuVars, addVars,
      ghostVars
<1>1. TypeOK'
  BY TypeStep DEF Next
<1>2. Live' \subseteq Live
  BY DEF RemoveProcess, Live, NoPid
<1>3. \A j \in Slots : Active(j)' => Active(j)
  BY <1>2 DEF RemoveProcess, Active
<1>4. ~is_first_run /\ add_pc = "idle"
  BY DEF RemoveProcess, RunsFreely, PhaseInv, Programs, Main, AddInv
<1>5. PhaseInv' /\ AddInv'
  BY <1>4 DEF RemoveProcess, PhaseInv, AddInv
<1>6. OwnerInv' /\ DirectoryInv'
  BY <1>3 DEF RemoveProcess, OwnerInv, DirectoryInv, Runner
<1>7. RunnerContext'
  BY <1>2 DEF RemoveProcess, RunnerContext, Runner, Of
<1> QED
  BY <1>1, <1>5, <1>6, <1>7

\* ContextInv holds initially and in every behaviour in which no time slice
\* expires inside add_process.
LEMMA ContextInvariant ==
  ASSUME ~AddPreemptible
  PROVE  Spec => []ContextInv
<1>1. ASSUME Init PROVE ContextInv
  <2>1. TypeOK
    BY <1>1, InitType
  <2>2. Live = {}
    BY <1>1 DEF Init, Live
  <2>3. cpu.prog = Main
    BY <1>1 DEF Init, Fresh
  <2>4. PhaseInv
    BY <1>1, <2>2, <2>3 DEF Init, PhaseInv
  <2>5. OwnerInv /\ AddInv /\ DirectoryInv /\ RunnerContext
    BY <1>1, <2>2 DEF Init, OwnerInv, AddInv, DirectoryInv, RunnerContext,
       Active
  <2> QED
    BY <2>1, <2>4, <2>5 DEF ContextInv
<1>2. ASSUME ContextInv, [Next]_vars PROVE ContextInv'
  <2>1. CASE UNCHANGED vars
    <3>1. TypeOK'
      BY <1>2, TypeStep DEF ContextInv
    <3> QED
      BY <1>2, <2>1, <3>1 DEF vars, ContextInv, procVars, schedVars, timerVars,
         cpuVars, addVars, ghostVars, PhaseInv, OwnerInv, AddInv,
         DirectoryInv, RunnerContext, Active, Runner, Of, Live
  <2> QED
    BY <1>2, <2>1, ContextBoot, ContextTick, ContextWork, ContextAddBegin,
       ContextAddStep, ContextRemove DEF Next
<1> QED
  BY <1>1, <1>2, PTL DEF Spec

\* As long as no time slice expires inside add_process, a switch never loses
\* or duplicates a step of a program: the registers in the CPU and those saved
\* in proc_arr are exactly as far as each program has got.  Removed processes
\* run on, and may add; the only slot excepted is one that add_process gave
\* away while its removed process was running in it.
THEOREM ContextsPreserved ==
  ASSUME ~AddPreemptible
  PROVE  Spec => []ContextPreserved
<1>1. ContextInv => ContextPreserved
  BY DEF ContextInv, RunnerContext, Runner, Of, ContextPreserved
<1> QED
  BY <1>1, ContextInvariant, PTL

\* Under the same assumption, and with the same exception, CR3 always holds the
\* page directory made for the program whose registers are in the CPU.
THEOREM AddressSpaceOwned ==
  ASSUME ~AddPreemptible
  PROVE  Spec => []OwnAddressSpace
<1>1. ContextInv => OwnAddressSpace
  BY DEF ContextInv, RunnerContext, Runner, Of, DirectoryInv, OwnAddressSpace
<1> QED
  BY <1>1, ContextInvariant, PTL

-----------------------------------------------------------------------------
(* The tick counter never overshoots the slice                             *)

\* At 100 interrupts per second the slice of every level up to 3, the 40 ms
\* of init_scheduler and the 50 ms of an inactive scheduler last a tick at
\* least, and the first of them lasts four.
LEMMA SliceLengths ==
  /\ \A m \in {10, 25, 40, 50, 100} : SliceTicks(m, 100) \in Nat \ {0}
  /\ SliceTicks(40, 100) = 4
BY DEF SliceTicks

\* The inductive strengthening of SliceNotOvershot: until init_scheduler sets
\* the first slice the counter is bounded by what main() takes, and every
\* slice that is set afterwards has a length of at least one tick.
SliceInv ==
  /\ boot = "set_timer_freq" <=> freq = 18
  /\ time_slice_millis = 0 <=> boot \in {"set_timer_freq", "init_scheduler"}
  /\ time_slice_millis = 0 => timer_ticks <= BootTicks
  /\ time_slice_millis # 5
  /\ boot # "spin" => ~scheduler_active
  /\ scheduler_active => cur_proc_index \in Slots
  /\ boot = "activate" => cur_proc_index \in Slots
  /\ \A i \in Slots : priority_level[i] \in 0..3
  /\ add_prio \in 0..3
  /\ SliceNotOvershot

\* The slice that a switch sets is never the 5 ms of levels above 3.
LEMMA SliceOfLevel ==
  \A level \in 0..3 : TimeSlice(level) \in {10, 25, 50, 100}
BY DEF TimeSlice

\* A step keeps SliceInv, if main() reaches set_time_slice(40) within three
\* timer interrupts and no process has a level above 3.
LEMMA SliceStep ==
  ASSUME BootTicks <= 3, Priorities \subseteq 0..3
  PROVE  TypeOK /\ SliceInv /\ [Next]_vars => SliceInv'
<1> SUFFICES ASSUME TypeOK, SliceInv, [Next]_vars PROVE SliceInv'
  OBVIOUS
<1> USE DEF SliceInv, procVars, schedVars, timerVars, cpuVars, addVars,
      ghostVars
<1>1. CASE SetTimerFreq
  <2>1. freq' = 100
    BY <1>1 DEF SetTimerFreq
  <2> QED
    BY <1>1, <2>1 DEF SetTimerFreq, SliceNotOvershot
<1>2. CASE InitScheduler
  <2>1. freq = 100 /\ timer_ticks <= BootTicks /\ timer_ticks \in Nat
    BY <1>2 DEF InitScheduler, TypeOK
  <2>2. /\ time_slice_millis' = 40 /\ freq' = 100
        /\ timer_ticks' = timer_ticks
    BY <1>2, <2>1 DEF InitScheduler
  <2>3. SliceNotOvershot'
    BY <2>1, <2>2, SliceLengths, SchedulerAssumption
       DEF SchedulerAssumption, SliceNotOvershot
  <2>4. \A i \in Slots : priority_level'[i] \in 0..3
    BY <1>2, ZeroTypes DEF InitScheduler, TypeOK
  <2> QED
    BY <1>2, <2>1, <2>2, <2>3, <2>4 DEF InitScheduler
<1>3. CASE SetCurrent
  BY <1>3, ZeroTypes DEF SetCurrent, SliceNotOvershot
<1>4. CASE Activate
  BY <1>4 DEF Activate, SliceNotOvershot
<1>5. CASE Tick
  <2>1. CASE CountTick
    <3>1. /\ timer_ticks' = NextTick
          /\ NextTick # SliceTicks(time_slice_millis, freq)
          /\ time_slice_millis' = time_slice_millis /\ freq' = freq
      BY <2>1 DEF CountTick, SliceExpires
    <3>2. NextTick \in Nat /\ NextTick <= timer_ticks + 1
      BY SchedulerAssumption DEF SchedulerAssumption, NextTick, TypeOK
    <3>3. time_slice_millis = 0 => timer_ticks < BootTicks
      BY <1>5 DEF Tick, TickAllowed
    <3>4. time_slice_millis = 0 => timer_ticks' <= BootTicks
      BY <3>1, <3>2, <3>3, SchedulerAssumption DEF SchedulerAssumption, TypeOK
    <3>5. SliceNotOvershot'
      <4> SUFFICES ASSUME time_slice_millis # 0
                   PROVE  NextTick < SliceTicks(time_slice_millis, freq)
        BY <3>1 DEF SliceNotOvershot
      <4>1. /\ freq = 100
            /\ time_slice_millis \in {10, 25, 40, 50, 100}
        BY DEF TypeOK
      <4>2. SliceTicks(time_slice_millis, freq) \in Nat
        BY <4>1, SliceLengths
      <4>3. timer_ticks < SliceTicks(time_slice_millis, freq)
        BY DEF SliceNotOvershot
      <4> QED
        BY <3>1, <3>2, <4>2, <4>3 DEF TypeOK
    <3> QED
      BY <2>1, <3>4, <3>5 DEF CountTick
  <2>2. ASSUME NEW m \in {10, 25, 50, 100}, StartSlice(m),
               boot' = boot, scheduler_active' = scheduler_active,
               scheduler_active => cur_proc_index' \in Slots,
               boot = "activate" => cur_proc_index' \in Slots,
               priority_level' = priority_level, add_prio' = add_prio,
               time_slice_millis # 0
        PROVE  SliceInv'
    <3>1. time_slice_millis' = m /\ timer_ticks' = 0 /\ freq' = freq
      BY <2>2 DEF StartSlice
    <3>2. freq = 100
      BY <2>2 DEF TypeOK
    <3>3. SliceNotOvershot'
      BY <3>1, <3>2, SliceLengths DEF SliceNotOvershot
    <3> QED
      BY <2>2, <3>1, <3>3
  <2>3. SliceExpires => time_slice_millis # 0
    <3> SUFFICES ASSUME time_slice_millis = 0 PROVE ~SliceExpires
      OBVIOUS
    <3>1. SliceTicks(time_slice_millis, freq) = 0
      BY DEF SliceTicks, TypeOK
    <3>2. timer_ticks < BootTicks /\ timer_ticks \in Nat
      BY <1>5 DEF Tick, TickAllowed, TypeOK
    <3>3. NextTick = timer_ticks + 1
      BY <3>2, SchedulerAssumption DEF SchedulerAssumption, NextTick
    <3> QED
      BY <3>1, <3>2, <3>3 DEF SliceExpires
  <2>4. CASE ExpireInactive
    BY <2>2, <2>3, <2>4 DEF ExpireInactive
  <2>5. CASE ExpireSwitch
    <3>1. PICK i \in NextSlots :
            /\ cur_proc_index' = i
            /\ StartSlice(TimeSlice(priority_level[i]))
      BY <2>5 DEF ExpireSwitch
    <3>2. i \in Slots
      BY DEF NextSlots, Live
    <3>3. TimeSlice(priority_level[i]) \in {10, 25, 50, 100}
      BY <3>2, SliceOfLevel
    <3> QED
      BY <2>2, <2>3, <2>5, <3>1, <3>2, <3>3 DEF ExpireSwitch
  <2>6. CASE ExpireAlone
    <3>1. TimeSlice(priority_level[cur_proc_index]) \in {10, 25, 50, 100}
      BY <2>6, SliceOfLevel DEF ExpireAlone
    <3> QED
      BY <2>2, <2>3, <2>6, <3>1 DEF ExpireAlone
  <2> QED
    BY <1>5, <2>1, <2>4, <2>5, <2>6 DEF Tick
<1>6. CASE Work \/ AddFull \/ AddCopyRegs \/ AddSetPid
  BY <1>6 DEF Work, AddFull, AddCopyRegs, AddSetPid, SliceNotOvershot
<1>7. ASSUME NEW prio \in Priorities, AddBegin(prio) PROVE SliceInv'
  BY <1>7 DEF AddBegin, SliceNotOvershot
<1>8. CASE AddCopyPriority
  <2>1. \A i \in Slots : priority_level'[i] \in 0..3
    BY <1>8 DEF AddCopyPriority, TypeOK
  <2> QED
    BY <1>8, <2>1 DEF AddCopyPriority, SliceNotOvershot
<1>9. ASSUME NEW i \in Slots, RemoveProcess(i) PROVE SliceInv'
  BY <1>9 DEF RemoveProcess, SliceNotOvershot
<1>10. CASE UNCHANGED vars
  BY <1>10 DEF vars, SliceNotOvershot
<1> QED
  BY <1>1, <1>2, <1>3, <1>4, <1>5, <1>6, <1>7, <1>8, <1>9, <1>10
     DEF Next, BootStep, AddStep

\* If main() takes at most three timer interrupts before set_time_slice(40)
\* and every level is at most 3, timer_handler's equality test never misses
\* the end of a slice.  Both assumptions are needed: with a fourth interrupt
\* the counter is at the end of the first slice when it is set, and the run
\* low_priority shows what happens at level 4.
THEOREM SliceNeverOvershot ==
  ASSUME BootTicks <= 3, Priorities \subseteq 0..3
  PROVE  Spec => []SliceNotOvershot
<1>1. Init => SliceInv
  BY SchedulerAssumption DEF SchedulerAssumption, Init, SliceInv,
     SliceNotOvershot, Slots
<1>2. SliceInv => SliceNotOvershot
  BY DEF SliceInv
<1>3. TypeOK /\ SliceInv /\ [Next]_vars => SliceInv'
  BY SliceStep
<1> QED
  BY <1>1, <1>2, <1>3, TypeCorrect, PTL DEF Spec

==============================================================================
