------------------------------ MODULE Scheduler ------------------------------
(***************************************************************************)
(* The process table (process_list.c), the pre-emptive round-robin         *)
(* scheduler (scheduler.c) and the timer interrupt that drives it          *)
(* (timer.c), together with the part of main() that starts them and the    *)
(* kernel process lol() that adds further processes.                       *)
(*                                                                         *)
(* There is one CPU.  A timer interrupt runs with interrupts off, so       *)
(* timer_handler is one atomic action; every other action is a piece of    *)
(* the code that the CPU happens to be executing, and a timer interrupt    *)
(* may fall between any two of them.                                       *)
(*                                                                         *)
(* A register file (regs_t) is abstracted to [prog, n]: whose code it      *)
(* executes and how far that code has got.  The stack pointer is not part  *)
(* of it.                                                                  *)
(***************************************************************************)
EXTENDS Integers

CONSTANTS
  MAX_PROC,        \* slots of proc_arr (32 in process_list.h)
  MaxCreated,      \* bound: processes that lol() creates
  MaxWork,         \* bound: steps of its own that a program takes
  Priorities,      \* priority levels given to the created processes
  BootTicks,       \* timer interrupts that main() takes at most between
                   \* timer_install and set_time_slice(40)
  AddPreemptible,  \* may a time slice expire inside add_process?
  WORD             \* timer_ticks is counted modulo WORD (2^32)

ASSUME SchedulerAssumption ==
  /\ MAX_PROC \in Nat \ {0}
  /\ MaxCreated \in Nat
  /\ MaxWork \in Nat
  /\ Priorities \subseteq 0..255
  /\ BootTicks \in Nat
  /\ AddPreemptible \in BOOLEAN
  /\ WORD \in Nat /\ WORD > 255

VARIABLES
  \* the fields of proc_arr[i]
  pid, page_directory, last_state_regs, priority_level,
  \* scheduler.c
  cur_proc_index, scheduler_active, is_first_run,
  \* timer.c
  timer_ticks, time_slice_millis, freq,
  \* the CPU: the registers in use and the page directory in CR3
  cpu, cr3,
  \* where main() is, and where lol() is inside add_process
  boot, add_pc, add_slot, add_prio, created,
  \* history, read by the properties only: the program that add_process was
  \* given for a slot, how far each program has really got, the number of
  \* switches a slot has been passed over since it last ran, and the slots
  \* that were given away while their removed process was still running
  owner, progress, waits, given

procVars  == <<pid, page_directory, last_state_regs, priority_level>>
schedVars == <<cur_proc_index, scheduler_active, is_first_run>>
timerVars == <<timer_ticks, time_slice_millis, freq>>
cpuVars   == <<cpu, cr3>>
addVars   == <<add_pc, add_slot, add_prio, created>>
ghostVars == <<owner, progress, waits, given>>
vars == <<procVars, schedVars, timerVars, cpuVars, boot, addVars, ghostVars>>

-----------------------------------------------------------------------------
Slots == 0 .. MAX_PROC - 1
NoPid == -1                      \* (uint32_t) -1 marks an empty slot
Programs == 0 .. MaxCreated      \* 0 is the kernel process lol()
Main == -1                       \* main() and the loop it returns to
Nobody == -2                     \* registers that were never written
Contexts == [prog : Programs \cup {Main, Nobody}, n : 0 .. MaxWork]
Fresh(p) == [prog |-> p, n |-> 0]

\* Milliseconds that a process of a priority level may run
TimeSlice(level) ==
  CASE level = 0 -> 100
    [] level = 1 -> 50
    [] level = 2 -> 25
    [] level = 3 -> 10
    [] OTHER     -> 5

\* The same in timer interrupts, at hz interrupts per second
SliceTicks(millis, hz) == (millis * hz) \div 1000

Live == {i \in Slots : pid[i] # NoPid}

\* How many increments of i, wrapped at MAX_PROC, lead from one slot to another
Dist(from, to) == IF to > from THEN to - from ELSE to + MAX_PROC - from

\* Mutant: the scan starts over at slot 0 instead of after the current slot.
NextSlotsFromZero == {i \in Live : \A j \in Live : i <= j}

\* The slots that start_next_process stops at: the nearest live one
NextSlots == {i \in Live : \A j \in Live :
                 Dist(cur_proc_index, i) <= Dist(cur_proc_index, j)}

-----------------------------------------------------------------------------
(* main(): from timer_install() to the endless loop in kernel_entry.asm    *)

\* set_timer_freq(hz): frequencies above 11931080/65335 are refused
SetTimerFreq ==
  /\ boot = "set_timer_freq"
  /\ boot' = "init_scheduler"
  /\ freq' = IF 100 > 11931080 \div 65335 THEN freq ELSE 100
  /\ UNCHANGED <<procVars, schedVars, timer_ticks, time_slice_millis, cpuVars,
                 addVars, ghostVars>>

\* init_scheduler(lol) up to set_time_slice(40), init_process_list included
InitScheduler ==
  /\ boot = "init_scheduler"
  /\ boot' = "set_current"
  /\ pid' = [i \in Slots |-> IF i = 0 THEN 0 ELSE NoPid]
  /\ page_directory' = [page_directory EXCEPT ![0] = 0]
  /\ last_state_regs' = [last_state_regs EXCEPT ![0] = Fresh(0)]
  /\ priority_level' = [priority_level EXCEPT ![0] = 0]
  /\ time_slice_millis' = 40
  /\ UNCHANGED <<schedVars, timer_ticks, freq, cpuVars, addVars, ghostVars>>

\* the last line of init_scheduler
SetCurrent ==
  /\ boot = "set_current"
  /\ boot' = "activate"
  /\ cur_proc_index' = 0
  /\ UNCHANGED <<procVars, scheduler_active, is_first_run, timerVars, cpuVars,
                 addVars, ghostVars>>

\* Mutant: main() ends without activating the scheduler.
ActivateNot ==
  /\ boot = "activate"
  /\ boot' = "spin"
  /\ UNCHANGED <<procVars, schedVars, timerVars, cpuVars, addVars, ghostVars>>

\* scheduler_active = 1; main() returns and the boot code spins
Activate ==
  /\ boot = "activate"
  /\ boot' = "spin"
  /\ scheduler_active' = TRUE
  /\ UNCHANGED <<procVars, cur_proc_index, is_first_run, timerVars, cpuVars,
                 addVars, ghostVars>>

BootStep == SetTimerFreq \/ InitScheduler \/ SetCurrent \/ Activate

-----------------------------------------------------------------------------
(* The timer interrupt: timer_handler and start_next_process               *)

NextTick == IF timer_ticks + 1 < WORD THEN timer_ticks + 1 ELSE 0
SliceExpires == NextTick = SliceTicks(time_slice_millis, freq)

\* Environment: main() is quick enough, and lol() is not interrupted inside
\* add_process unless AddPreemptible says so.
TickAllowed ==
  /\ time_slice_millis = 0 => timer_ticks < BootTicks
  /\ SliceExpires => (AddPreemptible \/ add_pc = "idle")

CountTick ==
  /\ ~SliceExpires
  /\ timer_ticks' = NextTick
  /\ UNCHANGED <<procVars, schedVars, time_slice_millis, freq, cpuVars, boot,
                 addVars, ghostVars>>

\* Mutant: the tick counter runs on into the new slice.
StartSliceRunningOn(millis) ==
  /\ time_slice_millis' = millis
  /\ timer_ticks' = NextTick
  /\ UNCHANGED freq

\* set_time_slice(millis); timer_ticks = 0
StartSlice(millis) ==
  /\ time_slice_millis' = millis
  /\ timer_ticks' = 0
  /\ UNCHANGED freq

\* scheduler_active is still 0
ExpireInactive ==
  /\ SliceExpires /\ ~scheduler_active
  /\ StartSlice(50)
  /\ UNCHANGED <<procVars, schedVars, cpuVars, boot, addVars, ghostVars>>

\* Mutant: the first run saves main()'s registers into the kernel's slot.
SavedRegsAlways == [last_state_regs EXCEPT ![cur_proc_index] = cpu]

\* The registers of the interrupted process go to its slot, except on the
\* first run, when main() is abandoned.
SavedRegs == IF is_first_run THEN last_state_regs
             ELSE [last_state_regs EXCEPT ![cur_proc_index] = cpu]

\* Mutant: CR3 is loaded from the slot that is being left.
DirectoryOfCurrent(i) == page_directory[cur_proc_index]

\* What switch_page_directory is given when slot i takes the CPU
DirectoryOf(i) == page_directory[i]

ExpireSwitch ==
  /\ SliceExpires /\ scheduler_active
  /\ \E i \in NextSlots :
       /\ last_state_regs' = SavedRegs
       /\ is_first_run' = FALSE
       /\ cpu' = last_state_regs'[i]
       /\ cr3' = DirectoryOf(i)
       /\ cur_proc_index' = i
       /\ StartSlice(TimeSlice(priority_level[i]))
       /\ waits' = [j \in Slots |-> IF j = i \/ j \notin Live THEN 0
                                    ELSE waits[j] + 1]
  /\ UNCHANGED <<pid, page_directory, priority_level, scheduler_active, boot,
                 addVars, owner, progress, given>>

\* No slot is live: the scan comes back to cur_proc_index and changes nothing
ExpireAlone ==
  /\ SliceExpires /\ scheduler_active /\ Live = {}
  /\ StartSlice(TimeSlice(priority_level[cur_proc_index]))
  /\ UNCHANGED <<procVars, schedVars, cpuVars, boot, addVars, ghostVars>>

Tick ==
  /\ TickAllowed
  /\ CountTick \/ ExpireInactive \/ ExpireSwitch \/ ExpireAlone

-----------------------------------------------------------------------------
(* What the running process does                                           *)

\* A process has the CPU, and it is not inside add_process.  A process that
\* was removed while it ran runs on until it is switched away from.
RunsFreely ==
  /\ cpu.prog \in Programs
  /\ cpu.prog = 0 => add_pc = "idle"

Work ==
  /\ RunsFreely /\ cpu.n < MaxWork
  /\ cpu' = [cpu EXCEPT !.n = @ + 1]
  /\ progress' = [progress EXCEPT ![cpu.prog] = @ + 1]
  /\ UNCHANGED <<procVars, schedVars, timerVars, cr3, boot, addVars, owner,
                 waits, given>>

\* add_process(proc): the scan for an empty slot, and the part of the
\* structure copy (24 words, in ascending order) that ends with proc.pid,
\* which is 0 in lol()'s zero-initialised globals.  Until that word is
\* written the slot is still empty for everybody else.  It may be the slot of
\* lol() itself, if lol() was removed and runs on.
AddBegin(prio) ==
  /\ RunsFreely /\ cpu.prog = 0 /\ created < MaxCreated
  /\ \E s \in Slots :
       /\ pid[s] = NoPid
       /\ \A t \in Slots : t < s => pid[t] # NoPid
       /\ page_directory' = [page_directory EXCEPT ![s] = created + 1]
       /\ pid' = [pid EXCEPT ![s] = 0]
       /\ add_slot' = s
       /\ owner' = [owner EXCEPT ![s] = created + 1]
       /\ waits' = [waits EXCEPT ![s] = 0]
       /\ given' = IF s = cur_proc_index THEN given \cup {s} ELSE given \ {s}
  /\ add_pc' = "copy_regs"
  /\ add_prio' = prio
  /\ created' = created + 1
  /\ UNCHANGED <<last_state_regs, priority_level, schedVars, timerVars,
                 cpuVars, boot, progress>>

\* No empty slot: add_process returns -1, which lol() does not look at
AddFull ==
  /\ RunsFreely /\ cpu.prog = 0 /\ created < MaxCreated
  /\ Live = Slots
  /\ created' = created + 1
  /\ UNCHANGED <<procVars, schedVars, timerVars, cpuVars, boot, add_pc,
                 add_slot, add_prio, ghostVars>>

InAdd(pc) == cpu.prog = 0 /\ add_pc = pc

AddCopyRegs ==
  /\ InAdd("copy_regs")
  /\ last_state_regs' = [last_state_regs EXCEPT ![add_slot] = Fresh(created)]
  /\ add_pc' = "copy_priority"
  /\ UNCHANGED <<pid, page_directory, priority_level, schedVars, timerVars,
                 cpuVars, boot, add_slot, add_prio, created, ghostVars>>

AddCopyPriority ==
  /\ InAdd("copy_priority")
  /\ priority_level' = [priority_level EXCEPT ![add_slot] = add_prio]
  /\ add_pc' = "set_pid"
  /\ UNCHANGED <<pid, page_directory, last_state_regs, schedVars, timerVars,
                 cpuVars, boot, add_slot, add_prio, created, ghostVars>>

\* Mutant: pids are counted from one.
PidFromOne(slot) == slot + 1

\* proc_arr[i].pid = i
PidFor(slot) == slot

AddSetPid ==
  /\ InAdd("set_pid")
  /\ pid' = [pid EXCEPT ![add_slot] = PidFor(add_slot)]
  /\ add_pc' = "idle"
  /\ UNCHANGED <<page_directory, last_state_regs, priority_level, schedVars,
                 timerVars, cpuVars, boot, add_slot, add_prio, created,
                 ghostVars>>

AddStep == AddCopyRegs \/ AddCopyPriority \/ AddSetPid

\* remove_process(proc_arr[i]): every slot with that pid becomes empty, and
\* the call returns, also to a process that has removed itself
RemoveProcess(i) ==
  /\ RunsFreely /\ i \in Live
  /\ pid' = [j \in Slots |-> IF pid[j] = pid[i] THEN NoPid ELSE pid[j]]
  /\ UNCHANGED <<page_directory, last_state_regs, priority_level, schedVars,
                 timerVars, cpuVars, boot, addVars, ghostVars>>

-----------------------------------------------------------------------------
Init ==
  /\ pid = [i \in Slots |-> NoPid]
  /\ page_directory = [i \in Slots |-> 0]
  /\ last_state_regs = [i \in Slots |-> Fresh(Nobody)]
  /\ priority_level = [i \in Slots |-> 0]
  /\ cur_proc_index = -1
  /\ scheduler_active = FALSE
  /\ is_first_run = TRUE
  /\ timer_ticks = 0 /\ time_slice_millis = 0 /\ freq = 18
  /\ cpu = Fresh(Main) /\ cr3 = 0
  /\ boot = "set_timer_freq"
  /\ add_pc = "idle" /\ add_slot = 0 /\ add_prio = 0 /\ created = 0
  /\ owner = [i \in Slots |-> 0]
  /\ progress = [p \in Programs |-> 0]
  /\ waits = [i \in Slots |-> 0]
  /\ given = {}

Next ==
  \/ BootStep
  \/ Tick
  \/ Work
  \/ \E prio \in Priorities : AddBegin(prio)
  \/ AddFull
  \/ AddStep
  \/ \E i \in Slots : RemoveProcess(i)

Spec == Init /\ [][Next]_vars

\* The PIT interrupts for ever, main() is executed to its end, and a call of
\* add_process that has the CPU is completed.
FairSpec ==
  Spec /\ WF_vars(BootStep) /\ WF_vars(Tick) /\ WF_vars(AddStep)

-----------------------------------------------------------------------------
(* Properties                                                              *)

\* Every variable keeps the range its C declaration and use imply; a pid is
\* the index of a slot of proc_arr.
TypeOK ==
  /\ pid \in [Slots -> Slots \cup {NoPid}]
  /\ page_directory \in [Slots -> Programs]
  /\ last_state_regs \in [Slots -> Contexts]
  /\ priority_level \in [Slots -> 0..255]
  /\ cur_proc_index \in Slots \cup {-1}
  /\ scheduler_active \in BOOLEAN /\ is_first_run \in BOOLEAN
  /\ timer_ticks \in Nat /\ timer_ticks < WORD
  /\ time_slice_millis \in {0, 5, 10, 25, 40, 50, 100}
  /\ freq \in {18, 100}
  /\ cpu \in Contexts /\ cr3 \in Programs
  /\ boot \in {"set_timer_freq", "init_scheduler", "set_current", "activate",
               "spin"}
  /\ add_pc \in {"idle", "copy_regs", "copy_priority", "set_pid"}
  /\ add_slot \in Slots /\ add_prio \in 0..255 /\ created \in Programs
  /\ owner \in [Slots -> Programs]
  /\ progress \in [Programs -> Nat]
  /\ waits \in [Slots -> Nat]
  /\ given \subseteq Slots

\* No process loses work: the registers in the CPU are those of the program
\* of the current slot and as far as it has got, and so are the registers
\* saved for every other live slot whose copy by add_process is complete.
\* A process that removes itself and runs on, and even adds processes, harms
\* none of them but the one that is given the slot it still runs in.
\* (start_next_process, its is_first_run flag, add_process, remove_process)
ContextPreserved ==
  /\ ~is_first_run /\ cur_proc_index \notin given =>
       cpu = [prog |-> owner[cur_proc_index],
              n |-> progress[owner[cur_proc_index]]]
  /\ \A i \in Live \ given :
       \/ ~is_first_run /\ i = cur_proc_index
       \/ add_pc = "copy_regs" /\ i = add_slot
       \/ last_state_regs[i] = [prog |-> owner[i], n |-> progress[owner[i]]]

\* The page directory in CR3 is the one made for the program whose registers
\* are in the CPU, except in a slot that was given away under a running
\* process. (switch_page_directory in start_next_process)
OwnAddressSpace ==
  ~is_first_run /\ cur_proc_index \notin given => cr3 = cpu.prog

\* Round robin with bounded waiting: a live slot is passed over by fewer than
\* MAX_PROC switches before it runs again, whatever the other processes add or
\* remove. (the do-while scan of start_next_process)
BoundedWaiting == \A i \in Live : waits[i] < MAX_PROC

\* timer_handler compares for equality, so the tick counter must never be at
\* or past the end of the slice when the slice is set. (timer_handler,
\* set_time_slice in init_scheduler)
SliceNotOvershot ==
  time_slice_millis # 0 => timer_ticks < SliceTicks(time_slice_millis, freq)

\* Every live process gets the CPU again and again, the kernel process for the
\* first time included, unless it is removed.
EveryProcessRuns ==
  \A i \in Slots :
    i \in Live ~> (i \notin Live \/ (~is_first_run /\ cur_proc_index = i))

\* "only to be called in the scheduler": add_process never lets the scheduler
\* see a half-written slot, so the registers in the CPU are always those that
\* were prepared for the program of the current slot.
RunsOwnProgram ==
  ~is_first_run /\ cur_proc_index \notin given => cpu.prog = owner[cur_proc_index]
==============================================================================
