-------------------------------- MODULE KHeap --------------------------------
(***************************************************************************)
(* The placement allocator of the kernel (kheap.c) under the requests that *)
(* the rest of the kernel makes of it: main() while it starts up, lol()    *)
(* for the page directories of the processes, and the processes themselves *)
(* when alloc_page needs a page table.                                     *)
(*                                                                         *)
(* main() runs alone.  lol() and the processes are interrupted anywhere,   *)
(* also between the load and the store of place_addr++ and of              *)
(* place_addr += size.                                                     *)
(***************************************************************************)
EXTENDS Integers, Sequences

CONSTANTS
  NProcs,          \* the processes that lol() creates (2)
  PAGE,            \* 0x1000
  START,           \* what place_addr is at first (0xF0000)
  KERNEL_MEM_END,  \* where the identity mapping ends
  KernelTables,    \* tables that map the pages below KERNEL_MEM_END (4)
  StackSize,       \* KERNEL_STACK_SIZE
  IdtSize,         \* 256 entries of 8 bytes
  FaultsSize,      \* 32 pointers
  FramesSize,      \* the bitset of the frames
  ProcArrSize,     \* MAX_PROC structures
  MaxTables        \* bound: tables that each process needs, of either kind

Kernel == 0
Procs == 1 .. NProcs
Threads == Procs \cup {Kernel}

ASSUME KHeapAssumption ==
  /\ NProcs \in Nat /\ PAGE \in Nat \ {0} /\ START \in Nat
  /\ KERNEL_MEM_END \in Nat /\ KernelTables \in Nat /\ MaxTables \in Nat
  /\ StackSize \in Nat /\ IdtSize \in Nat /\ FaultsSize \in Nat
  /\ FramesSize \in Nat /\ ProcArrSize \in Nat

\* What is asked for fits below KERNEL_MEM_END, with a page wasted for every
\* boundary that main() wants and for the first that lol() wants: 15 MB from
\* 0xF0000 to 0xFF0000, for some 200 kB and two tables for each process
ASSUME RoomAssumption ==
  START + StackSize + IdtSize + FaultsSize + FramesSize + ProcArrSize
    + (6 + 2 * KernelTables + NProcs * (1 + KernelTables + MaxTables)) * PAGE
  <= KERNEL_MEM_END

VARIABLES
  place_addr,  \* where the next block begins
  pc,          \* thread -> where it is in kmalloc_all
  request,     \* thread -> what it asks for
  toRet,       \* thread -> the address that it will return
  reg,         \* thread -> the copy of place_addr that is being changed
  done,        \* thread -> requests that it has made
  blocks,      \* the areas that have been handed out
  preempted    \* history: was a thread interrupted inside kmalloc_all?

vars == <<place_addr, pc, request, toRet, reg, done, blocks, preempted>>

-----------------------------------------------------------------------------
(* The callers, in the order in which they ask                             *)

\* a % 0x1000 == 0
Aligned(a) == \E k \in 0 .. a : a = k * PAGE

kmalloc(use, size)   == [use |-> use, size |-> size, align |-> FALSE]
kmalloc_a(use, size) == [use |-> use, size |-> size, align |-> TRUE]

\* A directory and a table both fill a page.
\* Mutant: get_new_kernel_mapped_dir does not ask for a page boundary.
NewDirUnaligned == kmalloc("dir", PAGE)

NewDir == kmalloc_a("dir", PAGE)

KernelTable == kmalloc_a("table", PAGE)
ProcTable == kmalloc("table", PAGE)

\* init_tss, idt_install, isrs_install, init_paging, init_scheduler
Startup ==
  << kmalloc("stack", StackSize), kmalloc_a("idt", IdtSize),
     kmalloc("faults", FaultsSize), kmalloc_a("dir", PAGE),
     kmalloc_a("frames", FramesSize) >>
  \o [n \in 1 .. KernelTables |-> KernelTable]
  \o << kmalloc("processes", ProcArrSize), kmalloc("stack", PAGE) >>

\* get_new_kernel_mapped_dir asks for a directory and its tables
PerProcess == 1 + KernelTables
Created(p) == Len(Startup) + p * PerProcess
KernelRequests == Created(NProcs)

\* The next request of the kernel thread
KernelRequest ==
  LET n == done[Kernel]
  IN IF n < Len(Startup) THEN Startup[n + 1]
     ELSE IF (n - Len(Startup)) % PerProcess = 0 THEN NewDir ELSE KernelTable

Ask(t, what) ==
  /\ pc[t] = "idle"
  /\ pc' = [pc EXCEPT ![t] = "test"]
  /\ request' = [request EXCEPT ![t] = what]
  /\ UNCHANGED <<place_addr, toRet, reg, done, blocks, preempted>>

KernelAsks == done[Kernel] < KernelRequests /\ Ask(Kernel, KernelRequest)

\* alloc_page_pr in a process that add_process has started, for a table of its
\* own, and add_frame_to_kernel_dir for one of the kernel's
ProcAsks(p) ==
  /\ done[Kernel] >= Created(p) /\ done[p] < MaxTables
  /\ Ask(p, ProcTable) \/ Ask(p, KernelTable)

-----------------------------------------------------------------------------
(* kmalloc_all(request.size, request.align, 0)                             *)

\* Thread t goes on, whoever else was interrupted
Step(t, from, to) ==
  /\ pc[t] = from
  /\ pc' = [pc EXCEPT ![t] = to]
  /\ preempted' = (preempted \/ \E u \in Threads \ {t} : pc[u] # "idle")
  /\ UNCHANGED request

\* while(place_addr % 0x1000)
MustAlign(t) == request[t].align /\ ~Aligned(place_addr)

Test(t) ==
  /\ Step(t, "test", IF MustAlign(t) THEN "load" ELSE "take")
  /\ UNCHANGED <<place_addr, toRet, reg, done, blocks>>

\* The load of place_addr++, and that of place_addr += size
Load(t) ==
  /\ Step(t, "load", "store") \/ Step(t, "read", "write")
  /\ reg' = [reg EXCEPT ![t] = place_addr]
  /\ UNCHANGED <<place_addr, toRet, done, blocks>>

Increment(t) ==
  /\ Step(t, "store", "test")
  /\ place_addr' = reg[t] + 1
  /\ UNCHANGED <<toRet, reg, done, blocks>>

\* toRet = place_addr
Take(t) ==
  /\ Step(t, "take", "read")
  /\ toRet' = [toRet EXCEPT ![t] = place_addr]
  /\ UNCHANGED <<place_addr, reg, done, blocks>>

\* Mutant: one byte less is taken.
RaisedShort(t) == reg[t] + request[t].size - 1

\* Mutant: every block takes another page.
RaisedByPage(t) == reg[t] + request[t].size + PAGE

Raised(t) == reg[t] + request[t].size

\* place_addr += size; the caller has its block
Return(t) ==
  /\ Step(t, "write", "idle")
  /\ place_addr' = Raised(t)
  /\ blocks' = Append(blocks, [use |-> request[t].use, start |-> toRet[t],
                               size |-> request[t].size])
  /\ done' = [done EXCEPT ![t] = @ + 1]
  /\ UNCHANGED <<toRet, reg>>

-----------------------------------------------------------------------------
Init ==
  /\ place_addr = START
  /\ pc = [t \in Threads |-> "idle"]
  /\ request = [t \in Threads |-> NewDir]
  /\ toRet = [t \in Threads |-> 0]
  /\ reg = [t \in Threads |-> 0]
  /\ done = [t \in Threads |-> 0]
  /\ blocks = <<>>
  /\ preempted = FALSE

\* Everything that anybody wanted has been handed out
Finished ==
  /\ done[Kernel] = KernelRequests
  /\ \A p \in Procs : done[p] = MaxTables
  /\ UNCHANGED vars

Next ==
  \/ KernelAsks
  \/ \E p \in Procs : ProcAsks(p)
  \/ \E t \in Threads : Test(t) \/ Load(t) \/ Increment(t) \/ Take(t) \/ Return(t)
  \/ Finished

Spec == Init /\ [][Next]_vars

-----------------------------------------------------------------------------
(* Properties                                                              *)

Uses == {"stack", "idt", "faults", "dir", "frames", "table", "processes"}
Requests == [use : Uses, size : Nat, align : BOOLEAN]

\* Every variable keeps its range, and what is handed out ends below
\* KERNEL_MEM_END: kmalloc_all does not look, and directories and tables are
\* reached by their physical address.
TypeOK ==
  /\ place_addr \in START .. KERNEL_MEM_END
  /\ pc \in [Threads -> {"idle", "test", "load", "store", "take", "read", "write"}]
  /\ \A t \in Threads : request[t] \in Requests
  /\ toRet \in [Threads -> 0 .. KERNEL_MEM_END]
  /\ reg \in [Threads -> 0 .. KERNEL_MEM_END]
  /\ done \in [Threads -> 0 .. KernelRequests + MaxTables]
  /\ preempted \in BOOLEAN

Apart(a, b) == a.start + a.size <= b.start \/ b.start + b.size <= a.start

\* As long as nobody was pre-empted inside kmalloc_all, no byte is handed out
\* twice, whatever has been skipped for the sake of a page boundary.
\* (kmalloc_all)
BlocksDisjoint ==
  ~preempted => \A i, j \in DOMAIN blocks : i # j => Apart(blocks[i], blocks[j])

\* Every directory and every table begins a page, however lol() and the
\* processes interrupt one another: the flags that are or-ed into the address
\* of a table destroy nothing, and memset clears the page of that table and
\* reaches into no other (a page that was handed out twice is cleared twice).
\* alloc_page_pr uses kmalloc, which does not align, for the tables of a
\* process; the directory that was allocated before has aligned place_addr,
\* and nothing smaller than a page is asked for since. (kmalloc_a, and
\* alloc_page_pr with kmalloc)
TablesFillPages ==
  \A i \in DOMAIN blocks :
    blocks[i].use \in {"dir", "table"} => Aligned(blocks[i].start)
==============================================================================
