------------------------------- MODULE Paging -------------------------------
(***************************************************************************)
(* Physical frames and page directories (paging.c): init_paging,           *)
(* get_new_kernel_mapped_dir, alloc_page and free_page, as lol() and the   *)
(* growing heaps of the processes call them.                               *)
(*                                                                         *)
(* A thread is the kernel (main() and then lol()) or a process.  All of    *)
(* them share the bitset frames and the kernel's directory, and a timer    *)
(* interrupt may fall between any two steps of alloc_page.  A page table   *)
(* is part of the directory it hangs in: where kmalloc places it is not    *)
(* modelled here, and what it holds before it is written is anything.      *)
(***************************************************************************)
EXTENDS Integers, FiniteSets

CONSTANTS
  Kernel,           \* the thread of main() and lol(), and its directory
  Procs,            \* the processes that lol() creates, and their directories
  NFRAMES,          \* nframes, the frames of physical memory
  WORD_BITS,        \* frames per word of the bitset (32)
  PAGES_PER_TABLE,  \* 1024
  KERNEL_PAGES,     \* KERNEL_MEM_END / PAGE_SIZE
  HeapPages         \* bound: pages a process asks for after its first two

ASSUME PagingAssumption ==
  /\ Kernel \notin Procs /\ IsFiniteSet(Procs)
  /\ NFRAMES \in Nat /\ WORD_BITS \in Nat \ {0}
  /\ PAGES_PER_TABLE \in Nat \ {0}
  /\ KERNEL_PAGES \in Nat \ {0} /\ KERNEL_PAGES < NFRAMES
  /\ HeapPages \in Nat

VARIABLES
  frames,   \* the frames whose bit is set
  tables,   \* directory -> indices of the tables that are present
  map,      \* directory -> page -> frame, as the tables have it
  next,     \* directory -> the page that the next alloc_page is for
  pc,       \* thread -> where it is in alloc_page
  phys,     \* thread -> phys_addr
  word,     \* thread -> the word of the bitset it has read
  target,   \* the directory that the kernel thread is filling
  mishaps   \* history: was a thread pre-empted, has free_page been called?

vars == <<frames, tables, map, next, pc, phys, word, target, mishaps>>

-----------------------------------------------------------------------------
Threads == Procs \cup {Kernel}
Frames == 0 .. NFRAMES - 1
KernelPages == 0 .. KERNEL_PAGES - 1

\* The virtual pages that matter: those of the identity mapping, and those
\* that processes ask for
Pages == Frames \cup 0 .. KERNEL_PAGES + 1 + HeapPages

None == -1       \* an entry whose present bit is 0
Garbage == -2    \* an entry that was never written, with the present bit set

TableOf(v) == v \div PAGES_PER_TABLE
WordOf(f) == {g \in Frames : g \div WORD_BITS = f \div WORD_BITS}

\* Mutant: the search starts at frame 1.
FreeFramesButZero == {f \in Frames \ frames : f # 0}

\* Mutant: the search goes one frame too far.
FreeFramesTooMany == (0 .. NFRAMES) \ frames

\* The frames that first_free_frame may return, and the one it does return
FreeFrames == Frames \ frames
FirstFree == {f \in FreeFrames : \A g \in FreeFrames : f <= g}

\* What the entries of a table that nobody clears may be
Uncleared(entries) == [entries -> {None, Garbage}]

\* The directory that thread t allocates in
DirOf(t) == IF t = Kernel THEN target ELSE t

\* Outside alloc_page, or stuck in it for ever
Resting == {"idle", "unborn", "halted"}

\* Thread t is at a place and takes a step, whoever else was interrupted
At(t, place) ==
  /\ pc[t] = place
  /\ mishaps' = mishaps
       \cup {m \in {"preempted"} : \E u \in Threads \ {t} : pc[u] \notin Resting}
       \cup {m \in {"free_page"} : place = "free"}
Goto(t, place) == pc' = [pc EXCEPT ![t] = place]

-----------------------------------------------------------------------------
(* The callers: init_paging, lol() and malloc                              *)

\* init_paging maps the pages below KERNEL_MEM_END; lol() then two pages for
\* each process, its stack and the start of its heap
LastPage(d) == IF d = Kernel THEN KERNEL_PAGES ELSE KERNEL_PAGES + 2
KernelDone == next[target] >= LastPage(target)

KernelAsks ==
  /\ At(Kernel, "idle") /\ ~KernelDone
  /\ Goto(Kernel, "find")
  /\ UNCHANGED <<frames, tables, map, next, phys, word, target>>

\* Mutant: the loop ends one page early.
NewDirPagesShort == 0 .. KERNEL_PAGES - 2

\* The pages that get_new_kernel_mapped_dir maps to themselves
NewDirPages == KernelPages

\* get_new_kernel_mapped_dir for the next process; its tables are not cleared
CreateDir(p) ==
  /\ At(Kernel, "idle") /\ KernelDone
  /\ pc[p] = "unborn" /\ pc[target] # "unborn"
  /\ target' = p
  /\ LET present == {TableOf(v) : v \in NewDirPages}
     IN /\ tables' = [tables EXCEPT ![p] = present]
        /\ \E junk \in Uncleared({v \in Pages \ NewDirPages : TableOf(v) \in present}) :
             map' = [map EXCEPT ![p] = [v \in Pages |->
                       IF v \in NewDirPages THEN v
                       ELSE IF v \in DOMAIN junk THEN junk[v] ELSE None]]
  /\ UNCHANGED <<frames, next, pc, phys, word>>

\* add_process: the new process can run
StartProcess ==
  /\ At(Kernel, "idle") /\ KernelDone /\ pc[target] = "unborn"
  /\ Goto(target, "idle")
  /\ UNCHANGED <<frames, tables, map, next, phys, word, target>>

\* malloc in process p asks for a page at the end of its heap
GrowHeap(p) ==
  /\ At(p, "idle") /\ next[p] < LastPage(p) + HeapPages
  /\ Goto(p, "find")
  /\ UNCHANGED <<frames, tables, map, next, phys, word, target>>

-----------------------------------------------------------------------------
(* alloc_page(DirOf(t), next[DirOf(t)]) in thread t                        *)

Page(t) == next[DirOf(t)]

\* alloc_page returns; its callers do not look at what it returns
Done(t) ==
  /\ Goto(t, "idle")
  /\ next' = [next EXCEPT ![DirOf(t)] = @ + 1]

\* first_free_frame, at the start of alloc_page and again after a table was
\* allocated
Find(t) ==
  /\ At(t, "find") \/ At(t, "refind")
  /\ \E f \in FirstFree : phys' = [phys EXCEPT ![t] = f]
  /\ Goto(t, IF pc[t] = "find" THEN "check" ELSE "enter")
  /\ UNCHANGED <<frames, tables, map, next, word, target>>

\* "No free frames! System Halted!"
FindNone(t) ==
  /\ At(t, "find") \/ At(t, "refind")
  /\ FreeFrames = {}
  /\ Goto(t, "halted")
  /\ UNCHANGED <<frames, tables, map, next, phys, word, target>>

\* alloc_page_pr: "is not free", it returns -1
CheckTaken(t) ==
  /\ At(t, "check") /\ phys[t] \in frames
  /\ Done(t)
  /\ UNCHANGED <<frames, tables, map, phys, word, target>>

\* ... or it goes on; a table that is not there is allocated and cleared
CheckFree(t) ==
  /\ At(t, "check") /\ phys[t] \notin frames
  /\ IF TableOf(Page(t)) \in tables[DirOf(t)]
     THEN Goto(t, "enter") /\ UNCHANGED <<tables, map>>
     ELSE /\ Goto(t, "refind")
          /\ tables' = [tables EXCEPT ![DirOf(t)] = @ \cup {TableOf(Page(t))}]
          /\ map' = [map EXCEPT ![DirOf(t)] = [v \in Pages |->
                       IF TableOf(v) = TableOf(Page(t)) THEN None ELSE @[v]]]
  /\ UNCHANGED <<frames, next, phys, word, target>>

\* table_ptr[pageIndex] = table_entry
EnterPage(t) ==
  /\ At(t, "enter")
  /\ map' = [map EXCEPT ![DirOf(t)][Page(t)] = phys[t]]
  /\ Goto(t, "read")
  /\ UNCHANGED <<frames, tables, next, phys, word, target>>

\* write_bitset(phys_addr, 1): a word of the bitset is read ...
ReadWord(t) ==
  /\ At(t, "read")
  /\ word' = [word EXCEPT ![t] = frames \cap WordOf(phys[t])]
  /\ Goto(t, "write")
  /\ UNCHANGED <<frames, tables, map, next, phys, target>>

\* Mutant: the word is assigned instead of or-ed.
WordWithOnly(t) == {phys[t]}

\* Mutant: the bit is not set.
WordUnmarked(t) == word[t]

\* frames[...] |= a
WordWith(t) == word[t] \cup {phys[t]}

\* ... and written back with the bit set
WriteWord(t) ==
  /\ At(t, "write")
  /\ frames' = (frames \ WordOf(phys[t])) \cup WordWith(t)
  /\ IF DirOf(t) = Kernel THEN Done(t)
     ELSE Goto(t, "kernel_check") /\ UNCHANGED next
  /\ UNCHANGED <<tables, map, phys, word, target>>

\* Mutant: the test of the present bit is inverted.
EntryAddedInverted(old, f) == IF old = None THEN old ELSE f

\* An entry of the kernel's directory that is present is left alone
EntryAdded(old, f) == IF old # None THEN old ELSE f

\* add_frame_to_kernel_dir: is there a table for the frame?
KernelCheck(t) ==
  /\ At(t, "kernel_check")
  /\ Goto(t, IF TableOf(phys[t]) \in tables[Kernel] THEN "kernel_entry"
             ELSE "kernel_table")
  /\ UNCHANGED <<frames, tables, map, next, phys, word, target>>

\* The address of a table is stored in the directory; the table is not
\* cleared.  One that another thread has hung in meanwhile is lost, and with
\* it its present bit
KernelTable(t) ==
  /\ At(t, "kernel_table")
  /\ tables' = [tables EXCEPT ![Kernel] = @ \ {TableOf(phys[t])}]
  /\ \E junk \in Uncleared({v \in Pages : TableOf(v) = TableOf(phys[t])}) :
       map' = [map EXCEPT ![Kernel] = [v \in Pages |->
                 IF v \in DOMAIN junk THEN junk[v] ELSE @[v]]]
  /\ Goto(t, "kernel_present")
  /\ UNCHANGED <<frames, next, phys, word, target>>

\* The present bit of the directory's entry is set
KernelPresent(t) ==
  /\ At(t, "kernel_present")
  /\ tables' = [tables EXCEPT ![Kernel] = @ \cup {TableOf(phys[t])}]
  /\ Goto(t, "kernel_entry")
  /\ UNCHANGED <<frames, map, next, phys, word, target>>

\* The frame is mapped to itself, in the table whose address is stored, present
\* or not
KernelEntry(t) ==
  /\ At(t, "kernel_entry")
  /\ map' = [map EXCEPT ![Kernel][phys[t]] = EntryAdded(@, phys[t])]
  /\ Done(t)
  /\ UNCHANGED <<frames, tables, phys, word, target>>

\* free_page(directory, vaddr): the entry is masked with the wrong half, so
\* the frame whose bit write_bitset clears is always frame 0; the mapping stays
FreePage(p) ==
  /\ At(p, "idle")
  /\ word' = [word EXCEPT ![p] = frames \cap WordOf(0)]
  /\ Goto(p, "free")
  /\ UNCHANGED <<frames, tables, map, next, phys, target>>

ClearBit(p) ==
  /\ At(p, "free")
  /\ frames' = (frames \ WordOf(0)) \cup (word[p] \ {0})
  /\ Goto(p, "idle")
  /\ UNCHANGED <<tables, map, next, phys, word, target>>

\* A thread that is halted spins
Spin(t) == pc[t] = "halted" /\ UNCHANGED vars

-----------------------------------------------------------------------------
Init ==
  /\ frames = {}
  /\ tables = [d \in Threads |-> {}]
  /\ map = [d \in Threads |-> [v \in Pages |-> None]]
  /\ next = [d \in Threads |-> IF d = Kernel THEN 0 ELSE KERNEL_PAGES]
  /\ pc = [t \in Threads |-> IF t = Kernel THEN "idle" ELSE "unborn"]
  /\ phys = [t \in Threads |-> 0]
  /\ word = [t \in Threads |-> {}]
  /\ target = Kernel
  /\ mishaps = {}

AllocStep(t) ==
  \/ Find(t) \/ FindNone(t) \/ CheckTaken(t) \/ CheckFree(t) \/ EnterPage(t)
  \/ ReadWord(t) \/ WriteWord(t)
  \/ KernelCheck(t) \/ KernelTable(t) \/ KernelPresent(t) \/ KernelEntry(t)

Next ==
  \/ KernelAsks
  \/ StartProcess
  \/ \E p \in Procs : CreateDir(p) \/ GrowHeap(p) \/ FreePage(p) \/ ClearBit(p)
  \/ \E t \in Threads : AllocStep(t) \/ Spin(t)

Spec == Init /\ [][Next]_vars

-----------------------------------------------------------------------------
(* Properties                                                              *)

Places == {"unborn", "idle", "find", "check", "refind", "enter", "read",
           "write", "kernel_check", "kernel_table", "kernel_present",
           "kernel_entry", "free", "halted"}

\* Every variable keeps the range its C declaration and use imply.
TypeOK ==
  /\ frames \subseteq Frames
  /\ tables \in [Threads -> SUBSET {TableOf(v) : v \in Pages}]
  /\ map \in [Threads -> [Pages -> Frames \cup {None, Garbage}]]
  /\ next \in [Threads -> 0 .. KERNEL_PAGES + 2 + HeapPages]
  /\ pc \in [Threads -> Places]
  /\ phys \in [Threads -> Frames]
  /\ word \in [Threads -> SUBSET Frames]
  /\ target \in Threads
  /\ mishaps \subseteq {"preempted", "free_page"}

Quiet == \A t \in Threads : pc[t] \in Resting
Mapped(d) == {v \in Pages : map[d][v] \in Frames}

\* The pages of its own that a process has mapped, with the process
UserPages == {x \in Procs \X (Pages \ KernelPages) : x[2] \in Mapped(x[1])}

\* Whatever alloc_page writes into the kernel's directory maps a page to itself,
\* although init_paging only asks for the first free frame each time: paging
\* can be switched on, and page tables be reached by their physical address.
\* Behind KERNEL_MEM_END an entry may instead be what was in memory where
\* add_frame_to_kernel_dir placed a table, which nobody clears or corrects;
\* among the kernel's own pages no such entry is left.
\* (init_paging, add_frame_to_kernel_dir)
KernelIdentity ==
  \A v \in Pages :
    /\ map[Kernel][v] \in {None, Garbage, v}
    /\ v \in KernelPages => map[Kernel][v] # Garbage

\* Below KERNEL_MEM_END every process sees what the kernel sees, so that a
\* switch of directories inside the timer interrupt is safe.
\* (get_new_kernel_mapped_dir against init_paging)
SharedKernelHalf ==
  \A p \in Procs : pc[p] # "unborn" =>
    \A v \in KernelPages : map[p][v] = map[Kernel][v] /\ v \in Mapped(Kernel)

\* A frame belongs to one page of one process, or to the kernel
OneUser ==
  \A x, y \in UserPages :
    /\ map[x[1]][x[2]] >= KERNEL_PAGES
    /\ x # y => map[x[1]][x[2]] # map[y[1]][y[2]]

\* As long as nobody was pre-empted inside alloc_page and free_page was not
\* called, every frame has one user, although alloc_page_pr looks for a frame
\* a second time after it has allocated a table. (first_free_frame, the check
\* in alloc_page_pr, write_bitset)
FrameExclusive == mishaps = {} => OneUser

\* The bit of a frame is set exactly if the frame is mapped somewhere
BitsetTrue ==
  Quiet => frames = UNION {{map[d][v] : v \in Mapped(d)} : d \in Threads}

\* Under the same condition the bitset is exact between calls, also when
\* frames have run out in the middle of one. (write_bitset)
BitsetExact == mishaps = {} => BitsetTrue

\* As long as nobody was pre-empted, every page between the first that lol()
\* asked for and the end of the heap is mapped whenever no call is under way,
\* although nobody looks at what alloc_page returns, and its frame is mapped
\* in the kernel's directory, too, unless the entry of a table that was not
\* cleared happened to have the present bit: malloc can write the header of
\* the page that it has just asked for. (alloc_new_page in heap.c,
\* add_frame_to_kernel_dir)
HeapMapped ==
  Quiet /\ "preempted" \notin mishaps =>
    \A p \in Procs : \A v \in KERNEL_PAGES .. next[p] - 1 :
      v \in Mapped(p) /\ map[Kernel][map[p][v]] # None

\* "check if phys_addr already allocated": no frame is given to a second
\* user, whenever the timer interrupts.
CheckedFree == "free_page" \notin mishaps => OneUser
==============================================================================
