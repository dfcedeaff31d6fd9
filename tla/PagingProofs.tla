---------------------------- MODULE PagingProofs ----------------------------
(***************************************************************************)
(* Proofs about frames and page directories for every number of processes, *)
(* of frames and of pages: the kernel's half is the same in all            *)
(* directories whoever interrupts whom, and frames have one user as long   *)
(* as nobody is interrupted inside alloc_page.                             *)
(***************************************************************************)
EXTENDS Paging, TLAPS

-----------------------------------------------------------------------------
(* The inductive invariant that holds whoever is interrupted               *)

InKernelDir == {"kernel_check", "kernel_table", "kernel_present", "kernel_entry"}
InCall == {"find", "check", "refind", "enter", "read", "write"} \cup InKernelDir

\* How far the kernel and a process are with the pages that they ask for
KernelPhase ==
  /\ target = Kernel => \A p \in Procs : pc[p] = "unborn"
  /\ target # Kernel => next[Kernel] = KERNEL_PAGES
  /\ next[Kernel] <= KERNEL_PAGES
  /\ pc[Kernel] \notin {"unborn", "free"}
  /\ pc[Kernel] \in InCall =>
       next[target] < LastPage(target) /\ (target # Kernel => pc[target] = "unborn")
  /\ pc[Kernel] \in InKernelDir => target # Kernel

ProcPhase ==
  \A p \in Procs :
    /\ next[p] >= KERNEL_PAGES
    /\ pc[p] \in InCall => next[p] < KERNEL_PAGES + 2 + HeapPages
    /\ pc[p] # "unborn" => next[p] >= KERNEL_PAGES + 2

\* A process that lol() has not come to
Untouched ==
  \A p \in Procs : pc[p] = "unborn" /\ p # target =>
    /\ next[p] = KERNEL_PAGES
    /\ tables[p] = {}
    /\ map[p] = [v \in Pages |-> None]

\* init_paging, which nobody interrupts: frames are taken in order
InOrder ==
  target = Kernel =>
    /\ frames = 0 .. next[Kernel] - 1
    /\ pc[Kernel] \in {"check", "enter", "read", "write"} =>
         phys[Kernel] = next[Kernel]
    /\ pc[Kernel] = "write" => word[Kernel] = frames \cap WordOf(phys[Kernel])
    /\ \A v \in Pages :
         map[Kernel][v] = IF \/ v < next[Kernel]
                             \/ v = next[Kernel] /\ pc[Kernel] \in {"read", "write"}
                          THEN v ELSE None

\* The tables whose address is in the kernel's directory and whose present bit
\* is about to be set, and the tables of a directory with them
HungIn == {TableOf(phys[u]) : u \in {w \in Threads : pc[w] = "kernel_present"}}
Stored(d) == tables[d] \cup {n \in HungIn : d = Kernel}

\* What is there of a directory's own tables
HasTables ==
  /\ \A d \in Threads : \A v \in Pages : TableOf(v) \notin Stored(d) => map[d][v] = None
  /\ \A t \in Threads : pc[t] \in {"refind", "enter", "read", "write"} =>
       TableOf(Page(t)) \in tables[DirOf(t)]
  /\ \A t \in Threads : pc[t] = "kernel_entry" => TableOf(phys[t]) \in Stored(Kernel)
  /\ \A v \in KernelPages : v < next[Kernel] => TableOf(v) \in tables[Kernel]

\* The kernel's half of the directories
KernelHalf ==
  /\ \A v \in KernelPages : v < next[Kernel] => map[Kernel][v] = v
  /\ \A t \in Threads : pc[t] \in {"kernel_table", "kernel_present"} =>
       \A v \in KernelPages : TableOf(v) # TableOf(phys[t])
  /\ \A p \in Procs : pc[p] # "unborn" \/ p = target =>
       \A v \in KernelPages : map[p][v] = v /\ TableOf(v) \in tables[p]

-----------------------------------------------------------------------------
(* ... and what holds besides as long as nobody was interrupted            *)

Calm == "preempted" \notin mishaps

Alone == \A t, u \in Threads : pc[t] \notin Resting /\ pc[u] \notin Resting => t = u

\* A call: the frame that it has found stays free until it is marked, its
\* page is entered, and the table that the kernel's directory lacks stays away
Undisputed(t) ==
  /\ pc[t] \in {"check", "enter", "read", "write"} => phys[t] \notin frames
  /\ pc[t] = "write" => word[t] = frames \cap WordOf(phys[t])
  /\ pc[t] = "free" => word[t] = frames \cap WordOf(0)
  /\ pc[t] \in {"read", "write"} \cup InKernelDir => map[DirOf(t)][Page(t)] = phys[t]
  /\ pc[t] = "kernel_table" => TableOf(phys[t]) \notin tables[Kernel]

HeapEntered ==
  \A p \in Procs : \A v \in Pages : KERNEL_PAGES <= v /\ v < next[p] =>
    map[p][v] \in Frames /\ map[Kernel][map[p][v]] # None

CalmInv == Calm => Alone /\ (\A t \in Threads : Undisputed(t)) /\ HeapEntered

-----------------------------------------------------------------------------
(* ... and free_page was not called                                        *)

Undisturbed == mishaps = {}

\* The call whose frame is in a directory already, and not yet marked
Marking(t, d, v) ==
  pc[t] \in {"read", "write"} /\ DirOf(t) = d /\ Page(t) = v

MappedMarked ==
  \A d \in Threads : \A v \in Pages : map[d][v] \in Frames =>
    map[d][v] \in frames \/ \E t \in Threads : Marking(t, d, v)

MarkedMapped == \A f \in frames : \E d \in Threads : \E v \in Pages : map[d][v] = f

\* Behind the page that is next nothing is mapped
Ahead ==
  \A p \in Procs : \A v \in Pages : v >= next[p] /\ map[p][v] \in Frames =>
    v = next[p] /\ \E t \in Threads :
      pc[t] \in {"read", "write"} \cup InKernelDir /\ DirOf(t) = p

KernelMarked ==
  /\ \A v \in KernelPages : v < next[Kernel] => v \in frames
  /\ \A t \in Threads : pc[t] \in InKernelDir => phys[t] \in frames

\* OneUser, entry by entry
Exclusive ==
  \A p, q \in Procs : \A v, w \in Pages \ KernelPages : map[p][v] \in Frames =>
    /\ map[p][v] >= KERNEL_PAGES
    /\ map[p][v] = map[q][w] => p = q /\ v = w

Bits == MappedMarked /\ MarkedMapped /\ Ahead /\ KernelMarked /\ Exclusive
BitsInv == Undisturbed => Bits

-----------------------------------------------------------------------------
(* Facts that the steps share                                              *)

LEMMA Sizes ==
  /\ Kernel \in Threads /\ Kernel \notin Procs /\ Procs \subseteq Threads
  /\ KERNEL_PAGES \in Nat /\ KERNEL_PAGES > 0 /\ HeapPages \in Nat
  /\ NFRAMES \in Nat /\ KERNEL_PAGES < NFRAMES
  /\ Pages \subseteq Nat /\ Frames \subseteq Pages /\ KernelPages \subseteq Frames
  /\ \A v \in Nat : v <= KERNEL_PAGES + 1 + HeapPages => v \in Pages
  /\ None \notin Nat /\ Garbage \notin Nat /\ None # Garbage
BY PagingAssumption
   DEF PagingAssumption, Threads, Pages, Frames, KernelPages, None, Garbage

\* A call works on the kernel's directory during init_paging only, and no two
\* calls work on the same directory.
LEMMA CallFacts ==
  ASSUME TypeOK, KernelPhase, ProcPhase, NEW t \in Threads, pc[t] \in InCall
  PROVE  /\ DirOf(t) \in Threads
         /\ Page(t) \in Pages /\ Page(t) \in Nat
         /\ Page(t) < KERNEL_PAGES + 2 + HeapPages
         /\ DirOf(t) = Kernel =>
              /\ t = Kernel /\ target = Kernel /\ Page(t) = next[Kernel]
              /\ Page(t) < KERNEL_PAGES
         /\ DirOf(t) # Kernel =>
              /\ DirOf(t) \in Procs /\ Page(t) >= KERNEL_PAGES
              /\ target # Kernel /\ next[Kernel] = KERNEL_PAGES
              /\ pc[DirOf(t)] # "unborn" \/ DirOf(t) = target
         /\ \A u \in Threads : pc[u] \in InCall /\ DirOf(u) = DirOf(t) => u = t
<1> USE Sizes
<1>1. next \in [Threads -> Nat]
  BY DEF TypeOK
<1>2. CASE t = Kernel
  <2>1. DirOf(t) = target /\ target \in Threads /\ next[target] < LastPage(target)
    BY <1>2 DEF DirOf, TypeOK, KernelPhase
  <2>2. CASE target = Kernel
    BY <1>1, <1>2, <2>1, <2>2 DEF DirOf, Page, LastPage, KernelPhase, InCall, InKernelDir, Threads
  <2>3. CASE target # Kernel
    <3>1. target \in Procs /\ pc[target] = "unborn"
      BY <1>2, <2>1, <2>3 DEF KernelPhase, Threads
    <3> QED
      BY <1>1, <1>2, <2>1, <2>3, <3>1
      DEF DirOf, Page, LastPage, KernelPhase, ProcPhase, InCall, InKernelDir, Threads
  <2> QED
    BY <2>2, <2>3
<1>3. CASE t # Kernel
  <2>1. t \in Procs /\ DirOf(t) = t /\ pc[t] # "unborn"
    BY <1>3 DEF Threads, DirOf, InCall, InKernelDir
  <2>2. target # Kernel
    BY <2>1 DEF KernelPhase
  <2> QED
    BY <1>1, <1>3, <2>1, <2>2 DEF DirOf, Page, KernelPhase, ProcPhase, InCall, InKernelDir, Threads
<1> QED
  BY <1>2, <1>3

-----------------------------------------------------------------------------
(* Types and phases                                                        *)

Basic == TypeOK /\ KernelPhase /\ ProcPhase

\* Only a thread in alloc_page takes a step of it.
LEMMA InAlloc ==
  ASSUME NEW t \in Threads, AllocStep(t)
  PROVE  pc[t] \in InCall /\ target' = target
BY DEF AllocStep, Find, FindNone, CheckTaken, CheckFree, EnterPage, ReadWord,
       WriteWord, KernelCheck, KernelTable, KernelPresent, KernelEntry, At, InCall, InKernelDir

\* The phases after a step of alloc_page: the thread goes on, or the page is
\* done.
LEMMA PhasesStep ==
  ASSUME Basic, NEW t \in Threads, pc[t] \in InCall, target' = target,
         NEW place \in Places, pc' = [pc EXCEPT ![t] = place],
         \/ /\ UNCHANGED next
            /\ place \in InCall \cup {"halted"}
            /\ place \in InKernelDir => DirOf(t) # Kernel
         \/ /\ next' = [next EXCEPT ![DirOf(t)] = @ + 1]
            /\ place = "idle"
  PROVE  /\ KernelPhase' /\ ProcPhase'
         /\ next' \in [Threads -> 0 .. KERNEL_PAGES + 2 + HeapPages]
         /\ pc' \in [Threads -> Places]
<1> USE Sizes DEF Basic
<1>1. /\ next \in [Threads -> 0 .. KERNEL_PAGES + 2 + HeapPages]
      /\ pc \in [Threads -> Places] /\ target \in Threads
  BY DEF TypeOK
<1>2. pc' \in [Threads -> Places]
  BY <1>1
<1>3. CASE UNCHANGED next /\ place \in InCall \cup {"halted"}
           /\ (place \in InKernelDir => DirOf(t) # Kernel)
  <2>1. KernelPhase'
    BY <1>1, <1>3, CallFacts DEF KernelPhase, InCall, InKernelDir, LastPage, DirOf, Threads
  <2>2. ProcPhase'
    BY <1>1, <1>3 DEF ProcPhase, InCall, InKernelDir, Threads
  <2> QED
    BY <1>1, <1>2, <1>3, <2>1, <2>2
<1>4. CASE next' = [next EXCEPT ![DirOf(t)] = @ + 1] /\ place = "idle"
  <2>1. DirOf(t) \in Threads /\ Page(t) < KERNEL_PAGES + 2 + HeapPages
    BY CallFacts
  <2>2. next' \in [Threads -> 0 .. KERNEL_PAGES + 2 + HeapPages]
    BY <1>1, <1>4, <2>1 DEF Page
  <2>3. KernelPhase'
    <3>1. next[Kernel] <= KERNEL_PAGES /\ (DirOf(t) = Kernel => next[Kernel] < KERNEL_PAGES)
      BY CallFacts DEF KernelPhase, Page
    <3>2. next'[Kernel] = IF DirOf(t) = Kernel THEN next[Kernel] + 1 ELSE next[Kernel]
      BY <1>1, <1>4
    <3>3. next'[Kernel] <= KERNEL_PAGES /\ (target # Kernel => next'[Kernel] = KERNEL_PAGES)
      BY <1>1, <3>1, <3>2, CallFacts DEF KernelPhase
    <3>4. target = Kernel => \A p \in Procs : pc'[p] = "unborn"
      <4>1. target = Kernel => t = Kernel
        BY CallFacts
      <4> QED
        BY <1>1, <1>4, <4>1 DEF KernelPhase, Threads
    <3>5. pc'[Kernel] \notin {"unborn", "free"}
      BY <1>1, <1>4 DEF KernelPhase
    <3>6. pc'[Kernel] \in InCall => t # Kernel /\ pc[Kernel] \in InCall
      BY <1>1, <1>4 DEF InCall, InKernelDir
    <3>7. pc'[Kernel] \in InCall => DirOf(t) # target /\ pc'[target] = pc[target]
      BY <1>1, <1>4, <3>6, CallFacts DEF DirOf, KernelPhase
    <3>8. pc'[Kernel] \in InCall => next'[target] < LastPage(target)
                                    /\ (target # Kernel => pc'[target] = "unborn")
      BY <1>1, <1>4, <3>6, <3>7 DEF KernelPhase
    <3>9. pc'[Kernel] \in InKernelDir => target # Kernel
      BY <1>1, <1>4 DEF KernelPhase, InKernelDir
    <3> QED
      BY <3>3, <3>4, <3>5, <3>8, <3>9 DEF KernelPhase, LastPage
  <2>4. ProcPhase'
    <3> SUFFICES ASSUME NEW p \in Procs
                 PROVE  /\ next'[p] >= KERNEL_PAGES
                        /\ pc'[p] \in InCall => next'[p] < KERNEL_PAGES + 2 + HeapPages
                        /\ pc'[p] # "unborn" => next'[p] >= KERNEL_PAGES + 2
      BY DEF ProcPhase
    <3>1. p \in Threads /\ next[p] \in Nat /\ next'[p] >= next[p] /\ next'[p] \in Nat
      BY <1>1, <1>4, <2>2 DEF Threads
    <3>2. pc'[p] \in InCall => pc'[p] = pc[p] /\ p # t
      BY <1>1, <1>4, <3>1 DEF InCall, InKernelDir
    <3>3. pc'[p] \in InCall => next'[p] = next[p]
      BY <1>1, <1>4, <3>1, <3>2, CallFacts DEF DirOf
    <3>4. pc'[p] # "unborn" => pc[p] # "unborn"
      BY <1>1, <1>4, <3>1 DEF InCall, InKernelDir
    <3> QED
      BY <3>1, <3>2, <3>3, <3>4 DEF ProcPhase
  <2> QED
    BY <1>2, <2>2, <2>3, <2>4
<1> QED
  BY <1>3, <1>4

\* A table that is not cleared is a part of a directory.
LEMMA DirTyped ==
  ASSUME NEW m \in [Pages -> Frames \cup {None, Garbage}], NEW S \in SUBSET Pages,
         NEW junk \in Uncleared(S)
  PROVE  [v \in Pages |-> IF v \in DOMAIN junk THEN junk[v] ELSE m[v]]
           \in [Pages -> Frames \cup {None, Garbage}]
BY DEF Uncleared

LEMMA AllocTyped ==
  ASSUME Basic, NEW t \in Threads, AllocStep(t)
  PROVE  Basic'
<1> USE Sizes
<1>1. /\ frames \subseteq Frames
      /\ tables \in [Threads -> SUBSET {TableOf(v) : v \in Pages}]
      /\ map \in [Threads -> [Pages -> Frames \cup {None, Garbage}]]
      /\ phys \in [Threads -> Frames] /\ word \in [Threads -> SUBSET Frames]
      /\ target \in Threads /\ mishaps \subseteq {"preempted", "free_page"}
  BY DEF Basic, TypeOK
<1>2. pc[t] \in InCall /\ target' = target
  BY InAlloc
<1>3. /\ DirOf(t) \in Threads /\ Page(t) \in Pages
      /\ phys[t] \in Pages /\ phys[t] \in Frames
  BY <1>1, <1>2, CallFacts DEF Basic
<1>4. TableOf(Page(t)) \in {TableOf(v) : v \in Pages}
      /\ TableOf(phys[t]) \in {TableOf(v) : v \in Pages}
  BY <1>3
<1>5. ASSUME NEW place, At(t, place) PROVE mishaps' \subseteq {"preempted", "free_page"}
  BY <1>1, <1>5 DEF At
<1>6. SUFFICES
        /\ frames' \subseteq Frames
        /\ tables' \in [Threads -> SUBSET {TableOf(v) : v \in Pages}]
        /\ map' \in [Threads -> [Pages -> Frames \cup {None, Garbage}]]
        /\ phys' \in [Threads -> Frames] /\ word' \in [Threads -> SUBSET Frames]
        /\ mishaps' \subseteq {"preempted", "free_page"}
        /\ \E place \in Places :
             /\ pc' = [pc EXCEPT ![t] = place]
             /\ \/ /\ UNCHANGED next
                   /\ place \in InCall \cup {"halted"}
                   /\ place \in InKernelDir => DirOf(t) # Kernel
                \/ /\ next' = [next EXCEPT ![DirOf(t)] = @ + 1]
                   /\ place = "idle"
  <2>1. KernelPhase' /\ ProcPhase'
        /\ next' \in [Threads -> 0 .. KERNEL_PAGES + 2 + HeapPages]
        /\ pc' \in [Threads -> Places]
    BY <1>2, <1>6, PhasesStep
  <2> QED
    BY <1>1, <1>2, <1>6, <2>1 DEF Basic, TypeOK
<1> USE DEF InCall, InKernelDir, Places
<1>7. CASE Find(t)
  <2>1. phys' \in [Threads -> Frames] /\ mishaps' \subseteq {"preempted", "free_page"}
    BY <1>1, <1>5, <1>7 DEF Find, FirstFree, FreeFrames
  <2>2. \E place \in {"check", "enter"} : pc' = [pc EXCEPT ![t] = place]
    BY <1>7 DEF Find, Goto
  <2> QED
    BY <1>1, <1>7, <2>1, <2>2 DEF Find
<1>8. CASE FindNone(t)
  BY <1>1, <1>5, <1>8 DEF FindNone, Goto
<1>9. CASE CheckTaken(t)
  BY <1>1, <1>5, <1>9 DEF CheckTaken, Goto, Done
<1>10. CASE CheckFree(t)
  <2>1. tables' \in [Threads -> SUBSET {TableOf(v) : v \in Pages}]
    BY <1>1, <1>3, <1>4, <1>10 DEF CheckFree
  <2>2. map' \in [Threads -> [Pages -> Frames \cup {None, Garbage}]]
    BY <1>1, <1>3, <1>10 DEF CheckFree
  <2>3. \E place \in {"refind", "enter"} : pc' = [pc EXCEPT ![t] = place]
    BY <1>10 DEF CheckFree, Goto
  <2> QED
    BY <1>1, <1>5, <1>10, <2>1, <2>2, <2>3 DEF CheckFree
<1>11. CASE EnterPage(t)
  BY <1>1, <1>3, <1>5, <1>11 DEF EnterPage, Goto
<1>12. CASE ReadWord(t)
  BY <1>1, <1>5, <1>12 DEF ReadWord, Goto, WordOf
<1>13. CASE WriteWord(t)
  BY <1>1, <1>3, <1>5, <1>13 DEF WriteWord, WordWith, Goto, Done
<1>14. CASE KernelCheck(t)
  BY <1>1, <1>5, <1>14, CallFacts DEF KernelCheck, Goto, At, Basic, KernelPhase
<1>15. CASE KernelTable(t)
  <2>1. PICK junk \in Uncleared({v \in Pages : TableOf(v) = TableOf(phys[t])}) :
          map' = [map EXCEPT ![Kernel] = [v \in Pages |->
                    IF v \in DOMAIN junk THEN junk[v] ELSE @[v]]]
    BY <1>15 DEF KernelTable
  <2>2. map' \in [Threads -> [Pages -> Frames \cup {None, Garbage}]]
    BY <1>1, <2>1, DirTyped
  <2>3. DirOf(t) # Kernel
    BY <1>2, <1>15, CallFacts DEF KernelTable, At, Basic, KernelPhase
  <2>4. tables' \in [Threads -> SUBSET {TableOf(v) : v \in Pages}]
    BY <1>1, <1>4, <1>15 DEF KernelTable
  <2>5. pc' = [pc EXCEPT ![t] = "kernel_present"] /\ UNCHANGED <<frames, next, phys, word>>
        /\ mishaps' \subseteq {"preempted", "free_page"}
    BY <1>5, <1>15 DEF KernelTable, Goto
  <2> QED
    BY <1>1, <2>2, <2>3, <2>4, <2>5
<1>17. CASE KernelPresent(t)
  <2>1. DirOf(t) # Kernel
    BY <1>2, <1>17, CallFacts DEF KernelPresent, At, Basic, KernelPhase
  <2>2. tables' \in [Threads -> SUBSET {TableOf(v) : v \in Pages}]
    BY <1>1, <1>4, <1>17 DEF KernelPresent
  <2> QED
    BY <1>1, <1>5, <1>17, <2>1, <2>2 DEF KernelPresent, Goto
<1>16. CASE KernelEntry(t)
  BY <1>1, <1>3, <1>5, <1>16 DEF KernelEntry, EntryAdded, Goto, Done
<1> QED
  BY <1>7, <1>8, <1>9, <1>10, <1>11, <1>12, <1>13, <1>14, <1>15, <1>16,
     <1>17 DEF AllocStep

LEMMA CallerTyped ==
  ASSUME Basic,
         \/ KernelAsks \/ StartProcess
         \/ \E p \in Procs : CreateDir(p) \/ GrowHeap(p) \/ FreePage(p) \/ ClearBit(p)
         \/ \E t \in Threads : Spin(t)
         \/ UNCHANGED vars
  PROVE  Basic'
<1> USE Sizes
<1>1. /\ frames \subseteq Frames
      /\ tables \in [Threads -> SUBSET {TableOf(v) : v \in Pages}]
      /\ map \in [Threads -> [Pages -> Frames \cup {None, Garbage}]]
      /\ next \in [Threads -> 0 .. KERNEL_PAGES + 2 + HeapPages]
      /\ pc \in [Threads -> Places]
      /\ phys \in [Threads -> Frames] /\ word \in [Threads -> SUBSET Frames]
      /\ target \in Threads /\ mishaps \subseteq {"preempted", "free_page"}
  BY DEF Basic, TypeOK
<1>2. ASSUME NEW t, NEW place, At(t, place) PROVE mishaps' \subseteq {"preempted", "free_page"}
  BY <1>1, <1>2 DEF At
<1>3. CASE KernelAsks
  <2>1. TypeOK'
    BY <1>1, <1>2, <1>3 DEF KernelAsks, Goto, TypeOK, Places
  <2>2. KernelPhase'
    <3>1. target # Kernel => target \in Procs /\ pc[target] = "unborn"
      BY <1>1, <1>3 DEF KernelAsks, KernelDone, LastPage, Basic, ProcPhase, Threads
    <3> QED
      BY <1>1, <1>3, <3>1
         DEF KernelAsks, KernelDone, At, Goto, Basic, KernelPhase, LastPage, InCall, InKernelDir
  <2>3. ProcPhase'
    BY <1>1, <1>3 DEF KernelAsks, Goto, Basic, ProcPhase
  <2> QED
    BY <2>1, <2>2, <2>3 DEF Basic
<1>4. CASE StartProcess
  <2>1. TypeOK'
    BY <1>1, <1>2, <1>4 DEF StartProcess, Goto, TypeOK, Places
  <2>2. target \in Procs /\ next[target] >= KERNEL_PAGES + 2
    BY <1>1, <1>4 DEF StartProcess, KernelDone, LastPage, Basic, KernelPhase, Threads
  <2>3. KernelPhase'
    BY <1>1, <1>4, <2>2
       DEF StartProcess, At, Goto, Basic, KernelPhase, LastPage, InCall, InKernelDir
  <2>4. ProcPhase'
    BY <1>1, <1>4, <2>2 DEF StartProcess, Goto, Basic, ProcPhase, InCall, InKernelDir, Threads
  <2> QED
    BY <2>1, <2>3, <2>4 DEF Basic
<1>5. ASSUME NEW p \in Procs, CreateDir(p) PROVE Basic'
  <2>1. map' \in [Threads -> [Pages -> Frames \cup {None, Garbage}]]
    <3> DEFINE present == {TableOf(v) : v \in NewDirPages}
               rest == {v \in Pages \ NewDirPages : TableOf(v) \in present}
    <3>1. PICK junk \in Uncleared(rest) :
            map' = [map EXCEPT ![p] = [v \in Pages |->
                      IF v \in NewDirPages THEN v
                      ELSE IF v \in DOMAIN junk THEN junk[v] ELSE None]]
      BY <1>5 DEF CreateDir
    <3>2. junk \in [rest -> {None, Garbage}]
      BY <3>1 DEF Uncleared
    <3>3. NewDirPages \subseteq Frames
      BY DEF NewDirPages
    <3> HIDE DEF rest
    <3> QED
      BY <1>1, <3>1, <3>2, <3>3
  <2>2. tables' \in [Threads -> SUBSET {TableOf(v) : v \in Pages}]
    BY <1>1, <1>5 DEF CreateDir, NewDirPages
  <2>3. TypeOK'
    <3>1. mishaps' \subseteq {"preempted", "free_page"}
      BY <1>2, <1>5 DEF CreateDir
    <3>2. target' \in Threads /\ UNCHANGED <<frames, next, pc, phys, word>>
      BY <1>5 DEF CreateDir
    <3> QED
      BY <1>1, <2>1, <2>2, <3>1, <3>2 DEF TypeOK
  <2>4. KernelDone /\ pc[Kernel] = "idle" /\ target' = p /\ UNCHANGED <<next, pc>>
    BY <1>5 DEF CreateDir, At
  <2>5. next[Kernel] = KERNEL_PAGES
    <3>1. next[Kernel] \in Nat /\ next[Kernel] <= KERNEL_PAGES
      BY <1>1 DEF Basic, KernelPhase
    <3>2. target = Kernel => next[Kernel] >= KERNEL_PAGES
      BY <2>4 DEF KernelDone, LastPage
    <3> QED
      BY <3>1, <3>2 DEF Basic, KernelPhase
  <2>7. KernelPhase'
    BY <1>1, <2>4, <2>5 DEF Basic, KernelPhase, InCall, InKernelDir
  <2>6. ProcPhase'
    BY <2>4 DEF Basic, ProcPhase
  <2> QED
    BY <2>3, <2>6, <2>7 DEF Basic
<1>6. ASSUME NEW p \in Procs, GrowHeap(p) PROVE Basic'
  <2>1. TypeOK'
    BY <1>1, <1>2, <1>6 DEF GrowHeap, Goto, TypeOK, Places
  <2>2. KernelPhase'
    BY <1>1, <1>6 DEF GrowHeap, At, Goto, Basic, KernelPhase, LastPage
  <2>3. ProcPhase'
    BY <1>1, <1>6 DEF GrowHeap, At, Goto, Basic, ProcPhase, LastPage, Threads
  <2> QED
    BY <2>1, <2>2, <2>3 DEF Basic
<1>7. ASSUME NEW p \in Procs, FreePage(p) \/ ClearBit(p) PROVE Basic'
  <2>1. TypeOK'
    <3>1. mishaps' \subseteq {"preempted", "free_page"}
      BY <1>2, <1>7 DEF FreePage, ClearBit
    <3>2. CASE FreePage(p)
      BY <1>1, <3>1, <3>2 DEF FreePage, Goto, TypeOK, Places
    <3>3. CASE ClearBit(p)
      BY <1>1, <3>1, <3>3 DEF ClearBit, Goto, TypeOK, Places
    <3> QED
      BY <1>7, <3>2, <3>3
  <2>2. KernelPhase'
    BY <1>1, <1>7 DEF FreePage, ClearBit, At, Goto, Basic, KernelPhase, LastPage
  <2>3. ProcPhase'
    BY <1>1, <1>7 DEF FreePage, ClearBit, At, Goto, Basic, ProcPhase, InCall, InKernelDir, Threads
  <2> QED
    BY <2>1, <2>2, <2>3 DEF Basic
<1>8. CASE UNCHANGED vars
  BY <1>8 DEF vars, Basic, TypeOK, KernelPhase, ProcPhase, LastPage
<1> QED
  BY <1>3, <1>4, <1>5, <1>6, <1>7, <1>8 DEF Spin

\* A new table changes no entry of the tables that are there.
LEMMA NewTableKeeps ==
  ASSUME TypeOK, NEW t \in Threads, DirOf(t) \in Threads, CheckFree(t),
         NEW d \in Threads, NEW v \in Pages
  PROVE  map'[d][v] = map[d][v] \/ (map'[d][v] = None /\ TableOf(v) \notin tables[d])
<1>1. map \in [Threads -> [Pages -> Frames \cup {None, Garbage}]]
  BY DEF TypeOK
<1>2. CASE TableOf(Page(t)) \in tables[DirOf(t)]
  BY <1>2 DEF CheckFree
<1>3. CASE TableOf(Page(t)) \notin tables[DirOf(t)]
  <2>1. map' = [map EXCEPT ![DirOf(t)] = [w \in Pages |->
                  IF TableOf(w) = TableOf(Page(t)) THEN None ELSE map[DirOf(t)][w]]]
    BY <1>3 DEF CheckFree
  <2>2. CASE d = DirOf(t)
    <3>1. map'[d][v] = IF TableOf(v) = TableOf(Page(t)) THEN None ELSE map[d][v]
      BY <1>1, <2>1, <2>2
    <3> QED
      BY <1>3, <2>2, <3>1
  <2>3. CASE d # DirOf(t)
    BY <1>1, <2>1, <2>3
  <2> QED
    BY <2>2, <2>3
<1> QED
  BY <1>2, <1>3

\* Only add_frame_to_kernel_dir hangs a table into the kernel's directory.
LEMMA HungSame ==
  ASSUME TypeOK, NEW t \in Threads, NEW place, pc' = [pc EXCEPT ![t] = place],
         pc[t] # "kernel_present", place # "kernel_present",
         \A u \in Threads : u # t => phys'[u] = phys[u]
  PROVE  HungIn' = HungIn
<1>1. \A u \in Threads : pc'[u] = IF u = t THEN place ELSE pc[u]
  BY DEF TypeOK
<1>2. \A u \in Threads : (pc'[u] = "kernel_present") <=> (pc[u] = "kernel_present")
  BY <1>1
<1>3. \A u \in Threads : pc[u] = "kernel_present" => phys'[u] = phys[u]
  OBVIOUS
<1>4. {w \in Threads : pc'[w] = "kernel_present"} = {w \in Threads : pc[w] = "kernel_present"}
  BY <1>2
<1>5. \A u \in {w \in Threads : pc[w] = "kernel_present"} :
        TableOf(phys'[u]) = TableOf(phys[u])
  BY <1>3
<1> QED
  BY <1>4, <1>5 DEF HungIn

HalvesInv == Untouched /\ InOrder /\ HasTables /\ KernelHalf /\ KernelIdentity

LEMMA AllocHalves ==
  ASSUME Basic, Basic', HalvesInv, NEW t \in Threads, AllocStep(t)
  PROVE  HalvesInv'
<1> USE Sizes
<1>1. /\ frames \subseteq Frames
      /\ tables \in [Threads -> SUBSET {TableOf(v) : v \in Pages}]
      /\ map \in [Threads -> [Pages -> Frames \cup {None, Garbage}]]
      /\ next \in [Threads -> 0 .. KERNEL_PAGES + 2 + HeapPages]
      /\ pc \in [Threads -> Places]
      /\ phys \in [Threads -> Frames] /\ word \in [Threads -> SUBSET Frames]
      /\ target \in Threads
  BY DEF Basic, TypeOK
<1>2. pc[t] \in InCall /\ target' = target
  BY InAlloc
<1>3. /\ DirOf(t) \in Threads /\ Page(t) \in Pages /\ Page(t) \in Nat
      /\ DirOf(t) = Kernel =>
              /\ t = Kernel /\ target = Kernel /\ Page(t) = next[Kernel]
              /\ Page(t) < KERNEL_PAGES
      /\ DirOf(t) # Kernel =>
              /\ DirOf(t) \in Procs /\ Page(t) >= KERNEL_PAGES
              /\ target # Kernel /\ next[Kernel] = KERNEL_PAGES
              /\ pc[DirOf(t)] # "unborn" \/ DirOf(t) = target
      /\ \A u \in Threads : pc[u] \in InCall /\ DirOf(u) = DirOf(t) => u = t
  BY <1>2, CallFacts DEF Basic
<1> USE DEF InCall, InKernelDir
<1>4. ASSUME next' = [next EXCEPT ![DirOf(t)] = @ + 1]
      PROVE  /\ \A u \in Threads : pc[u] \in InCall /\ u # t =>
                  Page(u)' = Page(u) /\ DirOf(u)' = DirOf(u)
             /\ DirOf(t) # Kernel => next'[Kernel] = next[Kernel]
             /\ DirOf(t) = Kernel => next'[Kernel] = next[Kernel] + 1
  BY <1>1, <1>2, <1>3, <1>4 DEF Page, DirOf
<1>15. pc[t] \notin {"kernel_table", "kernel_present"} => HungIn' = HungIn
  <2> SUFFICES ASSUME pc[t] \notin {"kernel_table", "kernel_present"} PROVE HungIn' = HungIn
    OBVIOUS
  <2>1. \A u \in Threads : u # t => phys'[u] = phys[u]
    BY <1>1 DEF AllocStep, Find, FindNone, CheckTaken, CheckFree, EnterPage, ReadWord,
         WriteWord, KernelCheck, KernelTable, KernelPresent, KernelEntry
  <2>2. PICK place \in Places \ {"kernel_present"} : pc' = [pc EXCEPT ![t] = place]
    BY DEF AllocStep, Find, FindNone, CheckTaken, CheckFree, EnterPage, ReadWord,
         WriteWord, KernelCheck, KernelTable, KernelPresent, KernelEntry, At, Done, Goto,
         Places
  <2> QED
    BY <2>1, <2>2, HungSame DEF Basic
<1>5. CASE Find(t)
  <2>1. Untouched'
    BY <1>1, <1>2, <1>3, <1>5 DEF Find, FirstFree, FreeFrames, Goto, At, HalvesInv, Untouched
  <2>2. InOrder'
    <3> SUFFICES ASSUME target = Kernel PROVE InOrder'
      BY <1>2 DEF InOrder
    <3>1. t = Kernel /\ next[Kernel] \in Frames /\ frames = 0 .. next[Kernel] - 1
      BY <1>1, <1>3 DEF HalvesInv, InOrder, Frames
    <3>2. PICK f \in FirstFree : phys' = [phys EXCEPT ![t] = f]
      BY <1>5 DEF Find
    <3>3. f = next[Kernel]
      BY <1>1, <3>1 DEF FirstFree, FreeFrames, Frames
    <3>4. phys'[Kernel] = next[Kernel]
      BY <1>1, <3>1, <3>2, <3>3
    <3>5. pc[Kernel] \notin {"read", "write"} /\ pc'[Kernel] \in {"check", "enter"}
          /\ UNCHANGED <<frames, map, next>>
      BY <1>1, <3>1, <1>5 DEF Find, At, Goto
    <3> QED
      BY <3>4, <3>5 DEF HalvesInv, InOrder
  <2>3. HasTables'
    BY <1>1, <1>2, <1>3, <1>5, <1>15
       DEF Find, FirstFree, FreeFrames, Goto, At, HalvesInv, HasTables, Stored, Page, DirOf
  <2>4. KernelHalf'
    BY <1>1, <1>2, <1>3, <1>5 DEF Find, FirstFree, FreeFrames, Goto, At, HalvesInv, KernelHalf
  <2>5. KernelIdentity'
    BY <1>1, <1>2, <1>3, <1>5
       DEF Find, FirstFree, FreeFrames, Goto, At, HalvesInv, KernelIdentity
  <2> QED
    BY <2>1, <2>2, <2>3, <2>4, <2>5 DEF HalvesInv
<1>6. CASE FindNone(t)
  <2>1. Untouched'
    BY <1>1, <1>2, <1>3, <1>6 DEF FindNone, Goto, At, HalvesInv, Untouched
  <2>2. InOrder'
    BY <1>1, <1>2, <1>3, <1>6 DEF FindNone, Goto, At, HalvesInv, InOrder
  <2>3. HasTables'
    BY <1>1, <1>2, <1>3, <1>6, <1>15 DEF FindNone, Goto, At, HalvesInv, HasTables, Stored, Page, DirOf
  <2>4. KernelHalf'
    BY <1>1, <1>2, <1>3, <1>6 DEF FindNone, Goto, At, HalvesInv, KernelHalf
  <2>5. KernelIdentity'
    BY <1>1, <1>2, <1>3, <1>6 DEF FindNone, Goto, At, HalvesInv, KernelIdentity
  <2> QED
    BY <2>1, <2>2, <2>3, <2>4, <2>5 DEF HalvesInv
<1>7. CASE CheckTaken(t)
  <2>1. Untouched'
    BY <1>1, <1>2, <1>3, <1>7 DEF CheckTaken, Done, Goto, At, HalvesInv, Untouched
  <2>2. InOrder'
    BY <1>1, <1>2, <1>3, <1>7 DEF CheckTaken, Done, Goto, At, HalvesInv, InOrder
  <2>3. HasTables'
    <3>1. /\ UNCHANGED <<tables, map, phys>> /\ pc' = [pc EXCEPT ![t] = "idle"]
          /\ next' = [next EXCEPT ![DirOf(t)] = @ + 1]
      BY <1>7 DEF CheckTaken, Done, Goto
    <3>2. DirOf(t) # Kernel /\ HungIn' = HungIn
      BY <1>1, <1>3, <1>7, <1>15 DEF CheckTaken, At, HalvesInv, InOrder
    <3>3. \A u \in Threads : pc'[u] \in InCall => pc'[u] = pc[u] /\ u # t
      BY <1>1, <3>1
    <3>4. \A d \in Threads : Stored(d)' = Stored(d)
      BY <3>1, <3>2 DEF Stored
    <3> QED
      BY <1>4, <3>1, <3>2, <3>3, <3>4 DEF HalvesInv, HasTables
  <2>4. KernelHalf'
    <3>1. /\ UNCHANGED <<tables, map, phys>> /\ pc' = [pc EXCEPT ![t] = "idle"]
          /\ next' = [next EXCEPT ![DirOf(t)] = @ + 1]
      BY <1>7 DEF CheckTaken, Done, Goto
    <3>2. DirOf(t) # Kernel
      BY <1>1, <1>3, <1>7 DEF CheckTaken, At, HalvesInv, InOrder
    <3> QED
      BY <1>1, <1>2, <1>4, <3>1, <3>2 DEF HalvesInv, KernelHalf
  <2>5. KernelIdentity'
    BY <1>1, <1>2, <1>3, <1>7 DEF CheckTaken, Done, Goto, At, HalvesInv, KernelIdentity
  <2> QED
    BY <2>1, <2>2, <2>3, <2>4, <2>5 DEF HalvesInv
<1>8. CASE CheckFree(t)
  <2>1. Untouched'
    BY <1>1, <1>2, <1>3, <1>8 DEF CheckFree, Goto, At, HalvesInv, Untouched
  <2>2. InOrder'
    <3> SUFFICES ASSUME target = Kernel PROVE InOrder'
      BY <1>2 DEF InOrder
    <3>1. /\ t = Kernel /\ DirOf(t) = Kernel /\ Page(t) = next[Kernel]
          /\ next[Kernel] \in Nat /\ next[Kernel] < KERNEL_PAGES
      BY <1>1, <1>3
    <3>2. /\ pc[Kernel] = "check" /\ pc'[Kernel] \in {"enter", "refind"}
          /\ UNCHANGED <<frames, next, phys>>
      BY <1>1, <3>1, <1>8 DEF CheckFree, At, Goto
    <3>3. \A v \in Pages : map'[Kernel][v] = map[Kernel][v]
      <4> SUFFICES ASSUME NEW v \in Pages, map'[Kernel][v] # map[Kernel][v] PROVE FALSE
        OBVIOUS
      <4>1. /\ map'[Kernel][v] = None /\ TableOf(v) = TableOf(next[Kernel])
            /\ TableOf(next[Kernel]) \notin tables[Kernel]
        BY <1>1, <3>1, <1>8 DEF CheckFree
      <4>2. v < next[Kernel]
        BY <1>1, <3>1, <3>2, <4>1 DEF HalvesInv, InOrder
      <4>3. v \in KernelPages
        <5>1. v \in Nat
          OBVIOUS
        <5> QED
          BY <3>1, <4>2, <5>1 DEF KernelPages
      <4> QED
        BY <4>1, <4>2, <4>3 DEF HalvesInv, HasTables
    <3> QED
      BY <3>2, <3>3 DEF HalvesInv, InOrder
  <2>3. HasTables'
    <3>1. /\ UNCHANGED <<next, phys>>
          /\ \A d \in Threads : tables[d] \subseteq tables'[d]
          /\ TableOf(Page(t)) \in tables'[DirOf(t)]
      BY <1>1, <1>3, <1>8 DEF CheckFree
    <3>2. \A d \in Threads : \A v \in Pages : map'[d][v] \in {map[d][v], None}
      BY <1>3, <1>8, NewTableKeeps DEF Basic
    <3>3. \A u \in Threads : Page(u)' = Page(u) /\ DirOf(u)' = DirOf(u)
      BY <1>2, <3>1 DEF Page, DirOf
    <3>4. \A u \in Threads : u # t => pc'[u] = pc[u]
      BY <1>1, <1>8 DEF CheckFree, Goto
    <3>5. pc'[t] # "kernel_entry" /\ HungIn' = HungIn
      BY <1>1, <1>8, <1>15 DEF CheckFree, At, Goto
    <3>8. \A d \in Threads : Stored(d) \subseteq Stored(d)'
      BY <3>1, <3>5 DEF Stored
    <3>6. \A d \in Threads : \A v \in Pages : TableOf(v) \notin Stored(d)' => map'[d][v] = None
      BY <3>2, <3>8 DEF HalvesInv, HasTables
    <3>7. \A u \in Threads : pc'[u] \in {"refind", "enter", "read", "write"} =>
            TableOf(Page(u)') \in tables'[DirOf(u)']
      <4> SUFFICES ASSUME NEW u \in Threads, u # t,
                          pc[u] \in {"refind", "enter", "read", "write"}
                   PROVE  TableOf(Page(u)) \in tables'[DirOf(u)]
        BY <3>1, <3>3, <3>4
      <4>1. DirOf(u) \in Threads
        BY <1>1 DEF DirOf
      <4> QED
        BY <3>1, <4>1 DEF HalvesInv, HasTables
    <3> QED
      BY <3>1, <3>4, <3>5, <3>6, <3>7, <3>8 DEF HalvesInv, HasTables
  <2>4. KernelHalf'
    <3>1. /\ UNCHANGED <<next, phys>>
          /\ \A d \in Threads : tables[d] \subseteq tables'[d]
          /\ TableOf(Page(t)) \in tables'[DirOf(t)]
      BY <1>1, <1>3, <1>8 DEF CheckFree
    <3>2. \A d \in Threads : \A v \in Pages : TableOf(v) \in tables[d] => map'[d][v] = map[d][v]
      BY <1>3, <1>8, NewTableKeeps DEF Basic
    <3>3. \A u \in Threads : pc'[u] = pc[u] \/ (u = t /\ pc'[u] \in {"enter", "refind"})
      BY <1>1, <1>8 DEF CheckFree, Goto
    <3>4. pc[t] = "check" /\ \A p \in Procs : p \in Threads
      BY <1>8 DEF CheckFree, At
    <3>5. \A v \in KernelPages : v \in Pages
      OBVIOUS
    <3> QED
      BY <1>2, <3>1, <3>2, <3>3, <3>4, <3>5 DEF HalvesInv, HasTables, KernelHalf
  <2>5. KernelIdentity'
    BY <1>1, <1>2, <1>3, <1>8 DEF CheckFree, Goto, At, HalvesInv, KernelIdentity
  <2> QED
    BY <2>1, <2>2, <2>3, <2>4, <2>5 DEF HalvesInv
<1>9. CASE EnterPage(t)
  <2>1. Untouched'
    BY <1>1, <1>2, <1>3, <1>9 DEF EnterPage, Goto, At, HalvesInv, Untouched
  <2>2. InOrder'
    BY <1>1, <1>2, <1>3, <1>9 DEF EnterPage, Goto, At, HalvesInv, InOrder
  <2>3. HasTables'
    BY <1>1, <1>2, <1>3, <1>9, <1>15 DEF EnterPage, Goto, At, HalvesInv, HasTables, Stored, Page, DirOf
  <2>4. KernelHalf'
    <3>1. /\ UNCHANGED <<tables, next, phys>> /\ pc[t] = "enter"
          /\ pc' = [pc EXCEPT ![t] = "read"]
          /\ map' = [map EXCEPT ![DirOf(t)][Page(t)] = phys[t]]
      BY <1>9 DEF EnterPage, At, Goto
    <3>2. \A d \in Threads : \A v \in Pages :
            map'[d][v] = map[d][v] \/ (d = DirOf(t) /\ v = Page(t))
      BY <1>1, <1>3, <3>1
    <3>3. \A v \in KernelPages : v \in Pages /\ v < KERNEL_PAGES /\ v \in Nat
      BY DEF KernelPages
    <3>4. \A v \in KernelPages : v < next[Kernel] => map'[Kernel][v] = v
      BY <1>1, <1>3, <3>2, <3>3 DEF HalvesInv, KernelHalf
    <3>5. \A p \in Procs : \A v \in KernelPages : map'[p][v] = map[p][v]
      BY <1>1, <1>3, <3>2, <3>3
    <3>6. \A u \in Threads : pc'[u] = pc[u] \/ (u = t /\ pc'[u] = "read")
      BY <1>1, <3>1
    <3> QED
      BY <1>2, <3>1, <3>4, <3>5, <3>6 DEF HalvesInv, KernelHalf, Threads
  <2>5. KernelIdentity'
    <3>1. /\ UNCHANGED <<tables, next, phys>> /\ pc[t] = "enter"
          /\ pc' = [pc EXCEPT ![t] = "read"]
          /\ map' = [map EXCEPT ![DirOf(t)][Page(t)] = phys[t]]
      BY <1>9 DEF EnterPage, At, Goto
    <3>2. DirOf(t) = Kernel => phys[t] = Page(t)
      BY <1>3, <3>1 DEF HalvesInv, InOrder
    <3>3. \A v \in Pages : map'[Kernel][v] = map[Kernel][v] \/ map'[Kernel][v] = v
      BY <1>1, <1>3, <3>1, <3>2
    <3> QED
      BY <3>3 DEF HalvesInv, KernelIdentity
  <2> QED
    BY <2>1, <2>2, <2>3, <2>4, <2>5 DEF HalvesInv
<1>10. CASE ReadWord(t)
  <2>1. Untouched'
    BY <1>1, <1>2, <1>3, <1>10 DEF ReadWord, Goto, At, HalvesInv, Untouched
  <2>2. InOrder'
    BY <1>1, <1>2, <1>3, <1>10 DEF ReadWord, Goto, At, HalvesInv, InOrder
  <2>3. HasTables'
    BY <1>1, <1>2, <1>3, <1>10, <1>15 DEF ReadWord, Goto, At, HalvesInv, HasTables, Stored, Page, DirOf
  <2>4. KernelHalf'
    BY <1>1, <1>2, <1>3, <1>10 DEF ReadWord, Goto, At, HalvesInv, KernelHalf
  <2>5. KernelIdentity'
    BY <1>1, <1>2, <1>3, <1>10 DEF ReadWord, Goto, At, HalvesInv, KernelIdentity
  <2> QED
    BY <2>1, <2>2, <2>3, <2>4, <2>5 DEF HalvesInv
<1>11. CASE WriteWord(t)
  <2>1. Untouched'
    BY <1>1, <1>2, <1>3, <1>11 DEF WriteWord, WordWith, Done, Goto, At, HalvesInv, Untouched
  <2>2. InOrder'
    <3> SUFFICES ASSUME target = Kernel PROVE InOrder'
      BY <1>2 DEF InOrder
    <3>1. DirOf(t) = Kernel /\ t = Kernel
      BY <1>3
    <3>2. /\ UNCHANGED <<map, phys, word, target>> /\ pc[Kernel] = "write"
          /\ pc' = [pc EXCEPT ![Kernel] = "idle"]
          /\ next' = [next EXCEPT ![Kernel] = @ + 1]
          /\ frames' = (frames \ WordOf(phys[Kernel])) \cup (word[Kernel] \cup {phys[Kernel]})
      BY <1>11, <3>1 DEF WriteWord, WordWith, Done, Goto, At
    <3>3. pc'[Kernel] = "idle" /\ next'[Kernel] = next[Kernel] + 1 /\ next[Kernel] \in Nat
      BY <1>1, <3>2
    <3>4. /\ frames = 0 .. next[Kernel] - 1 /\ phys[Kernel] = next[Kernel]
          /\ word[Kernel] = frames \cap WordOf(phys[Kernel])
          /\ \A v \in Pages :
               map[Kernel][v] = IF v < next[Kernel] \/ v = next[Kernel] THEN v ELSE None
      BY <3>2 DEF HalvesInv, InOrder
    <3>5. frames' = frames \cup {next[Kernel]}
      BY <3>2, <3>4
    <3>6. frames' = 0 .. next'[Kernel] - 1
      BY <3>3, <3>4, <3>5
    <3>7. \A v \in Pages : map'[Kernel][v] = IF v < next'[Kernel] THEN v ELSE None
      BY <3>2, <3>3, <3>4
    <3> QED
      BY <3>3, <3>6, <3>7 DEF InOrder
  <2>3. HasTables'
    <3>1. /\ UNCHANGED <<tables, map, phys>> /\ pc[t] = "write"
          /\ \/ DirOf(t) = Kernel /\ pc' = [pc EXCEPT ![t] = "idle"]
                /\ next' = [next EXCEPT ![DirOf(t)] = @ + 1]
             \/ DirOf(t) # Kernel /\ pc' = [pc EXCEPT ![t] = "kernel_check"]
                /\ UNCHANGED next
      BY <1>11 DEF WriteWord, At, Done, Goto
    <3>2. next'[Kernel] = next[Kernel] \/ (next'[Kernel] = next[Kernel] + 1 /\ DirOf(t) = Kernel)
      BY <1>1, <1>4, <3>1
    <3>3. \A v \in KernelPages : v < next'[Kernel] =>
            v < next[Kernel] \/ (DirOf(t) = Kernel /\ v = next[Kernel])
      <4>1. next[Kernel] \in Nat /\ \A v \in KernelPages : v \in Nat
        BY <1>1 DEF KernelPages
      <4> QED
        BY <3>2, <4>1
    <3>4. \A u \in Threads : pc'[u] \in {"refind", "enter", "read", "write", "kernel_entry"} =>
            pc'[u] = pc[u] /\ u # t
      BY <1>1, <3>1
    <3>5. \A u \in Threads : pc[u] \in InCall /\ u # t => Page(u)' = Page(u) /\ DirOf(u)' = DirOf(u)
      BY <1>2, <1>4, <3>1 DEF Page, DirOf
    <3>6. DirOf(t) = Kernel => TableOf(next[Kernel]) \in tables[Kernel]
      BY <1>3, <3>1 DEF HalvesInv, HasTables
    <3>7. \A v \in KernelPages : v < next'[Kernel] => TableOf(v) \in tables[Kernel]
      BY <3>3, <3>6 DEF HalvesInv, HasTables
    <3> QED
      BY <1>15, <3>1, <3>4, <3>5, <3>7 DEF HalvesInv, HasTables, Stored
  <2>4. KernelHalf'
    <3>1. /\ UNCHANGED <<tables, map, phys>> /\ pc[t] = "write"
          /\ \/ DirOf(t) = Kernel /\ pc' = [pc EXCEPT ![t] = "idle"]
                /\ next' = [next EXCEPT ![DirOf(t)] = @ + 1]
             \/ DirOf(t) # Kernel /\ pc' = [pc EXCEPT ![t] = "kernel_check"]
                /\ UNCHANGED next
      BY <1>11 DEF WriteWord, At, Done, Goto
    <3>2. next'[Kernel] = next[Kernel] \/ (next'[Kernel] = next[Kernel] + 1 /\ DirOf(t) = Kernel)
      BY <1>1, <1>4, <3>1
    <3>3. \A v \in KernelPages : v < next'[Kernel] =>
            v < next[Kernel] \/ (DirOf(t) = Kernel /\ v = next[Kernel])
      <4>1. next[Kernel] \in Nat /\ \A v \in KernelPages : v \in Nat
        BY <1>1 DEF KernelPages
      <4> QED
        BY <3>2, <4>1
    <3>4. \A u \in Threads : pc'[u] = pc[u] \/ (u = t /\ pc'[u] \in {"idle", "kernel_check"})
      BY <1>1, <3>1
    <3>5. DirOf(t) = Kernel => map[Kernel][next[Kernel]] = next[Kernel]
      BY <1>3, <3>1 DEF HalvesInv, InOrder
    <3>6. \A v \in KernelPages : v < next'[Kernel] => map[Kernel][v] = v
      BY <3>3, <3>5 DEF HalvesInv, KernelHalf
    <3> QED
      BY <1>2, <3>1, <3>4, <3>6 DEF HalvesInv, KernelHalf, Threads
  <2>5. KernelIdentity'
    BY <1>1, <1>2, <1>3, <1>11
       DEF WriteWord, WordWith, Done, Goto, At, HalvesInv, KernelIdentity
  <2> QED
    BY <2>1, <2>2, <2>3, <2>4, <2>5 DEF HalvesInv
<1>12. CASE KernelCheck(t)
  <2>1. Untouched'
    BY <1>1, <1>2, <1>3, <1>12 DEF KernelCheck, Goto, At, HalvesInv, Untouched
  <2>2. InOrder'
    BY <1>1, <1>2, <1>3, <1>12 DEF KernelCheck, Goto, At, HalvesInv, InOrder
  <2>3. HasTables'
    BY <1>1, <1>2, <1>3, <1>12, <1>15 DEF KernelCheck, Goto, At, HalvesInv, HasTables, Stored, Page, DirOf
  <2>4. KernelHalf'
    <3>1. /\ UNCHANGED <<tables, map, next, phys>> /\ pc[t] = "kernel_check"
          /\ \/ pc' = [pc EXCEPT ![t] = "kernel_entry"]
             \/ TableOf(phys[t]) \notin tables[Kernel] /\ pc' = [pc EXCEPT ![t] = "kernel_table"]
      BY <1>12 DEF KernelCheck, At, Goto
    <3>2. next[Kernel] = KERNEL_PAGES
      BY <1>3, <3>1 DEF Basic, KernelPhase
    <3>3. pc'[t] = "kernel_table" => \A v \in KernelPages : TableOf(v) # TableOf(phys[t])
      BY <1>1, <3>1, <3>2 DEF HalvesInv, HasTables, KernelPages
    <3>4. \A u \in Threads : u # t => pc'[u] = pc[u]
      BY <1>1, <3>1
    <3>5. pc'[t] \in {"kernel_entry", "kernel_table"}
      BY <1>1, <3>1
    <3> QED
      BY <1>2, <3>1, <3>3, <3>4, <3>5 DEF HalvesInv, KernelHalf, Threads
  <2>5. KernelIdentity'
    BY <1>1, <1>2, <1>3, <1>12 DEF KernelCheck, Goto, At, HalvesInv, KernelIdentity
  <2> QED
    BY <2>1, <2>2, <2>3, <2>4, <2>5 DEF HalvesInv
<1>13. CASE KernelTable(t)
  <2>1. Untouched'
    BY <1>1, <1>2, <1>3, <1>13 DEF KernelTable, Uncleared, Goto, At, HalvesInv, Untouched
  <2>2. InOrder'
    <3>1. target' # Kernel
      BY <1>2, <1>3, <1>13 DEF KernelTable, At, Basic, KernelPhase
    <3> QED
      BY <3>1 DEF InOrder
  <2>6. /\ UNCHANGED <<frames, next, phys, word>> /\ pc[t] = "kernel_table"
        /\ pc' = [pc EXCEPT ![t] = "kernel_present"]
        /\ tables' = [tables EXCEPT ![Kernel] = @ \ {TableOf(phys[t])}]
    BY <1>13 DEF KernelTable, At, Goto
  <2>7. \A d \in Threads : \A v \in Pages :
          map'[d][v] = map[d][v]
            \/ (d = Kernel /\ TableOf(v) = TableOf(phys[t]) /\ map'[d][v] \in {None, Garbage})
    <3>1. PICK junk \in Uncleared({v \in Pages : TableOf(v) = TableOf(phys[t])}) :
            map' = [map EXCEPT ![Kernel] = [v \in Pages |->
                      IF v \in DOMAIN junk THEN junk[v] ELSE @[v]]]
      BY <1>13 DEF KernelTable
    <3> QED
      BY <1>1, <3>1 DEF Uncleared
  <2>8. HungIn' = HungIn \cup {TableOf(phys[t])}
    <3>1. \A u \in Threads : pc'[u] = IF u = t THEN "kernel_present" ELSE pc[u]
      BY <1>1, <2>6
    <3> QED
      BY <2>6, <3>1 DEF HungIn
  <2>9. \A v \in KernelPages : TableOf(v) # TableOf(phys[t])
    BY <2>6 DEF HalvesInv, KernelHalf
  <2>10. \A d \in Threads : tables'[d] = IF d = Kernel THEN tables[d] \ {TableOf(phys[t])}
                                         ELSE tables[d]
    BY <1>1, <2>6
  <2>11. \A d \in Threads : Stored(d) \subseteq Stored(d)'
    BY <2>8, <2>10 DEF Stored
  <2>12. TableOf(phys[t]) \in Stored(Kernel)'
    BY <2>8 DEF Stored
  <2>3. HasTables'
    <3>1. \A d \in Threads : \A v \in Pages : TableOf(v) \notin Stored(d)' => map'[d][v] = None
      BY <2>7, <2>11, <2>12 DEF HalvesInv, HasTables
    <3>2. \A u \in Threads : pc'[u] \in {"refind", "enter", "read", "write", "kernel_entry"} =>
            pc'[u] = pc[u] /\ u # t /\ pc[u] \in InCall
      BY <1>1, <2>6
    <3>3. \A u \in Threads : Page(u)' = Page(u) /\ DirOf(u)' = DirOf(u)
      BY <1>2, <2>6 DEF Page, DirOf
    <3>4. \A u \in Threads : pc'[u] \in {"refind", "enter", "read", "write"} =>
            TableOf(Page(u)') \in tables'[DirOf(u)']
      <4> SUFFICES ASSUME NEW u \in Threads, pc'[u] \in {"refind", "enter", "read", "write"}
                   PROVE  TableOf(Page(u)) \in tables'[DirOf(u)]
        BY <3>3
      <4>1. pc[u] \in {"refind", "enter", "read", "write"}
        BY <3>2
      <4>2. target # Kernel
        BY <1>3, <2>6 DEF Basic, KernelPhase
      <4>3. DirOf(u) \in Threads /\ DirOf(u) # Kernel
        BY <4>1, <4>2, CallFacts DEF Basic
      <4> QED
        BY <2>10, <4>1, <4>3 DEF HalvesInv, HasTables
    <3>5. \A u \in Threads : pc'[u] = "kernel_entry" => TableOf(phys[u]) \in Stored(Kernel)'
      BY <2>11, <3>2 DEF HalvesInv, HasTables
    <3>6. \A v \in KernelPages : v < next[Kernel] => TableOf(v) \in tables'[Kernel]
      BY <2>9, <2>10 DEF HalvesInv, HasTables
    <3> QED
      BY <2>6, <3>1, <3>4, <3>5, <3>6 DEF HasTables
  <2>4. KernelHalf'
    <3>1. \A u \in Threads : pc'[u] = IF u = t THEN "kernel_present" ELSE pc[u]
      BY <1>1, <2>6
    <3>2. \A v \in KernelPages : v \in Pages
      OBVIOUS
    <3> QED
      BY <1>2, <2>6, <2>7, <2>9, <2>10, <3>1, <3>2 DEF HalvesInv, KernelHalf, Threads
  <2>5. KernelIdentity'
    BY <2>7, <2>9 DEF HalvesInv, KernelIdentity
  <2> QED
    BY <2>1, <2>2, <2>3, <2>4, <2>5 DEF HalvesInv
<1>16. CASE KernelPresent(t)
  <2>6. /\ UNCHANGED <<frames, map, next, phys, word>> /\ pc[t] = "kernel_present"
        /\ pc' = [pc EXCEPT ![t] = "kernel_entry"]
        /\ tables' = [tables EXCEPT ![Kernel] = @ \cup {TableOf(phys[t])}]
    BY <1>16 DEF KernelPresent, At, Goto
  <2>7. \A u \in Threads : pc'[u] = IF u = t THEN "kernel_entry" ELSE pc[u]
    BY <1>1, <2>6
  <2>8. \A d \in Threads : tables'[d] = IF d = Kernel THEN tables[d] \cup {TableOf(phys[t])}
                                        ELSE tables[d]
    BY <1>1, <2>6
  <2>9. HungIn \subseteq HungIn' \cup {TableOf(phys[t])}
    BY <2>6, <2>7 DEF HungIn
  <2>10. \A d \in Threads : Stored(d) \subseteq Stored(d)'
    BY <2>8, <2>9 DEF Stored
  <2>11. TableOf(phys[t]) \in Stored(Kernel)'
    BY <2>8 DEF Stored
  <2>1. Untouched'
    <3>1. \A p \in Procs : p \in Threads /\ p # Kernel
      OBVIOUS
    <3>2. \A p \in Procs : pc'[p] = "unborn" => pc[p] = "unborn" /\ tables'[p] = tables[p]
      BY <2>7, <2>8, <3>1
    <3> QED
      BY <1>2, <2>6, <3>2 DEF HalvesInv, Untouched
  <2>2. InOrder'
    <3>1. target' # Kernel
      BY <1>2, <1>3, <2>6 DEF Basic, KernelPhase
    <3> QED
      BY <3>1 DEF InOrder
  <2>3. HasTables'
    <3>1. \A d \in Threads : \A v \in Pages : TableOf(v) \notin Stored(d)' => map'[d][v] = None
      BY <2>6, <2>10 DEF HalvesInv, HasTables
    <3>2. \A u \in Threads : Page(u)' = Page(u) /\ DirOf(u)' = DirOf(u) /\ DirOf(u) \in Threads
      BY <1>1, <1>2, <2>6 DEF Page, DirOf
    <3>3. \A u \in Threads : pc'[u] \in {"refind", "enter", "read", "write"} =>
            TableOf(Page(u)') \in tables'[DirOf(u)']
      <4>1. \A u \in Threads : pc'[u] \in {"refind", "enter", "read", "write"} =>
              TableOf(Page(u)) \in tables[DirOf(u)]
        BY <2>7 DEF HalvesInv, HasTables
      <4>2. \A d \in Threads : tables[d] \subseteq tables'[d]
        BY <2>8
      <4> QED
        BY <3>2, <4>1, <4>2
    <3>4. \A u \in Threads : pc'[u] = "kernel_entry" => TableOf(phys[u]) \in Stored(Kernel)'
      BY <2>7, <2>10, <2>11 DEF HalvesInv, HasTables
    <3>5. \A v \in KernelPages : v < next[Kernel] => TableOf(v) \in tables'[Kernel]
      BY <2>8 DEF HalvesInv, HasTables
    <3> QED
      BY <2>6, <3>1, <3>3, <3>4, <3>5 DEF HasTables
  <2>4. KernelHalf'
    BY <1>2, <2>6, <2>7, <2>8 DEF HalvesInv, KernelHalf, Threads
  <2>5. KernelIdentity'
    BY <2>6 DEF HalvesInv, KernelIdentity
  <2> QED
    BY <2>1, <2>2, <2>3, <2>4, <2>5 DEF HalvesInv
<1>14. CASE KernelEntry(t)
  <2>1. Untouched'
    BY <1>1, <1>2, <1>3, <1>14 DEF KernelEntry, EntryAdded, Done, Goto, At, HalvesInv, Untouched
  <2>2. InOrder'
    <3>1. target' # Kernel
      BY <1>2, <1>3, <1>14 DEF KernelEntry, At, Basic, KernelPhase
    <3> QED
      BY <3>1 DEF InOrder
  <2>3. HasTables'
    <3>1. /\ UNCHANGED <<tables, phys>> /\ pc[t] = "kernel_entry"
          /\ pc' = [pc EXCEPT ![t] = "idle"]
          /\ next' = [next EXCEPT ![DirOf(t)] = @ + 1]
          /\ map' = [map EXCEPT ![Kernel][phys[t]] = EntryAdded(@, phys[t])]
      BY <1>14 DEF KernelEntry, At, Done, Goto
    <3>2. DirOf(t) # Kernel
      BY <1>3, <3>1 DEF Basic, KernelPhase
    <3>3. \A u \in Threads : IF u = t THEN pc'[u] = "idle" ELSE pc'[u] = pc[u]
      BY <1>1, <3>1
    <3>4. \A d \in Threads : \A v \in Pages :
            map'[d][v] = map[d][v] \/ (d = Kernel /\ v = phys[t])
      BY <1>1, <3>1
    <3>5. TableOf(phys[t]) \in Stored(Kernel)
      BY <3>1 DEF HalvesInv, HasTables
    <3>6. \A d \in Threads : \A v \in Pages : TableOf(v) \notin Stored(d) => map'[d][v] = None
      BY <3>4, <3>5 DEF HalvesInv, HasTables
    <3>7. \A d \in Threads : Stored(d)' = Stored(d)
      BY <1>15, <3>1 DEF Stored
    <3> QED
      BY <1>4, <3>1, <3>2, <3>3, <3>6, <3>7 DEF HalvesInv, HasTables
  <2>4. KernelHalf'
    <3>1. /\ UNCHANGED <<tables, phys>> /\ pc[t] = "kernel_entry"
          /\ pc' = [pc EXCEPT ![t] = "idle"]
          /\ next' = [next EXCEPT ![DirOf(t)] = @ + 1]
          /\ map' = [map EXCEPT ![Kernel][phys[t]] = EntryAdded(@, phys[t])]
      BY <1>14 DEF KernelEntry, At, Done, Goto
    <3>2. DirOf(t) # Kernel
      BY <1>3, <3>1 DEF Basic, KernelPhase
    <3>3. \A u \in Threads : IF u = t THEN pc'[u] = "idle" ELSE pc'[u] = pc[u]
      BY <1>1, <3>1
    <3>4. \A d \in Threads : \A v \in Pages :
            map'[d][v] = map[d][v] \/ (map'[d][v] = v /\ d = Kernel)
      BY <1>1, <3>1 DEF EntryAdded
    <3>5. next'[Kernel] = next[Kernel]
      BY <1>4, <3>1, <3>2
    <3>6. \A v \in KernelPages : v \in Pages
      OBVIOUS
    <3> QED
      BY <1>2, <3>1, <3>3, <3>4, <3>5, <3>6 DEF HalvesInv, KernelHalf, Threads
  <2>5. KernelIdentity'
    BY <1>1, <1>2, <1>3, <1>14
       DEF KernelEntry, EntryAdded, Done, Goto, At, HalvesInv, KernelIdentity
  <2> QED
    BY <2>1, <2>2, <2>3, <2>4, <2>5 DEF HalvesInv
<1> QED
  BY <1>5, <1>6, <1>7, <1>8, <1>9, <1>10, <1>11, <1>12, <1>13, <1>14, <1>16
     DEF AllocStep

LEMMA CallerHalves ==
  ASSUME Basic, Basic', HalvesInv,
         \/ KernelAsks \/ StartProcess
         \/ \E p \in Procs : CreateDir(p) \/ GrowHeap(p) \/ FreePage(p) \/ ClearBit(p)
         \/ \E t \in Threads : Spin(t)
         \/ UNCHANGED vars
  PROVE  HalvesInv'
<1> USE Sizes DEF InCall, InKernelDir
<1>1. /\ tables \in [Threads -> SUBSET {TableOf(v) : v \in Pages}]
      /\ map \in [Threads -> [Pages -> Frames \cup {None, Garbage}]]
      /\ next \in [Threads -> 0 .. KERNEL_PAGES + 2 + HeapPages]
      /\ pc \in [Threads -> Places]
      /\ phys \in [Threads -> Frames] /\ word \in [Threads -> SUBSET Frames]
      /\ target \in Threads
  BY DEF Basic, TypeOK
\* Whoever only goes somewhere from outside of alloc_page
<1>2. ASSUME NEW t \in Threads, NEW place \in {"find", "idle", "free"},
             pc' = [pc EXCEPT ![t] = place], pc[t] \in {"idle", "unborn", "free"},
             UNCHANGED <<tables, map, next, phys, target>>,
             target = Kernel => UNCHANGED frames /\ t = Kernel /\ place # "free",
             pc[t] = "unborn" => t = target
      PROVE  HalvesInv'
  <2>1. Untouched'
    BY <1>1, <1>2 DEF HalvesInv, Untouched, Threads
  <2>2. InOrder'
    BY <1>1, <1>2 DEF HalvesInv, InOrder
  <2>3. \A u \in Threads : Page(u)' = Page(u) /\ DirOf(u)' = DirOf(u)
    BY <1>2 DEF Page, DirOf
  <2>7. HungIn' = HungIn
    BY <1>2, HungSame DEF Basic
  <2>4. HasTables'
    BY <1>1, <1>2, <2>3, <2>7 DEF HalvesInv, HasTables, Stored
  <2>5. KernelHalf'
    BY <1>1, <1>2 DEF HalvesInv, KernelHalf, Threads
  <2>6. KernelIdentity'
    BY <1>2 DEF HalvesInv, KernelIdentity
  <2> QED
    BY <2>1, <2>2, <2>4, <2>5, <2>6 DEF HalvesInv
<1>3. CASE KernelAsks
  BY <1>1, <1>2, <1>3 DEF KernelAsks, At, Goto
<1>4. CASE StartProcess
  <2>1. target # Kernel
    BY <1>4 DEF StartProcess, At
  <2> QED
    BY <1>1, <1>2, <1>4, <2>1 DEF StartProcess, At, Goto
<1>5. ASSUME NEW p \in Procs, CreateDir(p) PROVE HalvesInv'
  <2> DEFINE present == {TableOf(v) : v \in NewDirPages}
             rest == {v \in Pages \ NewDirPages : TableOf(v) \in present}
  <2>1. /\ KernelDone /\ pc[Kernel] = "idle" /\ target' = p /\ pc[p] = "unborn"
        /\ pc[target] # "unborn" /\ tables' = [tables EXCEPT ![p] = present]
        /\ UNCHANGED <<frames, next, pc, phys, word>>
    BY <1>5 DEF CreateDir, At
  <2>2. PICK junk \in Uncleared(rest) :
          map' = [map EXCEPT ![p] = [v \in Pages |->
                    IF v \in NewDirPages THEN v
                    ELSE IF v \in DOMAIN junk THEN junk[v] ELSE None]]
    BY <1>5 DEF CreateDir
  <2>3. DOMAIN junk = rest
    BY <2>2 DEF Uncleared
  <2>4. /\ p \in Threads /\ p # Kernel
        /\ \A d \in Threads : d # p => tables'[d] = tables[d] /\ map'[d] = map[d]
    BY <1>1, <2>1, <2>2
  <2>5. Untouched'
    BY <2>1, <2>4 DEF HalvesInv, Untouched
  <2>6. InOrder'
    BY <2>1, <2>4 DEF InOrder
  <2>7. next[Kernel] = KERNEL_PAGES
    BY <2>1, <2>4 DEF Basic, KernelPhase
  <2>8. \A v \in KernelPages : map'[p][v] = v /\ TableOf(v) \in tables'[p]
    BY <1>1, <2>1, <2>2, <2>4 DEF NewDirPages
  <2>9. \A v \in Pages : TableOf(v) \notin tables'[p] => map'[p][v] = None
    <3>1. \A v \in Pages : TableOf(v) \notin present => v \notin NewDirPages /\ v \notin rest
      OBVIOUS
    <3> HIDE DEF present, rest
    <3> QED
      BY <1>1, <2>1, <2>2, <2>3, <2>4, <3>1
  <2>10. HasTables'
    <3>1. \A u \in Threads : pc[u] \in {"refind", "enter", "read", "write"} =>
            /\ Page(u)' = Page(u) /\ DirOf(u)' = DirOf(u)
            /\ DirOf(u) # p /\ DirOf(u) \in Threads
      BY <1>1, <2>1, <2>4 DEF Page, DirOf
    <3>2. \A u \in Threads : pc'[u] \in {"refind", "enter", "read", "write"} =>
            TableOf(Page(u)') \in tables'[DirOf(u)']
      BY <2>1, <2>4, <3>1 DEF HalvesInv, HasTables
    <3>4. HungIn' = HungIn
      BY <2>1 DEF HungIn
    <3>5. \A d \in Threads : d # p => Stored(d)' = Stored(d)
      BY <2>4, <3>4 DEF Stored
    <3>6. Stored(p)' = tables'[p]
      BY <2>4 DEF Stored
    <3>3. \A d \in Threads : \A v \in Pages : TableOf(v) \notin Stored(d)' => map'[d][v] = None
      BY <2>4, <2>9, <3>5, <3>6 DEF HalvesInv, HasTables
    <3> QED
      BY <2>1, <2>4, <3>2, <3>3, <3>5 DEF HalvesInv, HasTables
  <2>11. KernelHalf'
    <3>1. \A q \in Procs : pc'[q] # "unborn" \/ q = target' => q = p \/ pc[q] # "unborn"
      BY <2>1
    <3>2. \A q \in Procs : pc'[q] # "unborn" \/ q = target' =>
            \A v \in KernelPages : map'[q][v] = v /\ TableOf(v) \in tables'[q]
      BY <2>4, <2>8, <3>1 DEF HalvesInv, KernelHalf, Threads
    <3> QED
      BY <2>1, <2>4, <3>2 DEF HalvesInv, KernelHalf
  <2>12. KernelIdentity'
    BY <2>4 DEF HalvesInv, KernelIdentity
  <2> QED
    BY <2>5, <2>6, <2>10, <2>11, <2>12 DEF HalvesInv
<1>6. ASSUME NEW p \in Procs, GrowHeap(p) \/ FreePage(p) \/ ClearBit(p) PROVE HalvesInv'
  <2>1. pc[p] # "unborn"
    BY <1>6 DEF GrowHeap, FreePage, ClearBit, At
  <2>2. target # Kernel
    BY <2>1 DEF Basic, KernelPhase
  <2> QED
    BY <1>1, <1>2, <1>6, <2>1, <2>2 DEF GrowHeap, FreePage, ClearBit, At, Goto
<1>7. CASE UNCHANGED vars
  <2>1. Untouched' /\ InOrder' /\ KernelHalf' /\ KernelIdentity'
    BY <1>7 DEF vars, HalvesInv, Untouched, InOrder, KernelHalf, KernelIdentity
  <2>2. HasTables'
    <3>1. UNCHANGED <<tables, map, next, pc, phys, target>>
      BY <1>7 DEF vars
    <3> QED
      BY <3>1 DEF HalvesInv, HasTables, Stored, HungIn, Page, DirOf
  <2> QED
    BY <2>1, <2>2 DEF HalvesInv
<1> QED
  BY <1>3, <1>4, <1>5, <1>6, <1>7 DEF Spin

-----------------------------------------------------------------------------
(* Theorems: whoever is interrupted                                        *)

LEMMA HalvesInvariant == Spec => [](Basic /\ HalvesInv)
<1>1. Init => Basic /\ HalvesInv
  <2> USE Sizes
  <2>1. Init => TypeOK
    BY DEF Init, TypeOK, Places, Frames
  <2>2. Init => KernelPhase /\ ProcPhase
    BY DEF Init, KernelPhase, ProcPhase, InCall, InKernelDir, Threads
  <2>3. Init => Untouched
    BY DEF Init, Untouched, Threads
  <2>4. Init => InOrder
    BY DEF Init, InOrder, Threads
  <2>5. Init => KernelIdentity
    <3>1. Init => \A v \in Pages : map[Kernel][v] = None
      BY DEF Init
    <3> QED
      BY <3>1 DEF KernelIdentity
  <2>6. Init => HasTables /\ KernelHalf
    BY DEF Init, HasTables, KernelHalf, KernelPages, Threads
  <2> QED
    BY <2>1, <2>2, <2>3, <2>4, <2>5, <2>6 DEF Basic, HalvesInv
<1>2. Basic /\ HalvesInv /\ [Next]_vars => (Basic /\ HalvesInv)'
  <2> SUFFICES ASSUME Basic, HalvesInv, [Next]_vars PROVE Basic' /\ HalvesInv'
    OBVIOUS
  <2>1. ASSUME NEW t \in Threads, AllocStep(t) PROVE Basic' /\ HalvesInv'
    BY <2>1, AllocTyped, AllocHalves
  <2>2. ASSUME \/ KernelAsks \/ StartProcess
               \/ \E p \in Procs : CreateDir(p) \/ GrowHeap(p) \/ FreePage(p) \/ ClearBit(p)
               \/ \E t \in Threads : Spin(t)
               \/ UNCHANGED vars
        PROVE  Basic' /\ HalvesInv'
    BY <2>2, CallerTyped, CallerHalves
  <2> QED
    BY <2>1, <2>2 DEF Next
<1> QED
  BY <1>1, <1>2, PTL DEF Spec

\* Frames, tables, entries and pages stay within the machine, also when the
\* timer interrupts alloc_page: no process asks for a page beyond those that
\* the directory has room for. (alloc_page, lol)
THEOREM PagingTypeCorrect == Spec => []TypeOK
BY HalvesInvariant, PTL DEF Basic

\* What the kernel's directory maps it maps to itself, whoever is interrupted:
\* init_paging runs alone and takes the frames in order, and what is entered
\* later is entered under its own number.  Present entries that nobody wrote
\* remain in tables that add_frame_to_kernel_dir does not clear, and never
\* among the kernel's own pages. (init_paging, add_frame_to_kernel_dir)
THEOREM KernelMapsItself == Spec => []KernelIdentity
BY HalvesInvariant, PTL DEF HalvesInv

\* Every directory of a process maps the kernel's pages as the kernel does,
\* whoever is interrupted: no table that covers them is allocated a second
\* time, and no page below KERNEL_MEM_END is asked for. (alloc_page_pr,
\* get_new_kernel_mapped_dir)
THEOREM KernelHalfShared == Spec => []SharedKernelHalf
<1>1. Basic /\ HalvesInv => SharedKernelHalf
  <2> SUFFICES ASSUME Basic, HalvesInv, NEW p \in Procs, pc[p] # "unborn",
                      NEW v \in KernelPages
               PROVE  map[p][v] = map[Kernel][v] /\ v \in Mapped(Kernel)
    BY DEF SharedKernelHalf
  <2>1. target # Kernel /\ next[Kernel] = KERNEL_PAGES
    BY DEF Basic, KernelPhase
  <2>2. v \in Pages /\ v \in Frames /\ v < KERNEL_PAGES
    BY Sizes DEF KernelPages
  <2>3. map[Kernel][v] = v /\ map[p][v] = v
    BY <2>1, <2>2 DEF HalvesInv, KernelHalf
  <2> QED
    BY <2>2, <2>3 DEF Mapped
<1> QED
  BY <1>1, HalvesInvariant, PTL

-----------------------------------------------------------------------------
(* As long as nobody was interrupted                                       *)

\* If nobody has been interrupted after a step, the others rest.
LEMMA CalmStep ==
  ASSUME NEW t \in Threads, NEW place, At(t, place), Calm'
  PROVE  Calm /\ \A u \in Threads : u # t => pc[u] \in Resting
BY DEF At, Calm

\* ... so that only the one who took the step matters.
LEMMA CalmGoes ==
  ASSUME Basic, NEW t \in Threads, NEW place \in Places, pc' = [pc EXCEPT ![t] = place],
         \A u \in Threads : u # t => pc[u] \in Resting,
         Undisputed(t)', HeapEntered'
  PROVE  CalmInv'
<1>1. pc \in [Threads -> Places]
  BY DEF Basic, TypeOK
<1>2. \A u \in Threads : u # t => pc'[u] \in Resting
  BY <1>1
<1>3. Alone'
  BY <1>2 DEF Alone
<1>4. \A u \in Threads : Undisputed(u)'
  <2> SUFFICES ASSUME NEW u \in Threads, u # t PROVE Undisputed(u)'
    OBVIOUS
  <2>1. pc'[u] \in Resting
    BY <1>2
  <2> QED
    BY <2>1 DEF Undisputed, Resting, InKernelDir
<1> QED
  BY <1>3, <1>4 DEF CalmInv

\* Entries that a process relies on are kept.
LEMMA HeapKept ==
  ASSUME Basic, HeapEntered,
         \A p \in Procs : next'[p] = next[p],
         \A p \in Procs : \A v \in Pages :
           v < next[p] /\ map[p][v] \in Frames => map'[p][v] = map[p][v],
         \A f \in Frames : map[Kernel][f] # None => map'[Kernel][f] # None
  PROVE  HeapEntered'
BY DEF HeapEntered

\* Without another call under way, and outside add_frame_to_kernel_dir, what is
\* in a directory is in a table that is present.
LEMMA NothingHung ==
  ASSUME HalvesInv, NEW t \in Threads, pc[t] # "kernel_present",
         \A u \in Threads : u # t => pc[u] \in Resting,
         NEW d \in Threads, NEW v \in Pages, TableOf(v) \notin tables[d]
  PROVE  map[d][v] = None
<1>1. \A u \in Threads : pc[u] # "kernel_present"
  BY DEF Resting
<1>2. Stored(d) = tables[d]
  BY <1>1 DEF Stored, HungIn
<1> QED
  BY <1>2 DEF HalvesInv, HasTables

LEMMA AllocCalm ==
  ASSUME Basic, Basic', HalvesInv, CalmInv, NEW t \in Threads, AllocStep(t)
  PROVE  CalmInv'
<1> USE Sizes DEF InCall, InKernelDir
<1> SUFFICES ASSUME Calm' PROVE CalmInv'
  BY DEF CalmInv
<1>1. /\ frames \subseteq Frames
      /\ tables \in [Threads -> SUBSET {TableOf(v) : v \in Pages}]
      /\ map \in [Threads -> [Pages -> Frames \cup {None, Garbage}]]
      /\ next \in [Threads -> 0 .. KERNEL_PAGES + 2 + HeapPages]
      /\ pc \in [Threads -> Places]
      /\ phys \in [Threads -> Frames] /\ word \in [Threads -> SUBSET Frames]
      /\ target \in Threads
  BY DEF Basic, TypeOK
<1>2. pc[t] \in InCall /\ target' = target
  BY InAlloc
<1>3. /\ DirOf(t) \in Threads /\ Page(t) \in Pages /\ Page(t) \in Nat
      /\ DirOf(t) # Kernel => DirOf(t) \in Procs
      /\ DirOf(t) = Kernel => t = Kernel
      /\ DirOf(t)' = DirOf(t) /\ Page(t) = next[DirOf(t)] /\ phys[t] \in Frames
  BY <1>1, <1>2, CallFacts DEF Basic, DirOf, Page
<1>4. Calm /\ \A u \in Threads : u # t => pc[u] \in Resting
  <2>1. \E place : At(t, place)
    BY DEF AllocStep, Find, FindNone, CheckTaken, CheckFree, EnterPage, ReadWord,
           WriteWord, KernelCheck, KernelTable, KernelPresent, KernelEntry
  <2> QED
    BY <2>1, CalmStep
<1>5. Undisputed(t) /\ HeapEntered
  BY <1>4 DEF CalmInv
<1>6. None \notin Frames
  BY DEF Frames, None
<1>7. UNCHANGED next => Page(t)' = Page(t)
  BY <1>2, <1>3 DEF Page, DirOf
<1>8. SUFFICES /\ Undisputed(t)' /\ HeapEntered'
               /\ \E place \in Places : pc' = [pc EXCEPT ![t] = place]
  BY <1>4, <1>8, CalmGoes
<1>9. ASSUME NEW place \in Places, Goto(t, place)
      PROVE  pc'[t] = place /\ \E q \in Places : pc' = [pc EXCEPT ![t] = q]
  BY <1>1, <1>9 DEF Goto
<1>10. UNCHANGED <<next, map>> => HeapEntered'
  BY <1>5 DEF HeapEntered
<1>11. CASE Find(t)
  <2>1. PICK f \in FirstFree : phys' = [phys EXCEPT ![t] = f]
    BY <1>11 DEF Find
  <2>2. phys'[t] \notin frames
    BY <1>1, <2>1 DEF FirstFree, FreeFrames
  <2>3. PICK place \in {"check", "enter"} : Goto(t, place)
    BY <1>11 DEF Find
  <2>4. pc'[t] = place /\ \E q \in Places : pc' = [pc EXCEPT ![t] = q]
    BY <1>9, <2>3 DEF Places
  <2> QED
    BY <1>10, <1>11, <2>2, <2>4 DEF Find, Undisputed
<1>12. CASE FindNone(t)
  BY <1>9, <1>10, <1>12 DEF FindNone, Undisputed, Places
<1>13. CASE CheckTaken(t)
  BY <1>5, <1>13 DEF CheckTaken, At, Undisputed
<1>14. CASE CheckFree(t)
  <2>1. UNCHANGED <<frames, next, phys>> /\ pc[t] = "check" /\ phys[t] \notin frames
    BY <1>14 DEF CheckFree, At
  <2>2. PICK place \in {"enter", "refind"} : Goto(t, place)
    BY <1>14 DEF CheckFree
  <2>3. pc'[t] = place /\ \E q \in Places : pc' = [pc EXCEPT ![t] = q]
    BY <1>9, <2>2 DEF Places
  <2>4. \A d \in Threads : \A v \in Pages :
          TableOf(v) \in tables[d] => map'[d][v] = map[d][v]
    BY <1>1, <1>3, <1>14 DEF CheckFree
  <2>5. \A d \in Threads : \A v \in Pages : map[d][v] # None => map'[d][v] = map[d][v]
    BY <1>4, <2>1, <2>4, NothingHung
  <2>6. HeapEntered'
    BY <1>5, <1>6, <2>1, <2>5, HeapKept
  <2> QED
    BY <2>1, <2>3, <2>6 DEF Undisputed
<1>15. CASE EnterPage(t)
  <2>1. /\ UNCHANGED <<frames, tables, next, phys, word>> /\ pc[t] = "enter"
        /\ map' = [map EXCEPT ![DirOf(t)][Page(t)] = phys[t]] /\ Goto(t, "read")
    BY <1>15 DEF EnterPage, At
  <2>2. map'[DirOf(t)][Page(t)] = phys[t]
    BY <1>1, <1>3, <2>1
  <2>3. pc'[t] = "read" /\ \E q \in Places : pc' = [pc EXCEPT ![t] = q]
    BY <1>9, <2>1 DEF Places
  <2>4. \A d \in Threads : \A v \in Pages :
          map'[d][v] = IF d = DirOf(t) /\ v = Page(t) THEN phys[t] ELSE map[d][v]
    BY <1>1, <1>3, <2>1
  <2>5. \A p \in Procs : \A v \in Pages : v < next[p] => map'[p][v] = map[p][v]
    BY <1>1, <1>3, <2>4
  <2>6. \A f \in Frames : map[Kernel][f] # None => map'[Kernel][f] # None
    BY <1>3, <1>6, <2>4
  <2>7. HeapEntered'
    BY <1>5, <2>1, <2>5, <2>6, HeapKept
  <2> QED
    BY <1>3, <1>5, <1>7, <2>1, <2>2, <2>3, <2>7 DEF Undisputed
<1>16. CASE ReadWord(t)
  <2>1. /\ UNCHANGED <<frames, tables, map, next, phys>> /\ pc[t] = "read"
        /\ word' = [word EXCEPT ![t] = frames \cap WordOf(phys[t])] /\ Goto(t, "write")
    BY <1>16 DEF ReadWord, At
  <2>2. pc'[t] = "write" /\ \E q \in Places : pc' = [pc EXCEPT ![t] = q]
    BY <1>9, <2>1 DEF Places
  <2>3. word'[t] = frames \cap WordOf(phys[t]) /\ WordOf(phys[t])' = WordOf(phys[t])
    BY <1>1, <2>1 DEF WordOf
  <2> QED
    BY <1>3, <1>5, <1>7, <1>10, <2>1, <2>2, <2>3 DEF Undisputed
<1>17. CASE WriteWord(t)
  <2>1. UNCHANGED <<tables, map, phys, word>> /\ pc[t] = "write"
    BY <1>17 DEF WriteWord, At
  <2>2. CASE DirOf(t) = Kernel
    <3>1. Goto(t, "idle") /\ next' = [next EXCEPT ![Kernel] = @ + 1]
      BY <1>17, <2>2 DEF WriteWord, Done
    <3>2. \A p \in Procs : next'[p] = next[p]
      BY <1>1, <3>1
    <3>3. HeapEntered'
      BY <1>5, <2>1, <3>2, HeapKept
    <3>4. pc'[t] = "idle" /\ \E q \in Places : pc' = [pc EXCEPT ![t] = q]
      BY <1>9, <3>1 DEF Places
    <3> QED
      BY <3>3, <3>4 DEF Undisputed
  <2>3. CASE DirOf(t) # Kernel
    <3>1. Goto(t, "kernel_check") /\ UNCHANGED next
      BY <1>17, <2>3 DEF WriteWord
    <3>2. pc'[t] = "kernel_check" /\ \E q \in Places : pc' = [pc EXCEPT ![t] = q]
      BY <1>9, <3>1 DEF Places
    <3> QED
      BY <1>3, <1>5, <1>7, <1>10, <2>1, <3>1, <3>2 DEF Undisputed
  <2> QED
    BY <2>2, <2>3
<1>18. CASE KernelCheck(t)
  <2>1. UNCHANGED <<frames, tables, map, next, phys>> /\ pc[t] = "kernel_check"
    BY <1>18 DEF KernelCheck, At
  <2>2. \/ Goto(t, "kernel_entry")
        \/ Goto(t, "kernel_table") /\ TableOf(phys[t]) \notin tables[Kernel]
    BY <1>18 DEF KernelCheck
  <2>3. /\ \/ pc'[t] = "kernel_entry"
           \/ pc'[t] = "kernel_table" /\ TableOf(phys[t]) \notin tables[Kernel]
        /\ \E q \in Places : pc' = [pc EXCEPT ![t] = q]
    BY <1>9, <2>2 DEF Places
  <2> QED
    BY <1>3, <1>5, <1>7, <1>10, <2>1, <2>3 DEF Undisputed
<1>19. CASE KernelTable(t)
  <2>1. UNCHANGED <<frames, next, phys>> /\ pc[t] = "kernel_table" /\ Goto(t, "kernel_present")
    BY <1>19 DEF KernelTable, At
  <2>2. pc'[t] = "kernel_present" /\ \E q \in Places : pc' = [pc EXCEPT ![t] = q]
    BY <1>9, <2>1 DEF Places
  <2>3. DirOf(t) # Kernel
    BY <1>2, <2>1, CallFacts DEF Basic, KernelPhase
  <2>4. \A p \in Procs : map'[p] = map[p]
    BY <1>1, <1>19 DEF KernelTable
  <2>5. \A f \in Frames : map[Kernel][f] # None => map'[Kernel][f] = map[Kernel][f]
    <3>1. TableOf(phys[t]) \notin tables[Kernel]
      BY <1>5, <2>1 DEF Undisputed
    <3>2. \A f \in Pages : TableOf(f) # TableOf(phys[t]) => map'[Kernel][f] = map[Kernel][f]
      BY <1>1, <1>19 DEF KernelTable, Uncleared
    <3> QED
      BY <1>4, <2>1, <3>1, <3>2, NothingHung
  <2>6. HeapEntered'
    BY <1>5, <2>1, <2>4, <2>5, HeapKept
  <2> QED
    BY <1>3, <1>5, <1>7, <2>1, <2>2, <2>3, <2>4, <2>6 DEF Undisputed
<1>21. CASE KernelPresent(t)
  <2>1. /\ UNCHANGED <<frames, map, next, phys>> /\ pc[t] = "kernel_present"
        /\ Goto(t, "kernel_entry")
    BY <1>21 DEF KernelPresent, At
  <2>2. pc'[t] = "kernel_entry" /\ \E q \in Places : pc' = [pc EXCEPT ![t] = q]
    BY <1>9, <2>1 DEF Places
  <2> QED
    BY <1>3, <1>5, <1>7, <1>10, <2>1, <2>2 DEF Undisputed
<1>20. CASE KernelEntry(t)
  <2>1. /\ UNCHANGED <<frames, tables, phys>> /\ pc[t] = "kernel_entry"
        /\ Goto(t, "idle") /\ next' = [next EXCEPT ![DirOf(t)] = @ + 1]
        /\ map' = [map EXCEPT ![Kernel][phys[t]] = EntryAdded(@, phys[t])]
    BY <1>20 DEF KernelEntry, At, Done
  <2>2. pc'[t] = "idle" /\ \E q \in Places : pc' = [pc EXCEPT ![t] = q]
    BY <1>9, <2>1 DEF Places
  <2>3. DirOf(t) # Kernel /\ map[DirOf(t)][Page(t)] = phys[t]
    BY <1>2, <1>5, <2>1, CallFacts DEF Basic, KernelPhase, Undisputed
  <2>4. \A p \in Procs : map'[p] = map[p]
    BY <1>1, <2>1
  <2>5. /\ \A f \in Frames : map[Kernel][f] # None => map'[Kernel][f] # None
        /\ map'[Kernel][phys[t]] # None
    BY <1>1, <1>3, <1>6, <2>1 DEF EntryAdded
  <2>6. \A p \in Procs : \A v \in Pages : v < next'[p] =>
          v < next[p] \/ (p = DirOf(t) /\ v = Page(t))
    <3> SUFFICES ASSUME NEW p \in Procs, NEW v \in Pages, v < next'[p], ~(v < next[p])
                 PROVE  p = DirOf(t) /\ v = Page(t)
      OBVIOUS
    <3>1. next[p] \in Nat /\ v \in Nat
      BY <1>1
    <3>2. p = DirOf(t) /\ next'[p] = next[p] + 1
      BY <1>1, <1>3, <2>1
    <3> QED
      BY <1>3, <3>1, <3>2
  <2>7. HeapEntered'
    <3> SUFFICES ASSUME NEW p \in Procs, NEW v \in Pages, KERNEL_PAGES <= v, v < next'[p]
                 PROVE  map'[p][v] \in Frames /\ map'[Kernel][map'[p][v]] # None
      BY DEF HeapEntered
    <3>1. CASE v < next[p]
      <4>1. map[p][v] \in Frames /\ map[Kernel][map[p][v]] # None
        BY <1>5, <3>1 DEF HeapEntered
      <4> QED
        BY <2>4, <2>5, <4>1
    <3>2. CASE p = DirOf(t) /\ v = Page(t)
      BY <1>3, <2>3, <2>4, <2>5, <3>2
    <3> QED
      BY <2>6, <3>1, <3>2
  <2> QED
    BY <2>2, <2>7 DEF Undisputed
<1> QED
  BY <1>11, <1>12, <1>13, <1>14, <1>15, <1>16, <1>17, <1>18, <1>19, <1>20, <1>21
     DEF AllocStep

LEMMA CallerCalm ==
  ASSUME Basic, Basic', HalvesInv, CalmInv,
         \/ KernelAsks \/ StartProcess
         \/ \E p \in Procs : CreateDir(p) \/ GrowHeap(p) \/ FreePage(p) \/ ClearBit(p)
         \/ \E t \in Threads : Spin(t)
         \/ UNCHANGED vars
  PROVE  CalmInv'
<1> USE Sizes
<1> SUFFICES ASSUME Calm' PROVE CalmInv'
  BY DEF CalmInv
<1>1. /\ map \in [Threads -> [Pages -> Frames \cup {None, Garbage}]]
      /\ next \in [Threads -> 0 .. KERNEL_PAGES + 2 + HeapPages]
      /\ pc \in [Threads -> Places] /\ target \in Threads
      /\ word \in [Threads -> SUBSET Frames]
  BY DEF Basic, TypeOK
\* A thread outside of alloc_page goes somewhere
<1>2. ASSUME NEW t \in Threads, NEW place \in Places, pc' = [pc EXCEPT ![t] = place],
             \A u \in Threads : u # t => pc[u] \in Resting,
             Calm, UNCHANGED <<map, next>>,
             place \in {"find", "idle"} \/ (place = "free" /\ word'[t] = (frames \cap WordOf(0))')
      PROVE  CalmInv'
  <2>1. pc'[t] = place
    BY <1>1, <1>2
  <2>2. Undisputed(t)'
    BY <1>2, <2>1 DEF Undisputed, InKernelDir
  <2>3. HeapEntered'
    BY <1>2 DEF CalmInv, HeapEntered
  <2> QED
    BY <1>2, <2>2, <2>3, CalmGoes
<1>3. CASE KernelAsks
  BY <1>2, <1>3, CalmStep DEF KernelAsks, Goto, Places
<1>4. CASE StartProcess
  <2>1. At(Kernel, "idle") /\ pc[target] = "unborn" /\ Goto(target, "idle")
        /\ UNCHANGED <<map, next>>
    BY <1>4 DEF StartProcess
  <2>2. Calm /\ \A u \in Threads : pc[u] \in Resting
    BY <2>1, CalmStep DEF At, Resting
  <2> QED
    BY <1>1, <1>2, <2>1, <2>2 DEF Goto, Places
<1>5. ASSUME NEW p \in Procs, CreateDir(p) PROVE CalmInv'
  <2>1. At(Kernel, "idle") /\ pc[p] = "unborn" /\ pc[target] # "unborn" /\ UNCHANGED <<next, pc>>
    BY <1>5 DEF CreateDir
  <2>2. Calm /\ \A u \in Threads : pc[u] \in Resting
    BY <2>1, CalmStep DEF At, Resting
  <2>3. Alone' /\ \A u \in Threads : Undisputed(u)'
    BY <2>1, <2>2 DEF Alone, Undisputed, Resting, InKernelDir
  <2>4. next[p] = KERNEL_PAGES
    BY <2>1 DEF HalvesInv, Untouched
  <2>5. p # Kernel /\ \A d \in Threads : d # p => map'[d] = map[d]
    BY <1>1, <1>5 DEF CreateDir
  <2>6. HeapEntered'
    <3> SUFFICES ASSUME NEW q \in Procs, NEW v \in Pages, KERNEL_PAGES <= v, v < next[q]
                 PROVE  map'[q][v] \in Frames /\ map'[Kernel][map'[q][v]] # None
      BY <2>1 DEF HeapEntered
    <3>1. q # p
      BY <2>4
    <3> QED
      BY <2>2, <2>5, <3>1 DEF CalmInv, HeapEntered
  <2> QED
    BY <2>3, <2>6 DEF CalmInv
<1>6. ASSUME NEW p \in Procs, GrowHeap(p) PROVE CalmInv'
  BY <1>2, <1>6, CalmStep DEF GrowHeap, Goto, Places
<1>7. ASSUME NEW p \in Procs, FreePage(p) PROVE CalmInv'
  <2>1. /\ At(p, "idle") /\ pc' = [pc EXCEPT ![p] = "free"] /\ UNCHANGED <<frames, map, next>>
        /\ word' = [word EXCEPT ![p] = frames \cap WordOf(0)]
    BY <1>7 DEF FreePage, Goto
  <2>2. word'[p] = (frames \cap WordOf(0))'
    BY <1>1, <2>1 DEF WordOf
  <2> QED
    BY <1>2, <2>1, <2>2, CalmStep DEF Places
<1>8. ASSUME NEW p \in Procs, ClearBit(p) PROVE CalmInv'
  BY <1>2, <1>8, CalmStep DEF ClearBit, Goto, Places
<1>9. CASE UNCHANGED vars
  <2>1. UNCHANGED <<frames, tables, map, next, pc, phys, word, target, mishaps>>
    BY <1>9 DEF vars
  <2>2. Calm /\ Alone' /\ HeapEntered'
    BY <2>1 DEF CalmInv, Calm, Alone, HeapEntered
  <2>3. \A t \in Threads : Undisputed(t)'
    BY <2>1, <2>2 DEF CalmInv, Undisputed, DirOf, Page, WordOf
  <2> QED
    BY <2>2, <2>3 DEF CalmInv
<1> QED
  BY <1>3, <1>4, <1>5, <1>6, <1>7, <1>8, <1>9 DEF Spin

LEMMA CalmInvariant == Spec => []CalmInv
<1>1. Init => CalmInv
  <2> SUFFICES ASSUME Init PROVE CalmInv
    OBVIOUS
  <2>1. \A t \in Threads : pc[t] \in Resting
    BY DEF Init, Resting
  <2>2. Alone /\ \A t \in Threads : Undisputed(t)
    BY <2>1 DEF Alone, Undisputed, Resting, InKernelDir
  <2>3. HeapEntered
    BY Sizes DEF Init, HeapEntered
  <2> QED
    BY <2>2, <2>3 DEF CalmInv
<1>2. Basic /\ HalvesInv /\ Basic' /\ CalmInv /\ [Next]_vars => CalmInv'
  <2> SUFFICES ASSUME Basic, Basic', HalvesInv, CalmInv, [Next]_vars PROVE CalmInv'
    OBVIOUS
  <2>1. ASSUME NEW t \in Threads, AllocStep(t) PROVE CalmInv'
    BY <2>1, AllocCalm
  <2>2. ASSUME \/ KernelAsks \/ StartProcess
               \/ \E p \in Procs : CreateDir(p) \/ GrowHeap(p) \/ FreePage(p) \/ ClearBit(p)
               \/ \E t \in Threads : Spin(t)
               \/ UNCHANGED vars
        PROVE  CalmInv'
    BY <2>2, CallerCalm
  <2> QED
    BY <2>1, <2>2 DEF Next
<1> QED
  BY <1>1, <1>2, HalvesInvariant, PTL DEF Spec

\* Unless somebody was interrupted inside alloc_page, every page up to the end
\* of a heap is mapped between calls, and so is its frame in the kernel's
\* directory: "is not free" is never answered, and neither a table that is
\* allocated nor one that is hung into the kernel's directory covers an entry
\* that somebody relies on. (alloc_page_pr, add_frame_to_kernel_dir)
THEOREM HeapPagesMapped == Spec => []HeapMapped
<1>1. Basic /\ CalmInv => HeapMapped
  <2> SUFFICES ASSUME Basic, CalmInv, Calm, NEW p \in Procs,
                      NEW v \in KERNEL_PAGES .. next[p] - 1
               PROVE  v \in Mapped(p) /\ map[Kernel][map[p][v]] # None
    BY DEF HeapMapped, Calm
  <2>1. next[p] \in Nat /\ next[p] <= KERNEL_PAGES + 2 + HeapPages
    BY Sizes DEF Basic, TypeOK
  <2>2. v \in Pages /\ KERNEL_PAGES <= v /\ v < next[p]
    BY <2>1, Sizes
  <2> QED
    BY <2>2 DEF CalmInv, HeapEntered, Mapped
<1> QED
  BY <1>1, HalvesInvariant, CalmInvariant, PTL

-----------------------------------------------------------------------------
(* ... and free_page was not called                                        *)

\* If nothing has happened after a step, the others rest, and it was not the
\* clearing of a bit.
LEMMA UndisturbedStep ==
  ASSUME NEW t \in Threads, NEW place, At(t, place), Undisturbed'
  PROVE  /\ Undisturbed /\ Calm /\ Calm' /\ place # "free"
         /\ \A u \in Threads : u # t => pc[u] \in Resting
BY DEF At, Undisturbed, Calm

\* The bits stay true if the bitset, the counters and all entries with a frame
\* are left alone and everybody stays on the same side of the marking.
LEMMA BitsKept ==
  ASSUME Basic, Bits, UNCHANGED <<frames, next, target>>,
         \A d \in Threads : \A v \in Pages :
           map'[d][v] = map[d][v] \/ (map[d][v] \notin Frames /\ map'[d][v] \notin Frames),
         \A u \in Threads :
           /\ pc'[u] \in {"read", "write"} <=> pc[u] \in {"read", "write"}
           /\ pc'[u] \in InKernelDir <=> pc[u] \in InKernelDir
           /\ pc'[u] \in InKernelDir => phys'[u] = phys[u]
  PROVE  Bits'
<1> USE Sizes
<1>1. \A u \in Threads : DirOf(u)' = DirOf(u) /\ Page(u)' = Page(u)
  BY DEF DirOf, Page
<1>2. frames \subseteq Frames
  BY DEF Basic, TypeOK
<1>3. MappedMarked'
  <2> SUFFICES ASSUME NEW d \in Threads, NEW v \in Pages, map'[d][v] \in Frames
               PROVE  map'[d][v] \in frames \/ \E t \in Threads : Marking(t, d, v)'
    BY DEF MappedMarked
  <2>1. map'[d][v] = map[d][v]
    OBVIOUS
  <2>2. map[d][v] \in frames \/ \E t \in Threads : Marking(t, d, v)
    BY <2>1 DEF Bits, MappedMarked
  <2> QED
    BY <1>1, <2>1, <2>2 DEF Marking
<1>4. MarkedMapped'
  BY <1>2 DEF Bits, MarkedMapped
<1>5. Ahead'
  <2> SUFFICES ASSUME NEW p \in Procs, NEW v \in Pages, v >= next[p], map'[p][v] \in Frames
               PROVE  v = next[p] /\ \E t \in Threads :
                        pc'[t] \in {"read", "write"} \cup InKernelDir /\ DirOf(t)' = p
    BY DEF Ahead
  <2>1. p \in Threads /\ map'[p][v] = map[p][v]
    OBVIOUS
  <2>2. v = next[p] /\ \E t \in Threads :
          pc[t] \in {"read", "write"} \cup InKernelDir /\ DirOf(t) = p
    BY <2>1 DEF Bits, Ahead
  <2> QED
    BY <1>1, <2>2
<1>6. KernelMarked'
  BY DEF Bits, KernelMarked
<1>7. Exclusive'
  <2> SUFFICES ASSUME NEW p \in Procs, NEW q \in Procs,
                      NEW v \in Pages \ KernelPages, NEW w \in Pages \ KernelPages,
                      map'[p][v] \in Frames
               PROVE  /\ map'[p][v] >= KERNEL_PAGES
                      /\ map'[p][v] = map'[q][w] => p = q /\ v = w
    BY DEF Exclusive
  <2>1. /\ map'[p][v] = map[p][v]
        /\ map'[p][v] = map'[q][w] => map'[q][w] = map[q][w]
    OBVIOUS
  <2> QED
    BY <2>1 DEF Bits, Exclusive
<1> QED
  BY <1>3, <1>4, <1>5, <1>6, <1>7 DEF Bits

LEMMA AllocBits ==
  ASSUME Basic, Basic', HalvesInv, CalmInv, CalmInv', BitsInv,
         NEW t \in Threads, AllocStep(t)
  PROVE  BitsInv'
<1> USE Sizes DEF InCall, InKernelDir
<1> SUFFICES ASSUME Undisturbed' PROVE Bits'
  BY DEF BitsInv
<1>1. /\ frames \subseteq Frames
      /\ tables \in [Threads -> SUBSET {TableOf(v) : v \in Pages}]
      /\ map \in [Threads -> [Pages -> Frames \cup {None, Garbage}]]
      /\ next \in [Threads -> 0 .. KERNEL_PAGES + 2 + HeapPages]
      /\ pc \in [Threads -> Places]
      /\ phys \in [Threads -> Frames] /\ word \in [Threads -> SUBSET Frames]
      /\ target \in Threads
  BY DEF Basic, TypeOK
<1>2. pc[t] \in InCall /\ target' = target
  BY InAlloc
<1>3. /\ DirOf(t) \in Threads /\ Page(t) \in Pages /\ Page(t) \in Nat
      /\ DirOf(t) # Kernel => DirOf(t) \in Procs /\ Page(t) >= KERNEL_PAGES
                              /\ next[Kernel] = KERNEL_PAGES
      /\ DirOf(t) = Kernel => t = Kernel /\ target = Kernel /\ Page(t) = next[Kernel]
      /\ DirOf(t)' = DirOf(t) /\ Page(t) = next[DirOf(t)]
      /\ phys[t] \in Frames /\ phys[t] \in Pages
  BY <1>1, <1>2, CallFacts DEF Basic, DirOf, Page
<1>4. Undisturbed /\ Calm /\ \A u \in Threads : u # t => pc[u] \in Resting
  <2>1. \E place : At(t, place)
    BY DEF AllocStep, Find, FindNone, CheckTaken, CheckFree, EnterPage, ReadWord,
           WriteWord, KernelCheck, KernelTable, KernelPresent, KernelEntry
  <2> QED
    BY <2>1, UndisturbedStep
<1>5. Undisputed(t) /\ Bits
  BY <1>4 DEF CalmInv, BitsInv
<1>6. None \notin Frames /\ Garbage \notin Frames
  BY DEF Frames, None, Garbage
<1>7. ASSUME NEW place, Goto(t, place)
      PROVE  /\ pc'[t] = place
             /\ \A u \in Threads : u # t => pc'[u] = pc[u]
             /\ \A u \in Threads : u # t => pc[u] \notin {"read", "write"} \cup InKernelDir
  BY <1>1, <1>4, <1>7 DEF Goto, Resting
<1>8. ASSUME pc[t] \notin {"read", "write"}
      PROVE  \A d \in Threads : \A v \in Pages : map[d][v] \in Frames => map[d][v] \in frames
  BY <1>4, <1>5, <1>8 DEF Bits, MappedMarked, Marking, Resting
<1>9. ASSUME NEW p \in Procs, NEW v \in Pages, v >= next[p], map[p][v] \in Frames
      PROVE  v = next[p] /\ pc[t] \in {"read", "write"} \cup InKernelDir /\ DirOf(t) = p
  BY <1>4, <1>5, <1>9 DEF Bits, Ahead, Resting
\* The steps that leave entries with a frame, and the bitset, alone
<1>10. CASE Find(t) \/ FindNone(t)
  <2>1. UNCHANGED <<frames, next, target, map>> /\ pc[t] \in {"find", "refind"}
    BY <1>10 DEF Find, FindNone, At
  <2>2. PICK place \in {"check", "enter", "halted"} : Goto(t, place)
    BY <1>10 DEF Find, FindNone
  <2>3. \A u \in Threads : pc'[u] \notin {"read", "write"} \cup InKernelDir
                           /\ pc[u] \notin {"read", "write"} \cup InKernelDir
    BY <1>7, <2>1, <2>2
  <2> QED
    BY <1>5, <2>1, <2>3, BitsKept
<1>11. CASE CheckTaken(t)
  BY <1>5, <1>11 DEF CheckTaken, At, Undisputed
<1>12. CASE CheckFree(t)
  <2>1. UNCHANGED <<frames, next, target>> /\ pc[t] = "check"
    BY <1>12 DEF CheckFree, At
  <2>2. PICK place \in {"enter", "refind"} : Goto(t, place)
    BY <1>12 DEF CheckFree
  <2>3. \A u \in Threads : pc'[u] \notin {"read", "write"} \cup InKernelDir
                           /\ pc[u] \notin {"read", "write"} \cup InKernelDir
    BY <1>7, <2>1, <2>2
  <2>4. \A d \in Threads : \A v \in Pages :
          map'[d][v] = map[d][v] \/ (map'[d][v] = None /\ TableOf(v) \notin tables[d])
    BY <1>3, <1>12, NewTableKeeps DEF Basic
  <2>5. \A d \in Threads : \A v \in Pages :
          map'[d][v] = map[d][v] \/ (map[d][v] \notin Frames /\ map'[d][v] \notin Frames)
    BY <1>4, <1>6, <2>1, <2>4, NothingHung
  <2> QED
    BY <1>5, <2>1, <2>3, <2>5, BitsKept
<1>13. CASE ReadWord(t)
  <2>1. UNCHANGED <<frames, next, target, map, phys>> /\ pc[t] = "read" /\ Goto(t, "write")
    BY <1>13 DEF ReadWord, At
  <2>2. pc'[t] = "write" /\ \A u \in Threads : u # t => pc'[u] = pc[u]
    BY <1>7, <2>1
  <2> QED
    BY <1>5, <2>1, <2>2, BitsKept
<1>14. CASE KernelCheck(t)
  <2>1. UNCHANGED <<frames, next, target, map, phys>> /\ pc[t] = "kernel_check"
    BY <1>14 DEF KernelCheck, At
  <2>2. PICK place \in {"kernel_entry", "kernel_table"} : Goto(t, place)
    BY <1>14 DEF KernelCheck
  <2>3. pc'[t] = place /\ \A u \in Threads : u # t => pc'[u] = pc[u]
    BY <1>7, <2>2
  <2> QED
    BY <1>5, <2>1, <2>3, BitsKept
<1>15. CASE KernelTable(t)
  <2>1. /\ UNCHANGED <<frames, next, target, phys>> /\ pc[t] = "kernel_table"
        /\ Goto(t, "kernel_present")
    BY <1>15 DEF KernelTable, At
  <2>2. pc'[t] = "kernel_present" /\ \A u \in Threads : u # t => pc'[u] = pc[u]
    BY <1>7, <2>1
  <2>3. TableOf(phys[t]) \notin tables[Kernel]
    BY <1>5, <2>1 DEF Undisputed
  <2>4. \A d \in Threads : \A v \in Pages : map'[d][v] = map[d][v] \/
          (d = Kernel /\ TableOf(v) = TableOf(phys[t]) /\ map'[d][v] \in {None, Garbage})
    <3>1. PICK junk \in Uncleared({v \in Pages : TableOf(v) = TableOf(phys[t])}) :
            map' = [map EXCEPT ![Kernel] = [v \in Pages |->
                      IF v \in DOMAIN junk THEN junk[v] ELSE @[v]]]
      BY <1>15 DEF KernelTable
    <3> QED
      BY <1>1, <3>1 DEF Uncleared
  <2>5. \A d \in Threads : \A v \in Pages :
          map'[d][v] = map[d][v] \/ (map[d][v] \notin Frames /\ map'[d][v] \notin Frames)
    BY <1>4, <1>6, <2>1, <2>3, <2>4, NothingHung
  <2> QED
    BY <1>5, <2>1, <2>2, <2>5, BitsKept
<1>19. CASE KernelPresent(t)
  <2>1. /\ UNCHANGED <<frames, next, target, map, phys>> /\ pc[t] = "kernel_present"
        /\ Goto(t, "kernel_entry")
    BY <1>19 DEF KernelPresent, At
  <2>2. pc'[t] = "kernel_entry" /\ \A u \in Threads : u # t => pc'[u] = pc[u]
    BY <1>7, <2>1
  <2> QED
    BY <1>5, <2>1, <2>2, BitsKept
\* The frame is entered, marked, and entered in the kernel's directory
<1>16. CASE EnterPage(t)
  <2>1. /\ UNCHANGED <<frames, next, phys>> /\ pc[t] = "enter" /\ Goto(t, "read")
        /\ map' = [map EXCEPT ![DirOf(t)][Page(t)] = phys[t]]
    BY <1>16 DEF EnterPage, At
  <2>2. /\ pc'[t] = "read"
        /\ \A u \in Threads : u # t =>
             pc'[u] = pc[u] /\ pc[u] \notin {"read", "write"} \cup InKernelDir
    BY <1>7, <2>1
  <2>3. \A d \in Threads : \A v \in Pages :
          map'[d][v] = IF d = DirOf(t) /\ v = Page(t) THEN phys[t] ELSE map[d][v]
    BY <1>1, <1>3, <2>1
  <2>4. DirOf(t)' = DirOf(t) /\ Page(t)' = Page(t)
    BY <1>2, <1>3, <2>1 DEF Page, DirOf
  <2>5. phys[t] \notin frames
    BY <1>5, <2>1 DEF Undisputed
  <2>6. map[DirOf(t)][Page(t)] \notin Frames
    <3>1. CASE DirOf(t) = Kernel
      BY <1>3, <1>6, <2>1, <3>1 DEF HalvesInv, InOrder
    <3>2. CASE DirOf(t) # Kernel
      BY <1>1, <1>3, <1>9, <2>1, <3>2
    <3> QED
      BY <3>1, <3>2
  <2>7. MappedMarked'
    <3> SUFFICES ASSUME NEW d \in Threads, NEW v \in Pages, map'[d][v] \in Frames
                 PROVE  map'[d][v] \in frames \/ \E u \in Threads : Marking(u, d, v)'
      BY <2>1 DEF MappedMarked
    <3>1. CASE d = DirOf(t) /\ v = Page(t)
      BY <2>2, <2>4, <3>1 DEF Marking
    <3>2. CASE ~(d = DirOf(t) /\ v = Page(t))
      BY <1>8, <2>1, <2>3, <3>2
    <3> QED
      BY <3>1, <3>2
  <2>8. MarkedMapped'
    BY <1>1, <1>5, <2>1, <2>3, <2>6 DEF Bits, MarkedMapped
  <2>9. Ahead'
    <3> SUFFICES ASSUME NEW p \in Procs, NEW v \in Pages, v >= next[p], map'[p][v] \in Frames
                 PROVE  v = next[p] /\ \E u \in Threads :
                          pc'[u] \in {"read", "write"} \cup InKernelDir /\ DirOf(u)' = p
      BY <2>1 DEF Ahead
    <3>1. map[p][v] \notin Frames
      BY <1>9, <2>1
    <3>2. p = DirOf(t) /\ v = Page(t)
      BY <2>3, <3>1
    <3> QED
      BY <1>3, <2>2, <2>4, <3>2
  <2>10. KernelMarked'
    BY <1>5, <2>1, <2>2 DEF Bits, KernelMarked
  <2>11. Exclusive'
    <3>1. DirOf(t) # Kernel => phys[t] >= KERNEL_PAGES
      BY <1>3, <1>5, <2>5 DEF Bits, KernelMarked, KernelPages, Frames
    <3> SUFFICES ASSUME NEW p \in Procs, NEW q \in Procs,
                        NEW v \in Pages \ KernelPages, NEW w \in Pages \ KernelPages,
                        map'[p][v] \in Frames
                 PROVE  /\ map'[p][v] >= KERNEL_PAGES
                        /\ map'[p][v] = map'[q][w] => p = q /\ v = w
      BY DEF Exclusive
    <3>2. CASE p = DirOf(t) /\ v = Page(t)
      <4>1. map'[p][v] = phys[t] /\ phys[t] >= KERNEL_PAGES
        BY <2>3, <3>1, <3>2
      <4>2. ~(q = p /\ w = v) => map'[q][w] = map[q][w]
        BY <2>3, <3>2
      <4>3. map[q][w] # phys[t]
        BY <1>3, <1>8, <2>1, <2>5
      <4> QED
        BY <4>1, <4>2, <4>3
    <3>3. CASE ~(p = DirOf(t) /\ v = Page(t))
      <4>1. map'[p][v] = map[p][v] /\ map[p][v] # phys[t]
        BY <1>3, <1>8, <2>1, <2>3, <2>5, <3>3
      <4>2. map'[q][w] \in {map[q][w], phys[t]}
        BY <2>3
      <4> QED
        BY <1>5, <4>1, <4>2 DEF Bits, Exclusive
    <3> QED
      BY <3>2, <3>3
  <2> QED
    BY <2>7, <2>8, <2>9, <2>10, <2>11 DEF Bits
<1>17. CASE WriteWord(t)
  <2>1. /\ UNCHANGED <<tables, map, phys>> /\ pc[t] = "write"
        /\ frames' = (frames \ WordOf(phys[t])) \cup WordWith(t)
    BY <1>17 DEF WriteWord, At
  <2>2. frames' = frames \cup {phys[t]}
    BY <1>5, <2>1 DEF Undisputed, WordWith
  <2>3. map[DirOf(t)][Page(t)] = phys[t]
    BY <1>5, <2>1 DEF Undisputed
  <2>4. \/ /\ DirOf(t) = Kernel /\ next' = [next EXCEPT ![Kernel] = @ + 1]
           /\ Goto(t, "idle")
        \/ DirOf(t) # Kernel /\ UNCHANGED next /\ Goto(t, "kernel_check")
    BY <1>17 DEF WriteWord, Done
  <2>5. MappedMarked'
    <3>1. \A d \in Threads : \A v \in Pages : map[d][v] \in Frames =>
            map[d][v] \in frames \/ (d = DirOf(t) /\ v = Page(t))
      BY <1>4, <1>5 DEF Bits, MappedMarked, Marking, Resting
    <3> QED
      BY <2>1, <2>2, <2>3, <3>1 DEF MappedMarked
  <2>6. MarkedMapped'
    <3> SUFFICES ASSUME NEW f \in frames'
                 PROVE  \E d \in Threads : \E v \in Pages : map[d][v] = f
      BY <2>1 DEF MarkedMapped
    <3>1. CASE f = phys[t]
      BY <1>3, <2>3, <3>1, Zenon
    <3>2. CASE f \in frames
      BY <1>5, <3>2 DEF Bits, MarkedMapped
    <3> QED
      BY <2>2, <3>1, <3>2
  <2>7. Ahead'
    <3> SUFFICES ASSUME NEW p \in Procs, NEW v \in Pages, v >= next'[p], map[p][v] \in Frames
                 PROVE  v = next'[p] /\ \E u \in Threads :
                          pc'[u] \in {"read", "write"} \cup InKernelDir /\ DirOf(u)' = p
      BY <2>1 DEF Ahead
    <3>1. next'[p] = next[p]
      BY <1>1, <2>4
    <3>2. v = next[p] /\ DirOf(t) = p
      BY <1>9, <3>1
    <3>3. pc'[t] = "kernel_check"
      BY <1>7, <2>4, <3>2
    <3> QED
      BY <1>3, <3>1, <3>2, <3>3
  <2>8. KernelMarked'
    <3>1. \A u \in Threads : pc'[u] \in InKernelDir => phys'[u] \in frames'
      BY <1>4, <1>7, <2>1, <2>2, <2>4 DEF Resting
    <3>2. CASE DirOf(t) = Kernel
      <4>1. phys[t] = next[Kernel] /\ next'[Kernel] = next[Kernel] + 1 /\ next[Kernel] \in Nat
        BY <1>1, <1>3, <2>1, <2>4, <3>2 DEF HalvesInv, InOrder
      <4>2. \A v \in KernelPages : v < next'[Kernel] => v < next[Kernel] \/ v = phys[t]
        BY <4>1 DEF KernelPages
      <4> QED
        BY <1>5, <2>2, <3>1, <4>2 DEF Bits, KernelMarked
    <3>3. CASE DirOf(t) # Kernel
      BY <1>5, <2>2, <2>4, <3>1, <3>3 DEF Bits, KernelMarked
    <3> QED
      BY <3>2, <3>3
  <2>9. Exclusive'
    BY <1>5, <2>1 DEF Bits, Exclusive
  <2> QED
    BY <2>5, <2>6, <2>7, <2>8, <2>9 DEF Bits
<1>18. CASE KernelEntry(t)
  <2>1. /\ UNCHANGED <<frames, tables, phys>> /\ pc[t] = "kernel_entry"
        /\ Goto(t, "idle") /\ next' = [next EXCEPT ![DirOf(t)] = @ + 1]
        /\ map' = [map EXCEPT ![Kernel][phys[t]] = EntryAdded(@, phys[t])]
    BY <1>18 DEF KernelEntry, At, Done
  <2>2. DirOf(t) # Kernel /\ phys[t] \in frames
    BY <1>2, <1>5, <2>1, CallFacts DEF Basic, KernelPhase, Bits, KernelMarked
  <2>3. \A u \in Threads : pc'[u] \notin {"read", "write"} \cup InKernelDir
    BY <1>7, <2>1
  <2>4. \A d \in Threads : \A v \in Pages : map'[d][v] = map[d][v] \/
          (d = Kernel /\ v = phys[t] /\ map[d][v] = None /\ map'[d][v] = phys[t])
    BY <1>1, <1>3, <2>1 DEF EntryAdded
  <2>5. MappedMarked'
    BY <1>8, <2>1, <2>2, <2>4 DEF MappedMarked
  <2>6. MarkedMapped'
    BY <1>1, <1>5, <1>6, <2>1, <2>4 DEF Bits, MarkedMapped
  <2>7. Ahead'
    <3> SUFFICES ASSUME NEW p \in Procs, NEW v \in Pages, v >= next'[p], map'[p][v] \in Frames
                 PROVE  FALSE
      BY DEF Ahead
    <3>1. map'[p][v] = map[p][v] /\ next[p] \in Nat /\ v \in Nat
      BY <1>1, <2>4
    <3>2. next'[p] = IF p = DirOf(t) THEN next[p] + 1 ELSE next[p]
      BY <1>1, <2>1
    <3>3. v >= next[p]
      BY <3>1, <3>2
    <3>4. v = next[p] /\ p = DirOf(t)
      BY <1>9, <3>1, <3>3
    <3> QED
      BY <3>1, <3>2, <3>4
  <2>8. KernelMarked'
    BY <1>1, <1>5, <2>1, <2>2, <2>3 DEF Bits, KernelMarked
  <2>9. Exclusive'
    <3>1. \A p \in Procs : \A v \in Pages : map'[p][v] = map[p][v]
      BY <2>4
    <3> QED
      BY <1>5, <3>1 DEF Bits, Exclusive
  <2> QED
    BY <2>5, <2>6, <2>7, <2>8, <2>9 DEF Bits
<1> QED
  BY <1>10, <1>11, <1>12, <1>13, <1>14, <1>15, <1>16, <1>17, <1>18, <1>19
     DEF AllocStep

LEMMA CallerBits ==
  ASSUME Basic, Basic', HalvesInv, BitsInv,
         \/ KernelAsks \/ StartProcess
         \/ \E p \in Procs : CreateDir(p) \/ GrowHeap(p) \/ FreePage(p) \/ ClearBit(p)
         \/ \E t \in Threads : Spin(t)
         \/ UNCHANGED vars
  PROVE  BitsInv'
<1> USE Sizes DEF InKernelDir
<1> SUFFICES ASSUME Undisturbed' PROVE Bits'
  BY DEF BitsInv
<1>1. /\ frames \subseteq Frames
      /\ map \in [Threads -> [Pages -> Frames \cup {None, Garbage}]]
      /\ next \in [Threads -> 0 .. KERNEL_PAGES + 2 + HeapPages]
      /\ pc \in [Threads -> Places] /\ target \in Threads
  BY DEF Basic, TypeOK
<1>2. ASSUME NEW t \in Threads, NEW place \in {"find", "idle", "free"},
             pc' = [pc EXCEPT ![t] = place], pc[t] \in {"idle", "unborn"},
             Undisturbed, UNCHANGED <<frames, map, next, phys, target>>
      PROVE  Bits'
  <2>1. \A u \in Threads : pc'[u] = IF u = t THEN place ELSE pc[u]
    BY <1>1, <1>2
  <2> QED
    BY <1>2, <2>1, BitsKept DEF BitsInv
<1>3. CASE KernelAsks
  BY <1>2, <1>3, UndisturbedStep DEF KernelAsks, At, Goto
<1>4. CASE StartProcess
  <2>1. /\ At(Kernel, "idle") /\ pc[target] = "unborn" /\ Goto(target, "idle")
        /\ UNCHANGED <<frames, map, next, phys, target>>
    BY <1>4 DEF StartProcess
  <2>2. Undisturbed
    BY <2>1, UndisturbedStep
  <2> QED
    BY <1>1, <1>2, <2>1, <2>2 DEF Goto
<1>5. ASSUME NEW p \in Procs, CreateDir(p) PROVE Bits'
  <2>1. /\ At(Kernel, "idle") /\ pc[p] = "unborn" /\ pc[target] # "unborn"
        /\ target' = p /\ UNCHANGED <<frames, next, pc, phys>>
    BY <1>5 DEF CreateDir
  <2>2. Undisturbed /\ \A u \in Threads : pc[u] \in Resting
    BY <2>1, UndisturbedStep DEF At, Resting
  <2>3. \A u \in Threads : pc[u] \notin {"read", "write"} \cup InKernelDir
    BY <2>2 DEF Resting
  <2>4. Bits /\ next[p] = KERNEL_PAGES /\ \A v \in Pages : map[p][v] = None
    BY <2>1, <2>2 DEF BitsInv, HalvesInv, Untouched
  <2>5. next[Kernel] = KERNEL_PAGES
    BY <2>1 DEF Basic, KernelPhase
  <2>6. \A d \in Threads : d # p => map'[d] = map[d]
    BY <1>1, <1>5 DEF CreateDir
  <2>7. \A v \in Pages : IF v \in KernelPages THEN map'[p][v] = v
                         ELSE map'[p][v] \in {None, Garbage}
    <3> DEFINE present == {TableOf(v) : v \in NewDirPages}
               rest == {v \in Pages \ NewDirPages : TableOf(v) \in present}
    <3>1. PICK junk \in Uncleared(rest) :
            map' = [map EXCEPT ![p] = [v \in Pages |->
                      IF v \in NewDirPages THEN v
                      ELSE IF v \in DOMAIN junk THEN junk[v] ELSE None]]
      BY <1>5 DEF CreateDir
    <3>2. junk \in [rest -> {None, Garbage}]
      BY <3>1 DEF Uncleared
    <3> HIDE DEF rest
    <3> QED
      BY <1>1, <3>1, <3>2 DEF NewDirPages
  <2>8. None \notin Frames /\ Garbage \notin Frames
    BY DEF Frames, None, Garbage
  <2>9. \A d \in Threads : \A v \in Pages : map[d][v] \in Frames => map[d][v] \in frames
    BY <2>3, <2>4 DEF Bits, MappedMarked, Marking
  <2>10. KernelPages \subseteq frames
    BY <2>4, <2>5 DEF Bits, KernelMarked, KernelPages
  <2>11. MappedMarked'
    <3>1. \A v \in Pages : map'[p][v] \in Frames => map'[p][v] \in frames
      BY <2>7, <2>8, <2>10
    <3>2. \A d \in Threads : \A v \in Pages : map'[d][v] \in Frames => map'[d][v] \in frames
      BY <2>6, <2>9, <3>1
    <3> QED
      BY <2>1, <3>2 DEF MappedMarked
  <2>12. MarkedMapped'
    <3> SUFFICES ASSUME NEW f \in frames
                 PROVE  \E d \in Threads : \E v \in Pages : map'[d][v] = f
      BY <2>1 DEF MarkedMapped
    <3>1. PICK d \in Threads, v \in Pages : map[d][v] = f
      BY <2>4 DEF Bits, MarkedMapped
    <3>2. d # p
      BY <1>1, <2>4, <2>8, <3>1
    <3> QED
      BY <2>6, <3>1, <3>2
  <2>13. Ahead'
    <3> SUFFICES ASSUME NEW q \in Procs, NEW v \in Pages, v >= next[q], map'[q][v] \in Frames
                 PROVE  FALSE
      BY <2>1 DEF Ahead
    <3>1. q # p
      BY <2>4, <2>7, <2>8 DEF KernelPages
    <3> QED
      BY <2>3, <2>4, <2>6, <3>1 DEF Bits, Ahead
  <2>14. KernelMarked'
    BY <2>1, <2>4 DEF Bits, KernelMarked
  <2>15. Exclusive'
    <3>1. \A q \in Procs : \A v \in Pages \ KernelPages : map'[q][v] \in Frames =>
            q # p /\ map'[q][v] = map[q][v]
      BY <2>6, <2>7, <2>8
    <3> QED
      BY <2>4, <3>1 DEF Bits, Exclusive
  <2> QED
    BY <2>11, <2>12, <2>13, <2>14, <2>15 DEF Bits
<1>6. ASSUME NEW p \in Procs, GrowHeap(p) \/ FreePage(p) PROVE Bits'
  BY <1>2, <1>6, UndisturbedStep DEF GrowHeap, FreePage, At, Goto
<1>7. ASSUME NEW p \in Procs, ClearBit(p) PROVE Bits'
  BY <1>7, UndisturbedStep DEF ClearBit
<1>8. CASE UNCHANGED vars
  BY <1>8, BitsKept DEF vars, BitsInv, Undisturbed
<1> QED
  BY <1>3, <1>4, <1>5, <1>6, <1>7, <1>8 DEF Spin

LEMMA BitsInvariant == Spec => []BitsInv
<1>1. Init => BitsInv
  <2> SUFFICES ASSUME Init PROVE Bits
    BY DEF BitsInv
  <2>1. \A d \in Threads : \A v \in Pages : map[d][v] \notin Frames
    BY DEF Init, None, Frames
  <2>2. MappedMarked /\ MarkedMapped /\ Ahead /\ Exclusive
    BY <2>1, Sizes DEF Init, MappedMarked, MarkedMapped, Ahead, Exclusive
  <2>3. KernelMarked
    BY Sizes DEF Init, KernelMarked, KernelPages, InKernelDir
  <2> QED
    BY <2>2, <2>3 DEF Bits
<1>2. Basic /\ Basic' /\ HalvesInv /\ CalmInv /\ CalmInv' /\ BitsInv /\ [Next]_vars => BitsInv'
  <2> SUFFICES ASSUME Basic, Basic', HalvesInv, CalmInv, CalmInv', BitsInv, [Next]_vars
               PROVE  BitsInv'
    OBVIOUS
  <2>1. ASSUME NEW t \in Threads, AllocStep(t) PROVE BitsInv'
    BY <2>1, AllocBits
  <2>2. ASSUME \/ KernelAsks \/ StartProcess
               \/ \E p \in Procs : CreateDir(p) \/ GrowHeap(p) \/ FreePage(p) \/ ClearBit(p)
               \/ \E t \in Threads : Spin(t)
               \/ UNCHANGED vars
        PROVE  BitsInv'
    BY <2>2, CallerBits
  <2> QED
    BY <2>1, <2>2 DEF Next
<1> QED
  BY <1>1, <1>2, HalvesInvariant, CalmInvariant, PTL DEF Spec

\* No frame is given to a second page, and none of the kernel's to a process,
\* unless somebody was interrupted inside alloc_page or free_page was called:
\* the frame that the second search finds is still free when its bit is set.
\* (first_free_frame, alloc_page_pr, write_bitset)
THEOREM FramesExclusive == Spec => []FrameExclusive
<1>1. BitsInv => FrameExclusive
  <2> SUFFICES ASSUME Exclusive, NEW x \in UserPages, NEW y \in UserPages
               PROVE  /\ map[x[1]][x[2]] >= KERNEL_PAGES
                      /\ x # y => map[x[1]][x[2]] # map[y[1]][y[2]]
    BY DEF BitsInv, Bits, Undisturbed, FrameExclusive, OneUser
  <2>1. /\ x = <<x[1], x[2]>> /\ x[1] \in Procs /\ x[2] \in Pages \ KernelPages
        /\ y = <<y[1], y[2]>> /\ y[1] \in Procs /\ y[2] \in Pages \ KernelPages
    BY DEF UserPages
  <2>2. map[x[1]][x[2]] \in Frames
    BY DEF UserPages, Mapped
  <2>3. map[x[1]][x[2]] = map[y[1]][y[2]] => x[1] = y[1] /\ x[2] = y[2]
    BY <2>1, <2>2 DEF Exclusive
  <2>4. x[1] = y[1] /\ x[2] = y[2] => x = y
    BY <2>1
  <2> QED
    BY <2>1, <2>2, <2>3, <2>4 DEF Exclusive
<1> QED
  BY <1>1, BitsInvariant, PTL

\* Under the same condition a bit is set between calls exactly if the frame is
\* mapped in some directory, also after frames ran out in the middle of a
\* call: no mapping is lost when a table is allocated, and a page that is
\* entered was not mapped before. (write_bitset, alloc_page_pr)
THEOREM BitsetIsExact == Spec => []BitsetExact
<1>1. Basic /\ BitsInv => BitsetExact
  <2> SUFFICES ASSUME Basic, Bits, Quiet
               PROVE  frames = UNION {{map[d][v] : v \in Mapped(d)} : d \in Threads}
    BY DEF BitsInv, Undisturbed, BitsetExact, BitsetTrue
  <2>1. frames \subseteq Frames
    BY DEF Basic, TypeOK
  <2>2. \A d \in Threads : \A v \in Pages : map[d][v] \in Frames => map[d][v] \in frames
    BY DEF Bits, MappedMarked, Marking, Quiet, Resting
  <2>3. \A f \in frames : \E d \in Threads : \E v \in Mapped(d) : map[d][v] = f
    BY <2>1 DEF Bits, MarkedMapped, Mapped
  <2> QED
    BY <2>2, <2>3 DEF Mapped
<1> QED
  BY <1>1, HalvesInvariant, BitsInvariant, PTL
=============================================================================
