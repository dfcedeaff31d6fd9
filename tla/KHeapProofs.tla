----------------------------- MODULE KHeapProofs -----------------------------
(***************************************************************************)
(* Proofs about the placement allocator for every number of processes, of  *)
(* tables and of requests, and for every page size: page tables begin      *)
(* pages whoever interrupts whom, blocks are disjoint as long as nobody is *)
(* interrupted inside kmalloc_all, and nothing is handed out behind        *)
(* KERNEL_MEM_END.                                                         *)
(***************************************************************************)
EXTENDS KHeap, SequenceTheorems, FiniteSetTheorems, TLAPS

-----------------------------------------------------------------------------
(* Arithmetic and the requests                                             *)

\* The page behind a page start is one, too.
LEMMA NextPageAligned ==
  ASSUME NEW a \in Nat, Aligned(a)
  PROVE  Aligned(a + PAGE)
<1> USE KHeapAssumption DEF KHeapAssumption
<1>1. PICK k \in 0 .. a : a = k * PAGE
  BY DEF Aligned
<1>2. k + 1 \in Nat /\ a + PAGE = (k + 1) * PAGE /\ k + 1 <= a + PAGE
  BY <1>1
<1> QED
  BY <1>2 DEF Aligned

\* What main() and lol() ask for: a directory or a table is always aligned.
Careful == {r \in Requests : r.use \in {"dir", "table"} => r.align}

LEMMA StartupCareful ==
  Startup \in Seq(Careful) /\ Len(Startup) \in Nat
<1> DEFINE r1 == kmalloc("stack", StackSize)
           r2 == kmalloc_a("idt", IdtSize)
           r3 == kmalloc("faults", FaultsSize)
           r4 == kmalloc_a("dir", PAGE)
           r5 == kmalloc_a("frames", FramesSize)
           r6 == kmalloc("processes", ProcArrSize)
           r7 == kmalloc("stack", PAGE)
           S1 == << r1, r2, r3, r4, r5 >>
           S2 == [n \in 1 .. KernelTables |-> KernelTable]
           S3 == << r6, r7 >>
<1>0. /\ PAGE \in Nat /\ KernelTables \in Nat
      /\ StackSize \in Nat /\ IdtSize \in Nat /\ FaultsSize \in Nat
      /\ FramesSize \in Nat /\ ProcArrSize \in Nat
  BY KHeapAssumption DEF KHeapAssumption
<1>1. r1 \in Careful /\ r2 \in Careful /\ r3 \in Careful /\ r4 \in Careful
  BY <1>0 DEF kmalloc, kmalloc_a, Careful, Requests, Uses
<1>2. r5 \in Careful /\ r6 \in Careful /\ r7 \in Careful
  BY <1>0 DEF kmalloc, kmalloc_a, Careful, Requests, Uses
<1>3. KernelTable \in Careful
  BY <1>0 DEF KernelTable, kmalloc_a, Careful, Requests, Uses
<1> HIDE DEF r1, r2, r3, r4, r5, r6, r7
<1>4. S1 \in Seq(Careful) /\ S3 \in Seq(Careful)
  BY <1>1, <1>2
<1>5. S2 \in Seq(Careful)
  BY <1>0, <1>3
<1>6. Startup = (S1 \o S2) \o S3
  BY DEF Startup, r1, r2, r3, r4, r5, r6, r7
<1> HIDE DEF S1, S2, S3
<1>7. S1 \o S2 \in Seq(Careful)
  BY <1>4, <1>5, ConcatProperties
<1>8. (S1 \o S2) \o S3 \in Seq(Careful)
  BY <1>4, <1>7, ConcatProperties
<1> QED
  BY <1>6, <1>8, LenProperties

\* A process is started when a directory has been allocated for it.
LEMMA CreatedLater ==
  ASSUME NEW p \in Procs
  PROVE  Created(p) \in Nat /\ Created(p) > Len(Startup)
<1>1. p \in Nat /\ p >= 1 /\ PerProcess \in Nat /\ PerProcess >= 1
  BY KHeapAssumption DEF KHeapAssumption, Procs, PerProcess
<1>2. p * PerProcess \in Nat /\ p * PerProcess >= 1
  BY <1>1
<1> QED
  BY <1>2, StartupCareful DEF Created

-----------------------------------------------------------------------------
(* Types                                                                   *)

Places == {"idle", "test", "load", "store", "take", "read", "write"}
Blocks == [use : Uses, start : Nat, size : Nat]

Typed ==
  /\ place_addr \in Nat
  /\ pc \in [Threads -> Places]
  /\ request \in [Threads -> Requests]
  /\ toRet \in [Threads -> Nat]
  /\ reg \in [Threads -> Nat]
  /\ done \in [Threads -> Nat]
  /\ blocks \in Seq(Blocks)
  /\ preempted \in BOOLEAN

\* The requests of the kernel thread are careful, and those that follow the
\* start are aligned pages.
LEMMA KernelCareful ==
  ASSUME Typed
  PROVE  /\ KernelRequest \in Careful
         /\ done[Kernel] >= Len(Startup) =>
              KernelRequest.align /\ KernelRequest.size = PAGE
<1>0. PAGE \in Nat /\ done[Kernel] \in Nat
  BY KHeapAssumption DEF KHeapAssumption, Typed, Kernel, Threads
<1>1. /\ NewDir \in Careful /\ NewDir.align /\ NewDir.size = PAGE
      /\ KernelTable \in Careful /\ KernelTable.align /\ KernelTable.size = PAGE
  BY <1>0 DEF NewDir, KernelTable, kmalloc_a, Careful, Requests, Uses
<1>2. CASE done[Kernel] < Len(Startup)
  <2>1. done[Kernel] + 1 \in 1 .. Len(Startup)
    BY <1>0, <1>2, StartupCareful
  <2>2. Startup[done[Kernel] + 1] \in Careful
    BY <2>1, StartupCareful, ElementOfSeq
  <2> QED
    BY <1>0, <1>2, <2>2, StartupCareful DEF KernelRequest
<1>3. CASE ~(done[Kernel] < Len(Startup))
  <2>1. KernelRequest = NewDir \/ KernelRequest = KernelTable
    BY <1>3 DEF KernelRequest
  <2> QED
    BY <1>1, <2>1
<1> QED
  BY <1>2, <1>3

LEMMA ProcTableShape ==
  ProcTable \in Requests /\ ProcTable.size = PAGE
BY KHeapAssumption DEF KHeapAssumption, ProcTable, kmalloc, Requests, Uses

LEMMA KernelTableShape ==
  KernelTable \in Requests /\ KernelTable.size = PAGE
BY KHeapAssumption DEF KHeapAssumption, KernelTable, kmalloc_a, Requests, Uses

LEMMA TypedInit == Init => Typed
<1> SUFFICES ASSUME Init PROVE Typed
  OBVIOUS
<1>1. NewDir \in Requests
  BY KHeapAssumption DEF KHeapAssumption, NewDir, kmalloc_a, Requests, Uses
<1>2. blocks \in Seq(Blocks)
  BY EmptySeq DEF Init
<1>3. preempted \in BOOLEAN
  BY DEF Init
<1> QED
  BY <1>1, <1>2, <1>3, KHeapAssumption DEF KHeapAssumption, Init, Typed, Places

LEMMA TypedStep == Typed /\ [Next]_vars => Typed'
<1> SUFFICES ASSUME Typed, [Next]_vars PROVE Typed'
  OBVIOUS
<1>1. ASSUME NEW t \in Threads, NEW r \in Requests, Ask(t, r)
      PROVE  Typed'
  BY <1>1 DEF Ask, Typed, Places
<1>2. CASE KernelAsks
  <2>1. KernelRequest \in Requests /\ Kernel \in Threads
    BY KernelCareful DEF Careful, Threads
  <2> QED
    BY <1>1, <1>2, <2>1 DEF KernelAsks
<1>3. ASSUME NEW p \in Procs, ProcAsks(p)
      PROVE  Typed'
  BY <1>1, <1>3, ProcTableShape, KernelTableShape DEF ProcAsks, Threads
<1>4. ASSUME NEW t \in Threads,
             Test(t) \/ Load(t) \/ Increment(t) \/ Take(t)
      PROVE  Typed'
  <2>1. preempted' \in BOOLEAN
    BY <1>4, Zenon DEF Test, Load, Increment, Take, Step
  <2>2. pc' \in [Threads -> Places] /\ request' \in [Threads -> Requests]
    BY <1>4 DEF Test, Load, Increment, Take, Step, Typed, Places
  <2>3. place_addr' \in Nat /\ toRet' \in [Threads -> Nat] /\ reg' \in [Threads -> Nat]
    BY <1>4 DEF Test, Load, Increment, Take, Typed
  <2>4. done' \in [Threads -> Nat] /\ blocks' \in Seq(Blocks)
    BY <1>4 DEF Test, Load, Increment, Take, Typed
  <2> QED
    BY <2>1, <2>2, <2>3, <2>4 DEF Typed
<1>5. ASSUME NEW t \in Threads, Return(t)
      PROVE  Typed'
  <2>1. /\ request[t] \in Requests /\ toRet[t] \in Nat /\ reg[t] \in Nat
    BY DEF Typed
  <2>2. [use |-> request[t].use, start |-> toRet[t], size |-> request[t].size]
          \in Blocks
    BY <2>1 DEF Requests, Blocks
  <2>3. blocks' \in Seq(Blocks)
    BY <1>5, <2>2, AppendProperties DEF Return, Typed
  <2>4. place_addr' \in Nat
    BY <1>5, <2>1 DEF Return, Raised, Requests
  <2> QED
    BY <1>5, <2>3, <2>4 DEF Return, Step, Typed, Places
<1>6. CASE UNCHANGED vars
  BY <1>6 DEF vars, Typed
<1> QED
  BY <1>2, <1>3, <1>4, <1>5, <1>6 DEF Next, Finished

-----------------------------------------------------------------------------
(* Page tables begin pages                                                 *)

\* What the start has left to do.  main() runs alone; a request that wants a
\* boundary has found one when it takes its block.
Early ==
  /\ \A p \in Procs : pc[p] = "idle"
  /\ pc[Kernel] \in {"take", "read", "write"} /\ request[Kernel].align =>
       Aligned(place_addr)
  /\ pc[Kernel] \in {"read", "write"} => toRet[Kernel] = place_addr
  /\ pc[Kernel] = "write" => reg[Kernel] = place_addr

\* Since the first directory of a process everybody asks for pages, so that
\* place_addr never leaves the boundaries, even when a store is lost.
Late ==
  /\ Aligned(place_addr)
  /\ \A t \in Threads :
       /\ pc[t] # "idle" => request[t].size = PAGE
       /\ pc[t] \notin {"load", "store"}
       /\ pc[t] \in {"read", "write"} => Aligned(toRet[t])
       /\ pc[t] = "write" => Aligned(reg[t])

Started == done[Kernel] > Len(Startup)

KernelIsCareful ==
  pc[Kernel] # "idle" =>
    /\ request[Kernel] \in Careful
    /\ done[Kernel] >= Len(Startup) =>
         request[Kernel].align /\ request[Kernel].size = PAGE

AlignInv ==
  /\ KernelIsCareful
  /\ ~Started => Early
  /\ Started => Late
  /\ TablesFillPages

LEMMA KernelNoProc ==
  Kernel \in Threads /\ Kernel \notin Procs /\ Procs \subseteq Threads
BY DEF Kernel, Procs, Threads

LEMMA AlignInit == Init => AlignInv
<1> SUFFICES ASSUME Init PROVE AlignInv
  OBVIOUS
<1>1. done[Kernel] = 0 /\ \A t \in Threads : pc[t] = "idle"
  BY KernelNoProc DEF Init
<1>2. ~Started
  BY <1>1, StartupCareful DEF Started
<1>3. TablesFillPages
  BY DEF Init, TablesFillPages
<1> QED
  BY <1>1, <1>2, <1>3, KernelNoProc DEF AlignInv, Early, KernelIsCareful

\* A new request, of the kernel thread or of a process that has been started
LEMMA AlignAsk ==
  ASSUME Typed, AlignInv, NEW t \in Threads, NEW r, Ask(t, r),
         t = Kernel => r = KernelRequest,
         t # Kernel => r.size = PAGE /\ Started
  PROVE  AlignInv'
<1>0. /\ pc[t] = "idle" /\ pc' = [pc EXCEPT ![t] = "test"]
      /\ request' = [request EXCEPT ![t] = r]
      /\ UNCHANGED <<place_addr, toRet, reg, done, blocks>>
  BY DEF Ask
<1>1. TablesFillPages'
  BY <1>0 DEF AlignInv, TablesFillPages
<1>2. KernelIsCareful'
  BY <1>0, KernelCareful, KernelNoProc DEF AlignInv, KernelIsCareful, Typed
<1>3. Started' = Started
  BY <1>0 DEF Started
<1>4. ASSUME ~Started PROVE Early'
  BY <1>0, <1>4, KernelNoProc DEF AlignInv, Early, Typed
<1>5. ASSUME Started PROVE Late'
  <2>1. r.size = PAGE
    BY <1>5, KernelCareful, StartupCareful, KernelNoProc DEF Started, Typed
  <2> QED
    BY <1>0, <1>5, <2>1 DEF AlignInv, Late, Typed
<1> QED
  BY <1>1, <1>2, <1>3, <1>4, <1>5 DEF AlignInv

\* A step inside kmalloc_all
LEMMA AlignWork ==
  ASSUME Typed, AlignInv, NEW t \in Threads,
         Test(t) \/ Load(t) \/ Increment(t) \/ Take(t)
  PROVE  AlignInv'
<1>0. pc[t] # "idle" /\ UNCHANGED <<done, blocks, request>>
  BY DEF Test, Load, Increment, Take, Step
<1>1. TablesFillPages'
  BY <1>0 DEF AlignInv, TablesFillPages
<1>2. KernelIsCareful'
  BY <1>0, KernelNoProc DEF Test, Load, Increment, Take, Step, AlignInv,
     KernelIsCareful, Typed
<1>3. Started' = Started
  BY <1>0 DEF Started
<1>4. ASSUME ~Started PROVE Early'
  <2>1. t = Kernel /\ Early
    BY <1>0, <1>4 DEF AlignInv, Early, Threads
  <2> QED
    BY <2>1, KernelNoProc DEF Test, Load, Increment, Take, Step, MustAlign, Early,
       Typed
<1>5. ASSUME Started PROVE Late'
  <2>1. Late
    BY <1>5 DEF AlignInv
  <2> QED
    BY <1>0, <2>1 DEF Test, Load, Increment, Take, Step, MustAlign, Late, Typed
<1> QED
  BY <1>1, <1>2, <1>3, <1>4, <1>5 DEF AlignInv

\* What Return appends, and that it leaves the other blocks where they were
LEMMA Appended ==
  ASSUME Typed, NEW t \in Threads, Return(t)
  PROVE  /\ Len(blocks') = Len(blocks) + 1 /\ Len(blocks) \in Nat
         /\ \A i \in 1 .. Len(blocks) : blocks'[i] = blocks[i]
         /\ blocks'[Len(blocks) + 1] = [use |-> request[t].use, start |-> toRet[t],
                                        size |-> request[t].size]
         /\ DOMAIN blocks' = 1 .. Len(blocks) + 1 /\ DOMAIN blocks = 1 .. Len(blocks)
<1> DEFINE b == [use |-> request[t].use, start |-> toRet[t], size |-> request[t].size]
<1>1. b \in Blocks
  BY DEF Typed, Requests, Blocks
<1>2. blocks' = Append(blocks, b) /\ blocks \in Seq(Blocks)
  BY DEF Return, Typed
<1> HIDE DEF b
<1>3. /\ Append(blocks, b) \in Seq(Blocks)
      /\ Len(Append(blocks, b)) = Len(blocks) + 1
      /\ \A i \in 1 .. Len(blocks) : Append(blocks, b)[i] = blocks[i]
      /\ Append(blocks, b)[Len(blocks) + 1] = b
  BY <1>1, <1>2, AppendProperties
<1> QED
  BY <1>2, <1>3, LenProperties DEF b

LEMMA AlignReturn ==
  ASSUME Typed, AlignInv, NEW t \in Threads, Return(t)
  PROVE  AlignInv'
<1>0. /\ pc[t] = "write" /\ pc' = [pc EXCEPT ![t] = "idle"]
      /\ place_addr' = reg[t] + request[t].size
      /\ done' = [done EXCEPT ![t] = @ + 1]
      /\ UNCHANGED <<toRet, reg, request>>
  BY DEF Return, Step, Raised
<1>1. request[t].use \in {"dir", "table"} => Aligned(toRet[t])
  <2>1. CASE Started
    BY <1>0, <2>1 DEF AlignInv, Late
  <2>2. CASE ~Started
    <3>1. t = Kernel
      BY <1>0, <2>2 DEF AlignInv, Early, Threads
    <3> QED
      BY <1>0, <2>2, <3>1 DEF AlignInv, Early, KernelIsCareful, Careful
  <2> QED
    BY <2>1, <2>2
<1>2. TablesFillPages'
  <2> SUFFICES ASSUME NEW i \in DOMAIN blocks',
                      blocks'[i].use \in {"dir", "table"}
               PROVE  Aligned(blocks'[i].start)
    BY DEF TablesFillPages, Aligned
  <2> DEFINE n == Len(blocks)
             b == [use |-> request[t].use, start |-> toRet[t], size |-> request[t].size]
  <2>a. n \in Nat /\ DOMAIN blocks' = 1 .. n + 1 /\ blocks'[n + 1] = b
    BY Appended
  <2>b. b.use = request[t].use /\ b.start = toRet[t]
    OBVIOUS
  <2> HIDE DEF n, b
  <2>0. i \in 1 .. n \/ i = n + 1
    BY <2>a
  <2>1. CASE i \in 1 .. n
    <3>1. i \in DOMAIN blocks /\ blocks'[i] = blocks[i]
      BY <2>1, Appended DEF n
    <3> QED
      BY <3>1 DEF AlignInv, TablesFillPages
  <2>2. CASE i = n + 1
    BY <1>1, <2>2, <2>a, <2>b
  <2> QED
    BY <2>0, <2>1, <2>2
<1>3. KernelIsCareful'
  <2>1. CASE t = Kernel
    BY <1>0, <2>1 DEF KernelIsCareful, Typed
  <2>2. CASE t # Kernel
    BY <1>0, <2>2, KernelNoProc DEF AlignInv, KernelIsCareful, Typed
  <2> QED
    BY <2>1, <2>2
<1>4. CASE Started
  <2>1. Late /\ Aligned(reg[t]) /\ request[t].size = PAGE
    BY <1>0, <1>4 DEF AlignInv, Late
  <2>2. Aligned(place_addr)'
    BY <1>0, <2>1, NextPageAligned DEF Typed, Aligned
  <2>3. Late'
    BY <1>0, <2>1, <2>2 DEF Late, Typed, Aligned
  <2>4. Started'
    BY <1>0, <1>4, StartupCareful, KernelNoProc DEF Started, Typed
  <2> QED
    BY <1>2, <1>3, <2>3, <2>4 DEF AlignInv
<1>5. CASE ~Started
  <2>1. Early /\ t = Kernel
    BY <1>0, <1>5 DEF AlignInv, Early, Threads
  <2>2. ASSUME ~Started' PROVE Early'
    BY <1>0, <2>1, KernelNoProc DEF Early, Typed
  <2>3. ASSUME Started' PROVE Late'
    <3>1. done[Kernel] = Len(Startup)
      BY <1>0, <1>5, <2>1, <2>3, StartupCareful, KernelNoProc DEF Started, Typed
    <3>2. request[t].align /\ request[t].size = PAGE
      BY <1>0, <2>1, <3>1, StartupCareful DEF AlignInv, KernelIsCareful
    <3>3. Aligned(place_addr) /\ reg[t] = place_addr
      BY <1>0, <2>1, <3>2 DEF Early
    <3>4. Aligned(place_addr + PAGE)
      BY <3>3, NextPageAligned DEF Typed
    <3>5. Aligned(place_addr)'
      BY <1>0, <3>2, <3>3, <3>4 DEF Aligned
    <3>6. \A u \in Threads : pc'[u] = "idle"
      BY <1>0, <2>1 DEF Early, Threads, Typed
    <3> QED
      BY <3>5, <3>6 DEF Late
  <2> QED
    BY <1>2, <1>3, <2>2, <2>3 DEF AlignInv
<1> QED
  BY <1>4, <1>5

LEMMA AlignStep == Typed /\ AlignInv /\ [Next]_vars => AlignInv'
<1> SUFFICES ASSUME Typed, AlignInv, [Next]_vars PROVE AlignInv'
  OBVIOUS
<1>1. CASE KernelAsks
  BY <1>1, AlignAsk, KernelNoProc DEF KernelAsks
<1>2. ASSUME NEW p \in Procs, ProcAsks(p)
      PROVE  AlignInv'
  <2>1. Started /\ p \in Threads /\ p # Kernel
    BY <1>2, CreatedLater, StartupCareful, KernelNoProc DEF ProcAsks, Started, Typed
  <2>2. CASE Ask(p, ProcTable)
    BY <2>1, <2>2, AlignAsk, ProcTableShape
  <2>3. CASE Ask(p, KernelTable)
    BY <2>1, <2>3, AlignAsk, KernelTableShape
  <2> QED
    BY <1>2, <2>2, <2>3 DEF ProcAsks
<1>3. ASSUME NEW t \in Threads, Test(t) \/ Load(t) \/ Increment(t) \/ Take(t)
      PROVE  AlignInv'
  BY <1>3, AlignWork
<1>4. ASSUME NEW t \in Threads, Return(t)
      PROVE  AlignInv'
  BY <1>4, AlignReturn
<1>5. CASE UNCHANGED vars
  BY <1>5 DEF vars, AlignInv, KernelIsCareful, Started, Early, Late,
     TablesFillPages, Aligned
<1> QED
  BY <1>1, <1>2, <1>3, <1>4, <1>5 DEF Next, Finished

\* Page directories and page tables begin pages, whoever is interrupted inside
\* kmalloc_all: also those that alloc_page_pr gets from kmalloc, which does
\* not align.
THEOREM TablesBeginPages == Spec => []TablesFillPages
<1>1. Init => Typed /\ AlignInv
  BY TypedInit, AlignInit
<1>2. Typed /\ AlignInv /\ [Next]_vars => (Typed /\ AlignInv)'
  BY TypedStep, AlignStep
<1>3. AlignInv => TablesFillPages
  BY DEF AlignInv
<1> QED
  BY <1>1, <1>2, <1>3, PTL DEF Spec

-----------------------------------------------------------------------------
(* No byte is handed out twice                                             *)

\* What a thread inside kmalloc_all has read is still what place_addr is
Current(t) ==
  /\ pc[t] \in {"read", "write"} => toRet[t] = place_addr
  /\ pc[t] \in {"store", "write"} => reg[t] = place_addr

\* place_addr is behind everything that has been handed out
Behind == \A i \in DOMAIN blocks : blocks[i].start + blocks[i].size <= place_addr

AllApart == \A i, j \in DOMAIN blocks : i # j => Apart(blocks[i], blocks[j])

DisjointInv ==
  ~preempted => (\A t \in Threads : Current(t)) /\ Behind /\ AllApart

LEMMA DisjointInit == Init => DisjointInv
BY DEF Init, DisjointInv, Current, Behind, AllApart

LEMMA BlockShape ==
  ASSUME Typed, NEW i \in DOMAIN blocks
  PROVE  blocks[i].start \in Nat /\ blocks[i].size \in Nat
<1>1. blocks \in Seq(Blocks)
  BY DEF Typed
<1>2. i \in 1 .. Len(blocks)
  BY <1>1, LenProperties
<1>3. blocks[i] \in Blocks
  BY <1>1, <1>2, ElementOfSeq
<1> QED
  BY <1>3 DEF Blocks

\* As long as no thread was pre-empted, the others are idle.
LEMMA OthersIdle ==
  ASSUME Typed, NEW t \in Threads, NEW from, NEW to, Step(t, from, to), ~preempted'
  PROVE  ~preempted /\ \A u \in Threads \ {t} : pc'[u] = "idle"
BY DEF Step, Typed

LEMMA DisjointAsk ==
  ASSUME Typed, DisjointInv, NEW t \in Threads, NEW r, Ask(t, r)
  PROVE  DisjointInv'
<1>1. \A u \in Threads : Current(u) => Current(u)'
  BY DEF Ask, Current, Typed
<1>2. UNCHANGED <<preempted, place_addr, blocks>>
  BY DEF Ask
<1> QED
  BY <1>1, <1>2 DEF DisjointInv, Behind, AllApart

LEMMA DisjointWork ==
  ASSUME Typed, DisjointInv, NEW t \in Threads,
         Test(t) \/ Load(t) \/ Increment(t) \/ Take(t)
  PROVE  DisjointInv'
<1> SUFFICES ASSUME ~preempted'
             PROVE  (\A u \in Threads : Current(u)') /\ Behind' /\ AllApart'
  BY DEF DisjointInv
<1>1. /\ ~preempted /\ \A u \in Threads \ {t} : pc'[u] = "idle"
      /\ UNCHANGED blocks
  BY OthersIdle DEF Test, Load, Increment, Take
<1>2. Current(t) /\ Behind /\ AllApart
  BY <1>1 DEF DisjointInv
<1>3. Current(t)'
  BY <1>2 DEF Test, Load, Increment, Take, Step, Current, Typed
<1>4. \A u \in Threads : Current(u)'
  BY <1>1, <1>3 DEF Current
<1>5. place_addr' = place_addr \/ place_addr' = place_addr + 1
  BY <1>2 DEF Test, Load, Increment, Take, Step, Current
<1>6. Behind'
  <2> SUFFICES ASSUME NEW i \in DOMAIN blocks
               PROVE  blocks[i].start + blocks[i].size <= place_addr'
    BY <1>1 DEF Behind
  <2>1. blocks[i].start + blocks[i].size <= place_addr
    BY <1>2 DEF Behind
  <2>2. blocks[i].start \in Nat /\ blocks[i].size \in Nat
    BY BlockShape
  <2> QED
    BY <1>5, <2>1, <2>2 DEF Typed
<1> QED
  BY <1>1, <1>2, <1>4, <1>6 DEF AllApart

LEMMA DisjointReturn ==
  ASSUME Typed, DisjointInv, NEW t \in Threads, Return(t)
  PROVE  DisjointInv'
<1> SUFFICES ASSUME ~preempted'
             PROVE  (\A u \in Threads : Current(u)') /\ Behind' /\ AllApart'
  BY DEF DisjointInv
<1>1. ~preempted /\ \A u \in Threads \ {t} : pc'[u] = "idle"
  BY OthersIdle DEF Return
<1>2. Current(t) /\ Behind /\ AllApart
  BY <1>1 DEF DisjointInv
<1>3. pc[t] = "write" /\ pc'[t] = "idle"
  BY DEF Return, Step, Typed
<1>4. \A u \in Threads : Current(u)'
  BY <1>1, <1>3 DEF Current
<1> DEFINE n == Len(blocks)
           b == [use |-> request[t].use, start |-> toRet[t], size |-> request[t].size]
<1>5. /\ n \in Nat /\ DOMAIN blocks' = 1 .. n + 1 /\ blocks'[n + 1] = b
      /\ DOMAIN blocks = 1 .. n /\ \A i \in 1 .. n : blocks'[i] = blocks[i]
  BY Appended
<1>6. /\ b.start = place_addr /\ b.size \in Nat /\ place_addr \in Nat
      /\ place_addr' = place_addr + b.size
  BY <1>2, <1>3 DEF Return, Raised, Current, Typed, Requests
<1> HIDE DEF n, b
<1>7. \A i \in 1 .. n : /\ blocks[i].start \in Nat /\ blocks[i].size \in Nat
                        /\ blocks[i].start + blocks[i].size <= place_addr
  BY <1>2, <1>5, BlockShape DEF Behind
<1>8. \A i \in 1 .. n + 1 : i \in 1 .. n \/ i = n + 1
  BY <1>5
<1>9. Behind'
  <2> SUFFICES ASSUME NEW i \in 1 .. n + 1
               PROVE  blocks'[i].start + blocks'[i].size <= place_addr'
    BY <1>5 DEF Behind
  <2>1. CASE i \in 1 .. n
    <3>1. blocks'[i] = blocks[i]
      BY <1>5, <2>1
    <3>2. /\ blocks[i].start \in Nat /\ blocks[i].size \in Nat
          /\ blocks[i].start + blocks[i].size <= place_addr
      BY <1>7, <2>1
    <3>3. blocks[i].start + blocks[i].size <= place_addr'
      BY <1>6, <3>2
    <3> QED
      BY <3>1, <3>3
  <2>2. CASE i = n + 1
    <3>1. blocks'[i] = b
      BY <1>5, <2>2
    <3> QED
      BY <1>6, <3>1
  <2> QED
    BY <1>8, <2>1, <2>2
<1>10. AllApart'
  <2> SUFFICES ASSUME NEW i \in 1 .. n + 1, NEW j \in 1 .. n + 1, i # j
               PROVE  Apart(blocks'[i], blocks'[j])
    BY <1>5 DEF AllApart, Apart
  <2>1. CASE i \in 1 .. n /\ j \in 1 .. n
    BY <1>2, <1>5, <2>1 DEF AllApart
  <2>2. CASE i = n + 1 /\ j \in 1 .. n
    <3>1. blocks'[i] = b /\ blocks'[j] = blocks[j]
      BY <1>5, <2>2
    <3>2. blocks[j].start + blocks[j].size <= b.start
      BY <1>6, <1>7, <2>2
    <3> QED
      BY <3>1, <3>2 DEF Apart
  <2>3. CASE i \in 1 .. n /\ j = n + 1
    <3>1. blocks'[i] = blocks[i] /\ blocks'[j] = b
      BY <1>5, <2>3
    <3>2. blocks[i].start + blocks[i].size <= b.start
      BY <1>6, <1>7, <2>3
    <3> QED
      BY <3>1, <3>2 DEF Apart
  <2> QED
    BY <1>8, <2>1, <2>2, <2>3
<1> QED
  BY <1>4, <1>9, <1>10

LEMMA DisjointStep == Typed /\ DisjointInv /\ [Next]_vars => DisjointInv'
<1> SUFFICES ASSUME Typed, DisjointInv, [Next]_vars PROVE DisjointInv'
  OBVIOUS
<1>1. CASE KernelAsks
  BY <1>1, DisjointAsk, KernelNoProc DEF KernelAsks
<1>2. ASSUME NEW p \in Procs, ProcAsks(p)
      PROVE  DisjointInv'
  BY <1>2, DisjointAsk, KernelNoProc DEF ProcAsks
<1>3. ASSUME NEW t \in Threads, Test(t) \/ Load(t) \/ Increment(t) \/ Take(t)
      PROVE  DisjointInv'
  BY <1>3, DisjointWork
<1>4. ASSUME NEW t \in Threads, Return(t)
      PROVE  DisjointInv'
  BY <1>4, DisjointReturn
<1>5. CASE UNCHANGED vars
  BY <1>5 DEF vars, DisjointInv, Current, Behind, AllApart
<1> QED
  BY <1>1, <1>2, <1>3, <1>4, <1>5 DEF Next, Finished

\* Until a thread is pre-empted inside kmalloc_all, no byte is handed out
\* twice, for every number of requests and every size.
THEOREM KernelBlocksDisjoint == Spec => []BlocksDisjoint
<1>1. Init => Typed /\ DisjointInv
  BY TypedInit, DisjointInit
<1>2. Typed /\ DisjointInv /\ [Next]_vars => (Typed /\ DisjointInv)'
  BY TypedStep, DisjointStep
<1>3. DisjointInv => BlocksDisjoint
  BY DEF DisjointInv, AllApart, BlocksDisjoint
<1> QED
  BY <1>1, <1>2, <1>3, PTL DEF Spec


-----------------------------------------------------------------------------
(* Everything is handed out below KERNEL_MEM_END                           *)

\* At most this far has place_addr come when n blocks have been handed out:
\* what main() has asked for by then, and pages, two for each that main()
\* wants at a boundary.
Sizes(n) ==
  (IF n >= 1 THEN StackSize ELSE 0) + (IF n >= 2 THEN IdtSize ELSE 0)
  + (IF n >= 3 THEN FaultsSize ELSE 0) + (IF n >= 5 THEN FramesSize ELSE 0)
  + (IF n >= 6 + KernelTables THEN ProcArrSize ELSE 0)
Pages(n) ==
  (IF n >= 2 THEN 1 ELSE 0) + (IF n >= 4 THEN 2 ELSE 0) + (IF n >= 5 THEN 1 ELSE 0)
  + (IF n < 5 THEN 0 ELSE IF n <= 5 + KernelTables THEN 2 * (n - 5) ELSE 2 * KernelTables)
  + (IF n >= 7 + KernelTables THEN 1 ELSE 0)
  + (IF n > 7 + KernelTables THEN n - 6 - KernelTables ELSE 0)
Limit(n) == START + Sizes(n) + Pages(n) * PAGE

\* The requests that have been served: each has a thread and a number
Served == {x \in Threads \X Nat : x[2] \in 1 .. done[x[1]]}
Count == Cardinality(Served)

Quota(t) == IF t = Kernel THEN KernelRequests ELSE MaxTables

InQuota ==
  \A t \in Threads : done[t] <= Quota(t) /\ (pc[t] # "idle" => done[t] < Quota(t))

\* The first boundary from a on is below m.
Bounded(a, m) == \E k \in Nat : a <= k * PAGE /\ k * PAGE < m

\* main() and the first request of lol(): the search for a boundary ends at
\* the first one.
RoomEarly ==
  /\ Count = done[Kernel]
  /\ pc[Kernel] # "idle" => request[Kernel] = KernelRequest
  /\ pc[Kernel] = "idle" => place_addr <= Limit(Count)
  /\ pc[Kernel] # "idle" /\ ~request[Kernel].align => place_addr <= Limit(Count)
  /\ pc[Kernel] # "idle" /\ request[Kernel].align =>
       Bounded(place_addr, Limit(Count) + PAGE)
  /\ pc[Kernel] \in {"load", "store"} => request[Kernel].align /\ ~Aligned(place_addr)
  /\ pc[Kernel] = "store" => reg[Kernel] = place_addr

\* Later a store that was lost only leaves place_addr behind.
RoomLate ==
  /\ Count > Len(Startup)
  /\ place_addr <= Limit(Count)
  /\ \A t \in Threads : pc[t] = "write" => reg[t] <= Limit(Count)

InRoom ==
  /\ place_addr >= START
  /\ \A t \in Threads :
       /\ pc[t] \in {"store", "write"} => reg[t] >= START
       /\ toRet[t] <= KERNEL_MEM_END /\ reg[t] <= KERNEL_MEM_END

RoomInv ==
  /\ InQuota /\ IsFiniteSet(Served)
  /\ ~Started => RoomEarly
  /\ Started => RoomLate
  /\ InRoom

LEMMA Numbers ==
  /\ NProcs \in Nat /\ PAGE \in Nat /\ PAGE > 0 /\ START \in Nat
  /\ KERNEL_MEM_END \in Nat /\ KernelTables \in Nat /\ MaxTables \in Nat
  /\ StackSize \in Nat /\ IdtSize \in Nat /\ FaultsSize \in Nat
  /\ FramesSize \in Nat /\ ProcArrSize \in Nat
BY KHeapAssumption DEF KHeapAssumption

\* What main() asks for, one by one
LEMMA StartupShape ==
  /\ Len(Startup) = 7 + KernelTables
  /\ Startup[1] = kmalloc("stack", StackSize)
  /\ Startup[2] = kmalloc_a("idt", IdtSize)
  /\ Startup[3] = kmalloc("faults", FaultsSize)
  /\ Startup[4] = kmalloc_a("dir", PAGE)
  /\ Startup[5] = kmalloc_a("frames", FramesSize)
  /\ \A i \in 6 .. 5 + KernelTables : Startup[i] = KernelTable
  /\ Startup[6 + KernelTables] = kmalloc("processes", ProcArrSize)
  /\ Startup[7 + KernelTables] = kmalloc("stack", PAGE)
<1> DEFINE r1 == kmalloc("stack", StackSize)
           r2 == kmalloc_a("idt", IdtSize)
           r3 == kmalloc("faults", FaultsSize)
           r4 == kmalloc_a("dir", PAGE)
           r5 == kmalloc_a("frames", FramesSize)
           r6 == kmalloc("processes", ProcArrSize)
           r7 == kmalloc("stack", PAGE)
           S1 == << r1, r2, r3, r4, r5 >>
           S2 == [n \in 1 .. KernelTables |-> KernelTable]
           S3 == << r6, r7 >>
           R == {r1, r2, r3, r4, r5, r6, r7, KernelTable}
<1>0. KernelTables \in Nat
  BY Numbers
<1>1. Startup = (S1 \o S2) \o S3
  BY DEF Startup
<1> HIDE DEF r1, r2, r3, r4, r5, r6, r7
<1>2. /\ S1 \in Seq(R) /\ Len(S1) = 5
      /\ S1[1] = r1 /\ S1[2] = r2 /\ S1[3] = r3 /\ S1[4] = r4 /\ S1[5] = r5
  OBVIOUS
<1>3. S3 \in Seq(R) /\ Len(S3) = 2 /\ S3[1] = r6 /\ S3[2] = r7
  OBVIOUS
<1>4. /\ S2 \in Seq(R) /\ Len(S2) = KernelTables
      /\ \A i \in 1 .. KernelTables : S2[i] = KernelTable
  BY <1>0
<1> HIDE DEF S1, S2, S3, R
<1>5. /\ S1 \o S2 \in Seq(R) /\ Len(S1 \o S2) = 5 + KernelTables
      /\ \A i \in 1 .. 5 + KernelTables :
           (S1 \o S2)[i] = IF i <= 5 THEN S1[i] ELSE S2[i - 5]
  <2>1. /\ S1 \o S2 \in Seq(R) /\ Len(S1 \o S2) = Len(S1) + Len(S2)
        /\ \A i \in 1 .. Len(S1) + Len(S2) :
             (S1 \o S2)[i] = IF i <= Len(S1) THEN S1[i] ELSE S2[i - Len(S1)]
    BY <1>2, <1>4, ConcatProperties
  <2> QED
    BY <1>2, <1>4, <2>1
<1>6. /\ Len(Startup) = 7 + KernelTables
      /\ \A i \in 1 .. 7 + KernelTables :
           Startup[i] = IF i <= 5 + KernelTables THEN (S1 \o S2)[i]
                        ELSE S3[i - (5 + KernelTables)]
  <2> DEFINE S == S1 \o S2
  <2>0. S \in Seq(R) /\ Len(S) = 5 + KernelTables
    BY <1>5
  <2> HIDE DEF S
  <2>1. /\ Len(S \o S3) = Len(S) + Len(S3)
        /\ \A i \in 1 .. Len(S) + Len(S3) :
             (S \o S3)[i] = IF i <= Len(S) THEN S[i] ELSE S3[i - Len(S)]
    BY <1>3, <2>0, ConcatProperties
  <2>2. Len(S) + Len(S3) = 7 + KernelTables
    BY <1>0, <1>3, <2>0
  <2>3. Startup = S \o S3
    BY <1>1 DEF S
  <2> QED
    BY <2>0, <2>1, <2>2, <2>3 DEF S
<1>7. \A i \in 1 .. 5 : Startup[i] = S1[i]
  <2> SUFFICES ASSUME NEW i \in 1 .. 5 PROVE Startup[i] = S1[i]
    OBVIOUS
  <2>1. /\ i \in 1 .. 7 + KernelTables /\ i <= 5 + KernelTables
        /\ i \in 1 .. 5 + KernelTables /\ i <= 5
    BY <1>0
  <2>2. Startup[i] = (S1 \o S2)[i]
    BY <1>6, <2>1, Zenon
  <2>3. (S1 \o S2)[i] = S1[i]
    BY <1>5, <2>1, Zenon
  <2> QED
    BY <2>2, <2>3, Zenon
<1>8. \A i \in 6 .. 5 + KernelTables : Startup[i] = KernelTable
  <2> SUFFICES ASSUME NEW i \in 6 .. 5 + KernelTables PROVE Startup[i] = KernelTable
    OBVIOUS
  <2>1. /\ i \in 1 .. 7 + KernelTables /\ i <= 5 + KernelTables
        /\ i \in 1 .. 5 + KernelTables /\ ~(i <= 5) /\ i - 5 \in 1 .. KernelTables
    BY <1>0
  <2>2. Startup[i] = (S1 \o S2)[i]
    BY <1>6, <2>1, Zenon
  <2>3. (S1 \o S2)[i] = S2[i - 5]
    BY <1>5, <2>1, Zenon
  <2> QED
    BY <1>4, <2>1, <2>2, <2>3, Zenon
<1>9. /\ Startup[6 + KernelTables] = S3[1]
      /\ Startup[7 + KernelTables] = S3[2]
  BY <1>0, <1>6
<1> QED
  BY <1>2, <1>3, <1>6, <1>7, <1>8, <1>9 DEF r1, r2, r3, r4, r5, r6, r7

LEMMA PagesTimes ==
  ASSUME NEW i \in Int
  PROVE  /\ i * PAGE \in Int
         /\ (i + 1) * PAGE = i * PAGE + PAGE
         /\ (i + 2) * PAGE = i * PAGE + 2 * PAGE
         /\ \A j \in Int : i <= j => i * PAGE <= j * PAGE
BY Numbers

LEMMA LimitType ==
  ASSUME NEW n \in Nat
  PROVE  Sizes(n) \in Nat /\ Pages(n) \in Nat /\ Limit(n) \in Nat /\ Pages(n) * PAGE \in Nat
<1>1. Sizes(n) \in Nat
  BY Numbers DEF Sizes
<1>2. Pages(n) \in Nat
  BY Numbers DEF Pages
<1>3. Pages(n) * PAGE \in Nat
  BY <1>2, Numbers
<1> QED
  BY <1>1, <1>2, <1>3, Numbers DEF Limit

\* The limits grow by what is asked for ...
LEMMA LimitStartup ==
  ASSUME NEW n \in Nat, n < Len(Startup)
  PROVE  /\ Limit(n) + Startup[n + 1].size <= Limit(n + 1)
         /\ Startup[n + 1].align => Limit(n) + PAGE + Startup[n + 1].size <= Limit(n + 1)
<1> DEFINE r == Startup[n + 1]
<1>0. n < 7 + KernelTables
  BY StartupShape
<1>2. n + 1 \in Nat /\ Sizes(n) \in Nat /\ Pages(n) \in Nat
  BY LimitType
<1>3. PICK p \in Int : /\ p = Pages(n) * PAGE /\ (Pages(n) + 1) * PAGE = p + PAGE
                       /\ (Pages(n) + 2) * PAGE = p + 2 * PAGE
  <2>1. Pages(n) \in Int
    BY <1>2
  <2> QED
    BY <2>1, PagesTimes, Zenon
<1>4. Limit(n) = START + Sizes(n) + p
  BY <1>3 DEF Limit
<1>5. ASSUME Pages(n + 1) = Pages(n), Sizes(n + 1) = Sizes(n) + r.size, ~r.align, r.size \in Nat
      PROVE  /\ Limit(n) + r.size <= Limit(n + 1)
             /\ r.align => Limit(n) + PAGE + r.size <= Limit(n + 1)
  <2>1. Limit(n + 1) = START + Sizes(n + 1) + p
    BY <1>3, <1>5 DEF Limit
  <2>2. PICK z \in Nat : z = r.size
    BY <1>5
  <2>3. Sizes(n + 1) = Sizes(n) + z
    BY <1>5, <2>2
  <2> HIDE DEF r
  <2>4. PICK s \in Nat : s = Sizes(n)
    BY <1>2
  <2>5. Limit(n) = START + s + p /\ Limit(n + 1) = START + (s + z) + p
    BY <1>4, <2>1, <2>3, <2>4, Zenon
  <2>6. START \in Nat
    BY Numbers
  <2>7. Limit(n) + z <= Limit(n + 1)
    BY <2>5, <2>6
  <2> QED
    BY <1>5, <2>2, <2>7, Zenon
<1>6. ASSUME Pages(n + 1) = Pages(n) + 1, Sizes(n + 1) = Sizes(n) + r.size, r.size \in Nat
      PROVE  /\ Limit(n) + r.size <= Limit(n + 1)
             /\ r.align => Limit(n) + PAGE + r.size <= Limit(n + 1)
  <2>1. Limit(n + 1) = START + Sizes(n + 1) + (p + PAGE)
    BY <1>3, <1>6 DEF Limit
  <2>2. PICK z \in Nat : z = r.size
    BY <1>6
  <2>3. Sizes(n + 1) = Sizes(n) + z
    BY <1>6, <2>2
  <2> HIDE DEF r
  <2>4. PICK s \in Nat : s = Sizes(n)
    BY <1>2
  <2>5. Limit(n) = START + s + p /\ Limit(n + 1) = START + (s + z) + (p + PAGE)
    BY <1>4, <2>1, <2>3, <2>4, Zenon
  <2>6. START \in Nat /\ PAGE \in Nat
    BY Numbers
  <2>7. Limit(n) + z <= Limit(n + 1) /\ Limit(n) + PAGE + z <= Limit(n + 1)
    BY <2>5, <2>6
  <2> QED
    BY <2>2, <2>7
<1>7. ASSUME Pages(n + 1) = Pages(n) + 2, Sizes(n + 1) = Sizes(n), r.size = PAGE
      PROVE  /\ Limit(n) + r.size <= Limit(n + 1)
             /\ r.align => Limit(n) + PAGE + r.size <= Limit(n + 1)
  <2>1. Limit(n + 1) = START + Sizes(n + 1) + (p + 2 * PAGE)
    BY <1>3, <1>7 DEF Limit
  <2> HIDE DEF r
  <2>2. PICK s \in Nat : s = Sizes(n)
    BY <1>2
  <2>3. Limit(n) = START + s + p /\ Limit(n + 1) = START + s + (p + 2 * PAGE)
    BY <1>4, <1>7, <2>1, <2>2, Zenon
  <2>4. START \in Nat /\ PAGE \in Nat
    BY Numbers
  <2>5. Limit(n) + PAGE <= Limit(n + 1) /\ Limit(n) + PAGE + PAGE <= Limit(n + 1)
    BY <2>3, <2>4
  <2> QED
    BY <1>7, <2>5, Zenon
<1>8. ASSUME Pages(n + 1) = Pages(n) + 1, Sizes(n + 1) = Sizes(n), r.size = PAGE, ~r.align
      PROVE  /\ Limit(n) + r.size <= Limit(n + 1)
             /\ r.align => Limit(n) + PAGE + r.size <= Limit(n + 1)
  <2>1. Limit(n + 1) = START + Sizes(n + 1) + (p + PAGE)
    BY <1>3, <1>8 DEF Limit
  <2> HIDE DEF r
  <2>2. PICK s \in Nat : s = Sizes(n)
    BY <1>2
  <2>3. Limit(n) = START + s + p /\ Limit(n + 1) = START + s + (p + PAGE)
    BY <1>4, <1>8, <2>1, <2>2, Zenon
  <2>4. START \in Nat /\ PAGE \in Nat
    BY Numbers
  <2>5. Limit(n) + PAGE <= Limit(n + 1)
    BY <2>3, <2>4
  <2> QED
    BY <1>8, <2>5, Zenon
<1>10. CASE n = 0
  <2>1. r.size = StackSize /\ ~r.align
    BY <1>10, StartupShape DEF kmalloc
  <2>2. Pages(n + 1) = Pages(n) /\ Sizes(n + 1) = Sizes(n) + StackSize
    BY <1>10, Numbers DEF Pages, Sizes
  <2> QED
    BY <1>5, <2>1, <2>2, Numbers
<1>11. CASE n = 1
  <2>1. r.size = IdtSize
    BY <1>11, StartupShape DEF kmalloc_a
  <2>2. Pages(n + 1) = Pages(n) + 1 /\ Sizes(n + 1) = Sizes(n) + IdtSize
    BY <1>11, Numbers DEF Pages, Sizes
  <2> QED
    BY <1>6, <2>1, <2>2, Numbers
<1>12. CASE n = 2
  <2>1. r.size = FaultsSize /\ ~r.align
    BY <1>12, StartupShape DEF kmalloc
  <2>2. Pages(n + 1) = Pages(n) /\ Sizes(n + 1) = Sizes(n) + FaultsSize
    BY <1>12, Numbers DEF Pages, Sizes
  <2> QED
    BY <1>5, <2>1, <2>2, Numbers
<1>13. CASE n = 3
  <2>1. r.size = PAGE
    BY <1>13, StartupShape DEF kmalloc_a
  <2>2. Pages(n + 1) = Pages(n) + 2 /\ Sizes(n + 1) = Sizes(n)
    BY <1>13, Numbers DEF Pages, Sizes
  <2> QED
    BY <1>7, <2>1, <2>2
<1>14. CASE n = 4
  <2>1. r.size = FramesSize
    BY <1>14, StartupShape DEF kmalloc_a
  <2>2. Pages(n + 1) = Pages(n) + 1 /\ Sizes(n + 1) = Sizes(n) + FramesSize
    BY <1>14, Numbers DEF Pages, Sizes
  <2> QED
    BY <1>6, <2>1, <2>2, Numbers
<1>15. CASE n >= 5 /\ n < 5 + KernelTables
  <2>1. n + 1 \in 6 .. 5 + KernelTables
    BY <1>15, Numbers
  <2>2. r.size = PAGE
    BY <2>1, StartupShape, KernelTableShape
  <2>3. Pages(n + 1) = Pages(n) + 2 /\ Sizes(n + 1) = Sizes(n)
    BY <1>15, Numbers DEF Pages, Sizes
  <2> QED
    BY <1>7, <2>2, <2>3
<1>16. CASE n = 5 + KernelTables
  <2>1. n + 1 = 6 + KernelTables
    BY <1>16, Numbers
  <2>2. r.size = ProcArrSize /\ ~r.align
    BY <2>1, StartupShape DEF kmalloc
  <2>3. Pages(n + 1) = Pages(n) /\ Sizes(n + 1) = Sizes(n) + ProcArrSize
    BY <1>16, Numbers DEF Pages, Sizes
  <2> QED
    BY <1>5, <2>2, <2>3, Numbers
<1>17. CASE n = 6 + KernelTables
  <2>1. n + 1 = 7 + KernelTables
    BY <1>17, Numbers
  <2>2. r.size = PAGE /\ ~r.align
    BY <2>1, StartupShape DEF kmalloc
  <2>3. Pages(n + 1) = Pages(n) + 1 /\ Sizes(n + 1) = Sizes(n)
    BY <1>17, Numbers DEF Pages, Sizes
  <2> QED
    BY <1>8, <2>2, <2>3
<1>18. n \in {0, 1, 2, 3, 4} \/ (n >= 5 /\ n < 5 + KernelTables) \/ n = 5 + KernelTables
       \/ n = 6 + KernelTables
  BY <1>0, Numbers
<1> HIDE DEF r
<1> QED
  BY <1>10, <1>11, <1>12, <1>13, <1>14, <1>15, <1>16, <1>17, <1>18 DEF r

\* ... by a boundary and a page for the first directory of lol(), and by a page
\* for every request from then on, ...
LEMMA LimitLater ==
  ASSUME NEW n \in Nat, n >= Len(Startup)
  PROVE  /\ n = Len(Startup) => Limit(n + 1) = Limit(n) + 2 * PAGE
         /\ n > Len(Startup) => Limit(n + 1) = Limit(n) + PAGE
<1>0. n >= 7 + KernelTables /\ (n = Len(Startup) <=> n = 7 + KernelTables)
  BY StartupShape
<1>1. Sizes(n) \in Nat /\ Pages(n) \in Nat /\ Sizes(n + 1) = Sizes(n)
  <2>1. Sizes(n + 1) = Sizes(n)
    BY <1>0, Numbers DEF Sizes
  <2> QED
    BY <2>1, LimitType
<1>2. PICK p \in Int : /\ p = Pages(n) * PAGE /\ (Pages(n) + 1) * PAGE = p + PAGE
                       /\ (Pages(n) + 2) * PAGE = p + 2 * PAGE
  <2>1. Pages(n) \in Int
    BY <1>1
  <2> QED
    BY <2>1, PagesTimes, Zenon
<1>3. CASE n = 7 + KernelTables
  <2>1. Pages(n + 1) = Pages(n) + 2
    BY <1>3, Numbers DEF Pages
  <2>2. Limit(n) = START + Sizes(n) + p /\ Limit(n + 1) = START + Sizes(n) + (p + 2 * PAGE)
    BY <1>1, <1>2, <2>1 DEF Limit
  <2> QED
    BY <1>0, <1>1, <1>3, <2>2, Numbers
<1>4. CASE n > 7 + KernelTables
  <2>1. Pages(n + 1) = Pages(n) + 1
    BY <1>4, Numbers DEF Pages
  <2>2. Limit(n) = START + Sizes(n) + p /\ Limit(n + 1) = START + Sizes(n) + (p + PAGE)
    BY <1>1, <1>2, <2>1 DEF Limit
  <2> QED
    BY <1>0, <1>1, <1>4, <2>2, Numbers
<1> QED
  BY <1>0, <1>3, <1>4, Numbers

\* ... and all that is ever asked for fits.
LEMMA LimitFits ==
  ASSUME NEW n \in Nat
  PROVE  /\ n <= Len(Startup) => Limit(n) + PAGE <= KERNEL_MEM_END
         /\ n <= KernelRequests + NProcs * MaxTables => Limit(n) <= KERNEL_MEM_END
<1> DEFINE m == NProcs * (1 + KernelTables + MaxTables)
           all == StackSize + IdtSize + FaultsSize + FramesSize + ProcArrSize
<1>0. m \in Nat /\ KernelRequests + NProcs * MaxTables = 7 + KernelTables + m
  <2>1. NProcs * (1 + KernelTables) \in Nat /\ NProcs * MaxTables \in Nat
    BY Numbers
  <2>2. m = NProcs * (1 + KernelTables) + NProcs * MaxTables
    BY Numbers
  <2> QED
    BY <2>1, <2>2, StartupShape, Numbers DEF KernelRequests, Created, PerProcess
<1>1. START + all + (6 + 2 * KernelTables + m) * PAGE <= KERNEL_MEM_END
  BY RoomAssumption, Numbers DEF RoomAssumption
<1>2. Sizes(n) <= all /\ Sizes(n) \in Nat /\ Pages(n) \in Nat
  BY LimitType, Numbers DEF Sizes
<1> HIDE DEF m
<1>3. PICK q \in Int : /\ q = (6 + 2 * KernelTables + m) * PAGE
  BY <1>0, Numbers
<1>4. CASE n <= 7 + KernelTables
  <2>1. Pages(n) + 1 <= 6 + 2 * KernelTables + m
    BY <1>0, <1>4, Numbers DEF Pages
  <2>2. (Pages(n) + 1) * PAGE <= q
    BY <1>0, <1>2, <1>3, <2>1, PagesTimes, Numbers
  <2>3. PICK p \in Int : p = Pages(n) * PAGE /\ (Pages(n) + 1) * PAGE = p + PAGE
    BY <1>2, PagesTimes
  <2>4. Limit(n) = START + Sizes(n) + p
    BY <2>3 DEF Limit
  <2>5. Limit(n) + PAGE <= KERNEL_MEM_END
    BY <1>1, <1>2, <1>3, <2>2, <2>3, <2>4, Numbers
  <2>6. Limit(n) <= KERNEL_MEM_END
    BY <2>5, LimitType, Numbers
  <2> QED
    BY <2>5, <2>6
<1>5. CASE n > 7 + KernelTables
  <2>1. ~(n <= Len(Startup))
    BY <1>5, StartupShape, Numbers
  <2>2. ASSUME n <= 7 + KernelTables + m PROVE Limit(n) <= KERNEL_MEM_END
    <3>1. Pages(n) <= 6 + 2 * KernelTables + m
      BY <1>0, <1>5, <2>2, Numbers DEF Pages
    <3>2. Pages(n) * PAGE <= q /\ Pages(n) * PAGE \in Int
      BY <1>0, <1>2, <1>3, <3>1, PagesTimes, Numbers
    <3>3. PICK p \in Int : p = Pages(n) * PAGE
      BY <3>2
    <3> QED
      BY <1>1, <1>2, <1>3, <3>2, <3>3, Numbers DEF Limit
  <2> QED
    BY <1>0, <2>1, <2>2
<1> QED
  BY <1>4, <1>5, Numbers


LEMMA QuotaType ==
  /\ KernelRequests \in Nat /\ NProcs * MaxTables \in Nat
  /\ \A t \in Threads : Quota(t) \in Nat
<1>1. NProcs * MaxTables \in Nat /\ NProcs * (1 + KernelTables) \in Nat
  BY Numbers
<1>2. KernelRequests \in Nat
  BY <1>1, StartupShape, Numbers DEF KernelRequests, Created, PerProcess
<1> QED
  BY <1>1, <1>2, Numbers DEF Quota

\* There are as many requests as the callers make.
LEMMA ServedBound ==
  ASSUME Typed, InQuota, IsFiniteSet(Served)
  PROVE  Count \in Nat /\ Count <= KernelRequests + NProcs * MaxTables
<1> DEFINE A == {Kernel} \X (1 .. KernelRequests)
           B == Procs \X (1 .. MaxTables)
<1>1. Served \subseteq A \cup B
  <2> SUFFICES ASSUME NEW t \in Threads, NEW i \in Nat, i \in 1 .. done[t]
               PROVE  <<t, i>> \in A \cup B
    BY DEF Served
  <2>1. done[t] \in Nat /\ done[t] <= Quota(t) /\ Quota(t) \in Nat
    BY QuotaType DEF Typed, InQuota
  <2>2. i \in 1 .. Quota(t)
    BY <2>1
  <2> QED
    BY <2>2 DEF Quota, Threads
<1>2. IsFiniteSet(A) /\ Cardinality(A) = KernelRequests
  <2>1. IsFiniteSet({Kernel}) /\ Cardinality({Kernel}) = 1
    BY FS_Singleton
  <2>2. KernelRequests \in Nat
    BY QuotaType
  <2>3. IsFiniteSet(1 .. KernelRequests) /\ Cardinality(1 .. KernelRequests) = KernelRequests
    <3>1. /\ IsFiniteSet(1 .. KernelRequests)
          /\ Cardinality(1 .. KernelRequests) =
                IF 1 > KernelRequests THEN 0 ELSE KernelRequests - 1 + 1
      BY <2>2, FS_Interval
    <3> QED
      BY <2>2, <3>1
  <2> DEFINE Single == {Kernel}
             Indices == 1 .. KernelRequests
  <2>4. IsFiniteSet(Single) /\ IsFiniteSet(Indices) /\ A = Single \X Indices
    BY <2>1, <2>3, Zenon
  <2>5. Cardinality(Single) = 1 /\ Cardinality(Indices) = KernelRequests
    BY <2>1, <2>3, Zenon
  <2> HIDE DEF A, Single, Indices
  <2>6. IsFiniteSet(A) /\ Cardinality(A) = Cardinality(Single) * Cardinality(Indices)
    BY <2>4, FS_Product, Zenon
  <2> QED
    BY <2>2, <2>5, <2>6
<1>3. IsFiniteSet(B) /\ Cardinality(B) = NProcs * MaxTables
  <2>1. IsFiniteSet(Procs) /\ Cardinality(Procs) = NProcs
    BY FS_Interval, Numbers DEF Procs
  <2>2. IsFiniteSet(1 .. MaxTables) /\ Cardinality(1 .. MaxTables) = MaxTables
    BY FS_Interval, Numbers
  <2> QED
    BY <2>1, <2>2, FS_Product
<1> HIDE DEF A, B
<1>4. /\ IsFiniteSet(A \cup B)
      /\ Cardinality(A \cup B) = Cardinality(A) + Cardinality(B) - Cardinality(A \cap B)
  BY <1>2, <1>3, FS_Union
<1>5. Cardinality(A \cap B) \in Nat
  BY <1>2, FS_Intersection, FS_CardinalityType
<1>6. Cardinality(Served) <= Cardinality(A \cup B) /\ Cardinality(Served) \in Nat
  BY <1>1, <1>4, FS_Subset, FS_CardinalityType
<1>7. PICK a, b, c, d \in Int : /\ a = KernelRequests /\ b = NProcs * MaxTables
                                /\ c = Cardinality(A \cap B) /\ d = Cardinality(A \cup B)
                                /\ c >= 0 /\ d = a + b - c
  BY <1>2, <1>3, <1>4, <1>5, QuotaType
<1> QED
  BY <1>6, <1>7 DEF Count

LEMMA ServedSame ==
  ASSUME done' = done
  PROVE  Served' = Served /\ Count' = Count
BY DEF Served, Count

\* Return serves one.
LEMMA ServedStep ==
  ASSUME Typed, NEW t \in Threads, done' = [done EXCEPT ![t] = @ + 1], IsFiniteSet(Served)
  PROVE  IsFiniteSet(Served)' /\ Count' = Count + 1
<1> DEFINE x == <<t, done[t] + 1>>
<1>1. done[t] \in Nat /\ done'[t] = done[t] + 1 /\ \A u \in Threads : u # t => done'[u] = done[u]
  BY DEF Typed
<1>2. x \notin Served
  BY <1>1 DEF Served
<1>3. Served' = Served \cup {x}
  <2>1. ASSUME NEW u \in Threads, NEW i \in Nat
        PROVE  i \in 1 .. done'[u] <=> i \in 1 .. done[u] \/ <<u, i>> = x
    <3>1. CASE u = t
      BY <1>1, <3>1
    <3>2. CASE u # t
      BY <1>1, <3>2
    <3> QED
      BY <3>1, <3>2
  <2>2. x \in Threads \X Nat
    BY <1>1
  <2> HIDE DEF x
  <2>3. Served' = {y \in Threads \X Nat : y[2] \in 1 .. done'[y[1]]}
    BY DEF Served
  <2> QED
    BY <2>1, <2>2, <2>3 DEF Served
<1> HIDE DEF x
<1>4. IsFiniteSet(Served \cup {x}) /\ Cardinality(Served \cup {x}) = Cardinality(Served) + 1
  BY <1>2, FS_AddElement
<1> QED
  BY <1>3, <1>4 DEF Count

-----------------------------------------------------------------------------
(* The search for a boundary                                               *)

LEMMA BoundedBelow ==
  ASSUME NEW a \in Nat, NEW l \in Nat, a <= l
  PROVE  Bounded(a, l + PAGE)
<1> DEFINE n == l + PAGE - 1
           k == n \div PAGE
           r == n % PAGE
<1>0. PAGE \in Nat /\ PAGE > 0
  BY Numbers
<1>1. n \in Nat
  BY <1>0
<1> HIDE DEF n
<1>2. k \in Nat /\ r \in 0 .. PAGE - 1 /\ n = PAGE * k + r
  BY <1>0, <1>1
<1> HIDE DEF k, r
<1>3. PICK p \in Int : p = k * PAGE /\ p = PAGE * k
  BY <1>0, <1>2
<1>4. a <= p /\ p < l + PAGE
  BY <1>0, <1>2, <1>3 DEF n
<1> QED
  BY <1>2, <1>3, <1>4 DEF Bounded

LEMMA BoundedNext ==
  ASSUME NEW a \in Nat, NEW m \in Nat, Bounded(a, m), ~Aligned(a)
  PROVE  Bounded(a + 1, m)
<1>1. PICK k \in Nat : a <= k * PAGE /\ k * PAGE < m
  BY DEF Bounded
<1>2. k * PAGE \in Nat /\ k <= k * PAGE
  BY Numbers
<1>3. a # k * PAGE
  BY <1>2 DEF Aligned
<1>4. a + 1 <= k * PAGE
  BY <1>1, <1>2, <1>3
<1> QED
  BY <1>1, <1>4 DEF Bounded

LEMMA BoundedLess ==
  ASSUME NEW a \in Nat, NEW m \in Nat, Bounded(a, m)
  PROVE  a < m
<1>1. PICK k \in Nat : a <= k * PAGE /\ k * PAGE < m
  BY DEF Bounded
<1>2. k * PAGE \in Nat
  BY Numbers
<1> QED
  BY <1>1, <1>2

LEMMA RoomPlace ==
  ASSUME Typed, RoomInv
  PROVE  /\ Count \in Nat /\ Limit(Count) \in Nat
         /\ place_addr \in START .. KERNEL_MEM_END
         /\ ~Started => Limit(Count) + PAGE <= KERNEL_MEM_END
<1>1. /\ Count \in Nat /\ Count <= KernelRequests + NProcs * MaxTables
  BY ServedBound DEF RoomInv
<1>2. Limit(Count) \in Nat /\ Limit(Count) <= KERNEL_MEM_END
  BY <1>1, LimitType, LimitFits
<1>3. place_addr \in Nat /\ place_addr >= START
  BY DEF Typed, RoomInv, InRoom
<1>4. CASE Started
  <2>1. place_addr <= Limit(Count)
    BY <1>4 DEF RoomInv, RoomLate
  <2> QED
    BY <1>1, <1>2, <1>3, <1>4, <2>1, Numbers
<1>5. CASE ~Started
  <2>1. RoomEarly
    BY <1>5 DEF RoomInv
  <2>2. Count <= Len(Startup)
    BY <1>1, <1>5, <2>1, StartupCareful DEF RoomEarly, Started
  <2>3. Limit(Count) + PAGE <= KERNEL_MEM_END
    BY <1>1, <2>2, LimitFits
  <2>4. place_addr <= Limit(Count) \/ Bounded(place_addr, Limit(Count) + PAGE)
    BY <2>1 DEF RoomEarly
  <2>5. Limit(Count) + PAGE \in Nat
    BY <1>2, Numbers
  <2>6. place_addr <= Limit(Count) \/ place_addr < Limit(Count) + PAGE
    BY <1>3, <2>4, <2>5, BoundedLess
  <2>7. place_addr <= KERNEL_MEM_END
    BY <1>2, <1>3, <2>3, <2>6, Numbers
  <2> QED
    BY <1>1, <1>2, <1>3, <2>3, <2>7, Numbers
<1> QED
  BY <1>4, <1>5


-----------------------------------------------------------------------------
(* The steps                                                               *)

LEMMA RoomInit == Init => RoomInv
<1> SUFFICES ASSUME Init PROVE RoomInv
  OBVIOUS
<1>1. \A t \in Threads : done[t] = 0 /\ pc[t] = "idle" /\ toRet[t] = 0 /\ reg[t] = 0
  BY DEF Init
<1>2. Served = {}
  BY <1>1 DEF Served
<1>3. IsFiniteSet(Served) /\ Count = 0
  BY <1>2, FS_EmptySet DEF Count
<1>4. InQuota
  BY <1>1, QuotaType DEF InQuota
<1>5. ~Started
  BY <1>1, StartupCareful, KernelNoProc DEF Started
<1>6. Limit(0) \in Nat /\ Limit(0) >= START
  BY LimitType, Numbers DEF Limit
<1>7. place_addr <= Limit(0) /\ place_addr >= START
  BY <1>6, Numbers DEF Init
<1>8. RoomEarly
  BY <1>1, <1>3, <1>7, KernelNoProc DEF RoomEarly
<1>9. InRoom
  BY <1>1, <1>7, Numbers DEF InRoom
<1> QED
  BY <1>3, <1>4, <1>5, <1>8, <1>9 DEF RoomInv

LEMMA RoomAsk ==
  ASSUME Typed, RoomInv, NEW t \in Threads, NEW r, Ask(t, r), done[t] < Quota(t),
         t = Kernel => r = KernelRequest, t # Kernel => Started
  PROVE  RoomInv'
<1>0. /\ pc[t] = "idle" /\ pc' = [pc EXCEPT ![t] = "test"]
      /\ request' = [request EXCEPT ![t] = r]
      /\ UNCHANGED <<place_addr, toRet, reg, done>>
  BY DEF Ask
<1>1. Served' = Served /\ Count' = Count /\ Started' = Started /\ KernelRequest' = KernelRequest
  BY <1>0, ServedSame DEF Started, KernelRequest
<1>2. InQuota'
  BY <1>0 DEF RoomInv, InQuota, Quota, Typed
<1>3. InRoom'
  BY <1>0 DEF RoomInv, InRoom, Typed
<1>4. ASSUME ~Started PROVE RoomEarly'
  <2>1. t = Kernel /\ RoomEarly
    BY <1>4 DEF RoomInv
  <2>2. /\ Count = done[Kernel] /\ place_addr <= Limit(Count)
        /\ place_addr \in Nat /\ Limit(Count) \in Nat
    BY <1>0, <2>1, RoomPlace DEF RoomEarly, Typed
  <2>3. Bounded(place_addr, Limit(Count) + PAGE)
    BY <2>2, BoundedBelow
  <2>4. pc'[Kernel] = "test" /\ request'[Kernel] = KernelRequest
    BY <1>0, <2>1 DEF Typed
  <2>5. Limit(Count)' = Limit(Count) /\ Bounded(place_addr, Limit(Count) + PAGE)'
    BY <1>0, <1>1, <2>3
  <2> QED
    BY <1>0, <1>1, <2>2, <2>4, <2>5 DEF RoomEarly
<1>5. ASSUME Started PROVE RoomLate'
  <2>1. RoomLate
    BY <1>5 DEF RoomInv
  <2> QED
    BY <1>0, <1>1, <2>1 DEF RoomLate, Typed
<1> QED
  BY <1>1, <1>2, <1>3, <1>4, <1>5 DEF RoomInv

LEMMA RoomWork ==
  ASSUME Typed, AlignInv, RoomInv, NEW t \in Threads,
         Test(t) \/ Load(t) \/ Increment(t) \/ Take(t)
  PROVE  RoomInv'
<1>0. pc[t] # "idle" /\ UNCHANGED <<done, blocks, request>>
  BY DEF Test, Load, Increment, Take, Step
<1>1. Served' = Served /\ Count' = Count /\ Started' = Started /\ KernelRequest' = KernelRequest
  BY <1>0, ServedSame DEF Started, KernelRequest
<1>2. InQuota'
  BY <1>0 DEF Test, Load, Increment, Take, Step, RoomInv, InQuota, Quota, Typed
<1>3. place_addr \in START .. KERNEL_MEM_END /\ place_addr \in Nat
  BY RoomPlace DEF Typed
<1>4. InRoom'
  <2>1. InRoom /\ START \in Nat /\ KERNEL_MEM_END \in Nat
    BY Numbers DEF RoomInv
  <2>2. CASE Test(t)
    BY <2>1, <2>2 DEF Test, Step, InRoom, Typed
  <2>3. CASE Load(t)
    BY <1>3, <2>1, <2>3 DEF Load, Step, InRoom, Typed
  <2>4. CASE Increment(t)
    BY <1>3, <2>1, <2>4 DEF Increment, Step, InRoom, Typed
  <2>5. CASE Take(t)
    BY <1>3, <2>1, <2>5 DEF Take, Step, InRoom, Typed
  <2> QED
    BY <2>2, <2>3, <2>4, <2>5
<1>5. ASSUME ~Started PROVE RoomEarly'
  <2>1. t = Kernel /\ RoomEarly /\ Early
    BY <1>0, <1>5 DEF RoomInv, AlignInv, Early, Threads
  <2>2. /\ Count = done[Kernel] /\ request[Kernel] = KernelRequest /\ Limit(Count) \in Nat
        /\ ~request[Kernel].align => place_addr <= Limit(Count)
        /\ request[Kernel].align => Bounded(place_addr, Limit(Count) + PAGE)
    BY <1>0, <2>1, RoomPlace DEF RoomEarly
  <2>3. pc'[Kernel] # "idle" /\ Count' = done'[Kernel] /\ request'[Kernel] = KernelRequest'
    BY <1>0, <1>1, <2>1, <2>2 DEF Test, Load, Increment, Take, Step, Typed
  <2>4. CASE Increment(t)
    <3>1. pc[Kernel] = "store" /\ pc'[Kernel] = "test" /\ place_addr' = reg[Kernel] + 1
      BY <2>1, <2>4 DEF Increment, Step, Typed
    <3>2. reg[Kernel] = place_addr /\ request[Kernel].align /\ ~Aligned(place_addr)
      BY <2>1, <3>1 DEF RoomEarly
    <3>3. Limit(Count) + PAGE \in Nat
      BY <2>2, Numbers
    <3>4. Bounded(place_addr + 1, Limit(Count) + PAGE)
      BY <1>3, <2>2, <3>2, <3>3, BoundedNext
    <3>5. Bounded(place_addr, Limit(Count) + PAGE)'
      BY <1>1, <3>1, <3>2, <3>4
    <3> QED
      BY <1>0, <2>3, <3>1, <3>2, <3>5 DEF RoomEarly
  <2>5. CASE ~Increment(t)
    <3>1. place_addr' = place_addr
      BY <2>5 DEF Test, Load, Take
    <3>2. Limit(Count)' = Limit(Count) /\ Aligned(place_addr)' = Aligned(place_addr)
      BY <1>1, <3>1 DEF Aligned
    <3>3. /\ ~request'[Kernel].align => place_addr' <= Limit(Count)'
          /\ request'[Kernel].align => Bounded(place_addr, Limit(Count) + PAGE)'
      BY <1>0, <1>1, <2>2, <3>1, <3>2
    <3>4. pc'[Kernel] \in {"load", "store"} => request[Kernel].align /\ ~Aligned(place_addr)
      BY <2>1, <2>5 DEF Test, Load, Take, Step, MustAlign, RoomEarly, Typed
    <3>5. pc'[Kernel] = "store" => reg'[Kernel] = place_addr
      BY <2>1, <2>5 DEF Test, Load, Take, Step, Typed
    <3> QED
      BY <1>0, <2>3, <3>1, <3>2, <3>3, <3>4, <3>5 DEF RoomEarly
  <2> QED
    BY <2>4, <2>5
<1>6. ASSUME Started PROVE RoomLate'
  <2>1. RoomLate /\ Late
    BY <1>6 DEF RoomInv, AlignInv
  <2>2. ~Increment(t)
    BY <2>1 DEF Late, Increment, Step
  <2>3. place_addr' = place_addr
    BY <2>2 DEF Test, Load, Take
  <2>4. \A u \in Threads : pc'[u] = "write" =>
          reg'[u] = place_addr \/ (pc[u] = "write" /\ reg'[u] = reg[u])
    BY <2>2 DEF Test, Load, Take, Step, Typed
  <2> QED
    BY <1>1, <2>1, <2>3, <2>4 DEF RoomLate
<1> QED
  BY <1>1, <1>2, <1>4, <1>5, <1>6 DEF RoomInv

LEMMA RoomReturn ==
  ASSUME Typed, AlignInv, RoomInv, NEW t \in Threads, Return(t)
  PROVE  RoomInv'
<1>0. /\ pc[t] = "write" /\ pc' = [pc EXCEPT ![t] = "idle"]
      /\ place_addr' = reg[t] + request[t].size
      /\ done' = [done EXCEPT ![t] = @ + 1]
      /\ UNCHANGED <<toRet, reg, request>>
  BY DEF Return, Step, Raised
<1>1. IsFiniteSet(Served)' /\ Count' = Count + 1
  BY <1>0, ServedStep DEF RoomInv
<1>2. /\ Count \in Nat /\ Limit(Count) \in Nat
  BY RoomPlace
<1>3. PICK n \in Nat : n = Count /\ Limit(n) \in Nat /\ Limit(n + 1) \in Nat /\ Count' = n + 1
  <2>1. Count + 1 \in Nat
    BY <1>2
  <2> QED
    BY <1>1, <1>2, <2>1, LimitType
<1>4. PICK z \in Nat : z = request[t].size
  BY DEF Typed, Requests
<1>5. reg[t] \in Nat /\ reg[t] >= START
  BY <1>0 DEF RoomInv, InRoom, Typed
<1>6. InQuota'
  <2>1. \A u \in Threads : done[u] \in Nat /\ Quota(u) \in Nat
    BY QuotaType DEF Typed
  <2>2. \A u \in Threads : Quota(u)' = Quota(u)
    BY DEF Quota
  <2>3. done[t] < Quota(t) /\ done'[t] = done[t] + 1 /\ pc'[t] = "idle"
    BY <1>0 DEF RoomInv, InQuota, Typed
  <2>4. \A u \in Threads : u # t => done'[u] = done[u] /\ pc'[u] = pc[u]
    BY <1>0 DEF Typed
  <2> QED
    BY <2>1, <2>2, <2>3, <2>4 DEF RoomInv, InQuota
<1>7. InRoom'
  <2>1. place_addr' >= START
    BY <1>0, <1>4, <1>5, Numbers
  <2>2. \A u \in Threads : pc'[u] \in {"store", "write"} => pc[u] = pc'[u]
    BY <1>0 DEF Typed
  <2> QED
    BY <1>0, <2>1, <2>2 DEF RoomInv, InRoom
<1>8. CASE Started
  <2>1. /\ RoomLate /\ request[t].size = PAGE
    BY <1>0, <1>8 DEF RoomInv, AlignInv, Late
  <2>2. /\ n > Len(Startup) /\ reg[t] <= Limit(n)
        /\ \A u \in Threads : pc[u] = "write" => reg[u] <= Limit(n)
    BY <1>0, <1>3, <2>1 DEF RoomLate
  <2>3. Limit(n + 1) = Limit(n) + PAGE
    BY <2>2, LimitLater, StartupCareful
  <2>4. place_addr' <= Limit(n + 1)
    BY <1>0, <1>3, <1>5, <2>1, <2>2, <2>3, Numbers
  <2>5. \A u \in Threads : pc'[u] = "write" => pc[u] = "write" /\ reg'[u] = reg[u]
    BY <1>0 DEF Typed
  <2>6. \A u \in Threads : pc'[u] = "write" => reg'[u] <= Limit(n + 1)
    <3>1. \A u \in Threads : reg[u] \in Nat
      BY DEF Typed
    <3> QED
      BY <1>3, <2>2, <2>3, <2>5, <3>1, Numbers
  <2>7. Count' > Len(Startup)
    BY <1>3, <2>2, StartupCareful
  <2>8. RoomLate'
    BY <1>3, <2>4, <2>6, <2>7 DEF RoomLate
  <2>9. Started'
    BY <1>0, <1>8, StartupCareful, KernelNoProc DEF Started, Typed
  <2> QED
    BY <1>1, <1>6, <1>7, <2>8, <2>9 DEF RoomInv
<1>9. CASE ~Started
  <2>1. Early /\ RoomEarly /\ t = Kernel
    BY <1>0, <1>9 DEF RoomInv, AlignInv, Early, Threads
  <2>2. /\ reg[t] = place_addr /\ n = done[Kernel] /\ request[t] = KernelRequest
        /\ n <= Len(Startup) /\ done'[Kernel] = n + 1
    BY <1>0, <1>3, <1>9, <2>1, StartupCareful, KernelNoProc
       DEF Early, RoomEarly, Started, Typed
  <2>3. /\ ~request[t].align => reg[t] <= Limit(n)
        /\ request[t].align => Bounded(reg[t], Limit(n) + PAGE)
    BY <1>0, <1>3, <2>1, <2>2 DEF RoomEarly
  <2>4. /\ request[t].align => reg[t] <= Limit(n) + PAGE
    <3>1. Limit(n) + PAGE \in Nat
      BY <1>3, Numbers
    <3>2. request[t].align => reg[t] < Limit(n) + PAGE
      BY <1>5, <2>3, <3>1, BoundedLess
    <3> QED
      BY <1>5, <3>1, <3>2
  <2>5. place_addr' = reg[t] + z /\ \A u \in Threads : pc'[u] = "idle"
    BY <1>0, <1>4, <2>1 DEF Early, Threads, Typed
  <2>6. CASE n < Len(Startup)
    <3>1. request[t] = Startup[n + 1]
      BY <2>2, <2>6 DEF KernelRequest
    <3>2. /\ Limit(n) + z <= Limit(n + 1)
          /\ request[t].align => Limit(n) + PAGE + z <= Limit(n + 1)
      BY <1>4, <2>6, <3>1, LimitStartup
    <3>3. place_addr' <= Limit(n + 1)
      <4>1. CASE request[t].align
        <5>1. reg[t] <= Limit(n) + PAGE /\ Limit(n) + PAGE + z <= Limit(n + 1)
          BY <2>4, <3>2, <4>1
        <5> QED
          BY <1>3, <1>5, <2>5, <5>1, Numbers
      <4>2. CASE ~request[t].align
        <5>1. reg[t] <= Limit(n) /\ Limit(n) + z <= Limit(n + 1)
          BY <2>3, <3>2, <4>2
        <5> QED
          BY <1>3, <1>5, <2>5, <5>1, Numbers
      <4> QED
        BY <4>1, <4>2
    <3>4. RoomEarly'
      BY <1>3, <2>2, <2>5, <3>3, KernelNoProc DEF RoomEarly
    <3>5. ~Started'
      BY <2>2, <2>6, StartupCareful DEF Started
    <3> QED
      BY <1>1, <1>6, <1>7, <3>4, <3>5 DEF RoomInv
  <2>7. CASE n = Len(Startup)
    <3>1. request[t].align /\ z = PAGE
      BY <1>0, <1>4, <2>1, <2>2, <2>7, StartupCareful DEF AlignInv, KernelIsCareful
    <3>2. Limit(n + 1) = Limit(n) + 2 * PAGE
      BY <2>7, LimitLater, StartupCareful
    <3>3. reg[t] <= Limit(n) + PAGE
      BY <2>4, <3>1
    <3>4. place_addr' <= Limit(n + 1)
      BY <1>3, <1>5, <2>5, <3>1, <3>2, <3>3, Numbers
    <3>5. Count' > Len(Startup) /\ Started'
      BY <1>3, <2>2, <2>7, StartupCareful DEF Started
    <3>6. RoomLate'
      BY <1>3, <2>5, <3>4, <3>5 DEF RoomLate
    <3> QED
      BY <1>1, <1>6, <1>7, <3>5, <3>6 DEF RoomInv
  <2> QED
    BY <2>2, <2>6, <2>7, StartupCareful
<1> QED
  BY <1>8, <1>9

LEMMA RoomStep == Typed /\ AlignInv /\ RoomInv /\ [Next]_vars => RoomInv'
<1> SUFFICES ASSUME Typed, AlignInv, RoomInv, [Next]_vars PROVE RoomInv'
  OBVIOUS
<1>1. CASE KernelAsks
  <2>1. Kernel \in Threads /\ done[Kernel] < Quota(Kernel)
    BY <1>1, KernelNoProc DEF KernelAsks, Quota
  <2> QED
    BY <1>1, <2>1, RoomAsk DEF KernelAsks
<1>2. ASSUME NEW p \in Procs, ProcAsks(p)
      PROVE  RoomInv'
  <2>1. Started /\ p \in Threads /\ p # Kernel
    BY <1>2, CreatedLater, StartupCareful, KernelNoProc DEF ProcAsks, Started, Typed
  <2>2. done[p] < Quota(p)
    BY <1>2, <2>1 DEF ProcAsks, Quota
  <2>3. PICK r : Ask(p, r)
    BY <1>2 DEF ProcAsks
  <2> QED
    BY <2>1, <2>2, <2>3, RoomAsk
<1>3. ASSUME NEW t \in Threads, Test(t) \/ Load(t) \/ Increment(t) \/ Take(t)
      PROVE  RoomInv'
  BY <1>3, RoomWork
<1>4. ASSUME NEW t \in Threads, Return(t)
      PROVE  RoomInv'
  BY <1>4, RoomReturn
<1>5. CASE UNCHANGED vars
  <2>1. /\ UNCHANGED <<place_addr, pc, request, toRet, reg, done>>
    BY <1>5 DEF vars
  <2>2. Served' = Served /\ Count' = Count /\ Started' = Started /\ KernelRequest' = KernelRequest
    BY <2>1, ServedSame DEF Started, KernelRequest
  <2>3. InQuota' /\ InRoom'
    BY <2>1 DEF RoomInv, InQuota, Quota, InRoom
  <2>4. RoomEarly => RoomEarly'
    BY <2>1, <2>2 DEF RoomEarly, Aligned
  <2>5. RoomLate => RoomLate'
    BY <2>1, <2>2 DEF RoomLate
  <2> QED
    BY <2>2, <2>3, <2>4, <2>5 DEF RoomInv
<1> QED
  BY <1>1, <1>2, <1>3, <1>4, <1>5 DEF Next, Finished

\* kmalloc_all, which does not look at the end of its memory, hands out nothing
\* behind KERNEL_MEM_END when what main(), lol() and the processes ask for
\* fits with a page for every boundary: stores that are lost and searches for
\* a boundary that are interrupted never take more.
THEOREM KernelHeapFits == Spec => []TypeOK
<1>1. Init => Typed /\ AlignInv /\ RoomInv
  BY TypedInit, AlignInit, RoomInit
<1>2. Typed /\ AlignInv /\ RoomInv /\ [Next]_vars => (Typed /\ AlignInv /\ RoomInv)'
  BY TypedStep, AlignStep, RoomStep
<1>3. Typed /\ RoomInv => TypeOK
  <2> SUFFICES ASSUME Typed, RoomInv PROVE TypeOK
    OBVIOUS
  <2>1. place_addr \in START .. KERNEL_MEM_END
    BY RoomPlace
  <2>2. toRet \in [Threads -> 0 .. KERNEL_MEM_END] /\ reg \in [Threads -> 0 .. KERNEL_MEM_END]
    BY Numbers DEF Typed, RoomInv, InRoom
  <2>3. \A t \in Threads : done[t] \in 0 .. KernelRequests + MaxTables
    <3> SUFFICES ASSUME NEW t \in Threads PROVE done[t] \in 0 .. KernelRequests + MaxTables
      OBVIOUS
    <3>1. done[t] \in Nat /\ done[t] <= Quota(t)
      BY DEF Typed, RoomInv, InQuota
    <3>2. Quota(t) = KernelRequests \/ Quota(t) = MaxTables
      BY DEF Quota
    <3> QED
      BY <3>1, <3>2, QuotaType, Numbers
  <2>4. done \in [Threads -> 0 .. KernelRequests + MaxTables]
    BY <2>3 DEF Typed
  <2>5. \A t \in Threads : request[t] \in Requests
    BY DEF Typed
  <2>6. preempted \in BOOLEAN /\ pc \in [Threads -> Places]
    BY DEF Typed
  <2> QED
    BY <2>1, <2>2, <2>4, <2>5, <2>6 DEF TypeOK, Places
<1> QED
  BY <1>1, <1>2, <1>3, PTL DEF Spec
=============================================================================
