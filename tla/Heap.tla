-------------------------------- MODULE Heap --------------------------------
(***************************************************************************)
(* The heap of one process (heap.c): first-fit malloc over a list of       *)
(* blocks that is walked by size, growth by a page, free, and the pass     *)
(* that unites neighbouring free blocks.                                   *)
(*                                                                         *)
(* A process only uses its own heap, so nothing runs between two steps of  *)
(* malloc or free; the loops are still taken one iteration at a time,      *)
(* because whether they end, and where, is the question.                   *)
(*                                                                         *)
(* Addresses are offsets from heap_stack_boundary, which is the start of a *)
(* page: a difference of addresses and the rest modulo PAGE_SIZE are those *)
(* of the code.  hdr holds the block headers that lie in memory; what lies *)
(* between them is not modelled.  Sizes and addresses are unsigned words.  *)
(***************************************************************************)
EXTENDS Integers

CONSTANTS
  HDR,        \* sizeof(block): 6
  PAGE_SIZE,  \* 0x1000
  WORD,       \* 2^32
  MaxPages,   \* the pages that alloc_page finds frames for
  Requests,   \* the sizes that malloc is called with
  Aligns      \* the values of malloc's align argument

HeapLimit == MaxPages * PAGE_SIZE

ASSUME HeapAssumption ==
  /\ HDR \in Nat \ {0}
  /\ PAGE_SIZE \in Nat /\ PAGE_SIZE > HDR
  /\ MaxPages \in Nat \ {0}
  /\ HeapLimit \in Nat /\ HeapLimit >= PAGE_SIZE
  /\ WORD \in Nat /\ WORD > HeapLimit
  /\ WORD % PAGE_SIZE = 0
  /\ Requests \subseteq 1 .. WORD - 1
  /\ Aligns \subseteq BOOLEAN

VARIABLES
  hdr,        \* offset of a block -> [is_free, size]
  heap_size,  \* proc->heap_size
  pc,         \* where the process is in heap.c; "idle" is outside
  bytes,      \* malloc's arguments
  align,
  i,          \* the index of the loop that is running
  prev,       \* prev_info of unite_free_blocks
  ret,        \* who called unite_free_blocks
  allocs      \* history: pointer -> the size asked for, until freed

loopVars == <<i, prev, ret>>
argVars == <<bytes, align>>
vars == <<hdr, heap_size, pc, argVars, loopVars, allocs>>

-----------------------------------------------------------------------------
(* Unsigned arithmetic and the headers                                     *)

Sub(x, y) == IF x >= y THEN x - y ELSE x - y + WORD
Wrap(x) == IF x < WORD THEN x ELSE x - WORD

Header == [is_free : BOOLEAN, size : 0 .. WORD - 1]

\* The offset behind block b
BehindIn(h, b) == b + HDR + h[b].size
After(b) == BehindIn(hdr, b)

\* A header is written: what it overlaps is no header any more
Write(h, b, is_free, size) ==
  [c \in {c \in DOMAIN h : c + HDR <= b \/ b + HDR <= c} \cup {b} |->
     IF c = b THEN [is_free |-> is_free, size |-> size] ELSE h[c]]

\* divide_block's test, negated; info->size - sizeof(block) is unsigned
Divides(size, new_bytes) == new_bytes <= Sub(size, HDR)

\* divide_block, and the is_free its caller gives the new block
DivideBlock(h, b, new_bytes, is_free) ==
  Write([h EXCEPT ![b].size = new_bytes], b + HDR + new_bytes, is_free,
        Sub(Sub(h[b].size, HDR), new_bytes))

-----------------------------------------------------------------------------
(* initialise_heap and the calls of malloc and free                        *)

InitialiseHeap ==
  /\ pc = "start"
  /\ hdr' = Write(hdr, 0, TRUE, Sub(heap_size, HDR))
  /\ pc' = "idle"
  /\ UNCHANGED <<heap_size, argVars, loopVars, allocs>>

\* malloc(n, proc, a); n = 0 returns NULL at once and is not in Requests
Malloc(n, a) ==
  /\ pc = "idle"
  /\ pc' = "scan" /\ i' = 0
  /\ bytes' = n /\ align' = a
  /\ UNCHANGED <<hdr, heap_size, prev, ret, allocs>>

\* The start of unite_free_blocks on the headers h
StartUnite(h, caller) ==
  /\ pc' = "unite" /\ ret' = caller
  /\ prev' = 0 /\ i' = Wrap(h[0].size + HDR)

\* free(proc, p) of a pointer that malloc returned and nobody has freed
Free(p) ==
  /\ pc = "idle"
  /\ hdr' = [hdr EXCEPT ![p - HDR].is_free = TRUE]
  /\ StartUnite(hdr', "free")
  /\ allocs' = [q \in DOMAIN allocs \ {p} |-> allocs[q]]
  /\ UNCHANGED <<heap_size, argVars>>

-----------------------------------------------------------------------------
(* get_free_block                                                          *)

Scanning == pc = "scan" /\ i < heap_size /\ i \in DOMAIN hdr

Fits(b) == hdr[b].is_free /\ hdr[b].size >= bytes

NextBlock ==
  /\ i' = Wrap(After(i))
  /\ UNCHANGED <<hdr, heap_size, pc, argVars, prev, ret, allocs>>

\* Mutant: malloc returns the address of the header.
PointerToHeader(b) == b

\* malloc returns the address behind the header of block b
PointerTo(b) == b + HDR

Return(b) ==
  /\ pc' = "idle"
  /\ allocs' = [p \in DOMAIN allocs \cup {PointerTo(b)} |->
                  IF p = PointerTo(b) THEN bytes ELSE allocs[p]]
  /\ UNCHANGED <<heap_size, argVars, loopVars>>

ScanSkip == Scanning /\ ~Fits(i) /\ NextBlock

\* Mutant: the block is handed out but stays marked as free.
TakeBlockFree(b) ==
  IF Divides(hdr[b].size, bytes) THEN DivideBlock(hdr, b, bytes, TRUE)
  ELSE hdr

\* Mutant: the remainder is not marked as free.
TakeBlockAndRest(b) ==
  LET taken == [hdr EXCEPT ![b].is_free = FALSE]
  IN IF Divides(hdr[b].size, bytes) THEN DivideBlock(taken, b, bytes, FALSE)
     ELSE taken

\* align = 0: the block is taken, and divided if it can be
TakeBlock(b) ==
  LET taken == [hdr EXCEPT ![b].is_free = FALSE]
  IN IF Divides(hdr[b].size, bytes) THEN DivideBlock(taken, b, bytes, TRUE)
     ELSE taken

ScanTake ==
  /\ Scanning /\ Fits(i) /\ ~align
  /\ hdr' = TakeBlock(i)
  /\ Return(i)

\* align = 1: the addresses that the inner loop tries, and the first of them.
\* (The test before the loop compares effective_addr + 6 % 0x1000 with 0 and
\* is never true.)
PageStarts == {a \in 0 .. WORD - 1 : a % PAGE_SIZE = 0}
FirstAligned(b) == Wrap(((b + HDR) \div PAGE_SIZE + 1) * PAGE_SIZE)

\* The loop condition is false at address a
LoopEnds(b, a) == Sub(After(b), a) < bytes

\* The body of the loop returns at address a: what is left of it holds two
\* headers and at least a byte between them
DividesAt(b, a) ==
  /\ Sub(a, b) > 2 * HDR
  /\ Divides(hdr[b].size, Sub(Sub(a, b), 2 * HDR))

Outcomes(b) == {a \in PageStarts : LoopEnds(b, a) \/ DividesAt(b, a)}

\* Where the loop leaves off: it starts at FirstAligned and goes up by a page,
\* round the end of the address space if need be
LoopExits(b) ==
  {a \in Outcomes(b) : \A c \in Outcomes(b) :
     Sub(a, FirstAligned(b)) <= Sub(c, FirstAligned(b))}

\* The headers after a division at address a.  What lies behind the request
\* is cut off by hand, with the values divide_block would give it.
TakeAligned(b, a) ==
  LET h == DivideBlock(hdr, b, Sub(Sub(a, b), 2 * HDR), FALSE)
  IN IF h[a - HDR].size > bytes + HDR
     THEN DivideBlock(h, a - HDR, bytes, TRUE)
     ELSE h

ScanAligned ==
  /\ Scanning /\ Fits(i) /\ align
  /\ \E a \in LoopExits(i) :
       /\ ~LoopEnds(i, a)
       /\ hdr' = TakeAligned(i, a)
       /\ Return(a - HDR)

ScanAlignedSkip ==
  /\ Scanning /\ Fits(i) /\ align
  /\ \E a \in LoopExits(i) : LoopEnds(i, a)
  /\ NextBlock

\* No page start in the whole address space ends the loop
ScanAlignedHang ==
  /\ Scanning /\ Fits(i) /\ align
  /\ Outcomes(i) = {}
  /\ pc' = "hung"
  /\ UNCHANGED <<hdr, heap_size, argVars, loopVars, allocs>>

-----------------------------------------------------------------------------
(* malloc finds no block: alloc_new_page, a header for it, and             *)
(* unite_free_blocks                                                       *)

GetFreeBlockFails == pc = "scan" /\ i >= heap_size

\* Mutant: heap_size is not raised.
GrowNoPage ==
  /\ GetFreeBlockFails
  /\ heap_size + PAGE_SIZE <= HeapLimit
  /\ hdr' = Write(hdr, heap_size, TRUE, PAGE_SIZE - HDR)
  /\ StartUnite(hdr', "malloc")
  /\ UNCHANGED <<heap_size, argVars, allocs>>

Grow ==
  /\ GetFreeBlockFails
  /\ heap_size + PAGE_SIZE <= HeapLimit
  /\ hdr' = Write(hdr, heap_size, TRUE, PAGE_SIZE - HDR)
  /\ heap_size' = heap_size + PAGE_SIZE
  /\ StartUnite(hdr', "malloc")
  /\ UNCHANGED <<argVars, allocs>>

\* "No free frames! System Halted!"
GrowHalts ==
  /\ GetFreeBlockFails
  /\ heap_size + PAGE_SIZE > HeapLimit
  /\ pc' = "halted"
  /\ UNCHANGED <<hdr, heap_size, argVars, loopVars, allocs>>

Uniting == pc = "unite" /\ i < heap_size /\ i \in DOMAIN hdr

\* Mutant: the header of the block that disappears is not added.
UnitedSizeNoHeader(p, b) == hdr[p].size + hdr[b].size

\* prev_info->size += sizeof(block) + info->size
UnitedSize(p, b) == hdr[p].size + HDR + hdr[b].size

UniteMerge ==
  /\ Uniting /\ hdr[i].is_free /\ hdr[prev].is_free
  /\ hdr' = [b \in DOMAIN hdr \ {i} |->
               IF b = prev THEN [hdr[b] EXCEPT !.size = UnitedSize(prev, i)]
               ELSE hdr[b]]
  /\ i' = Wrap(After(i))
  /\ UNCHANGED <<heap_size, pc, argVars, prev, ret, allocs>>

\* Mutant: prev_info stays where it is when nothing is merged.
PrevAfterStuck(b) == prev

\* if(merge_flag) prev_info = info
PrevAfter(b) == b

UniteAdvance ==
  /\ Uniting /\ ~(hdr[i].is_free /\ hdr[prev].is_free)
  /\ prev' = PrevAfter(i)
  /\ i' = Wrap(After(i))
  /\ UNCHANGED <<hdr, heap_size, pc, argVars, ret, allocs>>

\* Back to malloc's loop, or out of free
UniteEnd ==
  /\ pc = "unite" /\ i >= heap_size
  /\ pc' = IF ret = "malloc" THEN "scan" ELSE "idle"
  /\ i' = 0
  /\ UNCHANGED <<hdr, heap_size, argVars, prev, ret, allocs>>

\* The loops in which a process stays for ever
Spin == pc \in {"hung", "halted"} /\ UNCHANGED vars

-----------------------------------------------------------------------------
Init ==
  /\ hdr = [b \in {} |-> 0]
  /\ heap_size = PAGE_SIZE
  /\ pc = "start"
  /\ bytes = 0 /\ align = FALSE
  /\ i = 0 /\ prev = 0 /\ ret = "malloc"
  /\ allocs = [p \in {} |-> 0]

HeapStep ==
  \/ InitialiseHeap
  \/ ScanSkip \/ ScanTake \/ ScanAligned \/ ScanAlignedSkip \/ ScanAlignedHang
  \/ Grow \/ GrowHalts
  \/ UniteMerge \/ UniteAdvance \/ UniteEnd

Next ==
  \/ HeapStep
  \/ \E n \in Requests, a \in Aligns : Malloc(n, a)
  \/ \E p \in DOMAIN allocs : Free(p)
  \/ Spin

Spec == Init /\ [][Next]_vars

\* A process that is inside heap.c gets on, since the scheduler gives it the
\* CPU again and again.
FairSpec == Spec /\ WF_vars(HeapStep)

-----------------------------------------------------------------------------
(* Properties                                                              *)

\* Every variable keeps the range its C declaration and use imply.
TypeOK ==
  /\ DOMAIN hdr \subseteq 0 .. HeapLimit
  /\ \A b \in DOMAIN hdr : hdr[b] \in Header
  /\ heap_size \in PAGE_SIZE .. HeapLimit
  /\ pc \in {"start", "idle", "scan", "unite", "hung", "halted"}
  /\ bytes \in Requests \cup {0} /\ align \in BOOLEAN
  /\ i \in 0 .. WORD - 1 /\ prev \in 0 .. WORD - 1
  /\ ret \in {"malloc", "free"}
  /\ \A p \in DOMAIN allocs :
       p \in HDR .. HeapLimit /\ allocs[p] \in Requests

Tiled(h, size) ==
  /\ 0 \in DOMAIN h
  /\ \A b \in DOMAIN h :
       /\ b < size
       /\ BehindIn(h, b) \in DOMAIN h \cup {size}
       /\ \A c \in DOMAIN h : c <= b \/ BehindIn(h, b) <= c

\* The blocks tile the heap: a walk by size meets every header, and only
\* headers, and ends exactly at heap_size. (divide_block, unite_free_blocks,
\* the growth in malloc)
Tiling == pc # "start" => Tiled(hdr, heap_size)

\* Memory that malloc has handed out stays the caller's until it is freed:
\* it lies inside the heap, and no other live allocation and no block header
\* lies in it. (malloc, free)
LiveDisjoint ==
  \A p \in DOMAIN allocs :
    /\ p + allocs[p] <= heap_size
    /\ \A q \in DOMAIN allocs : q > p => q >= p + allocs[p]
    /\ \A b \in DOMAIN hdr : b + HDR <= p \/ p + allocs[p] <= b

\* Nothing leaks: a block that is not free is the block of a live allocation.
\* (malloc, free)
NoLeak ==
  \A b \in DOMAIN hdr : hdr[b].is_free \/ b + HDR \in DOMAIN allocs

\* No two neighbouring blocks are both free once free or the growth in malloc
\* has ended: one pass of unite_free_blocks is enough, and dividing a block
\* does not undo it.
Coalesced ==
  pc \in {"idle", "scan"} =>
    \A b \in DOMAIN hdr :
      ~(/\ After(b) \in DOMAIN hdr
        /\ hdr[b].is_free /\ hdr[After(b)].is_free)

\* A page start lies in block b, more than two headers behind its beginning
\* and not behind its end: there the search for an aligned address can divide
\* it, or sees that too little is left.
HoldsPageStart(b) ==
  \E a \in PageStarts : b + 2 * HDR < a /\ a <= After(b)

\* malloc and free come to an end, at the latest when memory runs out, as long
\* as no aligned request meets a free block without a page start in it: the
\* list has no cycle, and every page that is added brings the loop of malloc
\* nearer to its end. (malloc, get_free_block, unite_free_blocks)
Terminates ==
  [](Scanning /\ Fits(i) /\ align => HoldsPageStart(i))
    => (pc \in {"scan", "unite"} ~> pc \in {"idle", "halted"})

\* "if block is not big enough to be divided go, to next block": the search of
\* get_free_block for an aligned address gets past every block, so that malloc
\* returns or memory runs out.
AlignedSearchEnds == pc = "scan" /\ align ~> pc \in {"idle", "halted"}

\* The calls of malloc and free, with all that heap.c does on their behalf
\* hidden, are those of an allocator that never gives away memory twice.
A == INSTANCE Allocator WITH live <- allocs, Sizes <- Requests, LIMIT <- HeapLimit
ImplementsAllocator == A!Spec
==============================================================================
