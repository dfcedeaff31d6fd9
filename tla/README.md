# A TLA+ model of Garg-OS

Garg-OS is a small 32-bit x86 kernel: a boot loader, interrupt handling, paging,
a pre-emptive round-robin scheduler, a heap per process, and drivers for the
timer, the keyboard and the screen. It has no tests. This directory models the
parts in which interrupts, shared state and unsigned arithmetic make the code
hard to test, checks the models with TLC and proves the main invariants with
TLAPS. `PROJECT.json` lists the runs, the hazards and, for every definition, the
lines of source it translates.

## 1. Inventory

There is one CPU. Interrupt handlers run with interrupts off and do not nest;
everything else may be interrupted at any instruction once `idt_load` has
executed `sti`, which is before paging, the timer, the keyboard and the
scheduler are set up. All code runs at ring 0. The kernel is compiled without
optimisation, so a compound assignment is a load, an operation and a store.

| Component | State | Operations | Hard because |
|---|---|---|---|
| Scheduler, process table, timer (`scheduler.c`, `process_list.c`, `timer.c`) | `proc_arr`, `cur_proc_index`, `scheduler_active`, `is_first_run`; `timer_ticks`, `time_slice_millis`, `freq` | `init_scheduler`, `start_next_process`, `add_process`, `remove_process`, `timer_handler`, `set_time_slice`, `set_timer_freq` | the timer interrupts `main()` and `add_process`; the end of a slice is an equality |
| Process heap (`heap.c`) | block headers in memory, `heap_size` | `initialise_heap`, `malloc`, `free`, `get_free_block`, `divide_block`, `unite_free_blocks` | the list is implicit in the sizes; unsigned arithmetic wraps |
| Paging (`paging.c`) | `frames`, the directories and tables | `init_paging`, `get_new_kernel_mapped_dir`, `alloc_page`, `alloc_page_pr`, `add_frame_to_kernel_dir`, `free_page` | shared by all threads without a lock; tables that are not cleared |
| Keyboard (`kb.c`) | `keyStatus`, `shiftLookup`, the 8042 and the keyboard | `keyboard_install`, `keyboard_handler` | the handler runs late and talks back to the device; `main()` talks to it too |
| Interrupts (`idt.c`, `idt.asm`, `isrs.c`, `irq.c`) | IDT, `irq_routines`, `fault_handlers`, two 8259 controllers | `idt_install`, the stubs, `irq_handler`, `fault_handler` | requests at any moment of the start; the frame changes under `irq_handler` |
| Placement allocator (`kheap.c`) | `place_addr` | `kmalloc`, `kmalloc_a`, `kmalloc_ap` | a shared read-modify-write without a bound; callers that rely on an alignment they do not ask for |
| Stack of a switch (`idt.asm`, `scheduler.c`) | the stack, `regs_t` | `irq_common_stub`, `start_next_process` | C and the CPU disagree about what an interrupt pushes |
| Screen (`screen.c`) | `cx`, `cy`, video memory, CRT controller | `putc`, `printf`, cursor movement | called by every process and by the keyboard handler |
| Start (`main.c`, `kernel_entry.asm`) | the order of the above; `lol()`, `lol2()`, `lol3()` | | interrupts are on almost from the start |
| TSS and GDT (`system.c`) | one descriptor | `init_tss` | written once |
| PCI, UHCI (`pci.c`, `uhci.c`, copied in `elf_parse.c`) | configuration space, controller registers | scan, `add_uhci` | narrow counters; the kernel's copy is not called |
| Boot sector, second stage, ELF loader (`bits_16/`, `stage2.asm`, `elf_parse.c`) | the 8042 and A20, the drive, the buffer, segments | run once | polling of devices that also answer somebody else; variables inside the buffer |

How they interact. `timer_handler` is called by `irq_handler` and calls
`start_next_process`, which exchanges the frame of the interrupt for that of
another process and loads CR3. `lol()`, the kernel process, calls
`get_new_kernel_mapped_dir`, `alloc_page` and `add_process`; the processes it
adds call `malloc`, which calls `alloc_page`. `alloc_page` calls `kmalloc`. The
keyboard handler and every process call the screen.

What makes each component correct:

* scheduler: a process never loses work or its address space, and none starves;
* heap: what is handed out is disjoint and inside the heap, nothing leaks, free
  space is found again, calls end;
* paging: the kernel is mapped to itself and alike everywhere, a frame has one
  user, the bitset tells the truth;
* keyboard: the status bits, the light and the characters agree with the keys;
* interrupts: every interrupt is ended, every request is served, the frame has
  the layout C expects, and only exceptions stop the machine;
* placement allocator: blocks are disjoint and mapped, page tables begin pages;
* screen: whoever interrupts whom, text and cursor recover;
* boot: the kernel is entered with its image in place, A20 on and no device
  writing to memory behind its back, and it is entered at all.

## 2. Modules

Each component has a module, an `MC` module that TLC runs, and, where there are
proofs, a `Proofs` module. Definitions written for a mutation test are marked
"Mutant" and stand before the definition they replace.

**Scheduler.** `pid`, `page_directory`, `last_state_regs` and `priority_level`
are the fields of `proc_arr`; `cpu` and `cr3` are the registers in use. Registers
are abstracted to whose code they execute and how far it has got; the stack
pointer is not among them (see Stack). `Tick` is one timer interrupt and one
atomic step. `main()` is taken in the steps between which a tick makes a
difference, and `add_process` in the order in which the structure copy writes its
words: page directory and pid, registers, priority, then the final pid.
`remove_process` is an action although nothing calls it yet; it returns to its caller,
so that a process that removes itself runs on, and `lol()` may add processes then.
`owner`, `progress`, `waits` and `given` are history; `given` holds the slots that
`add_process` gave away while the removed process was still running in them.

**Heap.** `hdr` maps the offset of every header in memory to its contents. The
loops of `get_free_block` and `unite_free_blocks` are one action per iteration,
because their ends are what is in question. The inner loop of an aligned request
is one step: `LoopExits` is the first page start, going up and round the end of
the address space, at which the loop returns or ends; if there is none it hangs.

**Allocator** is what malloc and free promise: areas that are handed out overlap
nothing in use, and stay until they are freed. `Heap` instantiates it with its
history variable `allocs` for `live`; `ImplementsAllocator` is its specification
under that mapping.

**Paging.** A thread is the kernel or a process; each is somewhere in `alloc_page`
(`pc`) and may be interrupted between any two steps. `write_bitset` is two steps,
the load of the word and its store, and `add_frame_to_kernel_dir` four: the test, the store of
a table's address, the store of its present bit, and the entry. A table
that the code does not clear holds arbitrary entries (`Uncleared`). `free_page` is an
action although nothing calls it yet. The history variable `mishaps` records whether
a thread was pre-empted inside a call and whether `free_page` was called, so that
one run tells what holds always from what holds until then.

**Keyboard.** Keyboard, 8042 controller, `main()` in `keyboard_install` and the
handler of IRQ 1 run interleaved. A byte is its key and the 0x80 bit, and carries
for the properties what was held when it was sent. The buffer of the keyboard is
unbounded (16 bytes in reality; `MaxEvents` keeps it shorter).

**Interrupts.** `boot` is the next step of `main()`, `cpu` what is executing, `irr`
and `isr` the requests and lines in service of both 8259s. A frame is its vector,
`int_no` and the number of words below `eip`. `RunTimer` exchanges `int_no` for the
one saved with another process, which in registers that were never written may
be anything (`StaleNos`).

**KHeap.** Each thread is somewhere in `kmalloc_all`; `place_addr++` and
`place_addr += size` are a load and a store each. `Startup` lists the requests of
`main()` in order (TSS stack, IDT, fault handlers, directory, bitset, the tables
of the identity mapping, process array, first stack), then `lol()` asks for a
directory and its tables per process, and the processes ask for tables, aligned
(`add_frame_to_kernel_dir`) or not (`alloc_page_pr`). `RoomAssumption` says that all of
this fits below `KERNEL_MEM_END`, which `kmalloc_all` does not look at: 15 MB for some
200 kB and the tables of the processes.

**Screen.** `putc` is cut where an interrupt matters: after `ptr` was computed,
after the character was written, between load and store of `cx++`, `cy++` and
`cy--`, between rows of a scroll, and between the four `outb` of `move_cursor`. The
handler runs the same code with interrupts off. Video memory is the set of cells
that are shown; cells outside are dropped. `Specified` says what a call should do
on a tape of cells, without rows; it has the tab stops where the code has them, at columns
1, 9, 17 and so on. `mixed` records whether anybody else was at work, and `off` whether the
call began off the screen, where nothing is specified.
`SizeAssumption` says that a row and a column fit in a byte and the last tab stop
in a word, as 25, 80 and 2008 do.

**Boot.** One thread from `boot_main` to the jump to the kernel, beside the 8042, a
user and the drive. Bytes are reduced to bit 0 (reset) and bit 1 (A20) of the output
port. Memory is counted in sectors; `BUFFER` is 0xA000, where the linker also puts
the uninitialised variables of `elf_parse.c`, which is why the order of scan and
reading matters. `stage2_end` counts them, too, and only the division by 512 drops
them again (`FirstSector`). A machine is an assignment of cards to slots. The image is
one of a list of segments; `LayoutAssumption` says what `linker.ld` arranges: they
lie within the sectors that are read, and at 0x20000, behind the buffer, without
overlapping.

**Stack.** The words of one stack, and the fields `useresp` and `ss` that
`start_next_process` reads and writes through `regs_t`.

The environment (the 8259s, the 8042, the keyboard, error codes of the CPU, the
rate of the timer) is marked external in the map.

## 3. Runs that pass

| Run | Checks | Distinct states |
|---|---|---|
| `scheduler` | `TypeOK`, `ContextPreserved`, `OwnAddressSpace`, `BoundedWaiting`, `SliceNotOvershot`, `EveryProcessRuns` | 437,895 |
| `heap` | `TypeOK`, `Tiling`, `LiveDisjoint`, `NoLeak`, `Coalesced`, `Terminates`, `ImplementsAllocator` | 414,364 |
| `paging` | `TypeOK`, `KernelIdentity`, `SharedKernelHalf`, `FrameExclusive`, `BitsetExact`, `HeapMapped` | 496,127 |
| `keyboard` | `TypeOK`, `StatusTracksKeys`, `CapsFollowsKey`, `TypedAsMeant`, `EveryByteRead` | 502,840 |
| `interrupts` | `TypeOK`, `NoneLeftInService`, `FrameMatchesVector`, `StopsOnlyOnFault`, `EveryRequestServed` | 32,940 |
| `screen` | `TypeOK`, `NotBelowScreen`, `HardwareCursorAgrees`, `TextAsPut` | 536,848 |
| `kheap` | `TypeOK`, `BlocksDisjoint`, `TablesFillPages` | 335,217 |
| `boot` | `KernelLoaded`, `ControllersStopped`, `A20AtKernel`, `Boots` | 235,710 |

What they show, beyond the wording of the properties:

* `scheduler`: `is_first_run` is what keeps the registers of `main()` out of the
  slot of the kernel process. A process that removes itself while running harms nobody
  but the process that is given its slot before the next switch (section 4).
* `heap`: one pass of `unite_free_blocks` suffices, for requests that are at least
  as large as a header, and a call ends unless it is an aligned one that meets a free block
  without a page start that it can use (`heap_aligned_hang`).
* `paging`: the races of `alloc_page` can give a frame two users but
  never disturb the kernel's own mapping, and what they enter in the kernel's directory
  maps a page to itself.
* `interrupts`: reading `r->int_no` again after the frame was exchanged is
  harmless. The only routine that exchanges it serves line 0, and a superfluous
  end of interrupt finds nothing of the slave in service.
* `screen`: calls that mix can leave `cx` beyond the row, by one column for each call
  however few threads there are, and `cy` above the screen, but never below it, since
  every call that moved `cy` down looks at it again. The next call that is left alone and ends
  on the screen puts the hardware cursor right; a row of -1 is cast to 255 on the way
  (`screen.c:34`), and the cursor is then far off until `cy` is back on the screen.
* `kheap`: the tables that `alloc_page_pr` takes from `kmalloc` are aligned although
  nobody asked for it, because everything since the first directory is a page
  long; this survives even lost updates of `place_addr`, which hand out a page twice.
* `boot`: a scan code that is taken for the output port cannot leave A20 off; at
  worst bit 0 is clear and the machine resets and boots again. The 8-bit `vendorID`
  makes the scan look at absent devices, and misses none.

Bounds. Tables have three slots so that a table can be full, have a gap, and wrap;
priorities 0 and 3 are the longest and the shortest slice that works. A heap of
three pages of 8 bytes with headers of 2 has room for several blocks, growth and
alignment; requests of 2, 3 and 9 leave exact fits, remainders that cannot be divided, and
need more than a page; addresses wrap at 64. Words of the bitset have 4 frames and tables 2
pages, so that the kernel and the processes share a word and that tables are
missing on the way; 8 frames run out. Three keyboard events are enough to hold a
modifier, toggle caps lock and type, or to press two keys and release one, at
every moment of the installation.
Three requests put two lines behind one in service.
A screen of 2 by 2 scrolls at the third character; registers of 2 values make the
high byte of the cursor matter, and three calls by three threads let one thread
be interrupted twice or two threads be interrupted by a third. In KHeap pages are 4
bytes, start requests are smaller, equal and larger, and each process takes three
tables. In Boot, two buses of one device with two functions give 81 machines,
among them all cards that are absent, single or multiple; two keys can be
pressed, so that a reset can be followed by another; the three program headers
are one with uninitialised data, an unused one and an empty one.

Deadlock is checked in all runs but those of the keyboard and the screen, where
nobody may be typing or printing any more.

Fairness. The timer interrupts for ever, because the PIT is in mode 3 and
`irq_handler` always ends the interrupt. `main()` and a call of `add_process`
that has the CPU go on, because a CPU executes. A process inside `malloc` goes on,
because `EveryProcessRuns` gives it the CPU again and again. The 8042 takes a
command in the end, and interrupts are on outside handlers. While booting, the
CPU goes on, and the 8042 and the drive answer, though not in time or without
error. Nothing is assumed
about users, devices, or how often a program calls the kernel.

## 4. Runs that find a violation

Each checks what a comment of the source says.

| Run | Source | What happens |
|---|---|---|
| `preempted_add` | `process_list.c:20` | a slice ends inside `add_process`, and registers that nobody wrote are loaded |
| `heap_aligned_hang` | `heap.c:41` | a free block ends before the next page start, the difference wraps, and an aligned `malloc` never returns |
| `paging_race` | `paging.c:121` | two processes map one frame |
| `stack_switch` | `scheduler.c:57` | the saved `useresp` is a word of the stack, and the stack pointer is lost |

The passing runs and the theorems exclude these cases by a constant, a condition
or an assumption (`BootTicks`, `Priorities`, `AddPreemptible`, `Requests`, `HoldsPageStart`, `mishaps`)
and say what still holds then. Further weaknesses show in the way a property
of a passing run had to be stated:

* `SliceNotOvershot` needs `BootTicks <= 3`: if four or more timer interrupts fall
  between `timer_install` and `set_time_slice(40)`, `timer_ticks` is at or past the
  end of the first slice, and the scheduler starts when the counter has wrapped
  (`timer.c:17`). It also needs priorities of at most 3: from level 4 on the slice is
  5 ms, which is 0 ticks at 100 Hz and never ends (`scheduler.c:24`).
* `ContextPreserved` and `OwnAddressSpace` except the slots in `given`: `remove_process` returns
  (`process_list.c:35`), and if `lol()` has removed itself its next `add_process` may hand
  out the slot it is still running in. The next switch saves the registers of `lol()` over those
  of the new process (`scheduler.c:57`), which never runs, and `lol()` goes on in its directory.
* `Terminates` speaks of behaviours in which no aligned request meets a free block without
  a page start that it can use (`HoldsPageStart`), the case that `heap_aligned_hang` shows.
  Nothing in the repository asks for aligned memory yet. The test at
  `heap.c:34` for an area that is aligned already is never true.
* Requests are no smaller than a header. A smaller one leaves a block smaller than a header
  behind, for which `info->size - sizeof(block)` at `heap.c:17` wraps: the block is then divided
  although it is too small, and the rest gets a size of almost 2^32.
* `KernelIdentity` allows for leftovers behind `KERNEL_MEM_END`: `add_frame_to_kernel_dir` hangs
  a table in without clearing it (`paging.c:107`), and an entry that happens to have the present
  bit is kept (`paging.c:112`), so that the kernel's directory, which "adds identity mapped pages"
  (`paging.c:103`), maps such a page anywhere.
* `FrameExclusive` and `BitsetExact` hold until `free_page` is called, which masks the
  wrong half of the entry and clears the bit of frame 0, whatever page it is given
  (`paging.c:158`).
* `HeapMapped` asks for some entry in the kernel's directory, not for the right one: in
  a table that was not cleared (`paging.c:107`) the bit of a present page may be set
  already.
* `StatusTracksKeys` leaves out bits that two keys share: the prefix 0xE0 is dropped,
  so releasing one control key clears the bit of both (`kb.c:56`). `TypedAsMeant`
  leaves out the right shift key with caps lock, for which line 245 of `kb.c` puts
  upper case. `CapsFollowsKey` speaks of the light only from the first caps lock key after
  `keyboard_install` on, during which the commands of `main()` and of the handler mix.
  The insert key is left out, because the mask 0xEffffff of `kb.c:235` has 28 bits
  and clears its bit together with that of caps lock.
* `EveryByteRead` is about requests once the handler is installed. IRQ 1 before
  `keyboard_install` finds no routine (`irq.c:79`), is ended, and leaves its byte in the controller,
  which raises no further interrupt until somebody reads port 0x60: the keyboard stays dead.
* `BlocksDisjoint` holds until a thread is pre-empted inside `kmalloc_all`, and
  `TextAsPut` and `HardwareCursorAgrees` are about calls that nobody disturbed, the first
  about calls that begin on the screen and the second about calls that end there.
* `TextAsPut` takes the tab stops from the code (`screen.c:66`): columns 1, 9, 17, ... counted
  through all rows. No comment says where they were meant to be.
* `KernelLoaded` excludes a drive that reports an error: `waitdisk` masks the error bit
  out (`elf_parse.c:85`), and `parse_ELF` returns to a jump to the kernel also when
  the first byte of the image is wrong.

## 5. Proofs

All theorems hold for every value of the constants that satisfies the named
assumptions of the module.

**SchedulerProofs.** `TypeCorrect` needs no more than itself, `Live` being non-empty
where the scan chooses. `WaitingBounded` rests on the circular distance: for a
live slot, the number of switches that passed it over plus its distance from
`cur_proc_index` never exceeds `MAX_PROC`, and every switch brings the current slot
nearer by at least one because it stops at the nearest live slot. `ContextsPreserved`
and `AddressSpaceOwned` share one invariant, which says for every slot who runs in it, which
is its owner unless the slot is in `given`, and which registers and directory it must have,
also while `add_process` is under way; the runner is needed because a removed process
keeps its registers in the CPU. They assume `~AddPreemptible`. `SliceNeverOvershot` assumes `BootTicks <= 3` and
priorities 0 to 3, two bounds that section 4 shows to be needed.

**HeapProofs.** Assumption: no request is smaller than a header (`SafeRequests`),
since smaller ones make `heap.c:17` wrap (section 4). The invariant says that the headers
tile the heap, that every block that is in use belongs to an allocation and is
at least as large, that sizes do not wrap, and that the loop index and `prev` are
headers, `prev` being the one before `i`. Tiling alone is not inductive: a merge is
only right because `prev` is the neighbour of `i`, and a division only because
sizes are those of blocks inside the heap.

`HeapIsAllocator` is the refinement, under the same assumption: the last step of a
malloc allocates (the pointer is fresh because the block was free and, by the
invariant, no live area lies in a free block), `free` releases, and every
other step leaves `allocs` alone.

`FreeBlocksUnited` (`Coalesced`) has an invariant of its own for the pass of
`unite_free_blocks`: while it runs, no two neighbours before `prev` are both free,
and otherwise none in the heap are. A division or an allocation makes no new pair
because what it divides was free between blocks in use, and a merge makes none
because `prev` stays where it is until its neighbour is in use.

**PagingProofs.** Three invariants, one for each kind of condition. Whoever is
interrupted: how far each thread is with the pages that it asks for (`KernelPhase`,
`ProcPhase`), that `init_paging`, which is alone, takes frames in order (`InOrder`), which
tables are there (`HasTables`), those included whose address is stored and whose present bit
is not (`Stored`), and that none of those that cover the kernel's pages is
ever allocated again (`KernelHalf`). They give `PagingTypeCorrect`, `KernelMapsItself` and
`KernelHalfShared`; the last is not inductive alone, since a table that is missing
is filled with anything. Until a thread was pre-empted (`CalmInv`): one call is under
way, the frame that it found stays free, and what it entered stays; this gives
`HeapPagesMapped`. Until then and until `free_page` is called (`BitsInv`): a mapped
frame is marked or about to be by the call under way, a marked frame is mapped, nothing
is mapped ahead of the next page, and the frames of processes are distinct; this
gives `FramesExclusive` and `BitsetIsExact`.

**KeyboardProofs.** The driver lags behind the keyboard, and so `StatusTracksKeys`, which speaks
of the moment when it has caught up, is not inductive. `Follows` is: `keyStatus` shows
some state of the keyboard, the byte in the buffer was sent in that state, and the
codes in the queue form a chain from there to the present state, with answers of the
keyboard anywhere between them. `LightInv` says what is on its way to the
light: the byte that was sent, or the one expected, is that of `isCapsOn`. Together
they give `StatusFollowsKeys`, `CapsFollows` and `CharactersAsMeant`, for any number of
bytes in the queue.

**BootProofs.** `KernelEnteredWithA20`: at each phase the 8042 may have to take one
command only (`Pending`), and whatever byte was taken for the output port, bit 1 was set
in it before it was written. `EveryControllerStopped`: the controllers that run are
those in slots the scan has not passed, in the order of the loops, and `uhci0` is empty
exactly as long as they all run. `KernelInPlace`, under `LayoutAssumption`: what has
been read is in the buffer in the order of the drive, and each segment that has been
copied stays, because no later copy reaches it or the buffer.

**KHeapProofs.** `TablesBeginPages` needs no condition on pre-emption. Up to the
first directory of a process only `main()` asks, alone (`Early`); since then `place_addr`, every
saved copy of it and every address about to be returned are multiples of a
page (`Late`), so that a lost update still leaves one. That a table begins a page is not
inductive without both, nor without knowing which requests come in which half.
`KernelBlocksDisjoint` rests on: as long as nobody was pre-empted, what a thread has read
is what `place_addr` still is, and everything handed out ends at or before it.
`KernelHeapFits` (`TypeOK`), under `RoomAssumption`, bounds `place_addr` by the number of
requests that have been served, which is counted as a set of pairs of a thread and
a number: each request takes its size, and a page more while boundaries
have to be searched for (`RoomEarly`), where the search ends at the first one; later a
page at most, also when a store is lost (`RoomLate`).

**ScreenProofs.** `CursorNotBelowScreen`: either `cy` is less than `ROWS` or some thread is at a
place from which it has yet to test `cy` in `scroll_if_needed`. `ScreenTypeCorrect`: each call
that has yet to store `cx + 1` has a column to spare (`ColumnInv`), which needs the
number of threads at those places. `HardwareCursorFollows` has `CursorInv`: what the only thread
at work has put out, and has yet to put out, is the position of the cursor, if that is
on the screen. `TextLaidOut` has `AloneInv`:
while the only thread at work is undisturbed, what was expected of its call is, from each place
in the code, what the rest of the code will do to the present screen: a position is
settled by scrolling rows one at a time (`Settle`), and a scroll under way is worth the
rows that memcpy has yet to move (`Scrolled`). The lemmas `SpecifiedChar`, `SpecifiedTab` and so on
show that the rows and columns of `putc` are the positions of the tape.

**InterruptsProofs.** `IdtInv` says what the start has done at each step; `ServiceInv`
ties what is in service to the vector, and the vector to `int_no` except in the
timer's routine. `EndsAll` shows that the two `outb` of `irq_handler` end a line of
either controller.

Every invariant that a run checks is the statement of a theorem. Only model-checked are
the liveness properties (`EveryProcessRuns`, `Terminates`, `EveryByteRead`,
`EveryRequestServed`, `Boots`), which need fairness and `ENABLED` and are out of the prover's
reach, and what the runs of section 4 refute.

## 6. Plan

Done: Scheduler, Heap with Allocator, Paging, Keyboard, Interrupts, KHeap, Screen,
Boot and Stack, with the proofs above.

Next, in this order:

1. An abstract scheduler (each process makes progress of its own) that `Scheduler`
   implements.
2. That `ImplementsAllocator` and `FramesExclusive` compose: memory that `malloc` hands out in two
   processes lies in different frames.

## 7. Not modelled

* The flag bits of page table entries.
* Which characters are printed: a cell is blank or not. `putb` never ends, since its
  counter is unsigned; nothing calls it.
* The 16-byte buffer of the keyboard, and further keys: one key stands for each
  kind of case in `keyboard_handler`.
* The kernel's own copy of the PCI scan and of UHCI (`pci.c`, `uhci.c`), which
  `main.c:114` has commented out. It differs from the copy in `elf_parse.c`, which is
  modelled.
* `init_tss`: the task state segment is used on an entry from ring 3 only, which
  never happens. Port and memory primitives, `print_*` functions,
  `vendor_info.asm`, which is not called, `memAPI.c`, which holds a comment, and
  the Makefile.
