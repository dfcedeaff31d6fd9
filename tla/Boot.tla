--------------------------------- MODULE Boot ---------------------------------
(***************************************************************************)
(* From the boot sector to the jump to the kernel: load_stage2 and the     *)
(* switch to protected mode (boot.asm), the A20 line (stage2.asm), the     *)
(* scan of the PCI buses and the loading of the kernel's ELF image         *)
(* (elf_parse.c).                                                          *)
(*                                                                         *)
(* One thread runs, with interrupts off; the keyboard controller, somebody *)
(* at the keyboard and the drive work beside it.  Memory is counted in     *)
(* sectors.                                                                *)
(***************************************************************************)
EXTENDS Integers, Sequences

CONSTANTS
  SECTOR,          \* bytes of a sector (512)
  Stage2Sectors,   \* sectors of stage2.bin (8), which follow the boot sector
  BssBytes,        \* the uninitialised variables of elf_parse.c (13)
  SECS,            \* KERNEL_SECS_TO_LOAD
  BUFFER,          \* buffer_start; the uninitialised variables lie here, too
  Segments,        \* the program headers of the kernel
  BUSES, DEVICES, FUNCTIONS,   \* 256, 32 and 8
  MaxKeys          \* bound: keys pressed while A20 is being enabled

Bytes == [bit0 : BOOLEAN, bit1 : BOOLEAN]     \* as far as A20 is concerned
Kinds == {"absent", "uhci", "other"}

ASSUME BootAssumption ==
  /\ SECTOR \in Nat \ {0} /\ Stage2Sectors \in Nat
  /\ BssBytes \in 0 .. SECTOR - 1
  /\ SECS \in Nat \ {0} /\ BUFFER \in Nat /\ MaxKeys \in Nat
  /\ BUSES \in Nat \ {0} /\ DEVICES \in Nat \ {0} /\ FUNCTIONS \in Nat \ {0}
  /\ Segments \in Seq([null : BOOLEAN, offset : Nat, paddr : Nat,
                       filesz : Nat, memsz : Nat])
  /\ \A k \in DOMAIN Segments : Segments[k].filesz <= Segments[k].memsz

VARIABLES
  phase,     \* where the boot code is
  kbc,       \* the keyboard controller
  al,        \* the byte read from the controller, on the stack
  keys,      \* keys pressed so far
  machine,   \* what is on the PCI buses
  at,        \* bus and device of the scan
  running,   \* the UHCI controllers whose run bit is set
  uhci0,     \* bus0, device0, function0
  drive,     \* the drive: busy or ready, and the sector that it is to read
  n,         \* the loop counter i, over sectors and then over headers
  mem,       \* what the sectors of memory hold
  failed     \* history: did the drive report an error?

cpu == <<phase, al>>
pci == <<at, running, uhci0>>
disk == <<drive, n, mem, failed>>
vars == <<cpu, kbc, keys, machine, pci, disk>>

-----------------------------------------------------------------------------
Buffer == BUFFER .. BUFFER + SECS - 1
Area(s) == s.paddr .. s.paddr + s.memsz - 1
Memory == Buffer \cup UNION {Area(Segments[k]) : k \in DOMAIN Segments}

\* linker.ld puts the kernel behind the buffer, one section after the other,
\* and the sectors that are read hold all of the image
ASSUME LayoutAssumption ==
  \A k \in DOMAIN Segments : ~Segments[k].null =>
    /\ Segments[k].offset + Segments[k].filesz <= SECS
    /\ Area(Segments[k]) \cap Buffer = {}
    /\ \A l \in DOMAIN Segments : ~Segments[l].null /\ l # k =>
         Area(Segments[k]) \cap Area(Segments[l]) = {}

Sector(k) == <<"disk", k>>
Junk == <<"junk">>
Zero == <<"zero">>
Globals == <<"globals">>     \* a sector that begins with bus0, ...

\* to_load_from / 512; stage2_end comes after the uninitialised variables,
\* which are not in the image
FirstSector == ((1 + Stage2Sectors) * SECTOR + BssBytes) \div SECTOR

\* Mutant: the buses are scanned when the image has been read already.
OrderSwapped ==
  [bios |-> "pm", pm |-> "ad", ad |-> "d0", d0 |-> "in", in |-> "d1", d1 |-> "data",
   data |-> "ae", ae |-> "settle", settle |-> "read", scan |-> "check",
   read |-> "scan", check |-> "copy", copy |-> "kernel"]

\* What follows what: the code of stage2.asm and parse_ELF
Order ==
  [bios |-> "pm", pm |-> "ad", ad |-> "d0", d0 |-> "in", in |-> "d1", d1 |-> "data",
   data |-> "ae", ae |-> "settle", settle |-> "scan", scan |-> "read",
   read |-> "check", check |-> "copy", copy |-> "kernel"]

Then(here) == phase = here /\ phase' = Order[here]

-----------------------------------------------------------------------------
(* The boot sector                                                         *)

\* int 0x13 reads all sectors of the second stage, or load_stage2_error hangs
LoadStage2 ==
  /\ Then("bios") \/ (phase = "bios" /\ phase' = "hung")
  /\ UNCHANGED <<al, kbc, keys, machine, pci, disk>>

\* cli, the segments and protected mode
SwitchToPm ==
  /\ Then("pm")
  /\ UNCHANGED <<al, kbc, keys, machine, pci, disk>>

-----------------------------------------------------------------------------
(* The A20 line                                                            *)

\* The controller when the second stage begins: whether A20 is on already is
\* up to the BIOS; bit 0 of the output port keeps the CPU out of reset
Controller == [input : {"none"}, output : {<<>>}, enabled : {TRUE},
               port : {b \in Bytes : b.bit0}]

\* Wait_8042_command
Ready == kbc.input = "none"

\* A command for the controller, or the byte for its output port
Command(here) ==
  /\ Then(here) /\ Ready
  /\ kbc' = [kbc EXCEPT !.input = here]
  /\ UNCHANGED <<al, keys, machine, pci, disk>>

\* Wait_8042_data; the oldest byte is read, whatever it is
ReadPort ==
  /\ Then("in") /\ kbc.output # <<>>
  /\ al' = Head(kbc.output)
  /\ kbc' = [kbc EXCEPT !.output = Tail(@)]
  /\ UNCHANGED <<keys, machine, pci, disk>>

\* Mutant: the byte is written as it was read.
EnableA20Not(byte) == byte

\* or al, 2
EnableA20(byte) == [byte EXCEPT !.bit1 = TRUE]

\* The last wait before parse_ELF is called
Settle ==
  /\ Then("settle") /\ Ready
  /\ at' = [bus |-> 0, device |-> 0]
  /\ UNCHANGED <<al, kbc, keys, machine, running, uhci0, disk>>

\* The controller takes a command.  The output port goes behind a key that
\* nobody has read, or replaces it.
Take(command) ==
  /\ kbc.input = command
  /\ \E output \in IF command = "d0" THEN {Append(kbc.output, kbc.port), <<kbc.port>>}
                   ELSE {kbc.output} :
       kbc' = [kbc EXCEPT !.input = "none", !.output = output,
                          !.enabled = IF command \in {"ad", "ae"}
                                      THEN command = "ae" ELSE @]
  /\ UNCHANGED <<cpu, keys, machine, pci, disk>>

\* It takes the byte for the output port.  Bit 0 resets the CPU if it is
\* clear, and everything begins again.
TakePort ==
  /\ kbc.input = "data"
  /\ LET byte == EnableA20(al)
     IN \/ /\ byte.bit0
           /\ kbc' = [kbc EXCEPT !.input = "none", !.port = byte]
           /\ UNCHANGED <<cpu, pci, disk>>
        \/ /\ ~byte.bit0
           /\ phase' = "bios"
           /\ kbc' \in Controller
           /\ UNCHANGED <<al, pci, disk>>
  /\ UNCHANGED <<keys, machine>>

\* A key is pressed between the cli of switch_to_pm and the command that
\* disables the keyboard
PressKey ==
  /\ phase \in {"ad", "d0"} /\ kbc.enabled /\ kbc.output = <<>> /\ keys < MaxKeys
  /\ \E byte \in Bytes : kbc' = [kbc EXCEPT !.output = <<byte>>]
  /\ keys' = keys + 1
  /\ UNCHANGED <<cpu, machine, pci, disk>>

-----------------------------------------------------------------------------
(* check_all_buses                                                         *)

Slots == (0 .. BUSES - 1) \X (0 .. DEVICES - 1)

\* A device with several functions has function 0, which says so
Cards ==
  {c \in [multi : BOOLEAN, kind : [0 .. FUNCTIONS - 1 -> Kinds]] :
     (c.kind[0] = "absent" => ~c.multi)
     /\ (~c.multi => \A f \in 1 .. FUNCTIONS - 1 : c.kind[f] = "absent")}

Uhci == {x \in Slots \X (0 .. FUNCTIONS - 1) : machine[x[1]].kind[x[2]] = "uhci"}

\* The functions that check_device looks at.  Function 0 always: vendorID has
\* 8 bits and never equals 0xFFFF; an absent one reads as ones, also in the
\* bit for several functions.
\* Mutant: the last function is left out.
ScannedButLast(card) ==
  {0} \cup (IF card.multi \/ card.kind[0] = "absent"
            THEN {f \in 1 .. FUNCTIONS - 2 : card.kind[f] # "absent"} ELSE {})

Scanned(card) ==
  {0} \cup (IF card.multi \/ card.kind[0] = "absent"
            THEN {f \in 1 .. FUNCTIONS - 1 : card.kind[f] # "absent"} ELSE {})

\* Mutant: the counter of the buses has 8 bits.
NextBusNarrow == (at.bus + 1) % BUSES

NextBus == at.bus + 1

\* Clears the run bit of each of the functions, and keeps the last one in
\* bus0, device0 and function0
add_uhci(slot, found) ==
  /\ running' = running \ {<<slot, f>> : f \in found}
  /\ IF found = {} THEN UNCHANGED <<uhci0, mem>>
     ELSE /\ \E f \in found : (\A g \in found : g <= f) /\ uhci0' = <<slot, f>>
          /\ mem' = [mem EXCEPT ![BUFFER] = Globals]

\* check_device, and check_function for what it finds
CheckDevice ==
  /\ phase = "scan" /\ at.bus < BUSES
  /\ LET slot == <<at.bus, at.device>>
     IN add_uhci(slot, {f \in Scanned(machine[slot]) : machine[slot].kind[f] = "uhci"})
  /\ at' = IF at.device + 1 < DEVICES THEN [at EXCEPT !.device = @ + 1]
           ELSE [bus |-> NextBus, device |-> 0]
  /\ UNCHANGED <<cpu, kbc, keys, machine, drive, n, failed>>

ScanDone ==
  /\ Then("scan") /\ at.bus >= BUSES
  /\ n' = 0
  /\ UNCHANGED <<al, kbc, keys, machine, pci, drive, mem, failed>>

-----------------------------------------------------------------------------
(* read_sector and the copying of the segments                             *)

\* The drive is not busy; whether it reports an error is not looked at
waitdisk == drive.state = "ready"

\* The command to read one sector
StartRead ==
  /\ phase = "read" /\ n < SECS /\ ~drive.asked /\ waitdisk
  /\ drive' = [drive EXCEPT !.state = "busy", !.asked = TRUE]
  /\ UNCHANGED <<cpu, kbc, keys, machine, pci, n, mem, failed>>

\* The drive is ready again, with the data or with an error
Answer ==
  /\ drive.state = "busy"
  /\ \E data \in {Sector(FirstSector + n), Junk} :
       /\ drive' = [drive EXCEPT !.state = "ready", !.data = data]
       /\ failed' = (failed \/ data = Junk)
  /\ UNCHANGED <<cpu, kbc, keys, machine, pci, n, mem>>

\* insl
FinishRead ==
  /\ phase = "read" /\ drive.asked /\ waitdisk
  /\ mem' = [mem EXCEPT ![BUFFER + n] = drive.data]
  /\ drive' = [drive EXCEPT !.asked = FALSE]
  /\ n' = n + 1
  /\ UNCHANGED <<cpu, kbc, keys, machine, pci, failed>>

ReadDone ==
  /\ Then("read") /\ n >= SECS
  /\ UNCHANGED <<al, kbc, keys, machine, pci, disk>>

\* The first byte of the image is compared.  If it is wrong parse_ELF returns,
\* and stage2.asm jumps to the kernel all the same; a sector that was not read
\* may begin with any byte.
CheckMagic ==
  /\ \/ mem[BUFFER] \in {Sector(1 + Stage2Sectors), Junk} /\ Then("check")
     \/ mem[BUFFER] # Sector(1 + Stage2Sectors) /\ phase = "check" /\ phase' = "kernel"
  /\ n' = 1
  /\ UNCHANGED <<al, kbc, keys, machine, pci, drive, mem, failed>>

\* What address a holds after segment s was copied from the buffer and its
\* rest was cleared
Copied(s, a) ==
  IF a < s.paddr + s.filesz THEN mem[BUFFER + s.offset + (a - s.paddr)] ELSE Zero

\* memcpy to p_paddr, unless the type is PT_NULL.  Headers in a sector that
\* was not read may say anything.
CopySegment ==
  /\ phase = "copy" /\ n <= Len(Segments)
  /\ LET s == Segments[n]
     IN mem' = IF s.null THEN mem
               ELSE [a \in Memory |->
                       IF a \notin Area(s) THEN mem[a]
                       ELSE IF mem[BUFFER] = Junk THEN Junk ELSE Copied(s, a)]
  /\ n' = n + 1
  /\ UNCHANGED <<cpu, kbc, keys, machine, pci, drive, failed>>

JumpToKernel ==
  /\ Then("copy") /\ n > Len(Segments)
  /\ UNCHANGED <<al, kbc, keys, machine, pci, disk>>

-----------------------------------------------------------------------------
Init ==
  /\ phase = "bios"
  /\ kbc \in Controller
  /\ al = [bit0 |-> TRUE, bit1 |-> FALSE]
  /\ keys = 0
  /\ machine \in [Slots -> Cards]
  /\ at = [bus |-> 0, device |-> 0]
  /\ running = Uhci
  /\ uhci0 = <<>>
  /\ drive = [state |-> "ready", asked |-> FALSE, data |-> Junk]
  /\ n = 0
  /\ mem = [a \in Memory |-> Junk]
  /\ failed = FALSE

\* jmp $, or the kernel has taken over
Stay == phase \in {"hung", "kernel"} /\ UNCHANGED vars

Cpu ==
  \/ LoadStage2 \/ SwitchToPm
  \/ \E here \in {"ad", "d0", "d1", "data", "ae"} : Command(here)
  \/ ReadPort \/ Settle
  \/ CheckDevice \/ ScanDone
  \/ StartRead \/ FinishRead \/ ReadDone
  \/ CheckMagic \/ CopySegment \/ JumpToKernel

Devices ==
  \/ \E command \in {"ad", "d0", "d1", "ae"} : Take(command)
  \/ TakePort \/ Answer

Next == Cpu \/ Devices \/ PressKey \/ Stay

\* The CPU goes on, and the controller and the drive answer.
Spec == Init /\ [][Next]_vars /\ WF_vars(Cpu) /\ WF_vars(Devices)

-----------------------------------------------------------------------------
(* Properties                                                              *)

AtKernel == phase = "kernel"

\* The kernel is entered with every segment in its place and the rest of it
\* cleared, unless the drive failed: the scan of the buses, whose variables lie
\* in the buffer, comes before the sectors are read, and the first sector is
\* found although stage2_end is past the end of the image. (parse_ELF)
KernelLoaded ==
  AtKernel /\ ~failed =>
    \A k \in DOMAIN Segments :
      LET s == Segments[k]
      IN ~s.null => \A a \in Area(s) :
           mem[a] = IF a < s.paddr + s.filesz
                    THEN Sector(1 + Stage2Sectors + s.offset + (a - s.paddr)) ELSE Zero

\* No UHCI controller is running any more when the kernel is entered, although
\* the test for an absent device never succeeds: none is left to write to
\* memory that the kernel gives to somebody else. If there is one, bus0,
\* device0 and function0 name one. (check_device, add_uhci)
ControllersStopped ==
  AtKernel => running = {} /\ (uhci0 = <<>> <=> Uhci = {}) /\ uhci0 \in Uhci \cup {<<>>}

\* The kernel is entered with A20 on, whatever keys are pressed meanwhile: a
\* key that is taken for the output port resets the machine or leaves A20 on.
\* (stage2.asm)
A20AtKernel == AtKernel => kbc.port.bit1 /\ kbc.enabled

\* The boot code ends: in the kernel, or in an error that it reports. The
\* machine may reset on the way as often as somebody presses a key.
Boots == <>(phase \in {"kernel", "hung"})
===============================================================================
