------------------------------ MODULE BootProofs ------------------------------
(***************************************************************************)
(* Proofs about the way to the kernel for every machine, every image and   *)
(* any number of keys.                                                     *)
(***************************************************************************)
EXTENDS Boot, SequenceTheorems, TLAPS

-----------------------------------------------------------------------------
(* The inductive invariants                                                *)

BeforeScan == {"bios", "pm", "ad", "d0", "in", "d1", "data", "ae", "settle"}
AfterScan == {"read", "check", "copy", "kernel"}
Phases == BeforeScan \cup AfterScan \cup {"scan", "hung"}

\* What the controller may still have to take, phase by phase
Pending ==
  [bios |-> {}, pm |-> {}, hung |-> {}, ad |-> {}, d0 |-> {"ad"}, in |-> {"d0"},
   d1 |-> {"d0"}, data |-> {"d1"}, ae |-> {"data"}, settle |-> {"ae"},
   scan |-> {}, read |-> {}, check |-> {}, copy |-> {}, kernel |-> {}]

A20Inv ==
  /\ phase \in Phases
  /\ al \in Bytes
  /\ kbc \in [input : {"none", "ad", "d0", "d1", "data", "ae"}, output : Seq(Bytes),
              enabled : BOOLEAN, port : Bytes]
  /\ kbc.input \in Pending[phase] \cup {"none"}
  /\ phase = "ae" /\ kbc.input = "none" => kbc.port.bit1
  /\ phase \in {"settle", "scan"} \cup AfterScan => kbc.port.bit1
  /\ phase = "settle" /\ kbc.input = "none" => kbc.enabled
  /\ phase \in {"scan"} \cup AfterScan => kbc.enabled

\* The slots that the scan has left behind
Passed(slot) == slot[1] < at.bus \/ (slot[1] = at.bus /\ slot[2] < at.device)

ScanInv ==
  /\ machine \in [Slots -> Cards]
  /\ phase \in BeforeScan \cup {"hung"} => running = Uhci /\ uhci0 = <<>>
  /\ phase = "scan" =>
       /\ at \in [bus : 0 .. BUSES, device : 0 .. DEVICES - 1]
       /\ running = {x \in Uhci : ~Passed(x[1])}
       /\ uhci0 = <<>> <=> running = Uhci
  /\ uhci0 \in Uhci \cup {<<>>}
  /\ phase \in AfterScan => running = {} /\ (uhci0 = <<>> <=> Uhci = {})

InPlace(s) ==
  \A a \in Area(s) :
    mem[a] = IF a < s.paddr + s.filesz
             THEN Sector(1 + Stage2Sectors + s.offset + (a - s.paddr)) ELSE Zero

LoadInv ==
  /\ phase \in Phases /\ n \in Nat
  /\ DOMAIN mem = Memory /\ mem = [a \in Memory |-> mem[a]]
  /\ drive = [state |-> drive.state, asked |-> drive.asked, data |-> drive.data]
  /\ drive.state \in {"ready", "busy"} /\ drive.asked \in BOOLEAN
  /\ drive.state = "busy" => phase = "read" /\ drive.asked
  /\ drive.asked => phase = "read" /\ n < SECS
  /\ failed \in BOOLEAN
  /\ phase = "read" => n <= SECS
  /\ ~failed =>
       /\ phase = "read" =>
            /\ \A k \in 0 .. n - 1 : mem[BUFFER + k] = Sector(1 + Stage2Sectors + k)
            /\ drive.asked /\ drive.state = "ready" =>
                 drive.data = Sector(1 + Stage2Sectors + n)
       /\ phase \in {"check", "copy", "kernel"} =>
            \A k \in 0 .. SECS - 1 : mem[BUFFER + k] = Sector(1 + Stage2Sectors + k)
       /\ phase = "copy" =>
            /\ n >= 1
            /\ \A k \in DOMAIN Segments : k < n /\ ~Segments[k].null => InPlace(Segments[k])
       /\ phase = "kernel" => KernelLoaded

-----------------------------------------------------------------------------
(* Facts that the steps share                                              *)

\* The phases in their order
LEMMA OrderIs ==
  /\ Order["bios"] = "pm" /\ Order["pm"] = "ad" /\ Order["ad"] = "d0"
  /\ Order["d0"] = "in" /\ Order["in"] = "d1" /\ Order["d1"] = "data"
  /\ Order["data"] = "ae" /\ Order["ae"] = "settle" /\ Order["settle"] = "scan"
  /\ Order["scan"] = "read" /\ Order["read"] = "check" /\ Order["check"] = "copy"
  /\ Order["copy"] = "kernel"
BY DEF Order

LEMMA PendingIs ==
  /\ Pending["bios"] = {} /\ Pending["pm"] = {} /\ Pending["hung"] = {}
  /\ Pending["ad"] = {} /\ Pending["d0"] = {"ad"} /\ Pending["in"] = {"d0"}
  /\ Pending["d1"] = {"d0"} /\ Pending["data"] = {"d1"} /\ Pending["ae"] = {"data"}
  /\ Pending["settle"] = {"ae"} /\ Pending["scan"] = {} /\ Pending["read"] = {}
  /\ Pending["check"] = {} /\ Pending["copy"] = {} /\ Pending["kernel"] = {}
BY DEF Pending

-----------------------------------------------------------------------------
(* The A20 line                                                            *)

Kbc == [input : {"none", "ad", "d0", "d1", "data", "ae"}, output : Seq(Bytes),
        enabled : BOOLEAN, port : Bytes]

\* The steps of the other devices and of the code behind the A20 line leave the
\* controller alone.
LEMMA LaterSteps ==
  ASSUME A20Inv,
         \/ LoadStage2 \/ SwitchToPm \/ CheckDevice \/ ScanDone \/ StartRead
         \/ FinishRead \/ ReadDone \/ CheckMagic \/ CopySegment \/ JumpToKernel
         \/ Answer \/ Stay \/ UNCHANGED vars
  PROVE  A20Inv'
<1>1. UNCHANGED <<kbc, al>>
  BY DEF LoadStage2, SwitchToPm, CheckDevice, ScanDone, StartRead, FinishRead,
         ReadDone, CheckMagic, CopySegment, JumpToKernel, Answer, Stay, cpu, vars
<1>2. \/ UNCHANGED phase
      \/ phase = "bios" /\ phase' \in {"pm", "hung"}
      \/ phase = "pm" /\ phase' = "ad"
      \/ phase \in {"scan", "read", "check", "copy"} /\ phase' \in AfterScan
  BY OrderIs
  DEF LoadStage2, SwitchToPm, CheckDevice, ScanDone, StartRead, FinishRead, ReadDone,
      CheckMagic, CopySegment, JumpToKernel, Answer, Stay, Then, cpu, vars, AfterScan
<1>3. phase' \in Phases /\ (phase' # phase => Pending[phase'] = {} /\ Pending[phase] = {})
  BY <1>2, PendingIs DEF A20Inv, Phases, BeforeScan, AfterScan
<1>4. kbc'.input \in Pending[phase'] \cup {"none"}
  BY <1>1, <1>3 DEF A20Inv
<1> QED
  BY <1>1, <1>2, <1>3, <1>4 DEF A20Inv, AfterScan

LEMMA A20Step ==
  ASSUME A20Inv, [Next]_vars
  PROVE  A20Inv'
<1> USE OrderIs, PendingIs
<1>1. /\ phase \in Phases /\ al \in Bytes /\ kbc \in Kbc
      /\ kbc.input \in Pending[phase] \cup {"none"}
  BY DEF A20Inv, Kbc
<1>2. ASSUME NEW here \in {"ad", "d0", "d1", "data", "ae"}, Command(here)
      PROVE  A20Inv'
  <2>1. /\ phase = here /\ phase' = Order[here] /\ kbc.input = "none" /\ al' = al
        /\ kbc' = [kbc EXCEPT !.input = here]
    BY <1>2 DEF Command, Then, Ready
  <2>2. /\ kbc' \in Kbc /\ kbc'.input = here
        /\ kbc'.port = kbc.port /\ kbc'.enabled = kbc.enabled
    BY <1>1, <2>1 DEF Kbc
  <2>3. phase' \in {"d0", "in", "data", "ae", "settle"} /\ Pending[phase'] = {here}
    BY <2>1
  <2>4. phase' = "settle" => kbc.port.bit1
    BY <2>1 DEF A20Inv
  <2> QED
    BY <1>1, <2>1, <2>2, <2>3, <2>4 DEF A20Inv, Kbc, Phases, BeforeScan, AfterScan
<1>3. CASE ReadPort
  <2>1. /\ phase = "in" /\ phase' = "d1" /\ kbc.output # <<>> /\ al' = Head(kbc.output)
        /\ kbc' = [kbc EXCEPT !.output = Tail(@)]
    BY <1>3 DEF ReadPort, Then
  <2>2. al' \in Bytes /\ Tail(kbc.output) \in Seq(Bytes)
    BY <1>1, <2>1, HeadTailProperties DEF Kbc
  <2>3. kbc' \in Kbc /\ kbc'.input = kbc.input
    BY <1>1, <2>1, <2>2 DEF Kbc
  <2> QED
    BY <1>1, <2>1, <2>2, <2>3 DEF A20Inv, Kbc, Phases, BeforeScan, AfterScan
<1>4. CASE Settle
  <2>1. phase = "settle" /\ phase' = "scan" /\ kbc.input = "none" /\ UNCHANGED <<kbc, al>>
    BY <1>4 DEF Settle, Then, Ready
  <2> QED
    BY <1>1, <2>1 DEF A20Inv, Kbc, Phases, BeforeScan, AfterScan
<1>5. ASSUME NEW command \in {"ad", "d0", "d1", "ae"}, Take(command)
      PROVE  A20Inv'
  <2>1. UNCHANGED <<phase, al>> /\ kbc.input = command
    BY <1>5 DEF Take, cpu
  <2>2. PICK output \in IF command = "d0" THEN {Append(kbc.output, kbc.port), <<kbc.port>>}
                        ELSE {kbc.output} :
          kbc' = [kbc EXCEPT !.input = "none", !.output = output,
                             !.enabled = IF command \in {"ad", "ae"}
                                         THEN command = "ae" ELSE @]
    BY <1>5 DEF Take
  <2>3. kbc.port \in Bytes /\ kbc.output \in Seq(Bytes) /\ kbc.enabled \in BOOLEAN
    BY <1>1 DEF Kbc
  <2>4. Append(kbc.output, kbc.port) \in Seq(Bytes) /\ <<kbc.port>> \in Seq(Bytes)
    BY <2>3, AppendProperties
  <2>5. output \in Seq(Bytes)
    BY <2>2, <2>3, <2>4
  <2>6. /\ kbc' \in Kbc /\ kbc'.input = "none" /\ kbc'.port = kbc.port
        /\ command = "ae" => kbc'.enabled
    BY <1>1, <2>2, <2>3, <2>5 DEF Kbc
  <2>7. phase \notin {"ae", "scan"} \cup AfterScan /\ (phase = "settle" => command = "ae")
    BY <1>1, <2>1 DEF AfterScan
  <2> QED
    BY <1>1, <2>1, <2>6, <2>7 DEF A20Inv, Kbc
<1>6. CASE TakePort
  <2>1. kbc.input = "data" /\ phase = "ae"
    BY <1>1, <1>6 DEF TakePort, Phases, BeforeScan, AfterScan
  <2>2. EnableA20(al) \in Bytes /\ EnableA20(al).bit1
    BY <1>1 DEF EnableA20, Bytes
  <2>3. CASE kbc' = [kbc EXCEPT !.input = "none", !.port = EnableA20(al)] /\ UNCHANGED <<phase, al>>
    <3>1. kbc' \in Kbc /\ kbc'.input = "none" /\ kbc'.port.bit1
      BY <1>1, <2>2, <2>3 DEF Kbc
    <3> QED
      BY <1>1, <2>1, <2>3, <3>1 DEF A20Inv, Kbc, AfterScan
  <2>4. CASE phase' = "bios" /\ kbc' \in Controller /\ al' = al
    <3>1. <<>> \in Seq(Bytes)
      OBVIOUS
    <3>2. kbc' \in Kbc /\ kbc'.input = "none"
      BY <2>4, <3>1 DEF Controller, Kbc
    <3> QED
      BY <1>1, <2>4, <3>2 DEF A20Inv, Kbc, Phases, BeforeScan, AfterScan
  <2> QED
    BY <1>6, <2>3, <2>4 DEF TakePort, cpu
<1>7. CASE PressKey
  <2>1. PICK byte \in Bytes : kbc' = [kbc EXCEPT !.output = <<byte>>]
    BY <1>7 DEF PressKey
  <2>2. phase \in {"ad", "d0"} /\ UNCHANGED <<phase, al>>
    BY <1>7 DEF PressKey, cpu
  <2>3. <<byte>> \in Seq(Bytes)
    OBVIOUS
  <2>4. kbc' \in Kbc /\ kbc'.input = kbc.input
    BY <1>1, <2>1, <2>3 DEF Kbc
  <2> QED
    BY <1>1, <2>2, <2>4 DEF A20Inv, Kbc, AfterScan
<1> QED
  BY <1>2, <1>3, <1>4, <1>5, <1>6, <1>7, LaterSteps DEF Next, Cpu, Devices

LEMMA InitA20 == Init => A20Inv
<1> SUFFICES ASSUME Init PROVE A20Inv
  OBVIOUS
<1>1. <<>> \in Seq(Bytes)
  OBVIOUS
<1>2. kbc \in Kbc /\ kbc.input = "none"
  BY <1>1 DEF Init, Controller, Kbc
<1>3. al \in Bytes /\ phase = "bios"
  BY DEF Init, Bytes
<1> QED
  BY <1>2, <1>3 DEF A20Inv, Kbc, Phases, BeforeScan, AfterScan

\* However often somebody presses a key meanwhile, the kernel is entered with
\* A20 on and the keyboard enabled: a key that is taken for the output port
\* passes through or al, 2 as well, or resets the machine. (stage2.asm)
THEOREM KernelEnteredWithA20 == Spec => []A20AtKernel
<1>1. Init => A20Inv
  BY InitA20
<1>2. A20Inv /\ [Next]_vars => A20Inv'
  BY A20Step
<1>3. A20Inv => A20AtKernel
  BY DEF A20Inv, A20AtKernel, AtKernel, AfterScan
<1> QED
  BY <1>1, <1>2, <1>3, PTL DEF Spec

-----------------------------------------------------------------------------
(* The scan of the buses                                                   *)

\* Apart from the scan, nobody touches what it has found.
LEMMA OutsideScan ==
  ASSUME A20Inv, [Next]_vars, ~CheckDevice, ~Settle, ~ScanDone
  PROVE  /\ UNCHANGED <<machine, at, running, uhci0>>
         /\ phase \in BeforeScan \cup {"hung"} => phase' \in BeforeScan \cup {"hung"}
         /\ phase = "scan" => phase' = "scan"
         /\ phase \in AfterScan => phase' \in AfterScan
<1> USE OrderIs DEF BeforeScan, AfterScan
<1>1. CASE LoadStage2 \/ SwitchToPm
  BY <1>1 DEF LoadStage2, SwitchToPm, Then, pci
<1>2. ASSUME NEW here \in {"ad", "d0", "d1", "data", "ae"}, Command(here)
      PROVE  /\ UNCHANGED <<machine, at, running, uhci0>>
             /\ phase \in BeforeScan /\ phase' \in BeforeScan
  BY <1>2 DEF Command, Then, pci
<1>3. CASE ReadPort \/ PressKey
  BY <1>3 DEF ReadPort, PressKey, Then, pci, cpu
<1>4. CASE StartRead \/ FinishRead \/ ReadDone \/ CheckMagic \/ CopySegment \/ JumpToKernel
  BY <1>4 DEF StartRead, FinishRead, ReadDone, CheckMagic, CopySegment, JumpToKernel,
              Then, pci, cpu
<1>5. CASE Answer \/ \E command \in {"ad", "d0", "d1", "ae"} : Take(command)
  BY <1>5 DEF Answer, Take, pci, cpu
<1>6. CASE TakePort
  <2>1. phase = "ae"
    BY <1>6, PendingIs DEF TakePort, A20Inv, Phases
  <2> QED
    BY <1>6, <2>1 DEF TakePort, pci, cpu
<1>7. CASE Stay \/ UNCHANGED vars
  BY <1>7 DEF Stay, vars, pci, cpu
<1> QED
  BY <1>1, <1>2, <1>3, <1>4, <1>5, <1>6, <1>7 DEF Next, Cpu, Devices

\* check_device finds every UHCI function of a card.
LEMMA AllFunctionsScanned ==
  ASSUME NEW card \in Cards
  PROVE  {f \in Scanned(card) : card.kind[f] = "uhci"}
           = {f \in 0 .. FUNCTIONS - 1 : card.kind[f] = "uhci"}
<1>1. FUNCTIONS \in Nat /\ FUNCTIONS > 0
  BY BootAssumption DEF BootAssumption
<1>2. Scanned(card) \subseteq 0 .. FUNCTIONS - 1
  BY <1>1 DEF Scanned
<1>3. ASSUME NEW f \in 0 .. FUNCTIONS - 1, card.kind[f] = "uhci"
      PROVE  f \in Scanned(card)
  BY <1>1, <1>3 DEF Scanned, Cards
<1> QED
  BY <1>2, <1>3

\* The scan passes the slot that it looks at, and no other.
LEMMA NextSlot ==
  ASSUME NEW a \in [bus : 0 .. BUSES, device : 0 .. DEVICES - 1], a.bus < BUSES,
         NEW b, b = IF a.device + 1 < DEVICES THEN [a EXCEPT !.device = @ + 1]
                    ELSE [bus |-> a.bus + 1, device |-> 0]
  PROVE  /\ b \in [bus : 0 .. BUSES, device : 0 .. DEVICES - 1]
         /\ <<a.bus, a.device>> \in Slots
         /\ \A slot \in Slots :
              (slot[1] < b.bus \/ (slot[1] = b.bus /\ slot[2] < b.device))
              <=> \/ slot[1] < a.bus \/ (slot[1] = a.bus /\ slot[2] < a.device)
                  \/ slot = <<a.bus, a.device>>
<1>0. BUSES \in Nat /\ BUSES > 0 /\ DEVICES \in Nat /\ DEVICES > 0
  BY BootAssumption DEF BootAssumption
<1>a. a.bus \in 0 .. BUSES /\ a.device \in 0 .. DEVICES - 1
  OBVIOUS
<1>1. /\ BUSES \in Nat /\ BUSES > 0 /\ DEVICES \in Nat /\ DEVICES > 0
      /\ a.bus \in 0 .. BUSES - 1 /\ a.device \in 0 .. DEVICES - 1
  BY <1>0, <1>a
<1>2. <<a.bus, a.device>> \in Slots
  BY <1>1 DEF Slots
<1>3. \A slot \in Slots : /\ slot[1] \in 0 .. BUSES - 1 /\ slot[2] \in 0 .. DEVICES - 1
                          /\ slot = <<a.bus, a.device>> <=> slot[1] = a.bus /\ slot[2] = a.device
  BY DEF Slots
<1>4. CASE a.device + 1 < DEVICES
  <2>1. b.bus = a.bus /\ b.device = a.device + 1
        /\ b \in [bus : 0 .. BUSES, device : 0 .. DEVICES - 1]
    BY <1>1, <1>4
  <2> QED
    BY <1>1, <1>2, <1>3, <2>1
<1>5. CASE ~(a.device + 1 < DEVICES)
  <2>1. b.bus = a.bus + 1 /\ b.device = 0 /\ a.device = DEVICES - 1
        /\ b \in [bus : 0 .. BUSES, device : 0 .. DEVICES - 1]
    BY <1>1, <1>5
  <2> QED
    BY <1>1, <1>2, <1>3, <2>1
<1> QED
  BY <1>4, <1>5

LEMMA ScanStep ==
  ASSUME A20Inv, ScanInv, [Next]_vars
  PROVE  ScanInv'
<1>0. BUSES \in Nat /\ BUSES > 0 /\ DEVICES \in Nat /\ DEVICES > 0
  BY BootAssumption DEF BootAssumption
<1>1. ASSUME ~CheckDevice, ~Settle, ~ScanDone
      PROVE  ScanInv'
  <2>1. /\ UNCHANGED <<machine, at, running, uhci0>>
        /\ phase \in BeforeScan \cup {"hung"} => phase' \in BeforeScan \cup {"hung"}
        /\ phase = "scan" => phase' = "scan"
        /\ phase \in AfterScan => phase' \in AfterScan
    BY <1>1, OutsideScan
  <2>2. Uhci' = Uhci /\ \A x : Passed(x)' = Passed(x)
    BY <2>1 DEF Uhci, Passed
  <2>3. phase \in Phases
    BY DEF A20Inv
  <2> QED
    BY <2>1, <2>2, <2>3 DEF ScanInv, Phases, BeforeScan, AfterScan
<1>2. CASE Settle
  <2>1. /\ UNCHANGED <<machine, running, uhci0>> /\ phase = "settle" /\ phase' = "scan"
        /\ at' = [bus |-> 0, device |-> 0]
    BY <1>2, OrderIs DEF Settle, Then
  <2>2. Uhci' = Uhci
    BY <2>1 DEF Uhci
  <2>3. running = Uhci /\ uhci0 = <<>>
    BY <2>1 DEF ScanInv, BeforeScan
  <2>4. at' \in [bus : 0 .. BUSES, device : 0 .. DEVICES - 1]
    BY <1>0, <2>1
  <2>5. \A x \in Uhci : ~Passed(x[1])'
    <3>1. \A x \in Uhci : x[1][1] \in Nat /\ x[1][2] \in Nat
      BY <1>0 DEF Uhci, Slots
    <3> QED
      BY <2>1, <3>1 DEF Passed
  <2> QED
    BY <2>1, <2>2, <2>3, <2>4, <2>5 DEF ScanInv, BeforeScan, AfterScan
<1>3. CASE CheckDevice
  <2> DEFINE slot == <<at.bus, at.device>>
             found == {f \in Scanned(machine[slot]) : machine[slot].kind[f] = "uhci"}
  <2>1. /\ phase = "scan" /\ phase' = "scan" /\ at.bus < BUSES /\ UNCHANGED machine
        /\ at' = IF at.device + 1 < DEVICES THEN [at EXCEPT !.device = @ + 1]
                 ELSE [bus |-> at.bus + 1, device |-> 0]
    BY <1>3 DEF CheckDevice, NextBus, cpu
  <2>2. running' = running \ {<<slot, f>> : f \in found}
        /\ (found = {} => uhci0' = uhci0)
        /\ (found # {} => \E f \in found : uhci0' = <<slot, f>>)
    BY <1>3 DEF CheckDevice, add_uhci
  <2>3. /\ at \in [bus : 0 .. BUSES, device : 0 .. DEVICES - 1]
        /\ running = {x \in Uhci : ~Passed(x[1])} /\ machine \in [Slots -> Cards]
        /\ uhci0 = <<>> <=> running = Uhci
    BY <2>1 DEF ScanInv
  <2>4. /\ at' \in [bus : 0 .. BUSES, device : 0 .. DEVICES - 1] /\ slot \in Slots
        /\ \A s \in Slots : Passed(s)' <=> (Passed(s) \/ s = slot)
    BY <2>1, <2>3, NextSlot DEF Passed
  <2>5. Uhci' = Uhci
    BY <2>1 DEF Uhci
  <2>6. found = {f \in 0 .. FUNCTIONS - 1 : machine[slot].kind[f] = "uhci"}
    BY <2>3, <2>4, AllFunctionsScanned
  <2> HIDE DEF found
  <2>7. \A x \in Uhci : x[1] \in Slots /\ (x[1] = slot <=> x \in {<<slot, f>> : f \in found})
    BY <2>4, <2>6 DEF Uhci
  <2>8. {<<slot, f>> : f \in found} \subseteq Uhci
    BY <2>4, <2>6 DEF Uhci
  <2>9. running' = {x \in Uhci : ~Passed(x[1])'}
    BY <2>2, <2>3, <2>4, <2>7
  <2>10. uhci0' \in Uhci \cup {<<>>}
    BY <2>2, <2>8 DEF ScanInv
  <2>11. uhci0' = <<>> <=> running' = Uhci
    <3>1. CASE found = {}
      BY <2>2, <2>3, <3>1
    <3>2. CASE found # {}
      <4>1. PICK f \in found : uhci0' = <<slot, f>>
        BY <2>2, <3>2
      <4>2. uhci0' # <<>> /\ <<slot, f>> \in Uhci /\ <<slot, f>> \notin running'
        BY <2>2, <2>8, <4>1
      <4> QED
        BY <4>2
    <3> QED
      BY <3>1, <3>2
  <2> QED
    BY <2>1, <2>3, <2>4, <2>5, <2>9, <2>10, <2>11 DEF ScanInv, BeforeScan, AfterScan
<1>4. CASE ScanDone
  <2>1. /\ phase = "scan" /\ phase' = "read" /\ at.bus >= BUSES
        /\ UNCHANGED <<machine, at, running, uhci0>>
    BY <1>4, OrderIs DEF ScanDone, Then, pci
  <2>2. Uhci' = Uhci
    BY <2>1 DEF Uhci
  <2>3. \A x \in Uhci : Passed(x[1])
    <3>1. \A x \in Uhci : x[1][1] \in 0 .. BUSES - 1
      BY DEF Uhci, Slots
    <3>2. at.bus \in Nat
      BY <2>1 DEF ScanInv
    <3> QED
      BY <1>0, <2>1, <3>1, <3>2 DEF Passed
  <2>4. running = {} /\ (uhci0 = <<>> <=> Uhci = {})
    BY <2>1, <2>3 DEF ScanInv
  <2> QED
    BY <2>1, <2>2, <2>4 DEF ScanInv, BeforeScan, AfterScan
<1> QED
  BY <1>1, <1>2, <1>3, <1>4

\* On every machine no UHCI controller runs any more when the kernel is entered,
\* and bus0, device0 and function0 name one if there is one: the scan passes
\* every slot once, and finds every function of a card although its test for
\* an absent device never succeeds. (check_all_buses, check_device, add_uhci)
THEOREM EveryControllerStopped == Spec => []ControllersStopped
<1>1. Init => A20Inv /\ ScanInv
  <2> SUFFICES ASSUME Init PROVE A20Inv /\ ScanInv
    OBVIOUS
  <2>1. A20Inv
    BY InitA20
  <2>2. ScanInv
    BY DEF Init, ScanInv, BeforeScan, AfterScan
  <2> QED
    BY <2>1, <2>2
<1>2. A20Inv /\ ScanInv /\ [Next]_vars => (A20Inv /\ ScanInv)'
  BY A20Step, ScanStep
<1>3. A20Inv /\ ScanInv => ControllersStopped
  BY DEF ScanInv, ControllersStopped, AtKernel, AfterScan
<1> QED
  BY <1>1, <1>2, <1>3, PTL DEF Spec

-----------------------------------------------------------------------------
(* The loading of the kernel                                               *)

\* The division drops the uninitialised variables that stage2_end counts.
LEMMA FirstSectorFollows == FirstSector = 1 + Stage2Sectors
<1>1. /\ SECTOR \in Nat /\ SECTOR > 0 /\ Stage2Sectors \in Nat
      /\ BssBytes \in Nat /\ BssBytes < SECTOR
  BY BootAssumption DEF BootAssumption
<1>2. \A q, r \in Nat : r < SECTOR => (q * SECTOR + r) \div SECTOR = q
  BY <1>1
<1> QED
  BY <1>1, <1>2 DEF FirstSector

LEMMA Places ==
  /\ SECS \in Nat /\ SECS > 0 /\ BUFFER \in Nat /\ Stage2Sectors \in Nat
  /\ \A k \in 0 .. SECS - 1 : BUFFER + k \in Buffer /\ BUFFER + k \in Memory
  /\ BUFFER \in Memory /\ BUFFER \in Buffer
  /\ Len(Segments) \in Nat /\ DOMAIN Segments = 1 .. Len(Segments)
  /\ \A k \in DOMAIN Segments :
       /\ Segments[k].offset \in Nat /\ Segments[k].paddr \in Nat
       /\ Segments[k].filesz \in Nat /\ Segments[k].memsz \in Nat
       /\ Area(Segments[k]) \subseteq Memory
<1>1. SECS \in Nat /\ SECS > 0 /\ BUFFER \in Nat /\ Stage2Sectors \in Nat
  BY BootAssumption DEF BootAssumption
<1>2. \A k \in 0 .. SECS - 1 : BUFFER + k \in Buffer
  BY <1>1 DEF Buffer
<1>3. BUFFER \in Buffer
  BY <1>1 DEF Buffer
<1>4. Segments \in Seq([null : BOOLEAN, offset : Nat, paddr : Nat,
                        filesz : Nat, memsz : Nat])
  BY BootAssumption DEF BootAssumption
<1>5. Len(Segments) \in Nat /\ DOMAIN Segments = 1 .. Len(Segments)
  BY <1>4
<1>6. \A k \in DOMAIN Segments :
        Segments[k] \in [null : BOOLEAN, offset : Nat, paddr : Nat,
                         filesz : Nat, memsz : Nat]
  BY <1>4, <1>5, ElementOfSeq
<1>7. \A k \in DOMAIN Segments : Area(Segments[k]) \subseteq Memory
  BY DEF Memory
<1>8. Buffer \subseteq Memory
  BY DEF Memory
<1> QED
  BY <1>1, <1>2, <1>3, <1>5, <1>6, <1>7, <1>8

LEMMA OffsetInside ==
  ASSUME NEW o \in Nat, NEW p \in Nat, NEW z \in Nat, NEW a \in Nat, NEW m \in Nat,
         o + z <= m, p <= a, a < p + z
  PROVE  o + (a - p) \in 0 .. m - 1
OBVIOUS

LEMMA SectorsDiffer ==
  ASSUME NEW k PROVE Sector(k) # Junk
BY DEF Sector, Junk

\* Before the buses are scanned nobody touches the drive or the memory.
LEMMA OutsideLoad ==
  ASSUME A20Inv, [Next]_vars, ~CheckDevice, ~ScanDone, ~StartRead, ~Answer,
         ~FinishRead, ~ReadDone, ~CheckMagic, ~CopySegment, ~JumpToKernel
  PROVE  /\ UNCHANGED <<drive, n, mem, failed>>
         /\ phase' \in Phases
         /\ phase \in AfterScan \/ phase' \in AfterScan => phase' = phase
<1> USE OrderIs DEF BeforeScan, AfterScan, Phases
<1>0. phase \in Phases
  BY DEF A20Inv
<1>1. CASE LoadStage2 \/ SwitchToPm
  BY <1>1 DEF LoadStage2, SwitchToPm, Then, disk
<1>2. ASSUME NEW here \in {"ad", "d0", "d1", "data", "ae"}, Command(here)
      PROVE  /\ UNCHANGED <<drive, n, mem, failed>>
             /\ phase \in BeforeScan /\ phase' \in BeforeScan
  BY <1>2 DEF Command, Then, disk
<1>3. CASE ReadPort \/ PressKey \/ Settle
  BY <1>0, <1>3 DEF ReadPort, PressKey, Settle, Then, disk, cpu
<1>4. CASE \E command \in {"ad", "d0", "d1", "ae"} : Take(command)
  BY <1>0, <1>4 DEF Take, disk, cpu
<1>5. CASE TakePort
  <2>1. phase = "ae"
    BY <1>5, PendingIs DEF TakePort, A20Inv
  <2> QED
    BY <1>5, <2>1 DEF TakePort, disk, cpu
<1>6. CASE Stay \/ UNCHANGED vars
  BY <1>0, <1>6 DEF Stay, vars, disk, cpu
<1> QED
  BY <1>1, <1>2, <1>3, <1>4, <1>5, <1>6 DEF Next, Cpu, Devices

LEMMA LoadStep ==
  ASSUME A20Inv, LoadInv, [Next]_vars
  PROVE  LoadInv'
<1> USE Places, OrderIs
<1>1. /\ phase \in Phases /\ n \in Nat
      /\ DOMAIN mem = Memory /\ mem = [a \in Memory |-> mem[a]]
      /\ drive = [state |-> drive.state, asked |-> drive.asked, data |-> drive.data]
      /\ drive.state \in {"ready", "busy"} /\ drive.asked \in BOOLEAN
      /\ drive.state = "busy" => phase = "read" /\ drive.asked
      /\ drive.asked => phase = "read" /\ n < SECS
      /\ failed \in BOOLEAN /\ (phase = "read" => n <= SECS)
  BY DEF LoadInv
<1>2. ASSUME ~CheckDevice, ~ScanDone, ~StartRead, ~Answer, ~FinishRead, ~ReadDone,
             ~CheckMagic, ~CopySegment, ~JumpToKernel
      PROVE  LoadInv'
  <2>1. /\ UNCHANGED <<drive, n, mem, failed>> /\ phase' \in Phases
        /\ phase \in AfterScan \/ phase' \in AfterScan => phase' = phase
    BY <1>2, OutsideLoad
  <2>2. \A s : InPlace(s)' = InPlace(s)
    BY <2>1 DEF InPlace
  <2>3. phase' = "kernel" /\ ~failed => KernelLoaded'
    BY <2>1 DEF LoadInv, KernelLoaded, AtKernel, AfterScan
  <2> QED
    BY <2>1, <2>2, <2>3 DEF LoadInv, AfterScan
<1>3. CASE CheckDevice
  <2>1. /\ phase = "scan" /\ phase' = "scan" /\ UNCHANGED <<drive, n, failed>>
        /\ mem' = mem \/ mem' = [mem EXCEPT ![BUFFER] = Globals]
    BY <1>3 DEF CheckDevice, add_uhci, cpu
  <2>2. DOMAIN mem' = Memory /\ mem' = [a \in Memory |-> mem'[a]]
    BY <1>1, <2>1
  <2> QED
    BY <1>1, <2>1, <2>2 DEF LoadInv
<1>4. CASE ScanDone
  <2>1. phase = "scan" /\ phase' = "read" /\ n' = 0 /\ UNCHANGED <<drive, mem, failed>>
    BY <1>4 DEF ScanDone, Then
  <2> QED
    BY <1>1, <2>1 DEF LoadInv, Phases, AfterScan
<1>5. CASE StartRead
  <2>1. /\ phase = "read" /\ phase' = "read" /\ n < SECS /\ UNCHANGED <<n, mem, failed>>
        /\ drive' = [drive EXCEPT !.state = "busy", !.asked = TRUE]
    BY <1>5 DEF StartRead, cpu
  <2>2. drive' = [state |-> "busy", asked |-> TRUE, data |-> drive.data]
    BY <1>1, <2>1
  <2> QED
    BY <1>1, <2>1, <2>2 DEF LoadInv
<1>6. CASE Answer
  <2>1. drive.state = "busy" /\ UNCHANGED <<phase, n, mem>>
    BY <1>6 DEF Answer, cpu
  <2>2. PICK data \in {Sector(FirstSector + n), Junk} :
          /\ drive' = [drive EXCEPT !.state = "ready", !.data = data]
          /\ failed' = (failed \/ data = Junk)
    BY <1>6 DEF Answer
  <2>3. drive' = [state |-> "ready", asked |-> drive.asked, data |-> data]
    BY <1>1, <2>2
  <2>4. failed' \in BOOLEAN /\ (~failed' => ~failed /\ data = Sector(1 + Stage2Sectors + n))
    BY <1>1, <2>2, FirstSectorFollows
  <2>5. phase = "read" /\ drive.asked
    BY <1>1, <2>1
  <2> QED
    BY <1>1, <2>1, <2>3, <2>4, <2>5 DEF LoadInv
<1>7. CASE FinishRead
  <2>1. /\ phase = "read" /\ phase' = "read" /\ drive.asked /\ drive.state = "ready"
        /\ mem' = [mem EXCEPT ![BUFFER + n] = drive.data] /\ n' = n + 1
        /\ drive' = [drive EXCEPT !.asked = FALSE] /\ failed' = failed
    BY <1>7 DEF FinishRead, waitdisk, cpu
  <2>2. drive' = [state |-> "ready", asked |-> FALSE, data |-> drive.data]
    BY <1>1, <2>1
  <2>3. n < SECS /\ BUFFER + n \in Memory
    BY <1>1, <2>1
  <2>4. DOMAIN mem' = Memory /\ mem' = [a \in Memory |-> mem'[a]]
        /\ \A a \in Memory : mem'[a] = IF a = BUFFER + n THEN drive.data ELSE mem[a]
    BY <1>1, <2>1, <2>3
  <2>5. ~failed => \A k \in 0 .. n : mem'[BUFFER + k] = Sector(1 + Stage2Sectors + k)
    <3> SUFFICES ASSUME ~failed, NEW k \in 0 .. n
                 PROVE  mem'[BUFFER + k] = Sector(1 + Stage2Sectors + k)
      OBVIOUS
    <3>1. BUFFER + k \in Memory
      BY <1>1, <2>3
    <3>2. CASE k = n
      BY <2>1, <2>4, <3>1, <3>2 DEF LoadInv
    <3>3. CASE k < n
      <4>1. BUFFER + k # BUFFER + n /\ k \in 0 .. n - 1
        BY <1>1, <3>3
      <4> QED
        BY <2>1, <2>4, <3>1, <4>1 DEF LoadInv
    <3> QED
      BY <1>1, <3>2, <3>3
  <2>6. n' \in Nat /\ n' <= SECS /\ n' - 1 = n
    BY <1>1, <2>1, <2>3
  <2>7. /\ drive'.state = "ready" /\ drive'.asked = FALSE
        /\ drive' = [state |-> drive'.state, asked |-> drive'.asked, data |-> drive'.data]
    BY <2>2
  <2>8. phase' = "read" /\ failed' = failed /\ failed \in BOOLEAN
    BY <1>1, <2>1
  <2>9. ~failed' => \A k \in 0 .. n' - 1 : mem'[BUFFER + k] = Sector(1 + Stage2Sectors + k)
    BY <2>5, <2>6, <2>8
  <2>10. phase' \in Phases
    BY <1>1, <2>1
  <2> HIDE Places, OrderIs
  <2> QED
    BY <2>4, <2>6, <2>7, <2>8, <2>9, <2>10, Zenon DEF LoadInv
<1>8. CASE ReadDone
  <2>1. phase = "read" /\ phase' = "check" /\ n >= SECS /\ UNCHANGED <<drive, n, mem, failed>>
    BY <1>8 DEF ReadDone, Then, disk
  <2>2. n = SECS /\ ~drive.asked
    BY <1>1, <2>1
  <2> QED
    BY <1>1, <2>1, <2>2 DEF LoadInv, Phases, AfterScan
<1>9. CASE CheckMagic
  <2>1. /\ phase = "check" /\ phase' \in {"copy", "kernel"} /\ n' = 1
        /\ UNCHANGED <<drive, mem, failed>>
        /\ phase' = "kernel" => mem[BUFFER] # Sector(1 + Stage2Sectors)
    BY <1>9 DEF CheckMagic, Then
  <2>2. ~failed => mem[BUFFER] = Sector(1 + Stage2Sectors)
    <3>1. BUFFER + 0 = BUFFER /\ 1 + Stage2Sectors + 0 = 1 + Stage2Sectors /\ 0 \in 0 .. SECS - 1
      OBVIOUS
    <3> QED
      BY <2>1, <3>1 DEF LoadInv
  <2>3. \A k \in DOMAIN Segments : ~(k < 1)
    OBVIOUS
  <2>4. ~failed => phase' = "copy" /\
          \A k \in 0 .. SECS - 1 : mem[BUFFER + k] = Sector(1 + Stage2Sectors + k)
    BY <2>1, <2>2 DEF LoadInv
  <2>5. phase' \in Phases /\ phase' # "read" /\ ~drive.asked /\ drive.state # "busy"
    BY <1>1, <2>1 DEF Phases, AfterScan
  <2>6. /\ n' \in Nat /\ n' >= 1 /\ phase' # "check"
        /\ \A k \in DOMAIN Segments : ~(k < n')
    BY <2>1, <2>3
  <2>7. ~failed' => /\ phase' = "copy"
                    /\ \A k \in 0 .. SECS - 1 : mem'[BUFFER + k] = Sector(1 + Stage2Sectors + k)
    BY <2>1, <2>4
  <2> QED
    BY <1>1, <2>1, <2>5, <2>6, <2>7 DEF LoadInv
<1>10. CASE CopySegment
  <2>0. PICK s : s = Segments[n]
    OBVIOUS
  <2>1. /\ phase = "copy" /\ phase' = "copy" /\ n <= Len(Segments)
        /\ n' = n + 1 /\ UNCHANGED <<drive, failed>>
        /\ mem' = IF s.null THEN mem
                  ELSE [a \in Memory |->
                          IF a \notin Area(s) THEN mem[a]
                          ELSE IF mem[BUFFER] = Junk THEN Junk ELSE Copied(s, a)]
    BY <1>10, <2>0 DEF CopySegment, cpu
  <2>2. DOMAIN mem' = Memory /\ mem' = [a \in Memory |-> mem'[a]]
    BY <1>1, <2>1
  <2>3. ASSUME ~failed
        PROVE  /\ \A k \in 0 .. SECS - 1 : mem'[BUFFER + k] = Sector(1 + Stage2Sectors + k)
               /\ \A k \in DOMAIN Segments : k < n' /\ ~Segments[k].null => InPlace(Segments[k])'
    <3>1. /\ n >= 1 /\ n \in DOMAIN Segments
          /\ \A k \in 0 .. SECS - 1 : mem[BUFFER + k] = Sector(1 + Stage2Sectors + k)
          /\ \A k \in DOMAIN Segments : k < n /\ ~Segments[k].null => InPlace(Segments[k])
      <4>1. n >= 1
        BY <2>1, <2>3 DEF LoadInv
      <4>2. n \in DOMAIN Segments
        BY <1>1, <2>1, <4>1
      <4> QED
        BY <2>1, <2>3, <4>1, <4>2 DEF LoadInv
    <3>2. CASE s.null
      <4>1. mem' = mem /\ \A k \in DOMAIN Segments : k < n' /\ ~Segments[k].null => k < n
        BY <1>1, <2>0, <2>1, <3>2
      <4> QED
        BY <3>1, <4>1 DEF InPlace
    <3>3. CASE ~s.null
      <4>1. mem[BUFFER] # Junk
        <5>1. BUFFER + 0 = BUFFER /\ 0 \in 0 .. SECS - 1
          OBVIOUS
        <5> QED
          BY <3>1, <5>1, SectorsDiffer
      <4>2. \A a \in Memory : mem'[a] = IF a \in Area(s) THEN Copied(s, a) ELSE mem[a]
        BY <2>1, <3>3, <4>1
      <4>3. /\ s.offset + s.filesz <= SECS /\ Area(s) \cap Buffer = {}
            /\ \A l \in DOMAIN Segments : ~Segments[l].null /\ l # n =>
                 Area(s) \cap Area(Segments[l]) = {}
        BY <2>0, <3>1, <3>3, LayoutAssumption DEF LayoutAssumption
      <4>4. \A k \in 0 .. SECS - 1 : mem'[BUFFER + k] = Sector(1 + Stage2Sectors + k)
        BY <3>1, <4>2, <4>3
      <4>5. InPlace(s)'
        <5> SUFFICES ASSUME NEW a \in Area(s)
                     PROVE  mem'[a] = IF a < s.paddr + s.filesz
                              THEN Sector(1 + Stage2Sectors + s.offset + (a - s.paddr)) ELSE Zero
          BY DEF InPlace
        <5>1. a \in Memory /\ mem'[a] = Copied(s, a)
          BY <2>0, <3>1, <4>2
        <5>2. CASE a < s.paddr + s.filesz
          <6>1. /\ s.offset \in Nat /\ s.paddr \in Nat /\ s.filesz \in Nat
                /\ a \in Nat /\ a >= s.paddr
            BY <2>0, <3>1 DEF Area
          <6> DEFINE k == s.offset + (a - s.paddr)
          <6>2. k \in 0 .. SECS - 1
            BY <4>3, <5>2, <6>1, OffsetInside
          <6>3. BUFFER + s.offset + (a - s.paddr) = BUFFER + k
                /\ 1 + Stage2Sectors + s.offset + (a - s.paddr) = 1 + Stage2Sectors + k
            BY <6>1
          <6>4. mem[BUFFER + k] = Sector(1 + Stage2Sectors + k)
            BY <3>1, <6>2
          <6> HIDE DEF k
          <6> QED
            BY <5>1, <5>2, <6>3, <6>4 DEF Copied
        <5>3. CASE ~(a < s.paddr + s.filesz)
          BY <5>1, <5>3 DEF Copied
        <5> QED
          BY <5>2, <5>3
      <4>6. ASSUME NEW k \in DOMAIN Segments, k < n', ~Segments[k].null, k # n
            PROVE  InPlace(Segments[k])'
        <5>1. k < n /\ InPlace(Segments[k])
          BY <1>1, <2>1, <3>1, <4>6
        <5>2. \A a \in Area(Segments[k]) : mem'[a] = mem[a]
          BY <4>2, <4>3, <4>6
        <5> QED
          BY <5>1, <5>2 DEF InPlace
      <4> QED
        BY <2>0, <4>4, <4>5, <4>6
    <3> QED
      BY <3>2, <3>3
  <2>4. ~failed => n' >= 1
    BY <1>1, <2>1
  <2> QED
    <3>1. n' \in Nat /\ ~drive.asked /\ drive.state # "busy"
      BY <1>1, <2>1
    <3> QED
      BY <1>1, <2>1, <2>2, <2>3, <2>4, <3>1 DEF LoadInv
<1>11. CASE JumpToKernel
  <2>1. /\ phase = "copy" /\ phase' = "kernel" /\ n > Len(Segments)
        /\ UNCHANGED <<drive, n, mem, failed>>
    BY <1>11 DEF JumpToKernel, Then, disk
  <2>2. ~failed => KernelLoaded'
    <3>1. ~failed => \A k \in DOMAIN Segments : ~Segments[k].null => InPlace(Segments[k])
      BY <1>1, <2>1 DEF LoadInv
    <3> QED
      BY <2>1, <3>1 DEF KernelLoaded, InPlace
  <2> QED
    BY <1>1, <2>1, <2>2 DEF LoadInv, Phases, AfterScan
<1> QED
  BY <1>2, <1>3, <1>4, <1>5, <1>6, <1>7, <1>8, <1>9, <1>10, <1>11

\* Every image that is laid out the way linker.ld does it is in its place when
\* the kernel is entered, unless the drive failed: the sectors are the ones
\* behind the second stage, the scan has left the buffer before it is filled,
\* and no copy overwrites what is still to be copied. (parse_ELF)
THEOREM KernelInPlace == Spec => []KernelLoaded
<1>1. Init => A20Inv /\ LoadInv
  <2> SUFFICES ASSUME Init PROVE LoadInv
    BY InitA20
  <2> QED
    BY DEF Init, LoadInv, Phases, BeforeScan
<1>2. A20Inv /\ LoadInv /\ [Next]_vars => (A20Inv /\ LoadInv)'
  BY A20Step, LoadStep
<1>3. LoadInv => KernelLoaded
  BY DEF LoadInv, KernelLoaded, AtKernel
<1> QED
  BY <1>1, <1>2, <1>3, PTL DEF Spec
=============================================================================
