------------------------------ MODULE Keyboard ------------------------------
(***************************************************************************)
(* The keyboard driver (kb.c) between the 8042 controller and the screen:  *)
(* the keyboard queues scan codes, the controller hands them over one byte *)
(* at a time and raises IRQ 1, keyboard_handler turns them into keyStatus  *)
(* and characters, and caps lock makes the handler talk back to set the    *)
(* light.  main() runs keyboard_install after interrupts are on, so IRQ 1  *)
(* may fall between any two of its steps.                                  *)
(*                                                                         *)
(* A scan code is the key it belongs to and a flag, up, for the 0x80 bit.  *)
(* keyStatus is the set of the numbers of its bits that are 1.             *)
(***************************************************************************)
EXTENDS Integers, Sequences, FiniteSets

CONSTANTS
  Keys,       \* the keys of the keyboard that are used
  MaxEvents   \* bound: how often a key goes down, repeats or goes up

\* kbdus, for the keys that the model knows and for the bytes that are not
\* scan codes; NUL stands for an entry that is 0
kbdus ==
  [lctrl |-> "$", rctrl |-> "$", lshift |-> "L", rshift |-> "R", lalt |-> "A",
   f1 |-> "D", up |-> "U", left |-> "Z", right |-> "V", down |-> "X",
   insert |-> "#", delete |-> "%", caps |-> "C", a |-> "a", one |-> "1",
   space |-> " ", menu |-> "NUL", E0 |-> "NUL", FA |-> "NUL", FE |-> "NUL"]

\* The prefix 0xE0, and the answers 0xFA (done) and 0xFE (not understood)
NoCodes == {"E0", "FA", "FE"}

\* Keys whose code comes after the prefix
Extended == {"rctrl", "up", "left", "right", "down", "insert", "delete", "menu"}

ASSUME KeyboardAssumption ==
  /\ Keys \subseteq DOMAIN kbdus \ NoCodes
  /\ MaxEvents \in Nat

VARIABLES
  keyStatus,   \* bits of keyStatus
  lookup,      \* has initShiftLookup filled shiftLookup?
  boot,        \* where main() is, from sti to the end of keyboard_install
  hpc,         \* where the handler of IRQ 1 is
  echo,        \* the last call of the screen by the handler, and its cause
  held,        \* keyboard: the keys that are down
  capsSent,    \* keyboard: has it sent an odd number of caps lock codes?
  events,      \* keyboard: events so far
  queue,       \* keyboard: bytes not yet handed to the controller
  expect,      \* keyboard: is the next byte the argument of 0xED?
  led,         \* keyboard: the caps lock light
  obf,         \* controller: output buffer (port 0x60, status bit 0)
  ibf,         \* controller: input buffer (status bit 1)
  irr,         \* interrupt controller: IRQ 1 is requested
  litByKey     \* was the light last set for a caps lock key, main() being done?

vars == <<keyStatus, lookup, boot, hpc, echo, held, capsSent, events, queue,
          expect, led, obf, ibf, irr, litByKey>>

keyboardVars == <<held, capsSent, events>>
driverVars == <<keyStatus, lookup, echo, litByKey>>

-----------------------------------------------------------------------------
(* keyStatus *)

\* The keys that have a bit, in the order of their bits
TagOfBit == <<"$", "L", "R", "A", "D", "E", "F", "G", "H", "I", "J", "K", "?",
              "M", "N", "S", "T", "U", "!", "Z", "V", "\"", "X", "@", "#",
              "%", "^", "&">>
Tags == {TagOfBit[i] : i \in 1 .. 28}
BitOf(tag) == (CHOOSE i \in 1 .. 28 : TagOfBit[i] = tag) - 1
CapsBit == 28

\* isAltPressed and its siblings
Pressed(tag) == BitOf(tag) \in keyStatus
isCapsOn == CapsBit \in keyStatus
ShiftPressed == Pressed("L") \/ Pressed("R")

\* Mutant: the release clears the neighbouring bit.
ReleasedOther(tag) ==
  IF tag \in Tags THEN keyStatus \ {BitOf(tag) + 1} ELSE keyStatus

\* keyStatus after the release of a key (no bit for caps lock)
Released(tag) == IF tag \in Tags THEN keyStatus \ {BitOf(tag)} ELSE keyStatus

\* Mutant: the bit of caps lock is one too high.
CapsToggledWide ==
  IF CapsBit + 1 \in keyStatus THEN keyStatus \ {CapsBit + 1}
                              ELSE keyStatus \cup {CapsBit + 1}

\* Mutant: caps lock can only be switched on.
CapsToggledOnce == keyStatus \cup {CapsBit}

\* keyStatus after a caps lock code: the mask 0x0Effffff of line 235 clears
\* bits 28 to 31, and bit 24
CapsToggled ==
  IF isCapsOn THEN keyStatus \cap ((0 .. 27) \ {24})
              ELSE keyStatus \cup {CapsBit}

\* Mutant: letters ignore the shift keys.
UpperCaseCapsOnly == isCapsOn

\* The condition under which a letter is put in upper case; && binds tighter
\* than ||, so the right shift key alone is enough
UpperCase ==
  \/ Pressed("R")
  \/ Pressed("L") /\ ~isCapsOn
  \/ isCapsOn /\ ~Pressed("R") /\ ~Pressed("L")

\* shiftLookup: 0 where initShiftLookup assigns nothing
shiftLookup(tag) == IF lookup /\ tag = "1" THEN "!" ELSE "NUL"

\* The character of the default case
CharOf(tag) ==
  IF tag = "a"
    THEN IF UpperCase THEN "A" ELSE "a"
    ELSE IF ShiftPressed THEN shiftLookup(tag) ELSE tag

\* The keys with a bit that also call the screen: delete puts character 127
ScreenCall == [t \in {"%", "U", "Z", "V", "X"} |->
  CASE t = "%" -> "DEL" [] t = "U" -> "moveCursorUp" [] t = "Z" -> "moveCursorLeft"
    [] t = "V" -> "moveCursorRight" [] t = "X" -> "moveCursorDown"]

-----------------------------------------------------------------------------
(* Bytes of the keyboard.  caps and held remember for the properties what  *)
(* was so when the byte was sent.                                          *)

Byte(key, up) == [key |-> key, up |-> up, caps |-> capsSent, held |-> held]
NoCode(b) == [key |-> b, up |-> TRUE, caps |-> FALSE, held |-> {}]
None == "none"
NoByte == [key |-> None, up |-> FALSE, caps |-> FALSE, held |-> {}]
NoEcho == [call |-> None, key |-> None, held |-> {}, caps |-> FALSE, ready |-> FALSE]
Codes(key, up) ==
  (IF key \in Extended THEN <<NoCode("E0")>> ELSE <<>>) \o <<Byte(key, up)>>

Init ==
  /\ keyStatus = {} /\ lookup = FALSE /\ boot = "sti" /\ hpc = "idle"
  /\ echo = NoEcho /\ litByKey = FALSE
  /\ held = {} /\ capsSent = FALSE /\ events = 0
  /\ queue = <<>> /\ expect = FALSE /\ led \in BOOLEAN
  /\ obf = NoByte /\ ibf = None /\ irr = FALSE

-----------------------------------------------------------------------------
(* The keyboard and the controller *)

\* A key goes down, or repeats while it is down.
Press(k) ==
  /\ events < MaxEvents
  /\ queue' = queue \o Codes(k, FALSE)
  /\ held' = held \cup {k}
  /\ capsSent' = (IF k = "caps" THEN ~capsSent ELSE capsSent)
  /\ events' = events + 1
  /\ UNCHANGED <<driverVars, boot, hpc, expect, led, obf, ibf, irr>>

Release(k) ==
  /\ events < MaxEvents
  /\ k \in held
  /\ queue' = queue \o Codes(k, TRUE)
  /\ held' = held \ {k}
  /\ events' = events + 1
  /\ UNCHANGED <<driverVars, boot, hpc, capsSent, expect, led, obf, ibf, irr>>

\* The controller takes the next byte; a full buffer raises IRQ 1, once.
HandOver ==
  /\ queue # <<>> /\ obf = NoByte
  /\ obf' = Head(queue)
  /\ queue' = Tail(queue)
  /\ irr' = TRUE
  /\ UNCHANGED <<driverVars, keyboardVars, boot, hpc, expect, led, ibf>>

\* The keyboard obeys a byte of the driver: 0xED waits for its argument, and
\* an argument that nothing waits for is refused.
Obey ==
  /\ ibf # None
  /\ ibf' = None
  /\ expect' = (ibf = "ED")
  /\ led' = (IF ibf # "ED" /\ expect THEN ibf = "04" ELSE led)
  /\ queue' = Append(queue, NoCode(IF ibf = "ED" \/ expect THEN "FA" ELSE "FE"))
  /\ UNCHANGED <<driverVars, keyboardVars, boot, hpc, obf, irr>>

-----------------------------------------------------------------------------
(* keyboard_install, in main() *)

\* main() goes from one of its steps to the next when no handler runs.
Boot(from, to) == hpc = "idle" /\ boot = from /\ boot' = to

\* From here on irq_routines[1] is the handler
Install ==
  /\ Boot("sti", "check1")
  /\ UNCHANGED <<driverVars, keyboardVars, hpc, queue, expect, led, obf, ibf, irr>>

\* The wait of sendByte ends ...
BootCheck ==
  /\ \/ Boot("check1", "out1")
     \/ Boot("check2", "out2")
  /\ ibf = None
  /\ UNCHANGED <<driverVars, keyboardVars, hpc, queue, expect, led, obf, ibf, irr>>

\* ... and its outb follows, whatever a handler did in between
BootOut ==
  /\ \/ Boot("out1", "check2") /\ ibf' = "ED"
     \/ Boot("out2", "lookup") /\ ibf' = "00"
  /\ UNCHANGED <<driverVars, keyboardVars, hpc, queue, expect, led, obf, irr>>

initShiftLookup ==
  /\ Boot("lookup", "done")
  /\ lookup' = TRUE
  /\ UNCHANGED <<keyStatus, echo, litByKey, keyboardVars, hpc, queue, expect,
                 led, obf, ibf, irr>>

-----------------------------------------------------------------------------
(* IRQ 1, which runs with interrupts off *)

\* irq_handler finds no routine and only ends the interrupt: the byte stays.
NoRoutine ==
  /\ irr /\ hpc = "idle" /\ boot = "sti"
  /\ irr' = FALSE
  /\ UNCHANGED <<driverVars, keyboardVars, boot, hpc, queue, expect, led, obf, ibf>>

Interrupt ==
  /\ irr /\ hpc = "idle" /\ boot # "sti"
  /\ irr' = FALSE
  /\ hpc' = "handler"
  /\ UNCHANGED <<driverVars, keyboardVars, boot, queue, expect, led, obf, ibf>>

\* Mutant: the handler peeks at the byte and leaves it in the buffer.
TakenNot == obf

\* Port 0x60 is empty once it was read
Taken == NoByte

\* scancode & 0x80: a key went up, or a byte that is no scan code (0xE0, 0xFA
\* and 0xFE lose the bit and find 0 in kbdus)
HandleRelease ==
  /\ hpc = "handler" /\ obf.up
  /\ keyStatus' = Released(kbdus[obf.key])
  /\ obf' = Taken
  /\ hpc' = "idle"
  /\ UNCHANGED <<lookup, echo, litByKey, keyboardVars, boot, queue, expect, led,
                 ibf, irr>>

\* keyStatus after a key with a bit went down
PressedToo(tag) == keyStatus \cup {BitOf(tag)}

\* The screen is called for the byte in the buffer
Echo(call) == [call |-> call, key |-> obf.key, held |-> obf.held,
               caps |-> obf.caps, ready |-> lookup]

\* A key with a bit went down.
HandlePress ==
  /\ hpc = "handler" /\ ~obf.up /\ kbdus[obf.key] \in Tags
  /\ keyStatus' = PressedToo(kbdus[obf.key])
  /\ echo' = (IF kbdus[obf.key] \in DOMAIN ScreenCall
                THEN Echo(ScreenCall[kbdus[obf.key]]) ELSE echo)
  /\ obf' = Taken
  /\ hpc' = "idle"
  /\ UNCHANGED <<lookup, litByKey, keyboardVars, boot, queue, expect, led,
                 ibf, irr>>

\* Caps lock: the status changes first, then the light is set.
HandleCaps ==
  /\ hpc = "handler" /\ ~obf.up /\ kbdus[obf.key] = "C"
  /\ keyStatus' = CapsToggled
  /\ obf' = Taken
  /\ hpc' = "send1"
  /\ UNCHANGED <<lookup, echo, litByKey, keyboardVars, boot, queue, expect, led,
                 ibf, irr>>

\* sendByte(0x60, 0xED): the handler spins until the controller takes a byte.
SendCommand ==
  /\ hpc = "send1" /\ ibf = None
  /\ ibf' = "ED"
  /\ hpc' = "send2"
  /\ UNCHANGED <<driverVars, keyboardVars, boot, queue, expect, led, obf, irr>>

\* The argument that switchCapsLightOn and switchCapsLightOff send
LightByte == IF isCapsOn THEN "04" ELSE "00"

SendLight ==
  /\ hpc = "send2" /\ ibf = None
  /\ ibf' = LightByte
  /\ hpc' = "idle"
  /\ litByKey' = (boot = "done")
  /\ UNCHANGED <<keyStatus, lookup, echo, keyboardVars, boot, queue, expect,
                 led, obf, irr>>

\* The default case: a character goes to the screen.
HandleChar ==
  /\ hpc = "handler" /\ ~obf.up /\ kbdus[obf.key] \notin Tags \cup {"C"}
  /\ echo' = Echo(CharOf(kbdus[obf.key]))
  /\ obf' = Taken
  /\ hpc' = "idle"
  /\ UNCHANGED <<keyStatus, lookup, litByKey, keyboardVars, boot, queue, expect,
                 led, ibf, irr>>

-----------------------------------------------------------------------------
Controller == HandOver \/ Obey
Main == Install \/ BootCheck \/ BootOut \/ initShiftLookup
Handler ==
  \/ NoRoutine \/ Interrupt \/ HandleRelease \/ HandlePress \/ HandleCaps
  \/ SendCommand \/ SendLight \/ HandleChar

Next ==
  \/ \E k \in Keys : Press(k) \/ Release(k)
  \/ Controller
  \/ Main
  \/ Handler

Spec == Init /\ [][Next]_vars

\* The controller works, main() gets the processor when no handler has it,
\* and interrupts are on outside handlers.
FairSpec == Spec /\ WF_vars(HandOver) /\ WF_vars(Obey) /\ WF_vars(Main)
                 /\ WF_vars(Handler)

-----------------------------------------------------------------------------
\* Type invariant of the driver, the controller and the keyboard.
TypeOK ==
  /\ keyStatus \subseteq 0 .. CapsBit
  /\ lookup \in BOOLEAN /\ litByKey \in BOOLEAN
  /\ boot \in {"sti", "check1", "out1", "check2", "out2", "lookup", "done"}
  /\ hpc \in {"idle", "handler", "send1", "send2"}
  /\ held \subseteq Keys /\ capsSent \in BOOLEAN /\ events \in 0 .. MaxEvents
  /\ expect \in BOOLEAN /\ led \in BOOLEAN /\ irr \in BOOLEAN
  /\ ibf \in {None, "ED", "00", "04"}
  /\ hpc = "handler" => obf # NoByte

\* Every byte on its way was handled.
Quiescent == queue = <<>> /\ obf = NoByte /\ ibf = None /\ hpc = "idle"

TagHeld(tag) == \E k \in held : kbdus[k] = tag
OneKey(tag) == \A k, l \in Keys : kbdus[k] = tag /\ kbdus[l] = tag => k = l

\* The bits of keyStatus are what the comment at kb.c:15 says: whatever order
\* keys went down, repeated and came up in, once the bytes are handled a bit
\* is set exactly if its key is down.  Insert is left out, since the mask with
\* which kb.c:235 switches caps lock off clears its bit, too; a bit that two
\* keys share, because the prefix 0xE0 is dropped, is cleared when either
\* comes up. (keyboard_handler)
StatusTracksKeys ==
  Quiescent => \A t \in Tags \ {"#"} : OneKey(t) => (Pressed(t) <=> TagHeld(t))

\* Caps lock is on after an odd number of caps lock codes, even though its
\* handler spins on the controller while further bytes arrive, and its light
\* shows it once it was set for a key that was struck after keyboard_install
\* had ended: until then the bytes of main() and of the handler may mix.
CapsFollowsKey ==
  Quiescent => (isCapsOn <=> capsSent) /\ (litByKey => (led <=> isCapsOn))

Meant(e) ==
  LET shift == e.held \cap {"lshift", "rshift"} # {}
  IN CASE e.key = "a" -> IF shift # e.caps THEN "A" ELSE "a"
       [] e.key = "one" -> IF shift THEN "!" ELSE "1"

\* A letter or a digit appears on the screen as the keys that were down when
\* it was struck ask for, although the handler decides by keyStatus when the
\* byte reaches it.  Caps lock together with the right shift key is left out:
\* line 245 of kb.c puts upper case then.
TypedAsMeant ==
  echo.ready /\ echo.key \in {"a", "one"}
      /\ ~(echo.caps /\ "rshift" \in echo.held)
    => echo.call = Meant(echo)

\* No byte that raises IRQ 1 with the handler installed stays in the buffer:
\* the edge is never lost, and the wait for the controller in sendByte ends.
EveryByteRead == (boot # "sti" /\ irr) ~> (obf = NoByte)

=============================================================================
