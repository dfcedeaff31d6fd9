-------------------------------- MODULE Screen --------------------------------
(***************************************************************************)
(* The text screen (screen.c): putc, the scrolling, the cursor of the CRT  *)
(* controller, and the cursor keys, as the processes and the keyboard      *)
(* handler call them.                                                      *)
(*                                                                         *)
(* Processes may be interrupted between any two statements, and between    *)
(* the load and the store of cx++, cy++ and cy--; the handler runs with    *)
(* interrupts off and finishes what it begins.  puts, puti, puth and       *)
(* printf call putc once for each character.                               *)
(***************************************************************************)
EXTENDS Integers, FiniteSets

CONSTANTS
  Procs,       \* the processes that print
  Handler,     \* keyboard_handler
  ROWS,        \* 25
  COLUMNS,     \* 80
  TAB,         \* 8
  BYTE,        \* 2^8, what one register of the CRT controller holds
  WORD,        \* 2^16, the positions that putc computes for a tab
  Printed,     \* the calls of processes: "char", "newline", "return"
  Typed,       \* the calls of the handler
  MaxCalls     \* bound: calls altogether

Threads == Procs \cup {Handler}
Moves == {"up", "down", "left", "right"}
Typable == {"char", "newline", "backspace", "tab", "delete"} \cup Moves

ASSUME ScreenAssumption ==
  /\ Handler \notin Procs /\ IsFiniteSet(Procs)
  /\ ROWS \in Nat \ {0} /\ COLUMNS \in Nat \ {0}
  /\ TAB \in Nat \ {0} /\ BYTE \in Nat \ {0} /\ MaxCalls \in Nat
  /\ WORD \in Nat \ {0} /\ WORD % TAB = 0
  /\ Printed \subseteq {"char", "newline", "return"} /\ Typed \subseteq Typable

\* A row and a column fit in the bytes that move_cursor takes, and the last
\* tab stop behind the screen fits in the word that putc computes it in:
\* 25 and 80 against 2^8, and 2008 against 2^16
ASSUME SizeAssumption ==
  /\ ROWS <= BYTE /\ COLUMNS <= BYTE
  /\ ROWS * COLUMNS + TAB < WORD

VARIABLES
  cx, cy,    \* where the next character goes
  vga,       \* the cells of video memory that are shown
  crt,       \* the CRT controller: the index register and what it selects
  pc,        \* thread -> where it is in screen.c
  call,      \* thread -> what it was called for
  reg,       \* thread -> the local variable or register in use
  calls,     \* calls so far
  mixed,     \* history: has anybody else been at work since the last call
             \* began, or did it return early?
  off,       \* history: did that call, if not mixed, begin off the screen?
  expected   \* history: what that call was to leave behind

shown == <<cx, cy, vga>>
vars == <<shown, crt, pc, call, reg, calls, mixed, off, expected>>

-----------------------------------------------------------------------------
Cells == 0 .. ROWS * COLUMNS - 1
Blank == "blank"
Pos == cy * COLUMNS + cx

OnScreen == cx \in 0 .. COLUMNS - 1 /\ cy \in 0 .. ROWS - 1

Idle == \A t \in Threads : pc[t] = "idle"
OthersIdle(t) == \A u \in Threads \ {t} : pc[u] = "idle"

\* Thread t has the CPU, and interrupts are off while the handler runs
Runs(t) == t = Handler \/ pc[Handler] = "idle"

\* Nothing is expected once calls have mixed, or of one that begins off the
\* screen
Nothing == [cx |-> 0, cy |-> 0, vga |-> [k \in Cells |-> Blank]]
Note(mixing, away, what) ==
  /\ mixed' = mixing
  /\ off' = (away /\ ~mixing)
  /\ expected' = IF mixing \/ away THEN Nothing ELSE what

Step(t, from, to) ==
  /\ Runs(t) /\ pc[t] = from
  /\ pc' = [pc EXCEPT ![t] = to]
  /\ Note(mixed \/ ~OthersIdle(t), off, expected)
  /\ UNCHANGED <<call, calls>>

Load(t, value) == reg' = [reg EXCEPT ![t] = value]

-----------------------------------------------------------------------------
(* What a call is to do, in terms of positions on a tape of cells that is  *)
(* as wide as the screen and moves up when it is full                      *)

\* The stops are the code's: columns 1, 9, 17, ... of the tape, and a tab moves
\* on by two cells at least. Nothing in the repository says where they should be
TabStop(p) == CHOOSE q \in p + 2 .. p + 1 + TAB : q % TAB = 1 % TAB

Target(what) ==
  CASE what = "char"  -> Pos + 1
    [] what = "newline"    -> Pos - cx + COLUMNS
    [] what = "return"    -> Pos - cx
    [] what = "backspace"    -> IF Pos = 0 THEN 0 ELSE Pos - 1
    [] what = "tab"    -> TabStop(Pos)
    [] what = "up"    -> IF cy = 0 THEN Pos ELSE Pos - COLUMNS
    [] what = "down"  -> IF cy = ROWS - 1 THEN Pos ELSE Pos + COLUMNS
    [] what = "left"  -> IF cx = 0 THEN Pos ELSE Pos - 1
    [] what = "right" -> IF cx = COLUMNS - 1 THEN Pos ELSE Pos + 1
    [] OTHER          -> Pos

\* The cell that a call writes
Written(what, k) ==
  CASE what = "char" /\ k = Pos    -> "char"
    [] what = "delete" /\ k = Pos  -> Blank
    [] what = "backspace" /\ k = Pos - 1  -> Blank
    [] OTHER                       -> vga[k]

Specified(what) ==
  LET row == Target(what) \div COLUMNS
      lost == IF row < ROWS THEN 0 ELSE row - ROWS + 1
  IN [cx  |-> Target(what) % COLUMNS,
      cy  |-> row - lost,
      vga |-> [k \in Cells |-> LET from == k + lost * COLUMNS
                               IN IF from \in Cells THEN Written(what, from)
                                  ELSE Blank]]

-----------------------------------------------------------------------------
(* putc and the cursor keys                                                *)

\* Where putc goes first; ptr is computed from cx and cy before anything else
Entry(what) ==
  CASE what = "char" -> "write"
    [] what = "newline"   -> "load_cy"
    [] what = "return"   -> "zero_cx"
    [] OTHER         -> "key"

Begin(t, what) ==
  /\ Runs(t) /\ pc[t] = "idle" /\ calls < MaxCalls
  /\ pc' = [pc EXCEPT ![t] = Entry(what)]
  /\ call' = [call EXCEPT ![t] = what]
  /\ Load(t, Pos)
  /\ calls' = calls + 1
  /\ Note(~OthersIdle(t), ~OnScreen, Specified(what))
  /\ UNCHANGED <<shown, crt>>

\* *ptr = GRAY_ON_CYAN | character; off the screen nobody sees it
WriteChar(t) ==
  /\ Step(t, "write", "test")
  /\ vga' = [k \in Cells |-> IF k = reg[t] THEN "char" ELSE vga[k]]
  /\ UNCHANGED <<cx, cy, crt, reg>>

FitsInRow == cx < COLUMNS - 1

TestColumn(t) ==
  /\ Step(t, "test", IF FitsInRow THEN "load_cx" ELSE "zero_cx")
  /\ UNCHANGED <<shown, crt, reg>>

\* The loads of cx++, of cy++ and of the cy-- of a scroll
LoadCursor(t) ==
  /\ \/ Step(t, "load_cx", "store_cx") /\ Load(t, cx)
     \/ Step(t, "load_cy", "store_cy") /\ Load(t, cy)
     \/ Step(t, "load_row", "store_row") /\ Load(t, cy)
  /\ UNCHANGED <<shown, crt>>

StoreCx(t) ==
  /\ Step(t, "store_cx", "scroll")
  /\ cx' = reg[t] + 1
  /\ UNCHANGED <<cy, vga, crt, reg>>

StoreCy(t) ==
  /\ Step(t, "store_cy", IF call[t] = "newline" THEN "zero_cx" ELSE "scroll")
  /\ cy' = reg[t] + 1
  /\ UNCHANGED <<cx, vga, crt, reg>>

\* cx = 0, before cy++ at the end of a row and after it in a newline
ZeroCx(t) ==
  /\ Step(t, "zero_cx", IF call[t] = "char" THEN "load_cy" ELSE "scroll")
  /\ cx' = 0
  /\ UNCHANGED <<cy, vga, crt, reg>>

\* The remaining cases of putc, and the cursor keys, which do not scroll.
\* Only the handler gets here, and nobody interrupts it.
Backspace ==
  /\ IF cx > 0 THEN cx' = cx - 1 /\ UNCHANGED cy
     ELSE cx' = COLUMNS - 1 /\ cy' = cy - 1
  /\ vga' = [k \in Cells |-> IF k = Pos - 1 THEN Blank ELSE vga[k]]

Tab ==
  LET pos == ((((Pos % WORD) + TAB) \div TAB) * TAB + 1) % WORD
  IN cy' = pos \div COLUMNS /\ cx' = pos % COLUMNS /\ UNCHANGED vga

Delete ==
  /\ vga' = [k \in Cells |-> IF k = Pos THEN Blank ELSE vga[k]]
  /\ UNCHANGED <<cx, cy>>

\* Mutant: the left edge is not looked at.
moveCursorPastEdge(what) ==
  /\ cx' = (IF what = "left" THEN cx - 1 ELSE cx)
  /\ UNCHANGED <<cy, vga>>

\* moveCursorUp, moveCursorDown, moveCursorLeft, moveCursorRight
moveCursor(what) ==
  /\ cy' = CASE what = "up" /\ cy > 0          -> cy - 1
             [] what = "down" /\ cy < ROWS - 1 -> cy + 1
             [] OTHER                          -> cy
  /\ cx' = CASE what = "left" /\ cx > 0              -> cx - 1
             [] what = "right" /\ cx < COLUMNS - 1   -> cx + 1
             [] OTHER                                -> cx
  /\ UNCHANGED vga

Key ==
  /\ LET what == call[Handler]
     IN \/ /\ pc[Handler] = "key" /\ what = "backspace" /\ cx <= 0 /\ cy <= 0
           /\ pc' = [pc EXCEPT ![Handler] = "idle"]
           /\ Note(TRUE, off, Nothing) /\ UNCHANGED <<shown, call, calls>>
        \/ /\ what = "backspace" /\ ~(cx <= 0 /\ cy <= 0)
           /\ Step(Handler, "key", "scroll") /\ Backspace
        \/ what = "tab" /\ Step(Handler, "key", "scroll") /\ Tab
        \/ what = "delete" /\ Step(Handler, "key", "scroll") /\ Delete
        \/ what \in Moves /\ Step(Handler, "key", "cursor") /\ moveCursor(what)
  /\ UNCHANGED <<crt, reg>>

-----------------------------------------------------------------------------
(* scroll_if_needed                                                        *)

ScrollTest(t) ==
  /\ Step(t, "scroll", IF cy >= ROWS THEN "copy" ELSE "cursor")
  /\ Load(t, 1)
  /\ UNCHANGED <<shown, crt>>

\* Mutant: the rows move down.
SourceRowAbove(i) == i - 1

\* The row that memcpy copies in round i of the loop goes to row i - 1
SourceRow(i) == i

CopyRow(t) ==
  /\ reg[t] < ROWS
  /\ Step(t, "copy", "copy")
  /\ vga' = [k \in Cells |-> IF k \div COLUMNS = reg[t] - 1
                             THEN vga[SourceRow(reg[t]) * COLUMNS + (k % COLUMNS)]
                             ELSE vga[k]]
  /\ Load(t, reg[t] + 1)
  /\ UNCHANGED <<cx, cy, crt>>

ClearLastRow(t) ==
  /\ reg[t] >= ROWS
  /\ Step(t, "copy", "load_row")
  /\ vga' = [k \in Cells |-> IF k \div COLUMNS = ROWS - 1 THEN Blank ELSE vga[k]]
  /\ UNCHANGED <<cx, cy, crt, reg>>

\* Mutant: one round of the loop is all there is.
AfterScrollOnce == "cursor"

\* while(cy >= ROWS)
AfterScroll == "scroll"

StoreRow(t) ==
  /\ Step(t, "store_row", AfterScroll)
  /\ cy' = reg[t] - 1
  /\ UNCHANGED <<cx, vga, crt, reg>>

-----------------------------------------------------------------------------
(* update_cursor and move_cursor                                           *)

CursorPos(t) ==
  /\ Step(t, "cursor", "index_low")
  /\ Load(t, ((cy % BYTE) * COLUMNS) + (cx % BYTE))
  /\ UNCHANGED <<shown, crt>>

\* outb(0x3D4, index)
SelectByte(t) ==
  /\ \/ Step(t, "index_low", "data_low") /\ crt' = [crt EXCEPT !.index = "low"]
     \/ Step(t, "index_high", "data_high") /\ crt' = [crt EXCEPT !.index = "high"]
  /\ UNCHANGED <<shown, reg>>

\* Mutant: the high byte is not shifted down.
HighByteUnshifted(pos) == pos

\* (pos >> 8) & 0xFF
HighByte(pos) == pos \div BYTE

\* outb(0x3D5, data) goes to the register that is selected by now
OutData(value) == crt' = [crt EXCEPT ![crt.index] = value % BYTE]

OutByte(t) ==
  /\ \/ /\ Step(t, "data_low", "index_high")
        /\ OutData(reg[t]) /\ UNCHANGED reg
     \/ /\ Step(t, "data_high", "idle")
        /\ OutData(HighByte(reg[t])) /\ Load(t, 0)   \* its locals are gone
  /\ UNCHANGED shown

-----------------------------------------------------------------------------
\* init_video
Init ==
  /\ cx = 0 /\ cy = 0
  /\ vga = [k \in Cells |-> Blank]
  /\ crt = [index |-> "high", low |-> 0, high |-> 0]
  /\ pc = [t \in Threads |-> "idle"]
  /\ call = [t \in Threads |-> "char"]
  /\ reg = [t \in Threads |-> 0]
  /\ calls = 0 /\ mixed = FALSE /\ off = FALSE
  /\ expected = Nothing

Work(t) ==
  \/ WriteChar(t) \/ TestColumn(t) \/ LoadCursor(t) \/ StoreCx(t) \/ StoreCy(t)
  \/ ZeroCx(t) \/ ScrollTest(t) \/ CopyRow(t) \/ ClearLastRow(t) \/ StoreRow(t)
  \/ CursorPos(t) \/ SelectByte(t) \/ OutByte(t)

\* A process prints a character, and the handler echoes one or moves the cursor
Prints == \E t \in Procs, what \in Printed : Begin(t, what)
Types == \E what \in Typed : Begin(Handler, what)

Next ==
  \/ Prints
  \/ Types
  \/ Key
  \/ \E t \in Threads : Work(t)

Spec == Init /\ [][Next]_vars

-----------------------------------------------------------------------------
(* Properties                                                              *)

Places == {"idle", "key", "write", "test", "load_cx", "store_cx", "zero_cx",
           "load_cy", "store_cy", "scroll", "copy", "load_row", "store_row",
           "cursor", "index_low", "data_low", "index_high", "data_high"}

\* Every variable keeps its range. The shared cx may pass the end of the row
\* when a process is interrupted between the test of cx and the store of cx++,
\* by one column for each call at most, and it is never negative; cy may leave
\* the screen in either direction while calls are mixed.
TypeOK ==
  /\ cx \in 0 .. COLUMNS - 1 + MaxCalls
  /\ cy \in Int
  /\ vga \in [Cells -> {Blank, "char"}]
  /\ crt \in [index : {"low", "high"}, low : 0 .. BYTE - 1, high : 0 .. BYTE - 1]
  /\ pc \in [Threads -> Places]
  /\ call \in [Threads -> Printed \cup Typed \cup {"char"}]
  /\ mixed \in BOOLEAN /\ off \in BOOLEAN

\* However calls of processes and keys interleave, the cursor is never left
\* below the last row once everybody is done: whoever raised cy looks at it
\* once more before it returns. It may be left above the first row, since two
\* calls that have both seen cy >= ROWS both lower it. (scroll_if_needed)
NotBelowScreen == Idle => cy < ROWS

\* A call that nobody disturbed and that ends on the screen leaves the hardware
\* cursor where cx and cy say, wherever earlier calls, mixed up, had left cx
\* and cy. (move_cursor, which takes a row that is not on the screen modulo
\* 2^8)
HardwareCursorAgrees ==
  Idle /\ ~mixed /\ OnScreen => crt.high * BYTE + crt.low = Pos

\* A call that nobody disturbed, begun on the screen, moves the cursor and the
\* text as a tape of cells would move, at the end of a row, in the last row,
\* and for every kind of character. (putc, scroll_if_needed, the cursor keys)
TextAsPut ==
  Idle /\ ~mixed /\ ~off => [cx |-> cx, cy |-> cy, vga |-> vga] = expected
===============================================================================
