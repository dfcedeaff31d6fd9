----------------------------- MODULE ScreenProofs -----------------------------
(***************************************************************************)
(* For every number of processes and of calls and for every size of the    *)
(* screen: the cursor is not left below the screen, because a thread that  *)
(* may have moved cy there has yet to look; cx passes the end of the row   *)
(* by one column for each call at most; and a call that nobody disturbs    *)
(* does to the text and to both cursors what it was called for.            *)
(***************************************************************************)
EXTENDS Screen, FiniteSetTheorems, TLAPS

\* Places from which scroll_if_needed is still to test cy
Pending == {"zero_cx", "load_cy", "store_cy", "scroll", "copy", "load_row",
            "store_row"}

Numbers ==
  /\ cx \in Int /\ cy \in Int
  /\ reg \in [Threads -> Int]
  /\ pc \in [Threads -> Places]

Looked == cy < ROWS \/ \E t \in Threads : pc[t] \in Pending

RowInv == Numbers /\ Looked

LEMMA RowInit == Init => RowInv
BY ScreenAssumption DEF ScreenAssumption, Init, RowInv, Numbers, Looked, Places

\* Positions are numbers.
LEMMA Positions ==
  ASSUME Numbers
  PROVE  /\ Pos \in Int
         /\ ((cy % BYTE) * COLUMNS) + (cx % BYTE) \in Int
<1>1. /\ COLUMNS \in Int /\ cx \in Int /\ cy \in Int /\ BYTE \in Nat /\ BYTE > 0
  BY ScreenAssumption DEF ScreenAssumption, Numbers
<1>2. cy % BYTE \in Int /\ cx % BYTE \in Int
  BY <1>1
<1>3. cy * COLUMNS \in Int /\ (cy % BYTE) * COLUMNS \in Int
  BY <1>1, <1>2
<1> QED
  BY <1>1, <1>2, <1>3 DEF Pos

LEMMA KeyNumbers ==
  ASSUME Numbers, Key
  PROVE  Numbers'
<1> USE DEF Numbers
<1>0. /\ COLUMNS \in Nat /\ COLUMNS > 0 /\ TAB \in Nat /\ TAB > 0
      /\ WORD \in Nat /\ WORD > 0 /\ Handler \in Threads
  BY ScreenAssumption DEF ScreenAssumption, Threads
<1>1. pc' \in [Threads -> Places] /\ reg' = reg
  BY DEF Key, Step, Places
<1>2. cx' \in Int /\ cy' \in Int
  <2>1. CASE UNCHANGED shown
    BY <2>1 DEF shown
  <2>2. CASE Backspace
    BY <1>0, <2>2 DEF Backspace
  <2>3. CASE Tab
    <3> DEFINE start == Pos % WORD
               stop == ((start + TAB) \div TAB) * TAB
               pos == (stop + 1) % WORD
    <3>1. start \in Int
      BY <1>0, Positions
    <3> HIDE DEF start
    <3>2. stop \in Int
      BY <1>0, <3>1
    <3> HIDE DEF stop
    <3>3. pos \in Int
      BY <1>0, <3>2
    <3>4. cy' = pos \div COLUMNS /\ cx' = pos % COLUMNS
      BY <2>3 DEF Tab, start, stop
    <3> HIDE DEF pos
    <3> QED
      BY <1>0, <3>3, <3>4
  <2>4. CASE Delete
    BY <2>4 DEF Delete
  <2>5. CASE moveCursor(call[Handler])
    BY <2>5 DEF moveCursor
  <2> QED
    BY <2>1, <2>2, <2>3, <2>4, <2>5 DEF Key
<1> QED
  BY <1>1, <1>2

LEMMA WorkNumbers ==
  ASSUME Numbers, NEW t \in Threads, Work(t)
  PROVE  Numbers'
<1> USE DEF Numbers
<1>1. pc' \in [Threads -> Places]
  BY DEF Work, WriteChar, TestColumn, LoadCursor, StoreCx, StoreCy, ZeroCx,
     ScrollTest, CopyRow, ClearLastRow, StoreRow, AfterScroll, CursorPos, SelectByte,
     OutByte, Step, Places
<1>2. cx' \in Int /\ cy' \in Int
  BY DEF Work, WriteChar, TestColumn, LoadCursor, StoreCx, StoreCy, ZeroCx,
     ScrollTest, CopyRow, ClearLastRow, StoreRow, CursorPos, SelectByte, OutByte, shown
<1>3. CASE CursorPos(t)
  BY <1>1, <1>2, <1>3, Positions DEF CursorPos, Load
<1>4. CASE ~CursorPos(t)
  <2>1. reg' \in [Threads -> Int]
    BY <1>4 DEF Work, WriteChar, TestColumn, LoadCursor, StoreCx, StoreCy, ZeroCx,
       ScrollTest, CopyRow, ClearLastRow, StoreRow, SelectByte, OutByte, Load
  <2> QED
    BY <1>1, <1>2, <2>1
<1> QED
  BY <1>3, <1>4

LEMMA KeyLooked ==
  ASSUME Numbers, Looked, Key
  PROVE  Looked'
<1>0. ROWS \in Nat /\ Handler \in Threads
  BY ScreenAssumption DEF ScreenAssumption, Threads
<1>1. pc[Handler] = "key"
  BY DEF Key, Step
<1>2. CASE pc' = [pc EXCEPT ![Handler] = "scroll"]
  BY <1>0, <1>2 DEF Numbers, Looked, Pending
<1>3. CASE pc' # [pc EXCEPT ![Handler] = "scroll"]
  <2>1. \A u \in Threads : pc[u] \in Pending => pc'[u] \in Pending
    BY <1>1 DEF Key, Step, Numbers, Pending
  <2>2. UNCHANGED shown \/ moveCursor(call[Handler])
    BY <1>3 DEF Key, Step
  <2>3. cy < ROWS => cy' < ROWS
    BY <1>0, <2>2 DEF shown, moveCursor, Numbers
  <2> QED
    BY <2>1, <2>3 DEF Looked
<1> QED
  BY <1>2, <1>3

LEMMA WorkLooked ==
  ASSUME Numbers, Looked, NEW t \in Threads, Work(t)
  PROVE  Looked'
<1>0. ROWS \in Nat
  BY ScreenAssumption DEF ScreenAssumption
<1>1. CASE pc'[t] \in Pending
  BY <1>1 DEF Looked
<1>2. CASE pc'[t] \notin Pending
  <2>1. cy' = cy
    BY <1>2 DEF Work, WriteChar, TestColumn, LoadCursor, StoreCx, StoreCy, ZeroCx,
       ScrollTest, CopyRow, ClearLastRow, StoreRow, AfterScroll, CursorPos,
       SelectByte, OutByte, Step, shown, Numbers, Pending
  <2>2. pc[t] \in Pending => cy < ROWS
    BY <1>0, <1>2 DEF Work, WriteChar, TestColumn, LoadCursor, StoreCx, StoreCy,
       ZeroCx, ScrollTest, CopyRow, ClearLastRow, StoreRow, AfterScroll, CursorPos,
       SelectByte, OutByte, Step, Numbers, Pending
  <2>3. \A u \in Threads \ {t} : pc'[u] = pc[u]
    BY DEF Work, WriteChar, TestColumn, LoadCursor, StoreCx, StoreCy, ZeroCx,
       ScrollTest, CopyRow, ClearLastRow, StoreRow, CursorPos, SelectByte, OutByte,
       Step, Numbers
  <2> QED
    BY <2>1, <2>2, <2>3 DEF Looked
<1> QED
  BY <1>1, <1>2

LEMMA RowStep == RowInv /\ [Next]_vars => RowInv'
<1> SUFFICES ASSUME RowInv, [Next]_vars PROVE RowInv'
  OBVIOUS
<1>1. ASSUME NEW t \in Threads, NEW what, Begin(t, what)
      PROVE  RowInv'
  <2>1. Entry(what) \in Places
    BY DEF Entry, Places
  <2>2. Numbers'
    BY <1>1, <2>1, Positions DEF Begin, Load, shown, RowInv, Numbers
  <2>3. \A u \in Threads : pc[u] \in Pending => pc'[u] \in Pending
    BY <1>1 DEF Begin, RowInv, Numbers, Pending
  <2>4. cy' = cy
    BY <1>1 DEF Begin, shown
  <2> QED
    BY <2>2, <2>3, <2>4 DEF RowInv, Looked
<1>2. CASE Key
  BY <1>2, KeyNumbers, KeyLooked DEF RowInv
<1>3. ASSUME NEW t \in Threads, Work(t)
      PROVE  RowInv'
  BY <1>3, WorkNumbers, WorkLooked DEF RowInv
<1>4. CASE UNCHANGED vars
  BY <1>4 DEF vars, shown, RowInv, Numbers, Looked
<1> QED
  BY <1>1, <1>2, <1>3, <1>4 DEF Next, Prints, Types, Threads

\* For every number of processes and of calls and every size of the screen:
\* when everybody is done, the cursor is not below the last row, however the
\* calls were interleaved. (scroll_if_needed)
THEOREM CursorNotBelowScreen == Spec => []NotBelowScreen
<1>1. RowInv => NotBelowScreen
  BY DEF RowInv, Looked, NotBelowScreen, Idle, Pending
<1> QED
  BY <1>1, RowInit, RowStep, PTL DEF Spec

-----------------------------------------------------------------------------
(* The columns: cx passes the end of the row by one column for each call   *)

\* Places from which a call may still store cx + 1
Counting == {"write", "test", "load_cx", "store_cx"}
Waiting == {t \in Threads : pc[t] \in Counting}

\* Every call that still may store cx + 1 has a column to spare.
ColumnInv ==
  /\ calls \in 0 .. MaxCalls /\ Cardinality(Waiting) <= calls
  /\ cx >= 0 /\ cx + Cardinality(Waiting) <= COLUMNS - 1 + calls
  /\ \A t \in Threads : pc[t] = "store_cx" =>
       reg[t] >= 0 /\ reg[t] + Cardinality(Waiting) <= COLUMNS - 1 + calls

\* The remaining types; memcpy starts with row 1
TableInv ==
  /\ vga \in [Cells -> {Blank, "char"}]
  /\ crt \in [index : {"low", "high"}, low : 0 .. BYTE - 1, high : 0 .. BYTE - 1]
  /\ call \in [Threads -> Printed \cup Typed \cup {"char"}]
  /\ mixed \in BOOLEAN /\ off \in BOOLEAN
  /\ \A t \in Threads : pc[t] = "copy" => reg[t] >= 1

-----------------------------------------------------------------------------
(* A call that nobody disturbs                                             *)

\* The screen with the cursor in column x of row y, after row y was scrolled
\* into view
Settle(x, y, v) ==
  LET lost == IF y < ROWS THEN 0 ELSE y - ROWS + 1
  IN [cx |-> x, cy |-> y - lost,
      vga |-> [k \in Cells |-> IF k + lost * COLUMNS \in Cells
                               THEN v[k + lost * COLUMNS] ELSE Blank]]

\* The cells after the rounds of memcpy from r on, and the clearing of the last row
Scrolled(v, r) ==
  [k \in Cells |-> IF k \div COLUMNS < r - 1 THEN v[k]
                   ELSE IF k + COLUMNS \in Cells THEN v[k + COLUMNS] ELSE Blank]

Laid == [cx |-> cx, cy |-> cy, vga |-> vga]
InRow == cx \in 0 .. COLUMNS - 1

\* The screen after a character was written at the cursor
Advanced == IF FitsInRow THEN Settle(cx + 1, cy, vga) ELSE Settle(0, cy + 1, vga)

\* What thread t has still to do leads to what was expected of its call.
Writing(t) ==
  /\ pc[t] = "write" => /\ OnScreen /\ reg[t] = Pos /\ call[t] = "char"
                        /\ expected = Specified("char")
  /\ pc[t] = "test" => OnScreen /\ call[t] = "char" /\ expected = Advanced
  /\ pc[t] \in {"load_cx", "store_cx"} =>
       OnScreen /\ FitsInRow /\ expected = Settle(cx + 1, cy, vga)
  /\ pc[t] = "store_cx" => reg[t] = cx
  /\ pc[t] \in {"load_cy", "store_cy"} =>
       /\ OnScreen /\ call[t] \in {"char", "newline"} /\ (call[t] = "char" => cx = 0)
       /\ expected = Settle(0, cy + 1, vga)
  /\ pc[t] = "store_cy" => reg[t] = cy
  /\ pc[t] = "zero_cx" =>
       /\ InRow /\ cy \in 0 .. ROWS /\ call[t] \in {"char", "newline", "return"}
       /\ call[t] = "char" => cy < ROWS /\ expected = Settle(0, cy + 1, vga)
       /\ call[t] # "char" => expected = Settle(0, cy, vga)
  /\ pc[t] = "key" =>
       /\ t = Handler /\ OnScreen /\ call[t] \in {"backspace", "tab", "delete"} \cup Moves
       /\ \A what : what = call[t] => expected = Specified(what)

Scrolling(t) ==
  /\ pc[t] = "scroll" => InRow /\ cy >= 0 /\ expected = Settle(cx, cy, vga)
  /\ pc[t] \in {"copy", "load_row", "store_row"} => InRow /\ cy >= ROWS
  /\ pc[t] = "copy" =>
       reg[t] \in 1 .. ROWS /\ expected = Settle(cx, cy - 1, Scrolled(vga, reg[t]))
  /\ pc[t] \in {"load_row", "store_row"} => expected = Settle(cx, cy - 1, vga)
  /\ pc[t] = "store_row" => reg[t] = cy

Outs == {"index_low", "data_low", "index_high", "data_high"}

Finishing(t) == pc[t] \in {"cursor"} \cup Outs => OnScreen /\ expected = Laid

OnCourse(t) == Writing(t) /\ Scrolling(t) /\ Finishing(t)

AloneInv ==
  ~mixed /\ ~off =>
    \/ Idle /\ expected = Laid
    \/ \E t \in Threads : OthersIdle(t) /\ pc[t] # "idle" /\ OnCourse(t)

-----------------------------------------------------------------------------
(* ... and the hardware cursor, wherever the call began                    *)

CrtPos == crt.high * BYTE + crt.low

\* What thread t has put out, and has still to put out, is where the cursor is,
\* if that is on the screen.
PutsOut(t) ==
  /\ pc[t] \in Outs => (OnScreen => reg[t] = Pos)
  /\ pc[t] = "data_low" => crt.index = "low"
  /\ pc[t] \in {"index_high", "data_high"} => (OnScreen => crt.low = Pos % BYTE)
  /\ pc[t] = "data_high" => crt.index = "high"

CursorInv ==
  ~mixed =>
    \/ Idle /\ (OnScreen => CrtPos = Pos)
    \/ \E t \in Threads : OthersIdle(t) /\ pc[t] # "idle" /\ PutsOut(t)

-----------------------------------------------------------------------------
(* Arithmetic of rows and columns                                          *)

LEMMA Constants ==
  /\ ROWS \in Nat /\ ROWS > 0 /\ COLUMNS \in Nat /\ COLUMNS > 0
  /\ TAB \in Nat /\ TAB > 0 /\ BYTE \in Nat /\ BYTE > 0 /\ MaxCalls \in Nat
  /\ WORD \in Nat /\ WORD > 0
  /\ ROWS <= BYTE /\ COLUMNS <= BYTE /\ ROWS * COLUMNS + TAB < WORD
  /\ Handler \in Threads /\ Handler \notin Procs /\ IsFiniteSet(Procs)
BY ScreenAssumption, SizeAssumption DEF Threads

LEMMA Division ==
  ASSUME NEW n \in Int, NEW c \in Nat, c > 0
  PROVE  /\ n \div c \in Int /\ n % c \in 0 .. c - 1
         /\ n = c * (n \div c) + (n % c)
OBVIOUS

LEMMA Quotient ==
  ASSUME NEW c \in Nat, c > 0, NEW q \in Int, NEW p \in Int,
         NEW r \in 0 .. c - 1, NEW s \in 0 .. c - 1, c * q + r = c * p + s
  PROVE  q = p /\ r = s
<1>1. CASE q >= p + 1
  <2>1. c * q >= c * (p + 1)
    BY <1>1
  <2> QED
    BY <2>1
<1>2. CASE q + 1 <= p
  <2>1. c * p >= c * (q + 1)
    BY <1>2
  <2> QED
    BY <2>1
<1>3. CASE q = p
  BY <1>3
<1> QED
  BY <1>1, <1>2, <1>3

\* Column x of row y
LEMMA RowColumn ==
  ASSUME NEW y \in Int, NEW x \in 0 .. COLUMNS - 1
  PROVE  /\ (y * COLUMNS + x) \div COLUMNS = y /\ (y * COLUMNS + x) % COLUMNS = x
         /\ y * COLUMNS + x \in Int
<1> DEFINE n == y * COLUMNS + x
<1>1. COLUMNS \in Nat /\ COLUMNS > 0
  BY Constants
<1>2. n \in Int /\ n = COLUMNS * y + x
  BY <1>1
<1> HIDE DEF n
<1>3. /\ n \div COLUMNS \in Int /\ n % COLUMNS \in 0 .. COLUMNS - 1
      /\ n = COLUMNS * (n \div COLUMNS) + (n % COLUMNS)
  BY <1>1, <1>2, Division
<1>4. n \div COLUMNS = y /\ n % COLUMNS = x
  BY <1>1, <1>2, <1>3, Quotient
<1> QED
  BY <1>2, <1>4 DEF n

\* Row y of the screen
LEMMA CellOf ==
  ASSUME NEW y \in Int, NEW x \in 0 .. COLUMNS - 1
  PROVE  y * COLUMNS + x \in Cells <=> y \in 0 .. ROWS - 1
<1>0. /\ ROWS \in Nat /\ COLUMNS \in Nat /\ COLUMNS > 0 /\ ROWS * COLUMNS \in Nat
      /\ y * COLUMNS \in Int
  BY Constants
<1>1. CASE y < 0
  <2>1. y * COLUMNS <= (-1) * COLUMNS
    BY <1>0, <1>1
  <2>2. y * COLUMNS + x < 0
    BY <1>0, <2>1
  <2> QED
    BY <1>0, <1>1, <2>2 DEF Cells
<1>2. CASE y \in 0 .. ROWS - 1
  <2>1. y * COLUMNS >= 0 /\ y * COLUMNS <= (ROWS - 1) * COLUMNS
    BY <1>0, <1>2
  <2>2. (ROWS - 1) * COLUMNS = ROWS * COLUMNS - COLUMNS
    BY <1>0
  <2>3. y * COLUMNS + x >= 0 /\ y * COLUMNS + x <= ROWS * COLUMNS - 1
    BY <1>0, <2>1, <2>2
  <2> QED
    BY <1>0, <1>2, <2>3 DEF Cells
<1>3. CASE y >= ROWS
  <2>1. y * COLUMNS >= ROWS * COLUMNS
    BY <1>0, <1>3
  <2> QED
    BY <1>0, <1>3, <2>1 DEF Cells
<1> QED
  BY <1>0, <1>1, <1>2, <1>3

\* The row and the column of a cell, and the cell below it
LEMMA CellFacts ==
  ASSUME NEW k \in Cells
  PROVE  /\ k \in Nat /\ k \div COLUMNS \in 0 .. ROWS - 1 /\ k % COLUMNS \in 0 .. COLUMNS - 1
         /\ k = (k \div COLUMNS) * COLUMNS + (k % COLUMNS)
         /\ (k + COLUMNS) \div COLUMNS = (k \div COLUMNS) + 1
         /\ k + COLUMNS = ((k \div COLUMNS) + 1) * COLUMNS + (k % COLUMNS)
         /\ k + COLUMNS \in Cells <=> k \div COLUMNS < ROWS - 1
<1> DEFINE y == k \div COLUMNS
           x == k % COLUMNS
<1>0. ROWS \in Nat /\ COLUMNS \in Nat /\ COLUMNS > 0 /\ ROWS * COLUMNS \in Nat
  BY Constants
<1>1. k \in Nat
  BY <1>0 DEF Cells
<1>2. y \in Int /\ x \in 0 .. COLUMNS - 1 /\ k = COLUMNS * y + x
  BY <1>0, <1>1, Division
<1> HIDE DEF y, x
<1>3. k = y * COLUMNS + x /\ k + COLUMNS = (y + 1) * COLUMNS + x
  BY <1>0, <1>1, <1>2
<1>4. y \in 0 .. ROWS - 1
  BY <1>2, <1>3, CellOf
<1>5. k + COLUMNS \in Cells <=> y + 1 \in 0 .. ROWS - 1
  BY <1>2, <1>3, CellOf
<1>6. y + 1 \in 0 .. ROWS - 1 <=> y < ROWS - 1
  BY <1>0, <1>4
<1>7. (k + COLUMNS) \div COLUMNS = y + 1
  BY <1>2, <1>3, RowColumn
<1> QED
  BY <1>1, <1>2, <1>3, <1>4, <1>5, <1>6, <1>7 DEF x, y


-----------------------------------------------------------------------------
(* Scrolling                                                               *)

\* On the screen nothing scrolls.
LEMMA SettleHere ==
  ASSUME NEW S, NEW v \in [Cells -> S], NEW x, NEW y \in Int, y < ROWS
  PROVE  Settle(x, y, v) = [cx |-> x, cy |-> y, vga |-> v]
<1> DEFINE w == [k \in Cells |-> IF k + 0 * COLUMNS \in Cells
                                 THEN v[k + 0 * COLUMNS] ELSE Blank]
<1>1. \A k \in Cells : k + 0 * COLUMNS = k
  BY Constants, CellFacts
<1>2. w = v
  BY <1>1
<1>3. y - 0 = y
  OBVIOUS
<1>4. Settle(x, y, v) = [cx |-> x, cy |-> y - 0, vga |-> w]
  BY DEF Settle
<1> QED
  BY <1>2, <1>3, <1>4

\* One round of scroll_if_needed takes the text up by a row.
LEMMA SettleScroll ==
  ASSUME NEW v, NEW x, NEW y \in Int, y >= ROWS
  PROVE  Settle(x, y, v) = Settle(x, y - 1, Scrolled(v, 1))
<1> DEFINE n == y - ROWS
           u == Scrolled(v, 1)
<1>0. n \in Nat /\ ROWS \in Nat /\ COLUMNS \in Nat /\ COLUMNS > 0
  BY Constants
<1>1. (IF y < ROWS THEN 0 ELSE y - ROWS + 1) = n + 1
  BY <1>0
<1>2. (IF y - 1 < ROWS THEN 0 ELSE (y - 1) - ROWS + 1) = n
  BY <1>0
<1>3. y - (n + 1) = (y - 1) - n
  BY <1>0
<1> HIDE DEF n
<1>4. ASSUME NEW k \in Cells
      PROVE  (IF k + (n + 1) * COLUMNS \in Cells THEN v[k + (n + 1) * COLUMNS] ELSE Blank)
             = (IF k + n * COLUMNS \in Cells THEN u[k + n * COLUMNS] ELSE Blank)
  <2>1. PICK j : j = k + n * COLUMNS
    OBVIOUS
  <2>2. k \in Nat /\ n * COLUMNS \in Nat /\ (n + 1) * COLUMNS = n * COLUMNS + COLUMNS
    BY <1>0, CellFacts
  <2>3. j \in Nat /\ k + (n + 1) * COLUMNS = j + COLUMNS
    BY <1>0, <2>1, <2>2
  <2>4. CASE j \in Cells
    <3>1. ~(j \div COLUMNS < 1 - 1)
      BY <2>4, CellFacts, Constants
    <3>2. u[j] = IF j + COLUMNS \in Cells THEN v[j + COLUMNS] ELSE Blank
      BY <2>4, <3>1 DEF Scrolled
    <3> QED
      BY <2>1, <2>3, <2>4, <3>2
  <2>5. CASE j \notin Cells
    <3>1. ROWS * COLUMNS \in Nat
      BY <1>0
    <3>2. j + COLUMNS \notin Cells
      BY <1>0, <2>3, <2>5, <3>1 DEF Cells
    <3> QED
      BY <2>1, <2>3, <2>5, <3>2
  <2> QED
    BY <2>4, <2>5
<1> HIDE DEF u
<1>5. [k \in Cells |-> IF k + (n + 1) * COLUMNS \in Cells
                       THEN v[k + (n + 1) * COLUMNS] ELSE Blank]
      = [k \in Cells |-> IF k + n * COLUMNS \in Cells
                         THEN u[k + n * COLUMNS] ELSE Blank]
  BY <1>4
<1>6. Settle(x, y, v) =
        [cx |-> x, cy |-> y - (n + 1),
         vga |-> [k \in Cells |-> IF k + (n + 1) * COLUMNS \in Cells
                                  THEN v[k + (n + 1) * COLUMNS] ELSE Blank]]
  BY <1>1 DEF Settle
<1>7. Settle(x, y - 1, u) =
        [cx |-> x, cy |-> (y - 1) - n,
         vga |-> [k \in Cells |-> IF k + n * COLUMNS \in Cells
                                  THEN u[k + n * COLUMNS] ELSE Blank]]
  BY <1>2 DEF Settle
<1> QED
  BY <1>3, <1>5, <1>6, <1>7 DEF u

\* A round of memcpy does what is left to do for its row ...
LEMMA CopyKeeps ==
  ASSUME NEW S, NEW v \in [Cells -> S], NEW r \in 1 .. ROWS - 1
  PROVE  Scrolled([k \in Cells |-> IF k \div COLUMNS = r - 1
                                   THEN v[r * COLUMNS + (k % COLUMNS)] ELSE v[k]], r + 1)
         = Scrolled(v, r)
<1> DEFINE u == [k \in Cells |-> IF k \div COLUMNS = r - 1
                                 THEN v[r * COLUMNS + (k % COLUMNS)] ELSE v[k]]
<1>0. ROWS \in Nat /\ COLUMNS \in Nat /\ COLUMNS > 0 /\ r \in Nat /\ (r + 1) - 1 = r
  BY Constants
<1>1. ASSUME NEW k \in Cells
      PROVE  (IF k \div COLUMNS < (r + 1) - 1 THEN u[k]
              ELSE IF k + COLUMNS \in Cells THEN u[k + COLUMNS] ELSE Blank)
             = (IF k \div COLUMNS < r - 1 THEN v[k]
                ELSE IF k + COLUMNS \in Cells THEN v[k + COLUMNS] ELSE Blank)
  <2>1. PICK y \in 0 .. ROWS - 1 :
          /\ y = k \div COLUMNS
          /\ (k + COLUMNS) \div COLUMNS = y + 1
          /\ k + COLUMNS = (y + 1) * COLUMNS + (k % COLUMNS)
          /\ k + COLUMNS \in Cells <=> y < ROWS - 1
    BY CellFacts
  <2>2. CASE y < r - 1
    BY <1>0, <2>1, <2>2
  <2>3. CASE y = r - 1
    <3>1. y + 1 = r /\ y < r /\ y < ROWS - 1 /\ ~(y < r - 1)
      BY <1>0, <2>3
    <3>2. u[k] = v[r * COLUMNS + (k % COLUMNS)]
      BY <2>1, <2>3
    <3>3. u[k] = v[k + COLUMNS] /\ k + COLUMNS \in Cells
      BY <2>1, <3>1, <3>2
    <3> HIDE DEF u
    <3> QED
      BY <1>0, <2>1, <3>1, <3>3
  <2>4. CASE y >= r
    <3>1. ~(y < r) /\ ~(y < r - 1) /\ y + 1 # r - 1
      BY <1>0, <2>1, <2>4
    <3>2. k + COLUMNS \in Cells => u[k + COLUMNS] = v[k + COLUMNS]
      BY <2>1, <3>1
    <3> HIDE DEF u
    <3> QED
      BY <1>0, <2>1, <3>1, <3>2
  <2> QED
    BY <1>0, <2>1, <2>2, <2>3, <2>4
<1> HIDE DEF u
<1>2. Scrolled(u, r + 1) = Scrolled(v, r)
  BY <1>1 DEF Scrolled
<1> QED
  BY <1>2 DEF u

\* ... and the clearing of the last row is the rest.
LEMMA ClearKeeps ==
  ASSUME NEW S, NEW v \in [Cells -> S]
  PROVE  Scrolled(v, ROWS) =
           [k \in Cells |-> IF k \div COLUMNS = ROWS - 1 THEN Blank ELSE v[k]]
<1>1. ASSUME NEW k \in Cells
      PROVE  (IF k \div COLUMNS < ROWS - 1 THEN v[k]
              ELSE IF k + COLUMNS \in Cells THEN v[k + COLUMNS] ELSE Blank)
             = (IF k \div COLUMNS = ROWS - 1 THEN Blank ELSE v[k])
  <2>1. /\ k \div COLUMNS \in 0 .. ROWS - 1 /\ ROWS \in Nat
        /\ k + COLUMNS \in Cells <=> k \div COLUMNS < ROWS - 1
    BY CellFacts, Constants
  <2>2. k \div COLUMNS < ROWS - 1 <=> k \div COLUMNS # ROWS - 1
    BY <2>1
  <2> QED
    BY <2>1, <2>2
<1> QED
  BY <1>1 DEF Scrolled


-----------------------------------------------------------------------------
(* What a call is to do, in rows and columns                               *)

LEMMA SpecifiedAs ==
  ASSUME NEW what
  PROVE  Specified(what) = Settle(Target(what) % COLUMNS, Target(what) \div COLUMNS,
                                  [k \in Cells |-> Written(what, k)])
<1> DEFINE row == Target(what) \div COLUMNS
           lost == IF row < ROWS THEN 0 ELSE row - ROWS + 1
           w == [k \in Cells |-> Written(what, k)]
<1>1. \A k \in Cells : w[k] = Written(what, k)
  OBVIOUS
<1>2. Specified(what) =
        [cx |-> Target(what) % COLUMNS, cy |-> row - lost,
         vga |-> [k \in Cells |-> IF k + lost * COLUMNS \in Cells
                                  THEN Written(what, k + lost * COLUMNS) ELSE Blank]]
  BY DEF Specified
<1>3. Settle(Target(what) % COLUMNS, row, w) =
        [cx |-> Target(what) % COLUMNS, cy |-> row - lost,
         vga |-> [k \in Cells |-> IF k + lost * COLUMNS \in Cells
                                  THEN w[k + lost * COLUMNS] ELSE Blank]]
  BY DEF Settle
<1> HIDE DEF row, lost, w
<1> QED
  BY <1>1, <1>2, <1>3 DEF row, w

\* A call whose target is column x of row y
LEMMA SpecifiedAt ==
  ASSUME NEW what, NEW x \in 0 .. COLUMNS - 1, NEW y \in Int,
         Target(what) = y * COLUMNS + x
  PROVE  Specified(what) = Settle(x, y, [k \in Cells |-> Written(what, k)])
BY SpecifiedAs, RowColumn

LEMMA PosFacts ==
  ASSUME OnScreen
  PROVE  /\ Pos = cy * COLUMNS + cx /\ Pos \in Cells /\ Pos \in Nat /\ cy * COLUMNS \in Nat
         /\ cx \in Nat /\ cx < COLUMNS /\ cy \in Nat /\ cy < ROWS
         /\ (cy + 1) * COLUMNS = cy * COLUMNS + COLUMNS
         /\ (cy - 1) * COLUMNS = cy * COLUMNS - COLUMNS
         /\ Pos = 0 <=> cx = 0 /\ cy = 0
<1>1. /\ cx \in 0 .. COLUMNS - 1 /\ cy \in 0 .. ROWS - 1 /\ cx \in Nat /\ cx < COLUMNS
      /\ cy \in Nat /\ cy < ROWS
  BY Constants DEF OnScreen
<1>2. /\ Pos = cy * COLUMNS + cx /\ cy * COLUMNS \in Nat
      /\ (cy + 1) * COLUMNS = cy * COLUMNS + COLUMNS
      /\ (cy - 1) * COLUMNS = cy * COLUMNS - COLUMNS
  BY <1>1, Constants DEF Pos
<1>3. Pos \in Cells
  BY <1>1, <1>2, CellOf
<1>4. Pos \in Nat
  BY <1>1, <1>2
<1>5. cy >= 1 => cy * COLUMNS >= 1
  BY <1>1, Constants
<1>6. cy = 0 => cy * COLUMNS = 0
  BY Constants
<1>7. Pos = 0 <=> cx = 0 /\ cy = 0
  <2>1. PICK n \in Nat : n = cy * COLUMNS /\ (cy >= 1 => n >= 1) /\ (cy = 0 => n = 0)
    BY <1>2, <1>5, <1>6
  <2>2. Pos = n + cx
    BY <1>2, <2>1
  <2>3. cy = 0 \/ cy >= 1
    BY <1>1
  <2> QED
    BY <1>1, <2>1, <2>2, <2>3
<1> QED
  BY <1>1, <1>2, <1>3, <1>4, <1>7

LEMMA SpecifiedChar ==
  ASSUME OnScreen, NEW v, v = [k \in Cells |-> IF k = Pos THEN "char" ELSE vga[k]]
  PROVE  Specified("char") = IF FitsInRow THEN Settle(cx + 1, cy, v)
                                          ELSE Settle(0, cy + 1, v)
<1>1. [k \in Cells |-> Written("char", k)] = v
  BY DEF Written
<1>2. Target("char") = Pos + 1
  BY DEF Target
<1>3. CASE FitsInRow
  <2>1. cx + 1 \in 0 .. COLUMNS - 1 /\ cy \in Int /\ Pos + 1 = cy * COLUMNS + (cx + 1)
    BY <1>3, PosFacts, Constants DEF FitsInRow
  <2> QED
    BY <1>1, <1>2, <1>3, <2>1, SpecifiedAt
<1>4. CASE ~FitsInRow
  <2>1. cx = COLUMNS - 1
    BY <1>4, PosFacts, Constants DEF FitsInRow
  <2>2. 0 \in 0 .. COLUMNS - 1 /\ cy + 1 \in Int /\ Pos + 1 = (cy + 1) * COLUMNS + 0
    BY <2>1, PosFacts, Constants
  <2> QED
    BY <1>1, <1>2, <1>4, <2>2, SpecifiedAt
<1> QED
  BY <1>3, <1>4

LEMMA SpecifiedRow ==
  ASSUME OnScreen, NEW S, vga \in [Cells -> S]
  PROVE  /\ Specified("newline") = Settle(0, cy + 1, vga)
         /\ Specified("return") = Settle(0, cy, vga)
<1>1. /\ [k \in Cells |-> Written("newline", k)] = vga
      /\ [k \in Cells |-> Written("return", k)] = vga
  BY DEF Written
<1>2. Target("newline") = Pos - cx + COLUMNS /\ Target("return") = Pos - cx
  BY DEF Target
<1>3. /\ 0 \in 0 .. COLUMNS - 1 /\ cy + 1 \in Int /\ cy \in Int
      /\ Pos - cx + COLUMNS = (cy + 1) * COLUMNS + 0
      /\ Pos - cx = cy * COLUMNS + 0
  BY PosFacts, Constants
<1> QED
  BY <1>1, <1>2, <1>3, SpecifiedAt

LEMMA SpecifiedBackspace ==
  ASSUME OnScreen, ~(cx = 0 /\ cy = 0),
         NEW v, v = [k \in Cells |-> IF k = Pos - 1 THEN Blank ELSE vga[k]]
  PROVE  Specified("backspace") = IF cx > 0 THEN Settle(cx - 1, cy, v)
                                            ELSE Settle(COLUMNS - 1, cy - 1, v)
<1>1. [k \in Cells |-> Written("backspace", k)] = v
  BY DEF Written
<1>2. Target("backspace") = Pos - 1
  BY PosFacts DEF Target
<1>3. CASE cx > 0
  <2>1. cx - 1 \in 0 .. COLUMNS - 1 /\ cy \in Int /\ Pos - 1 = cy * COLUMNS + (cx - 1)
    BY <1>3, PosFacts, Constants
  <2> QED
    BY <1>1, <1>2, <1>3, <2>1, SpecifiedAt
<1>4. CASE ~(cx > 0)
  <2>1. cx = 0
    BY <1>4, PosFacts
  <2>2. /\ COLUMNS - 1 \in 0 .. COLUMNS - 1 /\ cy - 1 \in Int
        /\ Pos - 1 = (cy - 1) * COLUMNS + (COLUMNS - 1)
    BY <2>1, PosFacts, Constants
  <2> QED
    BY <1>1, <1>2, <1>4, <2>2, SpecifiedAt
<1> QED
  BY <1>3, <1>4

LEMMA SpecifiedDelete ==
  ASSUME OnScreen, NEW v, v = [k \in Cells |-> IF k = Pos THEN Blank ELSE vga[k]]
  PROVE  Specified("delete") = Settle(cx, cy, v)
<1>1. [k \in Cells |-> Written("delete", k)] = v
  BY DEF Written
<1>2. Target("delete") = Pos
  BY DEF Target, Moves
<1>3. cx \in 0 .. COLUMNS - 1 /\ cy \in Int /\ Pos = cy * COLUMNS + cx
  BY PosFacts, Constants
<1> QED
  BY <1>1, <1>2, <1>3, SpecifiedAt

LEMMA SpecifiedMove ==
  ASSUME OnScreen, NEW S, vga \in [Cells -> S], NEW what \in Moves
  PROVE  Specified(what) =
           Settle(CASE what = "left" /\ cx > 0              -> cx - 1
                    [] what = "right" /\ cx < COLUMNS - 1   -> cx + 1
                    [] OTHER                                -> cx,
                  CASE what = "up" /\ cy > 0          -> cy - 1
                    [] what = "down" /\ cy < ROWS - 1 -> cy + 1
                    [] OTHER                          -> cy, vga)
<1>1. [k \in Cells |-> Written(what, k)] = vga
  BY DEF Written, Moves
<1>2. cx \in 0 .. COLUMNS - 1 /\ cy \in Int /\ Pos = cy * COLUMNS + cx
  BY PosFacts, Constants
<1>3. CASE what = "up"
  <2>1. Target(what) = IF cy = 0 THEN Pos ELSE Pos - COLUMNS
    BY <1>3 DEF Target
  <2>2. Target(what) = (IF cy > 0 THEN cy - 1 ELSE cy) * COLUMNS + cx
    BY <2>1, PosFacts, Constants
  <2>3. Specified(what) = Settle(cx, IF cy > 0 THEN cy - 1 ELSE cy, vga)
    BY <1>1, <1>2, <2>2, SpecifiedAt
  <2> QED
    BY <1>3, <2>3
<1>4. CASE what = "down"
  <2>1. Target(what) = IF cy = ROWS - 1 THEN Pos ELSE Pos + COLUMNS
    BY <1>4 DEF Target
  <2>2. Target(what) = (IF cy < ROWS - 1 THEN cy + 1 ELSE cy) * COLUMNS + cx
    BY <2>1, PosFacts, Constants
  <2>3. Specified(what) = Settle(cx, IF cy < ROWS - 1 THEN cy + 1 ELSE cy, vga)
    BY <1>1, <1>2, <2>2, SpecifiedAt
  <2> QED
    BY <1>4, <2>3
<1>5. CASE what = "left"
  <2>1. Target(what) = IF cx = 0 THEN Pos ELSE Pos - 1
    BY <1>5 DEF Target
  <2>2. /\ Target(what) = cy * COLUMNS + (IF cx > 0 THEN cx - 1 ELSE cx)
        /\ (IF cx > 0 THEN cx - 1 ELSE cx) \in 0 .. COLUMNS - 1
    BY <2>1, PosFacts, Constants
  <2>3. Specified(what) = Settle(IF cx > 0 THEN cx - 1 ELSE cx, cy, vga)
    BY <1>1, <1>2, <2>2, SpecifiedAt
  <2> QED
    BY <1>5, <2>3
<1>6. CASE what = "right"
  <2>1. Target(what) = IF cx = COLUMNS - 1 THEN Pos ELSE Pos + 1
    BY <1>6 DEF Target
  <2>2. /\ Target(what) = cy * COLUMNS + (IF cx < COLUMNS - 1 THEN cx + 1 ELSE cx)
        /\ (IF cx < COLUMNS - 1 THEN cx + 1 ELSE cx) \in 0 .. COLUMNS - 1
    BY <2>1, PosFacts, Constants
  <2>3. Specified(what) = Settle(IF cx < COLUMNS - 1 THEN cx + 1 ELSE cx, cy, vga)
    BY <1>1, <1>2, <2>2, SpecifiedAt
  <2> QED
    BY <1>6, <2>3
<1> QED
  BY <1>3, <1>4, <1>5, <1>6 DEF Moves

\* The tab stop that putc computes is the next one.
LEMMA SpecifiedTab ==
  ASSUME OnScreen, NEW S, vga \in [Cells -> S],
         NEW pos, pos = ((((Pos % WORD) + TAB) \div TAB) * TAB + 1) % WORD
  PROVE  /\ Specified("tab") = Settle(pos % COLUMNS, pos \div COLUMNS, vga)
         /\ pos \in Nat
<1>1. [k \in Cells |-> Written("tab", k)] = vga
  BY DEF Written
<1>2. Target("tab") = TabStop(Pos)
  BY DEF Target
<1>3. PICK p \in Nat : p = Pos /\ p + TAB + 1 < WORD
  <2>1. Pos \in Cells
    BY PosFacts
  <2>2. ROWS * COLUMNS \in Nat
    BY Constants
  <2> QED
    BY <2>1, <2>2, Constants DEF Cells
<1>4. p % WORD = p
  <2>1. p = WORD * (p \div WORD) + (p % WORD) /\ p \div WORD \in Int /\ p % WORD \in 0 .. WORD - 1
    BY Division, Constants
  <2>2. p \in 0 .. WORD - 1 /\ p = WORD * 0 + p
    BY <1>3, Constants
  <2> QED
    BY <2>1, <2>2, Quotient, Constants
<1> DEFINE q == (p + TAB) \div TAB
           m == (p + TAB) % TAB
<1>5. q \in Int /\ m \in 0 .. TAB - 1 /\ p + TAB = TAB * q + m
  BY Division, Constants
<1> HIDE DEF q, m
<1>6. PICK s \in Int : s = q * TAB + 1 /\ s = TAB * q + 1
  BY <1>5, Constants
<1>7. s \in p + 2 .. p + 1 + TAB
  BY <1>3, <1>5, <1>6, Constants
<1>8. pos = s
  <2>1. s \in 0 .. WORD - 1
    BY <1>3, <1>7, Constants
  <2>2. s % WORD = s
    <3>1. s = WORD * (s \div WORD) + (s % WORD) /\ s \div WORD \in Int /\ s % WORD \in 0 .. WORD - 1
      BY Division, Constants
    <3>2. s = WORD * 0 + s
      BY <2>1, Constants
    <3> QED
      BY <2>1, <3>1, <3>2, Quotient, Constants
  <2>3. pos = (q * TAB + 1) % WORD
    BY <1>3, <1>4 DEF q
  <2> QED
    BY <1>6, <2>2, <2>3
<1>9. s % TAB = 1 % TAB
  <2>0. TAB \in Nat /\ TAB > 0
    BY Constants
  <2>1. PICK e \in Int, r \in 0 .. TAB - 1 : r = 1 % TAB /\ 1 = TAB * e + r
    BY <2>0, Division
  <2>2. PICK f \in Int, z \in 0 .. TAB - 1 : z = s % TAB /\ s = TAB * f + z
    BY <2>0, Division
  <2>3. PICK g \in Int : g = q + e /\ TAB * g = TAB * q + TAB * e
    BY <1>5, <2>0
  <2>4. TAB * g + r = TAB * f + z
    BY <1>5, <1>6, <2>0, <2>1, <2>2, <2>3
  <2>5. r = z
    BY <2>0, <2>4, Quotient
  <2> QED
    BY <2>1, <2>2, <2>5
<1>10. ASSUME NEW c \in p + 2 .. p + 1 + TAB, c % TAB = 1 % TAB
       PROVE  c = s
  <2>1. c = TAB * (c \div TAB) + (c % TAB) /\ c \div TAB \in Int /\ c % TAB \in 0 .. TAB - 1
    BY Division, Constants
  <2>2. s = TAB * (s \div TAB) + (s % TAB) /\ s \div TAB \in Int /\ s % TAB \in 0 .. TAB - 1
    BY Division, Constants
  <2>3. PICK a \in Int, b \in Int, r \in 0 .. TAB - 1 : c = TAB * a + r /\ s = TAB * b + r
    BY <1>9, <1>10, <2>1, <2>2
  <2>4. c - s < TAB /\ s - c < TAB
    BY <1>3, <1>7, Constants
  <2>5. CASE a > b
    <3>1. TAB * a >= TAB * (b + 1)
      BY <2>5, Constants
    <3> QED
      BY <2>3, <2>4, <3>1, Constants
  <2>6. CASE a < b
    <3>1. TAB * b >= TAB * (a + 1)
      BY <2>6, Constants
    <3> QED
      BY <2>3, <2>4, <3>1, Constants
  <2>7. CASE a = b
    BY <2>3, <2>7
  <2> QED
    BY <2>5, <2>6, <2>7
<1>11. TabStop(p) = s
  BY <1>7, <1>9, <1>10 DEF TabStop
<1>12. Specified("tab") = Settle(pos % COLUMNS, pos \div COLUMNS, vga)
  BY <1>1, <1>2, <1>3, <1>8, <1>11, SpecifiedAs
<1> QED
  BY <1>3, <1>7, <1>8, <1>12, Constants


-----------------------------------------------------------------------------
(* The type invariant                                                      *)

LEMMA WaitingFinite ==
  IsFiniteSet(Waiting) /\ Cardinality(Waiting) \in Nat
<1>1. IsFiniteSet(Threads)
  BY Constants, FS_AddElement DEF Threads
<1>2. Waiting \subseteq Threads
  BY DEF Waiting
<1>3. IsFiniteSet(Waiting)
  BY <1>1, <1>2, FS_Subset
<1> QED
  BY <1>3, FS_CardinalityType

LEMMA WaitingStep ==
  ASSUME Numbers, NEW t \in Threads, NEW q, pc' = [pc EXCEPT ![t] = q]
  PROVE  \E n, m \in Nat :
           /\ n = Cardinality(Waiting) /\ m = Cardinality(Waiting)'
           /\ q \in Counting => m <= n + 1
           /\ q \notin Counting \/ pc[t] \in Counting => m <= n
           /\ q \notin Counting /\ pc[t] \in Counting => m = n - 1
<1>1. pc'[t] = q /\ \A u \in Threads : u # t => pc'[u] = pc[u]
  BY DEF Numbers
<1>2. t \in Waiting <=> pc[t] \in Counting
  BY DEF Waiting
<1>3. PICK n \in Nat : n = Cardinality(Waiting)
  BY WaitingFinite
<1>4. CASE q \in Counting
  <2>1. Waiting' = Waiting \cup {t}
    BY <1>1, <1>4 DEF Waiting
  <2>2. Cardinality(Waiting') = IF t \in Waiting THEN n ELSE n + 1
    BY <1>3, <2>1, WaitingFinite, FS_AddElement
  <2>3. PICK m \in Nat : m = Cardinality(Waiting') /\ m = IF t \in Waiting THEN n ELSE n + 1
    BY <2>2
  <2> QED
    BY <1>2, <1>3, <1>4, <2>3
<1>5. CASE q \notin Counting
  <2>1. Waiting' = Waiting \ {t}
    BY <1>1, <1>5 DEF Waiting
  <2>2. /\ Cardinality(Waiting') = IF t \in Waiting THEN n - 1 ELSE n
        /\ Cardinality(Waiting') \in Nat
    BY <1>3, <2>1, WaitingFinite, FS_RemoveElement, FS_CardinalityType
  <2>3. PICK m \in Nat : m = Cardinality(Waiting') /\ m = IF t \in Waiting THEN n - 1 ELSE n
    BY <2>2
  <2> QED
    BY <1>2, <1>3, <1>5, <2>3
<1> QED
  BY <1>4, <1>5

\* A step that puts cx on the row, or leaves it alone, gives no thread a column
\* more than it had.
LEMMA ColumnKeeps ==
  ASSUME Numbers, Numbers', ColumnInv, NEW t \in Threads, NEW q,
         pc' = [pc EXCEPT ![t] = q], calls' = calls, pc[t] \in Counting \/ q \notin Counting,
         cx' \in 0 .. cx \/ cx' \in 0 .. COLUMNS - 1,
         \A u \in Threads : u # t => reg'[u] = reg[u],
         q = "store_cx" => reg'[t] = cx
  PROVE  ColumnInv'
<1>1. PICK n \in Nat, m \in Nat : n = Cardinality(Waiting) /\ m = Cardinality(Waiting)' /\ m <= n
  BY WaitingStep
<1>2. /\ cx \in Int /\ cx' \in Int /\ calls \in 0 .. MaxCalls /\ COLUMNS \in Nat /\ COLUMNS > 0
      /\ MaxCalls \in Nat /\ \A u \in Threads : reg[u] \in Int /\ reg'[u] \in Int
  BY Constants DEF Numbers, ColumnInv
<1>3. /\ n <= calls /\ cx >= 0 /\ cx + n <= COLUMNS - 1 + calls
      /\ \A u \in Threads : pc[u] = "store_cx" =>
           reg[u] >= 0 /\ reg[u] + n <= COLUMNS - 1 + calls
  BY <1>1 DEF ColumnInv
<1>4. m <= calls /\ cx' >= 0 /\ cx' + m <= COLUMNS - 1 + calls
  BY <1>1, <1>2, <1>3
<1>5. ASSUME NEW u \in Threads, pc'[u] = "store_cx"
      PROVE  reg'[u] >= 0 /\ reg'[u] + m <= COLUMNS - 1 + calls
  <2>1. CASE u = t
    <3>1. reg'[u] = cx
      BY <1>5, <2>1 DEF Numbers
    <3> QED
      BY <1>1, <1>2, <1>3, <3>1
  <2>2. CASE u # t
    <3>1. reg'[u] = reg[u] /\ pc[u] = "store_cx"
      BY <1>5, <2>2 DEF Numbers
    <3> QED
      BY <1>1, <1>2, <1>3, <3>1
  <2> QED
    BY <2>1, <2>2
<1> QED
  BY <1>1, <1>2, <1>4, <1>5 DEF ColumnInv

LEMMA BeginColumn ==
  ASSUME Numbers, ColumnInv, NEW t \in Threads, NEW what, Begin(t, what)
  PROVE  ColumnInv'
<1>1. /\ pc' = [pc EXCEPT ![t] = Entry(what)] /\ calls' = calls + 1 /\ calls < MaxCalls
      /\ cx' = cx /\ reg' = [reg EXCEPT ![t] = Pos]
  BY DEF Begin, Load, shown
<1>2. Entry(what) # "store_cx"
  BY DEF Entry
<1>3. PICK n \in Nat, m \in Nat :
        n = Cardinality(Waiting) /\ m = Cardinality(Waiting)' /\ m <= n + 1
  <2>1. PICK n, m \in Nat :
          /\ n = Cardinality(Waiting) /\ m = Cardinality(Waiting)'
          /\ Entry(what) \in Counting => m <= n + 1
          /\ Entry(what) \notin Counting \/ pc[t] \in Counting => m <= n
    BY <1>1, WaitingStep
  <2> QED
    BY <2>1
<1>4. /\ cx \in Int /\ calls \in 0 .. MaxCalls /\ COLUMNS \in Nat /\ MaxCalls \in Nat
      /\ \A u \in Threads : reg[u] \in Int
  BY Constants DEF Numbers, ColumnInv
<1>5. /\ n <= calls /\ cx >= 0 /\ cx + n <= COLUMNS - 1 + calls
      /\ \A u \in Threads : pc[u] = "store_cx" =>
           reg[u] >= 0 /\ reg[u] + n <= COLUMNS - 1 + calls
  BY <1>3 DEF ColumnInv
<1>6. \A u \in Threads : pc'[u] = "store_cx" => pc[u] = "store_cx" /\ reg'[u] = reg[u]
  BY <1>1, <1>2 DEF Numbers
<1>7. calls' \in 0 .. MaxCalls /\ m <= calls' /\ cx' >= 0 /\ cx' + m <= COLUMNS - 1 + calls'
  BY <1>1, <1>3, <1>4, <1>5
<1>8. \A u \in Threads : pc'[u] = "store_cx" =>
        reg'[u] >= 0 /\ reg'[u] + m <= COLUMNS - 1 + calls'
  BY <1>1, <1>3, <1>4, <1>5, <1>6
<1> QED
  BY <1>3, <1>7, <1>8 DEF ColumnInv

LEMMA StoreColumn ==
  ASSUME Numbers, ColumnInv, NEW t \in Threads, StoreCx(t)
  PROVE  ColumnInv'
<1>1. /\ pc[t] = "store_cx" /\ pc' = [pc EXCEPT ![t] = "scroll"] /\ calls' = calls
      /\ cx' = reg[t] + 1 /\ reg' = reg
  BY DEF StoreCx, Step
<1>2. PICK n \in Nat, m \in Int : n = Cardinality(Waiting) /\ m = Cardinality(Waiting)' /\ m = n - 1
  <2>1. "scroll" \notin Counting /\ pc[t] \in Counting
    BY <1>1 DEF Counting
  <2>2. PICK n, m \in Nat :
          /\ n = Cardinality(Waiting) /\ m = Cardinality(Waiting)'
          /\ "scroll" \notin Counting /\ pc[t] \in Counting => m = n - 1
    BY <1>1, WaitingStep
  <2> QED
    BY <2>1, <2>2
<1>3. /\ calls \in 0 .. MaxCalls /\ COLUMNS \in Nat /\ MaxCalls \in Nat
      /\ \A u \in Threads : reg[u] \in Int
  BY Constants DEF Numbers, ColumnInv
<1>4. /\ n <= calls
      /\ \A u \in Threads : pc[u] = "store_cx" =>
           reg[u] >= 0 /\ reg[u] + n <= COLUMNS - 1 + calls
  BY <1>2 DEF ColumnInv
<1>5. \A u \in Threads : pc'[u] = "store_cx" => pc[u] = "store_cx"
  BY <1>1 DEF Numbers
<1>6. m <= calls /\ cx' >= 0 /\ cx' + m <= COLUMNS - 1 + calls
  BY <1>1, <1>2, <1>3, <1>4
<1>7. \A u \in Threads : pc'[u] = "store_cx" =>
        reg'[u] >= 0 /\ reg'[u] + m <= COLUMNS - 1 + calls
  BY <1>1, <1>2, <1>3, <1>4, <1>5
<1> QED
  BY <1>1, <1>2, <1>3, <1>6, <1>7 DEF ColumnInv


LEMMA WorkColumn ==
  ASSUME Numbers, ColumnInv, NEW t \in Threads, Work(t)
  PROVE  ColumnInv'
<1>0. Numbers'
  BY WorkNumbers
<1>1. CASE StoreCx(t)
  BY <1>1, StoreColumn
<1>2. CASE ~StoreCx(t)
  <2>1. pc' = [pc EXCEPT ![t] = pc'[t]] /\ calls' = calls
    BY DEF Work, WriteChar, TestColumn, LoadCursor, StoreCx, StoreCy, ZeroCx,
       ScrollTest, CopyRow, ClearLastRow, StoreRow, CursorPos, SelectByte, OutByte,
       Step, Numbers
  <2>2. pc[t] \in Counting \/ pc'[t] \notin Counting
    BY <1>2 DEF Work, WriteChar, TestColumn, LoadCursor, StoreCy, ZeroCx, ScrollTest,
       CopyRow, ClearLastRow, StoreRow, AfterScroll, CursorPos, SelectByte, OutByte,
       Step, Counting, Numbers
  <2>3. pc'[t] = "store_cx" => reg'[t] = cx
    BY <1>2 DEF Work, WriteChar, TestColumn, LoadCursor, StoreCy, ZeroCx, ScrollTest,
       CopyRow, ClearLastRow, StoreRow, AfterScroll, CursorPos, SelectByte, OutByte,
       Step, Load, Numbers
  <2>4. cx' = cx \/ cx' = 0
    BY <1>2 DEF Work, WriteChar, TestColumn, LoadCursor, StoreCy, ZeroCx, ScrollTest,
       CopyRow, ClearLastRow, StoreRow, CursorPos, SelectByte, OutByte, shown
  <2>5. cx' \in 0 .. cx \/ cx' \in 0 .. COLUMNS - 1
    BY <2>4, Constants DEF ColumnInv, Numbers
  <2>6. \A u \in Threads : u # t => reg'[u] = reg[u]
    BY DEF Work, WriteChar, TestColumn, LoadCursor, StoreCx, StoreCy, ZeroCx,
       ScrollTest, CopyRow, ClearLastRow, StoreRow, CursorPos, SelectByte, OutByte,
       Load, Numbers
  <2> QED
    BY <1>0, <2>1, <2>2, <2>3, <2>5, <2>6, ColumnKeeps
<1> QED
  BY <1>1, <1>2

\* A key puts cx in the row, or moves it to the left.
LEMMA KeyCursor ==
  ASSUME Numbers, Key, cx >= 0
  PROVE  cx' \in 0 .. cx \/ cx' \in 0 .. COLUMNS - 1
<1>0. /\ COLUMNS \in Nat /\ COLUMNS > 0 /\ TAB \in Nat /\ TAB > 0 /\ WORD \in Nat /\ WORD > 0
      /\ cx \in Int /\ cy \in Int
  BY Constants DEF Numbers
<1>1. CASE UNCHANGED shown
  BY <1>0, <1>1 DEF shown
<1>2. CASE Backspace
  <2>1. CASE cx > 0
    BY <1>0, <1>2, <2>1 DEF Backspace
  <2>2. CASE ~(cx > 0)
    BY <1>0, <1>2, <2>2 DEF Backspace
  <2> QED
    BY <2>1, <2>2
<1>3. CASE Tab
  <2>1. Pos % WORD \in Int
    BY <1>0, Positions
  <2>2. PICK q \in Int : q = ((Pos % WORD) + TAB) \div TAB
    BY <1>0, <2>1
  <2>3. PICK pos \in Int : pos = (q * TAB + 1) % WORD
    BY <1>0
  <2>4. cx' = pos % COLUMNS
    BY <1>3, <2>2, <2>3 DEF Tab
  <2> QED
    BY <1>0, <2>4
<1>4. CASE Delete
  BY <1>0, <1>4 DEF Delete
<1>5. CASE moveCursor(call[Handler])
  BY <1>0, <1>5 DEF moveCursor
<1> QED
  BY <1>1, <1>2, <1>3, <1>4, <1>5 DEF Key


LEMMA KeyColumn ==
  ASSUME Numbers, ColumnInv, Key
  PROVE  ColumnInv'
<1>1. /\ pc' = [pc EXCEPT ![Handler] = pc'[Handler]] /\ calls' = calls /\ reg' = reg
      /\ pc'[Handler] \in {"idle", "scroll", "cursor"}
  BY Constants DEF Key, Step, Numbers
<1>2. pc'[Handler] \notin Counting /\ pc'[Handler] # "store_cx"
  BY <1>1 DEF Counting
<1>3. cx' \in 0 .. cx \/ cx' \in 0 .. COLUMNS - 1
  BY KeyCursor DEF ColumnInv
<1> QED
  BY <1>1, <1>2, <1>3, KeyNumbers, ColumnKeeps, Constants

\* The cells, the registers of the controller, and the calls
LEMMA BeginTable ==
  ASSUME Numbers, TableInv, NEW t \in Threads, NEW what \in Printed \cup Typed, Begin(t, what)
  PROVE  TableInv'
<1>1. /\ UNCHANGED <<vga, crt>> /\ call' = [call EXCEPT ![t] = what]
      /\ pc' = [pc EXCEPT ![t] = Entry(what)] /\ reg' = [reg EXCEPT ![t] = Pos]
  BY DEF Begin, Load, shown
<1>2. Entry(what) # "copy"
  BY DEF Entry
<1>3. mixed' \in BOOLEAN /\ off' \in BOOLEAN
  BY DEF Begin, Note
<1>4. \A u \in Threads : pc'[u] = "copy" => pc[u] = "copy" /\ reg'[u] = reg[u]
  BY <1>1, <1>2 DEF Numbers
<1> QED
  BY <1>1, <1>3, <1>4 DEF TableInv

LEMMA StepMixed ==
  ASSUME NEW t, NEW from, NEW to, mixed \in BOOLEAN, Step(t, from, to)
  PROVE  mixed' \in BOOLEAN /\ off' \in BOOLEAN /\ call' = call
BY DEF Step, Note

LEMMA KeyTable ==
  ASSUME Numbers, TableInv, Key
  PROVE  TableInv'
<1>1. mixed' \in BOOLEAN /\ off' \in BOOLEAN /\ call' = call
  <2>1. mixed \in BOOLEAN
    BY DEF TableInv
  <2>2. CASE \E to : Step(Handler, "key", to)
    BY <2>1, <2>2, StepMixed
  <2>3. CASE Note(TRUE, off, Nothing) /\ call' = call
    BY <2>3 DEF Note
  <2> QED
    BY <2>2, <2>3 DEF Key
<1>4. crt' = crt /\ reg' = reg
  BY DEF Key
<1>2. \A u \in Threads : pc'[u] = "copy" => pc[u] = "copy"
  BY DEF Key, Step, Numbers
<1>3. vga' \in [Cells -> {Blank, "char"}]
  BY DEF Key, Backspace, Tab, Delete, moveCursor, shown, TableInv
<1> QED
  BY <1>1, <1>2, <1>3, <1>4 DEF TableInv

\* memcpy stays in the cells.
LEMMA CopyTable ==
  ASSUME Numbers, TableInv, NEW t \in Threads, CopyRow(t)
  PROVE  /\ vga' \in [Cells -> {Blank, "char"}]
         /\ reg[t] \in 1 .. ROWS - 1
<1>1. pc[t] = "copy" /\ reg[t] < ROWS
  BY DEF CopyRow, Step
<1>2. reg[t] \in 1 .. ROWS - 1
  BY <1>1, Constants DEF TableInv, Numbers
<1>3. PICK r \in 1 .. ROWS - 1 : r = reg[t]
  BY <1>2
<1>4. r \in Int /\ r \in 0 .. ROWS - 1
  BY <1>3, Constants
<1>5. \A k \in Cells : r * COLUMNS + (k % COLUMNS) \in Cells
  BY <1>4, CellFacts, CellOf
<1>6. vga' = [k \in Cells |-> IF k \div COLUMNS = r - 1
                              THEN vga[r * COLUMNS + (k % COLUMNS)] ELSE vga[k]]
  BY <1>3 DEF CopyRow, SourceRow
<1>7. vga \in [Cells -> {Blank, "char"}]
  BY DEF TableInv
<1> QED
  BY <1>2, <1>5, <1>6, <1>7

LEMMA WorkTable ==
  ASSUME Numbers, TableInv, NEW t \in Threads, Work(t)
  PROVE  TableInv'
<1>1. mixed' \in BOOLEAN /\ off' \in BOOLEAN /\ call' = call
  <2>1. \E from, to : Step(t, from, to)
    BY DEF Work, WriteChar, TestColumn, LoadCursor, StoreCx, StoreCy, ZeroCx,
       ScrollTest, CopyRow, ClearLastRow, StoreRow, CursorPos, SelectByte, OutByte
  <2> QED
    BY <2>1, StepMixed DEF TableInv
<1>2. vga' \in [Cells -> {Blank, "char"}]
  <2>1. CASE CopyRow(t)
    BY <2>1, CopyTable
  <2>2. CASE WriteChar(t)
    BY <2>2 DEF WriteChar, TableInv
  <2>3. CASE ClearLastRow(t)
    BY <2>3 DEF ClearLastRow, TableInv
  <2> QED
    BY <2>1, <2>2, <2>3 DEF Work, TestColumn, LoadCursor, StoreCx, StoreCy, ZeroCx,
       ScrollTest, StoreRow, CursorPos, SelectByte, OutByte, shown, TableInv
<1>3. crt' \in [index : {"low", "high"}, low : 0 .. BYTE - 1, high : 0 .. BYTE - 1]
  <2>1. CASE SelectByte(t)
    BY <2>1 DEF SelectByte, TableInv
  <2>2. CASE OutByte(t)
    <3>1. PICK n \in Int : crt' = [crt EXCEPT ![crt.index] = n % BYTE]
      <4>1. reg[t] \in Int /\ HighByte(reg[t]) \in Int
        BY Constants DEF Numbers, HighByte
      <4> QED
        BY <2>2, <4>1 DEF OutByte, OutData
    <3>2. n % BYTE \in 0 .. BYTE - 1
      BY Constants
    <3>3. PICK b \in 0 .. BYTE - 1 : crt' = [crt EXCEPT ![crt.index] = b]
      BY <3>1, <3>2
    <3> QED
      BY <3>3 DEF TableInv
  <2> QED
    BY <2>1, <2>2 DEF Work, WriteChar, TestColumn, LoadCursor, StoreCx, StoreCy, ZeroCx,
       ScrollTest, CopyRow, ClearLastRow, StoreRow, CursorPos, TableInv
<1>4. ASSUME NEW u \in Threads, pc'[u] = "copy"
      PROVE  reg'[u] >= 1
  <2>1. CASE u = t
    <3>1. CASE ScrollTest(t)
      BY <1>4, <2>1, <3>1 DEF ScrollTest, Load, Numbers
    <3>2. CASE CopyRow(t)
      <4>1. reg[t] \in 1 .. ROWS - 1 /\ reg'[t] = reg[t] + 1
        BY <3>2, CopyTable DEF CopyRow, Load, Numbers
      <4> QED
        BY <2>1, <4>1, Constants
    <3> QED
      BY <1>4, <2>1, <3>1, <3>2 DEF Work, WriteChar, TestColumn, LoadCursor, StoreCx,
         StoreCy, ZeroCx, ClearLastRow, StoreRow, AfterScroll, CursorPos, SelectByte,
         OutByte, Step, Numbers
  <2>2. CASE u # t
    <3>1. pc'[u] = pc[u] /\ reg'[u] = reg[u]
      BY <2>2 DEF Work, WriteChar, TestColumn, LoadCursor, StoreCx, StoreCy, ZeroCx,
         ScrollTest, CopyRow, ClearLastRow, StoreRow, CursorPos, SelectByte, OutByte,
         Step, Load, Numbers
    <3> QED
      BY <1>4, <3>1 DEF TableInv
  <2> QED
    BY <2>1, <2>2
<1> QED
  BY <1>1, <1>2, <1>3, <1>4 DEF TableInv

TypeInv == RowInv /\ ColumnInv /\ TableInv

LEMMA TypeInit == Init => TypeInv
<1> SUFFICES ASSUME Init PROVE TypeInv
  OBVIOUS
<1>1. Waiting = {}
  BY DEF Init, Waiting, Counting
<1>2. Cardinality(Waiting) = 0
  BY <1>1, FS_EmptySet
<1>3. ColumnInv
  BY <1>2, Constants DEF Init, ColumnInv
<1>4. TableInv
  <2>1. vga \in [Cells -> {Blank, "char"}] /\ call \in [Threads -> Printed \cup Typed \cup {"char"}]
    BY DEF Init
  <2>2. 0 \in 0 .. BYTE - 1
    BY Constants
  <2>3. crt \in [index : {"low", "high"}, low : 0 .. BYTE - 1, high : 0 .. BYTE - 1]
    BY <2>2 DEF Init
  <2>4. mixed \in BOOLEAN /\ off \in BOOLEAN /\ \A t \in Threads : pc[t] # "copy"
    BY DEF Init
  <2> QED
    BY <2>1, <2>3, <2>4 DEF TableInv
<1> QED
  BY <1>3, <1>4, RowInit DEF TypeInv

LEMMA TypeStep == TypeInv /\ [Next]_vars => TypeInv'
<1> SUFFICES ASSUME TypeInv, [Next]_vars PROVE TypeInv'
  OBVIOUS
<1>0. RowInv' /\ Numbers
  BY RowStep DEF TypeInv, RowInv
<1>1. ASSUME NEW t \in Threads, NEW what \in Printed \cup Typed, Begin(t, what)
      PROVE  TypeInv'
  BY <1>0, <1>1, BeginColumn, BeginTable DEF TypeInv
<1>2. CASE Key
  BY <1>0, <1>2, KeyColumn, KeyTable DEF TypeInv
<1>3. ASSUME NEW t \in Threads, Work(t)
      PROVE  TypeInv'
  BY <1>0, <1>3, WorkColumn, WorkTable DEF TypeInv
<1>4. CASE UNCHANGED vars
  <2>1. Waiting' = Waiting
    BY <1>4 DEF vars, Waiting
  <2>2. ColumnInv'
    BY <1>4, <2>1 DEF vars, shown, ColumnInv, TypeInv
  <2>3. TableInv'
    BY <1>4 DEF vars, shown, TableInv, TypeInv
  <2> QED
    BY <1>0, <2>2, <2>3 DEF TypeInv
<1> QED
  BY <1>1, <1>2, <1>3, <1>4 DEF Next, Prints, Types, Threads

\* For every number of processes and calls and every size of the screen: cx is
\* never negative and passes the end of the row by at most one column for each
\* call, and no copy of a row leaves the cells that are shown. (putc,
\* scroll_if_needed)
THEOREM ScreenTypeCorrect == Spec => []TypeOK
<1>1. TypeInv => TypeOK
  <2> SUFFICES ASSUME TypeInv PROVE TypeOK
    OBVIOUS
  <2>1. cx \in Int /\ cy \in Int /\ pc \in [Threads -> Places]
    BY DEF TypeInv, RowInv, Numbers
  <2>2. /\ calls \in 0 .. MaxCalls /\ cx >= 0
        /\ cx + Cardinality(Waiting) <= COLUMNS - 1 + calls
    BY DEF TypeInv, ColumnInv
  <2>3. cx \in 0 .. COLUMNS - 1 + MaxCalls
    BY <2>1, <2>2, WaitingFinite, Constants
  <2> QED
    BY <2>1, <2>3 DEF TypeInv, TableInv, TypeOK
<1> QED
  BY <1>1, TypeInit, TypeStep, PTL DEF Spec


-----------------------------------------------------------------------------
(* The steps of a call that nobody disturbs                                *)

\* A step that leaves the history unmixed is a step of the only thread at work.
LEMMA LoneStep ==
  ASSUME TypeInv, AloneInv, NEW t \in Threads, NEW from, from # "idle", NEW to,
         Step(t, from, to), ~mixed', ~off'
  PROVE  /\ pc[t] = from /\ OnCourse(t)
         /\ pc'[t] = to /\ OthersIdle(t)'
         /\ expected' = expected /\ call' = call
<1>1. mixed \in BOOLEAN /\ off \in BOOLEAN /\ pc \in [Threads -> Places]
  BY DEF TypeInv, TableInv, RowInv, Numbers
<1>2. ~mixed /\ ~off /\ OthersIdle(t) /\ expected' = expected
  BY <1>1 DEF Step, Note
<1>3. pc[t] = from /\ pc' = [pc EXCEPT ![t] = to] /\ call' = call
  BY DEF Step
<1>4. PICK u \in Threads : pc[u] # "idle" /\ OnCourse(u)
  BY <1>2, <1>3 DEF AloneInv, Idle
<1>5. u = t
  BY <1>2, <1>4 DEF OthersIdle
<1>6. OthersIdle(t)'
  BY <1>1, <1>2, <1>3 DEF OthersIdle
<1> QED
  BY <1>1, <1>2, <1>3, <1>4, <1>5, <1>6

\* What a call is to do is said in terms of the screen.
LEMMA SpecifiedFrame ==
  ASSUME NEW what, UNCHANGED shown
  PROVE  Specified(what)' = Specified(what) /\ Pos' = Pos /\ OnScreen' = OnScreen
<1>1. cx' = cx /\ cy' = cy /\ vga' = vga
  BY DEF shown
<1>2. Pos' = Pos /\ OnScreen' = OnScreen
  BY <1>1 DEF Pos, OnScreen
<1>3. Target(what)' = Target(what)
  BY <1>1, <1>2 DEF Target
<1>4. \A k : Written(what, k)' = Written(what, k)
  BY <1>1, <1>2 DEF Written
<1>5. Specified(what)' = Specified(what)
  BY <1>3, <1>4 DEF Specified
<1> QED
  BY <1>2, <1>5

LEMMA BeginAlone ==
  ASSUME TypeInv, NEW t \in Threads, NEW what, Begin(t, what), ~mixed', ~off',
         what \in {"char", "newline", "return"} \/ (t = Handler /\ what \in Typable)
  PROVE  OthersIdle(t)' /\ pc'[t] # "idle" /\ OnCourse(t)'
<1>1. /\ pc \in [Threads -> Places] /\ reg \in [Threads -> Int]
      /\ call \in [Threads -> Printed \cup Typed \cup {"char"}]
      /\ vga \in [Cells -> {Blank, "char"}]
  BY DEF TypeInv, TableInv, RowInv, Numbers
<1>2. /\ pc'[t] = Entry(what) /\ call'[t] = what /\ reg'[t] = Pos /\ UNCHANGED shown
      /\ pc' = [pc EXCEPT ![t] = Entry(what)]
  BY <1>1 DEF Begin, Load
<1>3. OthersIdle(t) /\ OnScreen /\ expected' = Specified(what)
  BY DEF Begin, Note
<1>4. OthersIdle(t)'
  BY <1>1, <1>2, <1>3 DEF OthersIdle
<1>5. /\ Specified(what)' = Specified(what) /\ Pos' = Pos /\ OnScreen'
      /\ cx' = cx /\ cy' = cy /\ vga' = vga
  BY <1>2, <1>3, SpecifiedFrame DEF shown
<1>6. CASE what = "char"
  <2>1. pc'[t] = "write"
    BY <1>2, <1>6 DEF Entry
  <2> QED
    BY <1>2, <1>3, <1>4, <1>5, <1>6, <2>1 DEF OnCourse, Writing, Scrolling, Finishing, Outs
<1>7. CASE what = "newline"
  <2>1. pc'[t] = "load_cy"
    BY <1>2, <1>7 DEF Entry
  <2>2. expected' = Settle(0, cy' + 1, vga')
    BY <1>1, <1>3, <1>5, <1>7, SpecifiedRow
  <2> QED
    BY <1>2, <1>4, <1>5, <1>7, <2>1, <2>2 DEF OnCourse, Writing, Scrolling, Finishing, Outs
<1>8. CASE what = "return"
  <2>1. pc'[t] = "zero_cx"
    BY <1>2, <1>8 DEF Entry
  <2>2. expected' = Settle(0, cy', vga')
    BY <1>1, <1>3, <1>5, <1>8, SpecifiedRow
  <2>3. InRow' /\ cy' \in 0 .. ROWS
    BY <1>5, Constants DEF OnScreen, InRow
  <2> QED
    BY <1>2, <1>4, <1>8, <2>1, <2>2, <2>3 DEF OnCourse, Writing, Scrolling, Finishing, Outs
<1>9. CASE what \notin {"char", "newline", "return"}
  <2>1. pc'[t] = "key"
    BY <1>2, <1>9 DEF Entry
  <2>2. t = Handler /\ what \in {"backspace", "tab", "delete"} \cup Moves
    BY <1>9 DEF Typable
  <2>3. \A w : w = call'[t] => expected' = Specified(w)'
    BY <1>2, <1>3, <1>5
  <2> QED
    BY <1>2, <1>4, <1>5, <2>1, <2>2, <2>3 DEF OnCourse, Writing, Scrolling, Finishing, Outs
<1> QED
  BY <1>6, <1>7, <1>8, <1>9

\* putc
LEMMA PutAlone ==
  ASSUME TypeInv, AloneInv, NEW t \in Threads, ~mixed', ~off',
         WriteChar(t) \/ TestColumn(t) \/ StoreCx(t) \/ StoreCy(t) \/ ZeroCx(t)
  PROVE  OthersIdle(t)' /\ pc'[t] # "idle" /\ OnCourse(t)'
<1>0. vga \in [Cells -> {Blank, "char"}] /\ cx \in Int /\ cy \in Int
  BY DEF TypeInv, TableInv, RowInv, Numbers
<1>1. CASE WriteChar(t)
  <2>1. Step(t, "write", "test") /\ UNCHANGED <<cx, cy>>
    BY <1>1 DEF WriteChar
  <2>2. /\ pc[t] = "write" /\ OnCourse(t) /\ pc'[t] = "test" /\ OthersIdle(t)'
        /\ expected' = expected /\ call' = call
    BY <2>1, LoneStep
  <2>3. OnScreen /\ reg[t] = Pos /\ call[t] = "char" /\ expected = Specified("char")
    BY <2>2 DEF OnCourse, Writing
  <2>4. PICK v : v = vga' /\ v = [k \in Cells |-> IF k = Pos THEN "char" ELSE vga[k]]
    BY <1>1, <2>3 DEF WriteChar
  <2>5. expected = IF FitsInRow THEN Settle(cx + 1, cy, v) ELSE Settle(0, cy + 1, v)
    BY <2>3, <2>4, SpecifiedChar
  <2>6. expected' = Advanced' /\ OnScreen'
    BY <2>1, <2>2, <2>3, <2>4, <2>5 DEF Advanced, FitsInRow, OnScreen
  <2> QED
    BY <2>2, <2>3, <2>6 DEF OnCourse, Writing, Scrolling, Finishing, Outs
<1>2. CASE TestColumn(t)
  <2>1. Step(t, "test", IF FitsInRow THEN "load_cx" ELSE "zero_cx") /\ UNCHANGED shown
    BY <1>2 DEF TestColumn
  <2>2. /\ pc[t] = "test" /\ OnCourse(t) /\ OthersIdle(t)'
        /\ pc'[t] = IF FitsInRow THEN "load_cx" ELSE "zero_cx"
        /\ expected' = expected /\ call' = call
    BY <2>1, LoneStep
  <2>3. OnScreen /\ call[t] = "char" /\ expected = Advanced
    BY <2>2 DEF OnCourse, Writing
  <2>4. cx' = cx /\ cy' = cy /\ vga' = vga /\ OnScreen' /\ FitsInRow' = FitsInRow
    BY <2>1, <2>3 DEF shown, OnScreen, FitsInRow
  <2>5. CASE FitsInRow
    BY <2>2, <2>3, <2>4, <2>5 DEF OnCourse, Writing, Scrolling, Finishing, Outs, Advanced
  <2>6. CASE ~FitsInRow
    <3>1. InRow' /\ cy' \in 0 .. ROWS /\ cy' < ROWS
      BY <2>4, Constants DEF OnScreen, InRow
    <3> QED
      BY <2>2, <2>3, <2>4, <2>6, <3>1 DEF OnCourse, Writing, Scrolling, Finishing, Outs, Advanced
  <2> QED
    BY <2>5, <2>6
<1>3. CASE StoreCx(t)
  <2>1. Step(t, "store_cx", "scroll") /\ UNCHANGED <<cy, vga>> /\ cx' = reg[t] + 1
    BY <1>3 DEF StoreCx
  <2>2. /\ pc[t] = "store_cx" /\ OnCourse(t) /\ OthersIdle(t)' /\ pc'[t] = "scroll"
        /\ expected' = expected
    BY <2>1, LoneStep
  <2>3. OnScreen /\ FitsInRow /\ expected = Settle(cx + 1, cy, vga) /\ reg[t] = cx
    BY <2>2 DEF OnCourse, Writing
  <2>4. InRow' /\ cy' >= 0
    BY <2>1, <2>3, Constants DEF OnScreen, FitsInRow, InRow
  <2>5. expected' = Settle(cx', cy', vga')
    BY <2>1, <2>2, <2>3
  <2> QED
    BY <2>2, <2>4, <2>5 DEF OnCourse, Writing, Scrolling, Finishing, Outs
<1>4. CASE StoreCy(t)
  <2>1. /\ Step(t, "store_cy", IF call[t] = "newline" THEN "zero_cx" ELSE "scroll")
        /\ UNCHANGED <<cx, vga>> /\ cy' = reg[t] + 1
    BY <1>4 DEF StoreCy
  <2>2. /\ pc[t] = "store_cy" /\ OnCourse(t) /\ OthersIdle(t)'
        /\ pc'[t] = IF call[t] = "newline" THEN "zero_cx" ELSE "scroll"
        /\ expected' = expected /\ call' = call
    BY <2>1, LoneStep
  <2>3. /\ OnScreen /\ call[t] \in {"char", "newline"} /\ (call[t] = "char" => cx = 0)
        /\ expected = Settle(0, cy + 1, vga) /\ reg[t] = cy
    BY <2>2 DEF OnCourse, Writing
  <2>4. InRow' /\ cy' \in 0 .. ROWS /\ cy' >= 0
    BY <2>1, <2>3, Constants DEF OnScreen, InRow
  <2>5. expected' = Settle(0, cy', vga')
    BY <2>1, <2>2, <2>3
  <2>6. CASE call[t] = "newline"
    BY <2>2, <2>4, <2>5, <2>6 DEF OnCourse, Writing, Scrolling, Finishing, Outs
  <2>7. CASE call[t] = "char"
    <3>1. cx' = 0 /\ pc'[t] = "scroll"
      BY <2>1, <2>2, <2>3, <2>7
    <3>2. expected' = Settle(cx', cy', vga')
      BY <2>5, <3>1
    <3> QED
      BY <2>2, <2>4, <3>1, <3>2 DEF OnCourse, Writing, Scrolling, Finishing, Outs
  <2> QED
    BY <2>3, <2>6, <2>7
<1>5. CASE ZeroCx(t)
  <2>1. /\ Step(t, "zero_cx", IF call[t] = "char" THEN "load_cy" ELSE "scroll")
        /\ UNCHANGED <<cy, vga>> /\ cx' = 0
    BY <1>5 DEF ZeroCx
  <2>2. /\ pc[t] = "zero_cx" /\ OnCourse(t) /\ OthersIdle(t)'
        /\ pc'[t] = IF call[t] = "char" THEN "load_cy" ELSE "scroll"
        /\ expected' = expected /\ call' = call
    BY <2>1, LoneStep
  <2>3. /\ cy \in 0 .. ROWS /\ call[t] \in {"char", "newline", "return"}
        /\ call[t] = "char" => cy < ROWS /\ expected = Settle(0, cy + 1, vga)
        /\ call[t] # "char" => expected = Settle(0, cy, vga)
    BY <2>2 DEF OnCourse, Writing
  <2>4. InRow' /\ cy' >= 0 /\ (call[t] = "char" => OnScreen')
    BY <2>1, <2>3, Constants DEF OnScreen, InRow
  <2>5. CASE call[t] = "char"
    BY <2>1, <2>2, <2>3, <2>4, <2>5 DEF OnCourse, Writing, Scrolling, Finishing, Outs
  <2>6. CASE call[t] # "char"
    <3>1. expected' = Settle(cx', cy', vga')
      BY <2>1, <2>2, <2>3, <2>6
    <3> QED
      BY <2>2, <2>4, <2>6, <3>1 DEF OnCourse, Writing, Scrolling, Finishing, Outs
  <2> QED
    BY <2>5, <2>6
<1> QED
  BY <1>1, <1>2, <1>3, <1>4, <1>5


\* The loads of cx and cy
LEMMA LoadAlone ==
  ASSUME TypeInv, AloneInv, NEW t \in Threads, ~mixed', ~off', LoadCursor(t)
  PROVE  OthersIdle(t)' /\ pc'[t] # "idle" /\ OnCourse(t)'
<1>1. reg \in [Threads -> Int]
  BY DEF TypeInv, RowInv, Numbers
<1>2. /\ cx' = cx /\ cy' = cy /\ vga' = vga /\ OnScreen' = OnScreen /\ InRow' = InRow
      /\ FitsInRow' = FitsInRow
  BY DEF LoadCursor, shown, OnScreen, InRow, FitsInRow
<1>3. CASE Step(t, "load_cx", "store_cx") /\ Load(t, cx)
  <2>1. /\ pc[t] = "load_cx" /\ OnCourse(t) /\ OthersIdle(t)' /\ pc'[t] = "store_cx"
        /\ expected' = expected /\ call' = call
    BY <1>3, LoneStep
  <2>2. reg'[t] = cx
    BY <1>1, <1>3 DEF Load
  <2> QED
    BY <1>2, <2>1, <2>2 DEF OnCourse, Writing, Scrolling, Finishing, Outs
<1>4. CASE Step(t, "load_cy", "store_cy") /\ Load(t, cy)
  <2>1. /\ pc[t] = "load_cy" /\ OnCourse(t) /\ OthersIdle(t)' /\ pc'[t] = "store_cy"
        /\ expected' = expected /\ call' = call
    BY <1>4, LoneStep
  <2>2. reg'[t] = cy
    BY <1>1, <1>4 DEF Load
  <2> QED
    BY <1>2, <2>1, <2>2 DEF OnCourse, Writing, Scrolling, Finishing, Outs
<1>5. CASE Step(t, "load_row", "store_row") /\ Load(t, cy)
  <2>1. /\ pc[t] = "load_row" /\ OnCourse(t) /\ OthersIdle(t)' /\ pc'[t] = "store_row"
        /\ expected' = expected
    BY <1>5, LoneStep
  <2>2. reg'[t] = cy
    BY <1>1, <1>5 DEF Load
  <2> QED
    BY <1>2, <2>1, <2>2 DEF OnCourse, Writing, Scrolling, Finishing, Outs
<1> QED
  BY <1>3, <1>4, <1>5 DEF LoadCursor

\* scroll_if_needed
LEMMA ScrollAlone ==
  ASSUME TypeInv, AloneInv, NEW t \in Threads, ~mixed', ~off',
         ScrollTest(t) \/ CopyRow(t) \/ ClearLastRow(t) \/ StoreRow(t)
  PROVE  OthersIdle(t)' /\ pc'[t] # "idle" /\ OnCourse(t)'
<1>0. /\ vga \in [Cells -> {Blank, "char"}] /\ cx \in Int /\ cy \in Int
      /\ reg \in [Threads -> Int] /\ ROWS \in Nat /\ ROWS > 0
  BY Constants DEF TypeInv, TableInv, RowInv, Numbers
<1>1. CASE ScrollTest(t)
  <2>1. Step(t, "scroll", IF cy >= ROWS THEN "copy" ELSE "cursor") /\ UNCHANGED shown
    BY <1>1 DEF ScrollTest
  <2>2. /\ pc[t] = "scroll" /\ OnCourse(t) /\ OthersIdle(t)'
        /\ pc'[t] = IF cy >= ROWS THEN "copy" ELSE "cursor"
        /\ expected' = expected
    BY <2>1, LoneStep
  <2>3. InRow /\ cy >= 0 /\ expected = Settle(cx, cy, vga)
    BY <2>2 DEF OnCourse, Scrolling
  <2>4. cx' = cx /\ cy' = cy /\ vga' = vga /\ InRow' /\ reg'[t] = 1
    BY <1>0, <1>1, <2>1, <2>3 DEF ScrollTest, Load, shown, InRow
  <2>5. CASE cy >= ROWS
    <3>1. Settle(cx, cy, vga) = Settle(cx, cy - 1, Scrolled(vga, 1))
      BY <1>0, <2>5, SettleScroll
    <3>2. /\ pc'[t] = "copy" /\ reg'[t] \in 1 .. ROWS /\ cy' >= ROWS
          /\ expected' = Settle(cx', cy' - 1, Scrolled(vga', reg'[t]))
      BY <1>0, <2>2, <2>3, <2>4, <2>5, <3>1
    <3> QED
      BY <2>2, <2>4, <3>2 DEF OnCourse, Writing, Scrolling, Finishing, Outs
  <2>6. CASE ~(cy >= ROWS)
    <3>1. cy < ROWS
      BY <1>0, <2>6
    <3>2. Settle(cx, cy, vga) = [cx |-> cx, cy |-> cy, vga |-> vga]
      BY <1>0, <3>1, SettleHere
    <3>3. expected' = Laid' /\ pc'[t] = "cursor"
      BY <2>2, <2>3, <2>4, <2>6, <3>2 DEF Laid
    <3>4. OnScreen'
      BY <1>0, <2>3, <2>4, <3>1 DEF OnScreen, InRow
    <3> QED
      BY <2>2, <3>3, <3>4 DEF OnCourse, Writing, Scrolling, Finishing, Outs
  <2> QED
    BY <2>5, <2>6
<1>2. CASE CopyRow(t)
  <2>1. Step(t, "copy", "copy") /\ UNCHANGED <<cx, cy>>
    BY <1>2 DEF CopyRow
  <2>2. /\ pc[t] = "copy" /\ OnCourse(t) /\ OthersIdle(t)' /\ pc'[t] = "copy"
        /\ expected' = expected
    BY <2>1, LoneStep
  <2>3. /\ InRow /\ cy >= ROWS /\ reg[t] \in 1 .. ROWS
        /\ expected = Settle(cx, cy - 1, Scrolled(vga, reg[t]))
    BY <2>2 DEF OnCourse, Scrolling
  <2>4. PICK r \in 1 .. ROWS - 1 : r = reg[t]
    BY <1>0, <1>2, <2>3 DEF CopyRow
  <2>5. PICK v : v = vga' /\ v = [k \in Cells |-> IF k \div COLUMNS = r - 1
                                     THEN vga[r * COLUMNS + (k % COLUMNS)] ELSE vga[k]]
    BY <1>2, <2>4 DEF CopyRow, SourceRow
  <2>6. Scrolled(v, r + 1) = Scrolled(vga, r)
    BY <1>0, <2>5, CopyKeeps
  <2>7. reg'[t] = r + 1 /\ r + 1 \in 1 .. ROWS
    BY <1>0, <1>2, <2>4 DEF CopyRow, Load
  <2>8. expected' = Settle(cx', cy' - 1, Scrolled(vga', reg'[t]))
    BY <2>1, <2>2, <2>3, <2>4, <2>5, <2>6, <2>7
  <2>9. InRow' /\ cy' >= ROWS
    BY <2>1, <2>3 DEF InRow
  <2> QED
    BY <2>2, <2>7, <2>8, <2>9 DEF OnCourse, Writing, Scrolling, Finishing, Outs
<1>3. CASE ClearLastRow(t)
  <2>1. Step(t, "copy", "load_row") /\ UNCHANGED <<cx, cy>>
    BY <1>3 DEF ClearLastRow
  <2>2. /\ pc[t] = "copy" /\ OnCourse(t) /\ OthersIdle(t)' /\ pc'[t] = "load_row"
        /\ expected' = expected
    BY <2>1, LoneStep
  <2>3. /\ InRow /\ cy >= ROWS /\ reg[t] \in 1 .. ROWS
        /\ expected = Settle(cx, cy - 1, Scrolled(vga, reg[t]))
    BY <2>2 DEF OnCourse, Scrolling
  <2>4. reg[t] = ROWS
    BY <1>0, <1>3, <2>3 DEF ClearLastRow
  <2>5. vga' = Scrolled(vga, ROWS)
    BY <1>0, <1>3, ClearKeeps DEF ClearLastRow
  <2>6. expected' = Settle(cx', cy' - 1, vga')
    BY <2>1, <2>2, <2>3, <2>4, <2>5
  <2>7. InRow' /\ cy' >= ROWS
    BY <2>1, <2>3 DEF InRow
  <2> QED
    BY <2>2, <2>6, <2>7 DEF OnCourse, Writing, Scrolling, Finishing, Outs
<1>4. CASE StoreRow(t)
  <2>1. Step(t, "store_row", "scroll") /\ UNCHANGED <<cx, vga>> /\ cy' = reg[t] - 1
    BY <1>4 DEF StoreRow, AfterScroll
  <2>2. /\ pc[t] = "store_row" /\ OnCourse(t) /\ OthersIdle(t)' /\ pc'[t] = "scroll"
        /\ expected' = expected
    BY <2>1, LoneStep
  <2>3. /\ InRow /\ cy >= ROWS /\ reg[t] = cy /\ expected = Settle(cx, cy - 1, vga)
    BY <2>2 DEF OnCourse, Scrolling
  <2>4. InRow' /\ cy' >= 0 /\ expected' = Settle(cx', cy', vga')
    BY <1>0, <2>1, <2>2, <2>3 DEF InRow
  <2> QED
    BY <2>2, <2>4 DEF OnCourse, Writing, Scrolling, Finishing, Outs
<1> QED
  BY <1>1, <1>2, <1>3, <1>4

\* move_cursor takes the row and the column as bytes, and both fit.
LEMMA BytesFit ==
  ASSUME OnScreen
  PROVE  /\ (cy % BYTE) * COLUMNS + (cx % BYTE) = Pos
         /\ ((Pos \div BYTE) % BYTE) * BYTE + (Pos % BYTE) = Pos
<1>0. BYTE \in Nat /\ BYTE > 0 /\ cx \in 0 .. BYTE - 1 /\ cy \in 0 .. BYTE - 1 /\ cy <= BYTE - 1
  BY Constants DEF OnScreen
<1>1. \A n \in 0 .. BYTE - 1 : n % BYTE = n
  <2> SUFFICES ASSUME NEW n \in 0 .. BYTE - 1 PROVE n % BYTE = n
    OBVIOUS
  <2>1. n \div BYTE \in Int /\ n % BYTE \in 0 .. BYTE - 1 /\ n = BYTE * (n \div BYTE) + (n % BYTE)
    BY <1>0, Division
  <2>2. n = BYTE * 0 + n
    BY <1>0
  <2> QED
    BY <1>0, <2>1, <2>2, Quotient
<1>2. (cy % BYTE) * COLUMNS + (cx % BYTE) = Pos
  BY <1>0, <1>1 DEF Pos
<1>3. PICK p \in Nat : p = Pos /\ p < BYTE * BYTE
  <2>1. Pos \in Nat /\ cy * COLUMNS \in Nat /\ Pos = cy * COLUMNS + cx
    BY PosFacts
  <2>2. cy * COLUMNS <= cy * BYTE
    BY <1>0, Constants
  <2>3. cy * BYTE <= (BYTE - 1) * BYTE
    BY <1>0
  <2>4. (BYTE - 1) * BYTE = BYTE * BYTE - BYTE
    BY <1>0
  <2>5. PICK a, b, c \in Int : a = cy * COLUMNS /\ b = cy * BYTE /\ c = BYTE * BYTE
    BY <1>0, <2>1
  <2> QED
    BY <1>0, <2>1, <2>2, <2>3, <2>4, <2>5
<1>4. PICK h \in Int, l \in 0 .. BYTE - 1 : h = p \div BYTE /\ l = p % BYTE /\ p = BYTE * h + l
  BY <1>0, Division
<1>5. h \in 0 .. BYTE - 1
  <2>1. CASE h < 0
    <3>1. BYTE * h <= BYTE * (-1)
      BY <1>0, <2>1
    <3> QED
      BY <1>0, <1>3, <1>4, <3>1
  <2>2. CASE h >= BYTE
    <3>1. BYTE * h >= BYTE * BYTE
      BY <1>0, <2>2
    <3>2. PICK a, b \in Int : a = BYTE * h /\ b = BYTE * BYTE
      BY <1>0
    <3> QED
      BY <1>0, <1>3, <1>4, <3>1, <3>2
  <2> QED
    BY <1>0, <2>1, <2>2
<1>6. h % BYTE = h
  BY <1>1, <1>5
<1>7. h * BYTE + l = p
  BY <1>0, <1>4
<1> QED
  BY <1>2, <1>3, <1>4, <1>6, <1>7


\* update_cursor and move_cursor leave the text alone.
LEMMA CursorAlone ==
  ASSUME TypeInv, AloneInv, NEW t \in Threads, ~mixed', ~off',
         CursorPos(t) \/ SelectByte(t) \/ OutByte(t)
  PROVE  \/ OthersIdle(t)' /\ pc'[t] # "idle" /\ OnCourse(t)'
         \/ Idle' /\ expected' = Laid'
<1>1. OnScreen' = OnScreen /\ Laid' = Laid
  BY DEF CursorPos, SelectByte, OutByte, shown, OnScreen, Laid
<1>2. PICK from \in {"cursor"} \cup Outs, to \in Outs \cup {"idle"} : Step(t, from, to)
  BY DEF CursorPos, SelectByte, OutByte, Outs
<1>3. /\ pc[t] = from /\ OnCourse(t) /\ OthersIdle(t)' /\ pc'[t] = to
      /\ expected' = expected
  BY <1>2, LoneStep DEF Outs
<1>4. OnScreen' /\ expected' = Laid'
  BY <1>1, <1>3 DEF OnCourse, Finishing
<1>5. CASE to = "idle"
  BY <1>3, <1>4, <1>5 DEF OthersIdle, Idle
<1>6. CASE to # "idle"
  BY <1>3, <1>4, <1>6 DEF OnCourse, Writing, Scrolling, Finishing, Outs
<1> QED
  BY <1>5, <1>6

\* The cases of putc that only keys reach, and the cursor keys
LEMMA KeyAlone ==
  ASSUME TypeInv, AloneInv, Key, ~mixed', ~off'
  PROVE  OthersIdle(Handler)' /\ pc'[Handler] # "idle" /\ OnCourse(Handler)'
<1>0. /\ vga \in [Cells -> {Blank, "char"}] /\ cx \in Int /\ cy \in Int
      /\ Handler \in Threads /\ COLUMNS \in Nat /\ COLUMNS > 0 /\ ROWS \in Nat
  BY Constants DEF TypeInv, TableInv, RowInv, Numbers
<1>1. PICK what : what = call[Handler]
  OBVIOUS
<1>2. PICK to \in {"scroll", "cursor"} :
        /\ Step(Handler, "key", to)
        /\ \/ what = "backspace" /\ ~(cx <= 0 /\ cy <= 0) /\ to = "scroll" /\ Backspace
           \/ what = "tab" /\ to = "scroll" /\ Tab
           \/ what = "delete" /\ to = "scroll" /\ Delete
           \/ what \in Moves /\ to = "cursor" /\ moveCursor(what)
  BY <1>1 DEF Key, Note
<1>3. /\ pc[Handler] = "key" /\ OnCourse(Handler) /\ OthersIdle(Handler)'
      /\ pc'[Handler] = to /\ expected' = expected
  BY <1>0, <1>2, LoneStep
<1>4. OnScreen /\ expected = Specified(what)
  BY <1>1, <1>3 DEF OnCourse, Writing
<1>5. /\ cx \in 0 .. COLUMNS - 1 /\ cy \in 0 .. ROWS - 1
  BY <1>4 DEF OnScreen
<1>6. ASSUME to = "scroll", InRow', cy' >= 0, expected' = Settle(cx', cy', vga')
      PROVE  OnCourse(Handler)'
  BY <1>3, <1>6 DEF OnCourse, Writing, Scrolling, Finishing, Outs
<1>7. CASE what = "backspace" /\ ~(cx <= 0 /\ cy <= 0) /\ to = "scroll" /\ Backspace
  <2>1. PICK v : v = vga' /\ v = [k \in Cells |-> IF k = Pos - 1 THEN Blank ELSE vga[k]]
    BY <1>7 DEF Backspace
  <2>2. ~(cx = 0 /\ cy = 0)
    BY <1>7, <1>5, <1>0
  <2>3. expected = IF cx > 0 THEN Settle(cx - 1, cy, v) ELSE Settle(COLUMNS - 1, cy - 1, v)
    BY <1>4, <1>7, <2>1, <2>2, SpecifiedBackspace
  <2>4. CASE cx > 0
    <3>1. cx' = cx - 1 /\ cy' = cy
      BY <1>7, <2>4 DEF Backspace
    <3>2. InRow' /\ cy' >= 0
      BY <1>0, <1>5, <2>4, <3>1 DEF InRow
    <3>3. expected' = Settle(cx', cy', vga')
      BY <1>3, <2>1, <2>3, <2>4, <3>1
    <3> QED
      BY <1>3, <1>6, <1>7, <3>2, <3>3
  <2>5. CASE ~(cx > 0)
    <3>1. cx' = COLUMNS - 1 /\ cy' = cy - 1
      BY <1>7, <2>5 DEF Backspace
    <3>2. InRow' /\ cy' >= 0
      BY <1>0, <1>5, <2>2, <2>5, <3>1 DEF InRow
    <3>3. expected' = Settle(cx', cy', vga')
      BY <1>3, <2>1, <2>3, <2>5, <3>1
    <3> QED
      BY <1>3, <1>6, <1>7, <3>2, <3>3
  <2> QED
    BY <2>4, <2>5
<1>8. CASE what = "tab" /\ to = "scroll" /\ Tab
  <2>1. PICK pos : /\ pos = ((((Pos % WORD) + TAB) \div TAB) * TAB + 1) % WORD
                   /\ cy' = pos \div COLUMNS /\ cx' = pos % COLUMNS /\ vga' = vga
    BY <1>8 DEF Tab
  <2>2. expected = Settle(pos % COLUMNS, pos \div COLUMNS, vga) /\ pos \in Nat
    BY <1>0, <1>4, <1>8, <2>1, SpecifiedTab
  <2>3. InRow' /\ cy' >= 0
    BY <1>0, <2>1, <2>2 DEF InRow
  <2> QED
    BY <1>3, <1>6, <1>8, <2>1, <2>2, <2>3
<1>9. CASE what = "delete" /\ to = "scroll" /\ Delete
  <2>1. PICK v : v = vga' /\ v = [k \in Cells |-> IF k = Pos THEN Blank ELSE vga[k]]
    BY <1>9 DEF Delete
  <2>2. expected = Settle(cx, cy, v) /\ cx' = cx /\ cy' = cy
    BY <1>4, <1>9, <2>1, SpecifiedDelete DEF Delete
  <2>3. InRow' /\ cy' >= 0
    BY <1>0, <1>5, <2>2 DEF InRow
  <2> QED
    BY <1>3, <1>6, <1>9, <2>1, <2>2, <2>3
<1>10. CASE what \in Moves /\ to = "cursor" /\ moveCursor(what)
  <2>1. PICK x : x = cx' /\ x = CASE what = "left" /\ cx > 0              -> cx - 1
                                  [] what = "right" /\ cx < COLUMNS - 1   -> cx + 1
                                  [] OTHER                                -> cx
    BY <1>10 DEF moveCursor
  <2>2. PICK y : y = cy' /\ y = CASE what = "up" /\ cy > 0          -> cy - 1
                                  [] what = "down" /\ cy < ROWS - 1 -> cy + 1
                                  [] OTHER                          -> cy
    BY <1>10 DEF moveCursor
  <2>3. x \in 0 .. COLUMNS - 1
    BY <1>0, <1>5, <2>1
  <2>4. y \in 0 .. ROWS - 1
    BY <1>0, <1>5, <2>2
  <2>5. Specified(what) = Settle(x, y, vga)
    BY <1>0, <1>4, <1>10, <2>1, <2>2, SpecifiedMove
  <2>6. Settle(x, y, vga) = [cx |-> x, cy |-> y, vga |-> vga]
    <3>1. y \in Int /\ y < ROWS
      BY <1>0, <2>4
    <3> QED
      BY <1>0, <3>1, SettleHere
  <2>7. vga' = vga
    BY <1>10 DEF moveCursor
  <2>8. expected' = Laid' /\ OnScreen'
    BY <1>3, <1>4, <2>1, <2>2, <2>3, <2>4, <2>5, <2>6, <2>7 DEF Laid, OnScreen
  <2> QED
    BY <1>3, <1>10, <2>8 DEF OnCourse, Writing, Scrolling, Finishing, Outs
<1> QED
  BY <1>2, <1>3, <1>7, <1>8, <1>9, <1>10

LEMMA AloneInit == Init => AloneInv
BY DEF Init, AloneInv, Idle, Laid, Nothing

LEMMA AloneStep == TypeInv /\ AloneInv /\ [Next]_vars => AloneInv'
<1> SUFFICES ASSUME TypeInv, AloneInv, [Next]_vars, ~mixed', ~off' PROVE AloneInv'
  BY DEF AloneInv
<1>1. ASSUME NEW t \in Procs, NEW what \in Printed, Begin(t, what)
      PROVE  AloneInv'
  <2>1. t \in Threads /\ what \in {"char", "newline", "return"}
    BY ScreenAssumption DEF ScreenAssumption, Threads
  <2> QED
    BY <1>1, <2>1, BeginAlone DEF AloneInv
<1>2. ASSUME NEW what \in Typed, Begin(Handler, what)
      PROVE  AloneInv'
  <2>1. Handler \in Threads /\ what \in Typable
    BY ScreenAssumption DEF ScreenAssumption, Threads
  <2> QED
    BY <1>2, <2>1, BeginAlone DEF AloneInv
<1>3. CASE Key
  BY <1>3, KeyAlone, Constants DEF AloneInv
<1>4. ASSUME NEW t \in Threads, Work(t)
      PROVE  AloneInv'
  <2>1. \/ OthersIdle(t)' /\ pc'[t] # "idle" /\ OnCourse(t)'
        \/ Idle' /\ expected' = Laid'
    BY <1>4, PutAlone, LoadAlone, ScrollAlone, CursorAlone DEF Work
  <2> QED
    BY <2>1 DEF AloneInv
<1>5. CASE UNCHANGED vars
  <2>1. cx' = cx /\ cy' = cy /\ vga' = vga /\ UNCHANGED shown
    BY <1>5 DEF vars, shown
  <2>2. /\ OnScreen' = OnScreen /\ Pos' = Pos /\ Laid' = Laid /\ InRow' = InRow
        /\ FitsInRow' = FitsInRow /\ Advanced' = Advanced
    BY <2>1 DEF OnScreen, Pos, Laid, InRow, FitsInRow, Advanced
  <2>3. \A w : Specified(w)' = Specified(w)
    BY <2>1, SpecifiedFrame
  <2>4. pc' = pc /\ reg' = reg /\ call' = call /\ crt' = crt /\ expected' = expected
    BY <1>5 DEF vars
  <2>5. Idle' = Idle
    BY <2>4 DEF Idle
  <2>6. ASSUME NEW t \in Threads, OthersIdle(t), OnCourse(t)
        PROVE  OthersIdle(t)' /\ OnCourse(t)'
    <3>1. OthersIdle(t)'
      BY <2>4, <2>6 DEF OthersIdle
    <3>2. Writing(t)'
      BY <2>1, <2>2, <2>3, <2>4, <2>6 DEF OnCourse, Writing
    <3>3. Scrolling(t)'
      BY <2>1, <2>2, <2>4, <2>6 DEF OnCourse, Scrolling
    <3>4. Finishing(t)'
      BY <2>1, <2>2, <2>4, <2>6 DEF OnCourse, Finishing
    <3> QED
      BY <3>1, <3>2, <3>3, <3>4 DEF OnCourse
  <2>7. ~mixed /\ ~off
    BY <1>5 DEF vars
  <2>8. CASE Idle /\ expected = Laid
    BY <2>2, <2>4, <2>5, <2>8 DEF AloneInv
  <2>9. CASE \E t \in Threads : OthersIdle(t) /\ pc[t] # "idle" /\ OnCourse(t)
    BY <2>4, <2>6, <2>9 DEF AloneInv
  <2> QED
    BY <2>7, <2>8, <2>9 DEF AloneInv
<1> QED
  BY <1>1, <1>2, <1>3, <1>4, <1>5 DEF Next, Prints, Types

LEMMA AloneAlways == Spec => [](TypeInv /\ AloneInv)
BY TypeInit, TypeStep, AloneInit, AloneStep, PTL DEF Spec

\* For every size of the screen, width of the tabs and number of processes: a
\* call that nobody disturbed, begun on the screen, leaves the cursor and every
\* cell as the tape of cells has them, through the end of a row, the rounds of
\* memcpy and the tab stops behind the last row. (putc, scroll_if_needed, the
\* cursor keys)
THEOREM TextLaidOut == Spec => []TextAsPut
<1>1. ASSUME TypeInv, AloneInv, Idle, ~mixed, ~off
      PROVE  expected = Laid
  BY <1>1, Constants DEF AloneInv, Idle
<1>2. TypeInv /\ AloneInv => TextAsPut
  BY <1>1 DEF TextAsPut, Laid
<1> QED
  BY <1>2, AloneAlways, PTL

-----------------------------------------------------------------------------
(* The hardware cursor                                                     *)

\* A step that leaves calls unmixed, wherever the call began
LEMMA LoneOut ==
  ASSUME TypeInv, CursorInv, NEW t \in Threads, NEW from, from # "idle", NEW to,
         Step(t, from, to), ~mixed'
  PROVE  /\ pc[t] = from /\ PutsOut(t)
         /\ pc'[t] = to /\ OthersIdle(t)'
<1>1. mixed \in BOOLEAN /\ pc \in [Threads -> Places]
  BY DEF TypeInv, TableInv, RowInv, Numbers
<1>2. ~mixed /\ OthersIdle(t)
  BY <1>1 DEF Step, Note
<1>3. pc[t] = from /\ pc' = [pc EXCEPT ![t] = to]
  BY DEF Step
<1>4. PICK u \in Threads : pc[u] # "idle" /\ PutsOut(u)
  BY <1>2, <1>3 DEF CursorInv, Idle
<1>5. u = t
  BY <1>2, <1>4 DEF OthersIdle
<1>6. OthersIdle(t)'
  BY <1>1, <1>2, <1>3 DEF OthersIdle
<1> QED
  BY <1>1, <1>2, <1>3, <1>4, <1>5, <1>6

\* update_cursor and move_cursor
LEMMA PutsOutStep ==
  ASSUME TypeInv, CursorInv, NEW t \in Threads, ~mixed',
         CursorPos(t) \/ SelectByte(t) \/ OutByte(t)
  PROVE  \/ OthersIdle(t)' /\ pc'[t] # "idle" /\ PutsOut(t)'
         \/ Idle' /\ (OnScreen' => CrtPos' = Pos')
<1>0. /\ reg \in [Threads -> Int]
      /\ crt \in [index : {"low", "high"}, low : 0 .. BYTE - 1, high : 0 .. BYTE - 1]
  BY DEF TypeInv, TableInv, RowInv, Numbers
<1>1. OnScreen' = OnScreen /\ Pos' = Pos
  BY DEF CursorPos, SelectByte, OutByte, shown, OnScreen, Pos
<1>2. CASE CursorPos(t)
  <2>1. pc[t] = "cursor" /\ OthersIdle(t)' /\ pc'[t] = "index_low"
    BY <1>2, LoneOut DEF CursorPos
  <2>2. OnScreen => reg'[t] = Pos
    BY <1>0, <1>2, BytesFit DEF CursorPos, Load
  <2> QED
    BY <1>1, <2>1, <2>2 DEF PutsOut
<1>3. CASE Step(t, "index_low", "data_low") /\ crt' = [crt EXCEPT !.index = "low"]
           /\ UNCHANGED reg
  <2>1. /\ pc[t] = "index_low" /\ PutsOut(t) /\ OthersIdle(t)' /\ pc'[t] = "data_low"
    BY <1>3, LoneOut
  <2>2. crt'.index = "low" /\ (OnScreen => reg'[t] = Pos)
    BY <1>0, <1>3, <2>1 DEF PutsOut, Outs
  <2> QED
    BY <1>1, <2>1, <2>2 DEF PutsOut
<1>4. CASE Step(t, "data_low", "index_high") /\ OutData(reg[t]) /\ UNCHANGED reg
  <2>1. pc[t] = "data_low" /\ PutsOut(t) /\ OthersIdle(t)' /\ pc'[t] = "index_high"
    BY <1>4, LoneOut
  <2>2. (OnScreen => reg[t] = Pos) /\ crt.index = "low"
    BY <2>1 DEF PutsOut, Outs
  <2>3. crt' = [crt EXCEPT !["low"] = reg[t] % BYTE]
    BY <1>4, <2>2 DEF OutData
  <2>4. OnScreen => crt'.low = Pos % BYTE
    BY <1>0, <2>2, <2>3
  <2> QED
    BY <1>1, <1>4, <2>1, <2>2, <2>4 DEF PutsOut
<1>5. CASE Step(t, "index_high", "data_high") /\ crt' = [crt EXCEPT !.index = "high"]
           /\ UNCHANGED reg
  <2>1. pc[t] = "index_high" /\ PutsOut(t) /\ OthersIdle(t)' /\ pc'[t] = "data_high"
    BY <1>5, LoneOut
  <2>2. OnScreen => reg[t] = Pos /\ crt.low = Pos % BYTE
    BY <2>1 DEF PutsOut, Outs
  <2>3. crt'.index = "high" /\ crt'.low = crt.low
    BY <1>0, <1>5
  <2> QED
    BY <1>1, <1>5, <2>1, <2>2, <2>3 DEF PutsOut
<1>6. CASE Step(t, "data_high", "idle") /\ OutData(HighByte(reg[t]))
  <2>1. pc[t] = "data_high" /\ PutsOut(t) /\ OthersIdle(t)' /\ pc'[t] = "idle"
    BY <1>6, LoneOut
  <2>2. (OnScreen => reg[t] = Pos /\ crt.low = Pos % BYTE) /\ crt.index = "high"
    BY <2>1 DEF PutsOut, Outs
  <2>3. crt' = [crt EXCEPT !["high"] = (reg[t] \div BYTE) % BYTE]
    BY <1>6, <2>2 DEF OutData, HighByte
  <2>4. OnScreen => crt'.high = (Pos \div BYTE) % BYTE /\ crt'.low = Pos % BYTE
    BY <1>0, <2>2, <2>3
  <2>5. OnScreen => crt'.high * BYTE + crt'.low = Pos
    BY <2>4, BytesFit
  <2>6. Idle'
    BY <2>1 DEF OthersIdle, Idle
  <2> QED
    BY <1>1, <2>5, <2>6 DEF CrtPos
<1> QED
  BY <1>2, <1>3, <1>4, <1>5, <1>6 DEF SelectByte, OutByte

LEMMA CursorStep == TypeInv /\ CursorInv /\ [Next]_vars => CursorInv'
<1> SUFFICES ASSUME TypeInv, CursorInv, [Next]_vars, ~mixed' PROVE CursorInv'
  BY DEF CursorInv
<1>0. pc \in [Threads -> Places] /\ mixed \in BOOLEAN
  BY DEF TypeInv, TableInv, RowInv, Numbers
<1>1. ASSUME NEW t \in Threads, NEW to, to \notin Outs \cup {"idle"}, pc'[t] = to,
             OthersIdle(t)'
      PROVE  CursorInv'
  BY <1>1 DEF CursorInv, PutsOut, Outs
<1>2. ASSUME NEW t \in Threads, NEW what, Begin(t, what)
      PROVE  CursorInv'
  <2>1. Entry(what) \notin Outs \cup {"idle"}
    BY DEF Entry, Outs
  <2>2. OthersIdle(t) /\ pc' = [pc EXCEPT ![t] = Entry(what)]
    BY <1>2 DEF Begin, Note
  <2>3. OthersIdle(t)' /\ pc'[t] = Entry(what)
    BY <1>0, <2>2 DEF OthersIdle
  <2> QED
    BY <1>1, <2>1, <2>3
<1>3. ASSUME NEW t \in Threads, NEW from, from # "idle", NEW to, to \notin Outs \cup {"idle"},
             Step(t, from, to)
      PROVE  CursorInv'
  BY <1>1, <1>3, LoneOut
<1>4. CASE Key
  <2>1. PICK to \in {"scroll", "cursor"} : Step(Handler, "key", to)
    BY <1>4 DEF Key, Note
  <2> QED
    BY <1>3, <2>1, Constants DEF Outs
<1>5. ASSUME NEW t \in Threads, Work(t)
      PROVE  CursorInv'
  <2>1. CASE CursorPos(t) \/ SelectByte(t) \/ OutByte(t)
    BY <2>1, PutsOutStep DEF CursorInv
  <2>2. CASE ~(CursorPos(t) \/ SelectByte(t) \/ OutByte(t))
    <3>1. PICK from \in Places \ {"idle"}, to \in Places \ (Outs \cup {"idle"}) :
            Step(t, from, to)
      BY <1>5, <2>2 DEF Work, WriteChar, TestColumn, LoadCursor, StoreCx, StoreCy, ZeroCx,
         ScrollTest, CopyRow, ClearLastRow, StoreRow, AfterScroll, Places, Outs
    <3> QED
      BY <1>3, <3>1
  <2> QED
    BY <2>1, <2>2
<1>6. CASE UNCHANGED vars
  <2>1. OnScreen' = OnScreen /\ Pos' = Pos /\ CrtPos' = CrtPos /\ Idle' = Idle
    BY <1>6 DEF vars, shown, OnScreen, Pos, CrtPos, Idle
  <2>2. \A t \in Threads : OthersIdle(t)' = OthersIdle(t) /\ PutsOut(t)' = PutsOut(t)
    BY <1>6, <2>1 DEF vars, OthersIdle, PutsOut
  <2> QED
    BY <1>6, <2>1, <2>2 DEF vars, CursorInv
<1> QED
  BY <1>2, <1>4, <1>5, <1>6 DEF Next, Prints, Types, Threads

\* For every size of the screen and every number of processes: a call that
\* nobody disturbed and that ends on the screen leaves the two registers of the
\* CRT controller, written a byte at a time, at the cell of cx and cy, wherever
\* mixed calls had left cx and cy before it. (update_cursor, move_cursor)
THEOREM HardwareCursorFollows == Spec => []HardwareCursorAgrees
<1>1. Init => CursorInv
  <2> SUFFICES ASSUME Init PROVE CursorInv
    OBVIOUS
  <2>1. Pos = 0 /\ CrtPos = 0
    BY Constants DEF Init, Pos, CrtPos
  <2>2. Idle
    BY DEF Init, Idle
  <2> QED
    BY <2>1, <2>2 DEF CursorInv
<1>2. TypeInv /\ CursorInv => HardwareCursorAgrees
  <2> SUFFICES ASSUME CursorInv, Idle, ~mixed PROVE OnScreen => CrtPos = Pos
    BY DEF HardwareCursorAgrees, CrtPos
  <2> QED
    BY DEF CursorInv, Idle
<1> QED
  BY <1>1, <1>2, TypeInit, TypeStep, CursorStep, PTL DEF Spec
=============================================================================
