---------------------------- MODULE KeyboardProofs ----------------------------
(***************************************************************************)
(* Proofs about the keyboard driver for every set of keys and any number   *)
(* of events: what keyStatus says of keys and of caps lock, and what is    *)
(* put on the screen, is what the keyboard meant.                          *)
(***************************************************************************)
EXTENDS Keyboard, SequenceTheorems, TLAPS

-----------------------------------------------------------------------------
(* The state of the keyboard that a byte tells of                          *)

States == [held : SUBSET Keys, caps : BOOLEAN]
Bytes == [key : Keys \cup NoCodes, up : BOOLEAN, caps : BOOLEAN, held : SUBSET Keys]

IsKey(b) == b.key \in Keys
Before(b) == [held |-> b.held, caps |-> b.caps]
After(b) == [held |-> IF b.up THEN b.held \ {b.key} ELSE b.held \cup {b.key},
             caps |-> IF b.key = "caps" /\ ~b.up THEN ~b.caps ELSE b.caps]
Now == [held |-> held, caps |-> capsSent]

\* The codes of keys in q lead from state x to state y
Linked(q, x, y) ==
  /\ \A i \in 1 .. Len(q) :
       IsKey(q[i]) /\ (\A j \in 1 .. i - 1 : ~IsKey(q[j])) => Before(q[i]) = x
  /\ \A i, j \in 1 .. Len(q) :
       i < j /\ IsKey(q[i]) /\ IsKey(q[j]) /\ (\A m \in i + 1 .. j - 1 : ~IsKey(q[m]))
         => Before(q[j]) = After(q[i])
  /\ \A i \in 1 .. Len(q) :
       IsKey(q[i]) /\ (\A j \in i + 1 .. Len(q) : ~IsKey(q[j])) => After(q[i]) = y
  /\ (\A i \in 1 .. Len(q) : ~IsKey(q[i])) => x = y

\* keyStatus shows state x
Agrees(x) ==
  /\ \A k \in Keys : kbdus[k] \in Tags \ {"#"} /\ OneKey(kbdus[k]) =>
       (Pressed(kbdus[k]) <=> k \in x.held)
  /\ \A t \in Tags : (\A k \in Keys : kbdus[k] # t) => ~Pressed(t)
  /\ isCapsOn <=> x.caps

\* The driver has seen some state x, the byte in the buffer comes next, and the
\* bytes in the queue lead to the state of the keyboard
Seen(x) ==
  /\ Agrees(x)
  /\ IsKey(obf) => Before(obf) = x
  /\ Linked(queue, IF IsKey(obf) THEN After(obf) ELSE x, Now)

Typed ==
  /\ TypeOK
  /\ obf \in Bytes \cup {NoByte} /\ queue \in Seq(Bytes)
  /\ irr => obf # NoByte
  /\ hpc = "handler" => ~irr

Follows == \E x \in States : Seen(x)

\* The light, once it was set for a key
LightInv ==
  /\ hpc = "send2" => ibf = "ED" \/ (ibf = None /\ expect)
  /\ litByKey => boot = "done"
  /\ litByKey /\ hpc \in {"idle", "handler"} =>
       \/ ibf = None /\ (led <=> isCapsOn)
       \/ ibf \in {"00", "04"} /\ expect /\ (ibf = "04" <=> isCapsOn)


-----------------------------------------------------------------------------
(* The tags of keys, and their bits                                        *)

\* A bit of keyStatus belongs to one tag, so different tags have different bits.
LEMMA BitOfTag ==
  ASSUME NEW t \in Tags
  PROVE  BitOf(t) \in 0 .. 27 /\ TagOfBit[BitOf(t) + 1] = t
<1>1. \E i \in 1 .. 28 : TagOfBit[i] = t
  BY DEF Tags
<1>2. (CHOOSE i \in 1 .. 28 : TagOfBit[i] = t) \in 1 .. 28
      /\ TagOfBit[CHOOSE i \in 1 .. 28 : TagOfBit[i] = t] = t
  BY <1>1
<1> DEFINE i == CHOOSE j \in 1 .. 28 : TagOfBit[j] = t
<1>3. BitOf(t) = i - 1 /\ i \in 1 .. 28 /\ TagOfBit[i] = t
  BY <1>2 DEF BitOf
<1> HIDE DEF i
<1>4. i - 1 \in 0 .. 27 /\ (i - 1) + 1 = i
  BY <1>3
<1> QED
  BY <1>3, <1>4

LEMMA BitsDiffer ==
  ASSUME NEW s \in Tags, NEW t \in Tags, BitOf(s) = BitOf(t)
  PROVE  s = t
BY BitOfTag

\* The mask of kb.c:235 clears, of the bits of tags, the one of insert.
LEMMA InsertBit ==
  ASSUME NEW t \in Tags, BitOf(t) = 24
  PROVE  t = "#"
<1>1. TagOfBit[25] = "#"
  BY DEF TagOfBit
<1> QED
  BY <1>1, BitOfTag

LEMMA TagSet ==
  /\ "L" \in Tags /\ "R" \in Tags
  /\ "NUL" \notin Tags /\ "C" \notin Tags /\ "a" \notin Tags /\ "1" \notin Tags
<1>1. TagOfBit[2] = "L" /\ TagOfBit[3] = "R"
  BY DEF TagOfBit
<1>2. TagOfBit[1] = "$" /\ TagOfBit[2] = "L" /\ TagOfBit[3] = "R" /\ TagOfBit[4] = "A"
      /\ TagOfBit[5] = "D" /\ TagOfBit[6] = "E" /\ TagOfBit[7] = "F" /\ TagOfBit[8] = "G"
      /\ TagOfBit[9] = "H" /\ TagOfBit[10] = "I"
  BY DEF TagOfBit
<1>3. TagOfBit[11] = "J" /\ TagOfBit[12] = "K" /\ TagOfBit[13] = "?" /\ TagOfBit[14] = "M"
      /\ TagOfBit[15] = "N" /\ TagOfBit[16] = "S" /\ TagOfBit[17] = "T" /\ TagOfBit[18] = "U"
      /\ TagOfBit[19] = "!" /\ TagOfBit[20] = "Z"
  BY DEF TagOfBit
<1>4. TagOfBit[21] = "V" /\ TagOfBit[23] = "X" /\ TagOfBit[24] = "@"
      /\ TagOfBit[25] = "#" /\ TagOfBit[26] = "%" /\ TagOfBit[27] = "^" /\ TagOfBit[28] = "&"
  BY DEF TagOfBit
<1>5. \A i \in 1 .. 10 : TagOfBit[i] \notin {"NUL", "C", "a", "1"}
  BY <1>2
<1>6. \A i \in 11 .. 20 : TagOfBit[i] \notin {"NUL", "C", "a", "1"}
  BY <1>3
<1>7. \A i \in 21 .. 28 : TagOfBit[i] \notin {"NUL", "C", "a", "1"}
  <2>1. TagOfBit[22] \notin {"NUL", "C", "a", "1"}
    <3>1. TagOfBit[22] = "\""
      BY DEF TagOfBit
    <3> QED
      BY <3>1, Zenon
  <2>2. \A i \in (21 .. 28) \ {22} : TagOfBit[i] \notin {"NUL", "C", "a", "1"}
    BY <1>4
  <2> QED
    BY <2>1, <2>2
<1>8. \A i \in 1 .. 28 : TagOfBit[i] \notin {"NUL", "C", "a", "1"}
  <2> SUFFICES ASSUME NEW i \in 1 .. 28
               PROVE  TagOfBit[i] \notin {"NUL", "C", "a", "1"}
    OBVIOUS
  <2>1. i \in 1 .. 10 \/ i \in 11 .. 20 \/ i \in 21 .. 28
    OBVIOUS
  <2> QED
    BY <2>1, <1>5, <1>6, <1>7
<1> QED
  BY <1>1, <1>8 DEF Tags

\* What kbdus says of the keys that the properties name.
LEMMA KeyTags ==
  /\ Keys \subseteq DOMAIN kbdus /\ NoCodes \subseteq DOMAIN kbdus
  /\ Keys \cap NoCodes = {} /\ None \notin Keys \cup NoCodes
  /\ \A k \in NoCodes : kbdus[k] = "NUL"
  /\ \A k \in DOMAIN kbdus : kbdus[k] = "C" <=> k = "caps"
  /\ \A k \in DOMAIN kbdus : kbdus[k] = "L" <=> k = "lshift"
  /\ \A k \in DOMAIN kbdus : kbdus[k] = "R" <=> k = "rshift"
  /\ kbdus["a"] = "a" /\ kbdus["one"] = "1"
<1>1. DOMAIN kbdus =
        {"lctrl", "rctrl", "lshift", "rshift", "lalt", "f1", "up", "left", "right",
         "down", "insert", "delete", "caps", "a", "one", "space", "menu"} \cup NoCodes
  BY DEF kbdus, NoCodes
<1>2. kbdus["lctrl"] = "$" /\ kbdus["rctrl"] = "$" /\ kbdus["lshift"] = "L"
      /\ kbdus["rshift"] = "R" /\ kbdus["lalt"] = "A"
  BY DEF kbdus
<1>3. kbdus["f1"] = "D" /\ kbdus["up"] = "U" /\ kbdus["left"] = "Z"
      /\ kbdus["right"] = "V" /\ kbdus["down"] = "X"
  BY DEF kbdus
<1>4. kbdus["insert"] = "#" /\ kbdus["delete"] = "%" /\ kbdus["caps"] = "C"
      /\ kbdus["a"] = "a" /\ kbdus["one"] = "1" /\ kbdus["space"] = " "
      /\ kbdus["menu"] = "NUL"
  BY DEF kbdus
<1>5. kbdus["E0"] = "NUL" /\ kbdus["FA"] = "NUL" /\ kbdus["FE"] = "NUL"
  BY DEF kbdus
<1>6. Keys \subseteq DOMAIN kbdus /\ NoCodes \subseteq DOMAIN kbdus /\ Keys \cap NoCodes = {}
  BY KeyboardAssumption, <1>1
<1>7. None \notin DOMAIN kbdus
  BY <1>1 DEF None, NoCodes
<1>8. \A k \in NoCodes : kbdus[k] = "NUL"
  BY <1>5 DEF NoCodes
<1>9. /\ \A k \in DOMAIN kbdus : kbdus[k] = "C" <=> k = "caps"
      /\ \A k \in DOMAIN kbdus : kbdus[k] = "L" <=> k = "lshift"
      /\ \A k \in DOMAIN kbdus : kbdus[k] = "R" <=> k = "rshift"
  BY <1>1, <1>2, <1>3, <1>4, <1>8
<1> QED
  BY <1>4, <1>6, <1>7, <1>8, <1>9


-----------------------------------------------------------------------------
(* The chain of states that the bytes of a queue tell of                   *)

LEMMA LinkEmpty ==
  ASSUME NEW x
  PROVE  Linked(<<>>, x, x)
BY DEF Linked

\* The code of a key continues the chain when it was sent in its last state.
LEMMA LinkKey ==
  ASSUME NEW S, NEW q \in Seq(S), NEW e \in S, NEW x, NEW y,
         Linked(q, x, y), IsKey(e), Before(e) = y
  PROVE  Linked(Append(q, e), x, After(e))
<1> DEFINE n == Len(q)
           r == Append(q, e)
<1>1. n \in Nat /\ Len(r) = n + 1 /\ r[n + 1] = e /\ \A i \in 1 .. n : r[i] = q[i]
  BY AppendProperties, LenProperties
<1> HIDE DEF n, r
<1>2. /\ \A i \in 1 .. n :
           IsKey(q[i]) /\ (\A j \in 1 .. i - 1 : ~IsKey(q[j])) => Before(q[i]) = x
      /\ \A i, j \in 1 .. n :
           i < j /\ IsKey(q[i]) /\ IsKey(q[j]) /\ (\A m \in i + 1 .. j - 1 : ~IsKey(q[m]))
             => Before(q[j]) = After(q[i])
      /\ \A i \in 1 .. n :
           IsKey(q[i]) /\ (\A j \in i + 1 .. n : ~IsKey(q[j])) => After(q[i]) = y
      /\ (\A i \in 1 .. n : ~IsKey(q[i])) => x = y
  BY DEF Linked, n
<1>3. ASSUME NEW i \in 1 .. n + 1, IsKey(r[i]), \A j \in 1 .. i - 1 : ~IsKey(r[j])
      PROVE  Before(r[i]) = x
  <2>1. CASE i \in 1 .. n
    <3>1. r[i] = q[i] /\ \A j \in 1 .. i - 1 : j \in 1 .. n /\ r[j] = q[j]
      BY <1>1, <2>1
    <3> QED
      BY <1>2, <1>3, <2>1, <3>1
  <2>2. CASE i = n + 1
    <3>1. \A j \in 1 .. n : ~IsKey(q[j])
      BY <1>1, <1>3, <2>2
    <3> QED
      BY <1>1, <1>2, <2>2, <3>1
  <2> QED
    BY <1>1, <2>1, <2>2
<1>4. ASSUME NEW i \in 1 .. n + 1, NEW j \in 1 .. n + 1, i < j, IsKey(r[i]), IsKey(r[j]),
             \A m \in i + 1 .. j - 1 : ~IsKey(r[m])
      PROVE  Before(r[j]) = After(r[i])
  <2>1. i \in 1 .. n /\ r[i] = q[i]
    BY <1>1, <1>4
  <2>2. CASE j \in 1 .. n
    <3>1. r[j] = q[j] /\ \A m \in i + 1 .. j - 1 : m \in 1 .. n /\ r[m] = q[m]
      BY <1>1, <2>2, <2>1
    <3> QED
      BY <1>2, <1>4, <2>1, <2>2, <3>1
  <2>3. CASE j = n + 1
    <3>1. \A m \in i + 1 .. n : ~IsKey(q[m])
      <4> SUFFICES ASSUME NEW m \in i + 1 .. n
                   PROVE  ~IsKey(q[m])
        OBVIOUS
      <4>1. m \in 1 .. n /\ m \in i + 1 .. j - 1
        BY <1>1, <2>1, <2>3
      <4> QED
        BY <4>1, <1>1, <1>4
    <3> QED
      BY <1>1, <1>2, <1>4, <2>1, <2>3, <3>1
  <2> QED
    BY <1>1, <2>2, <2>3
<1>5. ASSUME NEW i \in 1 .. n + 1, IsKey(r[i]), \A j \in i + 1 .. n + 1 : ~IsKey(r[j])
      PROVE  After(r[i]) = After(e)
  <2>1. i = n + 1
    BY <1>1, <1>5
  <2> QED
    BY <1>1, <2>1
<1>6. ~ \A i \in 1 .. n + 1 : ~IsKey(r[i])
  BY <1>1
<1> QED
  BY <1>1, <1>3, <1>4, <1>5, <1>6 DEF Linked, r

\* A byte that is no code of a key leaves the chain alone.
LEMMA LinkOther ==
  ASSUME NEW S, NEW q \in Seq(S), NEW e \in S, NEW x, NEW y,
         Linked(q, x, y), ~IsKey(e)
  PROVE  Linked(Append(q, e), x, y)
<1> DEFINE n == Len(q)
           r == Append(q, e)
<1>1. n \in Nat /\ Len(r) = n + 1 /\ r[n + 1] = e /\ \A i \in 1 .. n : r[i] = q[i]
  BY AppendProperties, LenProperties
<1> HIDE DEF n, r
<1>2. /\ \A i \in 1 .. n :
           IsKey(q[i]) /\ (\A j \in 1 .. i - 1 : ~IsKey(q[j])) => Before(q[i]) = x
      /\ \A i, j \in 1 .. n :
           i < j /\ IsKey(q[i]) /\ IsKey(q[j]) /\ (\A m \in i + 1 .. j - 1 : ~IsKey(q[m]))
             => Before(q[j]) = After(q[i])
      /\ \A i \in 1 .. n :
           IsKey(q[i]) /\ (\A j \in i + 1 .. n : ~IsKey(q[j])) => After(q[i]) = y
      /\ (\A i \in 1 .. n : ~IsKey(q[i])) => x = y
  BY DEF Linked, n
<1>3. \A i \in 1 .. n + 1 : IsKey(r[i]) => i \in 1 .. n /\ r[i] = q[i]
  BY <1>1
<1>4. ASSUME NEW i \in 1 .. n + 1, IsKey(r[i]), \A j \in 1 .. i - 1 : ~IsKey(r[j])
      PROVE  Before(r[i]) = x
  <2>1. i \in 1 .. n /\ r[i] = q[i] /\ \A j \in 1 .. i - 1 : j \in 1 .. n /\ r[j] = q[j]
    BY <1>1, <1>3, <1>4
  <2> QED
    BY <1>2, <1>4, <2>1
<1>5. ASSUME NEW i \in 1 .. n + 1, NEW j \in 1 .. n + 1, i < j, IsKey(r[i]), IsKey(r[j]),
             \A m \in i + 1 .. j - 1 : ~IsKey(r[m])
      PROVE  Before(r[j]) = After(r[i])
  <2>1. i \in 1 .. n /\ r[i] = q[i] /\ j \in 1 .. n /\ r[j] = q[j]
    BY <1>3, <1>5
  <2>2. \A m \in i + 1 .. j - 1 : m \in 1 .. n /\ r[m] = q[m]
    BY <1>1, <2>1
  <2> QED
    BY <1>2, <1>5, <2>1, <2>2
<1>6. ASSUME NEW i \in 1 .. n + 1, IsKey(r[i]), \A j \in i + 1 .. n + 1 : ~IsKey(r[j])
      PROVE  After(r[i]) = y
  <2>1. i \in 1 .. n /\ r[i] = q[i]
    BY <1>3, <1>6
  <2>2. \A j \in i + 1 .. n : ~IsKey(q[j])
    BY <1>1, <1>6, <2>1
  <2> QED
    BY <1>2, <1>6, <2>1, <2>2
<1>7. (\A i \in 1 .. n + 1 : ~IsKey(r[i])) => x = y
  BY <1>1, <1>2
<1> QED
  BY <1>1, <1>4, <1>5, <1>6, <1>7 DEF Linked, r

\* The first byte of a queue takes the chain from its first state to the next.
LEMMA LinkTail ==
  ASSUME NEW S, NEW q \in Seq(S), q # <<>>, NEW x, NEW y, Linked(q, x, y)
  PROVE  /\ IsKey(Head(q)) => Before(Head(q)) = x
         /\ Linked(Tail(q), IF IsKey(Head(q)) THEN After(Head(q)) ELSE x, y)
<1> DEFINE n == Len(q)
           r == Tail(q)
           z == IF IsKey(Head(q)) THEN After(Head(q)) ELSE x
<1>1. n \in Nat /\ n > 0 /\ Len(r) = n - 1 /\ Head(q) = q[1]
      /\ \A i \in 1 .. n - 1 : r[i] = q[i + 1]
  BY HeadTailProperties, LenProperties, EmptySeq
<1> HIDE DEF n, r
<1>2. /\ \A i \in 1 .. n :
           IsKey(q[i]) /\ (\A j \in 1 .. i - 1 : ~IsKey(q[j])) => Before(q[i]) = x
      /\ \A i, j \in 1 .. n :
           i < j /\ IsKey(q[i]) /\ IsKey(q[j]) /\ (\A m \in i + 1 .. j - 1 : ~IsKey(q[m]))
             => Before(q[j]) = After(q[i])
      /\ \A i \in 1 .. n :
           IsKey(q[i]) /\ (\A j \in i + 1 .. n : ~IsKey(q[j])) => After(q[i]) = y
      /\ (\A i \in 1 .. n : ~IsKey(q[i])) => x = y
  BY DEF Linked, n
<1>3. IsKey(q[1]) => Before(q[1]) = x
  BY <1>1, <1>2
<1>4. z = IF IsKey(q[1]) THEN After(q[1]) ELSE x
  BY <1>1
<1> HIDE DEF z
<1>5. \A m \in 2 .. n : m - 1 \in 1 .. n - 1 /\ r[m - 1] = q[m]
  BY <1>1
<1>6. ASSUME NEW i \in 1 .. n - 1, IsKey(r[i]), \A j \in 1 .. i - 1 : ~IsKey(r[j])
      PROVE  Before(r[i]) = z
  <2>1. i + 1 \in 2 .. n /\ r[i] = q[i + 1] /\ 1 \in 1 .. n /\ i + 1 \in 1 .. n
    BY <1>1
  <2>2. \A m \in 2 .. i : ~IsKey(q[m])
    <3> SUFFICES ASSUME NEW m \in 2 .. i
                 PROVE  ~IsKey(q[m])
      OBVIOUS
    <3>1. m - 1 \in 1 .. i - 1 /\ m \in 2 .. n
      BY <1>1
    <3> QED
      BY <3>1, <1>5, <1>6
  <2>3. CASE IsKey(q[1])
    <3>1. \A m \in 1 + 1 .. (i + 1) - 1 : ~IsKey(q[m])
      BY <2>2
    <3>2. Before(q[i + 1]) = After(q[1])
      BY <1>2, <1>6, <2>1, <2>3, <3>1
    <3> QED
      BY <1>4, <2>1, <2>3, <3>2
  <2>4. CASE ~IsKey(q[1])
    <3>1. \A m \in 1 .. (i + 1) - 1 : ~IsKey(q[m])
      BY <2>2, <2>4
    <3>2. Before(q[i + 1]) = x
      BY <1>2, <1>6, <2>1, <3>1
    <3> QED
      BY <1>4, <2>1, <2>4, <3>2
  <2> QED
    BY <2>3, <2>4
<1>7. ASSUME NEW i \in 1 .. n - 1, NEW j \in 1 .. n - 1, i < j, IsKey(r[i]), IsKey(r[j]),
             \A m \in i + 1 .. j - 1 : ~IsKey(r[m])
      PROVE  Before(r[j]) = After(r[i])
  <2>1. /\ r[i] = q[i + 1] /\ r[j] = q[j + 1] /\ i + 1 < j + 1
        /\ i + 1 \in 1 .. n /\ j + 1 \in 1 .. n
    BY <1>1, <1>7
  <2>2. \A m \in (i + 1) + 1 .. (j + 1) - 1 : ~IsKey(q[m])
    <3> SUFFICES ASSUME NEW m \in (i + 1) + 1 .. (j + 1) - 1
                 PROVE  ~IsKey(q[m])
      OBVIOUS
    <3>1. m - 1 \in i + 1 .. j - 1 /\ m \in 2 .. n
      BY <1>1
    <3> QED
      BY <3>1, <1>5, <1>7
  <2> QED
    BY <1>2, <1>7, <2>1, <2>2
<1>8. ASSUME NEW i \in 1 .. n - 1, IsKey(r[i]), \A j \in i + 1 .. n - 1 : ~IsKey(r[j])
      PROVE  After(r[i]) = y
  <2>1. r[i] = q[i + 1] /\ i + 1 \in 1 .. n
    BY <1>1
  <2>2. \A m \in (i + 1) + 1 .. n : ~IsKey(q[m])
    <3> SUFFICES ASSUME NEW m \in (i + 1) + 1 .. n
                 PROVE  ~IsKey(q[m])
      OBVIOUS
    <3>1. m - 1 \in i + 1 .. n - 1 /\ m \in 2 .. n
      BY <1>1
    <3> QED
      BY <3>1, <1>5, <1>8
  <2> QED
    BY <1>2, <1>8, <2>1, <2>2
<1>9. ASSUME \A i \in 1 .. n - 1 : ~IsKey(r[i])
      PROVE  z = y
  <2>1. \A m \in 2 .. n : ~IsKey(q[m])
    BY <1>5, <1>9
  <2>2. CASE IsKey(q[1])
    <3>1. \A m \in 1 + 1 .. n : ~IsKey(q[m])
      BY <2>1
    <3>2. 1 \in 1 .. n
      BY <1>1
    <3> QED
      BY <1>2, <1>4, <2>2, <3>1, <3>2
  <2>3. CASE ~IsKey(q[1])
    <3>1. \A m \in 1 .. n : ~IsKey(q[m])
      BY <1>1, <2>1, <2>3
    <3> QED
      BY <1>2, <1>4, <2>3, <3>1
  <2> QED
    BY <2>2, <2>3
<1>10. Linked(r, z, y)
  BY <1>1, <1>6, <1>7, <1>8, <1>9 DEF Linked
<1> QED
  BY <1>1, <1>3, <1>10 DEF r, z


-----------------------------------------------------------------------------
(* The states of the driver, the controller and the keyboard               *)

\* What the keyboard sends for a key: the prefix if there is one, and the code.
LEMMA CodesOfKey ==
  ASSUME NEW k \in Keys, NEW up \in BOOLEAN, NEW q \in Seq(Bytes),
         held \subseteq Keys, capsSent \in BOOLEAN
  PROVE  /\ Byte(k, up) \in Bytes /\ IsKey(Byte(k, up)) /\ Before(Byte(k, up)) = Now
         /\ NoCode("E0") \in Bytes /\ ~IsKey(NoCode("E0"))
         /\ q \o Codes(k, up) =
              Append(IF k \in Extended THEN Append(q, NoCode("E0")) ELSE q, Byte(k, up))
         /\ q \o Codes(k, up) \in Seq(Bytes)
<1>1. Byte(k, up) \in Bytes /\ IsKey(Byte(k, up)) /\ Before(Byte(k, up)) = Now
  BY DEF Byte, Bytes, IsKey, Before, Now
<1>2. NoCode("E0") \in Bytes /\ ~IsKey(NoCode("E0"))
  BY KeyTags DEF NoCode, Bytes, IsKey, NoCodes
<1> HIDE DEF Bytes, IsKey, Before, Now
<1>3. q \o Codes(k, up) =
        Append(IF k \in Extended THEN Append(q, NoCode("E0")) ELSE q, Byte(k, up))
  <2> DEFINE e == Byte(k, up)
             p == NoCode("E0")
  <2>1. e \in Bytes /\ p \in Bytes
    BY <1>1, <1>2
  <2>2. Codes(k, up) = (IF k \in Extended THEN <<p>> ELSE <<>>) \o <<e>>
    BY DEF Codes
  <2> HIDE DEF e, p
  <2>3. q \o (<<>> \o <<e>>) = Append(q, e) /\ q \o (<<p>> \o <<e>>) = Append(Append(q, p), e)
    BY <2>1
  <2> QED
    BY <2>2, <2>3 DEF e, p
<1>4. q \o Codes(k, up) \in Seq(Bytes)
  BY <1>1, <1>2, <1>3
<1> QED
  BY <1>1, <1>2, <1>3, <1>4

LEMMA AnswerByte ==
  ASSUME NEW b \in NoCodes
  PROVE  NoCode(b) \in Bytes /\ ~IsKey(NoCode(b))
BY KeyTags DEF NoCode, Bytes, IsKey

LEMMA EmptyBuffer ==
  NoByte \notin Bytes /\ ~IsKey(NoByte)
BY KeyTags DEF NoByte, Bytes, IsKey

LEMMA TypedInit ==
  ASSUME Init
  PROVE  Typed
<1>1. events \in 0 .. MaxEvents
  BY KeyboardAssumption DEF Init
<1>2. queue \in Seq(Bytes)
  BY DEF Init
<1>3. obf \in Bytes \cup {NoByte} /\ ~irr /\ hpc = "idle"
  BY DEF Init
<1>4. keyStatus \subseteq 0 .. CapsBit /\ held \subseteq Keys
  BY DEF Init
<1> QED
  BY <1>1, <1>2, <1>3, <1>4 DEF Init, Typed, TypeOK

LEMMA TypedStep ==
  ASSUME Typed, [Next]_vars
  PROVE  Typed'
<1> USE DEF Typed
<1>1. ASSUME NEW k \in Keys, Press(k)
      PROVE  Typed'
  <2>1. queue' \in Seq(Bytes)
    BY <1>1, CodesOfKey DEF Press, TypeOK
  <2>2. events' \in 0 .. MaxEvents
    BY <1>1, KeyboardAssumption DEF Press, TypeOK
  <2>3. held' \subseteq Keys /\ capsSent' \in BOOLEAN
    BY <1>1 DEF Press, TypeOK
  <2>4. UNCHANGED <<keyStatus, lookup, litByKey, boot, hpc, expect, led, obf, ibf, irr>>
    BY <1>1 DEF Press, driverVars
  <2> QED
    BY <2>1, <2>2, <2>3, <2>4 DEF TypeOK
<1>2. ASSUME NEW k \in Keys, Release(k)
      PROVE  Typed'
  <2>1. queue' \in Seq(Bytes)
    BY <1>2, CodesOfKey DEF Release, TypeOK
  <2>2. events' \in 0 .. MaxEvents
    BY <1>2, KeyboardAssumption DEF Release, TypeOK
  <2>3. held' \subseteq Keys /\ capsSent' \in BOOLEAN
    BY <1>2 DEF Release, TypeOK
  <2>4. UNCHANGED <<keyStatus, lookup, litByKey, boot, hpc, expect, led, obf, ibf, irr>>
    BY <1>2 DEF Release, driverVars
  <2> QED
    BY <2>1, <2>2, <2>3, <2>4 DEF TypeOK
<1>3. CASE HandOver
  <2>1. Head(queue) \in Bytes /\ Tail(queue) \in Seq(Bytes)
    BY <1>3, HeadTailProperties, ElementOfSeq DEF HandOver
  <2>2. hpc # "handler"
    BY <1>3 DEF HandOver, TypeOK
  <2> QED
    BY <1>3, <2>1, <2>2, EmptyBuffer DEF HandOver, TypeOK, driverVars, keyboardVars
<1>4. CASE Obey
  <2>1. queue' \in Seq(Bytes)
    BY <1>4, AnswerByte, AppendProperties DEF Obey, NoCodes
  <2>2. ibf' = None /\ expect' \in BOOLEAN /\ led' \in BOOLEAN
    BY <1>4 DEF Obey, TypeOK
  <2>3. UNCHANGED <<keyStatus, lookup, litByKey, boot, hpc, held, capsSent, events, obf, irr>>
    BY <1>4 DEF Obey, driverVars, keyboardVars
  <2> QED
    BY <2>1, <2>2, <2>3 DEF TypeOK
<1>5. CASE Install
  BY <1>5 DEF Install, Boot, TypeOK, driverVars, keyboardVars
<1>6. CASE BootCheck
  BY <1>6 DEF BootCheck, Boot, TypeOK, driverVars, keyboardVars
<1>7. CASE BootOut
  BY <1>7 DEF BootOut, Boot, TypeOK, driverVars, keyboardVars
<1>8. CASE initShiftLookup
  BY <1>8 DEF initShiftLookup, Boot, TypeOK, driverVars, keyboardVars
<1>9. CASE NoRoutine
  BY <1>9 DEF NoRoutine, TypeOK, driverVars, keyboardVars
<1>10. CASE Interrupt
  BY <1>10 DEF Interrupt, TypeOK, driverVars, keyboardVars
<1>11. CASE HandleRelease
  <2>1. keyStatus' \subseteq 0 .. CapsBit
    BY <1>11 DEF HandleRelease, Released, TypeOK
  <2> QED
    BY <1>11, <2>1 DEF HandleRelease, Taken, TypeOK, keyboardVars
<1>12. CASE HandlePress
  <2>1. keyStatus' \subseteq 0 .. CapsBit
    <3>1. PICK t \in Tags : keyStatus' = keyStatus \cup {BitOf(t)}
      BY <1>12 DEF HandlePress, PressedToo
    <3>2. BitOf(t) \in 0 .. CapsBit
      BY BitOfTag DEF CapsBit
    <3> QED
      BY <3>1, <3>2 DEF TypeOK
  <2> QED
    BY <1>12, <2>1 DEF HandlePress, Taken, TypeOK, keyboardVars
<1>13. CASE HandleCaps
  <2>1. keyStatus' \subseteq 0 .. CapsBit
    BY <1>13 DEF HandleCaps, CapsToggled, TypeOK, CapsBit
  <2> QED
    BY <1>13, <2>1 DEF HandleCaps, Taken, TypeOK, keyboardVars
<1>14. CASE SendCommand
  BY <1>14 DEF SendCommand, TypeOK, driverVars, keyboardVars
<1>15. CASE SendLight
  BY <1>15 DEF SendLight, LightByte, TypeOK, keyboardVars
<1>16. CASE HandleChar
  BY <1>16 DEF HandleChar, Taken, TypeOK, keyboardVars
<1>17. CASE UNCHANGED vars
  BY <1>17 DEF vars, TypeOK
<1> QED
  BY <1>1, <1>2, <1>3, <1>4, <1>5, <1>6, <1>7, <1>8, <1>9, <1>10, <1>11, <1>12, <1>13,
     <1>14, <1>15, <1>16, <1>17 DEF Next, Controller, Main, Handler


-----------------------------------------------------------------------------
(* keyStatus follows the keyboard                                          *)

\* The handler of a byte changes the bit of its key and the bit of caps lock
\* only, but for the bit of insert.
LEMMA AgreesStep ==
  ASSUME NEW b \in Bytes, NEW x \in States, IsKey(b) => Before(b) = x, Agrees(x),
         \A t \in Tags \ {"#"} :
           Pressed(t)' <=> IF t = kbdus[b.key] THEN ~b.up ELSE Pressed(t),
         \A t \in Tags : Pressed(t)' => Pressed(t) \/ t = kbdus[b.key],
         isCapsOn' <=> IF kbdus[b.key] = "C" /\ ~b.up THEN ~isCapsOn ELSE isCapsOn
  PROVE  Agrees(IF IsKey(b) THEN After(b) ELSE x)'
<1> DEFINE y == IF IsKey(b) THEN After(b) ELSE x
           g == kbdus[b.key]
<1>1. ~IsKey(b) => g = "NUL" /\ g \notin Tags
  BY KeyTags, TagSet DEF IsKey, Bytes
<1>2. IsKey(b) => /\ b.held = x.held /\ b.caps = x.caps
                  /\ y.held = (IF b.up THEN x.held \ {b.key} ELSE x.held \cup {b.key})
                  /\ y.caps = (IF b.key = "caps" /\ ~b.up THEN ~x.caps ELSE x.caps)
  BY DEF Before, After
<1>3. ~IsKey(b) => y = x
  OBVIOUS
<1>4. g = "C" <=> b.key = "caps"
  BY KeyTags DEF Bytes
<1>5. /\ \A k \in Keys : kbdus[k] \in Tags \ {"#"} /\ OneKey(kbdus[k]) =>
           (Pressed(kbdus[k]) <=> k \in x.held)
      /\ \A t \in Tags : (\A k \in Keys : kbdus[k] # t) => ~Pressed(t)
      /\ isCapsOn <=> x.caps
  BY DEF Agrees
<1> HIDE DEF y
<1>6. ASSUME NEW k \in Keys, kbdus[k] \in Tags \ {"#"}, OneKey(kbdus[k])
      PROVE  Pressed(kbdus[k])' <=> k \in y.held
  <2>1. CASE IsKey(b)
    <3>1. kbdus[k] = g <=> k = b.key
      BY <1>6, <2>1 DEF OneKey, IsKey
    <3> QED
      BY <1>2, <1>5, <1>6, <2>1, <3>1
  <2>2. CASE ~IsKey(b)
    <3>1. kbdus[k] # g
      BY <1>1, <1>6, <2>2
    <3> QED
      BY <1>3, <1>5, <1>6, <2>2, <3>1
  <2> QED
    BY <2>1, <2>2
<1>7. ASSUME NEW t \in Tags, \A k \in Keys : kbdus[k] # t
      PROVE  ~Pressed(t)'
  <2>1. t # g
    BY <1>1, <1>7 DEF IsKey
  <2> QED
    BY <1>5, <1>7, <2>1
<1>8. isCapsOn' <=> y.caps
  <2>1. CASE IsKey(b)
    BY <1>2, <1>4, <1>5, <2>1
  <2>2. CASE ~IsKey(b)
    <3>1. g # "C"
      BY <1>1, <2>2
    <3> QED
      BY <1>3, <1>5, <2>2, <3>1
  <2> QED
    BY <2>1, <2>2
<1>9. Agrees(y)'
  BY <1>6, <1>7, <1>8 DEF Agrees, OneKey
<1> QED
  BY <1>9 DEF y

LEMMA AfterState ==
  ASSUME NEW b \in Bytes, IsKey(b)
  PROVE  After(b) \in States /\ Before(b) \in States
BY DEF After, Before, States, Bytes, IsKey

\* The four ways in which the handler deals with a byte, as what they do to bits.
LEMMA HandlerBits ==
  ASSUME Typed, HandleRelease \/ HandlePress \/ HandleCaps \/ HandleChar,
         NEW b \in Bytes, b = obf
  PROVE  /\ \A t \in Tags \ {"#"} :
              Pressed(t)' <=> IF t = kbdus[b.key] THEN ~b.up ELSE Pressed(t)
         /\ \A t \in Tags : Pressed(t)' => Pressed(t) \/ t = kbdus[b.key]
         /\ isCapsOn' <=> IF kbdus[b.key] = "C" /\ ~b.up THEN ~isCapsOn ELSE isCapsOn
<1> DEFINE g == kbdus[b.key]
<1>0. \A t \in Tags : BitOf(t) \in 0 .. 27 /\ t # "C"
  BY BitOfTag, TagSet
<1>1. CASE HandleRelease
  <2>1. b.up /\ keyStatus' = IF g \in Tags THEN keyStatus \ {BitOf(g)} ELSE keyStatus
    BY <1>1 DEF HandleRelease, Released
  <2> HIDE DEF g
  <2>2. \A t \in Tags : BitOf(t) \in keyStatus' <=> BitOf(t) \in keyStatus /\ t # g
    BY <2>1, BitsDiffer
  <2>3. CapsBit \in keyStatus' <=> CapsBit \in keyStatus
    BY <2>1, <1>0 DEF CapsBit
  <2> QED
    BY <2>1, <2>2, <2>3 DEF Pressed, isCapsOn, g
<1>2. CASE HandlePress
  <2>1. ~b.up /\ g \in Tags /\ keyStatus' = keyStatus \cup {BitOf(g)}
    BY <1>2 DEF HandlePress, PressedToo
  <2> HIDE DEF g
  <2>2. \A t \in Tags : BitOf(t) \in keyStatus' <=> BitOf(t) \in keyStatus \/ t = g
    BY <2>1, BitsDiffer
  <2>3. (CapsBit \in keyStatus' <=> CapsBit \in keyStatus) /\ g # "C"
    BY <2>1, <1>0 DEF CapsBit
  <2> QED
    BY <2>1, <2>2, <2>3 DEF Pressed, isCapsOn, g
<1>3. CASE HandleCaps
  <2>1. ~b.up /\ g = "C" /\ keyStatus' = (IF isCapsOn THEN keyStatus \cap ((0 .. 27) \ {24})
                                                    ELSE keyStatus \cup {CapsBit})
    BY <1>3 DEF HandleCaps, CapsToggled
  <2> HIDE DEF g
  <2>2. \A t \in Tags : BitOf(t) # CapsBit
    BY <1>0 DEF CapsBit
  <2>3. \A t \in Tags \ {"#"} : BitOf(t) \in (0 .. 27) \ {24}
    BY <1>0, InsertBit
  <2>4. \A t \in Tags \ {"#"} : BitOf(t) \in keyStatus' <=> BitOf(t) \in keyStatus
    BY <2>1, <2>2, <2>3
  <2>5. \A t \in Tags : BitOf(t) \in keyStatus' => BitOf(t) \in keyStatus
    BY <2>1, <2>2
  <2>6. CapsBit \in keyStatus' <=> ~isCapsOn
    BY <2>1 DEF CapsBit, isCapsOn
  <2> QED
    BY <1>0, <2>1, <2>4, <2>5, <2>6 DEF Pressed, isCapsOn, g
<1>4. CASE HandleChar
  <2>1. ~b.up /\ g \notin Tags /\ g # "C" /\ keyStatus' = keyStatus
    BY <1>4 DEF HandleChar
  <2> QED
    BY <2>1 DEF Pressed, isCapsOn
<1> QED
  BY <1>1, <1>2, <1>3, <1>4

LEMMA FollowsInit ==
  ASSUME Init
  PROVE  Follows
<1> DEFINE x == [held |-> {}, caps |-> FALSE]
<1>1. x \in States /\ Now = x /\ queue = <<>> /\ obf = NoByte /\ keyStatus = {}
  BY DEF States, Now, Init
<1>2. Agrees(x)
  BY <1>1 DEF Agrees, Pressed, isCapsOn
<1>3. Linked(queue, x, Now)
  BY <1>1, LinkEmpty
<1> QED
  BY <1>1, <1>2, <1>3, EmptyBuffer DEF Follows, Seen


LEMMA SendingKey ==
  ASSUME Typed, NEW k \in Keys, NEW up \in BOOLEAN, NEW w, Linked(queue, w, Now)
  PROVE  Linked(queue \o Codes(k, up), w, After(Byte(k, up)))
<1> DEFINE q == IF k \in Extended THEN Append(queue, NoCode("E0")) ELSE queue
<1>1. /\ Byte(k, up) \in Bytes /\ IsKey(Byte(k, up)) /\ Before(Byte(k, up)) = Now
      /\ NoCode("E0") \in Bytes /\ ~IsKey(NoCode("E0"))
      /\ queue \o Codes(k, up) = Append(q, Byte(k, up))
      /\ queue \in Seq(Bytes)
  BY CodesOfKey DEF Typed, TypeOK
<1>2. q \in Seq(Bytes)
  BY <1>1, AppendProperties
<1>3. Linked(q, w, Now)
  BY <1>1, LinkOther
<1> HIDE DEF q
<1> QED
  BY <1>1, <1>2, <1>3, LinkKey

LEMMA FollowsStep ==
  ASSUME Typed, Follows, [Next]_vars
  PROVE  Follows'
<1>0. PICK x \in States : Seen(x)
  BY DEF Follows
<1> DEFINE w == IF IsKey(obf) THEN After(obf) ELSE x
<1>1. ASSUME NEW k \in Keys, Press(k)
      PROVE  Follows'
  <2>1. PICK v : v = w
    OBVIOUS
  <2>2. Linked(queue, v, Now)
    BY <1>0, <2>1 DEF Seen
  <2>3. Linked(queue \o Codes(k, FALSE), v, After(Byte(k, FALSE)))
    BY <2>2, SendingKey
  <2>4. After(Byte(k, FALSE)) = Now'
    BY <1>1 DEF After, Byte, Press, Now
  <2>5. queue' = queue \o Codes(k, FALSE) /\ UNCHANGED <<keyStatus, obf>>
    BY <1>1 DEF Press, driverVars
  <2>6. Linked(queue', v, Now')
    BY <2>3, <2>4, <2>5
  <2> QED
    BY <1>0, <2>1, <2>5, <2>6 DEF Follows, Seen, Agrees, Pressed, isCapsOn
<1>2. ASSUME NEW k \in Keys, Release(k)
      PROVE  Follows'
  <2>1. PICK v : v = w
    OBVIOUS
  <2>2. Linked(queue, v, Now)
    BY <1>0, <2>1 DEF Seen
  <2>3. Linked(queue \o Codes(k, TRUE), v, After(Byte(k, TRUE)))
    BY <2>2, SendingKey
  <2>4. After(Byte(k, TRUE)) = Now'
    BY <1>2 DEF After, Byte, Release, Now
  <2>5. queue' = queue \o Codes(k, TRUE) /\ UNCHANGED <<keyStatus, obf>>
    BY <1>2 DEF Release, driverVars
  <2>6. Linked(queue', v, Now')
    BY <2>3, <2>4, <2>5
  <2> QED
    BY <1>0, <2>1, <2>5, <2>6 DEF Follows, Seen, Agrees, Pressed, isCapsOn
<1>3. CASE HandOver
  <2>1. Linked(queue, x, Now)
    BY <1>0, <1>3, EmptyBuffer DEF Seen, HandOver
  <2>2. /\ queue # <<>> /\ queue \in Seq(Bytes)
        /\ obf' = Head(queue) /\ queue' = Tail(queue)
        /\ UNCHANGED <<keyStatus, held, capsSent>>
    BY <1>3 DEF HandOver, driverVars, keyboardVars, Typed
  <2>3. /\ IsKey(obf') => Before(obf') = x
        /\ Linked(queue', IF IsKey(obf') THEN After(obf') ELSE x, Now)
    BY <2>1, <2>2, LinkTail
  <2>4. Now' = Now
    BY <2>2 DEF Now
  <2> QED
    BY <1>0, <2>2, <2>3, <2>4 DEF Follows, Seen, Agrees, Pressed, isCapsOn
<1>4. CASE Obey
  <2>1. PICK v : v = w
    OBVIOUS
  <2>2. Linked(queue, v, Now)
    BY <1>0, <2>1 DEF Seen
  <2>3. PICK b \in NoCodes : queue' = Append(queue, NoCode(b))
    BY <1>4 DEF Obey, NoCodes
  <2>4. NoCode(b) \in Bytes /\ ~IsKey(NoCode(b)) /\ queue \in Seq(Bytes)
    BY AnswerByte DEF Typed
  <2>5. UNCHANGED <<keyStatus, obf, held, capsSent>> /\ Now' = Now
    BY <1>4 DEF Obey, driverVars, keyboardVars, Now
  <2>6. Linked(queue', v, Now')
    BY <2>2, <2>3, <2>4, <2>5, LinkOther
  <2> QED
    BY <1>0, <2>1, <2>5, <2>6 DEF Follows, Seen, Agrees, Pressed, isCapsOn
<1>5. ASSUME UNCHANGED <<keyStatus, queue, obf, held, capsSent>>
      PROVE  Follows'
  <2>1. Now' = Now
    BY <1>5 DEF Now
  <2> QED
    BY <1>0, <1>5, <2>1 DEF Follows, Seen, Agrees, Pressed, isCapsOn
<1>6. CASE HandleRelease \/ HandlePress \/ HandleCaps \/ HandleChar
  <2>1. PICK b \in Bytes : b = obf
    BY <1>6 DEF HandleRelease, HandlePress, HandleCaps, HandleChar, Typed, TypeOK
  <2> DEFINE z == IF IsKey(b) THEN After(b) ELSE x
  <2>2. z \in States
    BY AfterState
  <2>3. Agrees(z)'
    BY <1>0, <1>6, <2>1, HandlerBits, AgreesStep DEF Seen
  <2>4. obf' = NoByte /\ UNCHANGED <<queue, held, capsSent>>
    BY <1>6 DEF HandleRelease, HandlePress, HandleCaps, HandleChar, Taken, keyboardVars
  <2>5. Linked(queue, z, Now) /\ Now' = Now
    BY <1>0, <2>1, <2>4 DEF Seen, Now
  <2>6. Seen(z)'
    BY <2>3, <2>4, <2>5, EmptyBuffer DEF Seen
  <2> HIDE DEF z
  <2> QED
    BY <2>2, <2>6 DEF Follows
<1> QED
  <2>1. \/ \E k \in Keys : Press(k) \/ Release(k)
        \/ HandOver \/ Obey
        \/ HandleRelease \/ HandlePress \/ HandleCaps \/ HandleChar
        \/ UNCHANGED <<keyStatus, queue, obf, held, capsSent>>
    BY DEF Next, Controller, Main, Handler, Install, BootCheck, BootOut, initShiftLookup,
           NoRoutine, Interrupt, SendCommand, SendLight, driverVars, keyboardVars, vars
  <2> QED
    BY <1>1, <1>2, <1>3, <1>4, <1>5, <1>6, <2>1


-----------------------------------------------------------------------------
(* The light of caps lock                                                  *)

LEMMA LightStep ==
  ASSUME Typed, LightInv, [Next]_vars
  PROVE  LightInv'
<1> USE DEF LightInv
<1>1. ASSUME UNCHANGED <<keyStatus, boot, hpc, expect, led, ibf, litByKey>>
      PROVE  LightInv'
  BY <1>1 DEF isCapsOn
<1>2. CASE Obey
  <2>1. /\ ibf # None /\ ibf' = None /\ expect' = (ibf = "ED")
        /\ led' = (IF ibf # "ED" /\ expect THEN ibf = "04" ELSE led)
        /\ UNCHANGED <<keyStatus, boot, hpc, litByKey>>
    BY <1>2 DEF Obey, driverVars
  <2>2. isCapsOn' = isCapsOn
    BY <2>1 DEF isCapsOn
  <2>3. ibf \in {"ED", "00", "04"}
    BY <2>1 DEF Typed, TypeOK
  <2>4. litByKey' /\ hpc' \in {"idle", "handler"} => led' <=> isCapsOn'
    BY <2>1, <2>2, <2>3
  <2> QED
    BY <2>1, <2>3, <2>4
<1>3. CASE Install \/ BootCheck \/ BootOut \/ initShiftLookup
  <2>1. boot # "done" /\ hpc = "idle" /\ UNCHANGED <<hpc, litByKey>>
    BY <1>3 DEF Install, BootCheck, BootOut, initShiftLookup, Boot, driverVars
  <2> QED
    BY <2>1
<1>4. CASE Interrupt
  BY <1>4 DEF Interrupt, driverVars, isCapsOn
<1>5. CASE HandleRelease \/ HandlePress \/ HandleChar
  <2>1. PICK b \in Bytes : b = obf
    BY <1>5 DEF HandleRelease, HandlePress, HandleChar, Typed, TypeOK
  <2>2. b.up \/ kbdus[b.key] # "C"
    BY <1>5, <2>1, TagSet DEF HandleRelease, HandlePress, HandleChar
  <2>3. isCapsOn' <=> isCapsOn
    BY <1>5, <2>1, <2>2, HandlerBits
  <2>4. hpc = "handler" /\ hpc' = "idle" /\ UNCHANGED <<boot, expect, led, ibf, litByKey>>
    BY <1>5 DEF HandleRelease, HandlePress, HandleChar
  <2> QED
    BY <2>3, <2>4
<1>6. CASE HandleCaps
  BY <1>6 DEF HandleCaps
<1>7. CASE SendCommand
  BY <1>7 DEF SendCommand, driverVars
<1>8. CASE SendLight
  <2>1. expect /\ isCapsOn' = isCapsOn
    BY <1>8 DEF SendLight, isCapsOn, None
  <2>2. ibf' \in {"00", "04"} /\ (ibf' = "04" <=> isCapsOn')
    BY <1>8, <2>1 DEF SendLight, LightByte
  <2> QED
    BY <1>8, <2>1, <2>2 DEF SendLight
<1> QED
  <2>1. \/ UNCHANGED <<keyStatus, boot, hpc, expect, led, ibf, litByKey>>
        \/ Obey \/ Install \/ BootCheck \/ BootOut \/ initShiftLookup \/ Interrupt
        \/ HandleRelease \/ HandlePress \/ HandleChar \/ HandleCaps
        \/ SendCommand \/ SendLight
    BY DEF Next, Press, Release, Controller, HandOver, Main, Handler, NoRoutine,
           driverVars, vars
  <2> QED
    BY <1>1, <1>2, <1>3, <1>4, <1>5, <1>6, <1>7, <1>8, <2>1

-----------------------------------------------------------------------------
(* Characters                                                              *)

\* The bit of a shift key, if the keyboard has that key, is set exactly in
\* states in which it is down.
LEMMA ShiftBits ==
  ASSUME NEW x \in States, Agrees(x)
  PROVE  /\ Pressed("L") <=> "lshift" \in x.held
         /\ Pressed("R") <=> "rshift" \in x.held
         /\ isCapsOn <=> x.caps
<1>1. "L" \in Tags \ {"#"} /\ "R" \in Tags \ {"#"}
  BY TagSet
<1>2. \A k \in Keys : (kbdus[k] = "L" <=> k = "lshift") /\ (kbdus[k] = "R" <=> k = "rshift")
  BY KeyTags
<1>3. OneKey("L") /\ OneKey("R")
  BY <1>2 DEF OneKey
<1>4. x.held \subseteq Keys
  BY DEF States
<1>5. Pressed("L") <=> "lshift" \in x.held
  <2>1. CASE "lshift" \in Keys
    BY <1>1, <1>2, <1>3, <2>1 DEF Agrees
  <2>2. CASE "lshift" \notin Keys
    BY <1>1, <1>2, <1>4, <2>2 DEF Agrees
  <2> QED
    BY <2>1, <2>2
<1>6. Pressed("R") <=> "rshift" \in x.held
  <2>1. CASE "rshift" \in Keys
    BY <1>1, <1>2, <1>3, <2>1 DEF Agrees
  <2>2. CASE "rshift" \notin Keys
    BY <1>1, <1>2, <1>4, <2>2 DEF Agrees
  <2> QED
    BY <2>1, <2>2
<1> QED
  BY <1>5, <1>6 DEF Agrees

LEMMA MeantInit ==
  ASSUME Init
  PROVE  TypedAsMeant
BY DEF Init, TypedAsMeant, NoEcho

LEMMA MeantStep ==
  ASSUME Typed, Follows, TypedAsMeant, [Next]_vars
  PROVE  TypedAsMeant'
<1>1. ASSUME echo' = echo
      PROVE  TypedAsMeant'
  BY <1>1 DEF TypedAsMeant, Meant
<1>2. CASE HandlePress
  <2>1. CASE echo' = echo
    BY <1>1, <2>1
  <2>2. CASE echo' # echo
    <3>1. echo'.key = obf.key /\ kbdus[obf.key] \in Tags
      BY <1>2, <2>2 DEF HandlePress, Echo
    <3>2. echo'.key \notin {"a", "one"}
      BY <3>1, KeyTags, TagSet
    <3> QED
      BY <3>2 DEF TypedAsMeant
  <2> QED
    BY <2>1, <2>2
<1>3. CASE HandleChar
  <2>1. PICK b \in Bytes : b = obf
    BY <1>3 DEF HandleChar, Typed, TypeOK
  <2>2. PICK x \in States : Seen(x)
    BY DEF Follows
  <2>3. PICK c : c = CharOf(kbdus[b.key])
    OBVIOUS
  <2>4. /\ echo'.call = c /\ echo'.key = b.key /\ echo'.held = b.held
        /\ echo'.caps = b.caps /\ echo'.ready = lookup
    BY <1>3, <2>1, <2>3 DEF HandleChar, Echo
  <2> SUFFICES ASSUME lookup, b.key \in {"a", "one"}, ~(b.caps /\ "rshift" \in b.held)
               PROVE  c = Meant(echo')
    BY <2>4 DEF TypedAsMeant
  <2>5. IsKey(b)
    BY KeyTags DEF Bytes, NoCodes, IsKey
  <2>6. x.held = b.held /\ x.caps = b.caps
    BY <2>1, <2>2, <2>5 DEF Seen, Before
  <2>7. /\ Pressed("L") <=> "lshift" \in b.held
        /\ Pressed("R") <=> "rshift" \in b.held
        /\ isCapsOn <=> b.caps
    BY <2>2, <2>6, ShiftBits DEF Seen
  <2>8. b.held \cap {"lshift", "rshift"} # {} <=> Pressed("L") \/ Pressed("R")
    BY <2>7
  <2>9. CASE b.key = "a"
    <3>1. kbdus[b.key] = "a"
      BY <2>9, KeyTags
    <3>2. c = IF UpperCase THEN "A" ELSE "a"
      BY <2>3, <3>1 DEF CharOf
    <3>3. UpperCase <=> ((b.held \cap {"lshift", "rshift"} # {}) # b.caps)
      <4>1. b.caps = TRUE \/ b.caps = FALSE
        BY DEF Bytes
      <4>2. CASE b.caps = TRUE
        <5>1. UpperCase <=> ~Pressed("R") /\ ~Pressed("L")
          BY <2>7, <4>2 DEF UpperCase
        <5>2. ((b.held \cap {"lshift", "rshift"} # {}) # TRUE)
                <=> b.held \cap {"lshift", "rshift"} = {}
          OBVIOUS
        <5> QED
          BY <2>8, <4>2, <5>1, <5>2
      <4>3. CASE b.caps = FALSE
        <5>1. UpperCase <=> Pressed("R") \/ Pressed("L")
          BY <2>7, <4>3 DEF UpperCase
        <5>2. ((b.held \cap {"lshift", "rshift"} # {}) # FALSE)
                <=> b.held \cap {"lshift", "rshift"} # {}
          OBVIOUS
        <5> QED
          BY <2>8, <4>3, <5>1, <5>2
      <4> QED
        BY <4>1, <4>2, <4>3
    <3> QED
      BY <2>4, <2>9, <3>2, <3>3 DEF Meant
  <2>10. CASE b.key = "one"
    <3>1. kbdus[b.key] = "1"
      BY <2>10, KeyTags
    <3>2. c = IF ShiftPressed THEN "!" ELSE "1"
      BY <2>3, <3>1 DEF CharOf, shiftLookup
    <3> QED
      BY <2>4, <2>8, <2>10, <3>2 DEF Meant, ShiftPressed
  <2> QED
    BY <2>9, <2>10
<1> QED
  <2>1. echo' = echo \/ HandlePress \/ HandleChar
    BY DEF Next, Press, Release, Controller, HandOver, Obey, Main, Handler, Install,
           BootCheck, BootOut, initShiftLookup, NoRoutine, Interrupt, HandleRelease,
           HandleCaps, SendCommand, SendLight, driverVars, vars
  <2> QED
    BY <1>1, <1>2, <1>3, <2>1


-----------------------------------------------------------------------------
(* The theorems                                                            *)

KeyboardInv == Typed /\ Follows /\ LightInv /\ TypedAsMeant

LEMMA KeyboardInvariant == Spec => []KeyboardInv
<1>1. Init => KeyboardInv
  BY TypedInit, FollowsInit, MeantInit DEF Init, LightInv, KeyboardInv
<1>2. KeyboardInv /\ [Next]_vars => KeyboardInv'
  BY TypedStep, FollowsStep, LightStep, MeantStep DEF KeyboardInv
<1> QED
  BY <1>1, <1>2, PTL DEF Spec

\* Once every byte was handled, keyStatus shows the state of the keyboard.
LEMMA QuietAgrees ==
  ASSUME KeyboardInv, Quiescent
  PROVE  Agrees(Now) /\ Now \in States
<1>1. PICK x \in States : Seen(x)
  BY DEF KeyboardInv, Follows
<1>2. Linked(<<>>, x, Now)
  BY <1>1, EmptyBuffer DEF Seen, Quiescent
<1>3. x = Now
  BY <1>2 DEF Linked
<1> QED
  BY <1>1, <1>3 DEF Seen

\* Type correctness of the driver, the controller and the keyboard, for every
\* set of keys: no bit outside keyStatus is set, and a handler that starts
\* finds a byte in the buffer. (keyboard_handler, sendByte)
THEOREM KeyboardTypeCorrect == Spec => []TypeOK
<1>1. KeyboardInv => TypeOK
  BY DEF KeyboardInv, Typed
<1> QED
  BY <1>1, KeyboardInvariant, PTL

\* For every set of keys and every order in which they go down, repeat and come
\* up, whatever main() and the light of caps lock do meanwhile: once the bytes
\* are handled, the bit of a tag that one key has is set exactly if that key is
\* down. (keyboard_handler, kb.c:15)
THEOREM StatusFollowsKeys == Spec => []StatusTracksKeys
<1>1. KeyboardInv => StatusTracksKeys
  <2> SUFFICES ASSUME KeyboardInv, Quiescent, NEW t \in Tags \ {"#"}, OneKey(t)
               PROVE  Pressed(t) <=> TagHeld(t)
    BY DEF StatusTracksKeys
  <2>1. Agrees(Now) /\ Now.held = held /\ held \subseteq Keys
    BY QuietAgrees DEF Now, KeyboardInv, Typed, TypeOK
  <2>2. CASE \E k \in Keys : kbdus[k] = t
    <3>1. PICK k \in Keys : kbdus[k] = t
      BY <2>2
    <3>2. Pressed(t) <=> k \in held
      BY <2>1, <3>1 DEF Agrees
    <3>3. TagHeld(t) <=> k \in held
      BY <2>1, <3>1 DEF TagHeld, OneKey
    <3> QED
      BY <3>2, <3>3
  <2>3. CASE \A k \in Keys : kbdus[k] # t
    BY <2>1, <2>3 DEF Agrees, TagHeld
  <2> QED
    BY <2>2, <2>3
<1> QED
  BY <1>1, KeyboardInvariant, PTL

\* Caps lock is on after an odd number of its codes, and its light shows it once
\* it was set for a key struck after keyboard_install had ended, for every
\* number of events: no further byte that arrives while the handler spins in
\* sendByte is counted twice or lost. (keyboard_handler, switchCapsLightOn)
THEOREM CapsFollows == Spec => []CapsFollowsKey
<1>1. KeyboardInv => CapsFollowsKey
  <2> SUFFICES ASSUME KeyboardInv, Quiescent
               PROVE  (isCapsOn <=> capsSent) /\ (litByKey => (led <=> isCapsOn))
    BY DEF CapsFollowsKey
  <2>1. isCapsOn <=> capsSent
    <3>1. Agrees(Now) /\ Now.caps = capsSent
      BY QuietAgrees DEF Now
    <3> QED
      BY <3>1 DEF Agrees
  <2>2. litByKey => (led <=> isCapsOn)
    BY DEF KeyboardInv, LightInv, Quiescent, None
  <2> QED
    BY <2>1, <2>2
<1> QED
  BY <1>1, KeyboardInvariant, PTL

\* A letter or a digit reaches the screen as the keys that were down when it was
\* struck ask for, for any number of keys struck before the handler gets to it.
\* (the default case of keyboard_handler)
THEOREM CharactersAsMeant == Spec => []TypedAsMeant
<1>1. KeyboardInv => TypedAsMeant
  BY DEF KeyboardInv
<1> QED
  BY <1>1, KeyboardInvariant, PTL
=============================================================================
