----------------------------- MODULE HeapProofs -----------------------------
(***************************************************************************)
(* Proofs, for every page size, header size, heap limit and word size, of  *)
(* the invariants of Heap that the runs check on a small instance.  They   *)
(* assume that no request is smaller than a block header.                  *)
(* Smaller ones leave blocks for which heap.c:17 wraps.                    *)
(***************************************************************************)
EXTENDS Heap, TLAPS

-----------------------------------------------------------------------------
(* Headers: writing one, and dividing a block                              *)

\* Headers whose offsets and contents have their types
Headers(h) == DOMAIN h \subseteq Nat /\ \A b \in DOMAIN h : h[b] \in Header

\* The headers d are those of h after block b was divided behind n bytes
Divided(h, d, b, n, f) ==
  /\ b + HDR + n \notin DOMAIN h
  /\ DOMAIN d = DOMAIN h \cup {b + HDR + n}
  /\ d[b] = [is_free |-> h[b].is_free, size |-> n]
  /\ d[b + HDR + n] = [is_free |-> f, size |-> h[b].size - HDR - n]
  /\ \A c \in DOMAIN h : c # b => d[c] = h[c]

\* divide_block on a block that is large enough replaces it by two and
\* changes no other one.
LEMMA DivideFacts ==
  ASSUME NEW h, NEW size \in Nat, NEW b \in DOMAIN h, NEW n \in Nat,
         NEW f \in BOOLEAN,
         Headers(h), Tiled(h, size), n + HDR <= h[b].size
  PROVE  Divided(h, DivideBlock(h, b, n, f), b, n, f)
<1> DEFINE g == [h EXCEPT ![b].size = n]
           m == b + HDR + n
           s == Sub(Sub(h[b].size, HDR), n)
<1>1. HDR \in Nat \ {0} /\ h[b].size \in Nat /\ b \in Nat
  BY HeapAssumption DEF HeapAssumption, Headers, Header
<1>2. s = h[b].size - HDR - n
  BY <1>1 DEF Sub
<1>3. /\ DOMAIN g = DOMAIN h
      /\ g[b] = [is_free |-> h[b].is_free, size |-> n]
      /\ \A c \in DOMAIN h : c # b => g[c] = h[c]
  BY DEF Headers, Header
<1>4. \A c \in DOMAIN h : c \in Nat /\ (c <= b \/ b + HDR + h[b].size <= c)
  BY DEF Headers, Tiled, BehindIn
<1>5. m \notin DOMAIN h /\ m # b
  BY <1>1, <1>4
<1>6. \A c \in DOMAIN g : c = m \/ c + HDR <= m \/ m + HDR <= c
  BY <1>1, <1>3, <1>4
<1> HIDE DEF g, m, s
<1>7. /\ DOMAIN Write(g, m, f, s) = DOMAIN g \cup {m}
      /\ Write(g, m, f, s)[m] = [is_free |-> f, size |-> s]
      /\ \A c \in DOMAIN g : c # m => Write(g, m, f, s)[c] = g[c]
  BY <1>6 DEF Write
<1>8. DivideBlock(h, b, n, f) = Write(g, m, f, s)
  BY DEF DivideBlock, g, m, s
<1>9. /\ DOMAIN Write(g, m, f, s) = DOMAIN h \cup {m}
      /\ Write(g, m, f, s)[b] = [is_free |-> h[b].is_free, size |-> n]
      /\ \A c \in DOMAIN h : c # b => Write(g, m, f, s)[c] = h[c]
  BY <1>3, <1>5, <1>7
<1> QED
  BY <1>2, <1>5, <1>7, <1>8, <1>9 DEF Divided, m

\* ... and what it leaves tiles the heap again.
LEMMA DivideTiled ==
  ASSUME NEW h, NEW d, NEW size \in Nat, NEW b \in DOMAIN h, NEW n \in Nat,
         NEW f \in BOOLEAN,
         Headers(h), Tiled(h, size), n + HDR <= h[b].size,
         Divided(h, d, b, n, f)
  PROVE  Headers(d) /\ Tiled(d, size)
<1> DEFINE m == b + HDR + n
<1>1. /\ HDR \in Nat \ {0} /\ h[b].size \in Nat /\ b \in Nat
      /\ h[b].size <= WORD - 1 /\ h[b].is_free \in BOOLEAN /\ WORD \in Nat
  BY HeapAssumption DEF HeapAssumption, Headers, Header
<1>2. /\ m \notin DOMAIN h
      /\ DOMAIN d = DOMAIN h \cup {m}
      /\ d[b] = [is_free |-> h[b].is_free, size |-> n]
      /\ d[m] = [is_free |-> f, size |-> h[b].size - HDR - n]
      /\ \A c \in DOMAIN h : c # b => d[c] = h[c]
  BY DEF Divided
<1>3. Headers(d)
  <2>1. DOMAIN d \subseteq Nat
    BY <1>1, <1>2 DEF Headers
  <2>2. d[b] \in Header
    BY <1>1, <1>2 DEF Header
  <2>3. d[m] \in Header
    BY <1>1, <1>2 DEF Header
  <2> QED
    BY <1>2, <2>1, <2>2, <2>3 DEF Headers
<1>4. /\ BehindIn(d, b) = m
      /\ BehindIn(d, m) = BehindIn(h, b)
      /\ \A c \in DOMAIN h : c # b => BehindIn(d, c) = BehindIn(h, c)
  BY <1>1, <1>2 DEF BehindIn
<1>5. b < m /\ m + HDR <= BehindIn(h, b)
  BY <1>1 DEF BehindIn
<1>6. \A c \in DOMAIN h : /\ c \in Nat /\ c < size
                          /\ BehindIn(h, c) \in DOMAIN h \cup {size}
                          /\ BehindIn(h, c) \in Nat
                          /\ BehindIn(h, c) <= size
  BY DEF Headers, Tiled
<1>7. \A c, e \in DOMAIN h : e <= c \/ BehindIn(h, c) <= e
  BY DEF Tiled
<1>8. \A c \in DOMAIN d :
        c < size /\ BehindIn(d, c) \in DOMAIN d \cup {size}
  BY <1>1, <1>2, <1>4, <1>5, <1>6
<1>9. ASSUME NEW c \in DOMAIN d, NEW e \in DOMAIN d
      PROVE  e <= c \/ BehindIn(d, c) <= e
  <2>1. CASE c \in DOMAIN h /\ e \in DOMAIN h
    BY <1>1, <1>4, <1>5, <1>6, <1>7, <2>1
  <2>2. CASE c = m /\ e \in DOMAIN h
    BY <1>1, <1>4, <1>5, <1>6, <1>7, <2>2
  <2>3. CASE c \in DOMAIN h /\ e = m
    BY <1>1, <1>4, <1>5, <1>6, <1>7, <2>3
  <2>4. CASE c = m /\ e = m
    BY <1>1, <2>4
  <2> QED
    BY <1>2, <2>1, <2>2, <2>3, <2>4
<1>10. 0 \in DOMAIN d
  BY <1>2 DEF Tiled
<1>11. Tiled(d, size)
  BY <1>8, <1>9, <1>10 DEF Tiled
<1> QED
  BY <1>3, <1>11

-----------------------------------------------------------------------------
(* The inductive invariant                                                 *)

\* Every live pointer has a block of its own that is marked as used and is
\* large enough.
Backed ==
  \A p \in DOMAIN allocs :
    /\ p - HDR \in DOMAIN hdr
    /\ ~hdr[p - HDR].is_free
    /\ allocs[p] <= hdr[p - HDR].size

\* The loops are always at a header or at the end of the heap, and
\* unite_free_blocks looks at a block and the one right behind it.
LoopInv ==
  /\ pc = "scan" => i \in DOMAIN hdr \cup {heap_size}
  /\ pc = "unite" => prev \in DOMAIN hdr /\ i = After(prev)
  /\ pc = "scan" \/ (pc = "unite" /\ ret = "malloc") => bytes \in Requests

StartInv ==
  pc = "start" => /\ DOMAIN hdr = {} /\ DOMAIN allocs = {}
                  /\ heap_size = PAGE_SIZE

HeapInv == TypeOK /\ Tiling /\ Backed /\ NoLeak /\ LoopInv /\ StartInv

\* No request is smaller than the header of a block.
SafeRequests == Requests \subseteq HDR .. WORD - 1

\* The arithmetic facts about the constants that every step needs
LEMMA Constants ==
  /\ HDR \in Nat /\ HDR > 0 /\ PAGE_SIZE \in Nat /\ PAGE_SIZE > HDR
  /\ HeapLimit \in Nat /\ HeapLimit >= PAGE_SIZE /\ WORD \in Nat
  /\ HeapLimit < WORD
  /\ Requests \subseteq 1 .. WORD - 1
BY HeapAssumption DEF HeapAssumption

\* While malloc searches, the request is at least as large as a header.
LEMMA RequestSize ==
  ASSUME SafeRequests, HeapInv, pc = "scan"
  PROVE  bytes \in Requests /\ bytes \in Nat /\ bytes >= HDR
<1>1. bytes \in Requests
  BY DEF HeapInv, LoopInv
<1>2. bytes \in HDR .. WORD - 1
  BY <1>1 DEF SafeRequests
<1> QED
  BY <1>1, <1>2, Constants

\* Where the blocks of a tiled heap lie
LEMMA BlockFacts ==
  ASSUME HeapInv, pc # "start"
  PROVE  /\ Headers(hdr) /\ Tiled(hdr, heap_size)
         /\ heap_size \in Nat /\ heap_size <= HeapLimit
         /\ heap_size < WORD
         /\ \A b \in DOMAIN hdr :
              /\ b \in Nat /\ b < heap_size
              /\ hdr[b].size \in Nat /\ hdr[b].is_free \in BOOLEAN
              /\ After(b) = b + HDR + hdr[b].size
              /\ After(b) \in Nat /\ After(b) <= heap_size
              /\ After(b) \in DOMAIN hdr \cup {heap_size}
              /\ Wrap(After(b)) = After(b)
         /\ \A b, c \in DOMAIN hdr : c <= b \/ After(b) <= c
<1>1. Headers(hdr) /\ Tiled(hdr, heap_size)
  BY DEF HeapInv, TypeOK, Tiling, Headers
<1>2. /\ heap_size \in Nat /\ heap_size <= HeapLimit
      /\ heap_size < WORD
  BY Constants DEF HeapInv, TypeOK
<1>3. ASSUME NEW b \in DOMAIN hdr
      PROVE  /\ b \in Nat /\ b < heap_size
             /\ hdr[b].size \in Nat /\ hdr[b].is_free \in BOOLEAN
             /\ After(b) = b + HDR + hdr[b].size
             /\ After(b) \in Nat /\ After(b) <= heap_size
             /\ After(b) \in DOMAIN hdr \cup {heap_size}
             /\ Wrap(After(b)) = After(b)
  <2>1. /\ b \in Nat /\ b < heap_size
        /\ hdr[b].size \in Nat /\ hdr[b].is_free \in BOOLEAN
    BY <1>1 DEF Headers, Header, Tiled
  <2>2. After(b) = b + HDR + hdr[b].size
    BY DEF After, BehindIn
  <2>3. After(b) \in DOMAIN hdr \cup {heap_size}
    BY <1>1 DEF Tiled, After
  <2>4. After(b) \in Nat /\ After(b) <= heap_size
    <3>1. \A c \in DOMAIN hdr : c \in Nat /\ c < heap_size
      BY <1>1 DEF Tiled, Headers
    <3> QED
      BY <1>2, <2>3, <3>1
  <2>5. Wrap(After(b)) = After(b)
    BY <1>2, <2>4, Constants DEF Wrap
  <2> QED
    BY <2>1, <2>2, <2>3, <2>4, <2>5
<1>4. \A b, c \in DOMAIN hdr : c <= b \/ After(b) <= c
  BY <1>1 DEF Tiled, After
<1> QED
  BY <1>1, <1>2, <1>3, <1>4

\* Headers that tile the heap have the types that TypeOK asks for.
LEMMA TiledType ==
  ASSUME NEW h, NEW size \in Nat, size <= HeapLimit,
         Headers(h), Tiled(h, size)
  PROVE  /\ DOMAIN h \subseteq 0 .. HeapLimit
         /\ \A b \in DOMAIN h : h[b] \in Header
<1>1. \A b \in DOMAIN h : b \in Nat /\ b < size
  BY DEF Headers, Tiled
<1> QED
  BY <1>1, Constants DEF Headers

\* The state in which malloc returns block n, made of the headers d
LEMMA ReturnKeeps ==
  ASSUME HeapInv, pc = "scan", NEW n \in Nat,
         Return(n),
         Headers(hdr'), Tiled(hdr', heap_size),
         n \in DOMAIN hdr', ~hdr'[n].is_free, bytes <= hdr'[n].size,
         \A b \in DOMAIN hdr :
           ~hdr[b].is_free => b \in DOMAIN hdr' /\ hdr'[b] = hdr[b],
         \A b \in DOMAIN hdr' :
           b = n \/ hdr'[b].is_free \/ (b \in DOMAIN hdr /\ hdr'[b] = hdr[b])
  PROVE  HeapInv'
<1>1. /\ pc' = "idle" /\ heap_size' = heap_size /\ bytes' = bytes
      /\ align' = align /\ i' = i /\ prev' = prev /\ ret' = ret
  BY DEF Return, argVars, loopVars
<1>2. /\ DOMAIN allocs' = DOMAIN allocs \cup {n + HDR}
      /\ allocs'[n + HDR] = bytes
      /\ \A p \in DOMAIN allocs : p # n + HDR => allocs'[p] = allocs[p]
  BY DEF Return, PointerTo
<1>3. heap_size \in Nat /\ heap_size <= HeapLimit
  BY Constants DEF HeapInv, TypeOK
<1>4. n < heap_size /\ hdr'[n].size \in Nat /\ n + HDR <= heap_size
  <2>1. n < heap_size /\ n + HDR + hdr'[n].size \in DOMAIN hdr' \cup {heap_size}
    BY DEF Tiled, BehindIn
  <2>2. hdr'[n].size \in Nat
    BY DEF Headers, Header
  <2>3. n + HDR + hdr'[n].size <= heap_size
    <3>1. \A c \in DOMAIN hdr' : c \in Nat /\ c < heap_size
      BY DEF Tiled, Headers
    <3> QED
      BY <1>3, <2>1, <3>1
  <2> QED
    BY <1>3, <2>1, <2>2, <2>3, Constants
<1>5. bytes \in Requests
  BY DEF HeapInv, LoopInv
<1>6. TypeOK'
  <2>1. /\ DOMAIN hdr' \subseteq 0 .. HeapLimit
        /\ \A b \in DOMAIN hdr' : hdr'[b] \in Header
    BY <1>3, TiledType
  <2>2. \A p \in DOMAIN allocs' :
          p \in HDR .. HeapLimit /\ allocs'[p] \in Requests
    BY <1>2, <1>3, <1>4, <1>5, Constants DEF HeapInv, TypeOK
  <2> QED
    BY <1>1, <2>1, <2>2 DEF HeapInv, TypeOK
<1>7. Tiling'
  BY <1>1 DEF Tiling
<1>8. Backed'
  <2> SUFFICES ASSUME NEW p \in DOMAIN allocs'
               PROVE  /\ p - HDR \in DOMAIN hdr'
                      /\ ~hdr'[p - HDR].is_free
                      /\ allocs'[p] <= hdr'[p - HDR].size
    BY DEF Backed
  <2>1. CASE p = n + HDR
    <3>1. p - HDR = n
      BY <2>1, Constants
    <3> QED
      BY <1>2, <2>1, <3>1
  <2>2. CASE p # n + HDR
    BY <1>2, <2>2 DEF HeapInv, Backed
  <2> QED
    BY <2>1, <2>2
<1>9. NoLeak'
  BY <1>2 DEF HeapInv, NoLeak
<1>10. LoopInv' /\ StartInv'
  BY <1>1 DEF LoopInv, StartInv
<1> QED
  BY <1>6, <1>7, <1>8, <1>9, <1>10 DEF HeapInv

\* get_free_block without alignment: the block that is taken was free and
\* large enough, and a remainder is only cut off where its header fits.
LEMMA TakeKeeps ==
  ASSUME SafeRequests, HeapInv, ScanTake
  PROVE  HeapInv'
<1>1. /\ pc = "scan" /\ i \in DOMAIN hdr /\ hdr[i].is_free
      /\ hdr[i].size >= bytes /\ hdr' = TakeBlock(i) /\ Return(i)
  BY DEF ScanTake, Scanning, Fits
<1>2. bytes \in Requests /\ bytes \in Nat /\ bytes >= HDR
  BY <1>1, RequestSize
<1>3. /\ Headers(hdr) /\ Tiled(hdr, heap_size) /\ heap_size \in Nat
      /\ i \in Nat /\ hdr[i].size \in Nat
  BY <1>1, BlockFacts
<1> DEFINE taken == [hdr EXCEPT ![i].is_free = FALSE]
<1>4. /\ DOMAIN taken = DOMAIN hdr
      /\ taken[i] = [is_free |-> FALSE, size |-> hdr[i].size]
      /\ \A b \in DOMAIN hdr : b # i => taken[b] = hdr[b]
  BY <1>1, <1>3 DEF Headers, Header
<1> HIDE DEF taken
<1>5. Headers(taken)
  <2>1. taken[i] \in Header
    BY <1>1, <1>3, <1>4 DEF Headers, Header
  <2> QED
    BY <1>3, <1>4, <2>1 DEF Headers
<1>6. \A b \in DOMAIN hdr : BehindIn(taken, b) = BehindIn(hdr, b)
  BY <1>1, <1>4 DEF BehindIn
<1>7. Tiled(taken, heap_size)
  BY <1>3, <1>4, <1>6 DEF Tiled
<1>8. CASE Divides(hdr[i].size, bytes)
  <2>1. hdr' = DivideBlock(taken, i, bytes, TRUE)
    BY <1>1, <1>8 DEF TakeBlock, taken
  <2>2. bytes + HDR <= taken[i].size
    BY <1>1, <1>2, <1>3, <1>4, <1>8, Constants DEF Divides, Sub
  <2>3. Divided(taken, hdr', i, bytes, TRUE)
    BY <1>1, <1>2, <1>3, <1>4, <1>5, <1>7, <2>1, <2>2, DivideFacts
  <2>4. Headers(hdr') /\ Tiled(hdr', heap_size)
    BY <1>1, <1>2, <1>3, <1>4, <1>5, <1>7, <2>2, <2>3, DivideTiled
  <2>5. /\ DOMAIN hdr' = DOMAIN hdr \cup {i + HDR + bytes}
        /\ hdr'[i] = [is_free |-> FALSE, size |-> bytes]
        /\ hdr'[i + HDR + bytes].is_free
        /\ \A b \in DOMAIN hdr : b # i => hdr'[b] = hdr[b]
    BY <1>1, <1>4, <2>3 DEF Divided
  <2> QED
    BY <1>1, <1>2, <1>3, <2>4, <2>5, ReturnKeeps
<1>9. CASE ~Divides(hdr[i].size, bytes)
  <2>1. hdr' = taken
    BY <1>1, <1>9 DEF TakeBlock, taken
  <2> QED
    BY <1>1, <1>2, <1>3, <1>4, <1>5, <1>7, <2>1, ReturnKeeps
<1> QED
  BY <1>8, <1>9

\* An address at which the inner loop of get_free_block divides the block lies
\* in it, with two headers before it and the bytes asked for behind it.
LEMMA AlignedFacts ==
  ASSUME SafeRequests, HeapInv, Scanning, Fits(i),
         NEW a \in LoopExits(i), ~LoopEnds(i, a)
  PROVE  /\ a \in Nat /\ a - i - 2 * HDR \in Nat /\ a - i > 2 * HDR
         /\ Sub(Sub(a, i), 2 * HDR) = a - i - 2 * HDR
         /\ a <= After(i) /\ After(i) - a >= bytes
<1>1. /\ pc = "scan" /\ i \in DOMAIN hdr /\ hdr[i].size >= bytes
  BY DEF Scanning, Fits
<1>2. bytes \in Nat /\ bytes >= HDR
  BY <1>1, RequestSize
<1>3. /\ i \in Nat /\ hdr[i].size \in Nat /\ After(i) \in Nat
      /\ After(i) = i + HDR + hdr[i].size /\ After(i) < WORD
  <2>1. /\ i \in Nat /\ hdr[i].size \in Nat /\ After(i) \in Nat
        /\ After(i) = i + HDR + hdr[i].size
        /\ After(i) <= heap_size /\ heap_size \in Nat /\ heap_size < WORD
    BY <1>1, BlockFacts
  <2> QED
    BY <2>1, Constants
<1>4. a \in Nat /\ a < WORD /\ DividesAt(i, a)
  BY Constants DEF LoopExits, Outcomes, PageStarts
<1>5. /\ Sub(a, i) > 2 * HDR
      /\ Sub(Sub(a, i), 2 * HDR) <= Sub(hdr[i].size, HDR)
      /\ ~(Sub(After(i), a) < bytes)
  BY <1>4 DEF DividesAt, Divides, LoopEnds
<1>6. Sub(hdr[i].size, HDR) = hdr[i].size - HDR
  BY <1>1, <1>2, <1>3, Constants DEF Sub
<1>7. Sub(a, i) \in Nat /\ Sub(Sub(a, i), 2 * HDR) = Sub(a, i) - 2 * HDR
  <2>1. Sub(a, i) \in Nat
    BY <1>3, <1>4, Constants DEF Sub
  <2> QED
    BY <1>5, <2>1, Constants DEF Sub
<1>8. a >= i
  BY <1>3, <1>4, <1>5, <1>6, <1>7, Constants DEF Sub
<1>9. Sub(a, i) = a - i
  BY <1>3, <1>4, <1>8 DEF Sub
<1>10. a <= After(i)
  BY <1>3, <1>4, <1>5, <1>6, <1>7, <1>9, Constants
<1>11. Sub(After(i), a) = After(i) - a
  BY <1>3, <1>4, <1>10 DEF Sub
<1> QED
  BY <1>2, <1>3, <1>4, <1>5, <1>7, <1>9, <1>10, <1>11, Constants

\* get_free_block with alignment, where it finds an address
LEMMA TakeAlignedKeeps ==
  ASSUME SafeRequests, HeapInv, ScanAligned
  PROVE  HeapInv'
<1>1. /\ Scanning /\ Fits(i) /\ pc = "scan" /\ i \in DOMAIN hdr
      /\ hdr[i].is_free
  BY DEF ScanAligned, Scanning, Fits
<1>2. PICK a \in LoopExits(i) :
        ~LoopEnds(i, a) /\ hdr' = TakeAligned(i, a) /\ Return(a - HDR)
  BY DEF ScanAligned
<1>3. bytes \in Nat /\ bytes >= HDR
  BY <1>1, RequestSize
<1>4. /\ Headers(hdr) /\ Tiled(hdr, heap_size) /\ heap_size \in Nat
      /\ i \in Nat /\ hdr[i].size \in Nat /\ After(i) \in Nat
      /\ After(i) = i + HDR + hdr[i].size
  BY <1>1, BlockFacts
<1>5. /\ a \in Nat /\ a - i - 2 * HDR \in Nat /\ a - i > 2 * HDR
      /\ Sub(Sub(a, i), 2 * HDR) = a - i - 2 * HDR
      /\ a <= After(i) /\ After(i) - a >= bytes
  BY <1>1, <1>2, AlignedFacts
<1> DEFINE left == a - i - 2 * HDR
           n == a - HDR
           h == DivideBlock(hdr, i, left, FALSE)
<1>6. n \in Nat /\ n = i + HDR + left /\ n > i /\ left \in Nat
  BY <1>4, <1>5, Constants
<1>7. left + HDR <= hdr[i].size /\ hdr[i].size - HDR - left = After(i) - a
  BY <1>4, <1>5, Constants
<1> HIDE DEF left, n
<1>8. Divided(hdr, h, i, left, FALSE)
  BY <1>1, <1>4, <1>6, <1>7, DivideFacts
<1>9. TakeAligned(i, a) = IF h[n].size > bytes + HDR
                          THEN DivideBlock(h, n, bytes, TRUE) ELSE h
  BY <1>5 DEF TakeAligned, left, n
<1> HIDE DEF h
<1>10. Headers(h) /\ Tiled(h, heap_size)
  BY <1>1, <1>4, <1>6, <1>7, <1>8, DivideTiled
<1>11. /\ n \notin DOMAIN hdr /\ DOMAIN h = DOMAIN hdr \cup {n}
       /\ h[i] = [is_free |-> TRUE, size |-> left]
       /\ h[n] = [is_free |-> FALSE, size |-> After(i) - a]
       /\ \A c \in DOMAIN hdr : c # i => h[c] = hdr[c]
  <2>1. hdr[i].is_free = TRUE
    BY <1>1, <1>4 DEF Headers, Header
  <2> QED
    BY <1>6, <1>7, <1>8, <2>1 DEF Divided
<1>12. Return(n)
  BY <1>2 DEF n
<1>13. CASE h[n].size > bytes + HDR
  <2>1. hdr' = DivideBlock(h, n, bytes, TRUE)
    BY <1>2, <1>9, <1>13
  <2>2. bytes + HDR <= h[n].size /\ n \in DOMAIN h
    BY <1>3, <1>4, <1>5, <1>11, <1>13, Constants
  <2>3. Divided(h, hdr', n, bytes, TRUE)
    BY <1>3, <1>4, <1>10, <2>1, <2>2, DivideFacts
  <2>4. Headers(hdr') /\ Tiled(hdr', heap_size)
    BY <1>3, <1>4, <1>10, <2>2, <2>3, DivideTiled
  <2>5. /\ DOMAIN hdr' = DOMAIN h \cup {n + HDR + bytes}
        /\ hdr'[n] = [is_free |-> FALSE, size |-> bytes]
        /\ hdr'[n + HDR + bytes].is_free
        /\ \A b \in DOMAIN h : b # n => hdr'[b] = h[b]
    BY <1>11, <2>3 DEF Divided
  <2>6. /\ n \in DOMAIN hdr' /\ ~hdr'[n].is_free /\ bytes <= hdr'[n].size
    BY <1>3, <2>2, <2>5
  <2>7. \A b \in DOMAIN hdr :
          ~hdr[b].is_free => b \in DOMAIN hdr' /\ hdr'[b] = hdr[b]
    BY <1>1, <1>11, <2>5
  <2>8. \A b \in DOMAIN hdr' :
          b = n \/ hdr'[b].is_free \/ (b \in DOMAIN hdr /\ hdr'[b] = hdr[b])
    BY <1>11, <2>5
  <2> QED
    BY <1>1, <1>6, <1>12, <2>4, <2>6, <2>7, <2>8, ReturnKeeps
<1>14. CASE ~(h[n].size > bytes + HDR)
  <2>1. hdr' = h
    BY <1>2, <1>9, <1>14
  <2> QED
    BY <1>1, <1>5, <1>6, <1>10, <1>11, <1>12, <2>1, ReturnKeeps
<1> QED
  BY <1>13, <1>14

\* A step that changes no header, no allocation and not the size of the heap
\* only has to leave the loops in order.
LEMMA FrameKeeps ==
  ASSUME HeapInv, pc # "start", hdr' = hdr, heap_size' = heap_size,
         allocs' = allocs, TypeOK', LoopInv', pc' # "start"
  PROVE  HeapInv'
<1>1. Tiling' /\ StartInv'
  BY DEF HeapInv, Tiling, StartInv
<1>2. Backed' /\ NoLeak'
  BY DEF HeapInv, Backed, NoLeak
<1> QED
  BY <1>1, <1>2 DEF HeapInv

\* free marks a block that is in use and starts uniting at the first block.
LEMMA FreeKeeps ==
  ASSUME HeapInv, NEW p \in DOMAIN allocs, Free(p)
  PROVE  HeapInv'
<1> DEFINE b == p - HDR
<1>1. pc = "idle" /\ pc' = "unite" /\ ret' = "free" /\ prev' = 0
      /\ heap_size' = heap_size /\ bytes' = bytes /\ align' = align
      /\ i' = Wrap(hdr'[0].size + HDR)
      /\ hdr' = [hdr EXCEPT ![b].is_free = TRUE]
      /\ allocs' = [q \in DOMAIN allocs \ {p} |-> allocs[q]]
  BY DEF Free, StartUnite, argVars
<1>2. b \in DOMAIN hdr /\ p \in Nat
  BY Constants DEF HeapInv, Backed, TypeOK
<1>3. /\ Headers(hdr) /\ Tiled(hdr, heap_size) /\ heap_size \in Nat
      /\ heap_size <= HeapLimit
  BY <1>1, BlockFacts
<1> HIDE DEF b
<1>4. /\ DOMAIN hdr' = DOMAIN hdr
      /\ hdr'[b] = [is_free |-> TRUE, size |-> hdr[b].size]
      /\ \A c \in DOMAIN hdr : c # b => hdr'[c] = hdr[c]
  BY <1>1, <1>2, <1>3 DEF Headers, Header
<1>5. Headers(hdr')
  <2>1. hdr'[b] \in Header
    BY <1>2, <1>3, <1>4 DEF Headers, Header
  <2> QED
    BY <1>3, <1>4, <2>1 DEF Headers
<1>6. \A c \in DOMAIN hdr : BehindIn(hdr', c) = BehindIn(hdr, c)
  BY <1>2, <1>4 DEF BehindIn
<1>7. Tiled(hdr', heap_size)
  BY <1>3, <1>4, <1>6 DEF Tiled
<1>8. i' = After(0) /\ i' = After(prev)' /\ After(0) \in Nat /\ After(0) < WORD
  <2>1. 0 \in DOMAIN hdr
    BY <1>3 DEF Tiled
  <2>2. /\ After(0) = 0 + HDR + hdr[0].size /\ hdr[0].size \in Nat
        /\ Wrap(After(0)) = After(0) /\ After(0) \in Nat
        /\ After(0) <= heap_size /\ heap_size < WORD
    BY <1>1, <2>1, BlockFacts
  <2>3. hdr'[0].size = hdr[0].size
    BY <1>4, <2>1
  <2>4. i' = After(0)
    BY <1>1, <2>2, <2>3, Constants
  <2>5. After(prev)' = After(0)
    BY <1>1, <1>6, <2>1 DEF After
  <2> QED
    BY <1>3, <2>2, <2>4, <2>5, Constants
<1>9. TypeOK'
  <2>1. /\ DOMAIN hdr' \subseteq 0 .. HeapLimit
        /\ \A c \in DOMAIN hdr' : hdr'[c] \in Header
    BY <1>3, <1>5, <1>7, TiledType
  <2>2. i' \in 0 .. WORD - 1 /\ prev' \in 0 .. WORD - 1
    BY <1>1, <1>8, Constants
  <2> QED
    BY <1>1, <2>1, <2>2 DEF HeapInv, TypeOK
<1>10. Backed'
  <2> SUFFICES ASSUME NEW q \in DOMAIN allocs, q # p
               PROVE  /\ q - HDR \in DOMAIN hdr'
                      /\ ~hdr'[q - HDR].is_free
                      /\ allocs[q] <= hdr'[q - HDR].size
    BY <1>1 DEF Backed
  <2>1. q \in Nat /\ q - HDR # b
    BY <1>2, Constants DEF HeapInv, TypeOK, b
  <2> QED
    BY <1>4, <2>1 DEF HeapInv, Backed
<1>11. NoLeak'
  <2> SUFFICES ASSUME NEW c \in DOMAIN hdr, c # b, ~hdr[c].is_free
               PROVE  c + HDR \in DOMAIN allocs /\ c + HDR # p
    BY <1>1, <1>4 DEF NoLeak
  <2>1. c + HDR \in DOMAIN allocs
    BY DEF HeapInv, NoLeak
  <2>2. c \in Nat
    BY <1>3 DEF Headers
  <2> QED
    BY <1>2, <2>1, <2>2, Constants DEF b
<1>12. LoopInv'
  <2>1. 0 \in DOMAIN hdr'
    BY <1>7 DEF Tiled
  <2> QED
    BY <1>1, <1>8, <2>1 DEF LoopInv
<1>13. Tiling' /\ StartInv'
  BY <1>1, <1>7 DEF Tiling, StartInv
<1> QED
  BY <1>9, <1>10, <1>11, <1>12, <1>13 DEF HeapInv

\* malloc appends a page as one free block and starts uniting.
LEMMA GrowKeeps ==
  ASSUME HeapInv, Grow
  PROVE  HeapInv'
<1>1. /\ pc = "scan" /\ pc' = "unite" /\ ret' = "malloc" /\ prev' = 0
      /\ heap_size' = heap_size + PAGE_SIZE
      /\ heap_size + PAGE_SIZE <= HeapLimit
      /\ bytes' = bytes /\ align' = align /\ allocs' = allocs
      /\ i' = Wrap(hdr'[0].size + HDR)
      /\ hdr' = Write(hdr, heap_size, TRUE, PAGE_SIZE - HDR)
  BY DEF Grow, GetFreeBlockFails, StartUnite, argVars
<1>2. /\ Headers(hdr) /\ Tiled(hdr, heap_size) /\ heap_size \in Nat
      /\ \A b \in DOMAIN hdr :
           /\ b \in Nat /\ b < heap_size /\ hdr[b].size \in Nat
           /\ BehindIn(hdr, b) = b + HDR + hdr[b].size
           /\ BehindIn(hdr, b) \in Nat /\ BehindIn(hdr, b) <= heap_size
           /\ BehindIn(hdr, b) \in DOMAIN hdr \cup {heap_size}
      /\ \A b, c \in DOMAIN hdr : c <= b \/ BehindIn(hdr, b) <= c
  BY <1>1, BlockFacts DEF After
<1>3. \A c \in DOMAIN hdr : c + HDR <= heap_size
  BY <1>2, Constants
<1>4. /\ DOMAIN hdr' = DOMAIN hdr \cup {heap_size}
      /\ hdr'[heap_size] = [is_free |-> TRUE, size |-> PAGE_SIZE - HDR]
      /\ \A c \in DOMAIN hdr : hdr'[c] = hdr[c]
      /\ heap_size \notin DOMAIN hdr
  <2>1. heap_size \notin DOMAIN hdr
    BY <1>2
  <2> QED
    BY <1>1, <1>3, <2>1 DEF Write
<1>5. Headers(hdr')
  <2>1. hdr'[heap_size] \in Header
    <3>1. PAGE_SIZE - HDR \in 0 .. WORD - 1
      BY Constants
    <3> QED
      BY <1>4, <3>1 DEF Header
  <2> QED
    BY <1>2, <1>4, <2>1 DEF Headers
<1>6. /\ BehindIn(hdr', heap_size) = heap_size'
      /\ \A c \in DOMAIN hdr : BehindIn(hdr', c) = BehindIn(hdr, c)
  <2>1. hdr'[heap_size].size = PAGE_SIZE - HDR
    BY <1>4
  <2>2. BehindIn(hdr', heap_size) = heap_size + HDR + (PAGE_SIZE - HDR)
    BY <2>1 DEF BehindIn
  <2>3. heap_size' = heap_size + PAGE_SIZE
    BY <1>1
  <2>4. \A c \in DOMAIN hdr : BehindIn(hdr', c) = BehindIn(hdr, c)
    BY <1>4 DEF BehindIn
  <2> QED
    BY <1>2, <2>2, <2>3, <2>4, Constants
<1>7. heap_size' \in Nat /\ heap_size < heap_size' /\ heap_size' <= HeapLimit
  BY <1>1, <1>2, Constants
<1>8. Tiled(hdr', heap_size')
  <2>1. 0 \in DOMAIN hdr'
    BY <1>2, <1>4 DEF Tiled
  <2>2. \A b \in DOMAIN hdr' : /\ b < heap_size'
                               /\ BehindIn(hdr', b) \in DOMAIN hdr' \cup {heap_size'}
    BY <1>2, <1>4, <1>6, <1>7
  <2>3. ASSUME NEW b \in DOMAIN hdr', NEW c \in DOMAIN hdr'
        PROVE  c <= b \/ BehindIn(hdr', b) <= c
    <3>1. CASE b = heap_size
      BY <1>2, <1>4, <3>1
    <3>2. CASE b \in DOMAIN hdr
      BY <1>2, <1>4, <1>6, <3>2
    <3> QED
      BY <1>4, <3>1, <3>2
  <2> QED
    BY <2>1, <2>2, <2>3 DEF Tiled
<1>9. i' = After(prev)' /\ i' \in Nat /\ i' < WORD
  <2>1. 0 \in DOMAIN hdr /\ hdr'[0].size = hdr[0].size
    BY <1>2, <1>4 DEF Tiled
  <2>2. BehindIn(hdr, 0) = HDR + hdr[0].size
    BY <1>2, <2>1, Constants
  <2>3. hdr[0].size + HDR < WORD /\ hdr[0].size \in Nat
    BY <1>1, <1>2, <2>1, <2>2, Constants
  <2>4. i' = hdr[0].size + HDR
    BY <1>1, <2>1, <2>3 DEF Wrap
  <2>5. After(prev)' = BehindIn(hdr, 0)
    BY <1>1, <1>6, <2>1 DEF After
  <2> QED
    BY <2>2, <2>3, <2>4, <2>5, Constants
<1>10. TypeOK'
  <2>1. /\ DOMAIN hdr' \subseteq 0 .. HeapLimit
        /\ \A c \in DOMAIN hdr' : hdr'[c] \in Header
    BY <1>5, <1>7, <1>8, TiledType
  <2>2. i' \in 0 .. WORD - 1 /\ prev' \in 0 .. WORD - 1
    <3>1. prev' = 0
      BY <1>1
    <3> QED
      BY <1>9, <3>1, Constants
  <2>3. heap_size' \in PAGE_SIZE .. HeapLimit
    BY <1>1, <1>2, <1>7, Constants
  <2> QED
    BY <1>1, <2>1, <2>2, <2>3 DEF HeapInv, TypeOK
<1>11. Backed' /\ NoLeak'
  <2>1. allocs' = allocs
    BY <1>1
  <2>2. Backed'
    BY <1>4, <2>1 DEF HeapInv, Backed
  <2>3. NoLeak'
    BY <1>4, <2>1 DEF HeapInv, NoLeak
  <2> QED
    BY <2>2, <2>3
<1>12. LoopInv'
  <2>1. 0 \in DOMAIN hdr'
    BY <1>8 DEF Tiled
  <2>2. bytes \in Requests
    BY <1>1 DEF HeapInv, LoopInv
  <2> QED
    BY <1>1, <1>9, <2>1, <2>2 DEF LoopInv
<1>13. Tiling' /\ StartInv'
  BY <1>1, <1>8 DEF Tiling, StartInv
<1> QED
  BY <1>10, <1>11, <1>12, <1>13 DEF HeapInv

\* Two neighbouring free blocks become one, which ends where the second did.
LEMMA MergeKeeps ==
  ASSUME HeapInv, UniteMerge
  PROVE  HeapInv'
<1>1. /\ pc = "unite" /\ i \in DOMAIN hdr /\ hdr[i].is_free
      /\ hdr[prev].is_free /\ prev \in DOMAIN hdr /\ i = After(prev)
  BY DEF UniteMerge, Uniting, HeapInv, LoopInv
<1>2. /\ hdr' = [b \in DOMAIN hdr \ {i} |->
                   IF b = prev THEN [hdr[b] EXCEPT !.size = UnitedSize(prev, i)]
                   ELSE hdr[b]]
      /\ i' = Wrap(After(i)) /\ heap_size' = heap_size /\ pc' = pc
      /\ bytes' = bytes /\ align' = align /\ prev' = prev /\ ret' = ret
      /\ allocs' = allocs
  BY DEF UniteMerge, argVars
<1>3. /\ Headers(hdr) /\ Tiled(hdr, heap_size) /\ heap_size \in Nat
      /\ heap_size <= HeapLimit /\ heap_size < WORD
      /\ \A b \in DOMAIN hdr :
           /\ b \in Nat /\ b < heap_size /\ hdr[b].size \in Nat
           /\ BehindIn(hdr, b) = b + HDR + hdr[b].size
           /\ BehindIn(hdr, b) \in Nat /\ BehindIn(hdr, b) <= heap_size
           /\ BehindIn(hdr, b) \in DOMAIN hdr \cup {heap_size}
      /\ \A b, c \in DOMAIN hdr : c <= b \/ BehindIn(hdr, b) <= c
  BY <1>1, BlockFacts DEF After
<1>4. i = BehindIn(hdr, prev) /\ prev < i
  BY <1>1, <1>3, Constants DEF After
<1>5. /\ DOMAIN hdr' = DOMAIN hdr \ {i} /\ prev \in DOMAIN hdr'
      /\ hdr'[prev] = [is_free |-> TRUE,
                       size |-> hdr[prev].size + HDR + hdr[i].size]
      /\ \A b \in DOMAIN hdr : b # i /\ b # prev => hdr'[b] = hdr[b]
  <2>1. prev \in DOMAIN hdr /\ prev # i
    BY <1>1, <1>3, <1>4
  <2>2. hdr[prev] \in Header /\ hdr[prev].is_free = TRUE
    BY <1>1, <1>3 DEF Headers, Header
  <2> QED
    BY <1>2, <2>1, <2>2 DEF UnitedSize, Header
<1>6. BehindIn(hdr', prev) = BehindIn(hdr, i)
  <2>1. hdr'[prev].size = hdr[prev].size + HDR + hdr[i].size
    BY <1>5
  <2> QED
    BY <1>1, <1>3, <1>4, <2>1, Constants DEF BehindIn
<1>7. \A b \in DOMAIN hdr' : b # prev => BehindIn(hdr', b) = BehindIn(hdr, b)
  BY <1>5 DEF BehindIn
<1>8. Headers(hdr')
  <2>1. hdr[prev].size + HDR + hdr[i].size \in 0 .. WORD - 1
    BY <1>1, <1>3, <1>4, Constants
  <2>2. hdr'[prev] \in Header
    BY <1>5, <2>1 DEF Header
  <2> QED
    BY <1>3, <1>5, <2>2 DEF Headers
<1>9. Tiled(hdr', heap_size)
  <2>1. 0 \in DOMAIN hdr'
    <3>1. 0 \in DOMAIN hdr
      BY <1>3 DEF Tiled
    <3>2. i # 0
      BY <1>1, <1>3, <1>4
    <3> QED
      BY <1>5, <3>1, <3>2
  <2>2. ASSUME NEW b \in DOMAIN hdr'
        PROVE  b < heap_size /\ BehindIn(hdr', b) \in DOMAIN hdr' \cup {heap_size}
    <3>1. b \in DOMAIN hdr /\ b # i /\ b \in Nat /\ b < heap_size
      BY <1>3, <1>5
    <3>2. CASE b = prev
      <4>1. BehindIn(hdr, i) # i
        BY <1>1, <1>3, Constants
      <4> QED
        BY <1>1, <1>3, <1>5, <1>6, <3>1, <3>2, <4>1
    <3>3. CASE b # prev
      <4>1. BehindIn(hdr, b) # i
        BY <1>1, <1>3, <1>4, <3>1, <3>3, Constants
      <4> QED
        BY <1>3, <1>5, <1>7, <3>1, <3>3, <4>1
    <3> QED
      BY <3>2, <3>3
  <2>3. ASSUME NEW b \in DOMAIN hdr', NEW c \in DOMAIN hdr'
        PROVE  c <= b \/ BehindIn(hdr', b) <= c
    <3>1. /\ b \in DOMAIN hdr /\ c \in DOMAIN hdr /\ c # i
          /\ b \in Nat /\ c \in Nat /\ i \in Nat /\ prev \in Nat
      BY <1>1, <1>3, <1>5
    <3>2. CASE b = prev
      <4>1. c <= prev \/ i <= c
        BY <1>1, <1>3, <1>4, <3>1
      <4>2. c <= i \/ BehindIn(hdr, i) <= c
        BY <1>1, <1>3, <3>1
      <4> QED
        BY <1>6, <3>1, <3>2, <4>1, <4>2
    <3>3. CASE b # prev
      BY <1>3, <1>7, <3>1, <3>3
    <3> QED
      BY <3>2, <3>3
  <2> QED
    BY <2>1, <2>2, <2>3 DEF Tiled
<1>10. i' = After(prev)' /\ i' \in Nat /\ i' < WORD
  <2>1. /\ Wrap(After(i)) = After(i) /\ After(i) \in Nat
        /\ After(i) <= heap_size
    BY <1>1, BlockFacts
  <2>2. i' = After(i)
    BY <1>2, <2>1
  <2>3. prev' = prev
    BY <1>2
  <2> QED
    BY <1>3, <1>6, <2>1, <2>2, <2>3, Constants DEF After
<1>11. TypeOK'
  <2>1. /\ DOMAIN hdr' \subseteq 0 .. HeapLimit
        /\ \A c \in DOMAIN hdr' : hdr'[c] \in Header
    BY <1>3, <1>8, <1>9, TiledType
  <2>2. i' \in 0 .. WORD - 1
    BY <1>10, Constants
  <2> QED
    BY <1>2, <2>1, <2>2 DEF HeapInv, TypeOK
<1>12. Backed'
  <2>1. allocs' = allocs
    BY <1>2
  <2> QED
    BY <1>1, <1>5, <2>1 DEF HeapInv, Backed
<1>13. NoLeak'
  <2>1. allocs' = allocs
    BY <1>2
  <2> QED
    BY <1>5, <2>1 DEF HeapInv, NoLeak
<1>14. LoopInv'
  <2>1. /\ pc' = "unite" /\ prev' = prev /\ ret' = ret /\ bytes' = bytes
    BY <1>1, <1>2
  <2> QED
    BY <1>1, <1>5, <1>10, <2>1 DEF HeapInv, LoopInv
<1>15. Tiling' /\ StartInv'
  BY <1>1, <1>2, <1>9 DEF Tiling, StartInv
<1> QED
  BY <1>11, <1>12, <1>13, <1>14, <1>15 DEF HeapInv

\* initialise_heap makes one free block of the first page.
LEMMA InitialiseKeeps ==
  ASSUME HeapInv, InitialiseHeap
  PROVE  HeapInv'
<1>1. /\ DOMAIN hdr = {} /\ DOMAIN allocs = {} /\ heap_size = PAGE_SIZE
      /\ hdr' = Write(hdr, 0, TRUE, Sub(heap_size, HDR))
      /\ pc' = "idle" /\ heap_size' = heap_size /\ allocs' = allocs
      /\ bytes' = bytes /\ align' = align /\ i' = i /\ prev' = prev
      /\ ret' = ret
  BY DEF InitialiseHeap, HeapInv, StartInv, argVars, loopVars
<1>2. Sub(heap_size, HDR) = PAGE_SIZE - HDR
  BY <1>1, Constants DEF Sub
<1>3. /\ DOMAIN hdr' = {0}
      /\ hdr'[0] = [is_free |-> TRUE, size |-> PAGE_SIZE - HDR]
  BY <1>1, <1>2 DEF Write
<1>4. hdr'[0] \in Header
  <2>1. PAGE_SIZE - HDR \in 0 .. WORD - 1
    BY Constants
  <2> QED
    BY <1>3, <2>1 DEF Header
<1>5. BehindIn(hdr', 0) = PAGE_SIZE
  <2>1. hdr'[0].size = PAGE_SIZE - HDR
    BY <1>3
  <2> QED
    BY <2>1, Constants DEF BehindIn
<1>6. Tiled(hdr', PAGE_SIZE)
  BY <1>3, <1>5, Constants DEF Tiled
<1>7. TypeOK'
  <2>1. /\ DOMAIN hdr' \subseteq 0 .. HeapLimit
        /\ \A c \in DOMAIN hdr' : hdr'[c] \in Header
    <3>1. 0 \in 0 .. HeapLimit
      BY Constants
    <3>2. DOMAIN hdr' = {0}
      BY <1>3
    <3> QED
      BY <1>4, <3>1, <3>2
  <2>2. /\ pc' = "idle" /\ heap_size' = heap_size /\ allocs' = allocs
        /\ bytes' = bytes /\ align' = align /\ i' = i /\ prev' = prev
        /\ ret' = ret
    BY <1>1
  <2> QED
    BY <2>1, <2>2 DEF HeapInv, TypeOK
<1>8. Backed' /\ NoLeak'
  <2>1. DOMAIN allocs' = {}
    BY <1>1
  <2>2. hdr'[0].is_free
    BY <1>3
  <2> QED
    BY <1>3, <2>1, <2>2 DEF Backed, NoLeak
<1>9. Tiling' /\ StartInv' /\ LoopInv'
  BY <1>1, <1>6 DEF Tiling, StartInv, LoopInv
<1> QED
  BY <1>7, <1>8, <1>9 DEF HeapInv

\* Every step of malloc, free and initialise_heap keeps the invariant.
LEMMA HeapStepKeeps ==
  ASSUME SafeRequests
  PROVE  HeapInv /\ [Next]_vars => HeapInv'
<1> SUFFICES ASSUME HeapInv, [Next]_vars PROVE HeapInv'
  OBVIOUS
<1> USE DEF argVars, loopVars
<1>1. CASE ScanSkip \/ ScanAlignedSkip
  <2>1. Scanning /\ NextBlock
    BY <1>1 DEF ScanSkip, ScanAlignedSkip
  <2>2. /\ pc = "scan" /\ i \in DOMAIN hdr
        /\ i' = Wrap(After(i)) /\ hdr' = hdr /\ heap_size' = heap_size
        /\ pc' = pc /\ bytes' = bytes /\ align' = align /\ prev' = prev
        /\ ret' = ret /\ allocs' = allocs
    BY <2>1 DEF Scanning, NextBlock
  <2>3. /\ Wrap(After(i)) \in DOMAIN hdr \cup {heap_size}
        /\ Wrap(After(i)) \in Nat /\ Wrap(After(i)) < WORD
    <3>1. /\ After(i) \in DOMAIN hdr \cup {heap_size}
          /\ Wrap(After(i)) = After(i) /\ After(i) \in Nat
          /\ After(i) <= heap_size /\ heap_size < WORD /\ heap_size \in Nat
      BY <2>2, BlockFacts
    <3> QED
      BY <3>1, Constants
  <2>4. i' \in 0 .. WORD - 1
    BY <2>2, <2>3, Constants
  <2>5. TypeOK'
    BY <2>2, <2>4 DEF HeapInv, TypeOK
  <2>6. LoopInv'
    BY <2>2, <2>3 DEF HeapInv, LoopInv
  <2> QED
    BY <2>2, <2>5, <2>6, FrameKeeps
<1>2. CASE ScanAlignedHang \/ GrowHalts
  <2>1. TypeOK'
    BY <1>2 DEF ScanAlignedHang, GrowHalts, HeapInv, TypeOK
  <2>2. LoopInv'
    BY <1>2 DEF ScanAlignedHang, GrowHalts, LoopInv
  <2> QED
    BY <1>2, <2>1, <2>2, FrameKeeps
       DEF ScanAlignedHang, GrowHalts, Scanning, GetFreeBlockFails
<1>3. CASE UniteAdvance
  <2>1. /\ pc = "unite" /\ i \in DOMAIN hdr /\ prev' = i
        /\ i' = Wrap(After(i)) /\ hdr' = hdr /\ heap_size' = heap_size
        /\ pc' = pc /\ bytes' = bytes /\ align' = align
        /\ ret' = ret /\ allocs' = allocs
    BY <1>3 DEF UniteAdvance, Uniting, PrevAfter
  <2>2. /\ Wrap(After(i)) = After(i) /\ After(i) \in Nat /\ After(i) < WORD
        /\ i \in Nat /\ i < WORD
    <3>1. /\ Wrap(After(i)) = After(i) /\ After(i) \in Nat
          /\ After(i) <= heap_size /\ heap_size < WORD /\ heap_size \in Nat
          /\ i \in Nat /\ i < heap_size
      BY <2>1, BlockFacts
    <3> QED
      BY <3>1, Constants
  <2>3. i' \in 0 .. WORD - 1 /\ prev' \in 0 .. WORD - 1
    BY <2>1, <2>2, Constants
  <2>4. TypeOK'
    BY <2>1, <2>3 DEF HeapInv, TypeOK
  <2>5. i' = After(prev)'
    BY <2>1, <2>2 DEF After
  <2>6. LoopInv'
    BY <2>1, <2>5 DEF HeapInv, LoopInv
  <2> QED
    BY <2>1, <2>4, <2>6, FrameKeeps
<1>4. CASE UniteEnd
  <2>1. /\ pc = "unite" /\ i' = 0 /\ hdr' = hdr /\ heap_size' = heap_size
        /\ pc' = IF ret = "malloc" THEN "scan" ELSE "idle"
        /\ bytes' = bytes /\ align' = align /\ prev' = prev
        /\ ret' = ret /\ allocs' = allocs
    BY <1>4 DEF UniteEnd
  <2>2. 0 \in DOMAIN hdr
    BY <2>1, BlockFacts DEF Tiled
  <2>3. TypeOK'
    BY <2>1, Constants DEF HeapInv, TypeOK
  <2>4. LoopInv'
    BY <2>1, <2>2 DEF HeapInv, LoopInv
  <2> QED
    BY <2>1, <2>3, <2>4, FrameKeeps
<1>5. ASSUME NEW n \in Requests, NEW a \in Aligns, Malloc(n, a) PROVE HeapInv'
  <2>1. /\ pc = "idle" /\ i' = 0 /\ hdr' = hdr /\ heap_size' = heap_size
        /\ pc' = "scan" /\ bytes' = n /\ align' = a /\ prev' = prev
        /\ ret' = ret /\ allocs' = allocs
    BY <1>5 DEF Malloc
  <2>2. 0 \in DOMAIN hdr
    BY <2>1, BlockFacts DEF Tiled
  <2>3. a \in BOOLEAN
    BY HeapAssumption DEF HeapAssumption
  <2>4. TypeOK'
    BY <2>1, <2>3, Constants DEF HeapInv, TypeOK
  <2>5. LoopInv'
    BY <2>1, <2>2 DEF LoopInv
  <2> QED
    BY <2>1, <2>4, <2>5, FrameKeeps
<1>6. CASE Spin \/ UNCHANGED vars
  BY <1>6 DEF Spin, vars, HeapInv, TypeOK, Tiling, Backed, NoLeak, LoopInv,
              StartInv, After
<1> QED
  BY <1>1, <1>2, <1>3, <1>4, <1>5, <1>6, InitialiseKeeps, TakeKeeps,
     TakeAlignedKeeps, FreeKeeps, GrowKeeps, MergeKeeps DEF Next, HeapStep

\* HeapInv holds in every state that the heap can reach.
LEMMA HeapInvariant ==
  ASSUME SafeRequests
  PROVE  Spec => []HeapInv
<1>1. ASSUME Init PROVE HeapInv
  <2>1. TypeOK
    <3>1. DOMAIN hdr = {} /\ DOMAIN allocs = {}
      BY <1>1 DEF Init
    <3>2. heap_size \in PAGE_SIZE .. HeapLimit
      BY <1>1, Constants DEF Init
    <3>3. i \in 0 .. WORD - 1 /\ prev \in 0 .. WORD - 1
      BY <1>1, Constants DEF Init
    <3> QED
      BY <1>1, <3>1, <3>2, <3>3 DEF Init, TypeOK
  <2> QED
    BY <1>1, <2>1 DEF Init, HeapInv, Tiling, Backed, NoLeak, LoopInv, StartInv
<1> QED
  BY <1>1, HeapStepKeeps, PTL DEF Spec

\* For requests of at least a header, the headers, the loop indices and the
\* pointers handed out stay in range.
THEOREM HeapTypeCorrect ==
  ASSUME SafeRequests
  PROVE  Spec => []TypeOK
<1>1. HeapInv => TypeOK
  BY DEF HeapInv
<1> QED
  BY <1>1, HeapInvariant, PTL

\* For requests of at least a header, the walk over the blocks always covers
\* the heap exactly, aligned requests included.
THEOREM HeapTiled ==
  ASSUME SafeRequests
  PROVE  Spec => []Tiling
<1>1. HeapInv => Tiling
  BY DEF HeapInv
<1> QED
  BY <1>1, HeapInvariant, PTL

\* The blocks of the invariant keep live allocations apart.
LEMMA InvDisjoint ==
  ASSUME HeapInv
  PROVE  LiveDisjoint
<1>1. CASE pc = "start"
  BY <1>1 DEF HeapInv, StartInv, LiveDisjoint
<1>2. CASE pc # "start"
  <2> SUFFICES ASSUME NEW p \in DOMAIN allocs
               PROVE  /\ p + allocs[p] <= heap_size
                      /\ \A q \in DOMAIN allocs :
                           q > p => q >= p + allocs[p]
                      /\ \A b \in DOMAIN hdr :
                           b + HDR <= p \/ p + allocs[p] <= b
    BY DEF LiveDisjoint
  <2>1. \A q \in DOMAIN allocs :
          /\ q \in Nat /\ q - HDR \in DOMAIN hdr /\ allocs[q] \in Nat
          /\ allocs[q] <= hdr[q - HDR].size
    <3> SUFFICES ASSUME NEW q \in DOMAIN allocs
                 PROVE  /\ q \in Nat /\ q - HDR \in DOMAIN hdr
                        /\ allocs[q] \in Nat
                        /\ allocs[q] <= hdr[q - HDR].size
      OBVIOUS
    <3>1. q \in HDR .. HeapLimit /\ allocs[q] \in Requests
      BY DEF HeapInv, TypeOK
    <3>2. q \in Nat
      BY <3>1, Constants
    <3>3. allocs[q] \in 1 .. WORD - 1
      BY <3>1, Constants
    <3>4. allocs[q] \in Nat
      BY <3>3, Constants
    <3>5. q - HDR \in DOMAIN hdr /\ allocs[q] <= hdr[q - HDR].size
      BY DEF HeapInv, Backed
    <3> QED
      BY <3>2, <3>4, <3>5
  <2>2. /\ heap_size \in Nat
        /\ \A b \in DOMAIN hdr :
             /\ b \in Nat /\ hdr[b].size \in Nat
             /\ After(b) = b + HDR + hdr[b].size /\ After(b) <= heap_size
        /\ \A b, c \in DOMAIN hdr : c <= b \/ After(b) <= c
    BY <1>2, BlockFacts
  <2>3. p + allocs[p] <= After(p - HDR) /\ After(p - HDR) \in Nat
    BY <2>1, <2>2, Constants
  <2>4. p + allocs[p] <= heap_size
    BY <2>1, <2>2, <2>3
  <2>5. ASSUME NEW q \in DOMAIN allocs, q > p PROVE q >= p + allocs[p]
    <3>1. After(p - HDR) <= q - HDR
      BY <2>1, <2>2, <2>5, Constants
    <3> QED
      BY <2>1, <2>3, <3>1, Constants
  <2>6. ASSUME NEW b \in DOMAIN hdr
        PROVE  b + HDR <= p \/ p + allocs[p] <= b
    <3>1. b <= p - HDR \/ After(p - HDR) <= b
      BY <2>1, <2>2
    <3> QED
      BY <2>1, <2>2, <2>3, <3>1, Constants
  <2> QED
    BY <2>4, <2>5, <2>6
<1> QED
  BY <1>1, <1>2

\* For requests of at least a header, two live allocations never overlap, and
\* no block header is ever written into one.
THEOREM LiveMemoryDisjoint ==
  ASSUME SafeRequests
  PROVE  Spec => []LiveDisjoint
BY InvDisjoint, HeapInvariant, PTL

\* For requests of at least a header, a block marked as used always belongs
\* to an allocation that has not been freed.
THEOREM NothingLeaks ==
  ASSUME SafeRequests
  PROVE  Spec => []NoLeak
<1>1. HeapInv => NoLeak
  BY DEF HeapInv
<1> QED
  BY <1>1, HeapInvariant, PTL

-----------------------------------------------------------------------------
(* One pass of unite_free_blocks is enough                                 *)

\* Block b and the one behind it are both free.
FreePair(h, b) ==
  BehindIn(h, b) \in DOMAIN h /\ h[b].is_free /\ h[BehindIn(h, b)].is_free

Apart(h) == \A b \in DOMAIN h : ~FreePair(h, b)

\* What unite_free_blocks has behind it has no free neighbours.
UniteInv ==
  /\ pc \in {"idle", "scan"} => Apart(hdr)
  /\ pc = "unite" => \A b \in DOMAIN hdr : b < prev => ~FreePair(hdr, b)

\* A division makes no free neighbours if the new block has none.
LEMMA DivideApart ==
  ASSUME NEW h, NEW d, NEW size \in Nat, NEW b \in DOMAIN h, NEW n \in Nat,
         NEW f \in BOOLEAN,
         Headers(h), Tiled(h, size), n + HDR <= h[b].size,
         Divided(h, d, b, n, f), Apart(h),
         f => ~h[b].is_free,
         f /\ BehindIn(h, b) \in DOMAIN h => ~h[BehindIn(h, b)].is_free
  PROVE  Apart(d)
<1> DEFINE m == b + HDR + n
           e == BehindIn(h, b)
<1>1. HDR \in Nat \ {0} /\ h[b].size \in Nat /\ b \in Nat
  BY HeapAssumption DEF HeapAssumption, Headers, Header
<1>2. /\ m \notin DOMAIN h
      /\ DOMAIN d = DOMAIN h \cup {m}
      /\ d[b] = [is_free |-> h[b].is_free, size |-> n]
      /\ d[m] = [is_free |-> f, size |-> h[b].size - HDR - n]
      /\ \A c \in DOMAIN h : c # b => d[c] = h[c]
  BY DEF Divided
<1>3. /\ BehindIn(d, b) = m
      /\ BehindIn(d, m) = e
      /\ \A c \in DOMAIN h : c # b => BehindIn(d, c) = BehindIn(h, c)
  BY <1>1, <1>2 DEF BehindIn
<1>4. d[m].is_free = f /\ \A c \in DOMAIN h : d[c].is_free = h[c].is_free
  BY <1>2
<1>5. m < e /\ e \in Nat /\ m \in Nat
  BY <1>1 DEF BehindIn
<1>6. e <= size
  <2>1. e \in DOMAIN h \cup {size} /\ \A c \in DOMAIN h : c \in Nat /\ c < size
    BY DEF Tiled, Headers
  <2> QED
    BY <2>1
<1>7. \A c \in DOMAIN h : BehindIn(h, c) # m
  <2>1. m < size
    BY <1>5, <1>6
  <2>2. \A c \in DOMAIN h : BehindIn(h, c) \in DOMAIN h \cup {size}
    BY DEF Tiled
  <2> QED
    BY <1>2, <1>5, <2>1, <2>2
<1> HIDE DEF m, e
<1> SUFFICES ASSUME NEW c \in DOMAIN d, FreePair(d, c)
             PROVE  FALSE
  BY DEF Apart
<1>8. BehindIn(d, c) \in DOMAIN d /\ d[c].is_free /\ d[BehindIn(d, c)].is_free
  BY DEF FreePair
<1>9. CASE c = b
  BY <1>3, <1>4, <1>8, <1>9
<1>10. CASE c = m
  <2>1. f /\ e \in DOMAIN d /\ e # m /\ d[e].is_free
    BY <1>3, <1>4, <1>5, <1>8, <1>10
  <2>2. e \in DOMAIN h /\ h[e].is_free
    BY <1>2, <1>4, <2>1
  <2> QED
    BY <2>1, <2>2 DEF e
<1>11. CASE c \in DOMAIN h /\ c # b
  <2>1. PICK g : g = BehindIn(h, c)
    OBVIOUS
  <2>2. g \in DOMAIN h /\ d[g].is_free
    BY <1>2, <1>3, <1>7, <1>8, <1>11, <2>1
  <2>3. h[c].is_free /\ h[g].is_free
    BY <1>4, <1>8, <1>11, <2>2
  <2> QED
    BY <1>11, <2>1, <2>2, <2>3 DEF Apart, FreePair
<1> QED
  BY <1>2, <1>9, <1>10, <1>11

LEMMA TakeApart ==
  ASSUME SafeRequests, HeapInv, Apart(hdr), ScanTake
  PROVE  Apart(hdr')
<1>1. /\ pc = "scan" /\ i \in DOMAIN hdr /\ hdr[i].is_free
      /\ hdr[i].size >= bytes /\ hdr' = TakeBlock(i)
  BY DEF ScanTake, Scanning, Fits
<1>2. bytes \in Nat /\ bytes >= HDR
  BY <1>1, RequestSize
<1>3. /\ Headers(hdr) /\ Tiled(hdr, heap_size) /\ heap_size \in Nat
      /\ i \in Nat /\ hdr[i].size \in Nat
  BY <1>1, BlockFacts
<1> DEFINE taken == [hdr EXCEPT ![i].is_free = FALSE]
<1>4. /\ DOMAIN taken = DOMAIN hdr
      /\ taken[i] = [is_free |-> FALSE, size |-> hdr[i].size]
      /\ \A b \in DOMAIN hdr : b # i => taken[b] = hdr[b]
  BY <1>1, <1>3 DEF Headers, Header
<1> HIDE DEF taken
<1>5. Headers(taken)
  <2>1. taken[i] \in Header
    BY <1>1, <1>3, <1>4 DEF Headers, Header
  <2> QED
    BY <1>3, <1>4, <2>1 DEF Headers
<1>6. \A b \in DOMAIN hdr :
        BehindIn(taken, b) = BehindIn(hdr, b) /\ (taken[b].is_free => hdr[b].is_free)
  BY <1>1, <1>4 DEF BehindIn
<1>7. Tiled(taken, heap_size)
  BY <1>3, <1>4, <1>6 DEF Tiled
<1>8. Apart(taken)
  BY <1>4, <1>6 DEF Apart, FreePair
<1>9. CASE Divides(hdr[i].size, bytes)
  <2>1. hdr' = DivideBlock(taken, i, bytes, TRUE)
    BY <1>1, <1>9 DEF TakeBlock, taken
  <2>2. bytes + HDR <= taken[i].size
    BY <1>1, <1>2, <1>3, <1>4, <1>9, Constants DEF Divides, Sub
  <2>3. Divided(taken, hdr', i, bytes, TRUE)
    BY <1>1, <1>2, <1>3, <1>4, <1>5, <1>7, <2>1, <2>2, DivideFacts
  <2>4. /\ ~taken[i].is_free
        /\ BehindIn(taken, i) \in DOMAIN taken => ~taken[BehindIn(taken, i)].is_free
    BY <1>1, <1>4, <1>6 DEF Apart, FreePair
  <2> QED
    BY <1>1, <1>2, <1>3, <1>4, <1>5, <1>7, <1>8, <2>2, <2>3, <2>4, DivideApart
<1>10. CASE ~Divides(hdr[i].size, bytes)
  BY <1>1, <1>8, <1>10 DEF TakeBlock, taken
<1> QED
  BY <1>9, <1>10

LEMMA TakeAlignedApart ==
  ASSUME SafeRequests, HeapInv, Apart(hdr), ScanAligned
  PROVE  Apart(hdr')
<1>1. /\ Scanning /\ Fits(i) /\ pc = "scan" /\ i \in DOMAIN hdr
      /\ hdr[i].is_free
  BY DEF ScanAligned, Scanning, Fits
<1>2. PICK a \in LoopExits(i) : ~LoopEnds(i, a) /\ hdr' = TakeAligned(i, a)
  BY DEF ScanAligned
<1>3. bytes \in Nat /\ bytes >= HDR
  BY <1>1, RequestSize
<1>4. /\ Headers(hdr) /\ Tiled(hdr, heap_size) /\ heap_size \in Nat
      /\ i \in Nat /\ hdr[i].size \in Nat /\ After(i) \in Nat
      /\ After(i) = i + HDR + hdr[i].size
  BY <1>1, BlockFacts
<1>5. /\ a \in Nat /\ a - i - 2 * HDR \in Nat /\ a - i > 2 * HDR
      /\ Sub(Sub(a, i), 2 * HDR) = a - i - 2 * HDR
      /\ a <= After(i) /\ After(i) - a >= bytes
  BY <1>1, <1>2, AlignedFacts
<1> DEFINE left == a - i - 2 * HDR
           n == a - HDR
           h == DivideBlock(hdr, i, left, FALSE)
<1>6. n \in Nat /\ n = i + HDR + left /\ n > i /\ left \in Nat
  BY <1>4, <1>5, Constants
<1>7. left + HDR <= hdr[i].size /\ hdr[i].size - HDR - left = After(i) - a
  BY <1>4, <1>5, Constants
<1> HIDE DEF left, n
<1>8. Divided(hdr, h, i, left, FALSE)
  BY <1>1, <1>4, <1>6, <1>7, DivideFacts
<1>9. TakeAligned(i, a) = IF h[n].size > bytes + HDR
                          THEN DivideBlock(h, n, bytes, TRUE) ELSE h
  BY <1>5 DEF TakeAligned, left, n
<1> HIDE DEF h
<1>10. Headers(h) /\ Tiled(h, heap_size) /\ Apart(h)
  BY <1>1, <1>4, <1>6, <1>7, <1>8, DivideTiled, DivideApart
<1>11. /\ n \notin DOMAIN hdr /\ DOMAIN h = DOMAIN hdr \cup {n}
       /\ h[n] = [is_free |-> FALSE, size |-> After(i) - a]
       /\ \A c \in DOMAIN hdr : c # i => h[c] = hdr[c]
  BY <1>6, <1>7, <1>8 DEF Divided
<1>12. CASE h[n].size > bytes + HDR
  <2>1. hdr' = DivideBlock(h, n, bytes, TRUE)
    BY <1>2, <1>9, <1>12
  <2>2. bytes + HDR <= h[n].size /\ n \in DOMAIN h /\ ~h[n].is_free
    BY <1>3, <1>4, <1>5, <1>11, <1>12, Constants
  <2>3. Divided(h, hdr', n, bytes, TRUE)
    BY <1>3, <1>4, <1>10, <2>1, <2>2, DivideFacts
  <2>4. BehindIn(h, n) = After(i)
    <3>1. h[n].size = After(i) - a /\ n = a - HDR
      BY <1>11 DEF n
    <3> QED
      BY <1>4, <1>5, <3>1, Constants DEF BehindIn
  <2>5. After(i) \in DOMAIN h => ~h[After(i)].is_free
    <3>1. After(i) # i /\ After(i) # n
      BY <1>3, <1>4, <1>5, Constants DEF n
    <3>2. After(i) \in DOMAIN hdr => ~hdr[After(i)].is_free
      BY <1>1 DEF Apart, FreePair, After
    <3> QED
      BY <1>11, <3>1, <3>2
  <2> QED
    BY <1>3, <1>4, <1>10, <2>2, <2>3, <2>4, <2>5, DivideApart
<1>13. CASE ~(h[n].size > bytes + HDR)
  BY <1>2, <1>9, <1>10, <1>13
<1> QED
  BY <1>12, <1>13

LEMMA MergeApart ==
  ASSUME HeapInv, UniteInv, UniteMerge
  PROVE  UniteInv'
<1>1. /\ pc = "unite" /\ i \in DOMAIN hdr /\ hdr[i].is_free
      /\ hdr[prev].is_free /\ prev \in DOMAIN hdr /\ i = After(prev)
  BY DEF UniteMerge, Uniting, HeapInv, LoopInv
<1>2. /\ hdr' = [b \in DOMAIN hdr \ {i} |->
                   IF b = prev THEN [hdr[b] EXCEPT !.size = UnitedSize(prev, i)]
                   ELSE hdr[b]]
      /\ pc' = pc /\ prev' = prev
  BY DEF UniteMerge
<1>3. /\ \A b \in DOMAIN hdr : b \in Nat /\ BehindIn(hdr, b) \in Nat
      /\ \A b, c \in DOMAIN hdr : c <= b \/ BehindIn(hdr, b) <= c
      /\ prev < i
  <2>1. \A b \in DOMAIN hdr : b \in Nat /\ After(b) \in Nat /\ hdr[b].size \in Nat
                              /\ After(b) = b + HDR + hdr[b].size
    BY <1>1, BlockFacts
  <2>2. \A b, c \in DOMAIN hdr : c <= b \/ After(b) <= c
    BY <1>1, BlockFacts
  <2>3. prev < i
    BY <1>1, <2>1, Constants
  <2> QED
    BY <2>1, <2>2, <2>3 DEF After
<1> SUFFICES ASSUME NEW b \in DOMAIN hdr', b < prev, FreePair(hdr', b)
             PROVE  FALSE
  BY <1>1, <1>2 DEF UniteInv
<1>4. b \in DOMAIN hdr /\ b # i /\ b # prev /\ hdr'[b] = hdr[b]
  BY <1>1, <1>2, <1>3
<1>5. PICK c : c = BehindIn(hdr, b)
  OBVIOUS
<1>6. BehindIn(hdr', b) = c
  BY <1>4, <1>5 DEF BehindIn
<1>7. c \in DOMAIN hdr' /\ hdr'[c].is_free /\ hdr[b].is_free
  BY <1>4, <1>6 DEF FreePair
<1>8. c \in DOMAIN hdr /\ (c = prev \/ hdr'[c] = hdr[c])
  BY <1>2, <1>7
<1>9. hdr[c].is_free
  BY <1>1, <1>7, <1>8
<1> QED
  BY <1>1, <1>4, <1>5, <1>7, <1>8, <1>9 DEF UniteInv, FreePair

\* The whole pass: when it ends, prev is the last block.
LEMMA UniteStep ==
  ASSUME SafeRequests, HeapInv, UniteInv, [Next]_vars
  PROVE  UniteInv'
<1>1. CASE ScanTake
  BY <1>1, TakeApart DEF ScanTake, Scanning, Return, UniteInv
<1>2. CASE ScanAligned
  <2>1. pc = "scan" /\ pc' = "idle"
    BY <1>2 DEF ScanAligned, Scanning, Return
  <2> QED
    BY <1>2, <2>1, TakeAlignedApart DEF UniteInv
<1>3. CASE UniteMerge
  BY <1>3, MergeApart
<1>4. CASE UniteAdvance
  <2>1. /\ pc = "unite" /\ i \in DOMAIN hdr /\ prev \in DOMAIN hdr /\ i = After(prev)
        /\ ~(hdr[i].is_free /\ hdr[prev].is_free)
        /\ prev' = i /\ hdr' = hdr /\ pc' = pc
    BY <1>4 DEF UniteAdvance, Uniting, PrevAfter, HeapInv, LoopInv
  <2>2. /\ \A b \in DOMAIN hdr : b \in Nat
        /\ \A b, c \in DOMAIN hdr : c <= b \/ After(b) <= c
    BY <2>1, BlockFacts
  <2>3. ASSUME NEW b \in DOMAIN hdr, b < i PROVE ~FreePair(hdr, b)
    <3>1. b <= prev
      BY <2>1, <2>2, <2>3
    <3>2. CASE b = prev
      BY <2>1, <3>2 DEF FreePair, After
    <3>3. CASE b < prev
      BY <2>1, <3>3 DEF UniteInv
    <3> QED
      BY <2>1, <2>2, <3>1, <3>2, <3>3
  <2> QED
    BY <2>1, <2>3 DEF UniteInv
<1>5. CASE UniteEnd
  <2>1. /\ pc = "unite" /\ i >= heap_size /\ hdr' = hdr /\ pc' \in {"idle", "scan"}
        /\ prev \in DOMAIN hdr /\ i = After(prev)
    BY <1>5 DEF UniteEnd, HeapInv, LoopInv
  <2>2. /\ \A b \in DOMAIN hdr : b \in Nat /\ b < heap_size
        /\ \A b, c \in DOMAIN hdr : c <= b \/ After(b) <= c
        /\ heap_size \in Nat /\ After(prev) \in Nat
    BY <2>1, BlockFacts
  <2>3. \A b \in DOMAIN hdr : b <= prev
    BY <2>1, <2>2
  <2>4. After(prev) \notin DOMAIN hdr
    BY <2>1, <2>2
  <2>5. ASSUME NEW b \in DOMAIN hdr PROVE ~FreePair(hdr, b)
    <3>1. CASE b = prev
      BY <2>4, <3>1 DEF FreePair, After
    <3>2. CASE b < prev
      BY <2>1, <3>2 DEF UniteInv
    <3> QED
      BY <2>1, <2>2, <2>3, <3>1, <3>2
  <2> QED
    BY <2>1, <2>5 DEF UniteInv, Apart
<1>6. CASE Grow \/ \E p \in DOMAIN allocs : Free(p)
  <2>1. pc' = "unite" /\ prev' = 0
    BY <1>6 DEF Grow, Free, StartUnite
  <2>2. HeapInv'
    BY HeapStepKeeps
  <2>3. DOMAIN hdr' \subseteq Nat
    BY <2>2 DEF HeapInv, TypeOK
  <2> QED
    BY <2>1, <2>3 DEF UniteInv
<1>7. CASE InitialiseHeap
  <2>1. DOMAIN hdr = {} /\ pc' = "idle" /\ hdr' = Write(hdr, 0, TRUE, Sub(heap_size, HDR))
    BY <1>7 DEF InitialiseHeap, HeapInv, StartInv
  <2>2. DOMAIN hdr' = {0}
    BY <2>1 DEF Write
  <2>3. HeapInv'
    BY HeapStepKeeps
  <2>4. Headers(hdr')
    BY <2>3 DEF HeapInv, TypeOK, Headers
  <2>5. BehindIn(hdr', 0) # 0
    BY <2>2, <2>4, Constants DEF BehindIn, Headers, Header
  <2> QED
    BY <2>1, <2>2, <2>5 DEF UniteInv, Apart, FreePair
<1>8. ASSUME hdr' = hdr, prev' = prev,
             \/ pc' = pc \/ pc' \in {"hung", "halted"}
             \/ (pc = "idle" /\ pc' = "scan")
      PROVE  UniteInv'
  BY <1>8 DEF UniteInv
<1> QED
  <2>1. \/ ScanTake \/ ScanAligned \/ UniteMerge \/ UniteAdvance \/ UniteEnd
        \/ Grow \/ (\E p \in DOMAIN allocs : Free(p)) \/ InitialiseHeap
        \/ /\ hdr' = hdr /\ prev' = prev
           /\ \/ pc' = pc \/ pc' \in {"hung", "halted"}
              \/ (pc = "idle" /\ pc' = "scan")
    BY DEF Next, HeapStep, ScanSkip, ScanAlignedSkip, NextBlock, ScanAlignedHang,
           GrowHalts, Malloc, Spin, vars, loopVars
  <2> QED
    BY <1>1, <1>2, <1>3, <1>4, <1>5, <1>6, <1>7, <1>8, <2>1

\* For requests of at least a header, one pass of unite_free_blocks leaves no two
\* free neighbours, wherever in the heap a block was freed or a page was added,
\* and dividing a block in malloc, aligned or not, makes none.
THEOREM FreeBlocksUnited ==
  ASSUME SafeRequests
  PROVE  Spec => []Coalesced
<1>1. Init => UniteInv
  BY DEF Init, UniteInv
<1>2. HeapInv /\ UniteInv /\ [Next]_vars => UniteInv'
  BY UniteStep
<1>3. UniteInv => Coalesced
  BY DEF UniteInv, Apart, FreePair, Coalesced, After
<1> QED
  BY <1>1, <1>2, <1>3, HeapInvariant, PTL DEF Spec

-----------------------------------------------------------------------------
(* The heap implements the allocator                                       *)

\* malloc returns a pointer that nobody has.
LEMMA PointerFresh ==
  ASSUME SafeRequests, HeapInv, NEW b \in Nat,
         \/ ScanTake /\ b = i
         \/ \E a \in LoopExits(i) : /\ ScanAligned /\ ~LoopEnds(i, a)
                                   /\ b = a - HDR
  PROVE  b + HDR \notin DOMAIN allocs
<1> SUFFICES ASSUME b + HDR \in DOMAIN allocs PROVE FALSE
  OBVIOUS
<1>1. b \in DOMAIN hdr /\ ~hdr[b].is_free
  <2>1. (b + HDR) - HDR = b
    BY Constants
  <2>2. /\ (b + HDR) - HDR \in DOMAIN hdr
        /\ ~hdr[(b + HDR) - HDR].is_free
    BY DEF HeapInv, Backed
  <2> QED
    BY <2>1, <2>2
<1>2. Scanning /\ Fits(i) /\ pc = "scan" /\ i \in DOMAIN hdr /\ hdr[i].is_free
  BY DEF ScanTake, ScanAligned, Scanning, Fits
<1>3. b # i
  BY <1>1, <1>2
<1>4. PICK a \in LoopExits(i) : ~LoopEnds(i, a) /\ b = a - HDR
  BY <1>3
<1>5. /\ a \in Nat /\ a - i > 2 * HDR /\ a <= After(i)
  BY <1>2, <1>4, AlignedFacts
<1>6. i \in Nat /\ After(i) \in Nat /\ (b <= i \/ After(i) <= b)
  BY <1>1, <1>2, BlockFacts
<1> QED
  BY <1>4, <1>5, <1>6, Constants

\* A step in which malloc returns block b is an allocation.
LEMMA ReturnAllocates ==
  ASSUME SafeRequests, HeapInv, LiveDisjoint', TypeOK', pc = "scan",
         NEW b \in Nat, Return(b), b + HDR \notin DOMAIN allocs
  PROVE  A!Next
<1> DEFINE p == b + HDR
<1>1. /\ bytes \in Requests /\ bytes \in Nat /\ p \in Nat
  BY RequestSize, Constants
<1>2. /\ allocs' = [q \in DOMAIN allocs \cup {p} |->
                     IF q = p THEN bytes ELSE allocs[q]]
      /\ heap_size' = heap_size
  BY DEF Return, PointerTo
<1>3. heap_size \in Nat /\ heap_size <= HeapLimit
  BY BlockFacts
<1>4. /\ p \in DOMAIN allocs' /\ allocs'[p] = bytes
      /\ \A q \in DOMAIN allocs : q \in DOMAIN allocs' /\ q # p
                                 /\ allocs'[q] = allocs[q]
  BY <1>2
<1> HIDE DEF p
<1>5. p + bytes <= HeapLimit /\ p \in 0 .. HeapLimit
  <2>1. p + bytes <= heap_size
    BY <1>2, <1>4 DEF LiveDisjoint
  <2> QED
    BY <1>1, <1>3, <2>1, Constants
<1>6. ASSUME NEW q \in DOMAIN allocs
      PROVE  p # q /\ (p + bytes <= q \/ q + allocs[q] <= p)
  <2>1. q \in Nat
    <3>1. q \in HDR .. HeapLimit
      BY DEF HeapInv, TypeOK
    <3> QED
      BY <3>1, Constants
  <2>2. /\ q > p => q >= p + bytes
        /\ p > q => p >= q + allocs[q]
    BY <1>4 DEF LiveDisjoint
  <2>3. allocs[q] \in Nat
    <3>1. allocs[q] \in Requests
      BY DEF HeapInv, TypeOK
    <3>2. allocs[q] \in 1 .. WORD - 1
      BY <3>1, Constants
    <3> QED
      BY <3>2, Constants
  <2> QED
    BY <1>1, <1>4, <2>1, <2>2, <2>3
<1>7. A!Allocate(p, bytes)
  BY <1>2, <1>5, <1>6 DEF A!Allocate
<1> QED
  BY <1>1, <1>5, <1>7 DEF A!Next

\* Every step of the heap is a step of the allocator, or changes nothing that
\* the allocator has.
LEMMA HeapStepAllocates ==
  ASSUME SafeRequests, HeapInv, LiveDisjoint', TypeOK', [Next]_vars
  PROVE  [A!Next]_allocs
<1>1. CASE ScanTake
  <2>1. pc = "scan" /\ i \in DOMAIN hdr /\ Return(i)
    BY <1>1 DEF ScanTake, Scanning
  <2>2. i \in Nat
    BY <2>1, BlockFacts
  <2>3. i + HDR \notin DOMAIN allocs
    BY <1>1, <2>2, PointerFresh
  <2> QED
    BY <2>1, <2>2, <2>3, ReturnAllocates
<1>2. CASE ScanAligned
  <2>1. PICK a \in LoopExits(i) : ~LoopEnds(i, a) /\ Return(a - HDR)
    BY <1>2 DEF ScanAligned
  <2>2. pc = "scan" /\ Scanning /\ Fits(i) /\ i \in DOMAIN hdr
    BY <1>2 DEF ScanAligned, Scanning
  <2>3. i \in Nat
    BY <2>2, BlockFacts
  <2>4. a \in Nat /\ a - i > 2 * HDR
    BY <2>1, <2>2, AlignedFacts
  <2>5. a - HDR \in Nat
    BY <2>3, <2>4, Constants
  <2>6. (a - HDR) + HDR \notin DOMAIN allocs
    BY <1>2, <2>1, <2>5, PointerFresh
  <2> QED
    BY <2>1, <2>2, <2>5, <2>6, ReturnAllocates
<1>3. ASSUME NEW p \in DOMAIN allocs, Free(p) PROVE A!Next
  BY <1>3 DEF Free, A!Next, A!Release
<1>4. CASE UNCHANGED allocs
  BY <1>4
<1> QED
  BY <1>1, <1>2, <1>3, <1>4
     DEF Next, HeapStep, InitialiseHeap, Malloc, NextBlock, ScanSkip,
         ScanAlignedSkip, ScanAlignedHang, Grow, GrowHalts, UniteMerge,
         UniteAdvance, UniteEnd, Spin, vars

\* For requests of at least a header, heap.c is an allocator: what malloc
\* returns overlaps nothing that is in use, and nothing but free of that very
\* pointer takes it away again.
THEOREM HeapIsAllocator ==
  ASSUME SafeRequests
  PROVE  Spec => ImplementsAllocator
<1>1. Init => A!Init
  BY DEF Init, A!Init
<1>2. HeapInv => TypeOK
  BY DEF HeapInv
<1>3. HeapInv => LiveDisjoint
  BY InvDisjoint
<1>4. HeapInv /\ TypeOK' /\ LiveDisjoint' /\ [Next]_vars => [A!Next]_allocs
  BY HeapStepAllocates
<1> QED
  BY <1>1, <1>2, <1>3, <1>4, HeapInvariant, PTL DEF Spec, ImplementsAllocator, A!Spec

=============================================================================
