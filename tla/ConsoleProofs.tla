---------------------------- MODULE ConsoleProofs ---------------------------
(***************************************************************************)
(* Proofs about Console, for any number of readers and writers, any size   *)
(* of the ring and indices that wrap at any multiple of it: nobody sleeps  *)
(* for what has already happened, the transmitter is not overrun, and the  *)
(* ring with its three indices is an editable line and a queue.            *)
(***************************************************************************)
EXTENDS Console, SequenceTheorems, TLAPS

-----------------------------------------------------------------------------
(* Indices that wrap, from the defining equation of %, and Append and Tail *)
(* as functions of the position.                                           *)

\* The remainder is the one number below m that is left after a multiple of m.
LEMMA ModUnique ==
  ASSUME NEW m \in Nat \ {0}, NEW q \in Int, NEW rest \in 0 .. m - 1
  PROVE  (q * m + rest) % m = rest
  OBVIOUS

\* Division with remainder.
LEMMA ModSplit ==
  ASSUME NEW m \in Nat \ {0}, NEW x \in Int
  PROVE  /\ x % m \in 0 .. m - 1
         /\ x \div m \in Int
         /\ x = (x \div m) * m + (x % m)
  OBVIOUS

\* A number that is in range is its own remainder.
LEMMA ModSmall ==
  ASSUME NEW m \in Nat \ {0}, NEW x \in 0 .. m - 1
  PROVE  x % m = x
  OBVIOUS

\* A number that is out of range by one turn at most.
LEMMA ModOver ==
  ASSUME NEW m \in Nat \ {0}, NEW x \in m .. 2 * m - 1
  PROVE  x % m = x - m
  OBVIOUS

LEMMA ModUnder ==
  ASSUME NEW m \in Nat \ {0}, NEW x \in Int, -m <= x, x < 0
  PROVE  x % m = x + m
  OBVIOUS

\* Whole turns do not matter.
LEMMA ModTurns ==
  ASSUME NEW m \in Nat \ {0}, NEW x \in Int, NEW k \in Int
  PROVE  (x + k * m) % m = x % m
<1> DEFINE q == x \div m
           rest == x % m
<1>1. q \in Int /\ rest \in 0 .. m - 1 /\ x = q * m + rest
  BY ModSplit
<1> HIDE DEF q, rest
<1>2. q + k \in Int /\ x + k * m = (q + k) * m + rest
  BY <1>1
<1>3. ((q + k) * m + rest) % m = rest
  BY <1>1, <1>2, ModUnique
<1>4. QED
  BY <1>2, <1>3 DEF rest

\* Two numbers less than a turn apart have different remainders.
LEMMA ModDistinct ==
  ASSUME NEW m \in Nat \ {0}, NEW x \in Int, NEW d \in 1 .. m - 1
  PROVE  (x + d) % m # x % m
<1> DEFINE q == x \div m
           rest == x % m
<1>1. q \in Int /\ rest \in 0 .. m - 1 /\ x = q * m + rest
  BY ModSplit
<1> HIDE DEF q, rest
<1>2. CASE rest + d < m
  <2>1. rest + d \in 0 .. m - 1 /\ x + d = q * m + (rest + d)
    BY <1>1, <1>2
  <2>2. (x + d) % m = rest + d
    BY <1>1, <2>1, ModUnique
  <2>3. QED
    BY <1>1, <2>2 DEF rest
<1>3. CASE rest + d >= m
  <2>1. (rest + d) - m \in 0 .. m - 1 /\ x + d = (q + 1) * m + ((rest + d) - m) /\ q + 1 \in Int
    BY <1>1, <1>3
  <2>2. (x + d) % m = (rest + d) - m
    BY <1>1, <2>1, ModUnique
  <2>3. QED
    BY <1>1, <2>2 DEF rest
<1>4. QED
  BY <1>1, <1>2, <1>3

\* A counter modulo M wraps together with an index modulo m when m divides M.
LEMMA ModMod ==
  ASSUME NEW m \in Nat \ {0}, NEW k \in Nat \ {0}, NEW x \in Int
  PROVE  (x % (k * m)) % m = x % m
<1> DEFINE M == k * m
           q == x \div M
           rest == x % M
<1>1. M \in Nat \ {0}
  OBVIOUS
<1> HIDE DEF M
<1>2. q \in Int /\ rest \in 0 .. M - 1 /\ x = q * M + rest
  BY <1>1, ModSplit
<1> HIDE DEF q, rest
<1>3. q * M = (q * k) * m
  BY <1>2 DEF M
<1>4. q * k \in Int /\ rest \in Int /\ x = rest + (q * k) * m
  BY <1>1, <1>2, <1>3
<1>5. (rest + (q * k) * m) % m = rest % m
  BY <1>4, ModTurns
<1>6. QED
  BY <1>4, <1>5 DEF rest, M

\* Append and Tail, as functions of the position.
LEMMA AppendIsFunction ==
  ASSUME NEW S, NEW s \in Seq(S), NEW v \in S
  PROVE  Append(s, v) = [k \in 1 .. Len(s) + 1 |-> IF k = Len(s) + 1 THEN v ELSE s[k]]
<1>1. Append(s, v) \in Seq(S) /\ Len(Append(s, v)) = Len(s) + 1
  BY AppendProperties
<1>2. Append(s, v) \in [1 .. Len(s) + 1 -> S] /\ Len(s) \in Nat
  BY <1>1, LenProperties
<1>3. \A k \in 1 .. Len(s) + 1 : Append(s, v)[k] = IF k = Len(s) + 1 THEN v ELSE s[k]
  BY <1>2, AppendProperties
<1>4. QED
  BY <1>2, <1>3

LEMMA TailIsFunction ==
  ASSUME NEW S, NEW s \in Seq(S), s # <<>>
  PROVE  Tail(s) = [k \in 1 .. Len(s) - 1 |-> s[k + 1]]
<1>1. Tail(s) \in Seq(S) /\ Len(Tail(s)) = Len(s) - 1
  BY HeadTailProperties
<1>2. Tail(s) \in [1 .. Len(s) - 1 -> S]
  BY <1>1, LenProperties
<1>3. \A k \in 1 .. Len(s) - 1 : Tail(s)[k] = s[k + 1]
  BY <1>1, HeadTailProperties
<1>4. QED
  BY <1>2, <1>3

\* Differences and successors without %.
LEMMA WrapCases ==
  ASSUME NEW U \in Nat \ {0}, NEW i \in 0 .. U - 1, NEW j \in 0 .. U - 1
  PROVE  /\ (j - i) % U = IF j >= i THEN j - i ELSE j - i + U
         /\ (i + 1) % U = IF i = U - 1 THEN 0 ELSE i + 1
<1>1. (j - i) % U = IF j >= i THEN j - i ELSE j - i + U
  <2>1. CASE j >= i
    <3>1. j - i \in 0 .. U - 1
      BY <2>1
    <3>2. QED
      BY <2>1, <3>1, ModSmall
  <2>2. CASE j < i
    <3>1. j - i \in Int /\ -U <= j - i /\ j - i < 0
      BY <2>2
    <3>2. (j - i) % U = j - i + U
      BY ONLY <3>1, ModUnder, U \in Nat \ {0}
    <3>3. QED
      BY <2>2, <3>2
  <2>3. QED
    BY <2>1, <2>2
<1>2. (i + 1) % U = IF i = U - 1 THEN 0 ELSE i + 1
  <2>1. CASE i = U - 1
    <3>1. i + 1 \in U .. 2 * U - 1 /\ i + 1 - U = 0
      BY <2>1
    <3>2. QED
      BY <2>1, <3>1, ModOver
  <2>2. CASE i # U - 1
    <3>1. i + 1 \in 0 .. U - 1
      BY <2>2
    <3>2. QED
      BY <2>2, <3>1, ModSmall
  <2>3. QED
    BY <2>1, <2>2
<1>3. QED
  BY <1>1, <1>2

\* The slot of a counter is not changed by the wrap.
LEMMA WrapSlot ==
  ASSUME NEW N \in Nat \ {0}, NEW U \in Nat \ {0}, U % N = 0, NEW x \in Int
  PROVE  (x + U) % N = x % N
<1> DEFINE k == U \div N
<1>1. k \in Int /\ U = k * N + (U % N) /\ U % N = 0
  BY ModSplit
<1> HIDE DEF k
<1>2. U = k * N
  BY <1>1
<1>3. (x + k * N) % N = x % N
  BY ONLY x \in Int, <1>1, N \in Nat \ {0}, ModTurns
<1>4. QED
  BY <1>2, <1>3

\* Different entries of a ring that is not overfull are in different slots.
LEMMA RingSlots ==
  ASSUME NEW N \in Nat \ {0}, NEW i \in Int, NEW c \in 0 .. N,
         NEW x \in 0 .. c - 1, NEW y \in 0 .. c - 1, x # y
  PROVE  (i + x) % N # (i + y) % N /\ (i + x) % N \in 0 .. N - 1
<1>1. ASSUME NEW a \in 0 .. c - 1, NEW b \in 0 .. c - 1, a < b PROVE (i + a) % N # (i + b) % N
  <2> DEFINE z == i + a
             d == b - a
  <2>1. d \in 1 .. N - 1 /\ z \in Int /\ z + d = i + b
    BY <1>1
  <2> HIDE DEF z, d
  <2>2. (z + d) % N # z % N
    BY <2>1, ModDistinct
  <2>3. QED
    BY <2>1, <2>2 DEF z
<1>2. i + x \in Int
  OBVIOUS
<1>3. (i + x) % N \in 0 .. N - 1
  BY ONLY <1>2, ModSplit, N \in Nat \ {0}
<1>4. x \in Int /\ y \in Int /\ (x < y \/ y < x)
  OBVIOUS
<1>5. CASE x < y
  BY <1>1, <1>3, <1>5
<1>6. CASE y < x
  BY <1>1, <1>3, <1>6
<1>7. QED
  BY <1>4, <1>5, <1>6

-----------------------------------------------------------------------------

Indices == 0 .. UINT - 1
Places == 0 .. INPUT_BUF_SIZE - 1

-----------------------------------------------------------------------------
(* The indices.                                                            *)

LEMMA Sizes ==
  /\ INPUT_BUF_SIZE \in Nat \ {0} /\ UINT \in Nat \ {0} /\ UINT % INPUT_BUF_SIZE = 0
  /\ INPUT_BUF_SIZE < UINT /\ Start \in Indices /\ ERASE \in Nat
  BY ConsoleAssumption DEF Indices

\* Differences, and steps in both directions, without %.
LEMMA Counts ==
  ASSUME NEW a \in Indices, NEW b \in Indices
  PROVE  /\ Count(a, b) = IF b >= a THEN b - a ELSE b - a + UINT
         /\ Count(a, b) \in Indices
         /\ Plus(a, 1) = IF a = UINT - 1 THEN 0 ELSE a + 1
         /\ Plus(a, 1) \in Indices
<1>1. UINT \in Nat \ {0} /\ a \in 0 .. UINT - 1 /\ b \in 0 .. UINT - 1
  BY Sizes DEF Indices
<1>2. /\ (b - a) % UINT = IF b >= a THEN b - a ELSE b - a + UINT
      /\ (a + 1) % UINT = IF a = UINT - 1 THEN 0 ELSE a + 1
  BY <1>1, WrapCases
<1>3. QED
  BY <1>1, <1>2 DEF Count, Plus, Indices

LEMMA StepBack ==
  ASSUME NEW a \in Indices, NEW k \in Indices
  PROVE  /\ Plus(a, -k) = IF a >= k THEN a - k ELSE a - k + UINT
         /\ Plus(a, -k) \in Indices
<1>1. UINT \in Nat \ {0} /\ a \in 0 .. UINT - 1 /\ k \in 0 .. UINT - 1
  BY Sizes DEF Indices
<1>2. (a - k) % UINT = IF a >= k THEN a - k ELSE a - k + UINT
  BY <1>1, WrapCases
<1>3. a + (-k) = a - k
  BY <1>1
<1>4. QED
  BY <1>1, <1>2, <1>3 DEF Plus, Indices

\* The place in the ring is not changed by a wrap of the index.
LEMMA PlaceOf ==
  ASSUME NEW x \in Int
  PROVE  Cell(x % UINT) = x % INPUT_BUF_SIZE
<1> DEFINE k == UINT \div INPUT_BUF_SIZE
<1>1. k \in Int /\ UINT = k * INPUT_BUF_SIZE + (UINT % INPUT_BUF_SIZE)
  BY Sizes, ModSplit
<1> HIDE DEF k
<1>2. UINT = k * INPUT_BUF_SIZE
  BY <1>1, Sizes
<1>3. k \in Nat \ {0}
  <2>1. INPUT_BUF_SIZE > 0 /\ k * INPUT_BUF_SIZE > 0 /\ INPUT_BUF_SIZE \in Nat
    BY <1>2, Sizes
  <2>2. k <= 0 => k * INPUT_BUF_SIZE <= 0
    BY <1>1, <2>1
  <2>3. QED
    BY <1>1, <2>1, <2>2
<1>4. INPUT_BUF_SIZE \in Nat \ {0}
  BY Sizes
<1>5. (x % (k * INPUT_BUF_SIZE)) % INPUT_BUF_SIZE = x % INPUT_BUF_SIZE
  BY ONLY <1>3, <1>4, x \in Int, ModMod
<1>6. QED
  BY <1>2, <1>5 DEF Cell

\* Places counted from an earlier index a of the ring are those counted from b.
LEMMA PlaceFrom ==
  ASSUME NEW a \in Indices, NEW b \in Indices, NEW j \in Int
  PROVE  Cell(Plus(b, j)) = (a + (Count(a, b) + j)) % INPUT_BUF_SIZE
<1>1. a \in Int /\ b \in Int /\ Count(a, b) = (IF b >= a THEN b - a ELSE b - a + UINT)
      /\ INPUT_BUF_SIZE \in Nat \ {0} /\ UINT \in Nat \ {0} /\ UINT % INPUT_BUF_SIZE = 0
  BY Counts, Sizes DEF Indices
<1>2. Cell(Plus(b, j)) = (b + j) % INPUT_BUF_SIZE
  <2>1. b + j \in Int
    BY <1>1
  <2>2. QED
    BY <2>1, PlaceOf DEF Plus
<1>3. CASE b >= a
  <2>1. a + (Count(a, b) + j) = b + j
    BY <1>1, <1>3
  <2>2. QED
    BY <1>2, <2>1
<1>4. CASE b < a
  <2>1. a + (Count(a, b) + j) = (b + j) + UINT /\ b + j \in Int
    BY <1>1, <1>4
  <2>2. ((b + j) + UINT) % INPUT_BUF_SIZE = (b + j) % INPUT_BUF_SIZE
    BY ONLY <1>1, <2>1, WrapSlot
  <2>3. QED
    BY <1>2, <2>1, <2>2
<1>5. QED
  BY <1>1, <1>3, <1>4

\* Indices are equal when nothing lies between them; moving either end by one
\* changes the count by one.
LEMMA CountMoves ==
  ASSUME NEW a \in Indices, NEW b \in Indices
  PROVE  /\ Count(a, b) = 0 <=> a = b
         /\ Count(a, b) + 1 < UINT => Count(a, Plus(b, 1)) = Count(a, b) + 1
         /\ a # b => /\ Count(a, Plus(b, -1)) = Count(a, b) - 1
                     /\ Count(Plus(a, 1), b) = Count(a, b) - 1
         /\ Plus(b, -Count(a, b)) = a
<1>1. UINT \in Nat /\ UINT > 1 /\ a \in Indices /\ b \in Indices
  BY Sizes
<1>2. 1 \in Indices
  BY <1>1 DEF Indices
<1>3. Count(a, b) = (IF b >= a THEN b - a ELSE b - a + UINT) /\ Count(a, b) \in Indices
  BY Counts
<1> DEFINE m == Count(a, b)
           b1 == Plus(b, 1)
           b0 == Plus(b, -1)
           a1 == Plus(a, 1)
           bm == Plus(b, -m)
<1>4. /\ b1 = (IF b = UINT - 1 THEN 0 ELSE b + 1) /\ b1 \in Indices
      /\ a1 = (IF a = UINT - 1 THEN 0 ELSE a + 1) /\ a1 \in Indices
      /\ b0 = (IF b >= 1 THEN b - 1 ELSE b - 1 + UINT) /\ b0 \in Indices
      /\ bm = (IF b >= m THEN b - m ELSE b - m + UINT) /\ bm \in Indices
  BY <1>2, <1>3, Counts, StepBack
<1>5. /\ Count(a, b1) = IF b1 >= a THEN b1 - a ELSE b1 - a + UINT
      /\ Count(a, b0) = IF b0 >= a THEN b0 - a ELSE b0 - a + UINT
      /\ Count(a1, b) = IF b >= a1 THEN b - a1 ELSE b - a1 + UINT
  BY <1>4, Counts
<1> HIDE DEF m, b1, b0, a1, bm
<1>6. m = (IF b >= a THEN b - a ELSE b - a + UINT) /\ m \in Indices
  BY <1>3 DEF m
<1>7. m = 0 <=> a = b
  BY <1>1, <1>6 DEF Indices
<1>8. m + 1 < UINT => Count(a, b1) = m + 1
  BY <1>1, <1>4, <1>5, <1>6 DEF Indices
<1>9. a # b => Count(a, b0) = m - 1
  BY <1>1, <1>4, <1>5, <1>6 DEF Indices
<1>10. a # b => Count(a1, b) = m - 1
  BY <1>1, <1>4, <1>5, <1>6 DEF Indices
<1>11. bm = a
  BY <1>1, <1>4, <1>6 DEF Indices
<1>12. QED
  BY <1>7, <1>8, <1>9, <1>10, <1>11 DEF m, b1, b0, a1, bm
-----------------------------------------------------------------------------
(* What the handler does to the ring.                                      *)

\* ^U takes back everything up to w.
LEMMA ErasesLine ==
  ASSUME TypeOK, RingInv
  PROVE  Erased = Count(w, e) /\ Plus(e, -Erased) = w
<1> DEFINE m == Count(w, e)
           Barrier(k) == (k = m \/ IsBarrier(k + 1)) /\ \A j \in 1 .. k : ~IsBarrier(j)
<1>1. w \in Indices /\ e \in Indices /\ m \in Indices /\ m \in Nat
  BY Counts DEF TypeOK, Indices
<1>2. ASSUME NEW j \in 1 .. m PROVE ~IsBarrier(j)
  <2>1. Cell(Plus(e, -j)) = (w + (m + (-j))) % INPUT_BUF_SIZE
    BY <1>1, PlaceFrom
  <2>2. Cell(Plus(w, (m - j + 1) - 1)) = (w + (Count(w, w) + ((m - j + 1) - 1))) % INPUT_BUF_SIZE
    BY <1>1, PlaceFrom
  <2>3. Count(w, w) = 0
    BY <1>1, CountMoves
  <2>4. w \in Int /\ m \in Int /\ j \in Int
    BY <1>1 DEF Indices
  <2>5. Count(w, w) + ((m - j + 1) - 1) = m + (-j)
    BY <2>3, <2>4
  <2>6. Cell(Plus(e, -j)) = Cell(Plus(w, (m - j + 1) - 1))
    BY <2>1, <2>2, <2>5
  <2>7. m - j + 1 \in 1 .. m
    BY <1>1, <1>2
  <2>8. buf[Cell(Plus(w, (m - j + 1) - 1))] # NL
    BY <2>7 DEF RingInv
  <2>9. QED
    BY <1>2, <2>6, <2>8 DEF IsBarrier
<1>3. m \in 0 .. m /\ Barrier(m)
  BY <1>1, <1>2
<1>4. ASSUME NEW k \in 0 .. m, Barrier(k) PROVE k = m
  <2>1. k # m => k + 1 \in 1 .. m
    BY <1>1
  <2>2. QED
    BY <1>2, <1>4, <2>1
<1>5. Erased = CHOOSE k \in 0 .. m : Barrier(k)
  BY DEF Erased
<1>6. Erased = m
  BY <1>3, <1>4, <1>5
<1>7. QED
  BY <1>1, <1>6, CountMoves

\* The effect of a key: the line is cleared, shortened or extended, or nothing changes.
Clears == e' = w /\ UNCHANGED <<buf, w, pc>>
Shortens == e # w /\ e' = Plus(e, -1) /\ UNCHANGED <<buf, w, pc>>
Extends(c) == /\ Count(r, e) < INPUT_BUF_SIZE
              /\ buf' = [buf EXCEPT ![Cell(e)] = c] /\ e' = Plus(e, 1)
              /\ \/ SendOff(c, e') /\ w' = e' /\ Wakeup
                 \/ ~SendOff(c, e') /\ UNCHANGED <<w, pc>>

LEMMA KeyCases ==
  ASSUME TypeOK, RingInv, consoleintr
  PROVE  /\ UNCHANGED <<r, n, got, killed, wpc, tx_busy, tx, thre>> /\ lock' = Handler /\ hpc' = "echo"
         /\ echo' \in Nat
         /\ \/ Clears \/ Shortens \/ UNCHANGED <<buf, e, w, pc>>
            \/ \E c \in Chars : Extends(c)
<1>1. UNCHANGED <<r, n, got, killed, wpc, tx_busy, tx, thre>> /\ lock' = Handler /\ hpc' = "echo"
  BY DEF consoleintr, writer
<1>2. Erased \in Nat /\ ERASE \in Nat /\ Plus(e, -Erased) = w
  <2>1. w \in Indices /\ e \in Indices
    BY DEF TypeOK, Indices
  <2>2. Count(w, e) \in Nat
    BY <2>1, Counts DEF Indices
  <2>3. QED
    BY <2>2, ErasesLine, Sizes
<1>3. \/ e' = Plus(e, -Erased) /\ echo' = ERASE * Erased /\ UNCHANGED <<buf, w, pc>>
      \/ /\ e' = (IF e # w THEN Plus(e, -1) ELSE e) /\ echo' = (IF e # w THEN ERASE ELSE 0)
         /\ UNCHANGED <<buf, w, pc>>
      \/ \E c \in Chars : /\ NotFull /\ buf' = [buf EXCEPT ![Cell(e)] = c] /\ e' = Plus(e, 1) /\ echo' = 1
                          /\ IF SendOff(c, e') THEN w' = e' /\ Wakeup ELSE UNCHANGED <<w, pc>>
      \/ echo' = 0 /\ UNCHANGED <<buf, e, w, pc>>
  BY DEF consoleintr
<1>4. echo' \in Nat
  BY <1>2, <1>3
<1>5. \/ Clears \/ Shortens \/ UNCHANGED <<buf, e, w, pc>>
      \/ \E c \in Chars : Extends(c)
  BY <1>2, <1>3 DEF Clears, Shortens, Extends, NotFull
<1>6. QED
  BY <1>1, <1>4, <1>5

-----------------------------------------------------------------------------
(* Types, and what each reader may do to the ring.                         *)

\* A read takes a character, or leaves the ring alone.
Takes == r # w /\ r' = Plus(r, 1)

LEMMA ReadCases ==
  ASSUME TypeOK, NEW p \in Readers, reading(p)
  PROVE  /\ UNCHANGED <<buf, w, e, killed, wpc, tx_busy, hpc, echo, tx, thre>>
         /\ Takes \/ r' = r
         /\ lock' \in {Nobody, p} /\ pc' \in [Readers -> {"user", "read", "sleep"}]
         /\ got' \in [Readers -> Seq(Chars)]
         /\ \A q \in Readers : q # p => pc'[q] = pc[q] /\ got'[q] = got[q]
         /\ pc[p] = "read"
<1>1. CASE read_wait(p)
  BY <1>1 DEF read_wait, Return, TypeOK, cons, writer, device
<1>2. CASE read_eof(p)
  BY <1>2 DEF read_eof, NextAfterEof, Takes, Return, TypeOK, writer, device
<1>3. CASE read_char(p)
  <2>1. r \in Nat /\ INPUT_BUF_SIZE \in Nat \ {0}
    BY Sizes DEF TypeOK, Indices
  <2>2. Cell(r) \in Places
    BY <2>1, ModSplit DEF Cell, Places
  <2>3. buf[Cell(r)] \in Chars
    BY <2>2 DEF TypeOK, Places
  <2>4. Append(got[p], buf[Cell(r)]) \in Seq(Chars)
    BY <2>3, AppendProperties DEF TypeOK
  <2>5. got' = [got EXCEPT ![p] = Append(got[p], buf[Cell(r)])]
    BY <1>3 DEF read_char
  <2>6. got' \in [Readers -> Seq(Chars)] /\ \A q \in Readers : q # p => got'[q] = got[q]
    BY <2>4, <2>5 DEF TypeOK
  <2>7. QED
    BY <1>3, <2>6 DEF read_char, Takes, Return, TypeOK, writer, device
<1>4. CASE read_fault(p)
  BY <1>4 DEF read_fault, Takes, Return, TypeOK, writer, device
<1>5. QED
  BY <1>1, <1>2, <1>3, <1>4 DEF reading

LEMMA InitTypeOK == Init => TypeOK
<1> SUFFICES ASSUME Init PROVE TypeOK
  OBVIOUS
<1>1. buf \in [Places -> Chars] /\ {r, w, e} \subseteq Indices
  BY Sizes DEF Init, Chars, Places, Indices
<1>2. <<>> \in Seq(Chars)
  BY EmptySeq
<1>3. QED
  BY <1>1, <1>2 DEF Init, TypeOK, Places, Indices

LEMMA HandlerTypeOK ==
  ASSUME TypeOK, RingInv, FifoInv, handler
  PROVE  TypeOK'
<1>1. CASE uartintr \/ uartintr_tx \/ uartintr_done
  BY <1>1 DEF uartintr, uartintr_tx, uartintr_done, TX_IDLE, TypeOK, cons, reader, writer, device
<1>2. CASE consoleintr
  <2>1. r \in Indices /\ w \in Indices /\ e \in Indices /\ 1 \in Indices
    BY Sizes DEF TypeOK, Indices
  <2>2. e' \in Indices /\ w' \in Indices
    BY <1>2, <2>1, KeyCases, Counts, StepBack DEF Clears, Shortens, Extends
  <2>3. buf' \in [Places -> Chars] /\ pc' \in [Readers -> {"user", "read", "sleep"}]
    BY <1>2, KeyCases DEF Clears, Shortens, Extends, Wakeup, TypeOK, Places
  <2>4. QED
    BY <1>2, <2>1, <2>2, <2>3, KeyCases DEF TypeOK, Places, Indices
<1>3. CASE uartputc_wait
  BY <1>3 DEF uartputc_wait, TypeOK, cons, reader, writer, device
<1>4. CASE uartputc_put
  <2>1. echo' \in Nat /\ tx' \in Nat
    BY <1>4 DEF uartputc_put, FifoInv, TypeOK
  <2>2. QED
    BY <1>4, <2>1 DEF uartputc_put, TypeOK, cons, reader, writer
<1>5. CASE consoleintr_done
  BY <1>5 DEF consoleintr_done, TypeOK, cons, reader, writer, device
<1>6. QED
  BY <1>1, <1>2, <1>3, <1>4, <1>5 DEF handler

LEMMA NextTypeOK == TypeOK /\ IInv /\ [Next]_vars => TypeOK'
<1> SUFFICES ASSUME TypeOK, IInv, [Next]_vars PROVE TypeOK'
  OBVIOUS
<1>1. ASSUME NEW c \in Keys, key(c) PROVE TypeOK'
  BY <1>1 DEF key, TypeOK, cons, reader, writer
<1>2. CASE drain
  BY <1>2 DEF drain, TypeOK, cons, reader, writer
<1>3. CASE handler
  BY <1>3, HandlerTypeOK DEF IInv
<1>4. ASSUME NEW p \in Writers, uartwrite(p) PROVE TypeOK'
  <2>1. wpc' \in [Writers -> {"user", "write", "sleep"}]
    BY <1>4 DEF uartwrite, TypeOK
  <2>2. tx' \in Nat
    BY <1>4 DEF uartwrite, TypeOK
  <2>3. thre' \in BOOLEAN /\ tx_busy' \in BOOLEAN
    BY <1>4 DEF uartwrite, TypeOK
  <2>4. QED
    BY <1>4, <2>1, <2>2, <2>3 DEF uartwrite, TypeOK, cons, reader
<1>5. ASSUME NEW p \in Writers, NEW k \in WriteSizes, consolewrite(p, k) PROVE TypeOK'
  BY <1>5 DEF consolewrite, TypeOK, cons, reader, device
<1>6. ASSUME NEW p \in Readers, reading(p) PROVE TypeOK'
  <2>1. r' \in Indices
    BY <1>6, ReadCases, Counts DEF Takes, TypeOK, Indices
  <2>2. QED
    BY <1>6, <2>1, ReadCases DEF TypeOK, Indices
<1>7. ASSUME NEW p \in Readers, kkill(p) PROVE TypeOK'
  BY <1>7 DEF kkill, TypeOK, cons, writer, device
<1>8. ASSUME NEW p \in Readers, NEW k \in ReadSizes, consoleread(p, k) PROVE TypeOK'
  <2>1. <<>> \in Seq(Chars)
    BY EmptySeq
  <2>2. QED
    BY <1>8, <2>1 DEF consoleread, TypeOK, cons, writer, device
<1>9. CASE UNCHANGED vars
  BY <1>9 DEF vars, TypeOK, cons, reader, writer, device
<1>10. QED
  BY <1>1, <1>2, <1>3, <1>4, <1>5, <1>6, <1>7, <1>8, <1>9 DEF Next

-----------------------------------------------------------------------------
(* The wakeups and the transmitter.                                        *)

Sending == NoLostWakeup /\ FifoBounded /\ FifoInv

LEMMA NextSending == TypeOK /\ IInv /\ [Next]_vars => Sending'
<1> SUFFICES ASSUME TypeOK, IInv, [Next]_vars PROVE Sending'
  OBVIOUS
<1> USE DEF Sending, NoLostWakeup, FifoBounded, FifoInv
<1>1. ASSUME NEW c \in Keys, key(c) PROVE Sending'
  BY <1>1 DEF key, IInv, cons, reader, writer
<1>2. CASE drain
  BY <1>2 DEF drain, IInv, TypeOK, cons, reader, writer
<1>3. CASE uartintr
  BY <1>3 DEF uartintr, IInv, cons, reader, writer
<1>4. CASE uartintr_tx
  BY <1>4 DEF uartintr_tx, wakeup_senders, TX_IDLE, IInv, TypeOK, cons, reader, device
<1>5. CASE uartintr_done
  BY <1>5 DEF uartintr_done, IInv, cons, reader, writer, device
<1>6. CASE consoleintr
  <2>1. /\ UNCHANGED <<r, killed, wpc, tx_busy, tx, thre>> /\ hpc' = "echo"
        /\ hpc = "rx"
        /\ UNCHANGED <<w, pc>> \/ Wakeup
    BY <1>6, KeyCases DEF IInv, Clears, Shortens, Extends, consoleintr
  <2>2. \A p \in Readers : pc'[p] = "sleep" => r' = w' /\ ~killed'[p]
    BY <2>1 DEF IInv, Wakeup, TypeOK
  <2>3. QED
    BY <2>1, <2>2 DEF IInv
<1>7. CASE uartputc_wait
  BY <1>7 DEF uartputc_wait, TX_IDLE, IInv, TypeOK, cons, reader, writer, device
<1>8. CASE uartputc_put
  BY <1>8 DEF uartputc_put, IInv, TypeOK, cons, reader, writer
<1>9. CASE consoleintr_done
  BY <1>9 DEF consoleintr_done, IInv, cons, reader, writer, device
<1>10. ASSUME NEW p \in Writers, uartwrite(p) PROVE Sending'
  BY <1>10 DEF uartwrite, IInv, TypeOK, cons, reader
<1>11. ASSUME NEW p \in Writers, NEW k \in WriteSizes, consolewrite(p, k) PROVE Sending'
  BY <1>11 DEF consolewrite, IInv, TypeOK, cons, reader, device
<1>12. ASSUME NEW p \in Readers, reading(p) PROVE Sending'
  <2>1. /\ UNCHANGED <<w, killed, wpc, tx_busy, hpc, echo, tx, thre>>
        /\ Takes \/ r' = r
        /\ \A q \in Readers : q # p => pc'[q] = pc[q]
    BY <1>12, ReadCases
  <2>2. pc'[p] = "sleep" => r' = w' /\ ~killed'[p]
    BY <1>12 DEF reading, read_wait, read_eof, read_char, read_fault, Return, TypeOK, cons
  <2>3. QED
    BY <2>1, <2>2 DEF IInv, Takes
<1>13. ASSUME NEW p \in Readers, kkill(p) PROVE Sending'
  BY <1>13 DEF kkill, IInv, TypeOK, cons, writer, device
<1>14. ASSUME NEW p \in Readers, NEW k \in ReadSizes, consoleread(p, k) PROVE Sending'
  BY <1>14 DEF consoleread, IInv, TypeOK, cons, writer, device
<1>15. CASE UNCHANGED vars
  BY <1>15 DEF vars, IInv, cons, reader, writer, device
<1>16. QED
  BY <1>1, <1>2, <1>3, <1>4, <1>5, <1>6, <1>7, <1>8, <1>9, <1>10, <1>11, <1>12, <1>13, <1>14, <1>15
     DEF Next, handler

-----------------------------------------------------------------------------
(* The contents of the ring.                                               *)

\* From, without the wrap of the index.
Line(B, a, b) == [k \in 1 .. Count(a, b) |-> B[(a + (k - 1)) % INPUT_BUF_SIZE]]

LEMMA LineOf ==
  ASSUME NEW B \in [Places -> Chars], NEW a \in Indices, NEW b \in Indices
  PROVE  /\ [k \in 1 .. Count(a, b) |-> B[Cell(Plus(a, k - 1))]] = Line(B, a, b)
         /\ Line(B, a, b) \in Seq(Chars) /\ Len(Line(B, a, b)) = Count(a, b)
         /\ Count(a, b) \in Nat
<1>1. Count(a, b) \in Nat /\ Count(a, a) = 0 /\ a \in Int
  BY Counts, CountMoves DEF Indices
<1>2. ASSUME NEW k \in 1 .. Count(a, b)
      PROVE  /\ Cell(Plus(a, k - 1)) = (a + (k - 1)) % INPUT_BUF_SIZE
             /\ (a + (k - 1)) % INPUT_BUF_SIZE \in Places
  <2>1. k - 1 \in Int /\ Count(a, a) + (k - 1) = k - 1 /\ a + (k - 1) \in Int
    BY <1>1
  <2>2. Cell(Plus(a, k - 1)) = (a + (Count(a, a) + (k - 1))) % INPUT_BUF_SIZE
    BY <2>1, PlaceFrom
  <2>3. (a + (k - 1)) % INPUT_BUF_SIZE \in Places
    BY <2>1, Sizes, ModSplit DEF Places
  <2>4. QED
    BY <2>1, <2>2, <2>3
<1>3. Line(B, a, b) \in [1 .. Count(a, b) -> Chars]
  BY <1>2 DEF Line
<1>4. QED
  BY <1>1, <1>2, <1>3 DEF Line

\* The place of the next character is none of those in use.
LEMMA NextPlace ==
  ASSUME NEW a \in Indices, NEW b \in Indices, Count(a, b) < INPUT_BUF_SIZE
  PROVE  /\ Cell(b) \in Places
         /\ Cell(b) = (a + Count(a, b)) % INPUT_BUF_SIZE
         /\ \A i \in 0 .. Count(a, b) - 1 : (a + i) % INPUT_BUF_SIZE # Cell(b)
<1> DEFINE m == Count(a, b)
<1>1. m \in Nat /\ a \in Int /\ b \in Int /\ INPUT_BUF_SIZE \in Nat \ {0} /\ m < INPUT_BUF_SIZE
  BY Counts, Sizes DEF Indices
<1>2. Cell(b) \in Places
  BY <1>1, ModSplit DEF Cell, Places
<1>3. Plus(b, 0) = b
  BY Sizes, ModSmall DEF Plus, Indices
<1>4. Cell(Plus(b, 0)) = (a + (m + 0)) % INPUT_BUF_SIZE
  BY PlaceFrom
<1> HIDE DEF m
<1>5. Cell(b) = (a + m) % INPUT_BUF_SIZE
  BY <1>1, <1>3, <1>4
<1>6. ASSUME NEW i \in 0 .. m - 1 PROVE (a + i) % INPUT_BUF_SIZE # (a + m) % INPUT_BUF_SIZE
  <2>1. m + 1 \in 0 .. INPUT_BUF_SIZE /\ i \in 0 .. (m + 1) - 1 /\ m \in 0 .. (m + 1) - 1 /\ i # m
    BY <1>1
  <2>2. QED
    BY ONLY <1>1, <2>1, RingSlots
<1>7. QED
  BY <1>2, <1>5, <1>6 DEF m

\* The ring of indices r, w, e with contents B.
Ring(B, x, y, z) == /\ Count(x, z) = Count(x, y) + Count(y, z)
                    /\ Count(x, z) <= INPUT_BUF_SIZE
                    /\ \A k \in 1 .. Count(y, z) : Line(B, y, z)[k] # NL

LEMMA RingOf ==
  ASSUME NEW B \in [Places -> Chars], NEW x \in Indices, NEW y \in Indices, NEW z \in Indices
  PROVE  Ring(B, x, y, z) <=> /\ Count(x, z) = Count(x, y) + Count(y, z)
                              /\ Count(x, z) <= INPUT_BUF_SIZE
                              /\ \A k \in 1 .. Count(y, z) : B[Cell(Plus(y, k - 1))] # NL
<1>1. \A k \in 1 .. Count(y, z) : Line(B, y, z)[k] = B[Cell(Plus(y, k - 1))]
  <2> DEFINE f == [k \in 1 .. Count(y, z) |-> B[Cell(Plus(y, k - 1))]]
  <2>1. f = Line(B, y, z)
    BY LineOf
  <2>2. \A k \in 1 .. Count(y, z) : f[k] = B[Cell(Plus(y, k - 1))]
    OBVIOUS
  <2>3. QED
    BY <2>1, <2>2
<1>2. QED
  BY <1>1 DEF Ring

\* Places of the editable part, counted from r.
LEMMA EditPlace ==
  ASSUME NEW x \in Indices, NEW y \in Indices, NEW i \in Nat
  PROVE  (y + i) % INPUT_BUF_SIZE = (x + (Count(x, y) + i)) % INPUT_BUF_SIZE
<1>1. y \in Int /\ Count(y, y) = 0 /\ i \in Int
  BY CountMoves DEF Indices
<1>2. Cell(Plus(y, i)) = (x + (Count(x, y) + i)) % INPUT_BUF_SIZE
  BY <1>1, PlaceFrom
<1>3. Cell(Plus(y, i)) = (y + (Count(y, y) + i)) % INPUT_BUF_SIZE
  BY <1>1, PlaceFrom
<1>4. Count(y, y) + i = i
  BY <1>1
<1>5. QED
  BY <1>2, <1>3, <1>4

\* A character is added: nothing in use is overwritten.
LEMMA AddPlace ==
  ASSUME NEW B \in [Places -> Chars], NEW x \in Indices, NEW y \in Indices, NEW z \in Indices,
         NEW c \in Chars, Ring(B, x, y, z), Count(x, z) < INPUT_BUF_SIZE,
         NEW D \in [Places -> Chars], D[Cell(z)] = c, \A i \in Places : i # Cell(z) => D[i] = B[i],
         NEW z1, z1 = Plus(z, 1)
  PROVE  /\ z1 \in Indices /\ Count(x, z1) = Count(x, z) + 1 /\ Count(y, z1) = Count(y, z) + 1
         /\ \A i \in 0 .. Count(x, z) : D[(x + i) % INPUT_BUF_SIZE] =
                IF i = Count(x, z) THEN c ELSE B[(x + i) % INPUT_BUF_SIZE]
         /\ \A i \in 0 .. Count(y, z) : D[(y + i) % INPUT_BUF_SIZE] =
                IF i = Count(y, z) THEN c ELSE B[(y + i) % INPUT_BUF_SIZE]
<1> DEFINE q == Count(x, y)
           m == Count(y, z)
           t == Count(x, z)
<1>1. q \in Nat /\ m \in Nat /\ t \in Nat /\ t = q + m /\ t < INPUT_BUF_SIZE
      /\ INPUT_BUF_SIZE \in Nat \ {0} /\ UINT \in Nat /\ INPUT_BUF_SIZE < UINT /\ x \in Int
  BY Counts, Sizes DEF Ring, Indices
<1>2. z1 \in Indices /\ Count(x, z1) = t + 1 /\ Count(y, z1) = m + 1
  BY <1>1, Counts, CountMoves
<1>3. Cell(z) \in Places /\ Cell(z) = (x + t) % INPUT_BUF_SIZE
      /\ \A i \in 0 .. t - 1 : (x + i) % INPUT_BUF_SIZE # Cell(z)
  BY NextPlace
<1>4. \A i \in Nat : (y + i) % INPUT_BUF_SIZE = (x + (q + i)) % INPUT_BUF_SIZE
  BY EditPlace
<1> HIDE DEF q, m, t
<1>5. ASSUME NEW i \in 0 .. t
      PROVE  D[(x + i) % INPUT_BUF_SIZE] = IF i = t THEN c ELSE B[(x + i) % INPUT_BUF_SIZE]
  <2>1. (x + i) % INPUT_BUF_SIZE \in Places
    <3>1. x + i \in Int
      BY <1>1
    <3>2. QED
      BY <1>1, <3>1, ModSplit DEF Places
  <2>2. i # t => i \in 0 .. t - 1
    BY <1>1
  <2>3. QED
    BY <1>3, <2>1, <2>2
<1>6. ASSUME NEW i \in 0 .. m
      PROVE  D[(y + i) % INPUT_BUF_SIZE] = IF i = m THEN c ELSE B[(y + i) % INPUT_BUF_SIZE]
  <2>1. i \in Nat /\ q + i \in 0 .. t /\ (q + i = t <=> i = m)
    BY <1>1
  <2>2. QED
    BY <1>4, <1>5, <2>1
<1>7. QED
  BY <1>2, <1>5, <1>6 DEF q, m, t

LEMMA AddChar ==
  ASSUME NEW B \in [Places -> Chars], NEW x \in Indices, NEW y \in Indices, NEW z \in Indices,
         NEW c \in Chars, Ring(B, x, y, z), Count(x, z) < INPUT_BUF_SIZE,
         NEW D \in [Places -> Chars], D[Cell(z)] = c, \A i \in Places : i # Cell(z) => D[i] = B[i],
         NEW z1, z1 = Plus(z, 1)
  PROVE  /\ z1 \in Indices
         /\ Count(x, z1) = Count(x, z) + 1 /\ Count(y, z1) = Count(y, z) + 1
         /\ Line(D, x, y) = Line(B, x, y)
         /\ Line(D, y, z1) = Append(Line(B, y, z), c)
<1> DEFINE q == Count(x, y)
           m == Count(y, z)
           t == Count(x, z)
           L == Line(B, y, z)
<1>1. q \in Nat /\ m \in Nat /\ t \in Nat /\ t = q + m
  BY Counts DEF Ring, Indices
<1>2. /\ z1 \in Indices /\ Count(x, z1) = t + 1 /\ Count(y, z1) = m + 1
      /\ \A i \in 0 .. t : D[(x + i) % INPUT_BUF_SIZE] = IF i = t THEN c ELSE B[(x + i) % INPUT_BUF_SIZE]
      /\ \A i \in 0 .. m : D[(y + i) % INPUT_BUF_SIZE] = IF i = m THEN c ELSE B[(y + i) % INPUT_BUF_SIZE]
  BY AddPlace
<1>3. L \in Seq(Chars) /\ Len(L) = m
  BY LineOf
<1>4. \A k \in 1 .. m : L[k] = B[(y + (k - 1)) % INPUT_BUF_SIZE]
  BY DEF Line
<1> HIDE DEF q, m, t, L
<1>5. Append(L, c) = [k \in 1 .. m + 1 |-> IF k = m + 1 THEN c ELSE L[k]]
  BY <1>3, AppendIsFunction
<1>6. Line(D, x, y) = Line(B, x, y)
  <2>1. ASSUME NEW k \in 1 .. q
        PROVE  D[(x + (k - 1)) % INPUT_BUF_SIZE] = B[(x + (k - 1)) % INPUT_BUF_SIZE]
    <3>1. k - 1 \in 0 .. t /\ k - 1 # t
      BY <1>1
    <3>2. QED
      BY <1>2, <3>1
  <2>2. QED
    BY <2>1 DEF Line, q
<1>7. Line(D, y, z1) = Append(L, c)
  <2>1. ASSUME NEW k \in 1 .. m + 1
        PROVE  D[(y + (k - 1)) % INPUT_BUF_SIZE] = IF k = m + 1 THEN c ELSE L[k]
    <3>1. k - 1 \in 0 .. m /\ (k - 1 = m <=> k = m + 1) /\ (k # m + 1 => k \in 1 .. m)
      BY <1>1
    <3>2. QED
      BY <1>2, <1>4, <3>1
  <2>2. Line(D, y, z1) = [k \in 1 .. m + 1 |-> D[(y + (k - 1)) % INPUT_BUF_SIZE]]
    BY <1>2 DEF Line
  <2>3. QED
    BY <1>5, <2>1, <2>2
<1>8. QED
  BY <1>2, <1>6, <1>7 DEF q, m, t, L

\* The line with the new character is sent off.
LEMMA SendLine ==
  ASSUME NEW B \in [Places -> Chars], NEW x \in Indices, NEW y \in Indices, NEW z \in Indices,
         NEW c \in Chars, Ring(B, x, y, z), Count(x, z) < INPUT_BUF_SIZE,
         NEW D \in [Places -> Chars], D[Cell(z)] = c, \A i \in Places : i # Cell(z) => D[i] = B[i],
         NEW z1, z1 = Plus(z, 1)
  PROVE  Line(D, x, z1) = Line(B, x, y) \o Append(Line(B, y, z), c)
<1> DEFINE q == Count(x, y)
           m == Count(y, z)
           Q == Line(D, x, y)
           A == Line(D, y, z1)
           S == Q \o A
<1>1. q \in Nat /\ m \in Nat /\ Count(x, z) = q + m
  BY Counts DEF Ring, Indices
<1>2. z1 \in Indices /\ Count(x, z1) = q + (m + 1) /\ Count(y, z1) = m + 1
  BY <1>1, AddChar
<1>3. Q = Line(B, x, y) /\ A = Append(Line(B, y, z), c)
  BY AddChar
<1>4. Q \in Seq(Chars) /\ Len(Q) = q /\ A \in Seq(Chars) /\ Len(A) = m + 1
  BY <1>2, LineOf
<1>5. /\ \A k \in 1 .. q : Q[k] = D[(x + (k - 1)) % INPUT_BUF_SIZE]
      /\ \A k \in 1 .. m + 1 : A[k] = D[(y + (k - 1)) % INPUT_BUF_SIZE]
  BY <1>2 DEF Line
<1> HIDE DEF Q, A
<1>6. S \in Seq(Chars) /\ Len(S) = Len(Q) + Len(A)
      /\ \A k \in 1 .. Len(Q) + Len(A) : S[k] = IF k <= Len(Q) THEN Q[k] ELSE A[k - Len(Q)]
  BY <1>4, ConcatProperties
<1>7. \A i \in Nat : (y + i) % INPUT_BUF_SIZE = (x + (q + i)) % INPUT_BUF_SIZE
  BY EditPlace
<1>8. Line(D, x, z1) = [k \in 1 .. q + (m + 1) |-> D[(x + (k - 1)) % INPUT_BUF_SIZE]]
  BY <1>2 DEF Line
<1> HIDE DEF S, q, m
<1>9. ASSUME NEW k \in 1 .. q + (m + 1) PROVE D[(x + (k - 1)) % INPUT_BUF_SIZE] = S[k]
  <2>1. CASE k <= q
    BY <1>1, <1>4, <1>5, <1>6, <2>1
  <2>2. CASE k > q
    <3>1. k - q \in 1 .. m + 1 /\ ~(k <= q) /\ (k - q) - 1 \in Nat /\ q + ((k - q) - 1) = k - 1
      BY <1>1, <2>2
    <3>2. S[k] = A[k - q]
      BY <1>4, <1>6, <3>1
    <3>3. A[k - q] = D[(y + ((k - q) - 1)) % INPUT_BUF_SIZE]
      BY <1>5, <3>1
    <3>4. (y + ((k - q) - 1)) % INPUT_BUF_SIZE = (x + (k - 1)) % INPUT_BUF_SIZE
      BY <1>7, <3>1
    <3>5. QED
      BY <3>2, <3>3, <3>4
  <2>3. QED
    BY <1>1, <2>1, <2>2
<1>10. S \in [1 .. q + (m + 1) -> Chars]
  BY <1>4, <1>6, LenProperties
<1>11. Line(D, x, z1) = S
  BY <1>8, <1>9, <1>10
<1>12. QED
  BY <1>3, <1>11 DEF S

\* The last character is taken back.
LEMMA DropChar ==
  ASSUME NEW B \in [Places -> Chars], NEW y \in Indices, NEW z \in Indices, y # z
  PROVE  LET L == Line(B, y, z)
         IN  /\ Plus(z, -1) \in Indices /\ Count(y, Plus(z, -1)) = Count(y, z) - 1
             /\ L # <<>> /\ Line(B, y, Plus(z, -1)) = SubSeq(L, 1, Len(L) - 1)
<1> DEFINE L == Line(B, y, z)
           m == Count(y, z)
           z0 == Plus(z, -1)
<1>1. m \in Nat /\ m # 0 /\ z0 \in Indices /\ Count(y, z0) = m - 1
  <2>1. 1 \in Indices
    BY Sizes DEF Indices
  <2>2. QED
    BY <2>1, Counts, CountMoves, StepBack DEF Indices
<1>2. L \in Seq(Chars) /\ Len(L) = m
  BY LineOf
<1>3. \A k \in 1 .. m : L[k] = B[(y + (k - 1)) % INPUT_BUF_SIZE]
  BY DEF Line
<1>4. Line(B, y, z0) = [k \in 1 .. m - 1 |-> B[(y + (k - 1)) % INPUT_BUF_SIZE]]
  BY <1>1 DEF Line
<1> HIDE DEF L, m, z0
<1>5. \A k \in 1 .. m - 1 : L[k] \in Chars
  BY <1>1, <1>2
<1> DEFINE S == SubSeq(L, 1, m - 1)
<1>6. S \in Seq(Chars) /\ Len(S) = m - 1 /\ \A k \in 1 .. m - 1 : S[k] = L[k]
  <2>1. m - 1 \in Int /\ 1 \in Int /\ (m - 1) - 1 + 1 = m - 1
    BY <1>1
  <2>2. S \in Seq(Chars) /\ Len(S) = (IF 1 <= m - 1 THEN (m - 1) - 1 + 1 ELSE 0)
        /\ \A k \in 1 .. (m - 1) - 1 + 1 : S[k] = L[1 + k - 1]
    BY <1>5, <2>1, SubSeqProperties
  <2>3. \A k \in 1 .. m - 1 : 1 + k - 1 = k
    OBVIOUS
  <2>4. QED
    BY <1>1, <2>1, <2>2, <2>3
<1> HIDE DEF S
<1>7. S = [k \in 1 .. m - 1 |-> L[k]]
  BY <1>6, LenProperties
<1>8. Line(B, y, z0) = S
  <2>1. \A k \in 1 .. m - 1 : L[k] = B[(y + (k - 1)) % INPUT_BUF_SIZE]
    BY <1>1, <1>3
  <2>2. QED
    BY <1>4, <1>7, <2>1
<1>9. L # <<>>
  BY <1>1, <1>2
<1>10. QED
  BY <1>1, <1>2, <1>8, <1>9 DEF S, L, m, z0

\* The first character is taken.
LEMMA TakeChar ==
  ASSUME NEW B \in [Places -> Chars], NEW x \in Indices, NEW y \in Indices, x # y
  PROVE  LET L == Line(B, x, y)
         IN  /\ Plus(x, 1) \in Indices /\ Count(Plus(x, 1), y) = Count(x, y) - 1
             /\ L # <<>> /\ Head(L) = B[Cell(x)] /\ Line(B, Plus(x, 1), y) = Tail(L)
<1> DEFINE L == Line(B, x, y)
           m == Count(x, y)
           x1 == Plus(x, 1)
<1>1. m \in Nat /\ m # 0 /\ x1 \in Indices /\ Count(x1, y) = m - 1 /\ x \in Nat /\ x < UINT
  BY Counts, CountMoves, Sizes DEF Indices
<1>2. L \in Seq(Chars) /\ Len(L) = m
  BY LineOf
<1>3. \A k \in 1 .. m : L[k] = B[(x + (k - 1)) % INPUT_BUF_SIZE]
  BY DEF Line
<1>4. Line(B, x1, y) = [k \in 1 .. m - 1 |-> B[(x1 + (k - 1)) % INPUT_BUF_SIZE]]
  BY <1>1 DEF Line
<1>5. ASSUME NEW k \in 1 .. m - 1
      PROVE  (x1 + (k - 1)) % INPUT_BUF_SIZE = (x + ((k + 1) - 1)) % INPUT_BUF_SIZE
  <2>1. k - 1 \in Nat /\ (k - 1) + 1 = (k + 1) - 1 /\ 1 + (k - 1) = (k + 1) - 1
    OBVIOUS
  <2>2. Count(x, x) = 0 /\ 0 + 1 < UINT
    BY Sizes, CountMoves
  <2>3. Count(x, x1) = 1
    BY <2>2, CountMoves
  <2> DEFINE j == k - 1
  <2> HIDE DEF j, x1
  <2>4. (x1 + j) % INPUT_BUF_SIZE = (x + (Count(x, x1) + j)) % INPUT_BUF_SIZE
    BY <1>1, <2>1, EditPlace DEF j
  <2>5. QED
    BY <2>1, <2>3, <2>4 DEF j
<1> HIDE DEF L, m, x1
<1>6. L # <<>>
  BY <1>1, <1>2
<1>7. Tail(L) = [k \in 1 .. m - 1 |-> L[k + 1]]
  BY <1>2, <1>6, TailIsFunction
<1>8. \A k \in 1 .. m - 1 : L[k + 1] = B[(x1 + (k - 1)) % INPUT_BUF_SIZE]
  BY <1>1, <1>3, <1>5
<1>9. Head(L) = B[Cell(x)]
  <2>1. 1 \in 1 .. m /\ x + (1 - 1) = x /\ Head(L) = L[1]
    BY <1>1, <1>2, <1>6
  <2>2. QED
    BY <1>3, <2>1 DEF Cell
<1>10. QED
  BY <1>1, <1>4, <1>6, <1>7, <1>8, <1>9 DEF L, m, x1

-----------------------------------------------------------------------------
(* The ring and the line being read.                                       *)

LEMMA RingHere == TypeOK => (RingInv <=> Ring(buf, r, w, e))
<1> SUFFICES ASSUME TypeOK PROVE RingInv <=> Ring(buf, r, w, e)
  OBVIOUS
<1>1. buf \in [Places -> Chars] /\ r \in Indices /\ w \in Indices /\ e \in Indices
  BY DEF TypeOK, Places, Indices
<1>2. QED
  BY <1>1, RingOf DEF RingInv

LEMMA RingNext ==
  ASSUME NEW B \in [Places -> Chars], NEW x \in Indices, NEW y \in Indices, NEW z \in Indices,
         Ring(B, x, y, z)
  PROVE  /\ Ring(B, x, y, y)
         /\ y # z => Ring(B, x, y, Plus(z, -1))
         /\ x # y => Ring(B, Plus(x, 1), y, z)
<1>1. Count(x, y) \in Nat /\ Count(y, z) \in Nat /\ Count(x, z) \in Nat /\ INPUT_BUF_SIZE \in Nat
      /\ Count(x, z) = Count(x, y) + Count(y, z) /\ Count(x, z) <= INPUT_BUF_SIZE
  BY Counts, Sizes DEF Ring, Indices
<1>2. Ring(B, x, y, y)
  <2>1. Count(y, y) = 0
    BY CountMoves
  <2>2. QED
    BY <1>1, <2>1 DEF Ring
<1>3. ASSUME y # z PROVE Ring(B, x, y, Plus(z, -1))
  <2> DEFINE z0 == Plus(z, -1)
  <2>1. z0 \in Indices /\ Count(y, z0) = Count(y, z) - 1
    BY <1>3, DropChar
  <2>2. Count(y, z) # 0
    BY <1>3, CountMoves
  <2>3. x # z
    BY <1>1, <2>2, CountMoves
  <2>4. Count(x, z0) = Count(x, z) - 1
    BY <2>3, CountMoves
  <2>5. \A k \in 1 .. Count(y, z0) : k \in 1 .. Count(y, z) /\ Line(B, y, z0)[k] = Line(B, y, z)[k]
    BY <1>1, <2>1 DEF Line
  <2>6. QED
    BY <1>1, <2>1, <2>4, <2>5 DEF Ring
<1>4. ASSUME x # y PROVE Ring(B, Plus(x, 1), y, z)
  <2>1. Count(Plus(x, 1), y) = Count(x, y) - 1 /\ Count(x, y) # 0
    BY <1>4, CountMoves
  <2>2. x # z
    BY <1>1, <2>1, CountMoves
  <2>3. Count(Plus(x, 1), z) = Count(x, z) - 1
    BY <2>2, CountMoves
  <2>4. QED
    BY <1>1, <2>1, <2>3 DEF Ring
<1>5. QED
  BY <1>2, <1>3, <1>4

LEMMA RingExtended ==
  ASSUME NEW B \in [Places -> Chars], NEW x \in Indices, NEW y \in Indices, NEW z \in Indices,
         NEW c \in Chars, Ring(B, x, y, z), Count(x, z) < INPUT_BUF_SIZE,
         NEW D \in [Places -> Chars], D[Cell(z)] = c, \A i \in Places : i # Cell(z) => D[i] = B[i],
         NEW z1, z1 = Plus(z, 1)
  PROVE  /\ Ring(D, x, z1, z1)
         /\ c # NL => Ring(D, x, y, z1)
<1> DEFINE L == Line(B, y, z)
<1>1. /\ z1 \in Indices /\ Count(x, z1) = Count(x, z) + 1 /\ Count(y, z1) = Count(y, z) + 1
      /\ Line(D, y, z1) = Append(L, c)
  BY AddChar
<1>2. Count(x, y) \in Nat /\ Count(y, z) \in Nat /\ Count(x, z) \in Nat /\ INPUT_BUF_SIZE \in Nat
      /\ Count(x, z) = Count(x, y) + Count(y, z)
  BY Counts, Sizes DEF Ring, Indices
<1>3. Count(z1, z1) = 0
  BY <1>1, CountMoves
<1>4. L \in Seq(Chars) /\ Len(L) = Count(y, z)
  BY LineOf
<1>5. Append(L, c) = [k \in 1 .. Count(y, z) + 1 |-> IF k = Count(y, z) + 1 THEN c ELSE L[k]]
  BY <1>4, AppendIsFunction
<1>6. \A k \in 1 .. Count(y, z) : L[k] # NL
  BY DEF Ring
<1> HIDE DEF L
<1>7. Ring(D, x, z1, z1)
  BY <1>1, <1>2, <1>3 DEF Ring
<1>8. ASSUME c # NL PROVE Ring(D, x, y, z1)
  <2>1. \A k \in 1 .. Count(y, z) + 1 : Append(L, c)[k] # NL
    BY <1>2, <1>5, <1>6, <1>8
  <2>2. \A k \in 1 .. Count(y, z1) : Line(D, y, z1)[k] # NL
    BY <1>1, <2>1
  <2>3. Count(x, z1) = Count(x, y) + Count(y, z1) /\ Count(x, z1) <= INPUT_BUF_SIZE
    BY <1>1, <1>2
  <2>4. QED
    BY <2>2, <2>3 DEF Ring
<1>9. QED
  BY <1>7, <1>8

\* The ring changes only by keys and by reads.
LEMMA RingSteps ==
  ASSUME [Next]_vars
  PROVE  \/ UNCHANGED cons /\ \/ UNCHANGED <<pc, got>>
                              \/ \E p \in Readers : kkill(p) \/ \E k \in ReadSizes : consoleread(p, k)
         \/ consoleintr
         \/ \E p \in Readers : reading(p)
<1>1. ASSUME NEW c \in Keys, key(c) PROVE UNCHANGED <<cons, pc, got>>
  BY <1>1 DEF key, reader
<1>2. CASE drain
  BY <1>2 DEF drain, reader
<1>3. CASE uartintr \/ uartintr_tx \/ uartintr_done \/ uartputc_wait \/ uartputc_put \/ consoleintr_done
  BY <1>3 DEF uartintr, uartintr_tx, uartintr_done, uartputc_wait, uartputc_put, consoleintr_done, reader
<1>4. ASSUME NEW p \in Writers, uartwrite(p) PROVE UNCHANGED <<cons, pc, got>>
  BY <1>4 DEF uartwrite, reader
<1>5. ASSUME NEW p \in Writers, NEW k \in WriteSizes, consolewrite(p, k) PROVE UNCHANGED <<cons, pc, got>>
  BY <1>5 DEF consolewrite, reader
<1>6. ASSUME NEW p \in Readers, kkill(p) PROVE UNCHANGED cons
  BY <1>6 DEF kkill
<1>7. ASSUME NEW p \in Readers, NEW k \in ReadSizes, consoleread(p, k) PROVE UNCHANGED cons
  BY <1>7 DEF consoleread
<1>8. CASE UNCHANGED vars
  BY <1>8 DEF vars, reader
<1>9. QED
  BY <1>1, <1>2, <1>3, <1>4, <1>5, <1>6, <1>7, <1>8 DEF Next, handler

\* What Extends does to the contents.
LEMMA ExtendedBuf ==
  ASSUME TypeOK, NEW c \in Chars, Extends(c)
  PROVE  /\ buf' \in [Places -> Chars] /\ buf'[Cell(e)] = c
         /\ \A i \in Places : i # Cell(e) => buf'[i] = buf[i]
<1>1. r \in Indices /\ e \in Indices /\ buf \in [Places -> Chars]
  BY DEF TypeOK, Indices, Places
<1>2. Cell(e) \in Places
  BY <1>1, NextPlace DEF Extends
<1>3. QED
  BY <1>1, <1>2 DEF Extends

LEMMA NextRing == TypeOK /\ IInv /\ TypeOK' /\ [Next]_vars => RingInv'
<1> SUFFICES ASSUME TypeOK, IInv, TypeOK', [Next]_vars PROVE RingInv'
  OBVIOUS
<1>1. buf \in [Places -> Chars] /\ r \in Indices /\ w \in Indices /\ e \in Indices
  BY DEF TypeOK, Places, Indices
<1>2. buf' \in [Places -> Chars] /\ r' \in Indices /\ w' \in Indices /\ e' \in Indices
  BY DEF TypeOK, Places, Indices
<1>3. Ring(buf, r, w, e)
  BY RingHere DEF IInv
<1>4. SUFFICES Ring(buf', r', w', e')
  BY <1>2, RingOf DEF RingInv
<1>5. CASE UNCHANGED cons
  BY <1>3, <1>5 DEF cons
<1>6. CASE consoleintr
  <2>1. RingInv /\ r' = r
    BY <1>6, KeyCases DEF IInv
  <2>2. CASE Clears
    BY <1>1, <1>3, <2>1, <2>2, RingNext DEF Clears
  <2>3. CASE Shortens
    BY <1>1, <1>3, <2>1, <2>3, RingNext DEF Shortens
  <2>4. CASE UNCHANGED <<buf, e, w, pc>>
    BY <1>3, <2>1, <2>4
  <2>5. ASSUME NEW c \in Chars, Extends(c) PROVE Ring(buf', r', w', e')
    <3>1. Ring(buf', r, e', e') /\ (c # NL => Ring(buf', r, w, e'))
      BY <1>1, <1>3, <2>5, ExtendedBuf, RingExtended DEF Extends
    <3>2. QED
      BY <2>1, <2>5, <3>1 DEF Extends, SendOff
  <2>6. QED
    BY <1>6, <2>1, <2>2, <2>3, <2>4, <2>5, KeyCases
<1>7. ASSUME NEW p \in Readers, reading(p) PROVE Ring(buf', r', w', e')
  BY <1>1, <1>3, <1>7, ReadCases, RingNext DEF Takes
<1>8. QED
  BY <1>5, <1>6, <1>7, RingSteps

LEMMA NextLine == TypeOK /\ IInv /\ [Next]_vars => LineInv'
<1> SUFFICES ASSUME TypeOK, IInv, [Next]_vars PROVE LineInv'
  OBVIOUS
<1>1. CASE UNCHANGED <<pc, got>>
  BY <1>1 DEF IInv, LineInv
<1>2. ASSUME NEW p \in Readers, kkill(p) PROVE LineInv'
  BY <1>2 DEF kkill, IInv, LineInv, TypeOK
<1>3. ASSUME NEW p \in Readers, NEW k \in ReadSizes, consoleread(p, k) PROVE LineInv'
  BY <1>3 DEF consoleread, IInv, LineInv, TypeOK
<1>4. CASE consoleintr
  <2>1. UNCHANGED got /\ (UNCHANGED pc \/ Wakeup)
    BY <1>4, KeyCases DEF IInv, Clears, Shortens, Extends
  <2>2. QED
    BY <2>1 DEF Wakeup, IInv, LineInv, TypeOK
<1>5. ASSUME NEW p \in Readers, reading(p) PROVE LineInv'
  <2>1. \A q \in Readers : q # p => pc'[q] = pc[q] /\ got'[q] = got[q]
    BY <1>5, ReadCases
  <2>2. pc[p] = "read" /\ \A k \in DOMAIN got[p] : got[p][k] # NL
    BY <1>5, ReadCases DEF IInv, LineInv
  <2>3. ASSUME pc'[p] # "user" PROVE \A k \in DOMAIN got'[p] : got'[p][k] # NL
    <3>1. CASE read_wait(p)
      BY <2>2, <3>1 DEF read_wait
    <3>2. CASE read_eof(p) \/ read_fault(p)
      BY <2>2, <3>2 DEF read_eof, read_fault
    <3>3. CASE read_char(p)
      <4> DEFINE s == got[p]
                 c == buf[Cell(r)]
      <4>1. c # NL /\ got'[p] = Append(s, c)
        BY <2>3, <3>3 DEF read_char, Return, TypeOK
      <4>2. s \in Seq(Chars) /\ c \in Chars
        <5>1. r \in Nat /\ INPUT_BUF_SIZE \in Nat \ {0}
          BY Sizes DEF TypeOK, Indices
        <5>2. Cell(r) \in Places
          BY <5>1, ModSplit DEF Cell, Places
        <5>3. QED
          BY <5>2 DEF TypeOK, Places
      <4> HIDE DEF s, c
      <4>3. Append(s, c) = [k \in 1 .. Len(s) + 1 |-> IF k = Len(s) + 1 THEN c ELSE s[k]]
        BY <4>2, AppendIsFunction
      <4>4. \A k \in 1 .. Len(s) : s[k] # NL
        BY <2>2, <4>2 DEF s
      <4>5. \A k \in 1 .. Len(s) + 1 : k # Len(s) + 1 => k \in 1 .. Len(s)
        BY <4>2
      <4>6. QED
        BY <4>1, <4>3, <4>4, <4>5
    <3>4. QED
      BY <1>5, <3>1, <3>2, <3>3 DEF reading
  <2>4. QED
    BY <2>1, <2>3 DEF IInv, LineInv
<1>6. QED
  BY <1>1, <1>2, <1>3, <1>4, <1>5, RingSteps

LEMMA InitIInv == Init => IInv
<1> SUFFICES ASSUME Init PROVE IInv
  OBVIOUS
<1>1. Count(Start, Start) = 0 /\ INPUT_BUF_SIZE \in Nat
  BY Sizes, CountMoves
<1>2. RingInv
  BY <1>1 DEF Init, RingInv
<1>3. QED
  BY <1>2 DEF Init, IInv, NoLostWakeup, FifoBounded, FifoInv, LineInv

\* Nobody sleeps for an event that has passed, and the transmit FIFO holds at most
\* a byte of write() and a byte of echo, for any number of readers and writers.
THEOREM ConsoleSafe == Spec => []ConsoleInv
<1>1. Init => ConsoleInv
  BY InitTypeOK, InitIInv DEF ConsoleInv
<1>2. ConsoleInv /\ [Next]_vars => ConsoleInv'
  <2> SUFFICES ASSUME TypeOK, IInv, [Next]_vars PROVE TypeOK' /\ IInv'
    BY DEF ConsoleInv
  <2>1. TypeOK'
    BY NextTypeOK
  <2>2. QED
    BY <2>1, NextSending, NextRing, NextLine DEF IInv, Sending
<1>3. QED
  BY <1>1, <1>2, PTL DEF Spec

-----------------------------------------------------------------------------
(* The ring implements Tty.                                                *)

ttyvars == <<From(w, e), From(r, w), got>>

\* A step that leaves the ring alone is a step of the reader's program, or none.
LEMMA QuietSteps ==
  ASSUME TypeOK, UNCHANGED cons,
         \/ UNCHANGED <<pc, got>>
         \/ \E p \in Readers : kkill(p) \/ \E k \in ReadSizes : consoleread(p, k)
  PROVE  [Abstract!Next]_ttyvars
<1>1. UNCHANGED <<From(w, e), From(r, w)>>
  BY DEF cons, From
<1>2. CASE UNCHANGED <<pc, got>>
  BY <1>1, <1>2 DEF ttyvars
<1>3. ASSUME NEW p \in Readers, kkill(p) PROVE UNCHANGED ttyvars
  BY <1>1, <1>3 DEF kkill, ttyvars
<1>4. ASSUME NEW p \in Readers, NEW k \in ReadSizes, consoleread(p, k) PROVE Abstract!Next
  <2>1. Abstract!begin(p)
    BY <1>1, <1>4 DEF consoleread, Abstract!begin
  <2>2. QED
    BY <2>1 DEF Abstract!Next
<1>5. QED
  BY <1>2, <1>3, <1>4

\* A key edits the line or sends it off, or has no effect.
LEMMA KeySteps ==
  ASSUME TypeOK, TypeOK', RingInv, consoleintr
  PROVE  [Abstract!Next]_ttyvars
<1> DEFINE Edit == Line(buf, w, e)
           Queue == Line(buf, r, w)
<1>1. buf \in [Places -> Chars] /\ r \in Indices /\ w \in Indices /\ e \in Indices
  BY DEF TypeOK, Places, Indices
<1>2. buf' \in [Places -> Chars] /\ r' \in Indices /\ w' \in Indices /\ e' \in Indices
  BY DEF TypeOK, Places, Indices
<1>3. /\ From(w, e) = Edit /\ From(r, w) = Queue
      /\ Len(Edit) = Count(w, e) /\ Len(Queue) = Count(r, w)
      /\ Count(w, e) \in Nat /\ Count(r, w) \in Nat
  BY <1>1, LineOf DEF From
<1>4. From(w, e)' = Line(buf', w', e') /\ From(r, w)' = Line(buf', r', w')
  BY <1>2, LineOf DEF From
<1>5. r' = r /\ got' = got
  BY KeyCases
<1>6. Ring(buf, r, w, e)
  BY RingHere
<1>7. \A a \in Indices : Line(buf', a, a) = <<>>
  BY CountMoves DEF Line
<1>8. CASE Clears
  <2>1. Line(buf', w', e') = <<>> /\ Line(buf', r', w') = Queue
    BY <1>1, <1>5, <1>7, <1>8 DEF Clears
  <2>2. Abstract!kill_line
    BY <1>3, <1>4, <1>5, <2>1 DEF Abstract!kill_line
  <2>3. QED
    BY <2>2 DEF Abstract!Next
<1>9. CASE Shortens
  <2>1. Line(buf', w', e') = SubSeq(Edit, 1, Len(Edit) - 1) /\ Edit # <<>> /\ Line(buf', r', w') = Queue
    BY <1>1, <1>5, <1>9, DropChar DEF Shortens
  <2>2. Abstract!erase
    BY <1>3, <1>4, <1>5, <2>1 DEF Abstract!erase
  <2>3. QED
    BY <2>2 DEF Abstract!Next
<1>10. CASE UNCHANGED <<buf, e, w, pc>>
  BY <1>5, <1>10 DEF ttyvars, From
<1>11. ASSUME NEW c \in Chars, Extends(c) PROVE Abstract!Next
  <2>1. Count(r, e) < INPUT_BUF_SIZE /\ Count(r, e) = Count(r, w) + Count(w, e)
    BY <1>6, <1>11 DEF Extends, Ring
  <2>2. buf'[Cell(e)] = c /\ (\A i \in Places : i # Cell(e) => buf'[i] = buf[i]) /\ e' = Plus(e, 1)
    BY <1>11, ExtendedBuf DEF Extends
  <2>3. /\ Count(r, e') = Count(r, e) + 1
        /\ Line(buf', r, w) = Queue /\ Line(buf', w, e') = Append(Edit, c)
    BY <1>1, <1>2, <1>6, <2>1, <2>2, AddChar
  <2>4. Line(buf', r, e') = Queue \o Append(Edit, c)
    BY <1>1, <1>2, <1>6, <2>1, <2>2, SendLine
  <2> DEFINE Sends == c \in {NL, EOF} \/ Len(Queue) + Len(Edit) + 1 = INPUT_BUF_SIZE
  <2>5. Len(Queue) + Len(Edit) < INPUT_BUF_SIZE /\ (Sends <=> SendOff(c, e'))
    BY <1>3, <2>1, <2>3 DEF SendOff
  <2> HIDE DEF Edit, Queue
  <2>6. CASE Sends
    <3>1. w' = e'
      BY <1>11, <2>5, <2>6 DEF Extends
    <3>2. From(r, w)' = Queue \o Append(Edit, c) /\ From(w, e)' = <<>>
      BY <1>2, <1>4, <1>5, <1>7, <2>4, <3>1
    <3>3. Abstract!type(c)
      BY <1>3, <1>5, <2>5, <2>6, <3>2 DEF Abstract!type
    <3>4. QED
      BY <3>3 DEF Abstract!Next
  <2>7. CASE ~Sends
    <3>1. w' = w
      BY <1>11, <2>5, <2>7 DEF Extends
    <3>2. From(w, e)' = Append(Edit, c) /\ From(r, w)' = Queue
      BY <1>4, <1>5, <2>3, <3>1
    <3>3. Abstract!type(c)
      BY <1>3, <1>5, <2>5, <2>7, <3>2 DEF Abstract!type
    <3>4. QED
      BY <3>3 DEF Abstract!Next
  <2>8. QED
    BY <2>6, <2>7
<1>12. QED
  BY <1>8, <1>9, <1>10, <1>11, KeyCases

\* A read takes a character, loses it, takes the end of file, or does nothing.
LEMMA ReadSteps ==
  ASSUME TypeOK, TypeOK', LineInv, NEW p \in Readers, reading(p)
  PROVE  [Abstract!Next]_ttyvars
<1> DEFINE Queue == Line(buf, r, w)
<1>1. buf \in [Places -> Chars] /\ r \in Indices /\ w \in Indices /\ e \in Indices
  BY DEF TypeOK, Places, Indices
<1>2. UNCHANGED <<buf, w, e>> /\ pc[p] = "read" /\ UNCHANGED From(w, e)
  BY ReadCases DEF From
<1>3. From(r, w) = Queue
  BY <1>1, LineOf DEF From
<1>4. ASSUME Takes PROVE Queue # <<>> /\ Head(Queue) = buf[Cell(r)] /\ From(r, w)' = Tail(Queue)
  <2>1. Plus(r, 1) \in Indices /\ Queue # <<>> /\ Head(Queue) = buf[Cell(r)] /\ Line(buf, Plus(r, 1), w) = Tail(Queue)
    BY <1>1, <1>4, TakeChar DEF Takes
  <2>2. From(r, w)' = Line(buf, Plus(r, 1), w)
    <3>1. r' = Plus(r, 1) /\ w' = w /\ buf' = buf
      BY <1>2, <1>4 DEF Takes
    <3>2. From(r, w)' = [k \in 1 .. Count(r', w') |-> buf'[Cell(Plus(r', k - 1))]]
      BY DEF From
    <3>3. buf' \in [Places -> Chars] /\ r' \in Indices /\ w' \in Indices
      BY <1>1, <2>1, <3>1
    <3>4. [k \in 1 .. Count(r', w') |-> buf'[Cell(Plus(r', k - 1))]] = Line(buf', r', w')
      BY <3>3, LineOf
    <3>5. QED
      BY <3>1, <3>2, <3>4
  <2>3. QED
    BY <2>1, <2>2
<1> HIDE DEF Queue
<1>5. CASE read_wait(p)
  BY <1>5 DEF read_wait, cons, ttyvars, From
<1>6. CASE read_eof(p)
  <2>1. CASE got[p] = <<>>
    <3>1. Takes /\ buf[Cell(r)] = EOF /\ got' = got
      BY <1>6, <2>1 DEF read_eof, NextAfterEof, Takes
    <3>2. Abstract!end_of_file(p)
      BY <1>2, <1>3, <1>4, <2>1, <3>1 DEF Abstract!end_of_file
    <3>3. QED
      BY <3>2 DEF Abstract!Next
  <2>2. CASE got[p] # <<>>
    BY <1>6, <2>2 DEF read_eof, NextAfterEof, ttyvars, From
  <2>3. QED
    BY <2>1, <2>2
<1>7. CASE read_char(p)
  <2>1. Takes /\ buf[Cell(r)] # EOF /\ got' = [got EXCEPT ![p] = Append(@, buf[Cell(r)])]
    BY <1>7 DEF read_char, Takes
  <2>2. NL \notin {got[p][k] : k \in DOMAIN got[p]}
    BY <1>2 DEF LineInv
  <2>3. Abstract!take(p)
    BY <1>2, <1>3, <1>4, <2>1, <2>2 DEF Abstract!take
  <2>4. QED
    BY <2>3 DEF Abstract!Next
<1>8. CASE read_fault(p)
  <2>1. Takes /\ buf[Cell(r)] # EOF /\ got' = got
    BY <1>8 DEF read_fault, Takes
  <2>2. Abstract!lose(p)
    BY <1>2, <1>3, <1>4, <2>1 DEF Abstract!lose
  <2>3. QED
    BY <2>2 DEF Abstract!Next
<1>9. QED
  BY <1>5, <1>6, <1>7, <1>8 DEF reading

\* Lines arrive whole, once and in order, whatever is erased, however the indices
\* wrap and however large the ring is: the console implements an editable line in
\* front of a queue.
THEOREM ConsoleIsTty == Spec => ImplementsTty
<1>1. Init => Abstract!Init
  <2> SUFFICES ASSUME Init PROVE Abstract!Init
    OBVIOUS
  <2>1. Count(Start, Start) = 0
    BY Sizes, CountMoves
  <2>2. From(w, e) = <<>> /\ From(r, w) = <<>>
    BY <2>1 DEF Init, From
  <2>3. QED
    BY <2>2 DEF Init, Abstract!Init
<1>2. ConsoleInv /\ ConsoleInv' /\ [Next]_vars => [Abstract!Next]_ttyvars
  BY RingSteps, QuietSteps, KeySteps, ReadSteps DEF ConsoleInv, IInv
<1>3. QED
  BY <1>1, <1>2, ConsoleSafe, PTL DEF Spec, ImplementsTty, Abstract!Spec, ttyvars
=============================================================================
