-------------------------- MODULE VirtioDiskProofs --------------------------
(***************************************************************************)
(* Proofs about VirtioDisk, for any number of requests, any number of      *)
(* descriptors and indices that wrap at any multiple of it: every          *)
(* descriptor is free or in one chain, every request is in one place, and  *)
(* the driver is a synchronous disk.                                       *)
(***************************************************************************)
EXTENDS VirtioDisk, SequenceTheorems, FiniteSetTheorems, WellFoundedInduction, TLAPS

-----------------------------------------------------------------------------
(* Indices that wrap and what lies between two of them, from the defining  *)
(* equation of %; the least member of a set.                               *)

\* The remainder is the one number below m that is left after a multiple of m.
LEMMA ModUnique ==
  ASSUME NEW m \in Nat \ {0}, NEW q \in Int, NEW r \in 0 .. m - 1
  PROVE  (q * m + r) % m = r
  OBVIOUS

\* Division with remainder.
LEMMA ModSplit ==
  ASSUME NEW m \in Nat \ {0}, NEW x \in Int
  PROVE  /\ x % m \in 0 .. m - 1
         /\ x \div m \in Int
         /\ x = (x \div m) * m + (x % m)
  OBVIOUS

\* A number that is in range is its own remainder.
LEMMA ModSmall ==
  ASSUME NEW m \in Nat \ {0}, NEW x \in 0 .. m - 1
  PROVE  x % m = x
  OBVIOUS

\* A number that is out of range by one turn at most.
LEMMA ModOver ==
  ASSUME NEW m \in Nat \ {0}, NEW x \in m .. 2 * m - 1
  PROVE  x % m = x - m
  OBVIOUS

LEMMA ModUnder ==
  ASSUME NEW m \in Nat \ {0}, NEW x \in Int, -m <= x, x < 0
  PROVE  x % m = x + m
  OBVIOUS

\* Whole turns do not matter.
LEMMA ModTurns ==
  ASSUME NEW m \in Nat \ {0}, NEW x \in Int, NEW k \in Int
  PROVE  (x + k * m) % m = x % m
<1> DEFINE q == x \div m
           r == x % m
<1>1. q \in Int /\ r \in 0 .. m - 1 /\ x = q * m + r
  BY ModSplit
<1> HIDE DEF q, r
<1>2. q + k \in Int /\ x + k * m = (q + k) * m + r
  BY <1>1
<1>3. ((q + k) * m + r) % m = r
  BY <1>1, <1>2, ModUnique
<1>4. QED
  BY <1>2, <1>3 DEF r

\* Two numbers less than a turn apart have different remainders.
LEMMA ModDistinct ==
  ASSUME NEW m \in Nat \ {0}, NEW x \in Int, NEW d \in 1 .. m - 1
  PROVE  (x + d) % m # x % m
<1> DEFINE q == x \div m
           r == x % m
<1>1. q \in Int /\ r \in 0 .. m - 1 /\ x = q * m + r
  BY ModSplit
<1> HIDE DEF q, r
<1>2. CASE r + d < m
  <2>1. r + d \in 0 .. m - 1 /\ x + d = q * m + (r + d)
    BY <1>1, <1>2
  <2>2. (x + d) % m = r + d
    BY <1>1, <2>1, ModUnique
  <2>3. QED
    BY <1>1, <2>2 DEF r
<1>3. CASE r + d >= m
  <2>1. (r + d) - m \in 0 .. m - 1 /\ x + d = (q + 1) * m + ((r + d) - m) /\ q + 1 \in Int
    BY <1>1, <1>3
  <2>2. (x + d) % m = (r + d) - m
    BY <1>1, <2>1, ModUnique
  <2>3. QED
    BY <1>1, <2>2 DEF r
<1>4. QED
  BY <1>1, <1>2, <1>3

\* Differences and successors without %.
LEMMA WrapCases ==
  ASSUME NEW U \in Nat \ {0}, NEW i \in 0 .. U - 1, NEW j \in 0 .. U - 1
  PROVE  /\ (j - i) % U = IF j >= i THEN j - i ELSE j - i + U
         /\ (i + 1) % U = IF i = U - 1 THEN 0 ELSE i + 1
<1>1. (j - i) % U = IF j >= i THEN j - i ELSE j - i + U
  <2>1. CASE j >= i
    <3>1. j - i \in 0 .. U - 1
      BY <2>1
    <3>2. QED
      BY <2>1, <3>1, ModSmall
  <2>2. CASE j < i
    <3>1. j - i \in Int /\ -U <= j - i /\ j - i < 0
      BY <2>2
    <3>2. (j - i) % U = j - i + U
      BY ONLY <3>1, ModUnder, U \in Nat \ {0}
    <3>3. QED
      BY <2>2, <3>2
  <2>3. QED
    BY <2>1, <2>2
<1>2. (i + 1) % U = IF i = U - 1 THEN 0 ELSE i + 1
  <2>1. CASE i = U - 1
    <3>1. i + 1 \in U .. 2 * U - 1 /\ i + 1 - U = 0
      BY <2>1
    <3>2. QED
      BY <2>1, <3>1, ModOver
  <2>2. CASE i # U - 1
    <3>1. i + 1 \in 0 .. U - 1
      BY <2>2
    <3>2. QED
      BY <2>2, <3>1, ModSmall
  <2>3. QED
    BY <2>1, <2>2
<1>3. QED
  BY <1>1, <1>2

\* The slot of a counter is not changed by the wrap.
LEMMA WrapSlot ==
  ASSUME NEW N \in Nat \ {0}, NEW U \in Nat \ {0}, U % N = 0, NEW x \in Int
  PROVE  (x + U) % N = x % N
<1> DEFINE k == U \div N
<1>1. k \in Int /\ U = k * N + (U % N) /\ U % N = 0
  BY ModSplit
<1> HIDE DEF k
<1>2. U = k * N
  BY <1>1
<1>3. (x + k * N) % N = x % N
  BY ONLY x \in Int, <1>1, N \in Nat \ {0}, ModTurns
<1>4. QED
  BY <1>2, <1>3

\* One more entry.
LEMMA RingPut ==
  ASSUME NEW U \in Nat, U > 0, NEW i \in Nat, NEW j \in Nat, i < U, j < U
  PROVE  /\ (j - i) % U \in 0 .. U - 1
         /\ (j + 1) % U \in 0 .. U - 1
         /\ ((j - i) % U) + 1 < U => (((j + 1) % U) - i) % U = ((j - i) % U) + 1
<1> DEFINE n == (j - i) % U
           jj == (j + 1) % U
<1>1. U \in Nat \ {0} /\ i \in 0 .. U - 1 /\ j \in 0 .. U - 1
  OBVIOUS
<1>2. n = IF j >= i THEN j - i ELSE j - i + U
  BY <1>1, WrapCases
<1>3. jj = IF j = U - 1 THEN 0 ELSE j + 1
  BY <1>1, WrapCases
<1> HIDE DEF n, jj
<1>4. n \in 0 .. U - 1 /\ jj \in 0 .. U - 1
  BY <1>2, <1>3
<1>5. (jj - i) % U = IF jj >= i THEN jj - i ELSE jj - i + U
  BY <1>1, <1>4, WrapCases
<1>6. n + 1 < U => (jj - i) % U = n + 1
  BY <1>2, <1>3, <1>4, <1>5
<1>7. QED
  BY <1>4, <1>6 DEF n, jj

\* It goes to the slot after the last one.
LEMMA RingEnd ==
  ASSUME NEW N \in Nat, NEW U \in Nat, N > 0, U > 0, U % N = 0,
         NEW i \in Nat, NEW j \in Nat, i < U, j < U
  PROVE  (i + ((j - i) % U)) % N = j % N
<1> DEFINE n == (j - i) % U
<1>1. N \in Nat \ {0} /\ U \in Nat \ {0} /\ i \in 0 .. U - 1 /\ j \in 0 .. U - 1
  OBVIOUS
<1>2. n = IF j >= i THEN j - i ELSE j - i + U
  BY <1>1, WrapCases
<1> HIDE DEF n
<1>3. CASE j >= i
  <2>1. i + n = j
    BY <1>2, <1>3
  <2>2. QED
    BY <2>1 DEF n
<1>4. CASE j < i
  <2>1. i + n = j + U /\ j \in Int
    BY <1>2, <1>4
  <2>2. (j + U) % N = j % N
    BY <1>1, <2>1, WrapSlot
  <2>3. QED
    BY <2>1, <2>2 DEF n
<1>5. QED
  BY <1>3, <1>4

\* One entry less.
LEMMA RingTake ==
  ASSUME NEW U \in Nat, U > 0, NEW i \in Nat, NEW j \in Nat, i < U, j < U, i # j
  PROVE  /\ (j - i) % U > 0
         /\ (i + 1) % U \in 0 .. U - 1
         /\ (j - ((i + 1) % U)) % U = ((j - i) % U) - 1
<1> DEFINE m == (j - i) % U
           ii == (i + 1) % U
<1>1. U \in Nat \ {0} /\ i \in 0 .. U - 1 /\ j \in 0 .. U - 1
  OBVIOUS
<1>2. m = IF j >= i THEN j - i ELSE j - i + U
  BY <1>1, WrapCases
<1>3. ii = IF i = U - 1 THEN 0 ELSE i + 1
  BY <1>1, WrapCases
<1> HIDE DEF m, ii
<1>4. m > 0 /\ ii \in 0 .. U - 1
  BY <1>2, <1>3
<1>5. (j - ii) % U = IF j >= ii THEN j - ii ELSE j - ii + U
  BY <1>1, <1>4, WrapCases
<1>6. (j - ii) % U = m - 1
  BY <1>2, <1>3, <1>4, <1>5
<1>7. QED
  BY <1>4, <1>6 DEF m, ii

\* The others keep their slots.
LEMMA RingShift ==
  ASSUME NEW N \in Nat, NEW U \in Nat, N > 0, U > 0, U % N = 0, NEW i \in Nat, i < U, NEW n \in Nat
  PROVE  (((i + 1) % U) + n) % N = (i + (n + 1)) % N
<1> DEFINE ii == (i + 1) % U
<1>1. N \in Nat \ {0} /\ U \in Nat \ {0} /\ i \in 0 .. U - 1
  OBVIOUS
<1>2. ii = IF i = U - 1 THEN 0 ELSE i + 1
  BY <1>1, WrapCases
<1> HIDE DEF ii
<1>3. CASE i = U - 1
  <2>1. i + (n + 1) = ii + n + U /\ ii + n \in Int
    BY <1>2, <1>3
  <2>2. (ii + n + U) % N = (ii + n) % N
    BY <1>1, <2>1, WrapSlot
  <2>3. QED
    BY <2>1, <2>2 DEF ii
<1>4. CASE i # U - 1
  <2>1. i + (n + 1) = ii + n
    BY <1>2, <1>4
  <2>2. QED
    BY <2>1 DEF ii
<1>5. QED
  BY <1>3, <1>4

\* Different entries of a ring that is not overfull are in different slots.
LEMMA RingSlots ==
  ASSUME NEW N \in Nat \ {0}, NEW i \in Int, NEW c \in 0 .. N,
         NEW x \in 0 .. c - 1, NEW y \in 0 .. c - 1, x # y
  PROVE  (i + x) % N # (i + y) % N /\ (i + x) % N \in 0 .. N - 1
<1>1. ASSUME NEW a \in 0 .. c - 1, NEW b \in 0 .. c - 1, a < b PROVE (i + a) % N # (i + b) % N
  <2> DEFINE z == i + a
             d == b - a
  <2>1. d \in 1 .. N - 1 /\ z \in Int /\ z + d = i + b
    BY <1>1
  <2> HIDE DEF z, d
  <2>2. (z + d) % N # z % N
    BY <2>1, ModDistinct
  <2>3. QED
    BY <2>1, <2>2 DEF z
<1>2. i + x \in Int
  OBVIOUS
<1>3. (i + x) % N \in 0 .. N - 1
  BY ONLY <1>2, ModSplit, N \in Nat \ {0}
<1>4. x \in Int /\ y \in Int /\ (x < y \/ y < x)
  OBVIOUS
<1>5. CASE x < y
  BY <1>1, <1>3, <1>5
<1>6. CASE y < x
  BY <1>1, <1>3, <1>6
<1>7. QED
  BY <1>4, <1>5, <1>6

\* Induction, as the existence of a least element.
NatLess == {ss \in Nat \X Nat : ss[1] < ss[2]}

LEMMA SmallestOf ==
  ASSUME NEW S \in SUBSET Nat, S # {}
  PROVE  \E i \in S : \A j \in S : i <= j
<1>1. IsWellFoundedOn(NatLess, Nat)
  BY NatLessThanWellFounded DEF OpToRel, NatLess
<1>2. \E i \in S : \A j \in S : <<j, i>> \notin NatLess
  BY <1>1, WFMin
<1>3. PICK i \in S : \A j \in S : <<j, i>> \notin NatLess
  BY <1>2
<1>4. \A j \in S : <<j, i>> \in Nat \X Nat /\ <<j, i>>[1] = j /\ <<j, i>>[2] = i
  OBVIOUS
<1>5. \A j \in S : ~(j < i)
  BY <1>3, <1>4 DEF NatLess
<1>6. QED
  BY <1>5

-----------------------------------------------------------------------------
(* The rings.                                                              *)

LEMMA Sizes ==
  /\ NUM \in Nat \ {0} /\ NUM >= 3 /\ UINT16 \in Nat \ {0} /\ NUM <= UINT16
<1> DEFINE k == UINT16 \div NUM
<1>1. NUM \in Nat \ {0} /\ NUM >= 3 /\ UINT16 \in Nat \ {0} /\ UINT16 \in Int /\ UINT16 % NUM = 0
  BY SizeAssumption
<1>2. k \in Int /\ UINT16 = k * NUM + (UINT16 % NUM)
  BY <1>1, ModSplit
<1> HIDE DEF k
<1>3. UINT16 = k * NUM
  BY <1>1, <1>2
<1>4. k >= 1
  <2>1. k * NUM > 0
    BY <1>1, <1>3
  <2>2. QED
    BY <1>1, <1>2, <2>1
<1>5. k * NUM >= NUM
  BY <1>1, <1>2, <1>4
<1>6. QED
  BY <1>1, <1>2, <1>3, <1>4, <1>5

LEMMA SlotInRange ==
  ASSUME NEW x \in Int
  PROVE  x % NUM \in Descs
  BY Sizes, ModSplit DEF Descs

Indices == 0 .. UINT16 - 1

\* Slots of the entries of a ring that is not overrun.
LEMMA Slots ==
  ASSUME NEW i \in Indices, NEW j \in Indices, Count(i, j) < NUM
  PROVE  /\ Count(i, j) \in Nat
         /\ \A n \in 0 .. Count(i, j) - 1 : (i + n) % NUM \in Descs
         /\ (i + Count(i, j)) % NUM = j % NUM
         /\ \A n \in 0 .. Count(i, j) - 1 : (i + n) % NUM # j % NUM
         /\ \A m, n \in 0 .. Count(i, j) - 1 : m # n => (i + m) % NUM # (i + n) % NUM
<1> DEFINE c == Count(i, j)
<1>2. c \in 0 .. UINT16 - 1 /\ (i + c) % NUM = j % NUM
  <2>1. /\ i \in Nat /\ i < UINT16 /\ j \in Nat /\ j < UINT16
        /\ NUM \in Nat /\ NUM > 0 /\ UINT16 \in Nat /\ UINT16 > 0 /\ UINT16 % NUM = 0
    BY Sizes, SizeAssumption DEF Indices
  <2>2. (j - i) % UINT16 \in 0 .. UINT16 - 1
    BY ONLY <2>1, RingPut
  <2>3. (i + ((j - i) % UINT16)) % NUM = j % NUM
    BY ONLY <2>1, RingEnd
  <2>4. QED
    BY ONLY <2>2, <2>3 DEF Count, c
<1> HIDE DEF c
<1>3. c \in Nat /\ c < NUM /\ c + 1 \in 0 .. NUM /\ NUM \in Nat \ {0} /\ i \in Int
  BY <1>2, Sizes DEF c, Indices
<1>4. \A m, n \in 0 .. (c + 1) - 1 : m # n => (i + m) % NUM # (i + n) % NUM
  <2> SUFFICES ASSUME NEW m \in 0 .. (c + 1) - 1, NEW n \in 0 .. (c + 1) - 1, m # n
               PROVE  (i + m) % NUM # (i + n) % NUM
    OBVIOUS
  <2> DEFINE e == c + 1
  <2>1. e \in 0 .. NUM /\ m \in 0 .. e - 1 /\ n \in 0 .. e - 1
    BY <1>3
  <2> HIDE DEF e
  <2>2. QED
    BY <1>3, <2>1, RingSlots
<1>5. c \in 0 .. (c + 1) - 1 /\ \A n \in 0 .. c - 1 : n \in 0 .. (c + 1) - 1 /\ n # c
  BY <1>3
<1>6. \A n \in 0 .. c - 1 : (i + n) % NUM \in Descs
  <2> SUFFICES ASSUME NEW n \in 0 .. c - 1 PROVE (i + n) % NUM \in Descs
    OBVIOUS
  <2>1. i + n \in Int
    BY <1>3
  <2>2. QED
    BY <2>1, SlotInRange
<1>7. \A n \in 0 .. c - 1 : (i + n) % NUM # (i + c) % NUM
  BY <1>4, <1>5
<1>8. \A m, n \in 0 .. c - 1 : m # n => (i + m) % NUM # (i + n) % NUM
  BY <1>4, <1>5
<1>9. QED
  BY <1>2, <1>3, <1>6, <1>7, <1>8 DEF c

\* Heads that avoid three descriptors leave room for one more.
LEMMA Room ==
  ASSUME NEW ring, NEW i \in Indices, NEW j \in Indices, Sound(ring, i, j),
         NEW x \in Descs, NEW y \in Descs, NEW z \in Descs, x # y, x # z, y # z,
         Entries(ring, i, j) \subseteq Descs \ {x, y, z}
  PROVE  Count(i, j) + 1 < NUM
<1> DEFINE c == Count(i, j)
           f == [n \in 0 .. c - 1 |-> ring[(i + n) % NUM]]
           T == ((Descs \ {x}) \ {y}) \ {z}
<1>1. c \in Nat
  BY Slots DEF Sound
<1>2. f \in Injection(0 .. c - 1, T)
  <2>1. \A n \in 0 .. c - 1 : f[n] \in T
    BY DEF Entries
  <2>2. \A m, n \in 0 .. c - 1 : f[m] = f[n] => m = n
    BY DEF Sound
  <2>3. QED
    BY <2>1, <2>2 DEF Injection, IsInjective
<1>3. IsFiniteSet(Descs) /\ Cardinality(Descs) = NUM
  <2>1. 0 \in Int /\ NUM - 1 \in Int /\ ~(0 > NUM - 1) /\ NUM - 1 - 0 + 1 = NUM
    BY Sizes
  <2>2. QED
    BY <2>1, FS_Interval DEF Descs
<1>4. IsFiniteSet(Descs \ {x}) /\ Cardinality(Descs \ {x}) = NUM - 1
  BY <1>3, FS_RemoveElement
<1>5. IsFiniteSet((Descs \ {x}) \ {y}) /\ Cardinality((Descs \ {x}) \ {y}) = NUM - 1 - 1
  BY <1>4, FS_RemoveElement
<1>6. IsFiniteSet(T) /\ Cardinality(T) = NUM - 1 - 1 - 1
  <2> DEFINE A == (Descs \ {x}) \ {y}
  <2>1. z \in A /\ IsFiniteSet(A) /\ Cardinality(A) = NUM - 1 - 1
    BY <1>5
  <2> HIDE DEF A
  <2>2. IsFiniteSet(A \ {z}) /\ Cardinality(A \ {z}) = NUM - 1 - 1 - 1
    BY <2>1, FS_RemoveElement
  <2>3. QED
    BY <2>2 DEF A
<1> HIDE DEF f, T
<1>7. Cardinality(0 .. c - 1) <= Cardinality(T)
  BY <1>2, <1>6, FS_Injection
<1>8. Cardinality(0 .. c - 1) = c
  BY <1>1, FS_Interval
<1>9. QED
  BY <1>1, <1>6, <1>7, <1>8, Sizes

\* The slot at j is written: what is in the ring stays.
LEMMA WriteSlot ==
  ASSUME NEW ring, NEW i \in Indices, NEW j \in Indices, Sound(ring, i, j),
         NEW ring2, \A s \in Descs : s # j % NUM => ring2[s] = ring[s]
  PROVE  Entries(ring2, i, j) = Entries(ring, i, j) /\ Sound(ring2, i, j)
<1>1. \A n \in 0 .. Count(i, j) - 1 : ring2[(i + n) % NUM] = ring[(i + n) % NUM]
  BY Slots DEF Sound
<1>2. QED
  BY <1>1 DEF Entries, Sound

\* The slot at j holds a new entry h, and j is incremented.
LEMMA PutEntry ==
  ASSUME NEW ring, NEW i \in Indices, NEW j \in Indices, Sound(ring, i, j),
         Count(i, j) + 1 < NUM, ring[j % NUM] \notin Entries(ring, i, j)
  PROVE  /\ (j + 1) % UINT16 \in Indices
         /\ Entries(ring, i, (j + 1) % UINT16) = Entries(ring, i, j) \cup {ring[j % NUM]}
         /\ Sound(ring, i, (j + 1) % UINT16)
<1> DEFINE jj == (j + 1) % UINT16
           c == Count(i, j)
<1>2. c + 1 < UINT16 /\ c \in Nat
  BY Sizes, Slots DEF Sound
<1>3. Count(i, jj) = c + 1 /\ jj \in Indices
  <2>1. /\ i \in Nat /\ i < UINT16 /\ j \in Nat /\ j < UINT16
        /\ NUM \in Nat /\ NUM > 0 /\ UINT16 \in Nat /\ UINT16 > 0 /\ UINT16 % NUM = 0
    BY Sizes, SizeAssumption DEF Indices
  <2>2. /\ (j + 1) % UINT16 \in 0 .. UINT16 - 1
        /\ ((j - i) % UINT16) + 1 < UINT16 => (((j + 1) % UINT16) - i) % UINT16 = ((j - i) % UINT16) + 1
    BY ONLY <2>1, RingPut
  <2>3. QED
    BY <1>2, <2>2 DEF Count, Indices
<1> HIDE DEF jj
<1>4. (i + c) % NUM = j % NUM
  BY Slots DEF Sound
<1>5. \A n : n \in 0 .. (c + 1) - 1 <=> n \in 0 .. c - 1 \/ n = c
  BY <1>2
<1>6. \A m, n \in 0 .. c - 1 : ring[(i + m) % NUM] = ring[(i + n) % NUM] => m = n
  BY DEF Sound
<1>7. \A n \in 0 .. c - 1 : ring[(i + n) % NUM] # ring[(i + c) % NUM]
  BY <1>4 DEF Entries
<1> HIDE DEF c
<1>8. Entries(ring, i, jj) = Entries(ring, i, j) \cup {ring[j % NUM]}
  <2>1. Entries(ring, i, jj) = {ring[(i + n) % NUM] : n \in 0 .. (c + 1) - 1}
    BY <1>3 DEF Entries
  <2>2. Entries(ring, i, j) = {ring[(i + n) % NUM] : n \in 0 .. c - 1}
    BY DEF Entries, c
  <2>3. QED
    BY <1>4, <1>5, <2>1, <2>2
<1>9. \A m, n \in 0 .. (c + 1) - 1 : ring[(i + m) % NUM] = ring[(i + n) % NUM] => m = n
  BY <1>5, <1>6, <1>7
<1>10. Sound(ring, i, jj)
  BY <1>3, <1>9 DEF Sound, c
<1>11. QED
  BY <1>3, <1>8, <1>10 DEF jj

\* The entry at i is taken, and its slot forgotten.
LEMMA TakeEntry ==
  ASSUME NEW ring, NEW i \in Indices, NEW j \in Indices, Sound(ring, i, j), i # j,
         NEW ring2, \A s \in Descs : s # i % NUM => ring2[s] = ring[s]
  PROVE  /\ (i + 1) % UINT16 \in Indices
         /\ ring[i % NUM] \in Entries(ring, i, j)
         /\ Entries(ring2, (i + 1) % UINT16, j) = Entries(ring, i, j) \ {ring[i % NUM]}
         /\ Sound(ring2, (i + 1) % UINT16, j)
<1> DEFINE ii == (i + 1) % UINT16
           c == Count(i, j)
<1>2. /\ c > 0 /\ ii \in Indices /\ Count(ii, j) = c - 1
      /\ \A n \in Nat : (ii + n) % NUM = (i + (n + 1)) % NUM
  <2>1. /\ i \in Nat /\ i < UINT16 /\ j \in Nat /\ j < UINT16
        /\ NUM \in Nat /\ NUM > 0 /\ UINT16 \in Nat /\ UINT16 > 0 /\ UINT16 % NUM = 0
    BY Sizes, SizeAssumption DEF Indices
  <2>2. (j - i) % UINT16 > 0 /\ (i + 1) % UINT16 \in 0 .. UINT16 - 1
    BY ONLY <2>1, i # j, RingTake
  <2>3. (j - ((i + 1) % UINT16)) % UINT16 = ((j - i) % UINT16) - 1
    BY ONLY <2>1, i # j, RingTake
  <2>4. \A n \in Nat : (((i + 1) % UINT16) + n) % NUM = (i + (n + 1)) % NUM
    BY ONLY <2>1, RingShift
  <2>5. QED
    BY ONLY <2>2, <2>3, <2>4 DEF Count, Indices, c, ii
<1>3. /\ c \in Nat /\ c < NUM
      /\ \A n \in 0 .. c - 1 : (i + n) % NUM \in Descs
      /\ \A m, n \in 0 .. c - 1 : m # n => (i + m) % NUM # (i + n) % NUM
      /\ \A m, n \in 0 .. c - 1 : ring[(i + m) % NUM] = ring[(i + n) % NUM] => m = n
  BY Slots DEF Sound
<1>4. Entries(ring, i, j) = {ring[(i + n) % NUM] : n \in 0 .. c - 1}
  BY DEF Entries
<1> HIDE DEF c, ii
<1>5. 0 \in 0 .. c - 1 /\ i + 0 = i
  BY <1>2, <1>3 DEF Indices
<1>6. \A n \in 0 .. (c - 1) - 1 : n \in Nat /\ n + 1 \in 0 .. c - 1 /\ n + 1 # 0
  BY <1>3
<1>7. \A n \in 0 .. (c - 1) - 1 : ring2[(ii + n) % NUM] = ring[(i + (n + 1)) % NUM]
  <2> SUFFICES ASSUME NEW n \in 0 .. (c - 1) - 1 PROVE ring2[(ii + n) % NUM] = ring[(i + (n + 1)) % NUM]
    OBVIOUS
  <2>1. (ii + n) % NUM = (i + (n + 1)) % NUM
    BY <1>2, <1>6
  <2>2. (i + (n + 1)) % NUM \in Descs /\ (i + (n + 1)) % NUM # (i + 0) % NUM
    BY <1>3, <1>5, <1>6
  <2>3. QED
    BY <1>5, <2>1, <2>2
<1>8. \A m \in 0 .. c - 1 : m # 0 => m - 1 \in 0 .. (c - 1) - 1 /\ (m - 1) + 1 = m
  BY <1>3
<1>9. Entries(ring2, ii, j) = Entries(ring, i, j) \ {ring[i % NUM]}
  <2>1. Entries(ring2, ii, j) = {ring[(i + (n + 1)) % NUM] : n \in 0 .. (c - 1) - 1}
    <3>1. Entries(ring2, ii, j) = {ring2[(ii + n) % NUM] : n \in 0 .. (c - 1) - 1}
      BY <1>2 DEF Entries
    <3>2. QED
      BY <1>7, <3>1
  <2>2. ASSUME NEW e \in Entries(ring2, ii, j) PROVE e \in Entries(ring, i, j) /\ e # ring[i % NUM]
    <3>1. PICK n \in 0 .. (c - 1) - 1 : e = ring[(i + (n + 1)) % NUM]
      BY <2>1
    <3>2. ring[(i + (n + 1)) % NUM] # ring[(i + 0) % NUM]
      BY <1>3, <1>5, <1>6
    <3>3. QED
      BY <1>4, <1>5, <1>6, <3>1, <3>2
  <2>3. ASSUME NEW e \in Entries(ring, i, j), e # ring[i % NUM] PROVE e \in Entries(ring2, ii, j)
    <3>1. PICK m \in 0 .. c - 1 : e = ring[(i + m) % NUM]
      BY <1>4
    <3>2. m # 0
      BY <1>5, <2>3, <3>1
    <3>3. m - 1 \in 0 .. (c - 1) - 1 /\ e = ring[(i + ((m - 1) + 1)) % NUM]
      BY <1>8, <3>1, <3>2
    <3>4. QED
      BY <2>1, <3>3
  <2>4. QED
    BY <2>2, <2>3
<1>10. \A m, n \in 0 .. (c - 1) - 1 : ring2[(ii + m) % NUM] = ring2[(ii + n) % NUM] => m = n
  <2> SUFFICES ASSUME NEW m \in 0 .. (c - 1) - 1, NEW n \in 0 .. (c - 1) - 1,
                      ring2[(ii + m) % NUM] = ring2[(ii + n) % NUM]
               PROVE  m = n
    OBVIOUS
  <2>1. ring[(i + (m + 1)) % NUM] = ring[(i + (n + 1)) % NUM]
    BY <1>7
  <2>2. m + 1 = n + 1
    BY <1>3, <1>6, <2>1
  <2>3. QED
    BY <2>2
<1>11. Sound(ring2, ii, j)
  <2>1. c - 1 < NUM
    BY <1>3, Sizes
  <2>2. QED
    BY <1>2, <1>10, <2>1 DEF Sound
<1>12. ring[i % NUM] \in Entries(ring, i, j)
  BY <1>4, <1>5
<1>13. QED
  BY <1>2, <1>9, <1>11, <1>12 DEF ii

-----------------------------------------------------------------------------
(* Descriptors.                                                            *)

\* The recursion of Reach has a solution, by induction on the number of links
\* followed: there is no least number for which it has none.
LEMMA Reachable ==
  ASSUME NEW i
  PROVE  \A n \in Nat : \E g : g = [k \in 0 .. n |-> IF k = 0 THEN {i} ELSE Linked(g[k - 1])]
<1> DEFINE Good(n) == \E g : g = [k \in 0 .. n |-> IF k = 0 THEN {i} ELSE Linked(g[k - 1])]
           Bad == {n \in Nat : ~Good(n)}
<1> SUFFICES ASSUME Bad # {} PROVE FALSE
  OBVIOUS
<1>1. PICK n \in Bad : \A m \in Bad : n <= m
  BY SmallestOf
<1>2. n # 0
  <2>1. SUFFICES ASSUME n = 0 PROVE Good(0)
    BY <1>1
  <2> DEFINE g == [k \in 0 .. 0 |-> {i}]
  <2>2. \A k \in 0 .. 0 : k = 0
    OBVIOUS
  <2>3. g = [k \in 0 .. 0 |-> IF k = 0 THEN {i} ELSE Linked(g[k - 1])]
    BY <2>2
  <2>4. QED
    BY <2>3
<1>3. n \in Nat /\ n - 1 \in Nat /\ n - 1 < n
  BY <1>2
<1>4. Good(n - 1)
  <2>1. ASSUME n - 1 \in Bad PROVE FALSE
    <3>1. n <= n - 1
      BY <1>1, <2>1
    <3>2. QED
      BY <1>3, <3>1
  <2>2. QED
    BY <1>3, <2>1
<1>5. PICK g : g = [k \in 0 .. n - 1 |-> IF k = 0 THEN {i} ELSE Linked(g[k - 1])]
  BY <1>4
<1> DEFINE h == [k \in 0 .. n |-> IF k = n THEN Linked(g[n - 1]) ELSE g[k]]
<1>6. h = [k \in 0 .. n |-> IF k = 0 THEN {i} ELSE Linked(h[k - 1])]
  <2> SUFFICES ASSUME NEW k \in 0 .. n
               PROVE  h[k] = IF k = 0 THEN {i} ELSE Linked(h[k - 1])
    OBVIOUS
  <2>1. CASE k = 0
    <3>1. k \in 0 .. n - 1 /\ k # n
      BY <1>3, <2>1
    <3>2. QED
      BY <1>5, <2>1, <3>1
  <2>2. CASE k = n
    <3>1. k - 1 \in 0 .. n /\ k - 1 # n /\ k # 0
      BY <1>3, <2>2
    <3>2. h[k - 1] = g[n - 1]
      BY <2>2, <3>1
    <3>3. QED
      BY <2>2, <3>1, <3>2
  <2>3. CASE k # 0 /\ k # n
    <3>1. k \in 0 .. n - 1 /\ k - 1 \in 0 .. n /\ k - 1 # n
      BY <1>3, <2>3
    <3>2. h[k] = g[k] /\ h[k - 1] = g[k - 1]
      BY <2>3, <3>1
    <3>3. g[k] = Linked(g[k - 1])
      BY <1>5, <2>3, <3>1
    <3>4. QED
      BY <2>3, <3>2, <3>3
  <2>4. QED
    BY <2>1, <2>2, <2>3
<1>7. Good(n)
  BY <1>6
<1>8. QED
  BY <1>7

\* What Reach(i) is for one more link.
LEMMA ReachStep ==
  ASSUME NEW i
  PROVE  /\ Reach(i)[0] = {i}
         /\ \A k \in Descs : k # 0 => Reach(i)[k] = Linked(Reach(i)[k - 1])
<1>1. NUM - 1 \in Nat /\ 0 \in Descs
  BY Sizes DEF Descs
<1>2. \E g : g = [k \in Descs |-> IF k = 0 THEN {i} ELSE Linked(g[k - 1])]
  BY <1>1, Reachable DEF Descs
<1>3. Reach(i) = CHOOSE g : g = [k \in Descs |-> IF k = 0 THEN {i} ELSE Linked(g[k - 1])]
  BY DEF Reach
<1>4. Reach(i) = [k \in Descs |-> IF k = 0 THEN {i} ELSE Linked(Reach(i)[k - 1])]
  BY <1>2, <1>3
<1>5. QED
  BY <1>1, <1>4

\* A chain of three: free_chain() visits the three, then stops.
LEMMA ChainOfThree ==
  ASSUME NEW i, NEW j, NEW k,
         "NEXT" \in desc[i].flags, desc[i].next = j,
         "NEXT" \in desc[j].flags, desc[j].next = k,
         "NEXT" \notin desc[k].flags
  PROVE  Chain(i) = {i, j, k}
<1> DEFINE R == Reach(i)
           Bad == {n \in Nat : 2 <= n /\ n <= NUM - 1 /\ R[n] # {i, j, k}}
<1>1. \A n \in Nat : n <= NUM - 1 /\ n # 0 => R[n] = Linked(R[n - 1])
  BY ReachStep, Sizes DEF Descs
<1>2. R[0] = {i}
  BY ReachStep
<1> HIDE DEF R
<1>3. Linked({i}) = {i, j} /\ Linked({i, j}) = {i, j, k} /\ Linked({i, j, k}) = {i, j, k}
  BY DEF Linked
<1>4. R[1] = {i, j}
  <2>1. R[1] = Linked(R[1 - 1])
    BY <1>1, Sizes
  <2>2. QED
    BY <1>2, <1>3, <2>1
<1>5. R[2] = {i, j, k}
  <2>1. R[2] = Linked(R[2 - 1]) /\ 2 - 1 = 1
    BY <1>1, Sizes
  <2>2. QED
    BY <1>3, <1>4, <2>1
<1>6. Bad = {}
  <2> SUFFICES ASSUME Bad # {} PROVE FALSE
    OBVIOUS
  <2>1. PICK n \in Bad : \A m \in Bad : n <= m
    BY SmallestOf
  <2>2. n # 2
    BY <1>5, <2>1
  <2>3. n \in Nat /\ n - 1 \in Nat /\ 2 <= n - 1 /\ n - 1 <= NUM - 1 /\ n - 1 < n /\ n # 0 /\ n <= NUM - 1
    BY <2>2, Sizes
  <2>4. R[n - 1] = {i, j, k}
    BY <2>1, <2>3
  <2>5. R[n] = {i, j, k}
    BY <1>1, <1>3, <2>3, <2>4
  <2>6. QED
    BY <2>5
<1>7. NUM - 1 \in Nat /\ 2 <= NUM - 1
  BY Sizes
<1>8. R[NUM - 1] = {i, j, k}
  BY <1>6, <1>7
<1>9. QED
  BY <1>8 DEF Chain, R

LEMMA LowestIn ==
  ASSUME NEW S \in SUBSET Descs, S # {}
  PROVE  Lowest(S) \in S
<1>1. S \in SUBSET Nat
  BY DEF Descs
<1>2. \E i \in S : \A j \in S : i <= j
  BY <1>1, SmallestOf
<1>3. QED
  BY <1>2 DEF Lowest

\* alloc3_desc() finds three different free descriptors if there are three.
LEMMA ThreeFree ==
  ASSUME Cardinality(Free) >= 3
  PROVE  /\ Lowest(Free) \in Free /\ Second(Free) \in Free /\ Third(Free) \in Free
         /\ Lowest(Free) # Second(Free) /\ Lowest(Free) # Third(Free) /\ Second(Free) # Third(Free)
<1> DEFINE S0 == Free
           S1 == S0 \ {Lowest(S0)}
           S2 == S1 \ {Second(S0)}
<1>1. IsFiniteSet(S0) /\ S0 \in SUBSET Descs
  <2>1. IsFiniteSet(Descs)
    BY FS_Interval, Sizes DEF Descs
  <2>2. QED
    BY <2>1, FS_Subset DEF Free
<1>2. S0 # {}
  BY FS_EmptySet
<1>3. Lowest(S0) \in S0
  BY <1>1, <1>2, LowestIn
<1>4. IsFiniteSet(S1) /\ Cardinality(S1) = Cardinality(S0) - 1 /\ S1 \in SUBSET Descs
  BY <1>1, <1>3, FS_RemoveElement
<1>5. Cardinality(S0) \in Nat
  BY <1>1, FS_CardinalityType
<1>6. S1 # {}
  BY <1>4, <1>5, FS_EmptySet
<1>7. Second(S0) \in S1
  BY <1>4, <1>6, LowestIn DEF Second
<1>8. IsFiniteSet(S2) /\ Cardinality(S2) = Cardinality(S1) - 1 /\ S2 \in SUBSET Descs
  BY <1>4, <1>7, FS_RemoveElement
<1>9. S2 # {}
  BY <1>4, <1>5, <1>8, FS_EmptySet
<1>10. Third(S0) \in S2
  <2>1. S2 = S0 \ {Lowest(S0), Second(S0)}
    OBVIOUS
  <2>2. QED
    BY <1>8, <1>9, <2>1, LowestIn DEF Third
<1>11. QED
  BY <1>3, <1>7, <1>10

-----------------------------------------------------------------------------
(* What the invariant says of one state.                                   *)

Placed == InAvail \cup taken \cup finished \cup InUsed

LEMMA EntriesAreDescs ==
  ASSUME NEW ring \in [Descs -> Descs], NEW i \in Indices, NEW j \in Indices
  PROVE  Entries(ring, i, j) \subseteq Descs
<1> SUFFICES ASSUME NEW n \in 0 .. Count(i, j) - 1 PROVE ring[(i + n) % NUM] \in Descs
  BY DEF Entries
<1>1. i + n \in Int
  BY DEF Indices
<1>2. QED
  BY <1>1, SlotInRange

LEMMA RingTypes ==
  ASSUME TypeOK
  PROVE  /\ avail_idx \in Indices /\ seen \in Indices /\ used_idx \in Indices /\ used_hw \in Indices
         /\ avail_idx % NUM \in Descs /\ seen % NUM \in Descs
         /\ used_idx % NUM \in Descs /\ used_hw % NUM \in Descs
         /\ Placed \subseteq Descs
<1>1. avail_idx \in Indices /\ seen \in Indices /\ used_idx \in Indices /\ used_hw \in Indices
  BY DEF TypeOK, Indices
<1>2. /\ avail_idx % NUM \in Descs /\ seen % NUM \in Descs
      /\ used_idx % NUM \in Descs /\ used_hw % NUM \in Descs
  BY <1>1, SlotInRange DEF Indices
<1>3. avail_ring \in [Descs -> Descs] /\ used_ring \in [Descs -> Descs] /\ taken \subseteq Descs /\ finished \subseteq Descs
  BY DEF TypeOK
<1>4. InAvail \subseteq Descs /\ InUsed \subseteq Descs
  BY <1>1, <1>3, EntriesAreDescs DEF InAvail, InUsed
<1>5. QED
  BY <1>1, <1>2, <1>3, <1>4 DEF Placed

\* The three descriptors of a request, and those of the others.
LEMMA TrioFacts ==
  ASSUME TypeOK, ChainInv, NEW b \in Waiting
  PROVE  /\ b \in Bufs /\ idx[b] \in Descs /\ DataDesc(b) \in Descs /\ StatusDesc(b) \in Descs
         /\ \A i \in Trio(b) : i \in Descs /\ ~free[i]
         /\ \A c \in Waiting : c # b => Trio(b) \cap Trio(c) = {} /\ idx[c] \notin Trio(b) /\ idx[c] # idx[b]
<1>1. b \in Bufs /\ idx[b] \in Descs
  BY DEF TypeOK, Waiting
<1>2. DataDesc(b) \in Descs
  BY <1>1 DEF TypeOK, DataDesc
<1>3. StatusDesc(b) \in Descs
  BY <1>2 DEF TypeOK, StatusDesc
<1>4. \A i \in Trio(b) : i \in Descs /\ ~free[i]
  BY <1>1, <1>2, <1>3 DEF ChainInv, Trio
<1>5. \A c \in Waiting : c # b => Trio(b) \cap Trio(c) = {}
  BY DEF ChainInv
<1>6. \A c \in Waiting : idx[c] \in Trio(c)
  BY DEF Trio
<1>7. QED
  BY <1>1, <1>2, <1>3, <1>4, <1>5, <1>6

\* A head that is somewhere is that of one sleeping caller.
LEMMA HeadFacts ==
  ASSUME TypeOK, IInv
  PROVE  /\ \A h \in Placed : \E b \in Bufs : pc[b] = "sleep" /\ b \in Waiting /\ idx[b] = h
         /\ \A b \in Bufs : pc[b] = "sleep" => idx[b] \in Placed
         /\ \A b \in Waiting, h \in Placed : h \in Trio(b) => h = idx[b] /\ pc[b] = "sleep"
<1>1. Placed \subseteq Descs /\ \A b \in Bufs : idx[b] \in Descs
  BY RingTypes DEF TypeOK
<1>2. \A i \in Descs : i \in Placed <=> \E b \in Bufs : pc[b] = "sleep" /\ idx[b] = i
  BY DEF IInv, PlaceInv, Placed
<1>3. \A b \in Bufs : pc[b] = "sleep" => b \in Waiting
  BY DEF Waiting
<1>4. ASSUME NEW b \in Waiting, NEW h \in Placed, h \in Trio(b) PROVE h = idx[b] /\ pc[b] = "sleep"
  <2>1. PICK c \in Bufs : pc[c] = "sleep" /\ idx[c] = h
    BY <1>1, <1>2
  <2>2. c = b
    BY <1>3, <1>4, <2>1, TrioFacts DEF IInv
  <2>3. QED
    BY <2>1, <2>2
<1>5. QED
  BY <1>1, <1>2, <1>3, <1>4

\* The ring that a head is put into has room for it.
LEMMA RoomFor ==
  ASSUME TypeOK, IInv, NEW b \in Waiting, NEW ring, NEW i \in Indices, NEW j \in Indices,
         Sound(ring, i, j), Entries(ring, i, j) \subseteq Placed, idx[b] \notin Entries(ring, i, j)
  PROVE  Count(i, j) + 1 < NUM
<1>1. \A h \in Entries(ring, i, j) : h \in Descs /\ h \notin Trio(b)
  BY HeadFacts, RingTypes
<1>2. idx[b] # DataDesc(b) /\ idx[b] # StatusDesc(b) /\ DataDesc(b) # StatusDesc(b)
  BY DEF IInv, ChainInv, Formatted
<1>3. idx[b] \in Descs /\ DataDesc(b) \in Descs /\ StatusDesc(b) \in Descs
  BY TrioFacts DEF IInv
<1>4. Entries(ring, i, j) \subseteq Descs \ {idx[b], DataDesc(b), StatusDesc(b)}
  BY <1>1 DEF Trio
<1>5. QED
  BY <1>2, <1>3, <1>4, Room

\* free_chain() finds the three descriptors.
LEMMA ChainIsTrio ==
  ASSUME TypeOK, ChainInv, NEW b \in Waiting
  PROVE  Chain(idx[b]) = Trio(b)
<1>1. Formatted(b)
  BY DEF ChainInv
<1>2. "NEXT" \in desc[idx[b]].flags /\ "NEXT" \in desc[DataDesc(b)].flags /\ "NEXT" \notin desc[StatusDesc(b)].flags
  BY <1>1 DEF Formatted, DataFlags
<1>3. desc[idx[b]].next = DataDesc(b) /\ desc[DataDesc(b)].next = StatusDesc(b)
  BY DEF DataDesc, StatusDesc
<1>4. QED
  BY <1>2, <1>3, ChainOfThree DEF Trio

-----------------------------------------------------------------------------
(* What the steps that depend on the invariant do.                         *)

\* alloc_format(b) with i, j and k the descriptors it gets.
Formats(b, i, j, k) ==
    /\ i # j /\ i # k /\ j # k
    /\ free' = [free EXCEPT ![i] = FALSE, ![j] = FALSE, ![k] = FALSE]
    /\ ops' = [ops EXCEPT ![i] = [write |-> write[b], buf |-> b]]
    /\ desc' = [desc EXCEPT
         ![i] = [addr |-> <<"op", i>>, next |-> j, flags |-> {"NEXT"}],
         ![j] = [addr |-> <<"data", b>>, next |-> k, flags |-> DataFlags(write[b])],
         ![k] = [addr |-> <<"status", i>>, next |-> 0, flags |-> {"WRITE"}]]
    /\ info' = [info EXCEPT ![i] = [b |-> b, status |-> "pending"]]
    /\ avail_ring' = [avail_ring EXCEPT ![avail_idx % NUM] = i]
    /\ idx' = [idx EXCEPT ![b] = i]

LEMMA FormatEffect ==
  ASSUME TypeOK, NEW b \in Bufs, alloc_format(b)
  PROVE  \E i, j, k \in Free : Formats(b, i, j, k)
<1>1. Cardinality(Free) >= 3
  BY DEF alloc_format
<1>2. /\ Lowest(Free) \in Free /\ Second(Free) \in Free /\ Third(Free) \in Free
      /\ Lowest(Free) # Second(Free) /\ Lowest(Free) # Third(Free) /\ Second(Free) # Third(Free)
  BY <1>1, ThreeFree
<1>3. Formats(b, Lowest(Free), Second(Free), Third(Free))
  BY <1>2, Zenon DEF alloc_format, Formats
<1>4. QED
  BY <1>2, <1>3

LEMMA PublishEffect ==
  ASSUME TypeOK, IInv, NEW b \in Bufs, publish(b)
  PROVE  /\ pc[b] = "publish" /\ lock = b /\ busy[b] /\ b \in Waiting
         /\ pc' = [pc EXCEPT ![b] = "sleep"]
         /\ UNCHANGED <<free, desc, ops, info, idx, write, panicked>>
         /\ avail_idx' \in Indices
         /\ InAvail' = InAvail \cup {idx[b]} /\ InUsed' = InUsed /\ RingInv'
         /\ idx[b] \notin Placed
<1>1. pc[b] = "publish" /\ lock = b /\ busy[b] /\ b \in Waiting /\ avail_ring[avail_idx % NUM] = idx[b]
  BY DEF publish, IInv, CallerInv, Waiting
<1>2. pc' = [pc EXCEPT ![b] = "sleep"] /\ UNCHANGED <<free, desc, ops, info, idx, write, panicked>>
  BY <1>1 DEF publish, WaitOrReturn
<1>3. UNCHANGED <<avail_ring, used_ring, used_hw, used_idx, seen>> /\ avail_idx' = (avail_idx + 1) % UINT16
  BY DEF publish, device
<1>4. idx[b] \notin Placed
  BY <1>1, HeadFacts DEF Trio
<1>5. seen \in Indices /\ avail_idx \in Indices /\ Sound(avail_ring, seen, avail_idx)
  BY RingTypes DEF IInv, RingInv
<1>6. InAvail = Entries(avail_ring, seen, avail_idx) /\ InAvail \subseteq Placed
  BY DEF InAvail, Placed
<1>7. Count(seen, avail_idx) + 1 < NUM
  BY <1>1, <1>4, <1>5, <1>6, RoomFor
<1>8. /\ (avail_idx + 1) % UINT16 \in Indices
      /\ Entries(avail_ring, seen, (avail_idx + 1) % UINT16) = Entries(avail_ring, seen, avail_idx) \cup {idx[b]}
      /\ Sound(avail_ring, seen, (avail_idx + 1) % UINT16)
  BY <1>1, <1>4, <1>5, <1>6, <1>7, PutEntry
<1>9. avail_idx' \in Indices /\ InAvail' = InAvail \cup {idx[b]} /\ Sound(avail_ring, seen, avail_idx)'
  BY <1>3, <1>6, <1>8 DEF InAvail
<1>10. InUsed' = InUsed /\ Sound(used_ring, used_idx, used_hw)'
  BY <1>3 DEF InUsed, IInv, RingInv
<1>11. QED
  BY <1>1, <1>2, <1>4, <1>9, <1>10 DEF RingInv

LEMMA ReturnEffect ==
  ASSUME TypeOK, IInv, NEW b \in Bufs, recheck(b)
  PROVE  /\ pc[b] = "woken" /\ lock = NoBuf /\ b \in Waiting
         /\ info' = [info EXCEPT ![idx[b]].b = NoBuf]
         /\ panicked' = FALSE
         /\ free' = [i \in Descs |-> free[i] \/ i \in Trio(b)]
         /\ desc' = [i \in Descs |-> IF i \in Trio(b) THEN NoDesc ELSE desc[i]]
         /\ pc' = WakeupFree([pc EXCEPT ![b] = "idle"])
         /\ ops' = [ops EXCEPT ![idx[b]] = NoOp]
         /\ idx' = [idx EXCEPT ![b] = 0]
         /\ write' = [write EXCEPT ![b] = FALSE]
<1>1. pc[b] = "woken" /\ lock = NoBuf /\ b \in Waiting /\ ~busy[b]
  BY DEF recheck, IInv, CallerInv, Waiting
<1>2. free_chain(idx[b]) = Trio(b)
  BY <1>1, ChainIsTrio DEF IInv, free_chain
<1>3. ~(\E i \in Trio(b) : free[i])
  BY <1>1, TrioFacts DEF IInv
<1>4. panicked = FALSE
  BY DEF TypeOK
<1>5. WaitOrReturn(b)
  BY DEF recheck
<1>6. panicked' = FALSE
  BY <1>1, <1>2, <1>3, <1>4, <1>5 DEF WaitOrReturn
<1>7. QED
  BY <1>1, <1>2, <1>5, <1>6 DEF WaitOrReturn

LEMMA IntrEffect ==
  ASSUME TypeOK, IInv, intr_complete
  PROVE  \E b \in Bufs :
           /\ pc[b] = "sleep" /\ b \in Waiting /\ idx[b] \in InUsed /\ lock = Intr
           /\ busy' = [busy EXCEPT ![b] = FALSE]
           /\ pc' = [pc EXCEPT ![b] = "woken"]
           /\ UNCHANGED panicked
           /\ used_idx' \in Indices /\ used_ring' \in [Descs -> Descs]
           /\ InUsed' = InUsed \ {idx[b]} /\ InAvail' = InAvail /\ RingInv'
<1> DEFINE h == used_ring[used_idx % NUM]
<1>1. used_idx \in Indices /\ used_hw \in Indices /\ used_idx # used_hw /\ Sound(used_ring, used_idx, used_hw)
  BY RingTypes DEF IInv, RingInv, intr_complete
<1>2. /\ used_ring' = [used_ring EXCEPT ![used_idx % NUM] = 0] /\ used_idx' = (used_idx + 1) % UINT16
      /\ UNCHANGED <<avail_ring, avail_idx, seen, used_hw>> /\ lock = Intr
  BY DEF intr_complete, NextUsed
<1>3. \A s \in Descs : s # used_idx % NUM => used_ring'[s] = used_ring[s]
  BY <1>2 DEF TypeOK
<1>4. used_ring' \in [Descs -> Descs]
  <2>1. 0 \in Descs
    BY Sizes DEF Descs
  <2>2. QED
    BY <1>2, <2>1 DEF TypeOK
<1>5. /\ (used_idx + 1) % UINT16 \in Indices
      /\ h \in Entries(used_ring, used_idx, used_hw)
      /\ Entries(used_ring', (used_idx + 1) % UINT16, used_hw) = Entries(used_ring, used_idx, used_hw) \ {h}
      /\ Sound(used_ring', (used_idx + 1) % UINT16, used_hw)
  BY <1>1, <1>3, TakeEntry
<1> HIDE DEF h
<1>6. /\ used_idx' \in Indices /\ h \in InUsed /\ InUsed' = InUsed \ {h} /\ Sound(used_ring, used_idx, used_hw)'
  BY <1>2, <1>5 DEF InUsed
<1>7. InAvail' = InAvail /\ Sound(avail_ring, seen, avail_idx)'
  BY <1>2 DEF InAvail, IInv, RingInv
<1>8. PICK b \in Bufs : pc[b] = "sleep" /\ b \in Waiting /\ idx[b] = h
  BY <1>6, HeadFacts DEF Placed
<1>9. info[h].status = "ok" /\ info[h].b = b /\ b # NoBuf
  BY <1>6, <1>8, NameAssumption DEF IInv, StatusInv, ChainInv, Formatted
<1>10. /\ busy' = [busy EXCEPT ![b] = FALSE]
       /\ pc' = [pc EXCEPT ![b] = IF @ = "sleep" THEN "woken" ELSE @]
       /\ UNCHANGED panicked
  BY <1>9 DEF intr_complete, UsedSlot, h
<1>11. pc' = [pc EXCEPT ![b] = "woken"]
  BY <1>8, <1>10
<1>12. QED
  BY <1>2, <1>4, <1>6, <1>7, <1>8, <1>10, <1>11 DEF RingInv

LEMMA TakeEffect ==
  ASSUME TypeOK, IInv, DeviceTake
  PROVE  \E h \in InAvail :
           /\ taken' = taken \cup {h} /\ seen' \in Indices /\ avail_ring' \in [Descs -> Descs]
           /\ InAvail' = InAvail \ {h} /\ InUsed' = InUsed /\ RingInv'
           /\ avail_ring'[avail_idx % NUM] = avail_ring[avail_idx % NUM]
<1> DEFINE h == avail_ring[seen % NUM]
<1>1. seen \in Indices /\ avail_idx \in Indices /\ seen # avail_idx /\ Sound(avail_ring, seen, avail_idx)
  BY RingTypes DEF IInv, RingInv, DeviceTake
<1>2. /\ avail_ring' = [avail_ring EXCEPT ![seen % NUM] = 0] /\ seen' = (seen + 1) % UINT16
      /\ UNCHANGED <<used_ring, avail_idx, used_idx, used_hw>>
  BY DEF DeviceTake
<1>3. \A s \in Descs : s # seen % NUM => avail_ring'[s] = avail_ring[s]
  BY <1>2 DEF TypeOK
<1>4. avail_ring' \in [Descs -> Descs]
  <2>1. 0 \in Descs
    BY Sizes DEF Descs
  <2>2. QED
    BY <1>2, <2>1 DEF TypeOK
<1>5. /\ (seen + 1) % UINT16 \in Indices
      /\ h \in Entries(avail_ring, seen, avail_idx)
      /\ Entries(avail_ring', (seen + 1) % UINT16, avail_idx) = Entries(avail_ring, seen, avail_idx) \ {h}
      /\ Sound(avail_ring', (seen + 1) % UINT16, avail_idx)
  BY <1>1, <1>3, TakeEntry
<1>6. avail_idx % NUM # seen % NUM
  <2>1. Count(seen, avail_idx) \in Nat /\ Count(seen, avail_idx) > 0
    <3>1. /\ seen \in Nat /\ seen < UINT16 /\ avail_idx \in Nat /\ avail_idx < UINT16
          /\ UINT16 \in Nat /\ UINT16 > 0
      BY <1>1, Sizes DEF Indices
    <3>2. (avail_idx - seen) % UINT16 > 0 /\ (avail_idx - seen) % UINT16 \in 0 .. UINT16 - 1
      BY ONLY <1>1, <3>1, RingTake, RingPut
    <3>3. QED
      BY <3>2 DEF Count
  <2>2. 0 \in 0 .. Count(seen, avail_idx) - 1 /\ seen + 0 = seen
    BY <1>1, <2>1 DEF Indices
  <2>3. (seen + 0) % NUM # avail_idx % NUM
    BY <1>1, <2>2, Slots DEF Sound
  <2>4. QED
    BY <2>2, <2>3
<1>7. taken' = taken \cup {h}
  BY DEF DeviceTake
<1> HIDE DEF h
<1>8. seen' \in Indices /\ h \in InAvail /\ InAvail' = InAvail \ {h} /\ Sound(avail_ring, seen, avail_idx)'
  BY <1>2, <1>5 DEF InAvail
<1>9. InUsed' = InUsed /\ Sound(used_ring, used_idx, used_hw)'
  BY <1>2 DEF InUsed, IInv, RingInv
<1>10. avail_ring'[avail_idx % NUM] = avail_ring[avail_idx % NUM]
  BY <1>3, <1>6, RingTypes
<1>11. QED
  BY <1>4, <1>7, <1>8, <1>9, <1>10 DEF RingInv

LEMMA TransferEffect ==
  ASSUME TypeOK, IInv, NEW i \in Descs, DeviceTransfer(i)
  PROVE  \E b \in Bufs :
           /\ pc[b] = "sleep" /\ b \in Waiting /\ idx[b] = i
           /\ IF write[b] THEN disk' = [disk EXCEPT ![b] = data[b]] /\ UNCHANGED data
                          ELSE data' = [data EXCEPT ![b] = disk[b]] /\ UNCHANGED disk
           /\ info' = [info EXCEPT ![i].status = "ok"]
<1>1. i \in taken
  BY DEF DeviceTransfer
<1>2. PICK b \in Bufs : pc[b] = "sleep" /\ b \in Waiting /\ idx[b] = i
  BY <1>1, HeadFacts DEF Placed
<1>3. Formatted(b)
  BY <1>2 DEF IInv, ChainInv
<1>4. desc[i].next = DataDesc(b) /\ desc[DataDesc(b)].next = StatusDesc(b)
  BY <1>2 DEF DataDesc, StatusDesc
<1>5. ops[i].buf = b /\ desc[DataDesc(b)].addr[2] = b /\ desc[StatusDesc(b)].addr[2] = i
  BY <1>2, <1>3 DEF Formatted
<1>6. "WRITE" \in desc[DataDesc(b)].flags <=> ~write[b]
  BY <1>3 DEF Formatted, DataFlags
<1>7. /\ IF "WRITE" \in desc[DataDesc(b)].flags
         THEN data' = [data EXCEPT ![b] = disk[b]] /\ UNCHANGED disk
         ELSE disk' = [disk EXCEPT ![b] = data[b]] /\ UNCHANGED data
      /\ info' = [info EXCEPT ![i].status = "ok"]
  BY <1>4, <1>5 DEF DeviceTransfer
<1>8. QED
  BY <1>2, <1>6, <1>7

LEMMA CompleteEffect ==
  ASSUME TypeOK, IInv, NEW i \in Descs, DeviceComplete(i)
  PROVE  /\ i \in finished /\ finished' = finished \ {i}
         /\ used_hw' \in Indices /\ used_ring' \in [Descs -> Descs]
         /\ InUsed' = InUsed \cup {i} /\ InAvail' = InAvail /\ RingInv'
<1>1. /\ i \in finished /\ finished' = finished \ {i} /\ i \in Placed /\ i \notin InUsed
      /\ used_ring' = [used_ring EXCEPT ![used_hw % NUM] = i] /\ used_hw' = (used_hw + 1) % UINT16
      /\ UNCHANGED <<avail_ring, avail_idx, seen, used_idx>>
  BY DEF DeviceComplete, Placed, IInv, PlaceInv, driver
<1>2. PICK b \in Bufs : pc[b] = "sleep" /\ b \in Waiting /\ idx[b] = i
  BY <1>1, HeadFacts
<1>3. used_idx \in Indices /\ used_hw \in Indices /\ used_hw % NUM \in Descs /\ Sound(used_ring, used_idx, used_hw)
  BY RingTypes DEF IInv, RingInv
<1>4. InUsed = Entries(used_ring, used_idx, used_hw) /\ InUsed \subseteq Placed
  BY DEF InUsed, Placed
<1>5. Count(used_idx, used_hw) + 1 < NUM
  BY <1>1, <1>2, <1>3, <1>4, RoomFor
<1>6. /\ used_ring' \in [Descs -> Descs] /\ used_ring'[used_hw % NUM] = i
      /\ \A s \in Descs : s # used_hw % NUM => used_ring'[s] = used_ring[s]
  BY <1>1, <1>3 DEF TypeOK
<1>7. Entries(used_ring', used_idx, used_hw) = InUsed /\ Sound(used_ring', used_idx, used_hw)
  BY <1>3, <1>4, <1>6, WriteSlot
<1>8. /\ (used_hw + 1) % UINT16 \in Indices
      /\ Entries(used_ring', used_idx, (used_hw + 1) % UINT16) = InUsed \cup {i}
      /\ Sound(used_ring', used_idx, (used_hw + 1) % UINT16)
  <2>1. used_ring'[used_hw % NUM] \notin Entries(used_ring', used_idx, used_hw)
    BY <1>1, <1>6, <1>7
  <2>2. /\ (used_hw + 1) % UINT16 \in Indices
        /\ Entries(used_ring', used_idx, (used_hw + 1) % UINT16)
             = Entries(used_ring', used_idx, used_hw) \cup {used_ring'[used_hw % NUM]}
        /\ Sound(used_ring', used_idx, (used_hw + 1) % UINT16)
    BY <1>3, <1>5, <1>7, <2>1, PutEntry
  <2>3. QED
    BY <1>6, <1>7, <2>2
<1>9. used_hw' \in Indices /\ InUsed' = InUsed \cup {i} /\ Sound(used_ring, used_idx, used_hw)'
  BY <1>1, <1>8 DEF InUsed
<1>10. InAvail' = InAvail /\ Sound(avail_ring, seen, avail_idx)'
  BY <1>1 DEF InAvail, IInv, RingInv
<1>11. QED
  BY <1>1, <1>6, <1>9, <1>10 DEF RingInv

\* alloc_format() writes a slot of the avail ring that the device does not look at yet.
LEMMA FormatRing ==
  ASSUME TypeOK, IInv, NEW b \in Bufs, alloc_format(b)
  PROVE  InAvail' = InAvail /\ InUsed' = InUsed /\ RingInv'
<1>1. PICK i : avail_ring' = [avail_ring EXCEPT ![avail_idx % NUM] = i]
  BY FormatEffect DEF Formats
<1>2. UNCHANGED <<avail_idx, used_idx, seen, used_ring, used_hw>>
  BY DEF alloc_format, device
<1>3. seen \in Indices /\ avail_idx \in Indices /\ Sound(avail_ring, seen, avail_idx)
  BY RingTypes DEF IInv, RingInv
<1>4. \A s \in Descs : s # avail_idx % NUM => avail_ring'[s] = avail_ring[s]
  BY <1>1 DEF TypeOK
<1>5. Entries(avail_ring', seen, avail_idx) = InAvail /\ Sound(avail_ring', seen, avail_idx)
  BY <1>3, <1>4, WriteSlot DEF InAvail
<1>6. InAvail' = InAvail /\ Sound(avail_ring, seen, avail_idx)'
  BY <1>2, <1>5 DEF InAvail
<1>7. InUsed' = InUsed /\ Sound(used_ring, used_idx, used_hw)'
  BY <1>2 DEF InUsed, IInv, RingInv
<1>8. QED
  BY <1>6, <1>7 DEF RingInv

-----------------------------------------------------------------------------
(* The steps keep the invariant, one conjunct at a time.                   *)

DescType == [addr : Addrs, next : Descs, flags : SUBSET {"NEXT", "WRITE"}]

LEMMA DescTypes ==
  /\ 0 \in Descs /\ NoDesc \in DescType
  /\ \A i, j \in Descs : /\ [addr |-> <<"op", i>>, next |-> j, flags |-> {"NEXT"}] \in DescType
                         /\ [addr |-> <<"status", i>>, next |-> 0, flags |-> {"WRITE"}] \in DescType
  /\ \A b \in Bufs, k \in Descs, w \in BOOLEAN :
       [addr |-> <<"data", b>>, next |-> k, flags |-> DataFlags(w)] \in DescType
<1>1. 0 \in Descs
  BY Sizes DEF Descs
<1>2. /\ <<"none">> \in Addrs
      /\ \A i \in Descs : <<"op", i>> \in Addrs /\ <<"status", i>> \in Addrs
      /\ \A b \in Bufs : <<"data", b>> \in Addrs
  BY DEF Addrs
<1>3. \A w \in BOOLEAN : DataFlags(w) \in SUBSET {"NEXT", "WRITE"}
  BY DEF DataFlags
<1>4. QED
  BY <1>1, <1>2, <1>3 DEF DescType, NoDesc

InfoType == [b : Bufs \cup {NoBuf}, status : {"pending", "ok"}]

LEMMA InfoTypes ==
  ASSUME TypeOK, NEW i \in Descs
  PROVE  [info EXCEPT ![i].b = NoBuf] \in [Descs -> InfoType] /\ [info EXCEPT ![i].status = "ok"] \in [Descs -> InfoType]
<1>1. info \in [Descs -> InfoType]
  BY DEF TypeOK, InfoType
<1>2. [info[i] EXCEPT !.b = NoBuf] \in InfoType /\ [info[i] EXCEPT !.status = "ok"] \in InfoType
  BY <1>1 DEF InfoType
<1>3. QED
  BY <1>1, <1>2

LEMMA TypeStep ==
  ASSUME TypeOK, IInv, Next
  PROVE  TypeOK'
<1>1. ASSUME NEW b \in Bufs, NEW w \in BOOLEAN, NEW d \in Contents[b], virtio_disk_rw(b, w, d)
      PROVE  TypeOK'
  BY <1>1 DEF TypeOK, virtio_disk_rw, device, PC
<1>2. ASSUME NEW b \in Bufs, alloc_sleep(b) PROVE TypeOK'
  <2>1. desc' \in [Descs -> DescType]
    BY <1>2, DescTypes DEF TypeOK, alloc_sleep, DescType
  <2>2. pc' \in [Bufs -> PC]
    BY <1>2 DEF TypeOK, alloc_sleep, PC, WakeupFree
  <2>3. QED
    BY <1>2, <2>1, <2>2 DEF TypeOK, alloc_sleep, device, DescType
<1>3. ASSUME NEW b \in Bufs, alloc_format(b) PROVE TypeOK'
  <2>1. PICK i, j, k \in Free : Formats(b, i, j, k)
    BY <1>3, FormatEffect
  <2>2. i \in Descs /\ j \in Descs /\ k \in Descs /\ write[b] \in BOOLEAN
    BY DEF Free, TypeOK
  <2>3. free' \in [Descs -> BOOLEAN] /\ idx' \in [Bufs -> Descs] /\ avail_ring' \in [Descs -> Descs]
    BY <2>1, <2>2 DEF TypeOK, Formats
  <2>4. ops' \in [Descs -> [write : BOOLEAN, buf : Bufs \cup {NoBuf}]]
    BY <2>1, <2>2 DEF TypeOK, Formats
  <2>5. info' \in [Descs -> [b : Bufs \cup {NoBuf}, status : {"pending", "ok"}]]
    BY <2>1, <2>2 DEF TypeOK, Formats
  <2>6. desc' \in [Descs -> DescType]
    <3> DEFINE di == [addr |-> <<"op", i>>, next |-> j, flags |-> {"NEXT"}]
               dj == [addr |-> <<"data", b>>, next |-> k, flags |-> DataFlags(write[b])]
               dk == [addr |-> <<"status", i>>, next |-> 0, flags |-> {"WRITE"}]
    <3>1. di \in DescType /\ dj \in DescType /\ dk \in DescType /\ desc \in [Descs -> DescType]
      BY <2>2, DescTypes DEF TypeOK, DescType
    <3>2. desc' = [desc EXCEPT ![i] = di, ![j] = dj, ![k] = dk]
      BY <2>1 DEF Formats
    <3> HIDE DEF di, dj, dk
    <3>3. QED
      BY <2>2, <3>1, <3>2
  <2>7. QED
    BY <1>3, <2>3, <2>4, <2>5, <2>6 DEF TypeOK, alloc_format, device, PC, DescType
<1>4. ASSUME NEW b \in Bufs, publish(b) PROVE TypeOK'
  <2>1. pc' = [pc EXCEPT ![b] = "sleep"] /\ UNCHANGED <<free, desc, ops, info, idx, write, panicked>> /\ avail_idx' \in Indices
    BY <1>4, PublishEffect
  <2>2. QED
    BY <1>4, <2>1 DEF TypeOK, publish, device, PC, Indices
<1>5. ASSUME NEW b \in Bufs, recheck(b) PROVE TypeOK'
  <2>1. /\ info' = [info EXCEPT ![idx[b]].b = NoBuf]
        /\ panicked' = FALSE
        /\ free' = [i \in Descs |-> free[i] \/ i \in Trio(b)]
        /\ desc' = [i \in Descs |-> IF i \in Trio(b) THEN NoDesc ELSE desc[i]]
        /\ pc' = WakeupFree([pc EXCEPT ![b] = "idle"])
        /\ ops' = [ops EXCEPT ![idx[b]] = NoOp]
        /\ idx' = [idx EXCEPT ![b] = 0]
        /\ write' = [write EXCEPT ![b] = FALSE]
    BY <1>5, ReturnEffect
  <2>2. desc' \in [Descs -> DescType]
    BY <2>1, DescTypes DEF TypeOK, DescType
  <2>3. pc' \in [Bufs -> PC]
    BY <2>1 DEF TypeOK, PC, WakeupFree
  <2>4. free' \in [Descs -> BOOLEAN]
    BY <2>1 DEF TypeOK
  <2>5. info' \in [Descs -> [b : Bufs \cup {NoBuf}, status : {"pending", "ok"}]]
    BY <2>1, InfoTypes DEF TypeOK, InfoType
  <2>6. ops' \in [Descs -> [write : BOOLEAN, buf : Bufs \cup {NoBuf}]]
    BY <2>1 DEF TypeOK, NoOp
  <2>7. idx' \in [Bufs -> Descs] /\ write' \in [Bufs -> BOOLEAN]
    BY <2>1, DescTypes DEF TypeOK
  <2>8. QED
    BY <1>5, <2>1, <2>2, <2>3, <2>4, <2>5, <2>6, <2>7 DEF TypeOK, recheck, device, DescType
<1>6. CASE virtio_disk_intr
  BY <1>6 DEF TypeOK, virtio_disk_intr, device
<1>7. CASE intr_complete
  <2>1. PICK b \in Bufs :
          /\ busy' = [busy EXCEPT ![b] = FALSE] /\ pc' = [pc EXCEPT ![b] = "woken"]
          /\ UNCHANGED panicked /\ used_idx' \in Indices /\ used_ring' \in [Descs -> Descs]
    BY <1>7, IntrEffect
  <2>2. QED
    BY <1>7, <2>1 DEF TypeOK, intr_complete, PC, Indices
<1>8. CASE intr_return
  BY <1>8 DEF TypeOK, intr_return, device
<1>9. CASE DeviceTake
  <2>1. PICK h \in InAvail : taken' = taken \cup {h} /\ seen' \in Indices /\ avail_ring' \in [Descs -> Descs]
    BY <1>9, TakeEffect
  <2>2. h \in Descs
    BY RingTypes DEF Placed
  <2>3. QED
    BY <1>9, <2>1, <2>2 DEF TypeOK, DeviceTake, Indices
<1>10. ASSUME NEW i \in Descs, DeviceTransfer(i) PROVE TypeOK'
  <2>1. info' = [info EXCEPT ![i].status = "ok"]
    BY <1>10, TransferEffect
  <2>2. info' \in [Descs -> [b : Bufs \cup {NoBuf}, status : {"pending", "ok"}]]
    BY <2>1, InfoTypes DEF InfoType
  <2>3. QED
    BY <1>10, <2>2 DEF TypeOK, DeviceTransfer
<1>11. ASSUME NEW i \in Descs, DeviceComplete(i) PROVE TypeOK'
  <2>1. used_hw' \in Indices /\ used_ring' \in [Descs -> Descs]
    BY <1>11, CompleteEffect
  <2>2. QED
    BY <1>11, <2>1 DEF TypeOK, DeviceComplete, driver, Indices
<1>12. QED
  BY <1>1, <1>2, <1>3, <1>4, <1>5, <1>6, <1>7, <1>8, <1>9, <1>10, <1>11 DEF Next, Driver, Device

\* A request whose descriptors a step leaves alone.
LEMMA TrioKept ==
  ASSUME ChainInv, NEW c \in Waiting, idx'[c] = idx[c], \A n \in Trio(c) : desc'[n] = desc[n],
         ops'[idx[c]].buf = ops[idx[c]].buf, info'[idx[c]].b = info[idx[c]].b, write'[c] = write[c]
  PROVE  Trio(c)' = Trio(c) /\ Formatted(c)'
<1>1. idx[c] \in Trio(c) /\ DataDesc(c) \in Trio(c) /\ StatusDesc(c) \in Trio(c)
  BY DEF Trio
<1>2. DataDesc(c)' = DataDesc(c)
  BY <1>1 DEF DataDesc
<1>3. StatusDesc(c)' = StatusDesc(c)
  BY <1>1, <1>2 DEF StatusDesc
<1>4. Trio(c)' = Trio(c)
  BY <1>2, <1>3 DEF Trio
<1>5. Formatted(c)
  BY DEF ChainInv
<1>6. Formatted(c)'
  BY <1>1, <1>2, <1>3, <1>5 DEF Formatted
<1>7. QED
  BY <1>4, <1>6

LEMMA ChainKept ==
  ASSUME ChainInv, UNCHANGED <<free, idx, ops>>, Waiting' = Waiting,
         \A c \in Waiting : /\ write'[c] = write[c] /\ info'[idx[c]].b = info[idx[c]].b
                            /\ \A n \in Trio(c) : desc'[n] = desc[n]
  PROVE  ChainInv'
<1>1. \A c \in Waiting : Trio(c)' = Trio(c) /\ Formatted(c)'
  BY TrioKept
<1>2. QED
  BY <1>1 DEF ChainInv

LEMMA ChainStep ==
  ASSUME TypeOK, IInv, Next
  PROVE  ChainInv'
<1>0. ChainInv
  BY DEF IInv
<1>1. ASSUME NEW b \in Bufs, NEW w \in BOOLEAN, NEW d \in Contents[b], virtio_disk_rw(b, w, d)
      PROVE  ChainInv'
  <2>1. Waiting' = Waiting /\ \A c \in Waiting : write'[c] = write[c]
    BY <1>1 DEF TypeOK, virtio_disk_rw, Waiting
  <2>2. QED
    BY <1>0, <1>1, <2>1, ChainKept DEF virtio_disk_rw
<1>2. ASSUME NEW b \in Bufs, alloc_sleep(b) PROVE ChainInv'
  <2>1. Waiting' = Waiting
    BY <1>2 DEF TypeOK, alloc_sleep, Waiting, WakeupFree
  <2>2. \A c \in Waiting : \A n \in Trio(c) : n \in Descs /\ ~free[n]
    BY <1>0, TrioFacts
  <2>3. \A c \in Waiting : \A n \in Trio(c) : desc'[n] = desc[n]
    BY <1>2, <2>2 DEF alloc_sleep, Free
  <2>4. QED
    BY <1>0, <1>2, <2>1, <2>3, ChainKept DEF alloc_sleep
<1>3. ASSUME NEW b \in Bufs, alloc_format(b) PROVE ChainInv'
  <2>1. PICK i, j, k \in Free : Formats(b, i, j, k)
    BY <1>3, FormatEffect
  <2>2. /\ i \in Descs /\ j \in Descs /\ k \in Descs /\ free[i] /\ free[j] /\ free[k]
        /\ i # j /\ i # k /\ j # k
    BY <2>1 DEF Free, Formats
  <2>3. b \notin Waiting /\ Waiting' = Waiting \cup {b} /\ UNCHANGED write
    BY <1>3 DEF TypeOK, alloc_format, Waiting
  <2>4. ASSUME NEW c \in Waiting PROVE Trio(c)' = Trio(c) /\ Formatted(c)'
    <3>1. \A n \in Trio(c) : n \in Descs /\ ~free[n]
      BY <1>0, TrioFacts
    <3>2. \A n \in Trio(c) : n # i /\ n # j /\ n # k
      BY <2>2, <3>1
    <3>3. idx[c] \in Trio(c) /\ c # b /\ c \in Bufs
      BY <2>3 DEF Trio, Waiting
    <3>4. \A n \in Trio(c) : desc'[n] = desc[n]
      BY <2>1, <2>2, <3>1, <3>2 DEF Formats, TypeOK
    <3>5. ops'[idx[c]] = ops[idx[c]] /\ info'[idx[c]] = info[idx[c]] /\ idx'[c] = idx[c]
      BY <2>1, <2>2, <3>1, <3>2, <3>3 DEF Formats, TypeOK
    <3>6. QED
      BY <1>0, <2>3, <3>4, <3>5, TrioKept
  <2>5. idx'[b] = i
    BY <2>1 DEF Formats, TypeOK
  <2>6. /\ desc'[i] = [addr |-> <<"op", i>>, next |-> j, flags |-> {"NEXT"}]
        /\ desc'[j] = [addr |-> <<"data", b>>, next |-> k, flags |-> DataFlags(write[b])]
        /\ desc'[k] = [addr |-> <<"status", i>>, next |-> 0, flags |-> {"WRITE"}]
    BY <2>1, <2>2 DEF Formats, TypeOK
  <2>7. DataDesc(b)' = j /\ StatusDesc(b)' = k /\ Trio(b)' = {i, j, k}
    BY <2>5, <2>6 DEF DataDesc, StatusDesc, Trio
  <2>8. Formatted(b)'
    <3>1. ops'[i].buf = b /\ info'[i].b = b
      BY <2>1, <2>2 DEF Formats, TypeOK
    <3>2. QED
      BY <2>2, <2>3, <2>5, <2>6, <2>7, <3>1 DEF Formatted, DataFlags
  <2>9. \A c \in Waiting' : Formatted(c)'
    BY <2>3, <2>4, <2>8
  <2>10. \A c, d \in Waiting' : c # d => Trio(c)' \cap Trio(d)' = {}
    <3>1. \A c \in Waiting : Trio(c) \cap {i, j, k} = {}
      BY <1>0, <2>2, TrioFacts
    <3>2. \A c, d \in Waiting : c # d => Trio(c) \cap Trio(d) = {}
      BY <1>0 DEF ChainInv
    <3>3. QED
      BY <2>3, <2>4, <2>7, <3>1, <3>2
  <2>11. \A n \in Descs : ~free'[n] <=> ~free[n] \/ n \in {i, j, k}
    BY <2>1, <2>2 DEF Formats, TypeOK
  <2>12. \A n \in Descs : ~free'[n] <=> \E c \in Waiting' : n \in Trio(c)'
    BY <1>0, <2>3, <2>4, <2>7, <2>11 DEF ChainInv
  <2>13. QED
    BY <2>9, <2>10, <2>12 DEF ChainInv
<1>4. ASSUME NEW b \in Bufs, publish(b) PROVE ChainInv'
  <2>1. pc[b] = "publish" /\ pc' = [pc EXCEPT ![b] = "sleep"] /\ UNCHANGED <<free, desc, ops, info, idx, write, panicked>>
    BY <1>4, PublishEffect
  <2>2. Waiting' = Waiting
    BY <2>1 DEF TypeOK, Waiting
  <2>3. QED
    BY <1>0, <2>1, <2>2, ChainKept
<1>5. ASSUME NEW b \in Bufs, recheck(b) PROVE ChainInv'
  <2>1. /\ pc[b] = "woken" /\ b \in Waiting
        /\ info' = [info EXCEPT ![idx[b]].b = NoBuf]
        /\ free' = [i \in Descs |-> free[i] \/ i \in Trio(b)]
        /\ desc' = [i \in Descs |-> IF i \in Trio(b) THEN NoDesc ELSE desc[i]]
        /\ pc' = WakeupFree([pc EXCEPT ![b] = "idle"])
        /\ ops' = [ops EXCEPT ![idx[b]] = NoOp]
        /\ idx' = [idx EXCEPT ![b] = 0]
        /\ write' = [write EXCEPT ![b] = FALSE]
    BY <1>5, ReturnEffect
  <2>2. Waiting' = Waiting \ {b}
    BY <2>1 DEF TypeOK, Waiting, WakeupFree
  <2>3. ASSUME NEW c \in Waiting, c # b PROVE Trio(c)' = Trio(c) /\ Formatted(c)'
    <3>1. \A n \in Trio(c) : n \in Descs /\ n \notin Trio(b)
      BY <1>0, <2>1, <2>3, TrioFacts
    <3>2. idx[c] \in Trio(c) /\ idx[b] \in Trio(b) /\ c \in Bufs
      BY DEF Trio, Waiting
    <3>3. \A n \in Trio(c) : desc'[n] = desc[n]
      BY <2>1, <3>1
    <3>4. idx'[c] = idx[c] /\ write'[c] = write[c]
      BY <2>1, <2>3, <3>2 DEF TypeOK
    <3>5. ops'[idx[c]] = ops[idx[c]] /\ info'[idx[c]] = info[idx[c]]
      BY <2>1, <3>1, <3>2 DEF TypeOK
    <3>6. QED
      BY <1>0, <3>3, <3>4, <3>5, TrioKept
  <2>4. \A n \in Descs : ~free'[n] <=> ~free[n] /\ n \notin Trio(b)
    BY <2>1
  <2>5. \A n \in Descs : ~free'[n] <=> \E c \in Waiting' : n \in Trio(c)'
    <3>1. \A c, d \in Waiting : c # d => Trio(c) \cap Trio(d) = {}
      BY <1>0 DEF ChainInv
    <3>2. \A n \in Descs : ~free[n] <=> \E c \in Waiting : n \in Trio(c)
      BY <1>0 DEF ChainInv
    <3>3. QED
      BY <2>1, <2>2, <2>3, <2>4, <3>1, <3>2
  <2>6. \A c \in Waiting' : Formatted(c)'
    BY <2>2, <2>3
  <2>7. \A c, d \in Waiting' : c # d => Trio(c)' \cap Trio(d)' = {}
    BY <1>0, <2>2, <2>3 DEF ChainInv
  <2>8. QED
    BY <2>5, <2>6, <2>7 DEF ChainInv
<1>6. CASE virtio_disk_intr \/ intr_return
  <2>1. Waiting' = Waiting
    BY <1>6 DEF virtio_disk_intr, intr_return, Waiting
  <2>2. QED
    BY <1>0, <1>6, <2>1, ChainKept DEF virtio_disk_intr, intr_return
<1>7. CASE intr_complete
  <2>1. PICK b \in Bufs : pc[b] = "sleep" /\ pc' = [pc EXCEPT ![b] = "woken"]
    BY <1>7, IntrEffect
  <2>2. Waiting' = Waiting
    BY <2>1 DEF TypeOK, Waiting
  <2>3. QED
    BY <1>0, <1>7, <2>2, ChainKept DEF intr_complete
<1>8. CASE DeviceTake
  <2>1. Waiting' = Waiting
    BY <1>8 DEF DeviceTake, Waiting
  <2>2. QED
    BY <1>0, <1>8, <2>1, ChainKept DEF DeviceTake
<1>9. ASSUME NEW i \in Descs, DeviceTransfer(i) PROVE ChainInv'
  <2>1. info' = [info EXCEPT ![i].status = "ok"]
    BY <1>9, TransferEffect
  <2>2. Waiting' = Waiting
    BY <1>9 DEF DeviceTransfer, Waiting
  <2>3. \A c \in Waiting : info'[idx[c]].b = info[idx[c]].b
    BY <2>1 DEF TypeOK, Waiting
  <2>4. QED
    BY <1>0, <1>9, <2>2, <2>3, ChainKept DEF DeviceTransfer
<1>10. ASSUME NEW i \in Descs, DeviceComplete(i) PROVE ChainInv'
  <2>1. Waiting' = Waiting
    BY <1>10 DEF DeviceComplete, driver, Waiting
  <2>2. QED
    BY <1>0, <1>10, <2>1, ChainKept DEF DeviceComplete, driver
<1>11. QED
  BY <1>1, <1>2, <1>3, <1>4, <1>5, <1>6, <1>7, <1>8, <1>9, <1>10 DEF Next, Driver, Device

LEMMA CallerStep ==
  ASSUME TypeOK, IInv, Next
  PROVE  CallerInv'
<1>0. /\ \A b \in Bufs : busy[b] <=> pc[b] \in {"publish", "sleep"}
      /\ \A b \in Bufs : lock = b <=> pc[b] = "publish"
      /\ \A b \in Bufs : pc[b] = "publish" => avail_ring[avail_idx % NUM] = idx[b]
      /\ \A b \in Bufs : b # NoBuf /\ b # Intr
  BY NameAssumption DEF IInv, CallerInv
<1>1. ASSUME NEW b \in Bufs, NEW w \in BOOLEAN, NEW d \in Contents[b], virtio_disk_rw(b, w, d)
      PROVE  CallerInv'
  BY <1>0, <1>1 DEF TypeOK, virtio_disk_rw, CallerInv
<1>2. ASSUME NEW b \in Bufs, alloc_sleep(b) PROVE CallerInv'
  BY <1>0, <1>2 DEF TypeOK, alloc_sleep, WakeupFree, CallerInv
<1>3. ASSUME NEW b \in Bufs, alloc_format(b) PROVE CallerInv'
  <2>1. PICK i, j, k \in Free : Formats(b, i, j, k)
    BY <1>3, FormatEffect
  <2>2. avail_ring'[avail_idx % NUM] = i /\ idx'[b] = i
    BY <2>1, RingTypes DEF Formats, TypeOK
  <2>3. /\ busy' = [busy EXCEPT ![b] = TRUE] /\ lock' = b /\ lock = NoBuf /\ avail_idx' = avail_idx
        /\ pc' = [pc EXCEPT ![b] = "publish"]
    BY <1>3 DEF alloc_format
  <2>4. \A c \in Bufs : pc'[c] = "publish" <=> c = b
    BY <1>0, <2>3 DEF TypeOK
  <2>5. \A c \in Bufs : busy'[c] <=> pc'[c] \in {"publish", "sleep"}
    BY <1>0, <2>3 DEF TypeOK
  <2>6. QED
    BY <2>2, <2>3, <2>4, <2>5 DEF CallerInv
<1>4. ASSUME NEW b \in Bufs, publish(b) PROVE CallerInv'
  <2>1. pc[b] = "publish" /\ lock = b /\ pc' = [pc EXCEPT ![b] = "sleep"]
    BY <1>4, PublishEffect
  <2>2. lock' = NoBuf /\ UNCHANGED busy
    BY <1>4 DEF publish
  <2>3. QED
    BY <1>0, <2>1, <2>2 DEF TypeOK, CallerInv
<1>5. ASSUME NEW b \in Bufs, recheck(b) PROVE CallerInv'
  <2>1. pc[b] = "woken" /\ lock = NoBuf /\ pc' = WakeupFree([pc EXCEPT ![b] = "idle"])
    BY <1>5, ReturnEffect
  <2>2. UNCHANGED <<lock, busy>>
    BY <1>5 DEF recheck
  <2>3. QED
    BY <1>0, <2>1, <2>2 DEF TypeOK, WakeupFree, CallerInv
<1>6. CASE virtio_disk_intr
  BY <1>0, <1>6 DEF virtio_disk_intr, CallerInv
<1>7. CASE intr_complete
  <2>1. PICK b \in Bufs : pc[b] = "sleep" /\ busy' = [busy EXCEPT ![b] = FALSE] /\ pc' = [pc EXCEPT ![b] = "woken"]
    BY <1>7, IntrEffect
  <2>2. UNCHANGED <<lock, avail_ring, avail_idx, idx>>
    BY <1>7 DEF intr_complete
  <2>3. QED
    BY <1>0, <2>1, <2>2 DEF TypeOK, CallerInv
<1>8. CASE intr_return
  BY <1>0, <1>8 DEF intr_return, CallerInv
<1>9. CASE DeviceTake
  <2>1. avail_ring'[avail_idx % NUM] = avail_ring[avail_idx % NUM]
    BY <1>9, TakeEffect
  <2>2. QED
    BY <1>0, <1>9, <2>1 DEF DeviceTake, CallerInv
<1>10. ASSUME NEW i \in Descs, DeviceTransfer(i) \/ DeviceComplete(i) PROVE CallerInv'
  BY <1>0, <1>10 DEF DeviceTransfer, DeviceComplete, driver, CallerInv
<1>11. QED
  BY <1>1, <1>2, <1>3, <1>4, <1>5, <1>6, <1>7, <1>8, <1>9, <1>10 DEF Next, Driver, Device

\* A step that leaves both rings alone.
LEMMA RingsKept ==
  ASSUME RingInv, UNCHANGED <<avail_ring, avail_idx, seen, used_ring, used_idx, used_hw>>
  PROVE  InAvail' = InAvail /\ InUsed' = InUsed /\ RingInv'
  BY DEF InAvail, InUsed, RingInv

LEMMA PlaceKept ==
  ASSUME PlaceInv, InAvail' = InAvail, InUsed' = InUsed, UNCHANGED <<taken, finished>>,
         \A b \in Bufs : (pc'[b] = "sleep" <=> pc[b] = "sleep") /\ (pc[b] = "sleep" => idx'[b] = idx[b])
  PROVE  PlaceInv'
  BY DEF PlaceInv

\* Requests move from one place to the next.
LEMMA PlaceStep ==
  ASSUME TypeOK, IInv, Next
  PROVE  RingInv' /\ PlaceInv'
<1>0. RingInv /\ PlaceInv
  BY DEF IInv
<1>1. ASSUME NEW b \in Bufs, NEW w \in BOOLEAN, NEW d \in Contents[b], virtio_disk_rw(b, w, d)
      PROVE  RingInv' /\ PlaceInv'
  <2>1. \A c \in Bufs : (pc'[c] = "sleep" <=> pc[c] = "sleep") /\ idx'[c] = idx[c]
    BY <1>1 DEF TypeOK, virtio_disk_rw
  <2>2. QED
    BY <1>0, <1>1, <2>1, RingsKept, PlaceKept DEF virtio_disk_rw, device
<1>2. ASSUME NEW b \in Bufs, alloc_sleep(b) PROVE RingInv' /\ PlaceInv'
  <2>1. \A c \in Bufs : (pc'[c] = "sleep" <=> pc[c] = "sleep") /\ idx'[c] = idx[c]
    BY <1>2 DEF TypeOK, alloc_sleep, WakeupFree
  <2>2. QED
    BY <1>0, <1>2, <2>1, RingsKept, PlaceKept DEF alloc_sleep, device
<1>3. ASSUME NEW b \in Bufs, alloc_format(b) PROVE RingInv' /\ PlaceInv'
  <2>1. PICK i, j, k \in Free : Formats(b, i, j, k)
    BY <1>3, FormatEffect
  <2>2. pc[b] = "alloc" /\ pc' = [pc EXCEPT ![b] = "publish"] /\ UNCHANGED <<taken, finished>>
    BY <1>3 DEF alloc_format, device
  <2>3. \A c \in Bufs : (pc'[c] = "sleep" <=> pc[c] = "sleep") /\ (pc[c] = "sleep" => idx'[c] = idx[c])
    BY <2>1, <2>2 DEF TypeOK, Formats
  <2>4. InAvail' = InAvail /\ InUsed' = InUsed /\ RingInv'
    BY <1>3, FormatRing
  <2>5. QED
    BY <1>0, <2>2, <2>3, <2>4, PlaceKept
<1>4. ASSUME NEW b \in Bufs, publish(b) PROVE RingInv' /\ PlaceInv'
  <2>1. /\ pc[b] = "publish" /\ pc' = [pc EXCEPT ![b] = "sleep"] /\ UNCHANGED idx
        /\ InAvail' = InAvail \cup {idx[b]} /\ InUsed' = InUsed /\ RingInv' /\ idx[b] \notin Placed
    BY <1>4, PublishEffect
  <2>2. UNCHANGED <<taken, finished>>
    BY <1>4 DEF publish, device
  <2>3. \A c \in Bufs : pc'[c] = "sleep" <=> pc[c] = "sleep" \/ c = b
    BY <2>1 DEF TypeOK
  <2>4. QED
    BY <1>0, <2>1, <2>2, <2>3 DEF PlaceInv, Placed
<1>5. ASSUME NEW b \in Bufs, recheck(b) PROVE RingInv' /\ PlaceInv'
  <2>1. pc[b] = "woken" /\ pc' = WakeupFree([pc EXCEPT ![b] = "idle"]) /\ idx' = [idx EXCEPT ![b] = 0]
    BY <1>5, ReturnEffect
  <2>2. \A c \in Bufs : (pc'[c] = "sleep" <=> pc[c] = "sleep") /\ (pc[c] = "sleep" => idx'[c] = idx[c])
    BY <2>1 DEF TypeOK, WakeupFree
  <2>3. QED
    BY <1>0, <1>5, <2>2, RingsKept, PlaceKept DEF recheck, device
<1>6. CASE virtio_disk_intr \/ intr_return
  BY <1>0, <1>6, RingsKept, PlaceKept DEF virtio_disk_intr, intr_return, device
<1>7. CASE intr_complete
  <2>1. PICK b \in Bufs :
           /\ pc[b] = "sleep" /\ b \in Waiting /\ idx[b] \in InUsed
           /\ pc' = [pc EXCEPT ![b] = "woken"]
           /\ InUsed' = InUsed \ {idx[b]} /\ InAvail' = InAvail /\ RingInv'
    BY <1>7, IntrEffect
  <2>2. UNCHANGED <<idx, taken, finished>>
    BY <1>7 DEF intr_complete
  <2>3. \A c \in Bufs : pc'[c] = "sleep" <=> pc[c] = "sleep" /\ c # b
    BY <2>1 DEF TypeOK
  <2>4. \A c \in Bufs : pc[c] = "sleep" /\ c # b => idx[c] # idx[b]
    BY <2>1, TrioFacts DEF IInv, Waiting
  <2>5. \A n \in Descs : n \in (InAvail \cup taken \cup finished \cup InUsed)'
                           <=> n \in InAvail \cup taken \cup finished \cup InUsed /\ n # idx[b]
    BY <1>0, <2>1, <2>2 DEF PlaceInv
  <2>6. \A n \in Descs : n \in (InAvail \cup taken \cup finished \cup InUsed)'
                           <=> \E c \in Bufs : pc'[c] = "sleep" /\ idx'[c] = n
    BY <1>0, <2>1, <2>2, <2>3, <2>4, <2>5 DEF PlaceInv
  <2>7. QED
    BY <1>0, <2>1, <2>2, <2>6 DEF PlaceInv
<1>8. CASE DeviceTake
  <2>1. PICK h \in InAvail : taken' = taken \cup {h} /\ InAvail' = InAvail \ {h} /\ InUsed' = InUsed /\ RingInv'
    BY <1>8, TakeEffect
  <2>2. UNCHANGED <<idx, pc, finished>>
    BY <1>8 DEF DeviceTake
  <2>3. QED
    BY <1>0, <2>1, <2>2 DEF PlaceInv
<1>9. ASSUME NEW i \in Descs, DeviceTransfer(i) PROVE RingInv' /\ PlaceInv'
  <2>1. i \in taken /\ taken' = taken \ {i} /\ finished' = finished \cup {i} /\ UNCHANGED <<idx, pc>>
    BY <1>9 DEF DeviceTransfer
  <2>2. InAvail' = InAvail /\ InUsed' = InUsed /\ RingInv'
    BY <1>0, <1>9, RingsKept DEF DeviceTransfer
  <2>3. QED
    BY <1>0, <2>1, <2>2 DEF PlaceInv
<1>10. ASSUME NEW i \in Descs, DeviceComplete(i) PROVE RingInv' /\ PlaceInv'
  <2>1. i \in finished /\ finished' = finished \ {i} /\ InUsed' = InUsed \cup {i} /\ InAvail' = InAvail /\ RingInv'
    BY <1>10, CompleteEffect
  <2>2. UNCHANGED <<idx, pc, taken>>
    BY <1>10 DEF DeviceComplete, driver
  <2>3. QED
    BY <1>0, <2>1, <2>2 DEF PlaceInv
<1>11. QED
  BY <1>1, <1>2, <1>3, <1>4, <1>5, <1>6, <1>7, <1>8, <1>9, <1>10 DEF Next, Driver, Device

LEMMA StatusStep ==
  ASSUME TypeOK, IInv, Next
  PROVE  StatusInv'
<1> DEFINE Done(c) == pc[c] = "woken" \/ idx[c] \in finished \cup InUsed
<1>0. \A c \in Waiting : info[idx[c]].status = "ok" <=> Done(c)
  BY DEF IInv, StatusInv
<1>1. ASSUME NEW b \in Bufs, NEW w \in BOOLEAN, NEW d \in Contents[b], virtio_disk_rw(b, w, d)
      PROVE  StatusInv'
  <2>1. Waiting' = Waiting /\ \A c \in Waiting : pc'[c] = pc[c]
    BY <1>1 DEF TypeOK, virtio_disk_rw, Waiting
  <2>2. InUsed' = InUsed
    BY <1>1, RingsKept DEF virtio_disk_rw, device, IInv
  <2>3. QED
    BY <1>0, <1>1, <2>1, <2>2 DEF virtio_disk_rw, device, StatusInv
<1>2. ASSUME NEW b \in Bufs, alloc_sleep(b) PROVE StatusInv'
  <2>1. Waiting' = Waiting /\ \A c \in Waiting : pc'[c] = pc[c]
    BY <1>2 DEF TypeOK, alloc_sleep, Waiting, WakeupFree
  <2>2. InUsed' = InUsed
    BY <1>2, RingsKept DEF alloc_sleep, device, IInv
  <2>3. QED
    BY <1>0, <1>2, <2>1, <2>2 DEF alloc_sleep, device, StatusInv
<1>3. ASSUME NEW b \in Bufs, alloc_format(b) PROVE StatusInv'
  <2>1. PICK i, j, k \in Free : Formats(b, i, j, k)
    BY <1>3, FormatEffect
  <2>2. i \in Descs /\ free[i] /\ info' = [info EXCEPT ![i] = [b |-> b, status |-> "pending"]] /\ idx' = [idx EXCEPT ![b] = i]
    BY <2>1 DEF Free, Formats
  <2>3. /\ b \notin Waiting /\ Waiting' = Waiting \cup {b} /\ pc' = [pc EXCEPT ![b] = "publish"]
        /\ UNCHANGED finished
    BY <1>3 DEF TypeOK, alloc_format, Waiting, device
  <2>4. InUsed' = InUsed
    BY <1>3, FormatRing
  <2>5. \A c \in Waiting : idx[c] \in Descs /\ ~free[idx[c]] /\ c \in Bufs
    BY TrioFacts DEF IInv, Trio
  <2>6. i \notin Placed
    BY <2>2, <2>5, HeadFacts
  <2>7. idx'[b] = i /\ info'[i].status = "pending" /\ pc'[b] = "publish"
    BY <2>2, <2>3 DEF TypeOK
  <2>8. \A c \in Waiting : idx'[c] = idx[c] /\ info'[idx[c]] = info[idx[c]] /\ pc'[c] = pc[c]
    BY <2>2, <2>3, <2>5 DEF TypeOK
  <2>9. QED
    BY <1>0, <2>3, <2>4, <2>6, <2>7, <2>8 DEF StatusInv, Placed
<1>4. ASSUME NEW b \in Bufs, publish(b) PROVE StatusInv'
  <2>1. /\ pc[b] = "publish" /\ pc' = [pc EXCEPT ![b] = "sleep"] /\ UNCHANGED <<idx, info>> /\ InUsed' = InUsed
    BY <1>4, PublishEffect
  <2>2. Waiting' = Waiting /\ UNCHANGED finished /\ \A c \in Waiting : pc'[c] = "woken" <=> pc[c] = "woken"
    BY <1>4, <2>1 DEF TypeOK, Waiting, publish, device
  <2>3. QED
    BY <1>0, <2>1, <2>2 DEF StatusInv
<1>5. ASSUME NEW b \in Bufs, recheck(b) PROVE StatusInv'
  <2>1. /\ pc[b] = "woken" /\ b \in Waiting
        /\ info' = [info EXCEPT ![idx[b]].b = NoBuf]
        /\ pc' = WakeupFree([pc EXCEPT ![b] = "idle"])
        /\ idx' = [idx EXCEPT ![b] = 0]
    BY <1>5, ReturnEffect
  <2>2. Waiting' = Waiting \ {b} /\ \A c \in Waiting : c # b => pc'[c] = pc[c] /\ idx'[c] = idx[c] /\ idx[c] \in Descs
    BY <2>1 DEF TypeOK, Waiting, WakeupFree
  <2>3. \A c \in Waiting : c # b => info'[idx[c]] = info[idx[c]]
    <3>1. \A c \in Waiting : c # b => idx[c] # idx[b]
      BY <2>1, TrioFacts DEF IInv
    <3>2. QED
      BY <2>1, <2>2, <3>1 DEF TypeOK
  <2>4. InUsed' = InUsed /\ UNCHANGED finished
    BY <1>5, RingsKept DEF recheck, device, IInv
  <2>5. QED
    BY <1>0, <2>2, <2>3, <2>4 DEF StatusInv
<1>6. CASE virtio_disk_intr \/ intr_return
  <2>1. InUsed' = InUsed
    BY <1>6, RingsKept DEF virtio_disk_intr, intr_return, device, IInv
  <2>2. Waiting' = Waiting
    BY <1>6 DEF virtio_disk_intr, intr_return, Waiting
  <2>3. QED
    BY <1>0, <1>6, <2>1, <2>2 DEF virtio_disk_intr, intr_return, device, StatusInv
<1>7. CASE intr_complete
  <2>1. PICK b \in Bufs :
           /\ pc[b] = "sleep" /\ b \in Waiting /\ idx[b] \in InUsed
           /\ pc' = [pc EXCEPT ![b] = "woken"] /\ InUsed' = InUsed \ {idx[b]}
    BY <1>7, IntrEffect
  <2>2. UNCHANGED <<idx, info, finished>>
    BY <1>7 DEF intr_complete
  <2>3. Waiting' = Waiting /\ pc'[b] = "woken" /\ \A c \in Waiting : c # b => pc'[c] = pc[c]
    BY <2>1 DEF TypeOK, Waiting
  <2>4. \A c \in Waiting : c # b => idx[c] # idx[b]
    BY <2>1, TrioFacts DEF IInv
  <2>5. info[idx[b]].status = "ok"
    BY <1>0, <2>1
  <2>6. QED
    BY <1>0, <2>1, <2>2, <2>3, <2>4, <2>5 DEF StatusInv
<1>8. CASE DeviceTake
  <2>1. InUsed' = InUsed
    BY <1>8, TakeEffect
  <2>2. Waiting' = Waiting /\ UNCHANGED <<pc, idx, info, finished>>
    BY <1>8 DEF DeviceTake, Waiting
  <2>3. QED
    BY <1>0, <2>1, <2>2 DEF StatusInv
<1>9. ASSUME NEW i \in Descs, DeviceTransfer(i) PROVE StatusInv'
  <2>1. PICK b \in Bufs : pc[b] = "sleep" /\ b \in Waiting /\ idx[b] = i /\ info' = [info EXCEPT ![i].status = "ok"]
    BY <1>9, TransferEffect
  <2>2. Waiting' = Waiting /\ UNCHANGED <<pc, idx>> /\ finished' = finished \cup {i}
    BY <1>9 DEF DeviceTransfer, Waiting
  <2>3. InUsed' = InUsed
    BY <1>9, RingsKept DEF DeviceTransfer, IInv
  <2>4. \A c \in Waiting : idx[c] \in Descs /\ (c # b => idx[c] # i)
    BY <2>1, TrioFacts DEF IInv
  <2>5. info'[i].status = "ok" /\ \A c \in Waiting : c # b => info'[idx[c]] = info[idx[c]]
    BY <2>1, <2>4 DEF TypeOK
  <2>6. QED
    BY <1>0, <2>1, <2>2, <2>3, <2>4, <2>5 DEF StatusInv
<1>10. ASSUME NEW i \in Descs, DeviceComplete(i) PROVE StatusInv'
  <2>1. i \in finished /\ finished' = finished \ {i} /\ InUsed' = InUsed \cup {i}
    BY <1>10, CompleteEffect
  <2>2. Waiting' = Waiting /\ UNCHANGED <<pc, idx, info>>
    BY <1>10 DEF DeviceComplete, driver, Waiting
  <2>3. QED
    BY <1>0, <2>1, <2>2 DEF StatusInv
<1>11. QED
  BY <1>1, <1>2, <1>3, <1>4, <1>5, <1>6, <1>7, <1>8, <1>9, <1>10 DEF Next, Driver, Device

\* The interrupt is acknowledged before the used ring is read: no completion is overlooked.
LEMMA SeenStep ==
  ASSUME TypeOK, IInv, CompletionSeen, Next
  PROVE  CompletionSeen'
<1>0. used_idx # used_hw => irq \/ lock = Intr
  BY DEF CompletionSeen
<1>1. ASSUME NEW b \in Bufs, NEW w \in BOOLEAN, NEW d \in Contents[b], virtio_disk_rw(b, w, d)
      PROVE  CompletionSeen'
  BY <1>0, <1>1 DEF virtio_disk_rw, device, CompletionSeen
<1>2. ASSUME NEW b \in Bufs, alloc_sleep(b) \/ alloc_format(b) PROVE CompletionSeen'
  <2>1. lock = NoBuf /\ NoBuf # Intr /\ UNCHANGED <<used_idx, used_hw, irq>>
    BY <1>2, NameAssumption DEF alloc_sleep, alloc_format, device
  <2>2. QED
    BY <1>0, <2>1 DEF CompletionSeen
<1>3. ASSUME NEW b \in Bufs, publish(b) \/ recheck(b) PROVE CompletionSeen'
  <2>1. lock # Intr /\ UNCHANGED <<used_idx, used_hw, irq>>
    BY <1>3, NameAssumption DEF publish, recheck, device, IInv, CallerInv
  <2>2. QED
    BY <1>0, <2>1 DEF CompletionSeen
<1>4. CASE virtio_disk_intr \/ intr_complete \/ intr_return
  BY <1>4 DEF virtio_disk_intr, intr_complete, intr_return, device, CompletionSeen
<1>5. CASE DeviceTake \/ \E i \in Descs : DeviceTransfer(i)
  BY <1>0, <1>5 DEF DeviceTake, DeviceTransfer, CompletionSeen
<1>6. ASSUME NEW i \in Descs, DeviceComplete(i) PROVE CompletionSeen'
  BY <1>6 DEF DeviceComplete, CompletionSeen
<1>7. QED
  BY <1>1, <1>2, <1>3, <1>4, <1>5, <1>6 DEF Next, Driver, Device

\* Descriptors are freed with a wakeup, and a completion wakes its caller.
LEMMA SleepStep ==
  ASSUME TypeOK, IInv, NoLostWakeup, Next, CallerInv'
  PROVE  NoLostWakeup'
<1>1. \A b \in Bufs : pc'[b] = "sleep" => busy'[b]
  BY DEF CallerInv
<1> DEFINE Short == Cardinality(Free) < 3
<1>2. \A b \in Bufs : pc[b] = "sleep_free" => Short
  BY DEF NoLostWakeup
<1>3. ASSUME UNCHANGED free, \A b \in Bufs : pc'[b] = "sleep_free" => pc[b] = "sleep_free" \/ Short
      PROVE  NoLostWakeup'
  <2>1. Free' = Free
    BY <1>3 DEF Free
  <2>2. QED
    BY <1>1, <1>2, <1>3, <2>1 DEF NoLostWakeup
<1>4. ASSUME NEW b \in Bufs, NEW w \in BOOLEAN, NEW d \in Contents[b], virtio_disk_rw(b, w, d)
      PROVE  NoLostWakeup'
  BY <1>3, <1>4 DEF TypeOK, virtio_disk_rw
<1>5. ASSUME NEW b \in Bufs, alloc_sleep(b) PROVE NoLostWakeup'
  <2>1. Short
    BY <1>5 DEF alloc_sleep
  <2>2. QED
    BY <1>3, <1>5, <2>1 DEF alloc_sleep
<1>6. ASSUME NEW b \in Bufs, alloc_format(b) PROVE NoLostWakeup'
  <2>1. ~Short
    <3>1. Cardinality(Free) >= 3
      BY <1>6 DEF alloc_format
    <3>2. Cardinality(Free) \in Nat
      <4>1. IsFiniteSet(Descs)
        BY FS_Interval, Sizes DEF Descs
      <4>2. IsFiniteSet(Free)
        BY <4>1, FS_Subset DEF Free
      <4>3. QED
        BY <4>2, FS_CardinalityType
    <3>3. QED
      BY <3>1, <3>2
  <2>2. pc' = [pc EXCEPT ![b] = "publish"]
    BY <1>6 DEF alloc_format
  <2>3. \A c \in Bufs : pc'[c] # "sleep_free"
    BY <1>2, <2>1, <2>2 DEF TypeOK
  <2>4. QED
    BY <1>1, <2>3 DEF NoLostWakeup
<1>7. ASSUME NEW b \in Bufs, publish(b) PROVE NoLostWakeup'
  <2>1. pc' = [pc EXCEPT ![b] = "sleep"] /\ UNCHANGED free
    BY <1>7, PublishEffect
  <2>2. QED
    BY <1>3, <2>1 DEF TypeOK
<1>8. ASSUME NEW b \in Bufs, recheck(b) PROVE NoLostWakeup'
  <2>1. pc' = WakeupFree([pc EXCEPT ![b] = "idle"])
    BY <1>8, ReturnEffect
  <2>2. \A c \in Bufs : pc'[c] # "sleep_free"
    BY <2>1 DEF TypeOK, WakeupFree
  <2>3. QED
    BY <1>1, <2>2 DEF NoLostWakeup
<1>9. CASE virtio_disk_intr \/ intr_return \/ DeviceTake
  BY <1>3, <1>9 DEF virtio_disk_intr, intr_return, DeviceTake
<1>10. CASE intr_complete
  <2>1. UNCHANGED free /\ \E b \in Bufs : pc' = [pc EXCEPT ![b] = "woken"]
    BY <1>10, IntrEffect DEF intr_complete
  <2>2. QED
    BY <1>3, <2>1 DEF TypeOK
<1>11. ASSUME NEW i \in Descs, DeviceTransfer(i) \/ DeviceComplete(i) PROVE NoLostWakeup'
  BY <1>3, <1>11 DEF DeviceTransfer, DeviceComplete, driver
<1>12. QED
  BY <1>4, <1>5, <1>6, <1>7, <1>8, <1>9, <1>10, <1>11 DEF Next, Driver, Device

-----------------------------------------------------------------------------
(* The theorems.                                                           *)

Inv == TypeOK /\ IInv /\ CompletionSeen /\ NoLostWakeup

LEMMA EmptyRing ==
  ASSUME NEW ring
  PROVE  Entries(ring, 0, 0) = {} /\ Sound(ring, 0, 0)
<1>1. Count(0, 0) = 0
  <2>1. 0 \in 0 .. UINT16 - 1 /\ UINT16 \in Nat \ {0} /\ 0 - 0 = 0
    BY Sizes
  <2>2. 0 % UINT16 = 0
    BY <2>1, ModSmall
  <2>3. QED
    BY <2>1, <2>2 DEF Count
<1>2. 0 .. 0 - 1 = {}
  OBVIOUS
<1>3. QED
  BY <1>1, <1>2, Sizes DEF Entries, Sound

LEMMA InitInv ==
  ASSUME Init
  PROVE  Inv
<1>1. TypeOK
  <2>1. desc \in [Descs -> DescType]
    BY DescTypes DEF Init
  <2>2. 0 \in 0 .. UINT16 - 1 /\ 0 \in Descs
    BY Sizes, DescTypes
  <2>3. QED
    BY <2>1, <2>2 DEF Init, TypeOK, DescType, NoOp, PC
<1>2. InAvail = {} /\ InUsed = {} /\ RingInv
  BY EmptyRing DEF Init, InAvail, InUsed, RingInv
<1>3. Waiting = {}
  BY DEF Init, Waiting
<1>4. ChainInv /\ StatusInv
  BY <1>3 DEF Init, ChainInv, StatusInv
<1>5. CallerInv
  BY NameAssumption DEF Init, CallerInv
<1>6. PlaceInv
  BY <1>2 DEF Init, PlaceInv
<1>7. CompletionSeen /\ NoLostWakeup
  BY DEF Init, CompletionSeen, NoLostWakeup
<1>8. QED
  BY <1>1, <1>2, <1>4, <1>5, <1>6, <1>7 DEF Inv, IInv

LEMMA NextInv ==
  ASSUME Inv, Next
  PROVE  Inv'
<1>1. CallerInv'
  BY CallerStep DEF Inv
<1>2. TypeOK' /\ ChainInv' /\ RingInv' /\ PlaceInv' /\ StatusInv' /\ CompletionSeen'
  BY TypeStep, ChainStep, PlaceStep, StatusStep, SeenStep DEF Inv
<1>3. NoLostWakeup'
  BY <1>1, SleepStep DEF Inv
<1>4. QED
  BY <1>1, <1>2, <1>3 DEF Inv, IInv

LEMMA StutterInv ==
  ASSUME Inv, UNCHANGED vars
  PROVE  Inv'
<1>1. UNCHANGED <<free, desc, ops, info, avail_ring, avail_idx, used_idx, lock, busy, pc, idx, write, panicked>>
  BY DEF vars, driver
<1>2. UNCHANGED <<used_ring, used_hw, seen, taken, finished, disk, irq, data>>
  BY DEF vars, device
<1>3. Waiting' = Waiting /\ Free' = Free
  BY <1>1 DEF Waiting, Free
<1>4. InAvail' = InAvail /\ InUsed' = InUsed /\ RingInv'
  BY <1>1, <1>2, RingsKept DEF Inv, IInv
<1>5. ChainInv'
  BY <1>1, <1>3, ChainKept DEF Inv, IInv
<1>6. PlaceInv'
  BY <1>1, <1>2, <1>4, PlaceKept DEF Inv, IInv
<1>7. CallerInv' /\ StatusInv'
  BY <1>1, <1>2, <1>3, <1>4 DEF Inv, IInv, CallerInv, StatusInv
<1>8. TypeOK' /\ CompletionSeen' /\ NoLostWakeup'
  BY <1>1, <1>2, <1>3 DEF Inv, TypeOK, CompletionSeen, NoLostWakeup
<1>9. QED
  BY <1>4, <1>5, <1>6, <1>7, <1>8 DEF Inv, IInv

\* The invariant is inductive.
LEMMA Invariance == Spec => []Inv
<1>1. Init => Inv
  BY InitInv
<1>2. Inv /\ [Next]_vars => Inv'
  BY NextInv, StutterInv
<1>3. QED
  BY <1>1, <1>2, PTL DEF Spec

\* A sleeping caller's head is in one place, and that of a woken one in none.
LEMMA Tracked ==
  ASSUME Inv
  PROVE  RequestTracked
<1> SUFFICES ASSUME NEW b \in Bufs, pc[b] \in {"sleep", "woken"}
             PROVE  LET places == <<idx[b] \in InAvail, idx[b] \in taken, idx[b] \in finished, idx[b] \in InUsed, ~busy[b]>>
                    IN  \E k \in 1 .. 5 : \A m \in 1 .. 5 : places[m] <=> m = k
  BY DEF RequestTracked
<1> DEFINE places == <<idx[b] \in InAvail, idx[b] \in taken, idx[b] \in finished, idx[b] \in InUsed, ~busy[b]>>
<1>1. /\ places[1] = (idx[b] \in InAvail) /\ places[2] = (idx[b] \in taken) /\ places[3] = (idx[b] \in finished)
      /\ places[4] = (idx[b] \in InUsed) /\ places[5] = ~busy[b]
  OBVIOUS
<1> HIDE DEF places
<1>2. b \in Waiting /\ idx[b] \in Trio(b) /\ (busy[b] <=> pc[b] = "sleep")
  BY DEF Inv, IInv, CallerInv, Waiting, Trio
<1>3. idx[b] \in Placed <=> pc[b] = "sleep"
  BY <1>2, HeadFacts DEF Inv
<1>4. /\ ~(idx[b] \in InAvail /\ idx[b] \in taken) /\ ~(idx[b] \in InAvail /\ idx[b] \in finished)
      /\ ~(idx[b] \in InAvail /\ idx[b] \in InUsed) /\ ~(idx[b] \in taken /\ idx[b] \in finished)
      /\ ~(idx[b] \in taken /\ idx[b] \in InUsed) /\ ~(idx[b] \in finished /\ idx[b] \in InUsed)
  BY DEF Inv, IInv, PlaceInv
<1>5. /\ 1 \in 1 .. 5 /\ 2 \in 1 .. 5 /\ 3 \in 1 .. 5 /\ 4 \in 1 .. 5 /\ 5 \in 1 .. 5
      /\ \A m \in 1 .. 5 : m = 1 \/ m = 2 \/ m = 3 \/ m = 4 \/ m = 5
      /\ 1 # 2 /\ 1 # 3 /\ 1 # 4 /\ 1 # 5 /\ 2 # 3 /\ 2 # 4 /\ 2 # 5 /\ 3 # 4 /\ 3 # 5 /\ 4 # 5
  OBVIOUS
<1>6. CASE pc[b] = "woken"
  <2>1. ~places[1] /\ ~places[2] /\ ~places[3] /\ ~places[4] /\ places[5]
    BY <1>1, <1>2, <1>3, <1>6 DEF Placed
  <2>2. \A m \in 1 .. 5 : places[m] <=> m = 5
    BY <1>5, <2>1
  <2>3. QED
    BY <1>5, <2>2 DEF places
<1>7. CASE idx[b] \in InAvail
  <2>1. places[1] /\ ~places[2] /\ ~places[3] /\ ~places[4] /\ ~places[5]
    BY <1>1, <1>2, <1>3, <1>4, <1>7 DEF Placed
  <2>2. \A m \in 1 .. 5 : places[m] <=> m = 1
    BY <1>5, <2>1
  <2>3. QED
    BY <1>5, <2>2 DEF places
<1>8. CASE idx[b] \in taken
  <2>1. ~places[1] /\ places[2] /\ ~places[3] /\ ~places[4] /\ ~places[5]
    BY <1>1, <1>2, <1>3, <1>4, <1>8 DEF Placed
  <2>2. \A m \in 1 .. 5 : places[m] <=> m = 2
    BY <1>5, <2>1
  <2>3. QED
    BY <1>5, <2>2 DEF places
<1>9. CASE idx[b] \in finished
  <2>1. ~places[1] /\ ~places[2] /\ places[3] /\ ~places[4] /\ ~places[5]
    BY <1>1, <1>2, <1>3, <1>4, <1>9 DEF Placed
  <2>2. \A m \in 1 .. 5 : places[m] <=> m = 3
    BY <1>5, <2>1
  <2>3. QED
    BY <1>5, <2>2 DEF places
<1>10. CASE idx[b] \in InUsed
  <2>1. ~places[1] /\ ~places[2] /\ ~places[3] /\ places[4] /\ ~places[5]
    BY <1>1, <1>2, <1>3, <1>4, <1>10 DEF Placed
  <2>2. \A m \in 1 .. 5 : places[m] <=> m = 4
    BY <1>5, <2>1
  <2>3. QED
    BY <1>5, <2>2 DEF places
<1>11. QED
  BY <1>3, <1>6, <1>7, <1>8, <1>9, <1>10 DEF Placed

\* virtio_disk_rw() and virtio_disk_intr() with any number of callers and any number of
\* descriptors: every request is in exactly one place (a ring, the device, or answered),
\* no completion is overlooked, no sleeper is left without a reason, no assertion fails.
THEOREM QueueSafe == Spec => []QueueInv
<1>1. Inv => QueueInv
  BY Tracked DEF Inv, QueueInv
<1>2. QED
  BY <1>1, Invariance, PTL

LEMMA CardinalityOfThree ==
  ASSUME NEW i, NEW j, NEW k, i # j, i # k, j # k
  PROVE  Cardinality({i, j, k}) = 3
<1>1. IsFiniteSet({i}) /\ Cardinality({i}) = 1
  BY FS_Singleton
<1>2. IsFiniteSet({i} \cup {j}) /\ Cardinality({i} \cup {j}) = 1 + 1
  BY <1>1, FS_AddElement
<1>3. Cardinality(({i} \cup {j}) \cup {k}) = 1 + 1 + 1
  BY <1>2, FS_AddElement
<1>4. ({i} \cup {j}) \cup {k} = {i, j, k}
  OBVIOUS
<1>5. QED
  BY <1>3, <1>4

\* free_chain() and alloc3_desc(): the free descriptors and the chains of the requests in
\* progress, three descriptors each, always partition the descriptors.
THEOREM DescriptorsPartitioned == Spec => []ChainsPartition
<1>1. Inv => ChainsPartition
  <2> SUFFICES ASSUME Inv PROVE ChainsPartition
    OBVIOUS
  <2>1. \A b \in Waiting : Chain(idx[b]) = Trio(b) /\ Trio(b) \subseteq Descs
    BY ChainIsTrio, TrioFacts DEF Inv, IInv
  <2>2. \A b \in Waiting : Cardinality(Trio(b)) = 3
    <3> SUFFICES ASSUME NEW b \in Waiting PROVE Cardinality(Trio(b)) = 3
      OBVIOUS
    <3>1. idx[b] # DataDesc(b) /\ idx[b] # StatusDesc(b) /\ DataDesc(b) # StatusDesc(b)
      BY DEF Inv, IInv, ChainInv, Formatted
    <3>2. QED
      BY <3>1, CardinalityOfThree DEF Trio
  <2>3. \A b, c \in Waiting : b # c => Trio(b) \cap Trio(c) = {}
    BY DEF Inv, IInv, ChainInv
  <2>4. \A i \in Descs : ~free[i] <=> \E b \in Waiting : i \in Trio(b)
    BY DEF Inv, IInv, ChainInv
  <2>5. Descs \ Free = UNION {Trio(b) : b \in Waiting}
    BY <2>1, <2>4 DEF Free
  <2>6. UNION {Trio(b) : b \in Waiting} = UNION {Chain(idx[b]) : b \in Waiting}
    BY <2>1
  <2>7. QED
    BY <2>1, <2>2, <2>3, <2>5, <2>6 DEF ChainsPartition
<1>2. QED
  BY <1>1, Invariance, PTL

-----------------------------------------------------------------------------
(* The driver is a synchronous disk.                                       *)

Phase(b) ==
    IF pc[b] = "idle" THEN "idle"
    ELSE IF b \in Waiting /\ info[idx[b]].status = "ok" THEN "done"
    ELSE "asked"

LEMMA PhaseKept ==
  ASSUME UNCHANGED <<disk, data, write>>, \A b \in Bufs : Phase(b)' = Phase(b)
  PROVE  UNCHANGED abstract!vars
  BY DEF abstract!vars, PhaseMap, Phase

LEMMA PhaseSet ==
  ASSUME NEW b \in Bufs, NEW v, Phase(b)' = v, \A c \in Bufs : c # b => Phase(c)' = Phase(c)
  PROVE  PhaseMap' = [PhaseMap EXCEPT ![b] = v]
<1>1. PhaseMap = [c \in Bufs |-> Phase(c)] /\ PhaseMap' = [c \in Bufs |-> Phase(c)']
  BY DEF PhaseMap, Phase
<1>2. QED
  BY <1>1

LEMMA DiskStep ==
  ASSUME Inv, Next
  PROVE  [abstract!Next]_(abstract!vars)
<1>0. TypeOK /\ IInv /\ \A b \in Bufs : PhaseMap[b] = Phase(b)
  BY DEF Inv, PhaseMap, Phase
<1>1. ASSUME NEW b \in Bufs, NEW w \in BOOLEAN, NEW d \in Contents[b], virtio_disk_rw(b, w, d)
      PROVE  abstract!Next
  <2>1. Phase(b) = "idle" /\ Phase(b)' = "asked" /\ \A c \in Bufs : c # b => Phase(c)' = Phase(c)
    BY <1>0, <1>1 DEF TypeOK, virtio_disk_rw, Phase, Waiting
  <2>2. abstract!Request(b, w, d)
    BY <1>0, <1>1, <2>1, PhaseSet DEF virtio_disk_rw, device, abstract!Request
  <2>3. QED
    BY <2>2 DEF abstract!Next
<1>2. ASSUME NEW b \in Bufs, alloc_sleep(b) PROVE UNCHANGED abstract!vars
  <2>1. \A c \in Bufs : Phase(c)' = Phase(c)
    BY <1>0, <1>2 DEF TypeOK, alloc_sleep, WakeupFree, Phase, Waiting
  <2>2. QED
    BY <1>2, <2>1, PhaseKept DEF alloc_sleep, device
<1>3. ASSUME NEW b \in Bufs, alloc_format(b) PROVE UNCHANGED abstract!vars
  <2>1. PICK i, j, k \in Free : Formats(b, i, j, k)
    BY <1>0, <1>3, FormatEffect
  <2>2. i \in Descs /\ free[i] /\ info' = [info EXCEPT ![i] = [b |-> b, status |-> "pending"]] /\ idx' = [idx EXCEPT ![b] = i]
    BY <2>1 DEF Free, Formats
  <2>3. pc[b] = "alloc" /\ pc' = [pc EXCEPT ![b] = "publish"] /\ UNCHANGED <<disk, data, write>>
    BY <1>3 DEF alloc_format, device
  <2>4. Phase(b)' = Phase(b)
    BY <1>0, <2>2, <2>3 DEF TypeOK, Phase, Waiting
  <2>5. ASSUME NEW c \in Bufs, c # b PROVE Phase(c)' = Phase(c)
    <3>1. c \in Waiting => idx[c] \in Descs /\ ~free[idx[c]]
      BY <1>0, TrioFacts DEF IInv, Trio
    <3>2. pc'[c] = pc[c] /\ (c \in Waiting' <=> c \in Waiting) /\ idx'[c] = idx[c]
      BY <1>0, <2>2, <2>3, <2>5 DEF TypeOK, Waiting
    <3>3. c \in Waiting => info'[idx[c]] = info[idx[c]]
      BY <1>0, <2>2, <3>1 DEF TypeOK
    <3>4. QED
      BY <3>2, <3>3 DEF Phase
  <2>6. QED
    BY <2>3, <2>4, <2>5, PhaseKept
<1>4. ASSUME NEW b \in Bufs, publish(b) PROVE UNCHANGED abstract!vars
  <2>1. pc[b] = "publish" /\ pc' = [pc EXCEPT ![b] = "sleep"] /\ UNCHANGED <<info, idx, write>>
    BY <1>0, <1>4, PublishEffect
  <2>2. \A c \in Bufs : Phase(c)' = Phase(c)
    BY <1>0, <2>1 DEF TypeOK, Phase, Waiting
  <2>3. QED
    BY <1>4, <2>1, <2>2, PhaseKept DEF publish, device
<1>5. ASSUME NEW b \in Bufs, recheck(b) PROVE abstract!Next
  <2>1. /\ pc[b] = "woken" /\ b \in Waiting
        /\ info' = [info EXCEPT ![idx[b]].b = NoBuf]
        /\ pc' = WakeupFree([pc EXCEPT ![b] = "idle"])
        /\ idx' = [idx EXCEPT ![b] = 0]
        /\ write' = [write EXCEPT ![b] = FALSE]
    BY <1>0, <1>5, ReturnEffect
  <2>2. Phase(b) = "done"
    BY <1>0, <2>1 DEF IInv, StatusInv, Phase
  <2>3. Phase(b)' = "idle"
    BY <1>0, <2>1 DEF TypeOK, WakeupFree, Phase
  <2>4. ASSUME NEW c \in Bufs, c # b PROVE Phase(c)' = Phase(c)
    <3>1. /\ (pc'[c] = "idle" <=> pc[c] = "idle") /\ (c \in Waiting' <=> c \in Waiting)
          /\ idx'[c] = idx[c] /\ idx[c] \in Descs
      BY <1>0, <2>1, <2>4 DEF TypeOK, Waiting, WakeupFree
    <3>2. c \in Waiting => idx[c] # idx[b]
      BY <1>0, <2>1, <2>4, TrioFacts DEF IInv
    <3>3. c \in Waiting => info'[idx[c]] = info[idx[c]]
      BY <1>0, <2>1, <3>1, <3>2 DEF TypeOK
    <3>4. QED
      BY <3>1, <3>3 DEF Phase
  <2>5. abstract!Return(b)
    BY <1>0, <1>5, <2>1, <2>2, <2>3, <2>4, PhaseSet DEF recheck, device, abstract!Return
  <2>6. QED
    BY <2>5 DEF abstract!Next
<1>6. CASE virtio_disk_intr \/ intr_return \/ DeviceTake \/ \E i \in Descs : DeviceComplete(i)
  <2>1. UNCHANGED <<pc, idx, info, disk, data, write>>
    BY <1>6 DEF virtio_disk_intr, intr_return, DeviceTake, DeviceComplete, device, driver
  <2>2. \A c \in Bufs : Phase(c)' = Phase(c)
    BY <2>1 DEF Phase, Waiting
  <2>3. QED
    BY <2>1, <2>2, PhaseKept
<1>7. CASE intr_complete
  <2>1. PICK b \in Bufs : pc[b] = "sleep" /\ pc' = [pc EXCEPT ![b] = "woken"]
    BY <1>0, <1>7, IntrEffect
  <2>2. UNCHANGED <<idx, info, disk, data, write>>
    BY <1>7 DEF intr_complete
  <2>3. \A c \in Bufs : Phase(c)' = Phase(c)
    BY <1>0, <2>1, <2>2 DEF TypeOK, Phase, Waiting
  <2>4. QED
    BY <2>2, <2>3, PhaseKept
<1>8. ASSUME NEW i \in Descs, DeviceTransfer(i) PROVE abstract!Next
  <2>1. PICK b \in Bufs :
           /\ pc[b] = "sleep" /\ b \in Waiting /\ idx[b] = i
           /\ IF write[b] THEN disk' = [disk EXCEPT ![b] = data[b]] /\ UNCHANGED data
                          ELSE data' = [data EXCEPT ![b] = disk[b]] /\ UNCHANGED disk
           /\ info' = [info EXCEPT ![i].status = "ok"]
    BY <1>0, <1>8, TransferEffect
  <2>2. i \in taken /\ UNCHANGED <<pc, idx, write>>
    BY <1>8 DEF DeviceTransfer
  <2>3. Phase(b) = "asked"
    <3>1. i \notin finished \cup InUsed
      BY <1>0, <2>2 DEF IInv, PlaceInv
    <3>2. QED
      BY <1>0, <2>1, <3>1 DEF IInv, StatusInv, Phase
  <2>4. Phase(b)' = "done"
    BY <1>0, <2>1, <2>2 DEF TypeOK, Phase, Waiting
  <2>5. ASSUME NEW c \in Bufs, c # b PROVE Phase(c)' = Phase(c)
    <3>1. c \in Waiting => idx[c] # i /\ idx[c] \in Descs
      BY <1>0, <2>1, <2>5, TrioFacts DEF IInv
    <3>2. c \in Waiting => info'[idx[c]] = info[idx[c]]
      BY <1>0, <2>1, <3>1 DEF TypeOK
    <3>3. QED
      BY <2>2, <3>2 DEF Phase, Waiting
  <2>6. abstract!Transfer(b)
    BY <1>0, <2>1, <2>2, <2>3, <2>4, <2>5, PhaseSet DEF abstract!Transfer
  <2>7. QED
    BY <2>6 DEF abstract!Next
<1>9. QED
  BY <1>1, <1>2, <1>3, <1>4, <1>5, <1>6, <1>7, <1>8 DEF Next, Driver, Device

\* virtio_disk_rw() returns after its own request, and nobody else's, was carried out
\* once: the driver and any device that completes in any order are a synchronous disk.
THEOREM DriverIsSynchronous == Spec => ImplementsDisk
<1>1. Init => abstract!Init
  <2> SUFFICES ASSUME Init PROVE abstract!Init
    OBVIOUS
  <2>1. PhaseMap = [b \in Bufs |-> "idle"]
    BY DEF Init, PhaseMap
  <2>2. \A b \in Bufs : disk[b] \in Contents[b] /\ data[b] \in Contents[b]
    BY DEF Init, Images
  <2>3. QED
    BY <2>1, <2>2 DEF Init, abstract!Init
<1>2. UNCHANGED vars => UNCHANGED abstract!vars
  BY DEF vars, driver, device, abstract!vars, PhaseMap, Waiting
<1>3. Inv /\ [Next]_vars => [abstract!Next]_(abstract!vars)
  BY <1>2, DiskStep
<1>4. QED
  BY <1>1, <1>3, Invariance, PTL DEF Spec, ImplementsDisk, abstract!Spec
=============================================================================
