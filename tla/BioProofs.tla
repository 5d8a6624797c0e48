----------------------------- MODULE BioProofs ------------------------------
(***************************************************************************)
(* Proofs about Bio: a block is in one buffer at most, a buffer stays the  *)
(* block a process asked for until it is released, no wakeup of a          *)
(* sleep-lock is lost, and the buffers implement BufferCache, for every    *)
(* number of buffers and processes.                                        *)
(***************************************************************************)
EXTENDS Bio, FiniteSetTheorems, TLAPS

\* The processes that reference a buffer are finitely many.
LEMMA RefsFinite ==
  ASSUME NEW b \in Bufs
  PROVE  IsFiniteSet(Refs(b)) /\ Cardinality(Refs(b)) \in Nat
  BY BioAssumption, FS_Subset, FS_CardinalityType DEF Refs

\* A buffer with refcnt 0 is referenced by no process.
LEMMA UnusedUnreferenced ==
  ASSUME TypeOK, IInv, NEW b \in Bufs, refcnt[b] = 0
  PROVE  \A p \in Procs : buf[p] # b
<1>1. Cardinality(Refs(b)) = 0
  BY RefsFinite DEF IInv, TypeOK
<1>2. Refs(b) = {}
  BY <1>1, RefsFinite, FS_EmptySet
<1>3. \A p \in Procs : pc[p] = "idle" => buf[p] # b
  BY BioAssumption DEF IInv, Bufs
<1>4. QED
  BY <1>2, <1>3 DEF Refs

\* Relinking keeps every buffer on the list, once.
LEMMA Relinked ==
  ASSUME TypeOK, NEW b \in Bufs
  PROVE  LET l == MoveToFront(b)
         IN  /\ l \in [Bufs -> Bufs]
             /\ \A i, j \in Bufs : l[i] = l[j] => i = j
             /\ \A c \in Bufs : \E i \in Bufs : l[i] = c
<1> DEFINE k == CHOOSE i \in Bufs : lru[i] = b
           l == [i \in Bufs |-> IF i = 1 THEN b ELSE IF i <= k THEN lru[i - 1] ELSE lru[i]]
<1>1. k \in Bufs /\ lru[k] = b
  BY DEF TypeOK
<1>2. l = MoveToFront(b)
  BY DEF MoveToFront
<1>3. k \in Int /\ Bufs \subseteq Int /\ \A i \in Bufs : i # 1 /\ i <= k => i - 1 \in Bufs
  BY <1>1, BioAssumption DEF Bufs
<1>4. \A i \in Bufs : lru[i] \in Bufs
  BY DEF TypeOK
<1>5. \A i \in Bufs : l[i] \in Bufs
  BY <1>3, <1>4
<1>6. \A i, j \in Bufs : l[i] = l[j] => i = j
  <2> SUFFICES ASSUME NEW i \in Bufs, NEW j \in Bufs, l[i] = l[j], i # j PROVE FALSE
    OBVIOUS
  <2> HIDE DEF k
  <2>1. \A m, n \in Bufs : lru[m] = lru[n] => m = n
    BY DEF TypeOK
  <2>2. \A m \in Bufs : m # 1 => l[m] # b
    BY <1>1, <1>3, <2>1
  <2>3. i # 1 /\ j # 1
    BY <2>2
  <2>4. CASE i <= k /\ j <= k
    BY <1>3, <2>1, <2>3, <2>4
  <2>5. CASE ~(i <= k) /\ ~(j <= k)
    BY <1>3, <2>1, <2>3, <2>5
  <2>6. CASE i <= k /\ ~(j <= k)
    BY <1>3, <2>1, <2>3, <2>6
  <2>7. CASE ~(i <= k) /\ j <= k
    BY <1>3, <2>1, <2>3, <2>7
  <2>8. QED
    BY <2>4, <2>5, <2>6, <2>7
<1>7. ASSUME NEW c \in Bufs PROVE \E i \in Bufs : l[i] = c
  <2> HIDE DEF k
  <2>1. 1 \in Bufs /\ l[1] = b
    BY BioAssumption DEF Bufs
  <2>2. PICK m \in Bufs : lru[m] = c
    BY DEF TypeOK
  <2>3. CASE m = k
    BY <2>1, <2>2, <2>3, <1>1
  <2>4. CASE m < k
    <3>1. m + 1 \in Bufs /\ m + 1 # 1 /\ m + 1 <= k /\ (m + 1) - 1 = m
      BY <2>4, <1>1, BioAssumption DEF Bufs
    <3>2. l[m + 1] = lru[(m + 1) - 1]
      BY <3>1
    <3>3. QED
      BY <3>1, <3>2, <2>2
  <2>5. CASE m > k
    <3>1. m # 1 /\ ~(m <= k)
      BY <2>5, <1>1, BioAssumption DEF Bufs
    <3>2. QED
      BY <3>1, <2>2
  <2>6. QED
    BY <2>3, <2>4, <2>5, <1>3
<1>8. QED
  BY <1>2, <1>5, <1>6, <1>7

-----------------------------------------------------------------------------
\* In the initial state the invariant holds.
LEMMA InitInv == Init => TypeOK /\ IInv
<1> SUFFICES ASSUME Init PROVE TypeOK /\ IInv
  OBVIOUS
<1>1. lru \in [Bufs -> Bufs] /\ \A i, j \in Bufs : lru[i] = lru[j] => i = j
  BY BioAssumption DEF Init, Bufs
<1>2. ASSUME NEW b \in Bufs PROVE \E i \in Bufs : lru[i] = b
  <2>1. NBUF + 1 - b \in Bufs /\ NBUF + 1 - (NBUF + 1 - b) = b
    BY BioAssumption DEF Bufs
  <2>2. QED
    BY <2>1 DEF Init
<1>3. TypeOK
  <2>1. /\ disk \in [Blocks -> Data] /\ blockno \in [Bufs -> Blocks \cup {NoBlock}]
        /\ data \in [Bufs -> Data] /\ refcnt \in [Bufs -> Nat]
        /\ holder \in [Bufs -> Procs \cup {NoProc}]
        /\ pc \in [Procs -> PC] /\ want \in [Procs -> Blocks \cup {NoBlock}]
        /\ buf \in [Procs -> Bufs \cup {0}]
    BY DEF Init, PC
  <2>2. valid \in [Bufs -> BOOLEAN] /\ panicked \in BOOLEAN
    BY DEF Init
  <2>3. QED
    BY <1>1, <1>2, <2>1, <2>2 DEF TypeOK
<1>4. \A b \in Bufs : Refs(b) = {} /\ Cardinality(Refs(b)) = 0
  BY FS_EmptySet DEF Init, Refs
<1>5. \A p \in Procs : buf[p] = 0 /\ pc[p] = "idle"
  BY DEF Init
<1>6. \A b \in Bufs : refcnt[b] = 0 /\ blockno[b] = NoBlock /\ holder[b] = NoProc
  BY DEF Init
<1>7. IInv
  BY <1>4, <1>5, <1>6 DEF IInv, OneBufferPerBlock, StillWanted, NoLostWakeup
<1>8. QED
  BY <1>3, <1>7

\* bget() finds the block: one more reference.
LEMMA HitInv ==
  ASSUME TypeOK, IInv, NEW p \in Procs, NEW n \in Blocks, bget_hit(p, n)
  PROVE  TypeOK' /\ IInv'
<1>1. PICK b \in Cached(n) :
        refcnt' = [refcnt EXCEPT ![b] = @ + 1] /\ buf' = [buf EXCEPT ![p] = b]
  BY DEF bget_hit
<1>2. b \in Bufs /\ blockno[b] = n
  BY DEF Cached
<1>3. /\ pc' = [pc EXCEPT ![p] = "acquiresleep"] /\ want' = [want EXCEPT ![p] = n]
      /\ pc[p] = "idle" /\ buf[p] = 0
      /\ UNCHANGED <<disk, blockno, valid, data, holder, lru, panicked>>
  BY DEF bget_hit, Goto, IInv
<1>4. TypeOK'
  BY <1>1, <1>2, <1>3 DEF TypeOK, PC
<1>5. \A c \in Bufs : refcnt'[c] >= Cardinality(Refs(c)')
  <2>1. Refs(b)' = Refs(b) \cup {p} /\ p \notin Refs(b)
    BY <1>1, <1>2, <1>3 DEF Refs, TypeOK
  <2>2. \A c \in Bufs : c # b => Refs(c)' = Refs(c)
    BY <1>1, <1>3 DEF Refs, TypeOK
  <2>3. Cardinality(Refs(b)') = Cardinality(Refs(b)) + 1
    BY <2>1, <1>2, RefsFinite, FS_AddElement
  <2>4. QED
    BY <1>1, <1>2, <2>2, <2>3, RefsFinite DEF IInv, TypeOK
<1>6. /\ \A q \in Procs : q # p => buf'[q] = buf[q] /\ pc'[q] = pc[q] /\ want'[q] = want[q]
      /\ buf'[p] = b /\ pc'[p] = "acquiresleep" /\ want'[p] = n
  BY <1>1, <1>2, <1>3 DEF TypeOK
<1>7. b # 0
  BY <1>2, BioAssumption DEF Bufs
<1>8. QED
  BY <1>2, <1>3, <1>4, <1>5, <1>6, <1>7 DEF IInv, OneBufferPerBlock, StillWanted, NoLostWakeup, TypeOK

\* bget() recycles: nobody waits for, holds or is about to lock the buffer.
LEMMA RecycleInv ==
  ASSUME TypeOK, IInv, NEW p \in Procs, NEW n \in Blocks, bget_recycle(p, n)
  PROVE  TypeOK' /\ IInv'
<1>0. PICK b \in LRU :
        /\ blockno' = [blockno EXCEPT ![b] = n] /\ valid' = [valid EXCEPT ![b] = FALSE]
        /\ refcnt' = [refcnt EXCEPT ![b] = 1] /\ buf' = [buf EXCEPT ![p] = b]
  BY DEF bget_recycle, invalidate
<1>1. b \in Bufs /\ refcnt[b] = 0
  BY DEF LRU, Unused, Recyclable, TypeOK, Bufs
<1>2. \A q \in Procs : buf[q] # b
  BY <1>1, UnusedUnreferenced
<1>3. /\ blockno' = [blockno EXCEPT ![b] = n] /\ valid' = [valid EXCEPT ![b] = FALSE]
      /\ refcnt' = [refcnt EXCEPT ![b] = 1] /\ buf' = [buf EXCEPT ![p] = b]
      /\ pc' = [pc EXCEPT ![p] = "acquiresleep"] /\ want' = [want EXCEPT ![p] = n]
      /\ pc[p] = "idle" /\ buf[p] = 0 /\ \A c \in Bufs : blockno[c] # n
      /\ UNCHANGED <<disk, data, holder, lru, panicked>>
  BY <1>0 DEF bget_recycle, Goto, IInv, Cached
<1>4. TypeOK'
  <2>1. valid' \in [Bufs -> BOOLEAN]
    BY <1>1, <1>3 DEF TypeOK
  <2>2. QED
    BY <1>1, <1>3, <2>1 DEF TypeOK, PC
<1>5. \A c \in Bufs : refcnt'[c] >= Cardinality(Refs(c)')
  <2>1. Refs(b)' = {p}
    BY <1>1, <1>2, <1>3 DEF Refs, TypeOK
  <2>2. \A c \in Bufs : c # b => Refs(c)' = Refs(c)
    BY <1>1, <1>2, <1>3 DEF Refs, TypeOK
  <2>3. Cardinality(Refs(b)') = 1
    BY <2>1, FS_Singleton
  <2>4. QED
    BY <1>1, <1>3, <2>2, <2>3, RefsFinite DEF IInv, TypeOK
<1>6. /\ \A q \in Procs : q # p => buf'[q] = buf[q] /\ pc'[q] = pc[q] /\ want'[q] = want[q]
      /\ buf'[p] = b /\ pc'[p] = "acquiresleep" /\ want'[p] = n
      /\ \A c \in Bufs : c # b => blockno'[c] = blockno[c]
      /\ blockno'[b] = n
  BY <1>1, <1>3 DEF TypeOK
<1>7. b # 0
  BY <1>1, BioAssumption DEF Bufs
<1>8. OneBufferPerBlock'
  BY <1>1, <1>3, <1>6 DEF IInv, OneBufferPerBlock
<1>9. StillWanted'
  BY <1>2, <1>6 DEF IInv, StillWanted, TypeOK
<1>10. QED
  BY <1>1, <1>3, <1>4, <1>5, <1>6, <1>7, <1>8, <1>9 DEF IInv, NoLostWakeup, TypeOK

\* A process with a buffer asked for a real block.
LEMMA WantedBlock ==
  ASSUME TypeOK, IInv, NEW p \in Procs, buf[p] \in Bufs
  PROVE  blockno[buf[p]] \in Blocks
<1>1. buf[p] # 0
  BY BioAssumption DEF Bufs
<1>2. blockno[buf[p]] = want[p] /\ want[p] \in Blocks
  BY <1>1 DEF IInv, StillWanted
<1>3. QED
  BY <1>2

-----------------------------------------------------------------------------
\* acquiresleep() takes a free lock or sleeps on one that is held.
LEMMA AcquireInv ==
  ASSUME TypeOK, IInv, NEW p \in Procs, acquiresleep(p)
  PROVE  TypeOK' /\ IInv'
<1> DEFINE b == buf[p]
<1>1. b \in Bufs /\ pc[p] = "acquiresleep"
  BY DEF acquiresleep, IInv, TypeOK
<1>2. UNCHANGED <<disk, blockno, valid, data, refcnt, lru, want, buf, panicked>>
  BY DEF acquiresleep
<1>3. CASE holder[b] # NoProc
  <2>1. pc' = [pc EXCEPT ![p] = "asleep"] /\ holder' = holder
    BY <1>3 DEF acquiresleep, Goto
  <2>2. TypeOK'
    BY <1>2, <2>1 DEF TypeOK, PC
  <2>3. \A c \in Bufs : Refs(c)' = Refs(c)
    BY <1>1, <1>2, <2>1 DEF Refs, TypeOK
  <2>4. QED
    BY <1>1, <1>2, <1>3, <2>1, <2>2, <2>3 DEF IInv, OneBufferPerBlock, StillWanted, NoLostWakeup, TypeOK
<1>4. CASE holder[b] = NoProc
  <2>1. pc' = [pc EXCEPT ![p] = "check"] /\ holder' = [holder EXCEPT ![b] = p]
    BY <1>4 DEF acquiresleep, Goto
  <2>2. TypeOK'
    BY <1>1, <1>2, <2>1 DEF TypeOK, PC
  <2>3. \A c \in Bufs : Refs(c)' = Refs(c)
    BY <1>1, <1>2, <2>1 DEF Refs, TypeOK
  <2>4. QED
    BY <1>1, <1>2, <1>4, <2>1, <2>2, <2>3, BioAssumption
       DEF IInv, OneBufferPerBlock, StillWanted, NoLostWakeup, TypeOK
<1>5. QED
  BY <1>3, <1>4

\* The holder of a buffer reads, changes and writes it, and nothing else.
LEMMA HolderInv ==
  ASSUME TypeOK, IInv, NEW p \in Procs,
         \/ check_valid(p) \/ disk_read(p) \/ bwrite(p)
         \/ \E v \in Data : modify(p, v)
  PROVE  TypeOK' /\ IInv'
<1> DEFINE b == buf[p]
<1>1. b \in Bufs /\ pc[p] \in {"check", "read", "held"}
  BY DEF check_valid, disk_read, bwrite, modify, IInv, TypeOK
<1>2. UNCHANGED <<blockno, refcnt, holder, lru, want, buf, panicked>>
  BY DEF check_valid, disk_read, bwrite, modify
<1>3. PICK l \in {"check", "read", "held"} : pc' = [pc EXCEPT ![p] = l]
  BY <1>1 DEF check_valid, disk_read, bwrite, modify, Goto, TypeOK
<1>4. TypeOK'
  <2>1. blockno[b] \in Blocks \cup {NoBlock}
    BY <1>1 DEF TypeOK
  <2>2. blockno[b] \in Blocks
    BY <1>1, WantedBlock
  <2>3. disk' \in [Blocks -> Data] /\ data' \in [Bufs -> Data]
    BY <1>1, <2>2 DEF check_valid, disk_read, bwrite, modify, TypeOK
  <2>4. valid' \in [Bufs -> BOOLEAN]
    BY <1>1 DEF check_valid, disk_read, bwrite, modify, TypeOK
  <2>5. QED
    BY <1>2, <1>3, <2>3, <2>4 DEF TypeOK, PC
<1>5. \A c \in Bufs : Refs(c)' = Refs(c)
  BY <1>1, <1>2, <1>3 DEF Refs, TypeOK
<1>6. QED
  BY <1>1, <1>2, <1>3, <1>4, <1>5 DEF IInv, OneBufferPerBlock, StillWanted, NoLostWakeup, TypeOK

\* bpin() adds a reference; bunpin() gives back one that no process holds.
LEMMA PinInv ==
  ASSUME TypeOK, IInv, NEW p \in Procs, bpin(p) \/ bunpin(p)
  PROVE  TypeOK' /\ IInv'
<1> DEFINE b == buf[p]
<1>1. b \in Bufs
  BY DEF bpin, bunpin, IInv, TypeOK
<1>2. UNCHANGED <<disk, blockno, valid, data, holder, lru, pc, want, buf, panicked>>
  BY DEF bpin, bunpin
<1>3. \A c \in Bufs : Refs(c)' = Refs(c)
  BY <1>2 DEF Refs
<1>4. /\ refcnt' \in [Bufs -> Nat]
      /\ \A c \in Bufs : refcnt'[c] >= Cardinality(Refs(c))
  <2>1. CASE bpin(p)
    BY <1>1, <2>1, RefsFinite DEF bpin, IInv, TypeOK
  <2>2. CASE bunpin(p)
    <3>1. refcnt[b] > Cardinality(Refs(b)) /\ Cardinality(Refs(b)) \in Nat
      BY <1>1, <2>2, RefsFinite DEF bunpin, Pins, TypeOK
    <3>2. refcnt' = [refcnt EXCEPT ![b] = @ - 1]
      BY <2>2 DEF bunpin
    <3>3. QED
      BY <1>1, <3>1, <3>2 DEF IInv, TypeOK
  <2>3. QED
    BY <2>1, <2>2
<1>5. TypeOK'
  BY <1>2, <1>4 DEF TypeOK
<1>6. QED
  BY <1>2, <1>3, <1>4, <1>5 DEF IInv, OneBufferPerBlock, StillWanted, NoLostWakeup

\* releasesleep() frees the lock and wakes everyone who sleeps on it.
LEMMA ReleaseInv ==
  ASSUME TypeOK, IInv, NEW p \in Procs, releasesleep(p)
  PROVE  TypeOK' /\ IInv'
<1> DEFINE b == buf[p]
<1>1. b \in Bufs /\ pc[p] = "held" /\ holder[b] = p
  BY DEF releasesleep, IInv, TypeOK
<1>2. /\ holder' = [holder EXCEPT ![b] = NoProc]
      /\ pc' = [q \in Procs |->
                  IF q = p THEN "brelse"
                  ELSE IF pc[q] = "asleep" /\ buf[q] = b THEN "acquiresleep" ELSE pc[q]]
      /\ UNCHANGED <<disk, blockno, valid, data, refcnt, lru, want, buf, panicked>>
  BY DEF releasesleep, wakeup
<1>3. TypeOK'
  BY <1>1, <1>2 DEF TypeOK, PC
<1>4. \A c \in Bufs : Refs(c)' = Refs(c)
  BY <1>1, <1>2 DEF Refs, TypeOK
<1>5. NoLostWakeup'
  BY <1>1, <1>2 DEF IInv, NoLostWakeup, TypeOK
<1>6. \A q \in Procs : q # p /\ pc[q] \in {"check", "read", "held"} => buf[q] # b
  BY <1>1 DEF IInv
<1>7. QED
  BY <1>1, <1>2, <1>3, <1>4, <1>5, <1>6, BioAssumption DEF IInv, OneBufferPerBlock, StillWanted, TypeOK

\* The second half of brelse() gives the reference back.
LEMMA BrelseInv ==
  ASSUME TypeOK, IInv, NEW p \in Procs, brelse(p)
  PROVE  TypeOK' /\ IInv'
<1>0. buf[p] \in Bufs
  BY DEF brelse, IInv, TypeOK
<1>1. PICK b \in Bufs : b = buf[p] /\ pc[p] = "brelse"
  BY <1>0 DEF brelse
<1>2. /\ refcnt' = [refcnt EXCEPT ![b] = @ - 1]
      /\ lru' = IF refcnt[b] = 1 THEN MoveToFront(b) ELSE lru
      /\ buf' = [buf EXCEPT ![p] = 0] /\ want' = [want EXCEPT ![p] = NoBlock]
      /\ pc' = [pc EXCEPT ![p] = "idle"]
      /\ UNCHANGED <<disk, blockno, valid, data, holder, panicked>>
  BY <1>1 DEF brelse, unref, Goto
<1>3. /\ Refs(b)' = Refs(b) \ {p} /\ p \in Refs(b)
      /\ \A c \in Bufs : c # b => Refs(c)' = Refs(c)
  BY <1>1, <1>2, BioAssumption DEF Refs, TypeOK, Bufs
<1>4. /\ Cardinality(Refs(b)') = Cardinality(Refs(b)) - 1
      /\ Cardinality(Refs(b)) \in Nat \ {0}
  <2>1. Cardinality(Refs(b)') = Cardinality(Refs(b)) - 1
    BY <1>1, <1>3, RefsFinite, FS_RemoveElement
  <2>2. Cardinality(Refs(b)) # 0
    BY <1>1, <1>3, RefsFinite, FS_EmptySet
  <2>3. QED
    BY <1>1, <2>1, <2>2, RefsFinite
<1>5. /\ refcnt' \in [Bufs -> Nat]
      /\ \A c \in Bufs : refcnt'[c] >= Cardinality(Refs(c)')
  <2>1. refcnt[b] \in Nat /\ refcnt[b] >= Cardinality(Refs(b))
    BY DEF IInv, TypeOK
  <2>2. refcnt' \in [Bufs -> Nat] /\ refcnt'[b] = refcnt[b] - 1
    <3>1. refcnt[b] - 1 \in Nat
      BY <1>4, <2>1
    <3>2. QED
      BY <1>2, <3>1 DEF TypeOK
  <2>3. \A c \in Bufs : c # b => refcnt'[c] = refcnt[c] /\ refcnt[c] >= Cardinality(Refs(c))
    BY <1>2 DEF IInv, TypeOK
  <2>4. QED
    BY <1>3, <1>4, <2>1, <2>2, <2>3
<1>6. /\ lru' \in [Bufs -> Bufs]
      /\ \A i, j \in Bufs : lru'[i] = lru'[j] => i = j
      /\ \A c \in Bufs : \E i \in Bufs : lru'[i] = c
  <2>1. CASE refcnt[b] = 1
    <3>1. lru' = MoveToFront(b)
      BY <1>2, <2>1
    <3>2. /\ MoveToFront(b) \in [Bufs -> Bufs]
          /\ \A i, j \in Bufs : MoveToFront(b)[i] = MoveToFront(b)[j] => i = j
          /\ \A c \in Bufs : \E i \in Bufs : MoveToFront(b)[i] = c
      BY Relinked
    <3>3. QED
      BY <3>1, <3>2
  <2>2. CASE refcnt[b] # 1
    <3>1. lru' = lru
      BY <1>2, <2>2
    <3>2. QED
      BY <3>1 DEF TypeOK
  <2>3. QED
    BY <2>1, <2>2
<1>7. TypeOK'
  BY <1>2, <1>5, <1>6 DEF TypeOK, PC
<1>8. /\ \A q \in Procs : q # p => buf'[q] = buf[q] /\ pc'[q] = pc[q] /\ want'[q] = want[q]
      /\ buf'[p] = 0 /\ pc'[p] = "idle"
      /\ \A c \in Bufs : holder[c] # p
  <2>1. \A c \in Bufs : holder[c] # p
    BY <1>1, BioAssumption DEF IInv
  <2>2. QED
    BY <1>2, <2>1 DEF TypeOK
<1>9. OneBufferPerBlock' /\ StillWanted' /\ NoLostWakeup'
  BY <1>2, <1>8 DEF IInv, OneBufferPerBlock, StillWanted, NoLostWakeup
<1>10. /\ \A q \in Procs : buf'[q] = 0 <=> pc'[q] = "idle"
       /\ \A q \in Procs : pc'[q] # "idle" => want'[q] \in Blocks
       /\ \A q \in Procs : pc'[q] \in {"check", "read", "held"} => holder'[buf'[q]] = q
  BY <1>2, <1>8 DEF IInv
<1>11. \A c \in Bufs : holder'[c] # NoProc =>
            buf'[holder'[c]] = c /\ pc'[holder'[c]] \in {"check", "read", "held"}
  BY <1>2, <1>8 DEF IInv, TypeOK
<1>12. QED
  BY <1>5, <1>7, <1>9, <1>10, <1>11 DEF IInv

\* Every step of the cache keeps the invariant.
LEMMA NextInv == TypeOK /\ IInv /\ [Next]_vars => TypeOK' /\ IInv'
<1> SUFFICES ASSUME TypeOK, IInv, [Next]_vars PROVE TypeOK' /\ IInv'
  OBVIOUS
<1>1. ASSUME NEW p \in Procs, NEW n \in Blocks, bget_panic(p, n)
      PROVE  TypeOK' /\ IInv'
  <2>1. UNCHANGED <<disk, blockno, valid, data, refcnt, holder, lru, pc, want, buf>> /\ panicked' = TRUE
    BY <1>1 DEF bget_panic
  <2>2. TypeOK'
    BY <2>1 DEF TypeOK
  <2>3. \A b \in Bufs : Refs(b)' = Refs(b)
    BY <2>1 DEF Refs
  <2>4. QED
    BY <2>1, <2>2, <2>3 DEF IInv, OneBufferPerBlock, StillWanted, NoLostWakeup
<1>2. CASE UNCHANGED vars
  <2>1. TypeOK'
    BY <1>2 DEF TypeOK, vars
  <2>2. IInv'
    BY <1>2 DEF IInv, OneBufferPerBlock, StillWanted, NoLostWakeup, Refs, vars
  <2>3. QED
    BY <2>1, <2>2
<1>3. QED
  BY <1>1, <1>2, HitInv, RecycleInv, AcquireInv, HolderInv, PinInv, ReleaseInv, BrelseInv
     DEF Next, bget

\* The inductive invariant of the buffer cache.
THEOREM Invariance == Spec => [](TypeOK /\ IInv)
<1>1. Init => TypeOK /\ IInv
  BY InitInv
<1>2. TypeOK /\ IInv /\ [Next]_vars => (TypeOK /\ IInv)'
  BY NextInv
<1>3. QED
  BY <1>1, <1>2, PTL DEF Spec

\* The cache never holds a block twice, for any number of buffers.
THEOREM OneBufferPerBlockAlways == Spec => []OneBufferPerBlock
<1>1. IInv => OneBufferPerBlock
  BY DEF IInv
<1>2. QED
  BY <1>1, Invariance, PTL

\* A buffer stays the block its user asked for until the user releases it.
THEOREM StillWantedAlways == Spec => []StillWanted
<1>1. IInv => StillWanted
  BY DEF IInv
<1>2. QED
  BY <1>1, Invariance, PTL

\* Nobody sleeps on a free sleep-lock.
THEOREM NoLostWakeupAlways == Spec => []NoLostWakeup
<1>1. IInv => NoLostWakeup
  BY DEF IInv
<1>2. QED
  BY <1>1, Invariance, PTL

-----------------------------------------------------------------------------
(* Pins: what refcnt counts beyond the processes that hold a reference.    *)

LEMMA PinsType ==
  ASSUME TypeOK, IInv, NEW b \in Bufs
  PROVE  Pins(b) \in Nat /\ (refcnt[b] = 0 => Pins(b) = 0)
<1>1. Cardinality(Refs(b)) \in Nat /\ refcnt[b] >= Cardinality(Refs(b)) /\ refcnt[b] \in Nat
  BY RefsFinite DEF IInv, TypeOK
<1>2. QED
  BY <1>1 DEF Pins

\* A reference that a process takes is no pin.
LEMMA HitPins ==
  ASSUME TypeOK, IInv, NEW p \in Procs, NEW n \in Blocks, bget_hit(p, n)
  PROVE  \A c \in Bufs : Pins(c)' = Pins(c)
<1>1. PICK b \in Cached(n) :
        refcnt' = [refcnt EXCEPT ![b] = @ + 1] /\ buf' = [buf EXCEPT ![p] = b]
  BY DEF bget_hit
<1>2. b \in Bufs /\ pc[p] = "idle" /\ pc' = [pc EXCEPT ![p] = "acquiresleep"]
  BY DEF Cached, bget_hit, Goto
<1>3. Refs(b)' = Refs(b) \cup {p} /\ p \notin Refs(b)
  BY <1>1, <1>2 DEF Refs, TypeOK
<1>4. \A c \in Bufs : c # b => Refs(c)' = Refs(c)
  BY <1>1, <1>2 DEF Refs, TypeOK
<1>5. Cardinality(Refs(b)') = Cardinality(Refs(b)) + 1 /\ Cardinality(Refs(b)) \in Nat
  BY <1>2, <1>3, RefsFinite, FS_AddElement
<1>6. refcnt[b] \in Nat /\ refcnt'[b] = refcnt[b] + 1
  BY <1>1, <1>2 DEF TypeOK
<1>7. Pins(b)' = Pins(b)
  BY <1>5, <1>6 DEF Pins
<1>8. ASSUME NEW c \in Bufs, c # b PROVE Pins(c)' = Pins(c)
  BY <1>1, <1>4, <1>8 DEF Pins, TypeOK
<1>9. QED
  BY <1>7, <1>8

LEMMA RecyclePins ==
  ASSUME TypeOK, IInv, NEW p \in Procs, NEW n \in Blocks, bget_recycle(p, n)
  PROVE  \A c \in Bufs : Pins(c)' = Pins(c)
<1>1. PICK b \in LRU :
        refcnt' = [refcnt EXCEPT ![b] = 1] /\ buf' = [buf EXCEPT ![p] = b]
  BY DEF bget_recycle
<1>2. b \in Bufs /\ refcnt[b] = 0 /\ pc[p] = "idle" /\ pc' = [pc EXCEPT ![p] = "acquiresleep"]
  <2>1. b \in Bufs /\ refcnt[b] = 0
    BY DEF LRU, Unused, Recyclable, TypeOK, Bufs
  <2>2. QED
    BY <2>1 DEF bget_recycle, Goto
<1>3. \A q \in Procs : buf[q] # b
  BY <1>2, UnusedUnreferenced
<1>4. Refs(b)' = {p}
  BY <1>1, <1>2, <1>3 DEF Refs, TypeOK
<1>5. \A c \in Bufs : c # b => Refs(c)' = Refs(c)
  BY <1>1, <1>2 DEF Refs, TypeOK
<1>6. Cardinality(Refs(b)') = 1 /\ refcnt'[b] = 1
  BY <1>1, <1>2, <1>4, FS_Singleton DEF TypeOK
<1>7. Pins(b)' = 0 /\ Pins(b) = 0
  BY <1>2, <1>6, PinsType DEF Pins
<1>8. ASSUME NEW c \in Bufs, c # b PROVE Pins(c)' = Pins(c)
  BY <1>1, <1>5, <1>8 DEF Pins, TypeOK
<1>9. QED
  BY <1>7, <1>8

LEMMA BrelsePins ==
  ASSUME TypeOK, IInv, NEW p \in Procs, brelse(p)
  PROVE  \A c \in Bufs : Pins(c)' = Pins(c)
<1>0. buf[p] \in Bufs
  BY DEF brelse, IInv, TypeOK
<1>1. PICK b \in Bufs : b = buf[p] /\ pc[p] = "brelse"
  BY <1>0 DEF brelse
<1>2. /\ refcnt' = [refcnt EXCEPT ![b] = @ - 1] /\ buf' = [buf EXCEPT ![p] = 0]
      /\ pc' = [pc EXCEPT ![p] = "idle"]
  BY <1>1 DEF brelse, unref, Goto
<1>3. /\ Refs(b)' = Refs(b) \ {p} /\ p \in Refs(b)
      /\ \A c \in Bufs : c # b => Refs(c)' = Refs(c)
  BY <1>1, <1>2, BioAssumption DEF Refs, TypeOK, Bufs
<1>4. Cardinality(Refs(b)') = Cardinality(Refs(b)) - 1 /\ Cardinality(Refs(b)) \in Nat
  BY <1>1, <1>3, RefsFinite, FS_RemoveElement
<1>5. refcnt[b] \in Nat /\ refcnt'[b] = refcnt[b] - 1
  BY <1>2 DEF TypeOK
<1>6. Pins(b)' = Pins(b)
  BY <1>4, <1>5 DEF Pins
<1>7. ASSUME NEW c \in Bufs, c # b PROVE Pins(c)' = Pins(c)
  BY <1>2, <1>3, <1>7 DEF Pins, TypeOK
<1>8. QED
  BY <1>6, <1>7

\* The steps that touch no reference.
LEMMA OtherPins ==
  ASSUME TypeOK, IInv, NEW p \in Procs,
         \/ \E n \in Blocks : bget_panic(p, n)
         \/ acquiresleep(p) \/ check_valid(p) \/ disk_read(p) \/ bwrite(p) \/ releasesleep(p)
         \/ \E v \in Data : modify(p, v)
  PROVE  \A c \in Bufs : Pins(c)' = Pins(c)
<1>1. refcnt' = refcnt /\ buf' = buf
  BY DEF bget_panic, acquiresleep, check_valid, disk_read, bwrite, releasesleep, modify
<1>2. \A q \in Procs : pc'[q] = "idle" <=> pc[q] = "idle"
  BY DEF bget_panic, acquiresleep, check_valid, disk_read, bwrite, releasesleep, modify, wakeup, Goto, TypeOK
<1>3. \A c \in Bufs : Refs(c)' = Refs(c)
  BY <1>1, <1>2 DEF Refs
<1>4. QED
  BY <1>1, <1>3 DEF Pins

LEMMA PinPins ==
  ASSUME TypeOK, IInv, NEW p \in Procs, bpin(p) \/ bunpin(p)
  PROVE  /\ buf[p] \in Bufs
         /\ \A c \in Bufs : c # buf[p] => Pins(c)' = Pins(c)
         /\ bpin(p) => Pins(buf[p]) = 0 /\ Pins(buf[p])' = Pins(buf[p]) + 1
         /\ bunpin(p) => Pins(buf[p]) > 0 /\ Pins(buf[p])' = Pins(buf[p]) - 1
<1> DEFINE b == buf[p]
<1>1. b \in Bufs
  BY DEF bpin, bunpin, IInv, TypeOK
<1>2. \A c \in Bufs : Refs(c)' = Refs(c)
  BY DEF bpin, bunpin, Refs
<1>3. \A c \in Bufs : c # b => refcnt'[c] = refcnt[c]
  BY DEF bpin, bunpin, TypeOK
<1>4. Cardinality(Refs(b)) \in Nat /\ refcnt[b] \in Nat
  BY <1>1, RefsFinite DEF TypeOK
<1>5. b' = b
  BY DEF bpin, bunpin
<1>6. \A c \in Bufs : c # b => Pins(c)' = Pins(c)
  BY <1>2, <1>3 DEF Pins
<1>7. ASSUME bpin(p) PROVE Pins(b) = 0 /\ Pins(b)' = Pins(b) + 1
  <2>1. refcnt'[b] = refcnt[b] + 1 /\ Pins(b) = 0
    BY <1>1, <1>7 DEF bpin, TypeOK
  <2>2. QED
    BY <1>1, <1>2, <1>4, <1>5, <2>1 DEF Pins
<1>8. ASSUME bunpin(p) PROVE Pins(b) > 0 /\ Pins(b)' = Pins(b) - 1
  <2>1. refcnt'[b] = refcnt[b] - 1 /\ Pins(b) > 0
    BY <1>1, <1>8 DEF bunpin, TypeOK
  <2>2. QED
    BY <1>1, <1>2, <1>4, <1>5, <2>1 DEF Pins
<1>9. QED
  BY <1>1, <1>6, <1>7, <1>8

LEMMA PinnedFinite ==
  /\ IsFiniteSet(Bufs) /\ Cardinality(Bufs) = NBUF
  /\ Pinned \subseteq Bufs /\ IsFiniteSet(Pinned)
<1>1. NBUF \in Int /\ NBUF >= 1 /\ NBUF - 1 + 1 = NBUF
  BY BioAssumption
<1>2. IsFiniteSet(Bufs) /\ Cardinality(Bufs) = NBUF
  BY <1>1, FS_Interval DEF Bufs
<1>3. Pinned \subseteq Bufs
  BY DEF Pinned
<1>4. QED
  BY <1>2, <1>3, FS_Subset

\* The pinned buffers stay within the bound that bpin() tests.
LEMMA NextPinsBounded ==
  ASSUME TypeOK, IInv, PinsBounded, [Next]_vars
  PROVE  PinsBounded'
<1>1. IsFiniteSet(Pinned) /\ Pinned \subseteq Bufs
  BY PinnedFinite
<1>2. ASSUME \A c \in Bufs : Pins(c)' = Pins(c) PROVE PinsBounded'
  <2>1. Pinned' = Pinned
    BY <1>2 DEF Pinned
  <2>2. QED
    BY <2>1 DEF PinsBounded
<1>3. ASSUME NEW p \in Procs, bpin(p) PROVE PinsBounded'
  <2>1. /\ buf[p] \in Bufs /\ \A c \in Bufs : c # buf[p] => Pins(c)' = Pins(c)
        /\ Pins(buf[p]) = 0 /\ Pins(buf[p])' = Pins(buf[p]) + 1
    BY <1>3, PinPins
  <2>2. buf' = buf /\ Cardinality(Pinned) < MaxPinned
    BY <1>3 DEF bpin
  <2>3. Pinned' = Pinned \cup {buf[p]} /\ buf[p] \notin Pinned
    BY <2>1, <2>2 DEF Pinned
  <2>4. Cardinality(Pinned') = Cardinality(Pinned) + 1 /\ Cardinality(Pinned) \in Nat
    BY <1>1, <2>3, FS_AddElement, FS_CardinalityType
  <2>5. QED
    BY <2>2, <2>4, BioAssumption DEF PinsBounded
<1>4. ASSUME NEW p \in Procs, bunpin(p) PROVE PinsBounded'
  <2>1. /\ buf[p] \in Bufs /\ \A c \in Bufs : c # buf[p] => Pins(c)' = Pins(c)
        /\ Pins(buf[p]) > 0
    BY <1>4, PinPins
  <2>2. Pinned' \subseteq Pinned
    BY <2>1 DEF Pinned
  <2>3. Cardinality(Pinned') <= Cardinality(Pinned)
    BY <1>1, <2>2, FS_Subset
  <2>4. Cardinality(Pinned) \in Nat /\ Cardinality(Pinned') \in Nat
    BY <1>1, <2>2, FS_Subset, FS_CardinalityType
  <2>5. QED
    BY <2>3, <2>4, BioAssumption DEF PinsBounded
<1>5. CASE UNCHANGED vars
  <2>1. \A c \in Bufs : Pins(c)' = Pins(c)
    BY <1>5 DEF vars, Pins, Refs
  <2>2. QED
    BY <1>2, <2>1
<1>6. QED
  BY <1>2, <1>3, <1>4, <1>5, HitPins, RecyclePins, BrelsePins, OtherPins DEF Next, bget

\* Only its holder reads a buffer from disk, and no buffer in use is recycled.
LEMMA NextReadOnce ==
  ASSUME TypeOK, IInv, ReadOnce, [Next]_vars
  PROVE  ReadOnce'
<1> USE DEF ReadOnce
<1>1. ASSUME NEW p \in Procs, NEW n \in Blocks, bget_hit(p, n) PROVE ReadOnce'
  BY <1>1 DEF bget_hit, Goto, TypeOK
<1>2. ASSUME NEW p \in Procs, NEW n \in Blocks, bget_recycle(p, n) PROVE ReadOnce'
  <2>1. PICK b \in LRU : valid' = [valid EXCEPT ![b] = FALSE] /\ buf' = [buf EXCEPT ![p] = b]
    BY <1>2 DEF bget_recycle, invalidate
  <2>2. b \in Bufs /\ refcnt[b] = 0
    BY DEF LRU, Unused, Recyclable, TypeOK, Bufs
  <2>3. \A q \in Procs : buf[q] # b
    BY <2>2, UnusedUnreferenced
  <2>4. pc' = [pc EXCEPT ![p] = "acquiresleep"]
    BY <1>2 DEF bget_recycle, Goto
  <2>5. \A q \in Procs : pc'[q] \in {"read", "held"} =>
            /\ pc'[q] = pc[q] /\ buf'[q] = buf[q]
            /\ buf[q] \in Bufs /\ valid'[buf[q]] = valid[buf[q]]
    <3> SUFFICES ASSUME NEW q \in Procs, pc'[q] \in {"read", "held"}
                 PROVE  /\ pc'[q] = pc[q] /\ buf'[q] = buf[q]
                        /\ buf[q] \in Bufs /\ valid'[buf[q]] = valid[buf[q]]
      OBVIOUS
    <3>1. q # p /\ pc'[q] = pc[q] /\ buf'[q] = buf[q]
      BY <2>1, <2>4 DEF TypeOK
    <3>2. buf[q] \in Bufs /\ buf[q] # b
      BY <2>3, <3>1 DEF TypeOK, IInv
    <3>3. QED
      BY <2>1, <2>2, <3>1, <3>2 DEF TypeOK
  <2>6. QED
    BY <2>5
<1>3. ASSUME NEW p \in Procs, acquiresleep(p) \/ brelse(p) \/ bpin(p) \/ bunpin(p) \/ bwrite(p)
                              \/ releasesleep(p) \/ \E v \in Data : modify(p, v)
      PROVE  ReadOnce'
  <2>1. valid' = valid
    BY <1>3 DEF acquiresleep, brelse, bpin, bunpin, bwrite, releasesleep, modify
  <2>2. \A q \in Procs : pc'[q] \in {"read", "held"} => pc'[q] = pc[q] /\ buf'[q] = buf[q]
    <3> SUFFICES ASSUME NEW q \in Procs, pc'[q] \in {"read", "held"}
                 PROVE  pc'[q] = pc[q] /\ buf'[q] = buf[q]
      OBVIOUS
    <3>1. CASE acquiresleep(p)
      BY <3>1 DEF acquiresleep, Goto, TypeOK
    <3>2. CASE brelse(p)
      BY <3>2 DEF brelse, Goto, TypeOK
    <3>3. CASE releasesleep(p)
      BY <3>3 DEF releasesleep, wakeup, TypeOK
    <3>4. CASE bpin(p) \/ bunpin(p) \/ bwrite(p) \/ \E v \in Data : modify(p, v)
      BY <3>4 DEF bpin, bunpin, bwrite, modify
    <3>5. QED
      BY <1>3, <3>1, <3>2, <3>3, <3>4
  <2>3. QED
    BY <2>1, <2>2
<1>4. ASSUME NEW p \in Procs, check_valid(p) PROVE ReadOnce'
  BY <1>4 DEF check_valid, Goto, TypeOK
<1>5. ASSUME NEW p \in Procs, disk_read(p) PROVE ReadOnce'
  <2>1. /\ pc[p] = "read" /\ pc' = [pc EXCEPT ![p] = "held"]
        /\ valid' = [valid EXCEPT ![buf[p]] = TRUE] /\ buf' = buf /\ buf[p] \in Bufs
    BY <1>5 DEF disk_read, Goto, TypeOK, IInv
  <2>2. \A q \in Procs : q # p /\ pc[q] \in {"read", "held"} => buf[q] # buf[p] /\ buf[q] \in Bufs
    BY <2>1 DEF IInv, TypeOK
  <2>3. QED
    BY <2>1, <2>2 DEF TypeOK
<1>6. ASSUME NEW p \in Procs, NEW n \in Blocks, bget_panic(p, n) PROVE ReadOnce'
  BY <1>6 DEF bget_panic
<1>7. CASE UNCHANGED vars
  BY <1>7 DEF vars
<1>8. QED
  BY <1>1, <1>2, <1>3, <1>4, <1>5, <1>6, <1>7 DEF Next, bget

\* If no buffer is unused, each has a user of its own or a pin.
LEMMA AllTaken ==
  ASSUME TypeOK, IInv, PinsBounded, Unused = {}
  PROVE  NBUF <= Cardinality({p \in Procs : buf[p] # 0}) + MaxPinned
<1> DEFINE U == {p \in Procs : buf[p] # 0}
           I == {buf[p] : p \in U}
<1>1. ASSUME NEW b \in Bufs PROVE b \in I \cup Pinned
  <2>1. PICK i \in Bufs : lru[i] = b
    BY DEF TypeOK
  <2>2. refcnt[b] # 0
    BY <2>1 DEF Unused, Recyclable, Bufs
  <2>3. CASE Refs(b) = {}
    <3>1. Cardinality(Refs(b)) = 0
      BY <2>3, FS_EmptySet
    <3>2. Pins(b) > 0
      BY <2>2, <3>1 DEF Pins, TypeOK
    <3>3. QED
      BY <3>2 DEF Pinned
  <2>4. CASE Refs(b) # {}
    BY <2>4 DEF Refs, IInv
  <2>5. QED
    BY <2>3, <2>4
<1>2. IsFiniteSet(U) /\ IsFiniteSet(Pinned)
  <2>1. U \subseteq Procs
    OBVIOUS
  <2>2. QED
    BY <2>1, PinnedFinite, BioAssumption, FS_Subset
<1>3. IsFiniteSet(I) /\ Cardinality(I) <= Cardinality(U)
  <2>1. [p \in U |-> buf[p]] \in Surjection(U, I)
    BY DEF Surjection
  <2>2. QED
    BY <1>2, <2>1, FS_Surjection
<1>4. IsFiniteSet(I \cup Pinned) /\ Cardinality(I \cup Pinned) <= Cardinality(I) + Cardinality(Pinned)
  <2>1. Cardinality(I \cup Pinned) = Cardinality(I) + Cardinality(Pinned) - Cardinality(I \cap Pinned)
    BY <1>2, <1>3, FS_Union
  <2>2. IsFiniteSet(I \cap Pinned)
    BY <1>3, FS_Intersection
  <2>3. /\ Cardinality(I) \in Nat /\ Cardinality(Pinned) \in Nat /\ Cardinality(I \cap Pinned) \in Nat
    BY <1>2, <1>3, <2>2, FS_CardinalityType
  <2>4. QED
    BY <1>2, <1>3, <2>1, <2>3, FS_Union
<1>5. Cardinality(Bufs) = NBUF
  BY PinnedFinite
<1>6. Cardinality(Bufs) <= Cardinality(I \cup Pinned)
  BY <1>1, <1>4, FS_Subset
<1>7. /\ Cardinality(I) \in Nat /\ Cardinality(Pinned) \in Nat /\ Cardinality(U) \in Nat
      /\ Cardinality(I \cup Pinned) \in Nat
  BY <1>2, <1>3, <1>4, FS_CardinalityType
<1>8. QED
  BY <1>3, <1>4, <1>5, <1>6, <1>7, BioAssumption DEF PinsBounded

LEMMA NextEnough ==
  ASSUME TypeOK, IInv, PinsBounded, EnoughBuffers, [Next]_vars
  PROVE  EnoughBuffers'
<1>1. ASSUME NEW p \in Procs, NEW n \in Blocks, bget_panic(p, n) PROVE EnoughBuffers'
  BY <1>1, AllTaken DEF bget_panic, EnoughBuffers
<1>2. ASSUME NEW p \in Procs, panicked' = panicked, Next PROVE EnoughBuffers'
  BY <1>2 DEF Next, EnoughBuffers
<1>3. CASE UNCHANGED vars
  BY <1>3 DEF vars, EnoughBuffers
<1>4. ASSUME NEW p \in Procs,
             \/ \E n \in Blocks : bget_hit(p, n) \/ bget_recycle(p, n)
             \/ acquiresleep(p) \/ check_valid(p) \/ disk_read(p) \/ bwrite(p) \/ bpin(p) \/ bunpin(p)
             \/ releasesleep(p) \/ brelse(p) \/ \E v \in Data : modify(p, v)
      PROVE  panicked' = panicked
  BY <1>4 DEF bget_hit, bget_recycle, acquiresleep, check_valid, disk_read, bwrite, bpin, bunpin,
              releasesleep, brelse, modify
<1>5. QED
  BY <1>1, <1>2, <1>3, <1>4 DEF Next, bget

\* The LRU list holds every buffer once after any number of brelse(), and bget() finds a
\* buffer in it as long as holders and pins do not outnumber the buffers, for any NBUF.
THEOREM CacheSafe == Spec => []CacheInv
<1>1. Init => CacheInv
  <2> SUFFICES ASSUME Init PROVE CacheInv
    OBVIOUS
  <2>1. TypeOK /\ IInv
    BY InitInv
  <2>2. \A b \in Bufs : Pins(b) = 0
    BY <2>1, PinsType DEF Init
  <2>3. Pinned = {}
    BY <2>2 DEF Pinned
  <2>4. PinsBounded
    BY <2>3, FS_EmptySet, BioAssumption DEF PinsBounded
  <2>5. ReadOnce /\ EnoughBuffers
    BY DEF Init, ReadOnce, EnoughBuffers
  <2>6. QED
    BY <2>1, <2>4, <2>5 DEF CacheInv
<1>2. CacheInv /\ [Next]_vars => CacheInv'
  BY NextInv, NextPinsBounded, NextReadOnce, NextEnough DEF CacheInv
<1>3. QED
  BY <1>1, <1>2, PTL DEF Spec
-----------------------------------------------------------------------------
(* The refinement of BufferCache.                                          *)

\* What the mapping says of a block, through the one buffer that may hold it.
MapOK ==
  /\ \A b \in Bufs : blockno[b] \in Blocks =>
        /\ PinMap[blockno[b]] = Pins(b)
        /\ CacheMap[blockno[b]] = IF valid[b] THEN data[b] ELSE NotCached
  /\ \A n \in Blocks : (\A b \in Bufs : blockno[b] # n) =>
        PinMap[n] = 0 /\ CacheMap[n] = NotCached

LEMMA Mapped == TypeOK /\ IInv => MapOK
<1> SUFFICES ASSUME TypeOK, IInv PROVE MapOK
  OBVIOUS
<1>1. ASSUME NEW b \in Bufs, blockno[b] \in Blocks
      PROVE  /\ PinMap[blockno[b]] = Pins(b)
             /\ CacheMap[blockno[b]] = IF valid[b] THEN data[b] ELSE NotCached
  <2> DEFINE n == blockno[b]
  <2>1. Cached(n) = {b}
    BY <1>1, BioAssumption DEF Cached, IInv, OneBufferPerBlock
  <2>2. PinMap[n] = Pins(b)
    BY <1>1, <2>1 DEF PinMap
  <2>3. CASE valid[b]
    <3>1. CachedAndRead(n) = {b}
      BY <2>1, <2>3 DEF Cached, CachedAndRead
    <3>2. QED
      BY <1>1, <2>2, <2>3, <3>1 DEF CacheMap
  <2>4. CASE ~valid[b]
    <3>1. CachedAndRead(n) = {}
      BY <2>1, <2>4 DEF Cached, CachedAndRead
    <3>2. QED
      BY <1>1, <2>2, <2>4, <3>1 DEF CacheMap
  <2>5. QED
    BY <2>3, <2>4
<1>2. ASSUME NEW n \in Blocks, \A b \in Bufs : blockno[b] # n
      PROVE  PinMap[n] = 0 /\ CacheMap[n] = NotCached
  <2>1. Cached(n) = {} /\ CachedAndRead(n) = {}
    BY <1>2 DEF Cached, CachedAndRead
  <2>2. QED
    BY <2>1 DEF PinMap, CacheMap
<1>3. QED
  BY <1>1, <1>2 DEF MapOK

\* Blocks other than m are mapped as before when the buffers of other blocks are.
LEMMA MappedElsewhere ==
  ASSUME MapOK, MapOK', blockno' = blockno, blockno \in [Bufs -> Blocks \cup {NoBlock}], NEW m
  PROVE  /\ (\A b \in Bufs : blockno[b] # m => Pins(b)' = Pins(b))
              => \A n \in Blocks : n # m => PinMap'[n] = PinMap[n]
         /\ (\A b \in Bufs : blockno[b] # m => valid'[b] = valid[b] /\ data'[b] = data[b])
              => \A n \in Blocks : n # m => CacheMap'[n] = CacheMap[n]
<1>1. ASSUME \A b \in Bufs : blockno[b] # m => Pins(b)' = Pins(b), NEW n \in Blocks, n # m
      PROVE  PinMap'[n] = PinMap[n]
  <2>1. CASE \E b \in Bufs : blockno[b] = n
    BY <1>1, <2>1 DEF MapOK
  <2>2. CASE \A b \in Bufs : blockno[b] # n
    BY <1>1, <2>2 DEF MapOK
  <2>3. QED
    BY <2>1, <2>2
<1>2. ASSUME \A b \in Bufs : blockno[b] # m => valid'[b] = valid[b] /\ data'[b] = data[b],
             NEW n \in Blocks, n # m
      PROVE  CacheMap'[n] = CacheMap[n]
  <2>1. CASE \E b \in Bufs : blockno[b] = n
    BY <1>2, <2>1 DEF MapOK
  <2>2. CASE \A b \in Bufs : blockno[b] # n
    BY <1>2, <2>2 DEF MapOK
  <2>3. QED
    BY <2>1, <2>2
<1>3. QED
  BY <1>1, <1>2

\* The mapped variables are functions, so equal values make them equal.
LEMMA MapStays ==
  /\ (\A n \in Blocks : PinMap'[n] = PinMap[n]) => PinMap' = PinMap
  /\ (\A n \in Blocks : CacheMap'[n] = CacheMap[n]) => CacheMap' = CacheMap
  /\ (\A p \in Procs : HoldMap'[p] = HoldMap[p]) => HoldMap' = HoldMap
  BY DEF PinMap, CacheMap, HoldMap

LEMMA FunUpdate ==
  ASSUME NEW S, NEW f, NEW g, f = [x \in S |-> f[x]], g = [x \in S |-> g[x]],
         NEW m \in S, \A x \in S : x # m => g[x] = f[x]
  PROVE  g = [f EXCEPT ![m] = g[m]]
  OBVIOUS

LEMMA MapUpdate ==
  /\ \A m \in Blocks : (\A n \in Blocks : n # m => PinMap'[n] = PinMap[n])
        => PinMap' = [PinMap EXCEPT ![m] = PinMap'[m]]
  /\ \A m \in Blocks : (\A n \in Blocks : n # m => CacheMap'[n] = CacheMap[n])
        => CacheMap' = [CacheMap EXCEPT ![m] = CacheMap'[m]]
  /\ \A q \in Procs : (\A p \in Procs : p # q => HoldMap'[p] = HoldMap[p])
        => HoldMap' = [HoldMap EXCEPT ![q] = HoldMap'[q]]
<1>1. PinMap = [n \in Blocks |-> PinMap[n]] /\ PinMap' = [n \in Blocks |-> PinMap'[n]]
  BY DEF PinMap
<1>2. CacheMap = [n \in Blocks |-> CacheMap[n]] /\ CacheMap' = [n \in Blocks |-> CacheMap'[n]]
  BY DEF CacheMap
<1>3. HoldMap = [p \in Procs |-> HoldMap[p]] /\ HoldMap' = [p \in Procs |-> HoldMap'[p]]
  BY DEF HoldMap
<1>4. QED
  BY <1>1, <1>2, <1>3, FunUpdate

\* The buffer a process is past acquiresleep() with is its block's only buffer, and
\* nobody else is past acquiresleep() for that block.
LEMMA Owned ==
  ASSUME TypeOK, IInv, NEW p \in Procs, pc[p] \in {"check", "read", "held"}
  PROVE  /\ buf[p] \in Bufs /\ want[p] \in Blocks /\ blockno[buf[p]] = want[p]
         /\ \A b \in Bufs : b # buf[p] => blockno[b] # want[p]
         /\ \A q \in Procs : q # p /\ pc[q] \in {"check", "read", "held"} => want[q] # want[p]
<1>1. buf[p] \in Bufs /\ want[p] \in Blocks /\ blockno[buf[p]] = want[p] /\ holder[buf[p]] = p
  BY DEF IInv, StillWanted, TypeOK
<1>2. \A b \in Bufs : b # buf[p] => blockno[b] # want[p]
  BY <1>1, BioAssumption DEF IInv, OneBufferPerBlock
<1>3. ASSUME NEW q \in Procs, q # p, pc[q] \in {"check", "read", "held"} PROVE want[q] # want[p]
  <2>1. buf[q] \in Bufs /\ blockno[buf[q]] = want[q] /\ holder[buf[q]] = q
    BY <1>3 DEF IInv, StillWanted, TypeOK
  <2>2. buf[q] # buf[p]
    BY <1>1, <1>3, <2>1
  <2>3. QED
    BY <1>2, <2>1, <2>2
<1>4. QED
  BY <1>1, <1>2, <1>3

\* A block is locked in BufferCache when some process holds it.
LEMMA LockedWhen ==
  ASSUME NEW n \in Blocks
  PROVE  BC!Locked(n) <=> \E q \in Procs : pc[q] = "held" /\ want[q] = n
  BY BioAssumption DEF BC!Locked, HoldMap

\* A step that leaves the buffers and their users alone is no step of BufferCache.
LEMMA CacheStutter ==
  ASSUME TypeOK, MapOK, MapOK', UNCHANGED <<disk, blockno, valid, data>>,
         \A b \in Bufs : Pins(b)' = Pins(b), \A p \in Procs : HoldMap'[p] = HoldMap[p]
  PROVE  UNCHANGED BC!vars
<1>1. /\ \A n \in Blocks : n # NoBlock => PinMap'[n] = PinMap[n]
      /\ \A n \in Blocks : n # NoBlock => CacheMap'[n] = CacheMap[n]
  <2>1. blockno' = blockno /\ blockno \in [Bufs -> Blocks \cup {NoBlock}]
    BY DEF TypeOK
  <2>2. \A b \in Bufs : valid'[b] = valid[b] /\ data'[b] = data[b]
    OBVIOUS
  <2>3. QED
    BY <2>1, <2>2, MappedElsewhere
<1>2. PinMap' = PinMap /\ CacheMap' = CacheMap /\ HoldMap' = HoldMap
  BY <1>1, MapStays, BioAssumption
<1>3. QED
  BY <1>2 DEF BC!vars

\* bread() ends: in BufferCache the process now holds the copy, read from disk if there was none.
LEMMA BreadStep ==
  ASSUME TypeOK, IInv, ReadOnce, MapOK, MapOK', NEW p \in Procs,
         disk_read(p) \/ (check_valid(p) /\ valid[buf[p]])
  PROVE  BC!Next
<1> DEFINE m == want[p]
           c == buf[p]
<1>1. pc[p] \in {"check", "read"} /\ (disk_read(p) => pc[p] = "read")
  BY DEF disk_read, check_valid
<1>2. /\ c \in Bufs /\ m \in Blocks /\ blockno[c] = m
      /\ \A b \in Bufs : b # c => blockno[b] # m
      /\ \A q \in Procs : q # p /\ pc[q] \in {"check", "read", "held"} => want[q] # m
  BY <1>1, Owned
<1>3. /\ pc' = [pc EXCEPT ![p] = "held"]
      /\ UNCHANGED <<disk, blockno, refcnt, want, buf>>
  BY DEF disk_read, check_valid, Goto
<1>4. \A b \in Bufs : Pins(b)' = Pins(b)
  BY OtherPins
<1>5. \A b \in Bufs : b # c => valid'[b] = valid[b] /\ data'[b] = data[b]
  BY DEF disk_read, check_valid, TypeOK
<1>6. valid'[c] /\ data'[c] = IF valid[c] THEN data[c] ELSE disk[m]
  <2>1. CASE disk_read(p)
    BY <1>1, <1>2, <2>1 DEF disk_read, ReadOnce, TypeOK
  <2>2. CASE check_valid(p) /\ valid[buf[p]]
    BY <2>2 DEF check_valid
  <2>3. QED
    BY <2>1, <2>2
<1>7. /\ \A n \in Blocks : PinMap'[n] = PinMap[n]
      /\ \A n \in Blocks : n # m => CacheMap'[n] = CacheMap[n]
  <2>1. blockno' = blockno /\ blockno \in [Bufs -> Blocks \cup {NoBlock}]
    BY <1>3 DEF TypeOK
  <2>2. \A n \in Blocks : n # NoBlock => PinMap'[n] = PinMap[n]
    BY <1>4, <2>1, MappedElsewhere
  <2>3. \A n \in Blocks : n # m => CacheMap'[n] = CacheMap[n]
    BY <1>2, <1>5, <2>1, MappedElsewhere
  <2>4. QED
    BY <2>2, <2>3, BioAssumption
<1>8. CacheMap'[m] = IF CacheMap[m] = NotCached THEN disk[m] ELSE CacheMap[m]
  <2>1. CacheMap'[m] = data'[c]
    BY <1>2, <1>3, <1>6 DEF MapOK
  <2>2. CacheMap[m] = IF valid[c] THEN data[c] ELSE NotCached
    BY <1>2 DEF MapOK
  <2>3. data[c] # NotCached
    BY <1>2, BioAssumption DEF TypeOK
  <2>4. QED
    BY <1>6, <2>1, <2>2, <2>3
<1>9. /\ HoldMap[p] = NoBlock /\ HoldMap'[p] = m
      /\ \A q \in Procs : q # p => HoldMap'[q] = HoldMap[q]
  BY <1>1, <1>3 DEF HoldMap, TypeOK
<1>10. ~BC!Locked(m)
  BY <1>1, <1>2, LockedWhen
<1>11. BC!bread(p, m)
  <2>1. HoldMap' = [HoldMap EXCEPT ![p] = m]
    BY <1>9, MapUpdate
  <2>2. CacheMap' = [CacheMap EXCEPT ![m] = CacheMap'[m]]
    BY <1>2, <1>7, MapUpdate
  <2>3. CacheMap' = [CacheMap EXCEPT ![m] = IF @ = NotCached THEN disk[m] ELSE @]
    BY <1>8, <2>2
  <2>4. PinMap' = PinMap
    BY <1>7, MapStays
  <2>5. QED
    BY <1>3, <1>9, <1>10, <2>1, <2>3, <2>4 DEF BC!bread
<1>12. QED
  BY <1>2, <1>11 DEF BC!Next

\* The holder changes its copy, writes it, pins or unpins it.
LEMMA HolderStep ==
  ASSUME TypeOK, IInv, ReadOnce, MapOK, MapOK', NEW p \in Procs,
         bwrite(p) \/ bpin(p) \/ bunpin(p) \/ \E v \in Data : modify(p, v)
  PROVE  BC!Next
<1> DEFINE m == want[p]
           c == buf[p]
<1>1. pc[p] = "held" /\ UNCHANGED <<blockno, valid, pc, want, buf>>
  BY DEF bwrite, bpin, bunpin, modify
<1>2. /\ c \in Bufs /\ m \in Blocks /\ blockno[c] = m
      /\ \A b \in Bufs : b # c => blockno[b] # m
  BY <1>1, Owned
<1>3. valid[c] /\ HoldMap[p] = m /\ m # NoBlock /\ HoldMap' = HoldMap
  BY <1>1, <1>2, BioAssumption DEF ReadOnce, HoldMap
<1>4. CacheMap[m] = data[c] /\ CacheMap'[m] = data'[c] /\ PinMap[m] = Pins(c) /\ PinMap'[m] = Pins(c)'
  BY <1>1, <1>2, <1>3 DEF MapOK
<1>5. blockno' = blockno /\ blockno \in [Bufs -> Blocks \cup {NoBlock}]
  BY <1>1 DEF TypeOK
<1>6. ASSUME \A b \in Bufs : Pins(b)' = Pins(b) PROVE PinMap' = PinMap
  <2>1. \A n \in Blocks : n # NoBlock => PinMap'[n] = PinMap[n]
    BY <1>5, <1>6, MappedElsewhere
  <2>2. QED
    BY <2>1, MapStays, BioAssumption
<1>7. ASSUME data' = data PROVE CacheMap' = CacheMap
  <2>1. \A b \in Bufs : valid'[b] = valid[b] /\ data'[b] = data[b]
    BY <1>1, <1>7
  <2>2. \A n \in Blocks : n # NoBlock => CacheMap'[n] = CacheMap[n]
    BY <1>5, <2>1, MappedElsewhere
  <2>3. QED
    BY <2>2, MapStays, BioAssumption
<1>8. ASSUME NEW v \in Data, modify(p, v) PROVE BC!Next
  <2>1. data'[c] = v /\ \A b \in Bufs : b # c => valid'[b] = valid[b] /\ data'[b] = data[b]
    BY <1>1, <1>2, <1>8 DEF modify, TypeOK
  <2>2. \A n \in Blocks : n # m => CacheMap'[n] = CacheMap[n]
    BY <1>2, <1>5, <2>1, MappedElsewhere
  <2>3. CacheMap' = [CacheMap EXCEPT ![m] = v]
    BY <1>2, <1>4, <2>1, <2>2, MapUpdate
  <2>4. PinMap' = PinMap
    BY <1>6, <1>8, OtherPins
  <2>5. BC!modify(p, v)
    BY <1>3, <1>8, <2>3, <2>4 DEF BC!modify, modify
  <2>6. QED
    BY <2>5 DEF BC!Next
<1>9. ASSUME bwrite(p) PROVE BC!Next
  <2>1. disk' = [disk EXCEPT ![m] = CacheMap[m]] /\ data' = data
    BY <1>2, <1>4, <1>9 DEF bwrite
  <2>2. PinMap' = PinMap /\ CacheMap' = CacheMap
    BY <1>6, <1>7, <1>9, <2>1, OtherPins
  <2>3. BC!bwrite(p)
    BY <1>3, <2>1, <2>2 DEF BC!bwrite
  <2>4. QED
    BY <2>3 DEF BC!Next
<1>10. ASSUME bpin(p) \/ bunpin(p) PROVE BC!Next
  <2>1. /\ \A b \in Bufs : b # c => Pins(b)' = Pins(b)
        /\ bpin(p) => Pins(c) = 0 /\ Pins(c)' = Pins(c) + 1
        /\ bunpin(p) => Pins(c) > 0 /\ Pins(c)' = Pins(c) - 1
    BY <1>10, PinPins
  <2>2. \A n \in Blocks : n # m => PinMap'[n] = PinMap[n]
    BY <1>2, <1>5, <2>1, MappedElsewhere
  <2>3. PinMap' = [PinMap EXCEPT ![m] = PinMap'[m]]
    BY <1>2, <2>2, MapUpdate
  <2>4. data' = data /\ disk' = disk
    BY <1>10 DEF bpin, bunpin
  <2>5. CacheMap' = CacheMap
    BY <1>7, <2>4
  <2>6. CASE bpin(p)
    <3>1. PinMap' = [PinMap EXCEPT ![m] = @ + 1]
      BY <1>4, <2>1, <2>3, <2>6
    <3>2. BC!bpin(p)
      BY <1>3, <2>4, <2>5, <3>1 DEF BC!bpin
    <3>3. QED
      BY <3>2 DEF BC!Next
  <2>7. CASE bunpin(p)
    <3>1. PinMap' = [PinMap EXCEPT ![m] = @ - 1] /\ PinMap[m] > 0
      BY <1>4, <2>1, <2>3, <2>7
    <3>2. BC!bunpin(p)
      BY <1>3, <2>4, <2>5, <3>1 DEF BC!bunpin
    <3>3. QED
      BY <3>2 DEF BC!Next
  <2>8. QED
    BY <1>10, <2>6, <2>7
<1>11. QED
  BY <1>8, <1>9, <1>10

\* releasesleep() gives the block back; the reference is dropped later, unseen.
LEMMA ReleaseStep ==
  ASSUME TypeOK, IInv, MapOK, MapOK', NEW p \in Procs, releasesleep(p)
  PROVE  BC!Next
<1>1. pc[p] = "held" /\ UNCHANGED <<disk, blockno, valid, data, want>>
  BY DEF releasesleep
<1>2. want[p] \in Blocks
  BY <1>1, Owned
<1>3. \A q \in Procs : pc'[q] = "held" <=> q # p /\ pc[q] = "held"
  BY <1>1 DEF releasesleep, wakeup
<1>4. /\ HoldMap[p] # NoBlock /\ HoldMap'[p] = NoBlock
      /\ \A q \in Procs : q # p => HoldMap'[q] = HoldMap[q]
  BY <1>1, <1>2, <1>3, BioAssumption DEF HoldMap
<1>5. HoldMap' = [HoldMap EXCEPT ![p] = NoBlock]
  BY <1>4, MapUpdate
<1>6. PinMap' = PinMap /\ CacheMap' = CacheMap
  <2>1. blockno' = blockno /\ blockno \in [Bufs -> Blocks \cup {NoBlock}]
    BY <1>1 DEF TypeOK
  <2>2. \A b \in Bufs : Pins(b)' = Pins(b)
    BY OtherPins
  <2>3. \A b \in Bufs : valid'[b] = valid[b] /\ data'[b] = data[b]
    BY <1>1
  <2>4. /\ \A n \in Blocks : n # NoBlock => PinMap'[n] = PinMap[n]
        /\ \A n \in Blocks : n # NoBlock => CacheMap'[n] = CacheMap[n]
    BY <2>1, <2>2, <2>3, MappedElsewhere
  <2>5. QED
    BY <2>4, MapStays, BioAssumption
<1>7. BC!brelse(p)
  BY <1>1, <1>4, <1>5, <1>6 DEF BC!brelse
<1>8. QED
  BY <1>7 DEF BC!Next

\* Recycling a buffer drops the copy of the block it held, which nobody holds or pins.
LEMMA RecycleStep ==
  ASSUME TypeOK, IInv, MapOK, MapOK', NEW p \in Procs, NEW n \in Blocks, bget_recycle(p, n)
  PROVE  [BC!Next]_BC!vars
<1>1. PICK b \in LRU : /\ blockno' = [blockno EXCEPT ![b] = n]
                       /\ valid' = [valid EXCEPT ![b] = FALSE]
  BY DEF bget_recycle, invalidate
<1>2. b \in Bufs /\ refcnt[b] = 0
  BY DEF LRU, Unused, Recyclable, TypeOK, Bufs
<1> DEFINE m == blockno[b]
<1>3. /\ \A q \in Procs : buf[q] # b
      /\ Pins(b) = 0 /\ \A c \in Bufs : Pins(c)' = Pins(c)
      /\ \A c \in Bufs : blockno[c] # n
  BY <1>2, UnusedUnreferenced, PinsType, RecyclePins DEF bget_recycle, Cached
<1>4. disk' = disk /\ data' = data /\ pc[p] = "idle" /\ pc' = [pc EXCEPT ![p] = "acquiresleep"]
      /\ want' = [want EXCEPT ![p] = n]
  BY DEF bget_recycle, Goto
<1>5. HoldMap' = HoldMap
  <2>1. \A q \in Procs : HoldMap'[q] = HoldMap[q]
    BY <1>4 DEF HoldMap, TypeOK
  <2>2. QED
    BY <2>1, MapStays
<1>6. /\ \A c \in Bufs : c # b => blockno'[c] = blockno[c] /\ valid'[c] = valid[c]
      /\ blockno'[b] = n /\ ~valid'[b] /\ m # n
  BY <1>1, <1>2, <1>3 DEF TypeOK
<1>7. PinMap[n] = 0 /\ CacheMap[n] = NotCached /\ PinMap'[n] = 0 /\ CacheMap'[n] = NotCached
  BY <1>2, <1>3, <1>6 DEF MapOK
<1>8. ASSUME NEW k \in Blocks, k # n, k # m
      PROVE  PinMap'[k] = PinMap[k] /\ CacheMap'[k] = CacheMap[k]
  <2>1. CASE \E c \in Bufs : blockno[c] = k
    <3>1. PICK c \in Bufs : blockno[c] = k /\ c # b
      BY <1>8, <2>1
    <3>2. /\ PinMap[k] = Pins(c)
          /\ CacheMap[k] = IF valid[c] THEN data[c] ELSE NotCached
      BY <3>1 DEF MapOK
    <3>3. /\ PinMap'[k] = Pins(c)'
          /\ CacheMap'[k] = IF valid'[c] THEN data'[c] ELSE NotCached
      BY <1>6, <3>1 DEF MapOK
    <3>4. QED
      BY <1>3, <1>4, <1>6, <3>1, <3>2, <3>3
  <2>2. CASE \A c \in Bufs : blockno[c] # k
    <3>1. \A c \in Bufs : blockno'[c] # k
      BY <1>6, <1>8, <2>2
    <3>2. QED
      BY <2>2, <3>1 DEF MapOK
  <2>3. QED
    BY <2>1, <2>2
<1>9. CASE m \notin Blocks
  <2>1. /\ \A k \in Blocks : PinMap'[k] = PinMap[k]
        /\ \A k \in Blocks : CacheMap'[k] = CacheMap[k]
    BY <1>7, <1>8, <1>9
  <2>2. QED
    BY <1>4, <1>5, <2>1, MapStays DEF BC!vars
<1>10. CASE m \in Blocks
  <2>1. \A c \in Bufs : blockno'[c] # m
    BY <1>2, <1>6, <1>10, BioAssumption DEF IInv, OneBufferPerBlock
  <2>2. PinMap[m] = 0 /\ PinMap'[m] = 0 /\ CacheMap'[m] = NotCached
    BY <1>2, <1>3, <1>10, <2>1 DEF MapOK
  <2>3. \A k \in Blocks : PinMap'[k] = PinMap[k]
    BY <1>7, <1>8, <2>2
  <2>4. \A k \in Blocks : k # m => CacheMap'[k] = CacheMap[k]
    BY <1>7, <1>8
  <2>5. PinMap' = PinMap /\ CacheMap' = [CacheMap EXCEPT ![m] = NotCached]
    BY <1>10, <2>2, <2>3, <2>4, MapStays, MapUpdate
  <2>6. ~BC!Locked(m)
    <3>1. ASSUME NEW q \in Procs, pc[q] = "held", want[q] = m PROVE FALSE
      <4>1. \A c \in Bufs : c # buf[q] => blockno[c] # want[q]
        BY <3>1, Owned
      <4>2. QED
        BY <1>2, <1>3, <3>1, <4>1
    <3>2. QED
      BY <1>10, <3>1, LockedWhen
  <2>7. BC!recycle(m)
    BY <1>4, <1>5, <2>2, <2>5, <2>6 DEF BC!recycle
  <2>8. QED
    BY <1>10, <2>7 DEF BC!Next
<1>11. QED
  BY <1>9, <1>10

\* Every step of the buffers is a step of the abstract cache, or none.
LEMMA CacheStep ==
  TypeOK /\ IInv /\ ReadOnce /\ MapOK /\ MapOK' /\ [Next]_vars => [BC!Next]_BC!vars
<1> SUFFICES ASSUME TypeOK, IInv, ReadOnce, MapOK, MapOK', [Next]_vars PROVE [BC!Next]_BC!vars
  OBVIOUS
<1>1. ASSUME NEW p \in Procs,
             \/ \E n \in Blocks : bget_hit(p, n) \/ bget_panic(p, n)
             \/ acquiresleep(p) \/ brelse(p) \/ (check_valid(p) /\ ~valid[buf[p]])
      PROVE  UNCHANGED BC!vars
  <2>1. UNCHANGED <<disk, blockno, valid, data>>
    BY <1>1 DEF bget_hit, bget_panic, acquiresleep, brelse, check_valid
  <2>2. \A b \in Bufs : Pins(b)' = Pins(b)
    BY <1>1, HitPins, BrelsePins, OtherPins
  <2>3. \A q \in Procs : pc'[q] = "held" <=> pc[q] = "held"
    BY <1>1 DEF bget_hit, bget_panic, acquiresleep, brelse, check_valid, Goto, TypeOK
  <2>4. \A q \in Procs : pc[q] = "held" => want'[q] = want[q]
    BY <1>1 DEF bget_hit, bget_panic, acquiresleep, brelse, check_valid, TypeOK
  <2>5. \A q \in Procs : HoldMap'[q] = HoldMap[q]
    BY <2>3, <2>4 DEF HoldMap
  <2>6. QED
    BY <2>1, <2>2, <2>5, CacheStutter
<1>2. CASE UNCHANGED vars
  <2>1. UNCHANGED <<disk, blockno, valid, data>> /\ \A b \in Bufs : Pins(b)' = Pins(b)
    BY <1>2 DEF vars, Pins, Refs
  <2>2. \A q \in Procs : HoldMap'[q] = HoldMap[q]
    BY <1>2 DEF vars, HoldMap
  <2>3. QED
    BY <2>1, <2>2, CacheStutter
<1>3. QED
  BY <1>1, <1>2, RecycleStep, BreadStep, HolderStep, ReleaseStep DEF Next, bget

\* A process is given what was last written, one holder at a time, and nothing held or
\* pinned is recycled: the buffers implement a cache with one copy per block.
THEOREM BufferCacheRefined == Spec => ImplementsCache
<1>1. Init => BC!Init
  <2> SUFFICES ASSUME Init PROVE BC!Init
    OBVIOUS
  <2>1. \A n \in Blocks : Cached(n) = {} /\ CachedAndRead(n) = {}
    BY BioAssumption DEF Init, Cached, CachedAndRead
  <2>2. CacheMap = [n \in Blocks |-> NotCached] /\ PinMap = [n \in Blocks |-> 0]
    BY <2>1 DEF CacheMap, PinMap
  <2>3. HoldMap = [p \in Procs |-> NoBlock]
    BY DEF HoldMap, Init
  <2>4. QED
    BY <2>2, <2>3 DEF Init, BC!Init
<1>2. CacheInv => TypeOK /\ IInv /\ ReadOnce /\ MapOK
  BY Mapped DEF CacheInv
<1>3. QED
  BY <1>1, <1>2, CacheSafe, CacheStep, PTL DEF Spec, ImplementsCache, BC!Spec
=============================================================================
