----------------------------- MODULE PipeProofs -----------------------------
(***************************************************************************)
(* Proofs about Pipe, for any number of readers and writers, any PIPESIZE  *)
(* and counters that wrap at any multiple of it: no wakeup is lost, end of *)
(* file is final, a freed pipe is not used, and the ring is a bounded      *)
(* queue.                                                                  *)
(***************************************************************************)
EXTENDS Pipe, SequenceTheorems, TLAPS

USE DEF Procs

-----------------------------------------------------------------------------
(* Remainders, of which the provers know the defining equation only, and   *)
(* Append and Tail as functions of the position.                           *)

\* The remainder is the one number below m that is left after a multiple of m.
LEMMA ModUnique ==
  ASSUME NEW m \in Nat \ {0}, NEW q \in Int, NEW r \in 0 .. m - 1
  PROVE  (q * m + r) % m = r
  OBVIOUS

\* Division with remainder.
LEMMA ModSplit ==
  ASSUME NEW m \in Nat \ {0}, NEW x \in Int
  PROVE  /\ x % m \in 0 .. m - 1
         /\ x \div m \in Int
         /\ x = (x \div m) * m + (x % m)
  OBVIOUS

\* A number that is in range is its own remainder.
LEMMA ModSmall ==
  ASSUME NEW m \in Nat \ {0}, NEW x \in 0 .. m - 1
  PROVE  x % m = x
  OBVIOUS

\* A number that is out of range by one turn at most.
LEMMA ModOver ==
  ASSUME NEW m \in Nat \ {0}, NEW x \in m .. 2 * m - 1
  PROVE  x % m = x - m
  OBVIOUS

LEMMA ModUnder ==
  ASSUME NEW m \in Nat \ {0}, NEW x \in Int, -m <= x, x < 0
  PROVE  x % m = x + m
  OBVIOUS

\* Whole turns do not matter.
LEMMA ModTurns ==
  ASSUME NEW m \in Nat \ {0}, NEW x \in Int, NEW k \in Int
  PROVE  (x + k * m) % m = x % m
<1> DEFINE q == x \div m
           r == x % m
<1>1. q \in Int /\ r \in 0 .. m - 1 /\ x = q * m + r
  BY ModSplit
<1> HIDE DEF q, r
<1>2. q + k \in Int /\ x + k * m = (q + k) * m + r
  BY <1>1
<1>3. ((q + k) * m + r) % m = r
  BY <1>1, <1>2, ModUnique
<1>4. QED
  BY <1>2, <1>3 DEF r

\* Two numbers less than a turn apart have different remainders.
LEMMA ModDistinct ==
  ASSUME NEW m \in Nat \ {0}, NEW x \in Int, NEW d \in 1 .. m - 1
  PROVE  (x + d) % m # x % m
<1> DEFINE q == x \div m
           r == x % m
<1>1. q \in Int /\ r \in 0 .. m - 1 /\ x = q * m + r
  BY ModSplit
<1> HIDE DEF q, r
<1>2. CASE r + d < m
  <2>1. r + d \in 0 .. m - 1 /\ x + d = q * m + (r + d)
    BY <1>1, <1>2
  <2>2. (x + d) % m = r + d
    BY <1>1, <2>1, ModUnique
  <2>3. QED
    BY <1>1, <2>2 DEF r
<1>3. CASE r + d >= m
  <2>1. (r + d) - m \in 0 .. m - 1 /\ x + d = (q + 1) * m + ((r + d) - m) /\ q + 1 \in Int
    BY <1>1, <1>3
  <2>2. (x + d) % m = (r + d) - m
    BY <1>1, <2>1, ModUnique
  <2>3. QED
    BY <1>1, <2>2 DEF r
<1>4. QED
  BY <1>1, <1>2, <1>3

\* Append and Tail, as functions of the position.
LEMMA AppendIsFunction ==
  ASSUME NEW S, NEW s \in Seq(S), NEW v \in S
  PROVE  Append(s, v) = [k \in 1 .. Len(s) + 1 |-> IF k = Len(s) + 1 THEN v ELSE s[k]]
<1>1. Append(s, v) \in Seq(S) /\ Len(Append(s, v)) = Len(s) + 1
  BY AppendProperties
<1>2. Append(s, v) \in [1 .. Len(s) + 1 -> S] /\ Len(s) \in Nat
  BY <1>1, LenProperties
<1>3. \A k \in 1 .. Len(s) + 1 : Append(s, v)[k] = IF k = Len(s) + 1 THEN v ELSE s[k]
  BY <1>2, AppendProperties
<1>4. QED
  BY <1>2, <1>3

LEMMA TailIsFunction ==
  ASSUME NEW S, NEW s \in Seq(S), s # <<>>
  PROVE  Tail(s) = [k \in 1 .. Len(s) - 1 |-> s[k + 1]]
<1>1. Tail(s) \in Seq(S) /\ Len(Tail(s)) = Len(s) - 1
  BY HeadTailProperties
<1>2. Tail(s) \in [1 .. Len(s) - 1 -> S]
  BY <1>1, LenProperties
<1>3. \A k \in 1 .. Len(s) - 1 : Tail(s)[k] = s[k + 1]
  BY <1>1, HeadTailProperties
<1>4. QED
  BY <1>2, <1>3

-----------------------------------------------------------------------------
(* The counters.                                                           *)

\* UINT is a multiple of PIPESIZE, and larger.
LEMMA Sizes ==
  /\ PIPESIZE \in Nat \ {0} /\ UINT \in Nat \ {0} /\ PIPESIZE < UINT
  /\ \E k \in Nat \ {0} : UINT = k * PIPESIZE
<1>1. PICK k \in 2 .. UINT : UINT = k * PIPESIZE
  BY PipeAssumption
<1>2. k \in Nat /\ k >= 2 /\ PIPESIZE \in Nat \ {0}
  BY PipeAssumption
<1>3. k * PIPESIZE >= 2 * PIPESIZE
  BY <1>2
<1>4. QED
  BY <1>1, <1>2, <1>3, PipeAssumption

\* Differences and sums of counters without %.
LEMMA Counters ==
  ASSUME NEW a \in 0 .. UINT - 1, NEW b \in 0 .. UINT - 1
  PROVE  /\ (b - a) % UINT = IF b >= a THEN b - a ELSE b - a + UINT
         /\ (a + 1) % UINT = IF a = UINT - 1 THEN 0 ELSE a + 1
         /\ (a + PIPESIZE) % UINT = IF a + PIPESIZE < UINT THEN a + PIPESIZE ELSE a + PIPESIZE - UINT
<1>1. (b - a) % UINT = IF b >= a THEN b - a ELSE b - a + UINT
  <2>1. CASE b >= a
    BY <2>1, Sizes, ModSmall
  <2>2. CASE b < a
    BY <2>2, Sizes, ModUnder
  <2>3. QED
    BY <2>1, <2>2
<1>2. (a + 1) % UINT = IF a = UINT - 1 THEN 0 ELSE a + 1
  <2>1. CASE a = UINT - 1
    <3>1. a + 1 = 1 * UINT + 0 /\ 0 \in 0 .. UINT - 1
      BY <2>1, Sizes
    <3>2. QED
      BY <2>1, <3>1, Sizes, ModUnique
  <2>2. CASE a # UINT - 1
    BY <2>2, Sizes, ModSmall
  <2>3. QED
    BY <2>1, <2>2
<1>3. (a + PIPESIZE) % UINT = IF a + PIPESIZE < UINT THEN a + PIPESIZE ELSE a + PIPESIZE - UINT
  <2>1. CASE a + PIPESIZE < UINT
    BY <2>1, Sizes, ModSmall
  <2>2. CASE a + PIPESIZE >= UINT
    BY <2>2, Sizes, ModOver
  <2>3. QED
    BY <2>1, <2>2, Sizes
<1>4. QED
  BY <1>1, <1>2, <1>3

\* Empty and Full say how many bytes are in the pipe.
LEMMA EmptyFull ==
  ASSUME TypeOK
  PROVE  /\ Count \in 0 .. PIPESIZE
         /\ Empty <=> Count = 0
         /\ Full <=> Count = PIPESIZE
<1>1. nread \in 0 .. UINT - 1 /\ nwrite \in 0 .. UINT - 1 /\ Count <= PIPESIZE
  BY DEF TypeOK
<1>2. Count = IF nwrite >= nread THEN nwrite - nread ELSE nwrite - nread + UINT
  BY <1>1, Counters DEF Count
<1>3. Full <=> nwrite = IF nread + PIPESIZE < UINT THEN nread + PIPESIZE ELSE nread + PIPESIZE - UINT
  BY <1>1, Counters DEF Full
<1>4. QED
  BY <1>1, <1>2, <1>3, Sizes DEF Empty

\* A byte read or written changes their number by one.
LEMMA CountMoves ==
  ASSUME TypeOK
  PROVE  /\ ~Empty /\ nread' = (nread + 1) % UINT /\ nwrite' = nwrite =>
                Count' = Count - 1 /\ nread' \in 0 .. UINT - 1
         /\ ~Full /\ nwrite' = (nwrite + 1) % UINT /\ nread' = nread =>
                Count' = Count + 1 /\ nwrite' \in 0 .. UINT - 1
<1>1. nread \in 0 .. UINT - 1 /\ nwrite \in 0 .. UINT - 1 /\ Count <= PIPESIZE
  BY DEF TypeOK
<1>2. Count = IF nwrite >= nread THEN nwrite - nread ELSE nwrite - nread + UINT
  BY <1>1, Counters DEF Count
<1>3. ASSUME NEW a \in 0 .. UINT - 1
      PROVE  (a + 1) % UINT \in 0 .. UINT - 1 /\ (a + 1) % UINT = IF a = UINT - 1 THEN 0 ELSE a + 1
  BY Sizes, Counters
<1>4. ASSUME ~Empty, nread' = (nread + 1) % UINT, nwrite' = nwrite
      PROVE  Count' = Count - 1 /\ nread' \in 0 .. UINT - 1
  <2>1. nread' \in 0 .. UINT - 1 /\ nread' = IF nread = UINT - 1 THEN 0 ELSE nread + 1
    BY <1>1, <1>3, <1>4
  <2>2. Count' = IF nwrite' >= nread' THEN nwrite' - nread' ELSE nwrite' - nread' + UINT
    BY <1>1, <1>4, <2>1, Counters DEF Count
  <2>3. QED
    BY <1>1, <1>2, <1>4, <2>1, <2>2, Sizes DEF Empty
<1>5. ASSUME ~Full, nwrite' = (nwrite + 1) % UINT, nread' = nread
      PROVE  Count' = Count + 1 /\ nwrite' \in 0 .. UINT - 1
  <2>1. nwrite' \in 0 .. UINT - 1 /\ nwrite' = IF nwrite = UINT - 1 THEN 0 ELSE nwrite + 1
    BY <1>1, <1>3, <1>5
  <2>2. Count' = IF nwrite' >= nread' THEN nwrite' - nread' ELSE nwrite' - nread' + UINT
    BY <1>1, <1>5, <2>1, Counters DEF Count
  <2>3. Count < PIPESIZE
    BY <1>1, <1>5, EmptyFull, Sizes
  <2>4. QED
    BY <1>1, <1>2, <1>5, <2>1, <2>2, <2>3, Sizes
<1>6. QED
  BY <1>4, <1>5

\* Only the two counters say how full the pipe is.
LEMMA CountStays ==
  ASSUME UNCHANGED <<nread, nwrite>>
  PROVE  Count' = Count /\ Empty' = Empty /\ Full' = Full
  BY DEF Count, Empty, Full

LEMMA NoProcIsNone == NoProc \notin Procs /\ Killable \subseteq Procs
  BY PipeAssumption

-----------------------------------------------------------------------------
(* Types and the lock.                                                     *)

LEMMA InitTypeOK == Init => TypeOK
<1> SUFFICES ASSUME Init PROVE TypeOK
  OBVIOUS
<1>1. Count <= PIPESIZE
  BY Sizes, ModSmall DEF Init, Count
<1>2. nread \in 0 .. UINT - 1 /\ nwrite \in 0 .. UINT - 1
  BY Sizes DEF Init
<1>3. QED
  BY <1>1, <1>2, NoProcIsNone DEF Init, TypeOK, PC, Locked

\* A step of a reader.
LEMMA ReadTypeOK ==
  ASSUME TypeOK, IInv, NEW p \in Procs,
         \/ \E k \in 1 .. MaxN : piperead(p, k)
         \/ read_lock(p) \/ read_go(p) \/ read_wait(p) \/ read_sleep(p)
         \/ read_byte(p) \/ read_fault(p) \/ read_done(p)
  PROVE  TypeOK'
<1> USE NoProcIsNone, CountStays DEF TypeOK, PC, Locked, pipe, Goto, Return, WakeWriters, GotoAndWake
<1>1. CASE \E k \in 1 .. MaxN : piperead(p, k)
  BY <1>1 DEF piperead
<1>2. CASE read_lock(p)
  BY <1>2 DEF read_lock, Acquire
<1>3. CASE read_go(p)
  BY <1>3 DEF read_go
<1>4. CASE read_wait(p)
  <2>1. CASE killed[p]
    <3>1. /\ pc[p] = "r_wait" /\ pc' = [pc EXCEPT ![p] = "idle"] /\ lock' = NoProc
          /\ n' = [n EXCEPT ![p] = 0] /\ i' = [i EXCEPT ![p] = 0]
          /\ UNCHANGED <<data, nread, nwrite, readopen, writeopen, freed, rfds, wfds, eof, killed>>
      BY <1>4, <2>1 DEF read_wait
    <3>2. QED
      BY <3>1
  <2>2. CASE ~killed[p]
    BY <1>4, <2>2 DEF read_wait
  <2>3. QED
    BY <2>1, <2>2
<1>5. CASE read_sleep(p)
  BY <1>5 DEF read_sleep
<1>6. CASE read_byte(p)
  <2>1. nread' \in 0 .. UINT - 1 /\ Count' = Count - 1
    BY <1>6, CountMoves DEF read_byte
  <2>2. Count' <= PIPESIZE
    BY <2>1, EmptyFull, Sizes
  <2>3. UNCHANGED <<data, nwrite, readopen, writeopen, lock, freed, rfds, wfds, pc, n, eof, killed>>
    BY <1>6 DEF read_byte
  <2>4. i' = [i EXCEPT ![p] = @ + 1]
    BY <1>6 DEF read_byte
  <2>5. QED
    BY <2>1, <2>2, <2>3, <2>4
<1>7. CASE read_fault(p)
  BY <1>7 DEF read_fault
<1>8. CASE read_done(p)
  BY <1>8 DEF IInv, EndsOpen, read_done, Reading
<1>9. QED
  BY <1>1, <1>2, <1>3, <1>4, <1>5, <1>6, <1>7, <1>8

\* A step of a writer.
LEMMA WriteTypeOK ==
  ASSUME TypeOK, NEW p \in Procs,
         \/ \E k \in 1 .. MaxN : pipewrite(p, k)
         \/ write_lock(p) \/ write_check(p) \/ write_full(p) \/ (\E v \in Bytes : write_byte(p, v))
         \/ write_fault(p) \/ write_done(p)
  PROVE  TypeOK'
<1> USE NoProcIsNone, CountStays DEF TypeOK, PC, Locked, pipe, Goto, Return, WakeReaders, GotoAndWake
<1>1. CASE \E k \in 1 .. MaxN : pipewrite(p, k)
  BY <1>1 DEF pipewrite
<1>2. CASE write_lock(p)
  BY <1>2 DEF write_lock, Acquire
<1>3. CASE write_check(p)
  <2>1. CASE ~readopen \/ killed[p]
    <3>1. /\ pc[p] = "w_loop" /\ pc' = [pc EXCEPT ![p] = "idle"] /\ lock' = NoProc
          /\ n' = [n EXCEPT ![p] = 0] /\ i' = [i EXCEPT ![p] = 0]
          /\ UNCHANGED <<data, nread, nwrite, readopen, writeopen, freed, rfds, wfds, eof, killed>>
      BY <1>3, <2>1 DEF write_check
    <3>2. QED
      BY <3>1
  <2>2. CASE ~(~readopen \/ killed[p])
    BY <1>3, <2>2 DEF write_check
  <2>3. QED
    BY <2>1, <2>2
<1>4. CASE write_full(p)
  BY <1>4 DEF write_full
<1>5. CASE \E v \in Bytes : write_byte(p, v)
  <2>1. PICK v \in Bytes : write_byte(p, v)
    BY <1>5
  <2>2. nwrite' \in 0 .. UINT - 1 /\ Count' = Count + 1 /\ ~Full
    BY <2>1, CountMoves DEF write_byte
  <2>3. Count' <= PIPESIZE
    BY <2>2, EmptyFull, Sizes
  <2>4. UNCHANGED <<nread, readopen, writeopen, lock, freed, rfds, wfds, n, eof, killed>>
    BY <2>1 DEF write_byte
  <2>5. data' \in [0 .. PIPESIZE - 1 -> Bytes]
    BY <2>1 DEF write_byte
  <2>6. /\ pc[p] = "w_put" /\ pc' = [pc EXCEPT ![p] = "w_loop"]
        /\ i' = [i EXCEPT ![p] = @ + 1]
    BY <2>1 DEF write_byte
  <2>7. QED
    BY <2>2, <2>3, <2>4, <2>5, <2>6
<1>6. CASE write_fault(p)
  BY <1>6 DEF write_fault
<1>7. CASE write_done(p)
  BY <1>7 DEF write_done
<1>8. QED
  BY <1>1, <1>2, <1>3, <1>4, <1>5, <1>6, <1>7

\* A step that closes an end, or kills.
LEMMA CloseTypeOK ==
  ASSUME TypeOK, NEW p \in Procs,
         \/ close_read(p) \/ close_write(p) \/ pipeclose_read(p) \/ pipeclose_write(p) \/ kkill(p)
  PROVE  TypeOK'
<1> USE NoProcIsNone, CountStays DEF TypeOK, PC, Locked, pipe, Goto, WakeReaders, WakeWriters, GotoAndWake
<1>1. CASE close_read(p)
  BY <1>1 DEF close_read
<1>2. CASE close_write(p)
  BY <1>2 DEF close_write
<1>3. CASE pipeclose_read(p)
  BY <1>3 DEF pipeclose_read
<1>4. CASE pipeclose_write(p)
  BY <1>4 DEF pipeclose_write
<1>5. CASE kkill(p)
  BY <1>5 DEF kkill
<1>6. QED
  BY <1>1, <1>2, <1>3, <1>4, <1>5
-----------------------------------------------------------------------------
(* The inductive invariant.                                                *)

LEMMA InitIInv == Init => IInv
  BY NoProcIsNone DEF Init, IInv, EndsOpen, SleepersSeen, EofIsFinal, Reading, Writing, MustWait

\* A reader leaves the ends as they are.
LEMMA ReadEndsOpen ==
  ASSUME TypeOK, TypeOK', IInv, NEW p \in Procs,
         \/ \E k \in 1 .. MaxN : piperead(p, k)
         \/ read_lock(p) \/ read_go(p) \/ read_wait(p) \/ read_sleep(p)
         \/ read_byte(p) \/ read_fault(p) \/ read_done(p)
  PROVE  EndsOpen'
<1> USE NoProcIsNone, CountStays DEF TypeOK, Locked, pipe, Goto, Return, WakeReaders, WakeWriters, GotoAndWake,
        IInv, EndsOpen, SleepersSeen, EofIsFinal, Reading, Writing, MustWait
<1>1. CASE \E k \in 1 .. MaxN : piperead(p, k)
  BY <1>1 DEF piperead
<1>2. CASE read_lock(p)
  BY <1>2 DEF read_lock, Acquire
<1>3. CASE read_go(p)
  BY <1>3 DEF read_go
<1>4. CASE read_wait(p)
  <2>1. CASE killed[p]
    <3>1. /\ pc[p] = "r_wait" /\ pc' = [pc EXCEPT ![p] = "idle"] /\ lock' = NoProc
          /\ n' = [n EXCEPT ![p] = 0] /\ i' = [i EXCEPT ![p] = 0]
          /\ UNCHANGED <<data, nread, nwrite, readopen, writeopen, freed, rfds, wfds, eof, killed>>
      BY <1>4, <2>1 DEF read_wait
    <3>2. QED
      BY <2>1, <3>1
  <2>2. CASE ~killed[p]
    <3>1. /\ pc[p] = "r_wait" /\ pc' = [pc EXCEPT ![p] = "r_sleep"] /\ UNCHANGED <<lock, n, i>>
          /\ UNCHANGED <<data, nread, nwrite, readopen, writeopen, freed, rfds, wfds, eof, killed>>
      BY <1>4, <2>2 DEF read_wait
    <3>2. QED
      BY <2>2, <3>1
  <2>3. QED
    BY <2>1, <2>2
<1>5. CASE read_sleep(p)
  BY <1>5 DEF read_sleep
<1>6. CASE read_byte(p)
  BY <1>6 DEF read_byte
<1>7. CASE read_fault(p)
  BY <1>7 DEF read_fault
<1>8. CASE read_done(p)
  BY <1>8 DEF read_done
<1>9. QED
  BY <1>1, <1>2, <1>3, <1>4, <1>5, <1>6, <1>7, <1>8

\* A writer leaves the ends as they are.
LEMMA WriteEndsOpen ==
  ASSUME TypeOK, TypeOK', IInv, NEW p \in Procs,
         \/ \E k \in 1 .. MaxN : pipewrite(p, k)
         \/ write_lock(p) \/ write_check(p) \/ write_full(p) \/ (\E v \in Bytes : write_byte(p, v))
         \/ write_fault(p) \/ write_done(p)
  PROVE  EndsOpen'
<1> USE NoProcIsNone, CountStays DEF TypeOK, Locked, pipe, Goto, Return, WakeReaders, WakeWriters, GotoAndWake,
        IInv, EndsOpen, SleepersSeen, EofIsFinal, Reading, Writing, MustWait
<1>1. CASE \E k \in 1 .. MaxN : pipewrite(p, k)
  BY <1>1 DEF pipewrite
<1>2. CASE write_lock(p)
  BY <1>2 DEF write_lock, Acquire
<1>3. CASE write_check(p)
  BY <1>3 DEF write_check
<1>4. CASE write_full(p)
  BY <1>4 DEF write_full
<1>5. CASE \E v \in Bytes : write_byte(p, v)
  BY <1>5 DEF write_byte
<1>6. CASE write_fault(p)
  BY <1>6 DEF write_fault
<1>7. CASE write_done(p)
  BY <1>7 DEF write_done
<1>8. QED
  BY <1>1, <1>2, <1>3, <1>4, <1>5, <1>6, <1>7

\* The last to close an end is alone.
LEMMA CloseEndsOpen ==
  ASSUME TypeOK, TypeOK', IInv, NEW p \in Procs,
         \/ close_read(p) \/ close_write(p) \/ pipeclose_read(p) \/ pipeclose_write(p) \/ kkill(p)
  PROVE  EndsOpen'
<1> USE NoProcIsNone, CountStays DEF TypeOK, Locked, pipe, Goto, Return, WakeReaders, WakeWriters, GotoAndWake,
        IInv, EndsOpen, SleepersSeen, EofIsFinal, Reading, Writing, MustWait
<1>1. CASE close_read(p)
  BY <1>1 DEF close_read, LastReference
<1>2. CASE close_write(p)
  BY <1>2 DEF close_write, LastReference
<1>3. CASE pipeclose_read(p)
  BY <1>3 DEF pipeclose_read
<1>4. CASE pipeclose_write(p)
  BY <1>4 DEF pipeclose_write
<1>5. CASE kkill(p)
  BY <1>5 DEF kkill
<1>6. QED
  BY <1>1, <1>2, <1>3, <1>4, <1>5

\* What a reader saw under pi->lock stays so, and it wakes the writers it makes room for.
LEMMA ReadSleepersSeen ==
  ASSUME TypeOK, TypeOK', IInv, NEW p \in Procs,
         \/ \E k \in 1 .. MaxN : piperead(p, k)
         \/ read_lock(p) \/ read_go(p) \/ read_wait(p) \/ read_sleep(p)
         \/ read_byte(p) \/ read_fault(p) \/ read_done(p)
  PROVE  SleepersSeen'
<1> USE NoProcIsNone, CountStays DEF TypeOK, Locked, pipe, Goto, Return, WakeReaders, WakeWriters, GotoAndWake,
        IInv, EndsOpen, SleepersSeen, EofIsFinal, Reading, Writing, MustWait
<1>1. CASE \E k \in 1 .. MaxN : piperead(p, k)
  BY <1>1 DEF piperead
<1>2. CASE read_lock(p)
  BY <1>2 DEF read_lock, Acquire
<1>3. CASE read_go(p)
  BY <1>3 DEF read_go
<1>4. CASE read_wait(p)
  BY <1>4 DEF read_wait
<1>5. CASE read_sleep(p)
  BY <1>5 DEF read_sleep
<1>6. CASE read_byte(p)
  BY <1>6 DEF read_byte
<1>7. CASE read_fault(p)
  BY <1>7 DEF read_fault
<1>8. CASE read_done(p)
  BY <1>8 DEF read_done
<1>9. QED
  BY <1>1, <1>2, <1>3, <1>4, <1>5, <1>6, <1>7, <1>8

\* What a writer saw under pi->lock stays so, and it wakes the readers it has bytes for.
LEMMA WriteSleepersSeen ==
  ASSUME TypeOK, TypeOK', IInv, NEW p \in Procs,
         \/ \E k \in 1 .. MaxN : pipewrite(p, k)
         \/ write_lock(p) \/ write_check(p) \/ write_full(p) \/ (\E v \in Bytes : write_byte(p, v))
         \/ write_fault(p) \/ write_done(p)
  PROVE  SleepersSeen'
<1> USE NoProcIsNone, CountStays DEF TypeOK, Locked, pipe, Goto, Return, WakeReaders, WakeWriters, GotoAndWake,
        IInv, EndsOpen, SleepersSeen, EofIsFinal, Reading, Writing, MustWait
<1>1. CASE \E k \in 1 .. MaxN : pipewrite(p, k)
  BY <1>1 DEF pipewrite
<1>2. CASE write_lock(p)
  BY <1>2 DEF write_lock, Acquire
<1>3. CASE write_check(p)
  <2>1. CASE ~readopen \/ killed[p]
    <3>1. /\ pc[p] = "w_loop" /\ pc' = [pc EXCEPT ![p] = "idle"] /\ lock' = NoProc
          /\ n' = [n EXCEPT ![p] = 0] /\ i' = [i EXCEPT ![p] = 0]
          /\ UNCHANGED <<data, nread, nwrite, readopen, writeopen, freed, rfds, wfds, eof, killed>>
      BY <1>3, <2>1 DEF write_check
    <3>2. QED
      BY <2>1, <3>1
  <2>2. CASE ~(~readopen \/ killed[p])
    BY <1>3, <2>2 DEF write_check
  <2>3. QED
    BY <2>1, <2>2
<1>4. CASE write_full(p)
  BY <1>4 DEF write_full
<1>5. CASE \E v \in Bytes : write_byte(p, v)
  BY <1>5 DEF write_byte
<1>6. CASE write_fault(p)
  BY <1>6 DEF write_fault
<1>7. CASE write_done(p)
  BY <1>7 DEF write_done
<1>8. QED
  BY <1>1, <1>2, <1>3, <1>4, <1>5, <1>6, <1>7

\* Closing an end wakes the sleepers of the other.
LEMMA CloseSleepersSeen ==
  ASSUME TypeOK, TypeOK', IInv, NEW p \in Procs,
         \/ close_read(p) \/ close_write(p) \/ pipeclose_read(p) \/ pipeclose_write(p) \/ kkill(p)
  PROVE  SleepersSeen'
<1> USE NoProcIsNone, CountStays DEF TypeOK, Locked, pipe, Goto, Return, WakeReaders, WakeWriters, GotoAndWake,
        IInv, EndsOpen, SleepersSeen, EofIsFinal, Reading, Writing, MustWait
<1>1. CASE close_read(p)
  BY <1>1 DEF close_read, LastReference
<1>2. CASE close_write(p)
  BY <1>2 DEF close_write, LastReference
<1>3. CASE pipeclose_read(p)
  BY <1>3 DEF pipeclose_read
<1>4. CASE pipeclose_write(p)
  BY <1>4 DEF pipeclose_write
<1>5. CASE kkill(p)
  BY <1>5 DEF kkill
<1>6. QED
  BY <1>1, <1>2, <1>3, <1>4, <1>5

\* A read returns 0 at the end of file only.
LEMMA ReadEofIsFinal ==
  ASSUME TypeOK, TypeOK', IInv, NEW p \in Procs,
         \/ \E k \in 1 .. MaxN : piperead(p, k)
         \/ read_lock(p) \/ read_go(p) \/ read_wait(p) \/ read_sleep(p)
         \/ read_byte(p) \/ read_fault(p) \/ read_done(p)
  PROVE  EofIsFinal'
<1> USE NoProcIsNone, CountStays DEF TypeOK, Locked, pipe, Goto, Return, WakeReaders, WakeWriters, GotoAndWake,
        IInv, EndsOpen, SleepersSeen, EofIsFinal, Reading, Writing, MustWait
<1>1. CASE \E k \in 1 .. MaxN : piperead(p, k)
  BY <1>1 DEF piperead
<1>2. CASE read_lock(p)
  BY <1>2 DEF read_lock, Acquire
<1>3. CASE read_go(p)
  BY <1>3 DEF read_go
<1>4. CASE read_wait(p)
  BY <1>4 DEF read_wait
<1>5. CASE read_sleep(p)
  BY <1>5 DEF read_sleep
<1>6. CASE read_byte(p)
  BY <1>6 DEF read_byte
<1>7. CASE read_fault(p)
  BY <1>7 DEF read_fault
<1>8. CASE read_done(p)
  BY <1>8 DEF read_done
<1>9. QED
  BY <1>1, <1>2, <1>3, <1>4, <1>5, <1>6, <1>7, <1>8

\* No byte is written after the end of file.
LEMMA WriteEofIsFinal ==
  ASSUME TypeOK, TypeOK', IInv, NEW p \in Procs,
         \/ \E k \in 1 .. MaxN : pipewrite(p, k)
         \/ write_lock(p) \/ write_check(p) \/ write_full(p) \/ (\E v \in Bytes : write_byte(p, v))
         \/ write_fault(p) \/ write_done(p)
  PROVE  EofIsFinal'
<1> USE NoProcIsNone, CountStays DEF TypeOK, Locked, pipe, Goto, Return, WakeReaders, WakeWriters, GotoAndWake,
        IInv, EndsOpen, SleepersSeen, EofIsFinal, Reading, Writing, MustWait
<1>1. CASE \E k \in 1 .. MaxN : pipewrite(p, k)
  BY <1>1 DEF pipewrite
<1>2. CASE write_lock(p)
  BY <1>2 DEF write_lock, Acquire
<1>3. CASE write_check(p)
  BY <1>3 DEF write_check
<1>4. CASE write_full(p)
  BY <1>4 DEF write_full
<1>5. CASE \E v \in Bytes : write_byte(p, v)
  BY <1>5 DEF write_byte
<1>6. CASE write_fault(p)
  BY <1>6 DEF write_fault
<1>7. CASE write_done(p)
  BY <1>7 DEF write_done
<1>8. QED
  BY <1>1, <1>2, <1>3, <1>4, <1>5, <1>6, <1>7

\* Closing does not change what was the end.
LEMMA CloseEofIsFinal ==
  ASSUME TypeOK, TypeOK', IInv, NEW p \in Procs,
         \/ close_read(p) \/ close_write(p) \/ pipeclose_read(p) \/ pipeclose_write(p) \/ kkill(p)
  PROVE  EofIsFinal'
<1> USE NoProcIsNone, CountStays DEF TypeOK, Locked, pipe, Goto, Return, WakeReaders, WakeWriters, GotoAndWake,
        IInv, EndsOpen, SleepersSeen, EofIsFinal, Reading, Writing, MustWait
<1>1. CASE close_read(p)
  BY <1>1 DEF close_read, LastReference
<1>2. CASE close_write(p)
  BY <1>2 DEF close_write, LastReference
<1>3. CASE pipeclose_read(p)
  BY <1>3 DEF pipeclose_read
<1>4. CASE pipeclose_write(p)
  BY <1>4 DEF pipeclose_write
<1>5. CASE kkill(p)
  BY <1>5 DEF kkill
<1>6. QED
  BY <1>1, <1>2, <1>3, <1>4, <1>5

-----------------------------------------------------------------------------
(* The theorems.                                                           *)

LEMMA NextInv == TypeOK /\ IInv /\ [Next]_vars => TypeOK' /\ IInv'
<1> SUFFICES ASSUME TypeOK, IInv, [Next]_vars PROVE TypeOK' /\ IInv'
  OBVIOUS
<1>1. ASSUME NEW p \in Procs,
             \/ \E k \in 1 .. MaxN : piperead(p, k)
             \/ read_lock(p) \/ read_go(p) \/ read_wait(p) \/ read_sleep(p)
             \/ read_byte(p) \/ read_fault(p) \/ read_done(p)
      PROVE  TypeOK' /\ IInv'
  <2>1. TypeOK'
    BY <1>1, ReadTypeOK
  <2>2. EndsOpen' /\ SleepersSeen' /\ EofIsFinal'
    BY <1>1, <2>1, ReadEndsOpen, ReadSleepersSeen, ReadEofIsFinal
  <2>3. QED
    BY <2>1, <2>2 DEF IInv
<1>2. ASSUME NEW p \in Procs,
             \/ \E k \in 1 .. MaxN : pipewrite(p, k)
             \/ write_lock(p) \/ write_check(p) \/ write_full(p) \/ (\E v \in Bytes : write_byte(p, v))
             \/ write_fault(p) \/ write_done(p)
      PROVE  TypeOK' /\ IInv'
  <2>1. TypeOK'
    BY <1>2, WriteTypeOK
  <2>2. EndsOpen' /\ SleepersSeen' /\ EofIsFinal'
    BY <1>2, <2>1, WriteEndsOpen, WriteSleepersSeen, WriteEofIsFinal
  <2>3. QED
    BY <2>1, <2>2 DEF IInv
<1>3. ASSUME NEW p \in Procs,
             close_read(p) \/ close_write(p) \/ pipeclose_read(p) \/ pipeclose_write(p) \/ kkill(p)
      PROVE  TypeOK' /\ IInv'
  <2>1. TypeOK'
    BY <1>3, CloseTypeOK
  <2>2. EndsOpen' /\ SleepersSeen' /\ EofIsFinal'
    BY <1>3, <2>1, CloseEndsOpen, CloseSleepersSeen, CloseEofIsFinal
  <2>3. QED
    BY <2>1, <2>2 DEF IInv
<1>4. CASE UNCHANGED vars
  <2>1. TypeOK'
    BY <1>4, CountStays DEF TypeOK, vars, pipe
  <2>2. IInv'
    BY <1>4, CountStays DEF IInv, EndsOpen, SleepersSeen, EofIsFinal, MustWait, vars, pipe
  <2>3. QED
    BY <2>1, <2>2
<1>5. QED
  BY <1>1, <1>2, <1>3, <1>4, NoProcIsNone DEF Next, Step, Call

\* The inductive invariant gives what the readers, writers and closers rely on.
LEMMA InvImplies == TypeOK /\ IInv => PipeInv
<1> SUFFICES ASSUME TypeOK, IInv PROVE NoLostWakeup /\ NoUseAfterFree
  BY DEF PipeInv
<1>1. NoLostWakeup
  BY NoProcIsNone DEF TypeOK, IInv, SleepersSeen, NoLostWakeup, Locked
<1>2. NoUseAfterFree
  BY DEF TypeOK, IInv, EndsOpen, NoUseAfterFree, PC, Reading, Writing
<1>3. QED
  BY <1>1, <1>2

THEOREM Invariance == Spec => [](TypeOK /\ IInv)
<1>1. Init => TypeOK /\ IInv
  BY InitTypeOK, InitIInv
<1>2. TypeOK /\ IInv /\ [Next]_vars => (TypeOK /\ IInv)'
  BY NextInv
<1>3. QED
  BY <1>1, <1>2, PTL DEF Spec

\* No wakeup of a reader or a writer is lost, end of file is final, and a freed
\* pipe is not used, for any processes, PIPESIZE and wrap-around.
THEOREM PipeSafe == Spec => []PipeInv
  BY Invariance, InvImplies, PTL
-----------------------------------------------------------------------------
(* The ring implements Fifo.                                               *)

LEMMA QueueIsSeq ==
  ASSUME TypeOK
  PROVE  Queue \in Seq(Bytes) /\ Len(Queue) = Count
<1>1. Count \in Nat
  BY EmptyFull, Sizes
<1>2. \A k \in 1 .. Count : data[(nread + k - 1) % PIPESIZE] \in Bytes
  <2>1. nread \in Int
    BY DEF TypeOK
  <2>2. \A k \in 1 .. Count : nread + k - 1 \in Int
    BY <1>1, <2>1
  <2>3. \A k \in 1 .. Count : (nread + k - 1) % PIPESIZE \in 0 .. PIPESIZE - 1
    BY <2>2, Sizes, ModSplit
  <2>4. QED
    BY <2>3 DEF TypeOK
<1>3. QED
  BY <1>1, <1>2 DEF Queue

\* The slot that pipewrite() fills is the one after the last byte, and it is none
\* of those that hold a byte, also when nwrite has wrapped and nread has not.
LEMMA SlotOfWrite ==
  ASSUME TypeOK
  PROVE  /\ (nread + Count) % PIPESIZE = nwrite % PIPESIZE
         /\ Count < PIPESIZE =>
                \A k \in 1 .. Count : (nread + k - 1) % PIPESIZE # nwrite % PIPESIZE
<1>1. nread \in 0 .. UINT - 1 /\ nwrite \in 0 .. UINT - 1 /\ Count \in 0 .. PIPESIZE
  BY EmptyFull DEF TypeOK
<1>2. Count = IF nwrite >= nread THEN nwrite - nread ELSE nwrite - nread + UINT
  BY <1>1, Counters DEF Count
<1>3. PICK m \in Nat \ {0} : UINT = m * PIPESIZE
  BY Sizes
<1>4. (nread + Count) % PIPESIZE = nwrite % PIPESIZE
  <2>1. CASE nwrite >= nread
    <3>1. nread + Count = nwrite
      BY <1>1, <1>2, <2>1
    <3>2. QED
      BY <3>1
  <2>2. CASE nwrite < nread
    <3>1. nread + Count = nwrite + UINT
      BY <1>1, <1>2, <2>2, Sizes
    <3>2. nwrite \in Int /\ m \in Int /\ PIPESIZE \in Nat \ {0}
      BY <1>1, Sizes
    <3>3. (nwrite + m * PIPESIZE) % PIPESIZE = nwrite % PIPESIZE
      BY ONLY <3>2, ModTurns
    <3>4. QED
      BY <1>3, <3>1, <3>3
  <2>3. QED
    BY <1>1, <2>1, <2>2
<1>5. ASSUME Count < PIPESIZE, NEW k \in 1 .. Count
      PROVE  (nread + k - 1) % PIPESIZE # nwrite % PIPESIZE
  <2> DEFINE d == Count - (k - 1)
             x == nread + k - 1
  <2>1. d \in 1 .. PIPESIZE - 1 /\ x \in Int /\ x + d = nread + Count
    BY <1>1, <1>5, Sizes
  <2> HIDE DEF d, x
  <2>2. (x + d) % PIPESIZE # x % PIPESIZE
    BY <2>1, Sizes, ModDistinct
  <2>3. QED
    BY <1>4, <2>1, <2>2 DEF x
<1>6. QED
  BY <1>4, <1>5

\* pipewrite() appends a byte.
LEMMA WriteAppends ==
  ASSUME TypeOK, TypeOK', NEW p \in Procs, NEW v \in Bytes, write_byte(p, v)
  PROVE  Count < PIPESIZE /\ Queue' = Append(Queue, v)
<1>1. ~Full /\ Count' = Count + 1 /\ nread' = nread /\ data' = [data EXCEPT ![nwrite % PIPESIZE] = v]
  BY CountMoves DEF write_byte
<1>2. Count \in Nat /\ Count < PIPESIZE
  BY <1>1, EmptyFull, Sizes
<1>3. Queue' = [k \in 1 .. Count + 1 |-> data'[(nread + k - 1) % PIPESIZE]]
  BY <1>1 DEF Queue
<1>4. Append(Queue, v) = [k \in 1 .. Count + 1 |-> IF k = Count + 1 THEN v ELSE Queue[k]]
  BY QueueIsSeq, AppendIsFunction
<1>5. ASSUME NEW k \in 1 .. Count PROVE data'[(nread + k - 1) % PIPESIZE] = Queue[k]
  <2>1. (nread + k - 1) % PIPESIZE # nwrite % PIPESIZE
    BY <1>2, SlotOfWrite
  <2>2. nread + k - 1 \in Int
    BY <1>2 DEF TypeOK
  <2>3. (nread + k - 1) % PIPESIZE \in 0 .. PIPESIZE - 1
    BY <2>2, Sizes, ModSplit
  <2>4. data'[(nread + k - 1) % PIPESIZE] = data[(nread + k - 1) % PIPESIZE]
    BY <1>1, <2>1, <2>3 DEF TypeOK
  <2>5. QED
    BY <2>4 DEF Queue
<1>6. data'[(nread + (Count + 1) - 1) % PIPESIZE] = v
  <2>1. nread + (Count + 1) - 1 = nread + Count /\ nwrite \in Int
    BY <1>2 DEF TypeOK
  <2>2. nwrite % PIPESIZE \in 0 .. PIPESIZE - 1
    BY <2>1, Sizes, ModSplit
  <2>3. QED
    BY <1>1, <2>1, <2>2, SlotOfWrite DEF TypeOK
<1>7. \A k \in 1 .. Count + 1 :
        data'[(nread + k - 1) % PIPESIZE] = IF k = Count + 1 THEN v ELSE Queue[k]
  <2>1. \A k \in 1 .. Count + 1 : k = Count + 1 \/ k \in 1 .. Count
    BY <1>2
  <2>2. QED
    BY <1>5, <1>6, <2>1
<1>8. QED
  BY <1>2, <1>3, <1>4, <1>7

\* piperead() takes the first byte.
LEMMA ReadTakes ==
  ASSUME TypeOK, TypeOK', NEW p \in Procs, read_byte(p)
  PROVE  Queue # <<>> /\ Queue' = Tail(Queue)
<1>1. ~Empty /\ Count' = Count - 1 /\ data' = data /\ nread' = (nread + 1) % UINT
  BY CountMoves DEF read_byte
<1>2. Count \in Nat /\ Count > 0 /\ nread \in 0 .. UINT - 1
  BY <1>1, EmptyFull, Sizes DEF TypeOK
<1>3. Queue \in Seq(Bytes) /\ Len(Queue) = Count /\ Queue # <<>>
  BY <1>2, QueueIsSeq
<1>4. Tail(Queue) = [k \in 1 .. Count - 1 |-> Queue[k + 1]]
  BY <1>3, TailIsFunction
<1>5. Queue' = [k \in 1 .. Count - 1 |-> data[(nread' + k - 1) % PIPESIZE]]
  BY <1>1 DEF Queue
<1>6. PICK m \in Nat \ {0} : UINT = m * PIPESIZE
  BY Sizes
<1>7. ASSUME NEW k \in 1 .. Count - 1
      PROVE  (nread' + k - 1) % PIPESIZE = (nread + (k + 1) - 1) % PIPESIZE
  <2>1. nread' = IF nread = UINT - 1 THEN 0 ELSE nread + 1
    BY <1>1, <1>2, Counters
  <2>2. k \in Int
    BY <1>2
  <2>3. CASE nread # UINT - 1
    <3>1. nread' + k - 1 = nread + (k + 1) - 1
      BY <1>2, <2>1, <2>2, <2>3
    <3>2. QED
      BY <3>1
  <2>4. CASE nread = UINT - 1
    <3> DEFINE x == nread' + k - 1
    <3>1. x \in Int /\ nread + (k + 1) - 1 = x + UINT
      BY <1>2, <2>1, <2>2, <2>4, Sizes
    <3> HIDE DEF x
    <3>2. x \in Int /\ m \in Int /\ PIPESIZE \in Nat \ {0}
      BY <3>1, Sizes
    <3>3. (x + m * PIPESIZE) % PIPESIZE = x % PIPESIZE
      BY ONLY <3>2, ModTurns
    <3>4. QED
      BY <1>6, <3>1, <3>3 DEF x
  <2>5. QED
    BY <2>3, <2>4
<1>8. \A k \in 1 .. Count - 1 : k + 1 \in 1 .. Count
  BY <1>2
<1>9. \A k \in 1 .. Count - 1 : Queue[k + 1] = data[(nread' + k - 1) % PIPESIZE]
  BY <1>7, <1>8 DEF Queue
<1>10. QED
  BY <1>3, <1>4, <1>5, <1>9

\* A step that neither moves a byte nor closes an end is no step of Fifo.
LEMMA QueueStays ==
  ASSUME UNCHANGED <<data, nread, nwrite>>
  PROVE  Queue' = Queue
  BY DEF Queue, Count

\* Every step of the pipe is a step of the queue, or leaves it alone.
LEMMA FifoStep == TypeOK /\ IInv /\ TypeOK' /\ [Next]_vars => [F!Next]_F!vars
<1> SUFFICES ASSUME TypeOK, IInv, TypeOK', [Next]_vars PROVE [F!Next]_F!vars
  OBVIOUS
<1>1. ASSUME UNCHANGED pipe PROVE UNCHANGED F!vars
  BY <1>1, QueueStays DEF pipe, F!vars
<1>2. ASSUME NEW p \in Procs, NEW v \in Bytes, write_byte(p, v) PROVE F!Next
  <2>1. writeopen /\ UNCHANGED <<readopen, writeopen>>
    BY <1>2 DEF IInv, EndsOpen, Writing, write_byte
  <2>2. Len(Queue) < PIPESIZE /\ Queue' = Append(Queue, v)
    BY <1>2, WriteAppends, QueueIsSeq
  <2>3. F!Put(v)
    BY <2>1, <2>2 DEF F!Put
  <2>4. QED
    BY <2>3 DEF F!Next
<1>3. ASSUME NEW p \in Procs, read_byte(p) PROVE F!Next
  <2>1. readopen /\ UNCHANGED <<readopen, writeopen>>
    BY <1>3 DEF IInv, EndsOpen, Reading, read_byte
  <2>2. F!Take
    BY <1>3, <2>1, ReadTakes DEF F!Take
  <2>3. QED
    BY <2>2 DEF F!Next
<1>4. ASSUME NEW p \in Procs, pipeclose_read(p) PROVE F!Next
  <2>1. readopen
    BY <1>4 DEF IInv, EndsOpen, pipeclose_read
  <2>2. F!CloseRead
    BY <1>4, <2>1, QueueStays DEF F!CloseRead, pipeclose_read
  <2>3. QED
    BY <2>2 DEF F!Next
<1>5. ASSUME NEW p \in Procs, pipeclose_write(p) PROVE F!Next
  <2>1. writeopen
    BY <1>5 DEF IInv, EndsOpen, pipeclose_write
  <2>2. F!CloseWrite
    BY <1>5, <2>1, QueueStays DEF F!CloseWrite, pipeclose_write
  <2>3. QED
    BY <2>2 DEF F!Next
<1>6. ASSUME NEW p \in Procs,
             \/ \E k \in 1 .. MaxN : piperead(p, k) \/ pipewrite(p, k)
             \/ read_lock(p) \/ read_go(p) \/ read_wait(p) \/ read_sleep(p) \/ read_fault(p)
             \/ read_done(p) \/ write_lock(p) \/ write_check(p) \/ write_full(p)
             \/ write_fault(p) \/ write_done(p) \/ close_read(p) \/ close_write(p) \/ kkill(p)
      PROVE  UNCHANGED pipe
  BY <1>6 DEF piperead, pipewrite, read_lock, read_go, read_wait, read_sleep, read_fault, read_done,
     write_lock, write_check, write_full, write_fault, write_done, close_read, close_write, kkill, Acquire
<1>7. CASE UNCHANGED vars
  BY <1>1, <1>7 DEF vars
<1>8. QED
  BY <1>1, <1>2, <1>3, <1>4, <1>5, <1>6, <1>7, NoProcIsNone DEF Next, Step, Call

\* No byte is lost, repeated, reordered or overwritten: the ring with its wrapping
\* counters implements a bounded queue.
THEOREM PipeIsFifo == Spec => ImplementsFifo
<1>1. Init => F!Init
  <2> SUFFICES ASSUME Init PROVE F!Init
    OBVIOUS
  <2>1. TypeOK /\ nread = nwrite
    BY InitTypeOK DEF Init
  <2>2. Count = 0
    BY <2>1, EmptyFull DEF Empty
  <2>3. Queue = <<>>
    BY <2>2 DEF Queue
  <2>4. QED
    BY <2>3 DEF Init, F!Init
<1>2. TypeOK /\ IInv /\ (TypeOK /\ IInv)' /\ [Next]_vars => [F!Next]_F!vars
  BY FifoStep
<1>3. QED
  BY <1>1, <1>2, Invariance, PTL DEF Spec, ImplementsFifo, F!Spec
=============================================================================
