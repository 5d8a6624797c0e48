-------------------------------- MODULE Bio ---------------------------------
(***************************************************************************)
(* The buffer cache of kernel/bio.c with the sleep-locks of                *)
(* kernel/sleeplock.c.                                                     *)
(*                                                                         *)
(* A step is one critical section: under bcache.lock (the search and the   *)
(* recycling of bget(), the second half of brelse(), bpin(), bunpin()),    *)
(* under the spin-lock of a sleep-lock, or one disk transfer.  Between the *)
(* steps of bread() and of brelse() other processes run: that a buffer is  *)
(* still the one asked for when its sleep-lock is finally acquired is      *)
(* refcnt's doing.                                                         *)
(***************************************************************************)
EXTENDS Integers, Sequences, FiniteSets

CONSTANTS
    Procs,      \* holders: a process that asks for a second buffer while it has one is two
    Blocks,     \* block numbers (one device)
    Data,       \* block contents
    NBUF,       \* param.h: buffers in the cache
    MaxPinned,  \* buffers the log keeps pinned at a time, at most
    NoBlock,    \* the block number of a buffer that was never used
    NotCached,  \* "no buffer holds this block"
    NoProc      \* holder of a sleep-lock that is free

Bufs == 1 .. NBUF

ASSUME BioAssumption ==
    /\ IsFiniteSet(Procs)
    /\ NoProc \notin Procs
    /\ NoBlock \notin Blocks
    /\ NotCached \notin Data
    /\ NBUF \in Nat \ {0}
    /\ MaxPinned \in Nat

VARIABLES
    disk,     \* contents on disk
    blockno,  \* b->blockno
    valid,    \* b->valid
    data,     \* b->data
    refcnt,   \* b->refcnt
    holder,   \* b->lock: the process that holds the sleep-lock
    lru,      \* the list through b->next, most recently used first
    pc,       \* where a process is
    want,     \* the block number it asked bread() for
    buf,      \* the buffer bget() found for it (0: none)
    panicked  \* bget() found no buffer

vars == <<disk, blockno, valid, data, refcnt, holder, lru, pc, want, buf, panicked>>

-----------------------------------------------------------------------------
PC == {"idle", "acquiresleep", "asleep", "check", "read", "held", "brelse"}

\* Processes between the two critical sections of bcache.lock that take and
\* give back a reference.
Refs(b) == {p \in Procs : pc[p] # "idle" /\ buf[p] = b}
Pins(b) == refcnt[b] - Cardinality(Refs(b))
Pinned == {b \in Bufs : Pins(b) > 0}

Goto(p, l) == pc' = [pc EXCEPT ![p] = l]

\* What the first loop of bget() finds, and the second.
CachedAndRead(n) == {b \in Bufs : blockno[b] = n /\ valid[b]}
Cached(n) == {b \in Bufs : blockno[b] = n}
Unlocked(b) == holder[b] = NoProc
Recyclable(b) == refcnt[b] = 0
Unused == {i \in 1 .. NBUF : Recyclable(lru[i])}
LRU == {lru[i] : i \in {j \in Unused : \A k \in Unused : k <= j}}

\* b->valid = 0 in bget(); b->refcnt-- in brelse().
keep_valid(b) == valid
invalidate(b) == [valid EXCEPT ![b] = FALSE]
keep_ref(b) == refcnt
unref(b) == [refcnt EXCEPT ![b] = @ - 1]

\* The relinking at the end of brelse(): the buffers in front of b move back by one.
MoveToFront(b) ==
    LET k == CHOOSE i \in Bufs : lru[i] = b
    IN  [i \in Bufs |-> IF i = 1 THEN b ELSE IF i <= k THEN lru[i - 1] ELSE lru[i]]

-----------------------------------------------------------------------------
\* bget(): find the block, or recycle a buffer, under bcache.lock.
bget_hit(p, n) ==
    /\ pc[p] = "idle"
    /\ \E b \in Cached(n) :
        /\ refcnt' = [refcnt EXCEPT ![b] = @ + 1]
        /\ buf' = [buf EXCEPT ![p] = b]
    /\ want' = [want EXCEPT ![p] = n]
    /\ Goto(p, "acquiresleep")
    /\ UNCHANGED <<disk, blockno, valid, data, holder, lru, panicked>>

bget_recycle(p, n) ==
    /\ pc[p] = "idle"
    /\ Cached(n) = {}
    /\ \E b \in LRU :
        /\ blockno' = [blockno EXCEPT ![b] = n]
        /\ valid' = invalidate(b)
        /\ refcnt' = [refcnt EXCEPT ![b] = 1]
        /\ buf' = [buf EXCEPT ![p] = b]
    /\ want' = [want EXCEPT ![p] = n]
    /\ Goto(p, "acquiresleep")
    /\ UNCHANGED <<disk, data, holder, lru, panicked>>

bget_panic(p, n) ==
    /\ pc[p] = "idle"
    /\ Cached(n) = {}
    /\ Unused = {}
    /\ panicked' = TRUE
    /\ UNCHANGED <<disk, blockno, valid, data, refcnt, holder, lru, pc, want, buf>>

\* acquiresleep(): one turn of its loop.
acquiresleep(p) ==
    /\ pc[p] = "acquiresleep"
    /\ IF holder[buf[p]] # NoProc
       THEN /\ Goto(p, "asleep")
            /\ UNCHANGED holder
       ELSE /\ holder' = [holder EXCEPT ![buf[p]] = p]
            /\ Goto(p, "check")
    /\ UNCHANGED <<disk, blockno, valid, data, refcnt, lru, want, buf, panicked>>

\* bread(): is the data there?
check_valid(p) ==
    /\ pc[p] = "check"
    /\ Goto(p, IF valid[buf[p]] THEN "held" ELSE "read")
    /\ UNCHANGED <<disk, blockno, valid, data, refcnt, holder, lru, want, buf, panicked>>

\* bread(): virtio_disk_rw(b, 0), then b->valid = 1.
disk_read(p) ==
    /\ pc[p] = "read"
    /\ data' = [data EXCEPT ![buf[p]] = disk[blockno[buf[p]]]]
    /\ valid' = [valid EXCEPT ![buf[p]] = TRUE]
    /\ Goto(p, "held")
    /\ UNCHANGED <<disk, blockno, refcnt, holder, lru, want, buf, panicked>>

\* The caller changes b->data.
modify(p, v) ==
    /\ pc[p] = "held"
    /\ data' = [data EXCEPT ![buf[p]] = v]
    /\ UNCHANGED <<disk, blockno, valid, refcnt, holder, lru, pc, want, buf, panicked>>

\* bwrite(): virtio_disk_rw(b, 1) of a buffer the caller has locked.
bwrite(p) ==
    /\ pc[p] = "held"
    /\ disk' = [disk EXCEPT ![blockno[buf[p]]] = data[buf[p]]]
    /\ UNCHANGED <<blockno, valid, data, refcnt, holder, lru, pc, want, buf, panicked>>

\* bpin() by log_write(), which pins a buffer once; bunpin() by install_trans().
bpin(p) ==
    /\ pc[p] = "held"
    /\ Pins(buf[p]) = 0
    /\ Cardinality(Pinned) < MaxPinned
    /\ refcnt' = [refcnt EXCEPT ![buf[p]] = @ + 1]
    /\ UNCHANGED <<disk, blockno, valid, data, holder, lru, pc, want, buf, panicked>>

bunpin(p) ==
    /\ pc[p] = "held"
    /\ Pins(buf[p]) > 0
    /\ refcnt' = [refcnt EXCEPT ![buf[p]] = @ - 1]
    /\ UNCHANGED <<disk, blockno, valid, data, holder, lru, pc, want, buf, panicked>>

\* Waking the processes that sleep on the lock of buffer b, while p goes to l.
no_wakeup(p, l, b) == Goto(p, l)
wakeup(p, l, b) ==
    pc' = [q \in Procs |->
            IF q = p THEN l
            ELSE IF pc[q] = "asleep" /\ buf[q] = b THEN "acquiresleep" ELSE pc[q]]

\* brelse(): releasesleep(), then, later, the critical section of bcache.lock.
releasesleep(p) ==
    /\ pc[p] = "held"
    /\ holder' = [holder EXCEPT ![buf[p]] = NoProc]
    /\ wakeup(p, "brelse", buf[p])
    /\ UNCHANGED <<disk, blockno, valid, data, refcnt, lru, want, buf, panicked>>

brelse(p) ==
    /\ pc[p] = "brelse"
    /\ refcnt' = unref(buf[p])
    /\ lru' = IF refcnt[buf[p]] = 1 THEN MoveToFront(buf[p]) ELSE lru
    /\ buf' = [buf EXCEPT ![p] = 0]
    /\ want' = [want EXCEPT ![p] = NoBlock]
    /\ Goto(p, "idle")
    /\ UNCHANGED <<disk, blockno, valid, data, holder, panicked>>

-----------------------------------------------------------------------------
\* binit(): every buffer is free; the list ends up in reverse order.
Init ==
    /\ disk \in [Blocks -> Data]
    /\ blockno = [b \in Bufs |-> NoBlock]
    /\ valid = [b \in Bufs |-> FALSE]
    /\ data \in [Bufs -> Data]
    /\ refcnt = [b \in Bufs |-> 0]
    /\ holder = [b \in Bufs |-> NoProc]
    /\ lru = [i \in Bufs |-> NBUF + 1 - i]
    /\ pc = [p \in Procs |-> "idle"]
    /\ want = [p \in Procs |-> NoBlock]
    /\ buf = [p \in Procs |-> 0]
    /\ panicked = FALSE

bget(p) == \E n \in Blocks : bget_hit(p, n) \/ bget_recycle(p, n) \/ bget_panic(p, n)

Next ==
    /\ ~panicked
    /\ \E p \in Procs :
        \/ bget(p)
        \/ acquiresleep(p) \/ check_valid(p) \/ disk_read(p)
        \/ \E v \in Data : modify(p, v)
        \/ bwrite(p) \/ bpin(p) \/ bunpin(p)
        \/ releasesleep(p) \/ brelse(p)

Spec == Init /\ [][Next]_vars

\* The scheduler runs every process that can run, the disk answers, and a
\* process that holds a buffer releases it.
Fairness ==
    \A p \in Procs :
        /\ WF_vars(~panicked /\ (acquiresleep(p) \/ check_valid(p) \/ disk_read(p) \/ brelse(p)))
        /\ WF_vars(~panicked /\ releasesleep(p))

FairSpec == Spec /\ Fairness

-----------------------------------------------------------------------------
\* Every variable has its type, and the list holds every buffer once.
TypeOK ==
    /\ disk \in [Blocks -> Data]
    /\ blockno \in [Bufs -> Blocks \cup {NoBlock}]
    /\ valid \in [Bufs -> BOOLEAN]
    /\ data \in [Bufs -> Data]
    /\ refcnt \in [Bufs -> Nat]
    /\ holder \in [Bufs -> Procs \cup {NoProc}]
    /\ lru \in [Bufs -> Bufs]
    /\ \A i, j \in Bufs : lru[i] = lru[j] => i = j
    /\ \A b \in Bufs : \E i \in Bufs : lru[i] = b
    /\ pc \in [Procs -> PC]
    /\ want \in [Procs -> Blocks \cup {NoBlock}]
    /\ buf \in [Procs -> Bufs \cup {0}]
    /\ panicked \in BOOLEAN

\* A block is never in two buffers, however lookups and recycling interleave.
OneBufferPerBlock ==
    \A b, c \in Bufs : blockno[b] = blockno[c] /\ blockno[b] # NoBlock => b = c

\* From bget() to brelse() the buffer a process was given stays the block it
\* asked for, also while it waits for the sleep-lock (the comment of bread():
\* "Return a locked buf with the contents of the indicated block").
StillWanted == \A p \in Procs : buf[p] # 0 => blockno[buf[p]] = want[p]

\* Nobody is asleep on a sleep-lock that is free: no wakeup is lost between the
\* test of lk->locked and sleep(), or in releasesleep().
NoLostWakeup == \A p \in Procs : pc[p] = "asleep" => holder[buf[p]] # NoProc

\* bget() panics only when every buffer is really taken, by a holder between
\* bget() and brelse() or by a pin of the log: no reference is ever leaked.  A
\* process with two buffers (log.c:75-76, 185-186, bmap() over balloc(), itrunc()
\* over bfree()) is two holders.
EnoughBuffers ==
    panicked => NBUF <= Cardinality({p \in Procs : buf[p] # 0}) + MaxPinned

\* The inductive invariant: references are counted, and whoever is past
\* acquiresleep() holds the lock of its buffer.
IInv ==
    /\ \A p \in Procs : buf[p] = 0 <=> pc[p] = "idle"
    /\ \A p \in Procs : pc[p] # "idle" => want[p] \in Blocks
    /\ \A b \in Bufs : refcnt[b] >= Cardinality(Refs(b))
    /\ \A p \in Procs : pc[p] \in {"check", "read", "held"} => holder[buf[p]] = p
    /\ \A b \in Bufs : holder[b] # NoProc =>
            buf[holder[b]] = b /\ pc[holder[b]] \in {"check", "read", "held"}
    /\ OneBufferPerBlock
    /\ StillWanted
    /\ NoLostWakeup

\* The log never has more buffers pinned than its transaction may hold, and
\* bread() reads a buffer from disk when, and only when, bget() has recycled it.
PinsBounded == Cardinality(Pinned) <= MaxPinned
ReadOnce ==
    /\ \A p \in Procs : pc[p] = "read" => ~valid[buf[p]]
    /\ \A p \in Procs : pc[p] = "held" => valid[buf[p]]

\* The refinement mapping to BufferCache.
CacheMap == [n \in Blocks |-> IF CachedAndRead(n) = {} THEN NotCached
                              ELSE data[CHOOSE b \in CachedAndRead(n) : TRUE]]
PinMap == [n \in Blocks |-> IF Cached(n) = {} THEN 0 ELSE Pins(CHOOSE b \in Cached(n) : TRUE)]
HoldMap == [p \in Procs |-> IF pc[p] = "held" THEN want[p] ELSE NoBlock]

BC == INSTANCE BufferCache WITH cache <- CacheMap, pin <- PinMap, holds <- HoldMap

\* The buffers implement a cache with one copy per block: a process is given
\* what was last written, one holder at a time, and nothing that is held or
\* pinned is recycled.
ImplementsCache == BC!Spec

\* A process asleep on a sleep-lock is woken (unless the machine panics).
SleeperWakes ==
    \A p \in Procs : pc[p] = "asleep" ~> pc[p] # "asleep" \/ panicked

\* The LRU list holds every buffer once, after any number of brelse(), and bget() finds
\* a buffer in it as long as holders and pins do not outnumber the buffers.
CacheInv == TypeOK /\ IInv /\ PinsBounded /\ ReadOnce /\ EnoughBuffers
=============================================================================
