----------------------------- MODULE VirtioDisk -----------------------------
(***************************************************************************)
(* The driver of the virtio disk (virtio_disk.c) and the device.  A        *)
(* request is named by its buffer: whoever calls virtio_disk_rw() holds    *)
(* the buffer's sleep-lock.  A step is a critical section of vdisk_lock,   *)
(* cut where the device can see a difference (the ring entry, then         *)
(* avail->idx).  The device takes requests from the avail ring in order    *)
(* and finishes them in any order.  What is never read again (consumed     *)
(* ring entries, the header and the head of a request that has returned)   *)
(* is forgotten, that is, set back to its first value.                     *)
(***************************************************************************)
EXTENDS Integers, FiniteSets

CONSTANTS
    Bufs,   \* buffers, each of a block of its own
    Contents, \* Contents[b]: what the block of buffer b may hold
    NUM,    \* descriptors, and entries of each ring
    UINT16, \* avail->idx, used->idx and used_idx count modulo this (2^16)
    NoBuf,  \* the null pointer
    Intr    \* the interrupt handler, as holder of vdisk_lock

ASSUME SizeAssumption == NUM \in Nat /\ NUM >= 3 /\ UINT16 \in Nat \ {0} /\ UINT16 % NUM = 0
ASSUME NameAssumption == NoBuf \notin Bufs /\ Intr \notin Bufs \cup {NoBuf}

Descs == 0 .. NUM - 1

VARIABLES
    free,       \* disk.free[]
    desc,       \* disk.desc[]: what addr points to, flags and next
    ops,        \* disk.ops[]: [write, buf] of a request; the sector is that of buf
    info,       \* disk.info[]: [b, status]
    avail_ring, avail_idx,  \* written by the driver
    used_ring, used_hw,     \* written by the device; used_hw is used->idx
    used_idx,   \* disk.used_idx, how far the driver has looked
    lock,       \* holder of vdisk_lock across steps
    irq,        \* the device asks for an interrupt
    busy,       \* b->disk
    pc,         \* where the call of virtio_disk_rw() for b is
    idx,        \* idx[b]: the head of b's chain, idx[0]
    seen,       \* device: how far it has read the avail ring
    taken,      \* device: heads it works on
    finished,   \* device: heads transferred and not yet in the used ring
    disk, data, \* contents of the blocks, b->data
    write,      \* the argument of virtio_disk_rw()
    panicked

driver == <<free, desc, ops, info, avail_ring, avail_idx, used_idx, lock, busy, pc, idx, write, panicked>>
device == <<used_ring, used_hw, seen, taken, finished, disk>>
vars == <<driver, device, irq, data>>

Images == {f \in [Bufs -> UNION {Contents[b] : b \in Bufs}] : \A b \in Bufs : f[b] \in Contents[b]}

Free == {i \in Descs : free[i]}
NoOp == [write |-> FALSE, buf |-> NoBuf]
NoDesc == [addr |-> <<"none">>, next |-> 0, flags |-> {}]

\* alloc3_desc(): three times the lowest free descriptor.
Lowest(S) == CHOOSE i \in S : \A j \in S : i <= j
Second(S) == Lowest(S \ {Lowest(S)})
Third(S) == Lowest(S \ {Lowest(S), Second(S)})

\* wakeup(&disk.free[0]), called by free_desc()
WakeupFree(q) == [b \in Bufs |-> IF q[b] = "sleep_free" THEN "alloc" ELSE q[b]]

\* The descriptors linked from i.  free_chain() visits them all: it reads flags and next of each before
\* free_desc() clears them.
Linked(S) == S \cup {desc[j].next : j \in {j \in S : "NEXT" \in desc[j].flags}}
Reach(i) == LET reach[k \in Descs] == IF k = 0 THEN {i} ELSE Linked(reach[k - 1])
            IN  reach
Chain(i) == Reach(i)[NUM - 1]
\* Mutant: only the first descriptor is freed.
free_head(i) == {i}
free_chain(i) == Chain(i)

\* The device reads b->data for a write and writes it for a read.
\* Mutant: the direction of the transfer is swapped.
DataFlagsSwapped(w) == IF w THEN {"WRITE", "NEXT"} ELSE {"NEXT"}
DataFlags(w) == IF w THEN {"NEXT"} ELSE {"WRITE", "NEXT"}

-----------------------------------------------------------------------------
\* virtio_disk_rw(b, w) is called; a write takes what the caller put into b.
virtio_disk_rw(b, w, d) ==
    /\ pc[b] = "idle"
    /\ w \/ d = data[b]
    /\ pc' = [pc EXCEPT ![b] = "alloc"]
    /\ write' = [write EXCEPT ![b] = w]
    /\ data' = [data EXCEPT ![b] = d]
    /\ UNCHANGED <<free, desc, ops, info, avail_ring, avail_idx, used_idx, lock, busy, idx, panicked, device, irq>>

\* Too few descriptors.  The ones alloc3_desc() did get are given back with
\* free_desc(), which wakes whoever else sleeps for descriptors.
alloc_sleep(b) ==
    /\ pc[b] = "alloc" /\ lock = NoBuf
    /\ Cardinality(Free) < 3
    /\ desc' = [i \in Descs |-> IF i \in Free THEN NoDesc ELSE desc[i]]
    /\ pc' = [(IF Free = {} THEN pc ELSE WakeupFree(pc)) EXCEPT ![b] = "sleep_free"]
    /\ UNCHANGED <<free, ops, info, avail_ring, avail_idx, used_idx, lock, busy, idx, write, panicked, device, irq, data>>

\* The three descriptors are formatted, and the head goes into the ring.
alloc_format(b) ==
    /\ pc[b] = "alloc" /\ lock = NoBuf
    /\ Cardinality(Free) >= 3
    /\ LET i == Lowest(Free)
           j == Second(Free)
           k == Third(Free)
       IN  /\ free' = [free EXCEPT ![i] = FALSE, ![j] = FALSE, ![k] = FALSE]
           /\ ops' = [ops EXCEPT ![i] = [write |-> write[b], buf |-> b]]
           /\ desc' = [desc EXCEPT
                ![i] = [addr |-> <<"op", i>>, next |-> j, flags |-> {"NEXT"}],
                ![j] = [addr |-> <<"data", b>>, next |-> k,
                        flags |-> DataFlags(write[b])],
                ![k] = [addr |-> <<"status", i>>, next |-> 0, flags |-> {"WRITE"}]]
           /\ info' = [info EXCEPT ![i] = [b |-> b, status |-> "pending"]]
           /\ avail_ring' = [avail_ring EXCEPT ![avail_idx % NUM] = i]
           /\ idx' = [idx EXCEPT ![b] = i]
    /\ busy' = [busy EXCEPT ![b] = TRUE]
    /\ lock' = b
    /\ pc' = [pc EXCEPT ![b] = "publish"]
    /\ UNCHANGED <<avail_idx, used_idx, write, panicked, device, irq, data>>

\* The wait for b->disk to become 0 and, after it, free_chain() and the return.
WaitOrReturn(b) ==
    IF busy[b]
    THEN /\ pc' = [pc EXCEPT ![b] = "sleep"]
         /\ UNCHANGED <<free, desc, ops, info, idx, write, panicked>>
    ELSE /\ info' = [info EXCEPT ![idx[b]].b = NoBuf]
         /\ panicked' = (panicked \/ \E i \in free_chain(idx[b]) : free[i])
         /\ free' = [i \in Descs |-> free[i] \/ i \in free_chain(idx[b])]
         /\ desc' = [i \in Descs |-> IF i \in free_chain(idx[b]) THEN NoDesc ELSE desc[i]]
         /\ pc' = WakeupFree([pc EXCEPT ![b] = "idle"])
         /\ ops' = [ops EXCEPT ![idx[b]] = NoOp]
         /\ idx' = [idx EXCEPT ![b] = 0]
         /\ write' = [write EXCEPT ![b] = FALSE]

\* avail->idx is incremented, and the caller looks at b->disk.
publish(b) ==
    /\ pc[b] = "publish"
    /\ avail_idx' = (avail_idx + 1) % UINT16
    /\ lock' = NoBuf
    /\ WaitOrReturn(b)
    /\ UNCHANGED <<avail_ring, used_idx, busy, device, irq, data>>

\* The caller was woken and looks at b->disk again.
recheck(b) ==
    /\ pc[b] = "woken" /\ lock = NoBuf
    /\ WaitOrReturn(b)
    /\ UNCHANGED <<avail_ring, avail_idx, used_idx, lock, busy, device, irq, data>>

-----------------------------------------------------------------------------
\* virtio_disk_intr(): the interrupt is acknowledged before the used ring is read.
virtio_disk_intr ==
    /\ irq /\ lock = NoBuf
    /\ irq' = FALSE
    /\ lock' = Intr
    /\ UNCHANGED <<free, desc, ops, info, avail_ring, avail_idx, used_idx, busy, pc, idx, write, panicked, device, data>>

\* One round of the loop over the used ring.
UsedSlot == used_idx % NUM
\* Mutant: used_idx wraps with the ring.
NextUsedWrapsEarly == (used_idx + 1) % NUM
NextUsed == (used_idx + 1) % UINT16
intr_complete ==
    /\ lock = Intr
    /\ used_idx # used_hw
    /\ LET id == used_ring[UsedSlot]
           b == info[id].b
       IN  IF info[id].status # "ok" \/ b = NoBuf
           THEN /\ panicked' = TRUE
                /\ UNCHANGED <<busy, pc>>
           ELSE /\ busy' = [busy EXCEPT ![b] = FALSE]
                /\ pc' = [pc EXCEPT ![b] = IF @ = "sleep" THEN "woken" ELSE @]
                /\ UNCHANGED panicked
    /\ used_idx' = NextUsed
    /\ used_ring' = [used_ring EXCEPT ![used_idx % NUM] = 0]
    /\ UNCHANGED <<free, desc, ops, info, avail_ring, avail_idx, lock, idx, write, used_hw, seen, taken, finished, disk, irq, data>>

intr_return ==
    /\ lock = Intr
    /\ used_idx = used_hw
    /\ lock' = NoBuf
    /\ UNCHANGED <<free, desc, ops, info, avail_ring, avail_idx, used_idx, busy, pc, idx, write, panicked, device, irq, data>>

-----------------------------------------------------------------------------
(***************************************************************************)
(* The device.  It follows the chain of a head it finds in the avail ring: *)
(* the request, the data, the status.                                      *)
(***************************************************************************)
DeviceTake ==
    /\ seen # avail_idx
    /\ seen' = (seen + 1) % UINT16
    /\ taken' = taken \cup {avail_ring[seen % NUM]}
    /\ avail_ring' = [avail_ring EXCEPT ![seen % NUM] = 0]
    /\ UNCHANGED <<free, desc, ops, info, avail_idx, used_idx, lock, busy, pc, idx, write, panicked, used_ring, used_hw, finished, disk, irq, data>>

DeviceTransfer(i) ==
    /\ i \in taken
    /\ LET j == desc[i].next
           k == desc[j].next
           b == ops[i].buf
           target == desc[j].addr[2]
       IN  /\ IF "WRITE" \in desc[j].flags
              THEN data' = [data EXCEPT ![target] = disk[b]] /\ UNCHANGED disk
              ELSE disk' = [disk EXCEPT ![b] = data[target]] /\ UNCHANGED data
           /\ info' = [info EXCEPT ![desc[k].addr[2]].status = "ok"]
    /\ taken' = taken \ {i}
    /\ finished' = finished \cup {i}
    /\ UNCHANGED <<free, desc, ops, avail_ring, avail_idx, used_idx, lock, busy, pc, idx, write, panicked, used_ring, used_hw, seen, irq>>

DeviceComplete(i) ==
    /\ i \in finished
    /\ used_ring' = [used_ring EXCEPT ![used_hw % NUM] = i]
    /\ used_hw' = (used_hw + 1) % UINT16
    /\ finished' = finished \ {i}
    /\ irq' = TRUE
    /\ UNCHANGED <<driver, seen, taken, disk, data>>

-----------------------------------------------------------------------------
\* virtio_disk_init() has run: queue memory zeroed, all descriptors free.
Init ==
    /\ free = [i \in Descs |-> TRUE]
    /\ desc = [i \in Descs |-> NoDesc]
    /\ ops = [i \in Descs |-> NoOp]
    /\ info = [i \in Descs |-> [b |-> NoBuf, status |-> "ok"]]
    /\ avail_ring = [i \in Descs |-> 0] /\ used_ring = [i \in Descs |-> 0]
    /\ avail_idx = 0 /\ used_hw = 0 /\ used_idx = 0 /\ seen = 0
    /\ lock = NoBuf /\ irq = FALSE
    /\ taken = {} /\ finished = {}
    /\ busy = [b \in Bufs |-> FALSE]
    /\ pc = [b \in Bufs |-> "idle"]
    /\ idx = [b \in Bufs |-> 0]
    /\ disk \in Images /\ data \in Images
    /\ write = [b \in Bufs |-> FALSE]
    /\ panicked = FALSE

Driver(b) ==
    \/ \E w \in BOOLEAN, d \in Contents[b] : virtio_disk_rw(b, w, d)
    \/ alloc_sleep(b) \/ alloc_format(b) \/ publish(b) \/ recheck(b)

Device == DeviceTake \/ \E i \in Descs : DeviceTransfer(i) \/ DeviceComplete(i)

Next ==
    /\ ~panicked
    /\ \/ \E b \in Bufs : Driver(b)
       \/ virtio_disk_intr \/ intr_complete \/ intr_return
       \/ Device

Spec == Init /\ [][Next]_vars

-----------------------------------------------------------------------------
Addrs == {<<"none">>} \cup ({"op", "status"} \X Descs) \cup ({"data"} \X Bufs)
PC == {"idle", "alloc", "sleep_free", "publish", "sleep", "woken"}
Waiting == {b \in Bufs : pc[b] \in {"publish", "sleep", "woken"}}

\* Every variable has its type, and no assertion of the driver fails.
TypeOK ==
    /\ free \in [Descs -> BOOLEAN]
    /\ desc \in [Descs -> [addr : Addrs, next : Descs, flags : SUBSET {"NEXT", "WRITE"}]]
    /\ ops \in [Descs -> [write : BOOLEAN, buf : Bufs \cup {NoBuf}]]
    /\ info \in [Descs -> [b : Bufs \cup {NoBuf}, status : {"pending", "ok"}]]
    /\ avail_ring \in [Descs -> Descs] /\ used_ring \in [Descs -> Descs]
    /\ {avail_idx, used_hw, used_idx, seen} \subseteq 0 .. UINT16 - 1
    /\ lock \in Bufs \cup {NoBuf, Intr}
    /\ irq \in BOOLEAN
    /\ busy \in [Bufs -> BOOLEAN]
    /\ pc \in [Bufs -> PC]
    /\ idx \in [Bufs -> Descs]
    /\ write \in [Bufs -> BOOLEAN]
    /\ taken \subseteq Descs /\ finished \subseteq Descs
    /\ panicked = FALSE

\* Every descriptor is free or in the chain of exactly one request in progress,
\* three in each: none is leaked by free_chain() or handed out twice.
ChainsPartition ==
    /\ \A b \in Waiting : Cardinality(Chain(idx[b])) = 3
    /\ \A b, c \in Waiting : b # c => Chain(idx[b]) \cap Chain(idx[c]) = {}
    /\ Descs \ Free = UNION {Chain(idx[b]) : b \in Waiting}

\* Whoever sleeps has a reason: a finished request has no sleeper, and with three
\* free descriptors nobody sleeps for descriptors.
NoLostWakeup ==
    /\ \A b \in Bufs : pc[b] = "sleep" => busy[b]
    /\ \A b \in Bufs : pc[b] = "sleep_free" => Cardinality(Free) < 3

\* A completion the driver has not seen will be: the device still asks for an
\* interrupt, or virtio_disk_intr() is in its loop ("this may race with the
\* device writing new entries to the used ring ... which is harmless").
CompletionSeen == used_idx # used_hw => irq \/ lock = Intr

\* What is in a ring from index i up to index j, which may have wrapped: in the avail
\* ring for the device, in the used ring for the driver.
Count(i, j) == (j - i) % UINT16
Entries(ring, i, j) == {ring[(i + n) % NUM] : n \in 0 .. Count(i, j) - 1}
InAvail == Entries(avail_ring, seen, avail_idx)
InUsed == Entries(used_ring, used_idx, used_hw)

\* A request whose caller waits is in one place only: the avail ring, the device
\* (at work or done), the used ring, or past virtio_disk_intr().  None is lost
\* or answered twice when the indices wrap or completions overtake each other.
RequestTracked ==
    \A b \in {c \in Bufs : pc[c] \in {"sleep", "woken"}} :
        LET places == <<idx[b] \in InAvail, idx[b] \in taken, idx[b] \in finished, idx[b] \in InUsed, ~busy[b]>>
        IN  \E k \in 1 .. 5 : \A m \in 1 .. 5 : places[m] <=> m = k

-----------------------------------------------------------------------------
(***************************************************************************)
(* The inductive invariant.                                                *)
(***************************************************************************)
\* The three descriptors of the request for b.
DataDesc(b) == desc[idx[b]].next
StatusDesc(b) == desc[DataDesc(b)].next
Trio(b) == {idx[b], DataDesc(b), StatusDesc(b)}

\* They are as virtio_disk_rw() has formatted them, and so are ops[] and info[].
Formatted(b) ==
    /\ idx[b] # DataDesc(b) /\ idx[b] # StatusDesc(b) /\ DataDesc(b) # StatusDesc(b)
    /\ desc[idx[b]].flags = {"NEXT"}
    /\ desc[DataDesc(b)].addr = <<"data", b>> /\ desc[DataDesc(b)].flags = DataFlags(write[b])
    /\ desc[StatusDesc(b)].addr = <<"status", idx[b]>> /\ desc[StatusDesc(b)].flags = {"WRITE"}
    /\ ops[idx[b]].buf = b
    /\ info[idx[b]].b = b

\* A descriptor in use is one of the three of one request.
ChainInv ==
    /\ \A b \in Waiting : Formatted(b)
    /\ \A b, c \in Waiting : b # c => Trio(b) \cap Trio(c) = {}
    /\ \A i \in Descs : ~free[i] <=> \E b \in Waiting : i \in Trio(b)

\* b->disk is set until virtio_disk_intr() clears it, and vdisk_lock is held from the
\* ring entry to avail->idx.
CallerInv ==
    /\ \A b \in Bufs : busy[b] <=> pc[b] \in {"publish", "sleep"}
    /\ \A b \in Bufs : lock = b <=> pc[b] = "publish"
    /\ \A b \in Bufs : pc[b] = "publish" => avail_ring[avail_idx % NUM] = idx[b]

\* Neither ring is overrun, and no head is in a ring twice.
Sound(ring, i, j) ==
    /\ Count(i, j) < NUM
    /\ \A m, n \in 0 .. Count(i, j) - 1 : ring[(i + m) % NUM] = ring[(i + n) % NUM] => m = n
RingInv == Sound(avail_ring, seen, avail_idx) /\ Sound(used_ring, used_idx, used_hw)

\* A head is in one place at most, and it is in one while its caller sleeps, and only then.
PlaceInv ==
    /\ InAvail \cap taken = {} /\ InAvail \cap finished = {} /\ InAvail \cap InUsed = {}
    /\ taken \cap finished = {} /\ taken \cap InUsed = {} /\ finished \cap InUsed = {}
    /\ \A i \in Descs : i \in InAvail \cup taken \cup finished \cup InUsed <=>
                            \E b \in Bufs : pc[b] = "sleep" /\ idx[b] = i

\* The status of a request says whether the device has carried it out.
StatusInv ==
    \A b \in Waiting :
        info[idx[b]].status = "ok" <=> pc[b] = "woken" \/ idx[b] \in finished \cup InUsed

IInv == ChainInv /\ CallerInv /\ RingInv /\ PlaceInv /\ StatusInv

-----------------------------------------------------------------------------
\* A request is done when the device has carried it out, and over when virtio_disk_rw() returns.
PhaseMap ==
    [b \in Bufs |->
        IF pc[b] = "idle" THEN "idle"
        ELSE IF b \in Waiting /\ info[idx[b]].status = "ok" THEN "done"
        ELSE "asked"]

abstract == INSTANCE SyncDisk WITH phase <- PhaseMap

\* The driver implements a synchronous disk: each request moves its own data
\* between its own block and buffer, exactly once, and virtio_disk_rw() returns
\* only after that, whatever the order of completions.
ImplementsDisk == abstract!Spec

\* Every request is in one place, every completion will be seen, and whoever sleeps
\* in virtio_disk_rw() has a reason.
QueueInv == TypeOK /\ IInv /\ RequestTracked /\ CompletionSeen /\ NoLostWakeup
=============================================================================
