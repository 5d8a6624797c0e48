------------------------------ MODULE SyncDisk ------------------------------
(***************************************************************************)
(* What the disk driver promises to the buffer cache: virtio_disk_rw()     *)
(* returns after its request, and nobody else's, was carried out, once.    *)
(***************************************************************************)
CONSTANTS
    Bufs,   \* buffers, each of a block of its own
    Contents  \* Contents[b]: what the block of buffer b may hold

VARIABLES
    disk,   \* disk[b]: the block of buffer b on disk
    data,   \* b->data
    phase,  \* of the request for b: "idle", "asked" or "done"
    write   \* is the request a write?

vars == <<disk, data, phase, write>>

Init ==
    /\ \A b \in Bufs : disk[b] \in Contents[b] /\ data[b] \in Contents[b]
    /\ phase = [b \in Bufs |-> "idle"]
    /\ write = [b \in Bufs |-> FALSE]

\* The holder of the buffer may have changed it before it asks for a write.
Request(b, w, d) ==
    /\ phase[b] = "idle"
    /\ w \/ d = data[b]
    /\ data' = [data EXCEPT ![b] = d]
    /\ phase' = [phase EXCEPT ![b] = "asked"]
    /\ write' = [write EXCEPT ![b] = w]
    /\ UNCHANGED disk

Transfer(b) ==
    /\ phase[b] = "asked"
    /\ IF write[b] THEN disk' = [disk EXCEPT ![b] = data[b]] /\ UNCHANGED data
                   ELSE data' = [data EXCEPT ![b] = disk[b]] /\ UNCHANGED disk
    /\ phase' = [phase EXCEPT ![b] = "done"]
    /\ UNCHANGED write

Return(b) ==
    /\ phase[b] = "done"
    /\ phase' = [phase EXCEPT ![b] = "idle"]
    /\ write' = [write EXCEPT ![b] = FALSE]
    /\ UNCHANGED <<disk, data>>

Next ==
    \E b \in Bufs :
        \/ \E w \in BOOLEAN, d \in Contents[b] : Request(b, w, d)
        \/ Transfer(b) \/ Return(b)

Spec == Init /\ [][Next]_vars
=============================================================================
