---------------------------- MODULE BufferCache -----------------------------
(***************************************************************************)
(* What the buffer cache (kernel/bio.c) promises its users: a block has at *)
(* most one cached copy; one process at a time holds it; a copy stays in   *)
(* the cache while it is held or pinned; what a process is given is the    *)
(* cached copy, or else what is on disk.  Module Log uses the cache through *)
(* these same steps.                                                       *)
(***************************************************************************)
EXTENDS Naturals

CONSTANTS Procs,      \* processes that use blocks
          Blocks,     \* block numbers
          Data,       \* block contents
          NotCached,  \* "no buffer holds this block"
          NoBlock     \* "this process holds no buffer"

VARIABLES disk,   \* contents on disk
          cache,  \* contents of the cached copy
          pin,    \* how often a block is pinned
          holds   \* the block a process holds

vars == <<disk, cache, pin, holds>>

Locked(b) == \E p \in Procs : holds[p] = b

Init ==
    /\ disk \in [Blocks -> Data]
    /\ cache = [b \in Blocks |-> NotCached]
    /\ pin = [b \in Blocks |-> 0]
    /\ holds = [p \in Procs |-> NoBlock]

\* A process is given a block nobody else holds.
bread(p, b) ==
    /\ holds[p] = NoBlock
    /\ ~Locked(b)
    /\ holds' = [holds EXCEPT ![p] = b]
    /\ cache' = [cache EXCEPT ![b] = IF @ = NotCached THEN disk[b] ELSE @]
    /\ UNCHANGED <<disk, pin>>

modify(p, v) ==
    /\ holds[p] # NoBlock
    /\ cache' = [cache EXCEPT ![holds[p]] = v]
    /\ UNCHANGED <<disk, pin, holds>>

bwrite(p) ==
    /\ holds[p] # NoBlock
    /\ disk' = [disk EXCEPT ![holds[p]] = cache[holds[p]]]
    /\ UNCHANGED <<cache, pin, holds>>

bpin(p) ==
    /\ holds[p] # NoBlock
    /\ pin' = [pin EXCEPT ![holds[p]] = @ + 1]
    /\ UNCHANGED <<disk, cache, holds>>

bunpin(p) ==
    /\ holds[p] # NoBlock
    /\ pin[holds[p]] > 0
    /\ pin' = [pin EXCEPT ![holds[p]] = @ - 1]
    /\ UNCHANGED <<disk, cache, holds>>

brelse(p) ==
    /\ holds[p] # NoBlock
    /\ holds' = [holds EXCEPT ![p] = NoBlock]
    /\ UNCHANGED <<disk, cache, pin>>

\* Only a copy that is neither held nor pinned may leave the cache.
recycle(b) ==
    /\ ~Locked(b)
    /\ pin[b] = 0
    /\ cache' = [cache EXCEPT ![b] = NotCached]
    /\ UNCHANGED <<disk, pin, holds>>

Next ==
    \/ \E p \in Procs :
        \/ \E b \in Blocks : bread(p, b)
        \/ \E v \in Data : modify(p, v)
        \/ bwrite(p) \/ bpin(p) \/ bunpin(p) \/ brelse(p)
    \/ \E b \in Blocks : recycle(b)

Spec == Init /\ [][Next]_vars
=============================================================================
