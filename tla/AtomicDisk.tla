----------------------------- MODULE AtomicDisk -----------------------------
(***************************************************************************)
(* What the logging layer (kernel/log.c) promises the file system above    *)
(* it.  The comment at the head of log.c: a transaction holds the updates  *)
(* of several file-system calls, it commits only when no call is active,   *)
(* and a crash never leaves part of one behind.                            *)
(*                                                                         *)
(* Here the disk is a function from blocks to contents that changes in one *)
(* step, from the state before a group of calls to the state after it.     *)
(***************************************************************************)
EXTENDS Naturals

CONSTANTS Procs,    \* processes that make file-system calls
          Blocks,   \* disk blocks outside the log
          Data      \* what a block may contain

VARIABLES durable,  \* what a machine that crashed now would recover to
          current,  \* what a file-system call that reads now sees
          active,   \* the processes between begin_op() and end_op()
          sealed,   \* the group has ended; nobody may join until it is durable
          crashes   \* how often the machine has crashed

vars == <<durable, current, active, sealed, crashes>>

Init ==
    /\ durable \in [Blocks -> Data]
    /\ current = durable
    /\ active = {}
    /\ sealed = FALSE
    /\ crashes = 0

\* A call joins the group that is open.
Begin(p) ==
    /\ ~sealed
    /\ p \notin active
    /\ active' = active \cup {p}
    /\ UNCHANGED <<durable, current, sealed, crashes>>

\* An active call changes a block; the change is visible, not durable.
Write(p, b, v) ==
    /\ p \in active
    /\ current' = [current EXCEPT ![b] = v]
    /\ UNCHANGED <<durable, active, sealed, crashes>>

\* A call ends; the last one seals the group.
End(p) ==
    /\ p \in active
    /\ active' = active \ {p}
    /\ sealed' = (active = {p})
    /\ UNCHANGED <<durable, current, crashes>>

\* The whole group becomes durable at once.
Commit ==
    /\ sealed
    /\ durable' = current
    /\ UNCHANGED <<current, active, sealed, crashes>>

\* A new group may start once the last one is durable.
Reopen ==
    /\ sealed
    /\ durable = current
    /\ sealed' = FALSE
    /\ UNCHANGED <<durable, current, active, crashes>>

\* A crash, and nothing else, takes the disk back to the last group that committed.
Crash ==
    /\ current' = durable
    /\ active' = {}
    /\ sealed' = FALSE
    /\ crashes' = crashes + 1
    /\ UNCHANGED durable

Next ==
    \/ \E p \in Procs : Begin(p) \/ End(p)
    \/ \E p \in Procs, b \in Blocks, v \in Data : Write(p, b, v)
    \/ Commit
    \/ Reopen
    \/ Crash

Spec == Init /\ [][Next]_vars
=============================================================================
