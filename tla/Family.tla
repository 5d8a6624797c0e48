------------------------------- MODULE Family -------------------------------
(***************************************************************************)
(* What fork(), exit(), wait() and kill() promise to user programs, told   *)
(* by pids: a pid is handed out once; only a child that exited is waited   *)
(* for, by its parent, once; the children of a process that exits pass to  *)
(* init.  A kill() marks the process whose pid its caller named and no     *)
(* other, and fails only if that process was not there from the call to    *)
(* the return; apart from that, a process is marked only for a fault of    *)
(* its own.                                                                *)
(***************************************************************************)
EXTENDS Integers

CONSTANTS
    Pids,    \* the pids there may be
    Names,   \* the arguments programs give to kill()
    InitPid, \* the pid of init
    NoPid

VARIABLES
    status,  \* of each pid
    parent,  \* the pid that may wait for it
    doomed,  \* pids that were marked killed
    asked,   \* the argument of the kill() a process is in, or NoPid
    missed   \* processes in a kill() that will not see a child born since the call

vars == <<status, parent, doomed, asked, missed>>
calls == <<asked, missed>>

Status == {"none", "alive", "exiting", "dead", "gone"}
There == {"alive", "exiting", "dead"}

Init ==
    /\ status = [k \in Pids |-> IF k = InitPid THEN "alive" ELSE "none"]
    /\ parent = [k \in Pids |-> NoPid]
    /\ doomed = {}
    /\ asked = [k \in Pids |-> NoPid]
    /\ missed = {}

\* The processes in a kill() of j.
Naming(j) == {k \in Pids : asked[k] = j}

\* fork() by k returns j.  A kill() of j that is under way may overlook it.
Fork(k, j) ==
    /\ status[k] = "alive"
    /\ status[j] = "none"
    /\ status' = [status EXCEPT ![j] = "alive"]
    /\ parent' = [parent EXCEPT ![j] = k]
    /\ \E late \in SUBSET Naming(j) : missed' = missed \cup late
    /\ UNCHANGED <<doomed, asked>>

\* A fork() that fails; its pid is not used again.
ForkFails(j) ==
    /\ status[j] = "none"
    /\ status' = [status EXCEPT ![j] = "gone"]
    /\ UNCHANGED <<parent, doomed, calls>>

\* k calls exit(), or notices that it was killed.
BeginExit(k) ==
    /\ k # InitPid
    /\ status[k] = "alive"
    /\ asked[k] = NoPid
    /\ status' = [status EXCEPT ![k] = "exiting"]
    /\ UNCHANGED <<parent, doomed, calls>>

Adopt(j) ==
    /\ parent[j] # NoPid
    /\ status[parent[j]] = "exiting"
    /\ parent' = [parent EXCEPT ![j] = InitPid]
    /\ UNCHANGED <<status, doomed, calls>>

EndExit(k) ==
    /\ status[k] = "exiting"
    /\ \A j \in Pids : parent[j] # k
    /\ status' = [status EXCEPT ![k] = "dead"]
    /\ UNCHANGED <<parent, doomed, calls>>

\* wait() by k returns j.
Reap(k, j) ==
    /\ status[k] = "alive"
    /\ status[j] = "dead"
    /\ parent[j] = k
    /\ status' = [status EXCEPT ![j] = "gone"]
    /\ parent' = [parent EXCEPT ![j] = NoPid]
    /\ doomed' = doomed \ {j}
    /\ missed' = missed \ Naming(j)
    /\ UNCHANGED asked

\* k causes an exception.
Fault(k) ==
    /\ status[k] = "alive"
    /\ asked[k] = NoPid
    /\ doomed' = doomed \cup {k}
    /\ UNCHANGED <<status, parent, calls>>

\* k calls kill(j).
CallKill(k, j) ==
    /\ status[k] = "alive"
    /\ asked[k] = NoPid
    /\ asked' = [asked EXCEPT ![k] = j]
    /\ UNCHANGED <<status, parent, doomed, missed>>

\* kill() by k succeeds: it marks whom k named.
Kill(k) ==
    /\ asked[k] \in Pids
    /\ status[asked[k]] \in There
    /\ doomed' = doomed \cup {asked[k]}
    /\ asked' = [asked EXCEPT ![k] = NoPid]
    /\ missed' = missed \ {k}
    /\ UNCHANGED <<status, parent>>

\* kill() by k fails: whom k named is not there, or was not when k called.
KillFails(k) ==
    /\ asked[k] # NoPid
    /\ asked[k] \in Pids /\ status[asked[k]] \in There => k \in missed
    /\ asked' = [asked EXCEPT ![k] = NoPid]
    /\ missed' = missed \ {k}
    /\ UNCHANGED <<status, parent, doomed>>

Next == \E j \in Pids :
    \/ ForkFails(j) \/ BeginExit(j) \/ Adopt(j) \/ EndExit(j)
    \/ Fault(j) \/ Kill(j) \/ KillFails(j)
    \/ \E k \in Pids : Fork(k, j) \/ Reap(k, j)
    \/ \E k \in Names : CallKill(j, k)

Spec == Init /\ [][Next]_vars
=============================================================================
