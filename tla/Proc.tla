-------------------------------- MODULE Proc --------------------------------
(***************************************************************************)
(* Processes: kernel/proc.c, with the parts of kernel/trap.c that make a   *)
(* process notice that it was killed or give up its CPU.                   *)
(*                                                                         *)
(* A step is one critical section of a p->lock.  The locks that are held   *)
(* across several of them are variables: wait_lock, and p->lock where it   *)
(* stays held across swtch() and inside sleep().  Every scan of the        *)
(* process table takes a step per slot, so that other CPUs run in between. *)
(***************************************************************************)
EXTENDS Integers, FiniteSets

CONSTANTS
    CPUs,     \* the harts
    NPROC,    \* param.h: size of the process table
    MaxPid,   \* bound: pids handed out
    KillPids, \* the arguments user programs give to kill()
    NoCpu     \* holder of a lock that is free

Slots == 1 .. NPROC
NoProc == 0
initproc == 1

ASSUME ProcAssumption ==
    /\ NPROC \in Nat \ {0}
    /\ MaxPid \in Nat \ {0}
    /\ KillPids \subseteq Nat \ {1}  \* killing init ends in panic("init exiting")
    /\ NoCpu \notin CPUs

VARIABLES
    state, chan, killed, pid, parent, \* the fields of struct proc
    nextpid,
    lock,       \* p->lock, when it is held across steps: by which CPU
    wait_lock,  \* by which CPU it is held
    proc,       \* c->proc
    switching,  \* CPU c is on a process's stack, inside sched()
    pc,         \* where the kernel thread of a process is
    scan,       \* its loop index over the process table
    wscan,      \* the loop index of the wakeup() it calls
    child,      \* np, in kfork()
    target      \* the argument of kkill()

fields == <<state, chan, killed, pid, parent, nextpid>>
locals == <<scan, wscan, child, target>>
vars == <<state, chan, killed, pid, parent, nextpid, lock, wait_lock, proc, switching,
          pc, scan, wscan, child, target>>

-----------------------------------------------------------------------------
States == {"UNUSED", "USED", "SLEEPING", "RUNNABLE", "RUNNING", "ZOMBIE"}
PC == {"user", "return",
       "allocproc", "fork_parent", "fork_run",
       "exit", "reparent", "wakeinit", "wakeparent", "zombie",
       "wait", "wait_scan", "wait_sleep", "sleep_locked",
       "kill"}

\* Labels of a thread that holds wait_lock, and of one that may be interrupted:
\* a CPU takes no interrupt while it holds a spin-lock (push_off()).
InWaitLock == {"reparent", "wakeinit", "wakeparent", "zombie", "wait_scan", "wait_sleep"}
Preemptible == {"return", "allocproc", "fork_parent", "fork_run", "exit", "wait", "kill"}

Free(s) == lock[s] = NoCpu

\* CPU c runs the code of its process at label l.
At(c, l) == proc[c] # NoProc /\ ~switching[c] /\ pc[proc[c]] = l
Goto(p, l) == pc' = [pc EXCEPT ![p] = l]

HaveKids(p) == \E s \in Slots : parent[s] = p

\* sched(), up to swtch(): p is no longer RUNNING, its lock is held, and the CPU
\* is still on its kernel stack.
sched_unlocked(c, p) ==
    /\ switching' = [switching EXCEPT ![c] = TRUE]
    /\ UNCHANGED lock
sched(c, p) ==
    /\ switching' = [switching EXCEPT ![c] = TRUE]
    /\ lock' = [lock EXCEPT ![p] = c]

-----------------------------------------------------------------------------
\* scheduler(): run s; the thread leaves sched() (or starts in forkret()),
\* sets p->chan = 0 if it was in sleep(), and releases p->lock.
scheduler(c, s) ==
    /\ proc[c] = NoProc
    /\ Free(s)
    /\ state[s] = "RUNNABLE"
    /\ state' = [state EXCEPT ![s] = "RUNNING"]
    /\ chan' = [chan EXCEPT ![s] = NoProc]
    /\ proc' = [proc EXCEPT ![c] = s]
    /\ UNCHANGED <<killed, pid, parent, nextpid, lock, wait_lock, switching, pc, locals>>

\* swtch() back to scheduler(), which releases the lock of the process.
swtch(c) ==
    /\ switching[c]
    /\ proc' = [proc EXCEPT ![c] = NoProc]
    /\ switching' = [switching EXCEPT ![c] = FALSE]
    /\ lock' = [lock EXCEPT ![proc[c]] = NoCpu]
    /\ UNCHANGED <<fields, wait_lock, pc, locals>>

yield(c) ==
    LET p == proc[c]
    IN  /\ Free(p)
        /\ state' = [state EXCEPT ![p] = "RUNNABLE"]
        /\ sched(c, p)
        /\ UNCHANGED <<chan, killed, pid, parent, nextpid, wait_lock, proc, pc, locals>>

\* A timer interrupt in the kernel.
kerneltrap(c) ==
    /\ \E l \in Preemptible : At(c, l)
    /\ yield(c)

\* A timer interrupt in user space; a killed process exits instead.
usertrap_timer(c) ==
    /\ At(c, "user")
    /\ ~killed[proc[c]]
    /\ yield(c)

\* The checks of p->killed in usertrap(), on entry and before the return.
CheckOnReturn(c) == At(c, "return")
CheckKilled(c) == At(c, "user") \/ At(c, "return")

usertrap_killed(c) ==
    LET p == proc[c]
    IN  /\ CheckKilled(c)
        /\ Free(p)
        /\ killed[p]
        /\ Goto(p, "exit")
        /\ UNCHANGED <<fields, lock, wait_lock, proc, switching, locals>>

usertrap_return(c) ==
    LET p == proc[c]
    IN  /\ At(c, "return")
        /\ Free(p)
        /\ ~killed[p]
        /\ Goto(p, "user")
        /\ UNCHANGED <<fields, lock, wait_lock, proc, switching, locals>>

\* An unexpected exception: setkilled(p).  /init causes none.
usertrap_fault(c) ==
    LET p == proc[c]
    IN  /\ At(c, "user")
        /\ p # initproc
        /\ Free(p)
        /\ killed' = [killed EXCEPT ![p] = TRUE]
        /\ Goto(p, "return")
        /\ UNCHANGED <<state, chan, pid, parent, nextpid, lock, wait_lock, proc,
                       switching, locals>>

\* A system call of a process that is not killed; it starts at label l.
syscall(c, l) ==
    /\ At(c, "user")
    /\ Free(proc[c])
    /\ ~killed[proc[c]]
    /\ Goto(proc[c], l)

sys_fork(c) ==
    /\ nextpid + Cardinality({q \in Slots : pc[q] = "allocproc"}) <= MaxPid
    /\ syscall(c, "allocproc")
    /\ scan' = [scan EXCEPT ![proc[c]] = 1]
    /\ UNCHANGED <<fields, lock, wait_lock, proc, switching, wscan, child, target>>

sys_exit(c) ==
    /\ proc[c] # initproc
    /\ syscall(c, "exit")
    /\ UNCHANGED <<fields, lock, wait_lock, proc, switching, locals>>

sys_wait(c) ==
    /\ syscall(c, "wait")
    /\ UNCHANGED <<fields, lock, wait_lock, proc, switching, locals>>

sys_kill(c, k) ==
    /\ syscall(c, "kill")
    /\ scan' = [scan EXCEPT ![proc[c]] = 1]
    /\ target' = [target EXCEPT ![proc[c]] = k]
    /\ UNCHANGED <<fields, lock, wait_lock, proc, switching, wscan, child>>

-----------------------------------------------------------------------------
\* freeproc(), of a slot the caller has locked.
freeproc(s) ==
    /\ state' = [state EXCEPT ![s] = "UNUSED"]
    /\ chan' = [chan EXCEPT ![s] = NoProc]
    /\ killed' = [killed EXCEPT ![s] = FALSE]
    /\ pid' = [pid EXCEPT ![s] = 0]
    /\ parent' = [parent EXCEPT ![s] = NoProc]

\* kfork(): allocproc() looks at one slot; a free one is filled in, up to the
\* release(&np->lock) of kfork().  Running out of memory frees it again.
allocproc_next(c) ==
    LET p == proc[c]
    IN  /\ At(c, "allocproc")
        /\ scan[p] \in Slots
        /\ Free(scan[p])
        /\ state[scan[p]] # "UNUSED"
        /\ scan' = [scan EXCEPT ![p] = @ + 1]
        /\ UNCHANGED <<fields, lock, wait_lock, proc, switching, pc, wscan, child, target>>

allocproc_found(c) ==
    LET p == proc[c]
        s == scan[p]
    IN  /\ At(c, "allocproc")
        /\ s \in Slots
        /\ Free(s)
        /\ state[s] = "UNUSED"
        /\ nextpid' = nextpid + 1
        /\ pid' = [pid EXCEPT ![s] = nextpid]
        /\ state' = [state EXCEPT ![s] = "USED"]
        /\ child' = [child EXCEPT ![p] = s]
        /\ pc' = [pc EXCEPT ![p] = "fork_parent", ![s] = "user"]
        /\ scan' = [scan EXCEPT ![p] = 1]
        /\ UNCHANGED <<chan, killed, parent, lock, wait_lock, proc, switching, wscan, target>>

allocproc_nomem(c) ==
    LET p == proc[c]
        s == scan[p]
    IN  /\ At(c, "allocproc")
        /\ s \in Slots
        /\ Free(s)
        /\ state[s] = "UNUSED"
        /\ nextpid' = nextpid + 1
        /\ freeproc(s)
        /\ Goto(p, "return")
        /\ scan' = [scan EXCEPT ![p] = 1]
        /\ UNCHANGED <<lock, wait_lock, proc, switching, wscan, child, target>>

allocproc_full(c) ==
    LET p == proc[c]
    IN  /\ At(c, "allocproc")
        /\ scan[p] > NPROC
        /\ Goto(p, "return")
        /\ scan' = [scan EXCEPT ![p] = 1]
        /\ UNCHANGED <<fields, lock, wait_lock, proc, switching, wscan, child, target>>

\* kfork(): np->parent = p, under wait_lock.
fork_parent(c) ==
    LET p == proc[c]
    IN  /\ At(c, "fork_parent")
        /\ wait_lock = NoCpu
        /\ parent' = [parent EXCEPT ![child[p]] = p]
        /\ Goto(p, "fork_run")
        /\ UNCHANGED <<state, chan, killed, pid, nextpid, lock, wait_lock, proc, switching,
                       locals>>

\* kfork(): np->state = RUNNABLE, under np->lock.
fork_run(c) ==
    LET p == proc[c]
    IN  /\ At(c, "fork_run")
        /\ Free(child[p])
        /\ state' = [state EXCEPT ![child[p]] = "RUNNABLE"]
        /\ child' = [child EXCEPT ![p] = NoProc]
        /\ Goto(p, "return")
        /\ UNCHANGED <<chan, killed, pid, parent, nextpid, lock, wait_lock, proc, switching,
                       scan, wscan, target>>

-----------------------------------------------------------------------------
\* kexit(), from acquire(&wait_lock) on.
kexit(c) ==
    LET p == proc[c]
    IN  /\ At(c, "exit")
        /\ wait_lock = NoCpu
        /\ wait_lock' = c
        /\ Goto(p, "reparent")
        /\ UNCHANGED <<fields, lock, proc, switching, locals>>

\* reparent(): one slot.
KeepOrphan(s) == parent
Adopt(s) == [parent EXCEPT ![s] = initproc]

reparent(c) ==
    LET p == proc[c]
        s == scan[p]
    IN  /\ At(c, "reparent")
        /\ s \in Slots
        /\ IF parent[s] = p
           THEN /\ parent' = Adopt(s)
                /\ Goto(p, "wakeinit")
                /\ UNCHANGED scan
           ELSE /\ scan' = [scan EXCEPT ![p] = @ + 1]
                /\ UNCHANGED <<parent, pc>>
        /\ UNCHANGED <<state, chan, killed, pid, nextpid, lock, wait_lock, proc, switching,
                       wscan, child, target>>

reparent_done(c) ==
    LET p == proc[c]
    IN  /\ At(c, "reparent")
        /\ scan[p] > NPROC
        /\ scan' = [scan EXCEPT ![p] = 1]
        /\ Goto(p, "wakeparent")
        /\ UNCHANGED <<fields, lock, wait_lock, proc, switching, wscan, child, target>>

\* wakeup(): one slot.
Wake(s, ch) == IF state[s] = "SLEEPING" /\ chan[s] = ch THEN "RUNNABLE" ELSE state[s]

wakeup(c, ch) ==
    LET p == proc[c]
        s == wscan[p]
    IN  /\ s \in Slots
        /\ IF s = p
           THEN UNCHANGED state
           ELSE /\ Free(s)
                /\ state' = [state EXCEPT ![s] = Wake(s, ch)]
        /\ wscan' = [wscan EXCEPT ![p] = @ + 1]
        /\ UNCHANGED <<chan, killed, pid, parent, nextpid, lock, wait_lock, proc, switching,
                       pc, scan, child, target>>

\* wakeup(initproc), called by reparent() for every child it moves.
wakeup_init(c) ==
    /\ At(c, "wakeinit")
    /\ wakeup(c, initproc)

wakeup_init_done(c) ==
    LET p == proc[c]
    IN  /\ At(c, "wakeinit")
        /\ wscan[p] > NPROC
        /\ wscan' = [wscan EXCEPT ![p] = 1]
        /\ scan' = [scan EXCEPT ![p] = @ + 1]
        /\ Goto(p, "reparent")
        /\ UNCHANGED <<fields, lock, wait_lock, proc, switching, child, target>>

\* wakeup(p->parent).
wakeup_parent(c) ==
    /\ At(c, "wakeparent")
    /\ wakeup(c, parent[proc[c]])

wakeup_parent_done(c) ==
    LET p == proc[c]
    IN  /\ At(c, "wakeparent")
        /\ wscan[p] > NPROC
        /\ wscan' = [wscan EXCEPT ![p] = 1]
        /\ Goto(p, "zombie")
        /\ UNCHANGED <<fields, lock, wait_lock, proc, switching, scan, child, target>>

\* The end of kexit(): p->lock is taken, and stays held into scheduler().
exit_zombie(c) ==
    LET p == proc[c]
    IN  /\ At(c, "zombie")
        /\ Free(p)
        /\ state' = [state EXCEPT ![p] = "ZOMBIE"]
        /\ wait_lock' = NoCpu
        /\ sched(c, p)
        /\ UNCHANGED <<chan, killed, pid, parent, nextpid, proc, pc, locals>>

-----------------------------------------------------------------------------
\* kwait(): acquire(&wait_lock), on entry and when sleep() returns.
kwait(c) ==
    LET p == proc[c]
    IN  /\ At(c, "wait")
        /\ wait_lock = NoCpu
        /\ wait_lock' = c
        /\ scan' = [scan EXCEPT ![p] = 1]
        /\ Goto(p, "wait_scan")
        /\ UNCHANGED <<fields, lock, proc, switching, wscan, child, target>>

\* "make sure the child isn't still in exit() or swtch()"
ChildOffCpu(s) == Free(s)

\* One slot that holds no zombie child.
wait_next(c) ==
    LET p == proc[c]
        s == scan[p]
    IN  /\ At(c, "wait_scan")
        /\ s \in Slots
        /\ parent[s] = p => ChildOffCpu(s) /\ state[s] # "ZOMBIE"
        /\ scan' = [scan EXCEPT ![p] = @ + 1]
        /\ UNCHANGED <<fields, lock, wait_lock, proc, switching, pc, wscan, child, target>>

\* A zombie child: it is freed, unless copyout() of its status fails.
wait_reap(c) ==
    LET p == proc[c]
        s == scan[p]
    IN  /\ At(c, "wait_scan")
        /\ s \in Slots
        /\ parent[s] = p
        /\ ChildOffCpu(s)
        /\ state[s] = "ZOMBIE"
        /\ \/ freeproc(s)
           \/ /\ p # initproc  \* which asks for no status
              /\ UNCHANGED <<state, chan, killed, pid, parent>>
        /\ wait_lock' = NoCpu
        /\ scan' = [scan EXCEPT ![p] = 1]
        /\ Goto(p, "return")
        /\ UNCHANGED <<nextpid, lock, proc, switching, wscan, child, target>>

\* The whole table was scanned.  parent does not change while wait_lock is held,
\* so havekids is HaveKids(p).
wait_check(c) ==
    LET p == proc[c]
    IN  /\ At(c, "wait_scan")
        /\ scan[p] > NPROC
        /\ Free(p)
        /\ scan' = [scan EXCEPT ![p] = 1]
        /\ IF ~HaveKids(p) \/ killed[p]
           THEN /\ wait_lock' = NoCpu
                /\ Goto(p, "return")
           ELSE /\ Goto(p, "wait_sleep")
                /\ UNCHANGED wait_lock
        /\ UNCHANGED <<fields, lock, proc, switching, wscan, child, target>>

\* sleep(p, &wait_lock): acquire(&p->lock), then release(lk).
hold_no_lock(c, p) == lock
hold_lock(c, p) == [lock EXCEPT ![p] = c]

sleep(c) ==
    LET p == proc[c]
    IN  /\ At(c, "wait_sleep")
        /\ Free(p)
        /\ lock' = hold_lock(c, p)
        /\ wait_lock' = NoCpu
        /\ Goto(p, "sleep_locked")
        /\ UNCHANGED <<fields, proc, switching, locals>>

\* sleep(): go to sleep; the thread continues at kwait()'s loop.
sleep_sched(c) ==
    LET p == proc[c]
    IN  /\ At(c, "sleep_locked")
        /\ chan' = [chan EXCEPT ![p] = p]
        /\ state' = [state EXCEPT ![p] = "SLEEPING"]
        /\ sched(c, p)
        /\ Goto(p, "wait")
        /\ UNCHANGED <<killed, pid, parent, nextpid, wait_lock, proc, locals>>

-----------------------------------------------------------------------------
\* kkill(): one slot.  (In kkill_later() a later pid passes for the one named.)
kkill_later(c) ==
    LET p == proc[c]
        s == scan[p]
    IN  /\ At(c, "kill")
        /\ s \in Slots
        /\ Free(s)
        /\ pid[s] >= target[p]
        /\ killed' = [killed EXCEPT ![s] = TRUE]
        /\ state' = [state EXCEPT ![s] = IF @ = "SLEEPING" THEN "RUNNABLE" ELSE @]
        /\ scan' = [scan EXCEPT ![p] = 1]
        /\ target' = [target EXCEPT ![p] = 0]
        /\ Goto(p, "return")
        /\ UNCHANGED <<chan, pid, parent, nextpid, lock, wait_lock, proc, switching, wscan,
                       child>>

kkill(c) ==
    LET p == proc[c]
        s == scan[p]
    IN  /\ At(c, "kill")
        /\ s \in Slots
        /\ Free(s)
        /\ pid[s] = target[p]
        /\ killed' = [killed EXCEPT ![s] = TRUE]
        /\ state' = [state EXCEPT ![s] = IF @ = "SLEEPING" THEN "RUNNABLE" ELSE @]
        /\ scan' = [scan EXCEPT ![p] = 1]
        /\ target' = [target EXCEPT ![p] = 0]
        /\ Goto(p, "return")
        /\ UNCHANGED <<chan, pid, parent, nextpid, lock, wait_lock, proc, switching, wscan,
                       child>>

kkill_next(c) ==
    LET p == proc[c]
    IN  /\ At(c, "kill")
        /\ scan[p] \in Slots
        /\ Free(scan[p])
        /\ pid[scan[p]] # target[p]
        /\ scan' = [scan EXCEPT ![p] = @ + 1]
        /\ UNCHANGED <<fields, lock, wait_lock, proc, switching, pc, wscan, child, target>>

kkill_none(c) ==
    LET p == proc[c]
    IN  /\ At(c, "kill")
        /\ scan[p] > NPROC
        /\ scan' = [scan EXCEPT ![p] = 1]
        /\ target' = [target EXCEPT ![p] = 0]
        /\ Goto(p, "return")
        /\ UNCHANGED <<fields, lock, wait_lock, proc, switching, wscan, child>>

-----------------------------------------------------------------------------
\* main(): procinit() and userinit() are done; every CPU is in scheduler().
Init ==
    /\ state = [s \in Slots |-> IF s = initproc THEN "RUNNABLE" ELSE "UNUSED"]
    /\ chan = [s \in Slots |-> NoProc]
    /\ killed = [s \in Slots |-> FALSE]
    /\ pid = [s \in Slots |-> IF s = initproc THEN 1 ELSE 0]
    /\ parent = [s \in Slots |-> NoProc]
    /\ nextpid = 2
    /\ lock = [s \in Slots |-> NoCpu]
    /\ wait_lock = NoCpu
    /\ proc = [c \in CPUs |-> NoProc]
    /\ switching = [c \in CPUs |-> FALSE]
    /\ pc = [s \in Slots |-> "user"]
    /\ scan = [s \in Slots |-> 1]
    /\ wscan = [s \in Slots |-> 1]
    /\ child = [s \in Slots |-> NoProc]
    /\ target = [s \in Slots |-> 0]

\* What a process does in the kernel without a choice of its own, one step.
KernelStep(c) ==
    \/ usertrap_killed(c) \/ usertrap_return(c)
    \/ allocproc_next(c) \/ allocproc_found(c) \/ allocproc_nomem(c) \/ allocproc_full(c)
    \/ fork_parent(c) \/ fork_run(c)
    \/ kexit(c) \/ reparent(c) \/ reparent_done(c) \/ exit_zombie(c)
    \/ wakeup_init(c) \/ wakeup_init_done(c) \/ wakeup_parent(c) \/ wakeup_parent_done(c)
    \/ kwait(c) \/ wait_next(c) \/ wait_reap(c) \/ wait_check(c) \/ sleep(c) \/ sleep_sched(c)
    \/ kkill(c) \/ kkill_next(c) \/ kkill_none(c)

UserStep(c) ==
    \/ usertrap_fault(c)
    \/ sys_fork(c) \/ sys_exit(c) \/ sys_wait(c)
    \/ \E k \in KillPids : sys_kill(c, k)

Next == \E c \in CPUs :
    \/ \E s \in Slots : scheduler(c, s)
    \/ swtch(c) \/ kerneltrap(c) \/ usertrap_timer(c)
    \/ KernelStep(c)
    \/ UserStep(c)

Spec == Init /\ [][Next]_vars

\* Fairness.  A CPU goes on: it leaves sched(), and its scheduler() scans the
\* table for ever, so a RUNNABLE process is run (an unlucky CPU may find the
\* slot's lock taken, hence strong fairness, as for every acquire()).  The timer
\* of a CPU goes on ticking, and a tick stays pending while interrupts are off;
\* a process gets at least one kernel step done between two ticks.
\* /init calls wait() in a loop.
Fairness ==
    /\ \A c \in CPUs : WF_vars(swtch(c))
    /\ \A s \in Slots : SF_vars(\E c \in CPUs : scheduler(c, s))
    /\ \A s \in Slots : SF_vars(\E c \in CPUs : proc[c] = s /\ KernelStep(c))
    /\ \A c \in CPUs : SF_vars(kerneltrap(c) \/ usertrap_timer(c))
    /\ SF_vars(\E c \in CPUs : proc[c] = initproc /\ sys_wait(c))

FairSpec == Spec /\ Fairness

-----------------------------------------------------------------------------
(***************************************************************************)
(* Properties.                                                             *)
(***************************************************************************)
Locals == 1 .. NPROC + 1

\* Every variable has its type.
TypeOK ==
    /\ state \in [Slots -> States]
    /\ chan \in [Slots -> Slots \cup {NoProc}]
    /\ killed \in [Slots -> BOOLEAN]
    /\ pid \in [Slots -> Nat]
    /\ parent \in [Slots -> Slots \cup {NoProc}]
    /\ nextpid \in Nat
    /\ lock \in [Slots -> CPUs \cup {NoCpu}]
    /\ wait_lock \in CPUs \cup {NoCpu}
    /\ proc \in [CPUs -> Slots \cup {NoProc}]
    /\ switching \in [CPUs -> BOOLEAN]
    /\ pc \in [Slots -> PC]
    /\ scan \in [Slots -> Locals]
    /\ wscan \in [Slots -> Locals]
    /\ child \in [Slots -> Slots \cup {NoProc}]
    /\ target \in [Slots -> Nat]

\* Who holds the locks: wait_lock belongs to the CPU whose process is inside
\* kexit() or kwait(), p->lock (across steps) to the CPU on p's stack.
LocksHeld ==
    /\ \A c \in CPUs : wait_lock = c <=> \E l \in InWaitLock : At(c, l)
    /\ \A c \in CPUs, s \in Slots :
        lock[s] = c <=> proc[c] = s /\ (switching[c] \/ pc[s] = "sleep_locked")

\* A kernel stack is used by one CPU at most, and never once its process slot is
\* free: p->lock stays held across swtch() (yield(), sleep(), kexit() to
\* scheduler()), and kwait() takes it before it looks at a child.
StackInUse ==
    /\ \A c, d \in CPUs : proc[c] # NoProc /\ proc[c] = proc[d] => c = d
    /\ \A c \in CPUs : proc[c] # NoProc => state[proc[c]] \notin {"UNUSED", "USED"}

\* A parent that sleeps in kwait() has a child to wait for and no zombie child
\* it missed, except while a process inside wait_lock is about to wake it.
NoMissedExit ==
    \A p \in Slots : state[p] = "SLEEPING" /\ wait_lock = NoCpu =>
        /\ HaveKids(p)
        /\ \A s \in Slots : parent[s] = p => state[s] # "ZOMBIE"

\* The parent of a process can still call wait(): an exiting process hands its
\* children to init before it becomes a zombie, so no zombie stays for ever.
OrphansAdopted ==
    \A s \in Slots : state[s] \notin {"UNUSED", "USED"} /\ s # initproc =>
        /\ parent[s] # NoProc
        /\ state[parent[s]] \notin {"UNUSED", "USED", "ZOMBIE"}

(***************************************************************************)
(* The inductive invariant behind the three: where a process can be in     *)
(* each state, what a pending fork leaves half done, and what the loops    *)
(* of kexit() and kwait() have already seen while they hold wait_lock.     *)
(***************************************************************************)
Live == {"RUNNABLE", "RUNNING", "SLEEPING"}
Exiting == {"exit", "reparent", "wakeinit", "wakeparent", "zombie"}
Forking == {"fork_parent", "fork_run"}

\* A process is RUNNING exactly while a CPU executes it; a CPU inside sched()
\* has a process that is not.
CpuInv ==
    /\ \A s \in Slots : state[s] = "RUNNING" <=> \E c \in CPUs : proc[c] = s /\ ~switching[c]
    /\ \A c \in CPUs : switching[c] =>
            proc[c] # NoProc /\ state[proc[c]] \in {"RUNNABLE", "SLEEPING", "ZOMBIE"}

\* Who is not RUNNING holds no wait_lock and is not inside sleep().
LabelInv ==
    \A s \in Slots :
        /\ state[s] = "RUNNABLE" => pc[s] \in Preemptible \cup {"user"}
        /\ state[s] = "SLEEPING" => pc[s] = "wait" /\ chan[s] = s
        /\ state[s] = "USED" => pc[s] = "user"
        /\ state[s] \in {"UNUSED", "ZOMBIE"} => pc[s] \in {"user", "zombie"}
        /\ scan[s] # 1 => pc[s] \in {"allocproc", "reparent", "wakeinit", "wait_scan", "kill"}
        /\ wscan[s] # 1 => pc[s] \in {"wakeinit", "wakeparent"}
        /\ pc[s] = "wakeinit" => scan[s] \in Slots

\* The slot a fork is filling in belongs to that fork alone.
ForkInv ==
    /\ \A p \in Slots : child[p] # NoProc <=> pc[p] \in Forking
    /\ \A p \in Slots : pc[p] \in Forking =>
            /\ state[child[p]] = "USED"
            /\ parent[child[p]] = IF pc[p] = "fork_run" THEN p ELSE NoProc
    /\ \A p, q \in Slots : child[p] # NoProc /\ child[p] = child[q] => p = q
    /\ \A s \in Slots : state[s] = "UNUSED" => parent[s] = NoProc

\* init stays: it is not killed and does not exit.
InitStays ==
    /\ state[initproc] \in Live /\ pid[initproc] = 1
    /\ ~killed[initproc] /\ pc[initproc] \notin Exiting
    /\ \A p \in Slots : pc[p] = "kill" => target[p] \in KillPids

\* A parent is alive, and one that exits has given away the children of the slots
\* its loop has passed.
ParentInv ==
    /\ \A s \in Slots : parent[s] # NoProc => state[parent[s]] \in Live
    /\ \A s \in Slots : state[s] \in Live \cup {"ZOMBIE"} /\ s # initproc => parent[s] # NoProc
    /\ \A p, s \in Slots : parent[s] = p =>
            /\ pc[p] = "reparent" => scan[p] <= s
            /\ pc[p] = "wakeinit" => scan[p] < s
            /\ pc[p] \notin {"wakeparent", "zombie"}

Asleep(p) == state[p] = "SLEEPING" \/ pc[p] = "sleep_locked"
PassedParent(q) ==
    /\ state[q] = "RUNNING"
    /\ pc[q] = "zombie" \/ (pc[q] = "wakeparent" /\ parent[q] < wscan[q])
NoZombies(p) == \A s \in Slots : parent[s] = p => state[s] # "ZOMBIE"

\* The scan of kwait() has passed no zombie, and who then decides to sleep has a child.
ScanInv ==
    /\ \A p, s \in Slots : pc[p] = "wait_scan" /\ s < scan[p] /\ parent[s] = p
            => state[s] # "ZOMBIE"
    /\ \A p \in Slots : pc[p] = "wait_sleep" => HaveKids(p) /\ NoZombies(p)

\* A parent sleeps, or is about to, only with a child and with no zombie; init may
\* have been given a zombie by a reparent() that is about to wake it.
SleeperHasKids == \A p \in Slots : Asleep(p) => HaveKids(p)
SleeperMissedNone ==
    \A p \in Slots : Asleep(p) =>
        NoZombies(p) \/ (p = initproc /\ \E q \in Slots : pc[q] = "wakeinit" /\ wscan[q] = 1)

\* A child that has passed its parent in wakeup() finds it awake until it is a zombie.
PassedAwake == \A p, q \in Slots : PassedParent(q) /\ parent[q] = p => ~Asleep(p)

SleepInv == ScanInv /\ SleeperHasKids /\ SleeperMissedNone /\ PassedAwake

\* A pid belongs to one slot and is below nextpid, and only a slot in use is killed
\* (kill(0), which user programs have no reason to call, would match a free one).
Allocating == {q \in Slots : pc[q] = "allocproc"}
PidInv ==
    /\ \A s \in Slots : IF state[s] = "UNUSED" THEN pid[s] = 0 ELSE pid[s] \in 1 .. nextpid - 1
    /\ \A s, t \in Slots : state[s] # "UNUSED" /\ pid[s] = pid[t] => s = t
    /\ nextpid + Cardinality(Allocating) <= MaxPid + 1
    /\ 0 \notin KillPids => \A s \in Slots : killed[s] => state[s] # "UNUSED"

IInv == /\ LocksHeld /\ StackInUse /\ CpuInv /\ LabelInv /\ ForkInv /\ InitStays /\ ParentInv
        /\ SleepInv /\ PidInv

\* An orphan that exited is reaped: kexit() wakes init, and init waits for ever.
ZombieReaped == \A s \in Slots :
    state[s] = "ZOMBIE" /\ parent[s] = initproc ~> state[s] # "ZOMBIE"

\* A killed process that runs user code exits: usertrap() tests p->killed at the
\* next timer interrupt at the latest, and kexit() waits for nobody for ever.
KilledUserExits == \A s \in Slots :
    killed[s] /\ pc[s] = "user" /\ state[s] # "UNUSED" ~> state[s] = "ZOMBIE"

(***************************************************************************)
(* What user programs see.  A child is born when allocproc() gives it a    *)
(* pid; its parent is the process that forks it even before kfork() has    *)
(* written np->parent.                                                     *)
(***************************************************************************)
Pids == 1 .. MaxPid

SlotsOf(k) == {s \in Slots : pid[s] = k /\ state[s] # "UNUSED"}

StatusOf(k) ==
    LET slots == SlotsOf(k)
    IN  IF k >= nextpid THEN "none"
        ELSE IF slots = {} THEN "gone"
        ELSE IF \E s \in slots : state[s] = "ZOMBIE" THEN "dead"
        ELSE IF \E s \in slots : pc[s] \in Exiting THEN "exiting"
        ELSE "alive"

ParentOf(k) ==
    LET slots == SlotsOf(k)
        parents == {q \in Slots : \E s \in slots : parent[s] = q \/ child[q] = s}
    IN  IF parents = {} THEN 0 ELSE pid[CHOOSE q \in parents : TRUE]

\* The argument of the kill() that s is in, and whether its scan has passed the
\* slot of that pid (given out since, or the scan would have ended there).
Asking(s) == IF state[s] # "UNUSED" /\ pc[s] = "kill" THEN target[s] ELSE 0
Passed(s) ==
    /\ Asking(s) # 0
    /\ \E t \in Slots : state[t] # "UNUSED" /\ pid[t] = Asking(s) /\ t < scan[s]

AskedOf(k) ==
    LET slots == SlotsOf(k)
    IN  IF slots = {} THEN 0 ELSE Asking(CHOOSE s \in slots : TRUE)

family == INSTANCE Family WITH
    Names <- KillPids,
    InitPid <- 1,
    NoPid <- 0,
    status <- [k \in Pids |-> StatusOf(k)],
    parent <- [k \in Pids |-> ParentOf(k)],
    doomed <- {pid[s] : s \in {q \in Slots : killed[q]}},
    asked <- [k \in Pids |-> AskedOf(k)],
    missed <- {pid[s] : s \in {q \in Slots : Passed(q)}}

\* proc.c implements the promises of Family: pids are not reused, an exited
\* child is waited for exactly once and by its parent, no process is left with
\* an exited parent, and a kill() marks the process its caller named and no
\* other, although slots are freed and given out again during its scan, and does
\* not miss one that is there from the call to the return.
ImplementsFamily == family!Spec


\* p->lock is held exactly where the code says, also across swtch(), and so no
\* kernel stack is in use twice or freed in use.
StackInv == TypeOK /\ IInv

\* What must happen in the end: init reaps orphans, killed user code exits.
ProcProgress == ZombieReaped /\ KilledUserExits
====
