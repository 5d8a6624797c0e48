----------------------------- MODULE ProcProofs -----------------------------
(***************************************************************************)
(* Proofs about Proc: for any number of processes and CPUs, no kernel      *)
(* stack is in use twice or freed in use, no sleeping parent has missed a  *)
(* zombie child, every process has a parent that can still wait for it,    *)
(* and fork(), exit(), wait() and kill() implement Family.                 *)
(***************************************************************************)
EXTENDS Proc, FiniteSetTheorems, TLAPS

LEMMA SlotFacts ==
  /\ initproc \in Slots /\ NoProc \notin Slots
  /\ 1 \in Locals /\ Slots \subseteq Locals
  /\ \A i \in Slots : i + 1 \in Locals
  BY ProcAssumption DEF Slots, Locals, initproc, NoProc

\* The comparisons of a loop index j with a slot i.
LEMMA Order ==
  ASSUME NEW i \in Slots, NEW j \in Locals
  PROVE  /\ 1 <= i /\ ~(i < 1) /\ (j > NPROC => i < j)
         /\ (i < j + 1 <=> i < j \/ i = j) /\ (j <= i <=> j < i \/ i = j) /\ ~(i < i)
         /\ (j + 1 <= i <=> j < i) /\ ~(i < j /\ j < i)
  BY ProcAssumption DEF Slots, Locals

-----------------------------------------------------------------------------
(* The steps of Next by the function of proc.c or trap.c they belong to.   *)

Traps(c) ==
    \/ kerneltrap(c) \/ usertrap_timer(c) \/ usertrap_killed(c) \/ usertrap_return(c)
    \/ usertrap_fault(c)
Calls(c) ==
    \/ sys_fork(c) \/ sys_exit(c) \/ sys_wait(c) \/ (\E k \in KillPids : sys_kill(c, k))
Allocs(c) ==
    \/ allocproc_next(c) \/ allocproc_found(c) \/ allocproc_nomem(c) \/ allocproc_full(c)
Forks(c) ==
    \/ fork_parent(c) \/ fork_run(c)
Exits(c) ==
    \/ kexit(c) \/ reparent(c) \/ reparent_done(c) \/ exit_zombie(c)
Wakeups(c) ==
    \/ wakeup_init(c) \/ wakeup_init_done(c) \/ wakeup_parent(c) \/ wakeup_parent_done(c)
Waits(c) ==
    \/ kwait(c) \/ wait_next(c) \/ wait_reap(c) \/ wait_check(c) \/ sleep(c)
    \/ sleep_sched(c)
Kills(c) ==
    \/ kkill(c) \/ kkill_next(c) \/ kkill_none(c)
InProcess(c) ==
    \/ Traps(c) \/ Calls(c) \/ Allocs(c) \/ Forks(c)
    \/ Exits(c) \/ Wakeups(c) \/ Waits(c) \/ Kills(c)

LEMMA NextSplit ==
  Next => \E c \in CPUs : (\E s \in Slots : scheduler(c, s)) \/ swtch(c) \/ InProcess(c)
  BY DEF Next, KernelStep, UserStep, InProcess, Traps, Calls, Allocs, Forks, Exits, Wakeups, Waits, Kills

\* A CPU that executes a process has it RUNNING.
LEMMA Running ==
  ASSUME TypeOK, IInv, NEW c \in CPUs, InProcess(c)
  PROVE  proc[c] \in Slots /\ ~switching[c] /\ state[proc[c]] = "RUNNING"
<1>1. proc[c] # NoProc /\ ~switching[c]
  BY DEF InProcess, Traps, Calls, Allocs, Forks, Exits, Wakeups, Waits, Kills, kerneltrap, usertrap_timer,
         usertrap_killed, usertrap_return, usertrap_fault, sys_fork, sys_exit, sys_wait,
         sys_kill, allocproc_next, allocproc_found, allocproc_nomem, allocproc_full,
         fork_parent, fork_run, kexit, reparent, reparent_done, exit_zombie, wakeup_init,
         wakeup_init_done, wakeup_parent, wakeup_parent_done, kwait, wait_next, wait_reap,
         wait_check, sleep, sleep_sched, kkill, kkill_next, kkill_none, syscall, CheckKilled, At
<1>2. QED
  BY <1>1 DEF IInv, CpuInv, TypeOK

\* wait_lock excludes: at most one process is inside, and it is RUNNING; a process
\* inside sleep() holds its own lock.
LEMMA OneInside ==
  ASSUME TypeOK, IInv
  PROVE  /\ \A p, q \in Slots : state[p] = "RUNNING" /\ pc[p] \in InWaitLock
                              /\ state[q] = "RUNNING" /\ pc[q] \in InWaitLock => p = q
         /\ \A p \in Slots : state[p] = "RUNNING" /\ pc[p] \in InWaitLock => wait_lock # NoCpu
         /\ \A p \in Slots : pc[p] \in InWaitLock /\ pc[p] # "zombie" => state[p] = "RUNNING"
         /\ \A p \in Slots : pc[p] = "sleep_locked" => ~Free(p) /\ state[p] = "RUNNING"
<1>1. ASSUME NEW p \in Slots, state[p] = "RUNNING"
      PROVE  \E c \in CPUs : At(c, pc[p]) /\ proc[c] = p
  BY <1>1, SlotFacts DEF IInv, CpuInv, At
<1>2. ASSUME NEW p \in Slots, state[p] = "RUNNING", pc[p] \in InWaitLock
      PROVE  wait_lock \in CPUs /\ proc[wait_lock] = p
  BY <1>1, <1>2 DEF IInv, LocksHeld
<1>3. ASSUME NEW p \in Slots, state[p] # "RUNNING"
      PROVE  pc[p] \in Preemptible \cup {"user", "zombie"}
  BY <1>3 DEF IInv, LabelInv, TypeOK, States, Preemptible
<1>4. ASSUME NEW p \in Slots, pc[p] = "sleep_locked" PROVE ~Free(p) /\ state[p] = "RUNNING"
  <2>1. state[p] = "RUNNING"
    BY <1>3, <1>4 DEF Preemptible
  <2>2. QED
    BY <1>1, <1>4, <2>1, ProcAssumption DEF IInv, LocksHeld, Free
<1>5. ASSUME NEW p \in Slots, pc[p] \in InWaitLock, pc[p] # "zombie" PROVE state[p] = "RUNNING"
  BY <1>3, <1>5 DEF Preemptible, InWaitLock
<1>6. QED
  BY <1>2, <1>4, <1>5, ProcAssumption

-----------------------------------------------------------------------------
\* Types.
LEMMA TypeOKStep ==
  ASSUME TypeOK, IInv, NEW c \in CPUs,
         (\E s \in Slots : scheduler(c, s)) \/ swtch(c) \/ InProcess(c)
  PROVE  TypeOK'
<1> USE SlotFacts, ProcAssumption DEF IInv, TypeOK, Free, Goto, At, fields, locals
<1>1. CASE \E s \in Slots : scheduler(c, s)
  BY <1>1 DEF States, PC, LabelInv, scheduler
<1>2. CASE swtch(c)
  BY <1>2 DEF States, PC, LabelInv, swtch
<1>3. CASE InProcess(c)
  <2>0. PICK p \in Slots : p = proc[c] /\ ~switching[c] /\ state[p] = "RUNNING"
    BY <1>3, Running
  <2>1. CASE Traps(c)
    <3>1. CASE kerneltrap(c)
      BY <2>0, <3>1 DEF States, PC, LabelInv, kerneltrap, yield, sched, Preemptible
    <3>2. CASE usertrap_timer(c)
      BY <2>0, <3>2 DEF States, PC, LabelInv, usertrap_timer, yield, sched
    <3>3. CASE usertrap_killed(c)
      BY <2>0, <3>3 DEF States, PC, LabelInv, usertrap_killed, CheckKilled
    <3>4. CASE usertrap_return(c)
      BY <2>0, <3>4 DEF States, PC, LabelInv, usertrap_return
    <3>5. CASE usertrap_fault(c)
      BY <2>0, <3>5 DEF States, PC, LabelInv, usertrap_fault
    <3>6. QED
      BY <2>1, <3>1, <3>2, <3>3, <3>4, <3>5 DEF Traps
  <2>2. CASE Calls(c)
    <3>1. CASE sys_fork(c)
      BY <2>0, <3>1 DEF States, PC, LabelInv, sys_fork, syscall
    <3>2. CASE sys_exit(c)
      BY <2>0, <3>2 DEF States, PC, LabelInv, sys_exit, syscall
    <3>3. CASE sys_wait(c)
      BY <2>0, <3>3 DEF States, PC, LabelInv, sys_wait, syscall
    <3>4. CASE (\E k \in KillPids : sys_kill(c, k))
      BY <2>0, <3>4 DEF States, PC, LabelInv, sys_kill, syscall
    <3>5. QED
      BY <2>2, <3>1, <3>2, <3>3, <3>4 DEF Calls
  <2>3. CASE Allocs(c)
    <3>1. CASE allocproc_next(c)
      BY <2>0, <3>1 DEF States, PC, LabelInv, allocproc_next
    <3>2. CASE allocproc_found(c)
      BY <2>0, <3>2 DEF States, PC, LabelInv, allocproc_found
    <3>3. CASE allocproc_nomem(c)
      BY <2>0, <3>3 DEF States, PC, LabelInv, allocproc_nomem, freeproc
    <3>4. CASE allocproc_full(c)
      BY <2>0, <3>4 DEF States, PC, LabelInv, allocproc_full
    <3>5. QED
      BY <2>3, <3>1, <3>2, <3>3, <3>4 DEF Allocs
  <2>4. CASE Forks(c)
    <3>1. CASE fork_parent(c)
      BY <2>0, <3>1 DEF States, PC, LabelInv, fork_parent
    <3>2. CASE fork_run(c)
      BY <2>0, <3>2 DEF States, PC, LabelInv, fork_run
    <3>3. QED
      BY <2>4, <3>1, <3>2 DEF Forks
  <2>5. CASE Exits(c)
    <3>1. CASE kexit(c)
      BY <2>0, <3>1 DEF States, PC, LabelInv, kexit
    <3>2. CASE reparent(c)
      BY <2>0, <3>2 DEF States, PC, LabelInv, reparent, Adopt
    <3>3. CASE reparent_done(c)
      BY <2>0, <3>3 DEF States, PC, LabelInv, reparent_done
    <3>4. CASE exit_zombie(c)
      BY <2>0, <3>4 DEF States, PC, LabelInv, exit_zombie, sched
    <3>5. QED
      BY <2>5, <3>1, <3>2, <3>3, <3>4 DEF Exits
  <2>6. CASE Wakeups(c)
    <3>1. CASE wakeup_init(c)
      BY <2>0, <3>1 DEF States, PC, LabelInv, wakeup_init, wakeup, Wake
    <3>2. CASE wakeup_init_done(c)
      BY <2>0, <3>2 DEF States, PC, LabelInv, wakeup_init_done
    <3>3. CASE wakeup_parent(c)
      BY <2>0, <3>3 DEF States, PC, LabelInv, wakeup_parent, wakeup, Wake
    <3>4. CASE wakeup_parent_done(c)
      BY <2>0, <3>4 DEF States, PC, LabelInv, wakeup_parent_done
    <3>5. QED
      BY <2>6, <3>1, <3>2, <3>3, <3>4 DEF Wakeups
  <2>7. CASE Waits(c)
    <3>1. CASE kwait(c)
      BY <2>0, <3>1 DEF States, PC, LabelInv, kwait
    <3>2. CASE wait_next(c)
      BY <2>0, <3>2 DEF States, PC, LabelInv, wait_next, ChildOffCpu
    <3>3. CASE wait_reap(c)
      <4>1. PICK s \in Slots : s = scan[p]
        BY <2>0, <3>3 DEF wait_reap
      <4>2. state' \in [Slots -> States] /\ chan' \in [Slots -> Slots \cup {NoProc}]
        BY <2>0, <3>3, <4>1 DEF wait_reap, freeproc, States
      <4>3. /\ killed' \in [Slots -> BOOLEAN] /\ pid' \in [Slots -> Nat]
            /\ parent' \in [Slots -> Slots \cup {NoProc}]
        <5>1. CASE freeproc(s)
          BY <4>1, <5>1 DEF freeproc
        <5>2. CASE UNCHANGED <<killed, pid, parent>>
          BY <5>2
        <5>3. QED
          BY <2>0, <3>3, <4>1, <5>1, <5>2 DEF wait_reap
      <4>4. QED
        BY <2>0, <3>3, <4>2, <4>3 DEF wait_reap, PC
    <3>4. CASE wait_check(c)
      BY <2>0, <3>4 DEF States, PC, LabelInv, wait_check, HaveKids
    <3>5. CASE sleep(c)
      BY <2>0, <3>5 DEF States, PC, LabelInv, sleep, hold_lock
    <3>6. CASE sleep_sched(c)
      BY <2>0, <3>6 DEF States, PC, LabelInv, sleep_sched, sched
    <3>7. QED
      BY <2>7, <3>1, <3>2, <3>3, <3>4, <3>5, <3>6 DEF Waits
  <2>8. CASE Kills(c)
    <3>1. CASE kkill(c)
      BY <2>0, <3>1 DEF States, PC, LabelInv, kkill
    <3>2. CASE kkill_next(c)
      BY <2>0, <3>2 DEF States, PC, LabelInv, kkill_next
    <3>3. CASE kkill_none(c)
      BY <2>0, <3>3 DEF States, PC, LabelInv, kkill_none
    <3>4. QED
      BY <2>8, <3>1, <3>2, <3>3 DEF Kills
  <2>9. QED
    BY <1>3, <2>1, <2>2, <2>3, <2>4, <2>5, <2>6, <2>7, <2>8 DEF InProcess
<1>4. QED
  BY <1>1, <1>2, <1>3

\* wait_lock and the p->lock that are held across steps are with the right CPUs.
LEMMA LocksHeldStep ==
  ASSUME TypeOK, IInv, NEW c \in CPUs,
         (\E s \in Slots : scheduler(c, s)) \/ swtch(c) \/ InProcess(c)
  PROVE  LocksHeld'
<1> USE SlotFacts, ProcAssumption DEF IInv, TypeOK, Free, Goto, At, fields, locals
<1>1. CASE \E s \in Slots : scheduler(c, s)
  BY <1>1 DEF LocksHeld, InWaitLock, CpuInv, LabelInv, StackInUse, Preemptible, scheduler
<1>2. CASE swtch(c)
  BY <1>2 DEF LocksHeld, InWaitLock, CpuInv, LabelInv, StackInUse, Preemptible, swtch
<1>3. CASE InProcess(c)
  <2>0. PICK p \in Slots : p = proc[c] /\ ~switching[c] /\ state[p] = "RUNNING"
    BY <1>3, Running
  <2>1. CASE Traps(c)
    BY <2>0, <2>1 DEF LocksHeld, InWaitLock, CpuInv, LabelInv, StackInUse, Preemptible, Traps, kerneltrap,
        usertrap_timer, usertrap_killed, usertrap_return, usertrap_fault, yield, sched,
        CheckKilled
  <2>2. CASE Calls(c)
    BY <2>0, <2>2 DEF LocksHeld, InWaitLock, CpuInv, LabelInv, StackInUse, Preemptible, Calls, sys_fork,
        sys_exit, sys_wait, sys_kill, syscall
  <2>3. CASE Allocs(c)
    BY <2>0, <2>3 DEF LocksHeld, InWaitLock, CpuInv, LabelInv, StackInUse, Preemptible, Allocs,
        allocproc_next, allocproc_found, allocproc_nomem, allocproc_full, freeproc
  <2>4. CASE Forks(c)
    BY <2>0, <2>4 DEF LocksHeld, InWaitLock, CpuInv, LabelInv, StackInUse, Preemptible, Forks, fork_parent,
        fork_run
  <2>5. CASE Exits(c)
    BY <2>0, <2>5 DEF LocksHeld, InWaitLock, CpuInv, LabelInv, StackInUse, Preemptible, Exits, kexit,
        reparent, reparent_done, exit_zombie, Adopt, sched
  <2>6. CASE Wakeups(c)
    BY <2>0, <2>6 DEF LocksHeld, InWaitLock, CpuInv, LabelInv, StackInUse, Preemptible, Wakeups, wakeup_init,
        wakeup_init_done, wakeup_parent, wakeup_parent_done, wakeup, Wake
  <2>7. CASE Waits(c)
    BY <2>0, <2>7 DEF LocksHeld, InWaitLock, CpuInv, LabelInv, StackInUse, Preemptible, Waits, kwait,
        wait_next, wait_reap, wait_check, sleep, sleep_sched, ChildOffCpu, freeproc, HaveKids,
        hold_lock, sched
  <2>8. CASE Kills(c)
    BY <2>0, <2>8 DEF LocksHeld, InWaitLock, CpuInv, LabelInv, StackInUse, Preemptible, Kills, kkill,
        kkill_next, kkill_none
  <2>9. QED
    BY <1>3, <2>1, <2>2, <2>3, <2>4, <2>5, <2>6, <2>7, <2>8 DEF InProcess
<1>4. QED
  BY <1>1, <1>2, <1>3

\* No kernel stack is used twice or after it was freed.
LEMMA StackInUseStep ==
  ASSUME TypeOK, IInv, NEW c \in CPUs,
         (\E s \in Slots : scheduler(c, s)) \/ swtch(c) \/ InProcess(c)
  PROVE  StackInUse'
<1> USE SlotFacts, ProcAssumption DEF IInv, TypeOK, Free, Goto, At, fields, locals
<1>1. CASE \E s \in Slots : scheduler(c, s)
  BY <1>1 DEF StackInUse, LocksHeld, CpuInv, LabelInv, scheduler
<1>2. CASE swtch(c)
  BY <1>2 DEF StackInUse, LocksHeld, CpuInv, LabelInv, swtch
<1>3. CASE InProcess(c)
  <2>0. PICK p \in Slots : p = proc[c] /\ ~switching[c] /\ state[p] = "RUNNING"
    BY <1>3, Running
  <2>1. CASE Traps(c)
    BY <2>0, <2>1 DEF StackInUse, LocksHeld, CpuInv, LabelInv, Traps, kerneltrap, usertrap_timer,
        usertrap_killed, usertrap_return, usertrap_fault, yield, sched, Preemptible, CheckKilled
  <2>2. CASE Calls(c)
    BY <2>0, <2>2 DEF StackInUse, LocksHeld, CpuInv, LabelInv, Calls, sys_fork, sys_exit, sys_wait, sys_kill,
        syscall
  <2>3. CASE Allocs(c)
    BY <2>0, <2>3 DEF StackInUse, LocksHeld, CpuInv, LabelInv, Allocs, allocproc_next, allocproc_found,
        allocproc_nomem, allocproc_full, freeproc
  <2>4. CASE Forks(c)
    BY <2>0, <2>4 DEF StackInUse, LocksHeld, CpuInv, LabelInv, Forks, fork_parent, fork_run
  <2>5. CASE Exits(c)
    BY <2>0, <2>5 DEF StackInUse, LocksHeld, CpuInv, LabelInv, Exits, kexit, reparent, reparent_done,
        exit_zombie, Adopt, sched
  <2>6. CASE Wakeups(c)
    BY <2>0, <2>6 DEF StackInUse, LocksHeld, CpuInv, LabelInv, Wakeups, wakeup_init, wakeup_init_done,
        wakeup_parent, wakeup_parent_done, wakeup, Wake
  <2>7. CASE Waits(c)
    BY <2>0, <2>7 DEF StackInUse, LocksHeld, CpuInv, LabelInv, Waits, kwait, wait_next, wait_reap,
        wait_check, sleep, sleep_sched, ChildOffCpu, freeproc, HaveKids, hold_lock, sched
  <2>8. CASE Kills(c)
    BY <2>0, <2>8 DEF StackInUse, LocksHeld, CpuInv, LabelInv, Kills, kkill, kkill_next, kkill_none
  <2>9. QED
    BY <1>3, <2>1, <2>2, <2>3, <2>4, <2>5, <2>6, <2>7, <2>8 DEF InProcess
<1>4. QED
  BY <1>1, <1>2, <1>3

\* RUNNING processes are the ones on a CPU.
LEMMA CpuInvStep ==
  ASSUME TypeOK, IInv, NEW c \in CPUs,
         (\E s \in Slots : scheduler(c, s)) \/ swtch(c) \/ InProcess(c)
  PROVE  CpuInv'
<1> USE SlotFacts, ProcAssumption DEF IInv, TypeOK, Free, Goto, At, fields, locals
<1>1. CASE \E s \in Slots : scheduler(c, s)
  BY <1>1 DEF CpuInv, LocksHeld, StackInUse, ForkInv, Forking, scheduler
<1>2. CASE swtch(c)
  BY <1>2 DEF CpuInv, LocksHeld, StackInUse, ForkInv, Forking, swtch
<1>3. CASE InProcess(c)
  <2>0. PICK p \in Slots : p = proc[c] /\ ~switching[c] /\ state[p] = "RUNNING"
    BY <1>3, Running
  <2>1. CASE Traps(c)
    BY <2>0, <2>1 DEF CpuInv, LocksHeld, StackInUse, ForkInv, Forking, Traps, kerneltrap, usertrap_timer,
        usertrap_killed, usertrap_return, usertrap_fault, yield, sched, Preemptible, CheckKilled
  <2>2. CASE Calls(c)
    BY <2>0, <2>2 DEF CpuInv, LocksHeld, StackInUse, ForkInv, Forking, Calls, sys_fork, sys_exit, sys_wait,
        sys_kill, syscall
  <2>3. CASE Allocs(c)
    BY <2>0, <2>3 DEF CpuInv, LocksHeld, StackInUse, ForkInv, Forking, Allocs, allocproc_next,
        allocproc_found, allocproc_nomem, allocproc_full, freeproc
  <2>4. CASE Forks(c)
    BY <2>0, <2>4 DEF CpuInv, LocksHeld, StackInUse, ForkInv, Forking, Forks, fork_parent, fork_run
  <2>5. CASE Exits(c)
    <3>1. CASE kexit(c) \/ reparent(c) \/ reparent_done(c)
      <4>1. UNCHANGED <<state, proc, switching>>
        BY <3>1 DEF kexit, reparent, reparent_done
      <4>2. QED
        BY <4>1 DEF CpuInv
    <3>2. CASE exit_zombie(c)
      BY <2>0, <3>2 DEF CpuInv, StackInUse, exit_zombie, sched
    <3>3. QED
      BY <2>5, <3>1, <3>2 DEF Exits
  <2>6. CASE Wakeups(c)
    BY <2>0, <2>6 DEF CpuInv, LocksHeld, StackInUse, ForkInv, Forking, Wakeups, wakeup_init,
        wakeup_init_done, wakeup_parent, wakeup_parent_done, wakeup, Wake
  <2>7. CASE Waits(c)
    BY <2>0, <2>7 DEF CpuInv, LocksHeld, StackInUse, ForkInv, Forking, Waits, kwait, wait_next, wait_reap,
        wait_check, sleep, sleep_sched, ChildOffCpu, freeproc, HaveKids, hold_lock, sched
  <2>8. CASE Kills(c)
    BY <2>0, <2>8 DEF CpuInv, LocksHeld, StackInUse, ForkInv, Forking, Kills, kkill, kkill_next, kkill_none
  <2>9. QED
    BY <1>3, <2>1, <2>2, <2>3, <2>4, <2>5, <2>6, <2>7, <2>8 DEF InProcess
<1>4. QED
  BY <1>1, <1>2, <1>3

\* Where a process can be in each state.
LEMMA LabelInvStep ==
  ASSUME TypeOK, IInv, NEW c \in CPUs,
         (\E s \in Slots : scheduler(c, s)) \/ swtch(c) \/ InProcess(c)
  PROVE  LabelInv'
<1> USE SlotFacts, ProcAssumption DEF IInv, TypeOK, Free, Goto, At, fields, locals
<1>1. CASE \E s \in Slots : scheduler(c, s)
  BY <1>1 DEF LabelInv, Preemptible, CpuInv, ForkInv, Forking, scheduler
<1>2. CASE swtch(c)
  BY <1>2 DEF LabelInv, Preemptible, CpuInv, ForkInv, Forking, swtch
<1>3. CASE InProcess(c)
  <2>0. PICK p \in Slots : p = proc[c] /\ ~switching[c] /\ state[p] = "RUNNING"
    BY <1>3, Running
  <2>1. CASE Traps(c)
    BY <2>0, <2>1 DEF LabelInv, Preemptible, CpuInv, ForkInv, Forking, Traps, kerneltrap, usertrap_timer,
        usertrap_killed, usertrap_return, usertrap_fault, yield, sched, CheckKilled
  <2>2. CASE Calls(c)
    BY <2>0, <2>2 DEF LabelInv, Preemptible, CpuInv, ForkInv, Forking, Calls, sys_fork, sys_exit, sys_wait,
        sys_kill, syscall
  <2>3. CASE Allocs(c)
    BY <2>0, <2>3 DEF LabelInv, Preemptible, CpuInv, ForkInv, Forking, Allocs, allocproc_next,
        allocproc_found, allocproc_nomem, allocproc_full, freeproc
  <2>4. CASE Forks(c)
    <3>1. CASE fork_parent(c)
      BY <2>0, <3>1 DEF LabelInv, Preemptible, CpuInv, ForkInv, Forking, fork_parent
    <3>2. CASE fork_run(c)
      BY <2>0, <3>2 DEF LabelInv, Preemptible, CpuInv, ForkInv, Forking, fork_run
    <3>3. QED
      BY <2>4, <3>1, <3>2 DEF Forks
  <2>5. CASE Exits(c)
    BY <2>0, <2>5 DEF LabelInv, Preemptible, CpuInv, ForkInv, Forking, Exits, kexit, reparent, reparent_done,
        exit_zombie, Adopt, sched
  <2>6. CASE Wakeups(c)
    BY <2>0, <2>6 DEF LabelInv, Preemptible, CpuInv, ForkInv, Forking, Wakeups, wakeup_init,
        wakeup_init_done, wakeup_parent, wakeup_parent_done, wakeup, Wake
  <2>7. CASE Waits(c)
    BY <2>0, <2>7 DEF LabelInv, Preemptible, CpuInv, ForkInv, Forking, Waits, kwait, wait_next, wait_reap,
        wait_check, sleep, sleep_sched, ChildOffCpu, freeproc, HaveKids, hold_lock, sched
  <2>8. CASE Kills(c)
    BY <2>0, <2>8 DEF LabelInv, Preemptible, CpuInv, ForkInv, Forking, Kills, kkill, kkill_next, kkill_none
  <2>9. QED
    BY <1>3, <2>1, <2>2, <2>3, <2>4, <2>5, <2>6, <2>7, <2>8 DEF InProcess
<1>4. QED
  BY <1>1, <1>2, <1>3

\* The slot that a fork fills in.
LEMMA ForkInvStep ==
  ASSUME TypeOK, IInv, NEW c \in CPUs,
         (\E s \in Slots : scheduler(c, s)) \/ swtch(c) \/ InProcess(c)
  PROVE  ForkInv'
<1> USE SlotFacts, ProcAssumption DEF IInv, TypeOK, Free, Goto, At, fields, locals
<1>1. CASE \E s \in Slots : scheduler(c, s)
  BY <1>1 DEF ForkInv, Forking, LabelInv, Preemptible, ParentInv, Live, scheduler
<1>2. CASE swtch(c)
  BY <1>2 DEF ForkInv, Forking, LabelInv, Preemptible, ParentInv, Live, swtch
<1>3. CASE InProcess(c)
  <2>0. PICK p \in Slots : p = proc[c] /\ ~switching[c] /\ state[p] = "RUNNING"
    BY <1>3, Running
  <2>1. CASE Traps(c)
    BY <2>0, <2>1 DEF ForkInv, Forking, LabelInv, Preemptible, ParentInv, Live, Traps, kerneltrap,
        usertrap_timer, usertrap_killed, usertrap_return, usertrap_fault, yield, sched,
        CheckKilled
  <2>2. CASE Calls(c)
    BY <2>0, <2>2 DEF ForkInv, Forking, LabelInv, Preemptible, ParentInv, Live, Calls, sys_fork, sys_exit,
        sys_wait, sys_kill, syscall
  <2>3. CASE Allocs(c)
    <3>1. CASE allocproc_next(c)
      BY <2>0, <3>1 DEF ForkInv, Forking, LabelInv, Preemptible, ParentInv, Live, allocproc_next
    <3>2. CASE allocproc_found(c)
      BY <2>0, <3>2 DEF ForkInv, Forking, LabelInv, Preemptible, ParentInv, Live, allocproc_found
    <3>3. CASE allocproc_nomem(c)
      BY <2>0, <3>3 DEF ForkInv, Forking, LabelInv, Preemptible, ParentInv, Live, allocproc_nomem, freeproc
    <3>4. CASE allocproc_full(c)
      BY <2>0, <3>4 DEF ForkInv, Forking, LabelInv, Preemptible, ParentInv, Live, allocproc_full
    <3>5. QED
      BY <2>3, <3>1, <3>2, <3>3, <3>4 DEF Allocs
  <2>4. CASE Forks(c)
    <3>1. CASE fork_parent(c)
      BY <2>0, <3>1 DEF ForkInv, Forking, LabelInv, Preemptible, ParentInv, Live, fork_parent
    <3>2. CASE fork_run(c)
      BY <2>0, <3>2 DEF ForkInv, Forking, LabelInv, Preemptible, ParentInv, Live, fork_run
    <3>3. QED
      BY <2>4, <3>1, <3>2 DEF Forks
  <2>5. CASE Exits(c)
    BY <2>0, <2>5 DEF ForkInv, Forking, LabelInv, Preemptible, ParentInv, Live, Exits, kexit, reparent,
        reparent_done, exit_zombie, Adopt, sched
  <2>6. CASE Wakeups(c)
    BY <2>0, <2>6 DEF ForkInv, Forking, LabelInv, Preemptible, ParentInv, Live, Wakeups, wakeup_init,
        wakeup_init_done, wakeup_parent, wakeup_parent_done, wakeup, Wake
  <2>7. CASE Waits(c)
    <3>1. CASE kwait(c)
      BY <2>0, <3>1 DEF ForkInv, Forking, LabelInv, Preemptible, ParentInv, Live, kwait
    <3>2. CASE wait_next(c)
      BY <2>0, <3>2 DEF ForkInv, Forking, LabelInv, Preemptible, ParentInv, Live, wait_next, ChildOffCpu
    <3>3. CASE wait_reap(c)
      BY <2>0, <3>3 DEF ForkInv, Forking, LabelInv, Preemptible, ParentInv, Live, wait_reap, freeproc,
          ChildOffCpu
    <3>4. CASE wait_check(c)
      BY <2>0, <3>4 DEF ForkInv, Forking, LabelInv, Preemptible, ParentInv, Live, wait_check, HaveKids
    <3>5. CASE sleep(c)
      BY <2>0, <3>5 DEF ForkInv, Forking, LabelInv, Preemptible, ParentInv, Live, sleep, hold_lock
    <3>6. CASE sleep_sched(c)
      BY <2>0, <3>6 DEF ForkInv, Forking, LabelInv, Preemptible, ParentInv, Live, sleep_sched, sched
    <3>7. QED
      BY <2>7, <3>1, <3>2, <3>3, <3>4, <3>5, <3>6 DEF Waits
  <2>8. CASE Kills(c)
    <3>1. CASE kkill(c)
      BY <2>0, <3>1 DEF ForkInv, Forking, LabelInv, Preemptible, ParentInv, Live, kkill
    <3>2. CASE kkill_next(c)
      BY <2>0, <3>2 DEF ForkInv, Forking, LabelInv, Preemptible, ParentInv, Live, kkill_next
    <3>3. CASE kkill_none(c)
      BY <2>0, <3>3 DEF ForkInv, Forking, LabelInv, Preemptible, ParentInv, Live, kkill_none
    <3>4. QED
      BY <2>8, <3>1, <3>2, <3>3 DEF Kills
  <2>9. QED
    BY <1>3, <2>1, <2>2, <2>3, <2>4, <2>5, <2>6, <2>7, <2>8 DEF InProcess
<1>4. QED
  BY <1>1, <1>2, <1>3

\* init is neither killed nor exits.
LEMMA InitStaysStep ==
  ASSUME TypeOK, IInv, NEW c \in CPUs,
         (\E s \in Slots : scheduler(c, s)) \/ swtch(c) \/ InProcess(c)
  PROVE  InitStays'
<1> USE SlotFacts, ProcAssumption DEF IInv, TypeOK, Free, Goto, At, fields, locals
<1>1. CASE \E s \in Slots : scheduler(c, s)
  BY <1>1 DEF InitStays, Live, Exiting, scheduler
<1>2. CASE swtch(c)
  BY <1>2 DEF InitStays, Live, Exiting, swtch
<1>3. CASE InProcess(c)
  <2>0. PICK p \in Slots : p = proc[c] /\ ~switching[c] /\ state[p] = "RUNNING"
    BY <1>3, Running
  <2>1. CASE Traps(c)
    BY <2>0, <2>1 DEF InitStays, Live, Exiting, Traps, kerneltrap, usertrap_timer, usertrap_killed,
        usertrap_return, usertrap_fault, yield, sched, Preemptible, CheckKilled
  <2>2. CASE Calls(c)
    BY <2>0, <2>2 DEF InitStays, Live, Exiting, Calls, sys_fork, sys_exit, sys_wait, sys_kill, syscall
  <2>3. CASE Allocs(c)
    BY <2>0, <2>3 DEF InitStays, Live, Exiting, Allocs, allocproc_next, allocproc_found, allocproc_nomem,
        allocproc_full, freeproc
  <2>4. CASE Forks(c)
    BY <2>0, <2>4 DEF InitStays, Live, Exiting, Forks, fork_parent, fork_run
  <2>5. CASE Exits(c)
    BY <2>0, <2>5 DEF InitStays, Live, Exiting, Exits, kexit, reparent, reparent_done, exit_zombie, Adopt,
        sched
  <2>6. CASE Wakeups(c)
    BY <2>0, <2>6 DEF InitStays, Live, Exiting, Wakeups, wakeup_init, wakeup_init_done, wakeup_parent,
        wakeup_parent_done, wakeup, Wake
  <2>7. CASE Waits(c)
    BY <2>0, <2>7 DEF InitStays, Live, Exiting, Waits, kwait, wait_next, wait_reap, wait_check, sleep,
        sleep_sched, ChildOffCpu, freeproc, HaveKids, hold_lock, sched
  <2>8. CASE Kills(c)
    BY <2>0, <2>8 DEF InitStays, Live, Exiting, Kills, kkill, kkill_next, kkill_none
  <2>9. QED
    BY <1>3, <2>1, <2>2, <2>3, <2>4, <2>5, <2>6, <2>7, <2>8 DEF InProcess
<1>4. QED
  BY <1>1, <1>2, <1>3

\* Parents are alive.
LEMMA ParentInvStep ==
  ASSUME TypeOK, IInv, NEW c \in CPUs,
         (\E s \in Slots : scheduler(c, s)) \/ swtch(c) \/ InProcess(c)
  PROVE  ParentInv'
<1> USE SlotFacts, ProcAssumption, Order DEF IInv, TypeOK, Free, Goto, At, fields, locals
<1>1. CASE \E s \in Slots : scheduler(c, s)
  BY <1>1 DEF ParentInv, Live, ForkInv, InitStays, LabelInv, Exiting, Forking, scheduler
<1>2. CASE swtch(c)
  BY <1>2 DEF ParentInv, Live, ForkInv, InitStays, LabelInv, Exiting, Forking, swtch
<1>3. CASE InProcess(c)
  <2>0. PICK p \in Slots : p = proc[c] /\ ~switching[c] /\ state[p] = "RUNNING"
    BY <1>3, Running
  <2>1. CASE Traps(c)
    <3>1. CASE kerneltrap(c)
      BY <2>0, <3>1 DEF ParentInv, Live, ForkInv, InitStays, LabelInv, Exiting, Forking, kerneltrap, yield,
          sched, Preemptible
    <3>2. CASE usertrap_timer(c)
      BY <2>0, <3>2 DEF ParentInv, Live, ForkInv, InitStays, LabelInv, Exiting, Forking, usertrap_timer,
          yield, sched
    <3>3. CASE usertrap_killed(c)
      BY <2>0, <3>3 DEF ParentInv, Live, ForkInv, InitStays, LabelInv, Exiting, Forking, usertrap_killed,
          CheckKilled
    <3>4. CASE usertrap_return(c)
      BY <2>0, <3>4 DEF ParentInv, Live, ForkInv, InitStays, LabelInv, Exiting, Forking, usertrap_return
    <3>5. CASE usertrap_fault(c)
      BY <2>0, <3>5 DEF ParentInv, Live, ForkInv, InitStays, LabelInv, Exiting, Forking, usertrap_fault
    <3>6. QED
      BY <2>1, <3>1, <3>2, <3>3, <3>4, <3>5 DEF Traps
  <2>2. CASE Calls(c)
    BY <2>0, <2>2 DEF ParentInv, Live, ForkInv, InitStays, LabelInv, Exiting, Forking, Calls, sys_fork,
        sys_exit, sys_wait, sys_kill, syscall
  <2>3. CASE Allocs(c)
    <3>1. CASE allocproc_next(c)
      BY <2>0, <3>1 DEF ParentInv, Live, ForkInv, InitStays, LabelInv, Exiting, Forking, allocproc_next
    <3>2. CASE allocproc_found(c)
      BY <2>0, <3>2 DEF ParentInv, Live, ForkInv, InitStays, LabelInv, Exiting, Forking, allocproc_found
    <3>3. CASE allocproc_nomem(c)
      BY <2>0, <3>3 DEF ParentInv, Live, ForkInv, InitStays, LabelInv, Exiting, Forking, allocproc_nomem,
          freeproc
    <3>4. CASE allocproc_full(c)
      BY <2>0, <3>4 DEF ParentInv, Live, ForkInv, InitStays, LabelInv, Exiting, Forking, allocproc_full
    <3>5. QED
      BY <2>3, <3>1, <3>2, <3>3, <3>4 DEF Allocs
  <2>4. CASE Forks(c)
    <3>1. CASE fork_parent(c)
      BY <2>0, <3>1 DEF ParentInv, Live, ForkInv, InitStays, LabelInv, Exiting, Forking, fork_parent
    <3>2. CASE fork_run(c)
      BY <2>0, <3>2 DEF ParentInv, Live, ForkInv, InitStays, LabelInv, Exiting, Forking, fork_run
    <3>3. QED
      BY <2>4, <3>1, <3>2 DEF Forks
  <2>5. CASE Exits(c)
    <3>1. CASE kexit(c)
      BY <2>0, <3>1 DEF ParentInv, Live, ForkInv, InitStays, LabelInv, Exiting, Forking, kexit
    <3>2. CASE reparent(c)
      <4>1. PICK s \in Slots : s = scan[p] /\ pc[p] = "reparent"
        BY <2>0, <3>2 DEF reparent
      <4>2. CASE parent[s] = p
        <5>1. /\ parent' = [parent EXCEPT ![s] = initproc] /\ pc' = [pc EXCEPT ![p] = "wakeinit"]
              /\ UNCHANGED <<state, scan>>
          BY <2>0, <3>2, <4>1, <4>2 DEF reparent, Adopt
        <5>2. p # initproc
          BY <4>1 DEF InitStays, Exiting
        <5>3. state'[initproc] \in Live /\ pc'[initproc] \notin Exiting
          BY <5>1, <5>2 DEF InitStays
        <5>4. \A t \in Slots : parent'[t] = p => s < t
          BY <4>1, <5>1, <5>2 DEF ParentInv
        <5>5. ASSUME NEW q \in Slots, NEW t \in Slots, parent'[t] = q
              PROVE  /\ pc'[q] = "reparent" => scan'[q] <= t
                     /\ pc'[q] = "wakeinit" => scan'[q] < t
                     /\ pc'[q] \notin {"wakeparent", "zombie"}
          <6>1. CASE t = s
            BY <5>1, <5>3, <5>5, <6>1 DEF Exiting
          <6>2. CASE t # s
            BY <4>1, <5>1, <5>4, <5>5, <6>2 DEF ParentInv
          <6>3. QED
            BY <6>1, <6>2
        <5>6. QED
          BY <5>1, <5>3, <5>5 DEF ParentInv, Live
      <4>3. CASE parent[s] # p
        <5>1. scan' = [scan EXCEPT ![p] = @ + 1] /\ UNCHANGED <<state, parent, pc>>
          BY <2>0, <3>2, <4>1, <4>3 DEF reparent
        <5>2. \A t \in Slots : parent[t] = p => scan'[p] <= t
          BY <4>1, <4>3, <5>1 DEF ParentInv
        <5>3. QED
          BY <4>1, <5>1, <5>2 DEF ParentInv
      <4>4. QED
        BY <4>2, <4>3
    <3>3. CASE reparent_done(c)
      BY <2>0, <3>3 DEF ParentInv, Live, ForkInv, InitStays, LabelInv, Exiting, Forking, reparent_done
    <3>4. CASE exit_zombie(c)
      BY <2>0, <3>4 DEF ParentInv, Live, ForkInv, InitStays, LabelInv, Exiting, Forking, exit_zombie, sched
    <3>5. QED
      BY <2>5, <3>1, <3>2, <3>3, <3>4 DEF Exits
  <2>6. CASE Wakeups(c)
    <3>1. CASE wakeup_init(c)
      BY <2>0, <3>1 DEF ParentInv, Live, ForkInv, InitStays, LabelInv, Exiting, Forking, wakeup_init, wakeup,
          Wake
    <3>2. CASE wakeup_init_done(c)
      BY <2>0, <3>2 DEF ParentInv, Live, ForkInv, InitStays, LabelInv, Exiting, Forking, wakeup_init_done
    <3>3. CASE wakeup_parent(c)
      BY <2>0, <3>3 DEF ParentInv, Live, ForkInv, InitStays, LabelInv, Exiting, Forking, wakeup_parent,
          wakeup, Wake
    <3>4. CASE wakeup_parent_done(c)
      BY <2>0, <3>4 DEF ParentInv, Live, ForkInv, InitStays, LabelInv, Exiting, Forking, wakeup_parent_done
    <3>5. QED
      BY <2>6, <3>1, <3>2, <3>3, <3>4 DEF Wakeups
  <2>7. CASE Waits(c)
    <3>1. CASE kwait(c)
      BY <2>0, <3>1 DEF ParentInv, Live, ForkInv, InitStays, LabelInv, Exiting, Forking, kwait
    <3>2. CASE wait_next(c)
      BY <2>0, <3>2 DEF ParentInv, Live, ForkInv, InitStays, LabelInv, Exiting, Forking, wait_next,
          ChildOffCpu
    <3>3. CASE wait_reap(c)
      <4>1. PICK s \in Slots : s = scan[p] /\ state[s] = "ZOMBIE"
        BY <2>0, <3>3 DEF wait_reap
      <4>2. /\ pc' = [pc EXCEPT ![p] = "return"] /\ scan' = [scan EXCEPT ![p] = 1]
            /\ \/ /\ state' = [state EXCEPT ![s] = "UNUSED"]
                  /\ parent' = [parent EXCEPT ![s] = NoProc]
               \/ UNCHANGED <<state, parent>>
        BY <2>0, <3>3, <4>1 DEF wait_reap, freeproc
      <4>3. \A t \in Slots : parent[t] # s
        BY <4>1 DEF ParentInv, Live
      <4>4. CASE UNCHANGED <<state, parent>>
        BY <4>2, <4>4 DEF ParentInv
      <4>5. CASE /\ state' = [state EXCEPT ![s] = "UNUSED"]
                 /\ parent' = [parent EXCEPT ![s] = NoProc]
        <5>1. \A t \in Slots : parent'[t] # NoProc => parent'[t] = parent[t] /\ t # s
          BY <4>5
        <5>2. QED
          BY <4>2, <4>3, <4>5, <5>1 DEF ParentInv, Live
      <4>6. QED
        BY <4>2, <4>4, <4>5
    <3>4. CASE wait_check(c)
      BY <2>0, <3>4 DEF ParentInv, Live, ForkInv, InitStays, LabelInv, Exiting, Forking, wait_check, HaveKids
    <3>5. CASE sleep(c)
      BY <2>0, <3>5 DEF ParentInv, Live, ForkInv, InitStays, LabelInv, Exiting, Forking, sleep, hold_lock
    <3>6. CASE sleep_sched(c)
      BY <2>0, <3>6 DEF ParentInv, Live, ForkInv, InitStays, LabelInv, Exiting, Forking, sleep_sched, sched
    <3>7. QED
      BY <2>7, <3>1, <3>2, <3>3, <3>4, <3>5, <3>6 DEF Waits
  <2>8. CASE Kills(c)
    <3>1. CASE kkill(c)
      BY <2>0, <3>1 DEF ParentInv, Live, ForkInv, InitStays, LabelInv, Exiting, Forking, kkill
    <3>2. CASE kkill_next(c)
      BY <2>0, <3>2 DEF ParentInv, Live, ForkInv, InitStays, LabelInv, Exiting, Forking, kkill_next
    <3>3. CASE kkill_none(c)
      BY <2>0, <3>3 DEF ParentInv, Live, ForkInv, InitStays, LabelInv, Exiting, Forking, kkill_none
    <3>4. QED
      BY <2>8, <3>1, <3>2, <3>3 DEF Kills
  <2>9. QED
    BY <1>3, <2>1, <2>2, <2>3, <2>4, <2>5, <2>6, <2>7, <2>8 DEF InProcess
<1>4. QED
  BY <1>1, <1>2, <1>3

\* What kwait() has seen.
LEMMA ScanInvStep ==
  ASSUME TypeOK, IInv, NEW c \in CPUs,
         (\E s \in Slots : scheduler(c, s)) \/ swtch(c) \/ InProcess(c)
  PROVE  ScanInv'
<1> USE SlotFacts, ProcAssumption, Order, OneInside DEF IInv, TypeOK, Free, Goto, At, fields, locals
<1>1. CASE \E s \in Slots : scheduler(c, s)
  BY <1>1 DEF SleepInv, ScanInv, NoZombies, HaveKids, LabelInv, InWaitLock, CpuInv, ForkInv, Forking,
      Preemptible, scheduler
<1>2. CASE swtch(c)
  BY <1>2 DEF SleepInv, ScanInv, NoZombies, HaveKids, LabelInv, InWaitLock, CpuInv, ForkInv, Forking,
      Preemptible, swtch
<1>3. CASE InProcess(c)
  <2>0. PICK p \in Slots : p = proc[c] /\ ~switching[c] /\ state[p] = "RUNNING"
    BY <1>3, Running
  <2>1. CASE Traps(c)
    <3>1. CASE kerneltrap(c)
      BY <2>0, <3>1 DEF SleepInv, ScanInv, NoZombies, HaveKids, LabelInv, InWaitLock, CpuInv, ForkInv,
          Forking, Preemptible, kerneltrap, yield, sched
    <3>2. CASE usertrap_timer(c)
      BY <2>0, <3>2 DEF SleepInv, ScanInv, NoZombies, HaveKids, LabelInv, InWaitLock, CpuInv, ForkInv,
          Forking, Preemptible, usertrap_timer, yield, sched
    <3>3. CASE usertrap_killed(c)
      BY <2>0, <3>3 DEF SleepInv, ScanInv, NoZombies, HaveKids, LabelInv, InWaitLock, CpuInv, ForkInv,
          Forking, Preemptible, usertrap_killed, CheckKilled
    <3>4. CASE usertrap_return(c)
      BY <2>0, <3>4 DEF SleepInv, ScanInv, NoZombies, HaveKids, LabelInv, InWaitLock, CpuInv, ForkInv,
          Forking, Preemptible, usertrap_return
    <3>5. CASE usertrap_fault(c)
      BY <2>0, <3>5 DEF SleepInv, ScanInv, NoZombies, HaveKids, LabelInv, InWaitLock, CpuInv, ForkInv,
          Forking, Preemptible, usertrap_fault
    <3>6. QED
      BY <2>1, <3>1, <3>2, <3>3, <3>4, <3>5 DEF Traps
  <2>2. CASE Calls(c)
    <3>1. CASE sys_fork(c)
      BY <2>0, <3>1 DEF SleepInv, ScanInv, NoZombies, HaveKids, LabelInv, InWaitLock, CpuInv, ForkInv,
          Forking, Preemptible, sys_fork, syscall
    <3>2. CASE sys_exit(c)
      BY <2>0, <3>2 DEF SleepInv, ScanInv, NoZombies, HaveKids, LabelInv, InWaitLock, CpuInv, ForkInv,
          Forking, Preemptible, sys_exit, syscall
    <3>3. CASE sys_wait(c)
      BY <2>0, <3>3 DEF SleepInv, ScanInv, NoZombies, HaveKids, LabelInv, InWaitLock, CpuInv, ForkInv,
          Forking, Preemptible, sys_wait, syscall
    <3>4. CASE (\E k \in KillPids : sys_kill(c, k))
      BY <2>0, <3>4 DEF SleepInv, ScanInv, NoZombies, HaveKids, LabelInv, InWaitLock, CpuInv, ForkInv,
          Forking, Preemptible, sys_kill, syscall
    <3>5. QED
      BY <2>2, <3>1, <3>2, <3>3, <3>4 DEF Calls
  <2>3. CASE Allocs(c)
    <3>1. CASE allocproc_next(c)
      BY <2>0, <3>1 DEF SleepInv, ScanInv, NoZombies, HaveKids, LabelInv, InWaitLock, CpuInv, ForkInv,
          Forking, Preemptible, allocproc_next
    <3>2. CASE allocproc_found(c)
      BY <2>0, <3>2 DEF SleepInv, ScanInv, NoZombies, HaveKids, LabelInv, InWaitLock, CpuInv, ForkInv,
          Forking, Preemptible, allocproc_found
    <3>3. CASE allocproc_nomem(c)
      BY <2>0, <3>3 DEF SleepInv, ScanInv, NoZombies, HaveKids, LabelInv, InWaitLock, CpuInv, ForkInv,
          Forking, Preemptible, allocproc_nomem, freeproc
    <3>4. CASE allocproc_full(c)
      BY <2>0, <3>4 DEF SleepInv, ScanInv, NoZombies, HaveKids, LabelInv, InWaitLock, CpuInv, ForkInv,
          Forking, Preemptible, allocproc_full
    <3>5. QED
      BY <2>3, <3>1, <3>2, <3>3, <3>4 DEF Allocs
  <2>4. CASE Forks(c)
    <3>1. CASE fork_parent(c)
      BY <2>0, <3>1 DEF SleepInv, ScanInv, NoZombies, HaveKids, LabelInv, InWaitLock, CpuInv, ForkInv,
          Forking, Preemptible, fork_parent
    <3>2. CASE fork_run(c)
      BY <2>0, <3>2 DEF SleepInv, ScanInv, NoZombies, HaveKids, LabelInv, InWaitLock, CpuInv, ForkInv,
          Forking, Preemptible, fork_run
    <3>3. QED
      BY <2>4, <3>1, <3>2 DEF Forks
  <2>5. CASE Exits(c)
    <3>1. CASE kexit(c)
      BY <2>0, <3>1 DEF SleepInv, ScanInv, NoZombies, HaveKids, LabelInv, InWaitLock, CpuInv, ForkInv,
          Forking, Preemptible, kexit
    <3>2. CASE reparent(c)
      <4>1. /\ pc[p] = "reparent" /\ pc'[p] \in {"reparent", "wakeinit"}
            /\ \A q \in Slots : q # p => pc'[q] = pc[q]
        BY <2>0, <3>2 DEF reparent
      <4>2. \A q \in Slots : pc[q] \notin {"wait_scan", "wait_sleep"}
        BY <2>0, <4>1 DEF InWaitLock
      <4>3. QED
        BY <4>1, <4>2 DEF ScanInv
    <3>3. CASE reparent_done(c)
      BY <2>0, <3>3 DEF SleepInv, ScanInv, NoZombies, HaveKids, LabelInv, InWaitLock, CpuInv, ForkInv,
          Forking, Preemptible, reparent_done
    <3>4. CASE exit_zombie(c)
      BY <2>0, <3>4 DEF SleepInv, ScanInv, NoZombies, HaveKids, LabelInv, InWaitLock, CpuInv, ForkInv,
          Forking, Preemptible, exit_zombie, sched
    <3>5. QED
      BY <2>5, <3>1, <3>2, <3>3, <3>4 DEF Exits
  <2>6. CASE Wakeups(c)
    <3>1. CASE wakeup_init(c)
      BY <2>0, <3>1 DEF SleepInv, ScanInv, NoZombies, HaveKids, LabelInv, InWaitLock, CpuInv, ForkInv,
          Forking, Preemptible, wakeup_init, wakeup, Wake
    <3>2. CASE wakeup_init_done(c)
      BY <2>0, <3>2 DEF SleepInv, ScanInv, NoZombies, HaveKids, LabelInv, InWaitLock, CpuInv, ForkInv,
          Forking, Preemptible, wakeup_init_done
    <3>3. CASE wakeup_parent(c)
      BY <2>0, <3>3 DEF SleepInv, ScanInv, NoZombies, HaveKids, LabelInv, InWaitLock, CpuInv, ForkInv,
          Forking, Preemptible, wakeup_parent, wakeup, Wake
    <3>4. CASE wakeup_parent_done(c)
      BY <2>0, <3>4 DEF SleepInv, ScanInv, NoZombies, HaveKids, LabelInv, InWaitLock, CpuInv, ForkInv,
          Forking, Preemptible, wakeup_parent_done
    <3>5. QED
      BY <2>6, <3>1, <3>2, <3>3, <3>4 DEF Wakeups
  <2>7. CASE Waits(c)
    <3>1. CASE kwait(c)
      BY <2>0, <3>1 DEF SleepInv, ScanInv, NoZombies, HaveKids, LabelInv, InWaitLock, CpuInv, ForkInv,
          Forking, Preemptible, kwait
    <3>2. CASE wait_next(c)
      BY <2>0, <3>2 DEF SleepInv, ScanInv, NoZombies, HaveKids, LabelInv, InWaitLock, CpuInv, ForkInv,
          Forking, Preemptible, wait_next, ChildOffCpu
    <3>3. CASE wait_reap(c)
      BY <2>0, <3>3 DEF SleepInv, ScanInv, NoZombies, HaveKids, LabelInv, InWaitLock, CpuInv, ForkInv,
          Forking, Preemptible, wait_reap, freeproc, ChildOffCpu
    <3>4. CASE wait_check(c)
      BY <2>0, <3>4 DEF SleepInv, ScanInv, NoZombies, HaveKids, LabelInv, InWaitLock, CpuInv, ForkInv,
          Forking, Preemptible, wait_check
    <3>5. CASE sleep(c)
      BY <2>0, <3>5 DEF SleepInv, ScanInv, NoZombies, HaveKids, LabelInv, InWaitLock, CpuInv, ForkInv,
          Forking, Preemptible, sleep, hold_lock
    <3>6. CASE sleep_sched(c)
      BY <2>0, <3>6 DEF SleepInv, ScanInv, NoZombies, HaveKids, LabelInv, InWaitLock, CpuInv, ForkInv,
          Forking, Preemptible, sleep_sched, sched
    <3>7. QED
      BY <2>7, <3>1, <3>2, <3>3, <3>4, <3>5, <3>6 DEF Waits
  <2>8. CASE Kills(c)
    <3>1. CASE kkill(c)
      BY <2>0, <3>1 DEF SleepInv, ScanInv, NoZombies, HaveKids, LabelInv, InWaitLock, CpuInv, ForkInv,
          Forking, Preemptible, kkill
    <3>2. CASE kkill_next(c)
      BY <2>0, <3>2 DEF SleepInv, ScanInv, NoZombies, HaveKids, LabelInv, InWaitLock, CpuInv, ForkInv,
          Forking, Preemptible, kkill_next
    <3>3. CASE kkill_none(c)
      BY <2>0, <3>3 DEF SleepInv, ScanInv, NoZombies, HaveKids, LabelInv, InWaitLock, CpuInv, ForkInv,
          Forking, Preemptible, kkill_none
    <3>4. QED
      BY <2>8, <3>1, <3>2, <3>3 DEF Kills
  <2>9. QED
    BY <1>3, <2>1, <2>2, <2>3, <2>4, <2>5, <2>6, <2>7, <2>8 DEF InProcess
<1>4. QED
  BY <1>1, <1>2, <1>3

\* A sleeping parent keeps its children.
LEMMA SleeperHasKidsStep ==
  ASSUME TypeOK, IInv, NEW c \in CPUs,
         (\E s \in Slots : scheduler(c, s)) \/ swtch(c) \/ InProcess(c)
  PROVE  SleeperHasKids'
<1> USE SlotFacts, ProcAssumption, OneInside DEF IInv, TypeOK, Free, Goto, At, fields, locals
<1>1. CASE \E s \in Slots : scheduler(c, s)
  BY <1>1 DEF SleepInv, ScanInv, SleeperHasKids, Asleep, HaveKids, LabelInv, ForkInv, Forking,
      Preemptible, CpuInv, scheduler
<1>2. CASE swtch(c)
  BY <1>2 DEF SleepInv, ScanInv, SleeperHasKids, Asleep, HaveKids, LabelInv, ForkInv, Forking,
      Preemptible, CpuInv, swtch
<1>3. CASE InProcess(c)
  <2>0. PICK p \in Slots : p = proc[c] /\ ~switching[c] /\ state[p] = "RUNNING"
    BY <1>3, Running
  <2>1. CASE Traps(c)
    BY <2>0, <2>1 DEF SleepInv, ScanInv, SleeperHasKids, Asleep, HaveKids, LabelInv, ForkInv, Forking,
        Preemptible, CpuInv, Traps, kerneltrap, usertrap_timer, usertrap_killed,
        usertrap_return, usertrap_fault, yield, sched, CheckKilled
  <2>2. CASE Calls(c)
    BY <2>0, <2>2 DEF SleepInv, ScanInv, SleeperHasKids, Asleep, HaveKids, LabelInv, ForkInv, Forking,
        Preemptible, CpuInv, Calls, sys_fork, sys_exit, sys_wait, sys_kill, syscall
  <2>3. CASE Allocs(c)
    BY <2>0, <2>3 DEF SleepInv, ScanInv, SleeperHasKids, Asleep, HaveKids, LabelInv, ForkInv, Forking,
        Preemptible, CpuInv, Allocs, allocproc_next, allocproc_found, allocproc_nomem,
        allocproc_full, freeproc
  <2>4. CASE Forks(c)
    BY <2>0, <2>4 DEF SleepInv, ScanInv, SleeperHasKids, Asleep, HaveKids, LabelInv, ForkInv, Forking,
        Preemptible, CpuInv, Forks, fork_parent, fork_run
  <2>5. CASE Exits(c)
    BY <2>0, <2>5 DEF SleepInv, ScanInv, SleeperHasKids, Asleep, HaveKids, LabelInv, ForkInv, Forking,
        Preemptible, CpuInv, Exits, kexit, reparent, reparent_done, exit_zombie, Adopt, sched
  <2>6. CASE Wakeups(c)
    BY <2>0, <2>6 DEF SleepInv, ScanInv, SleeperHasKids, Asleep, HaveKids, LabelInv, ForkInv, Forking,
        Preemptible, CpuInv, Wakeups, wakeup_init, wakeup_init_done, wakeup_parent,
        wakeup_parent_done, wakeup, Wake
  <2>7. CASE Waits(c)
    BY <2>0, <2>7 DEF SleepInv, ScanInv, SleeperHasKids, Asleep, HaveKids, LabelInv, ForkInv, Forking,
        Preemptible, CpuInv, Waits, kwait, wait_next, wait_reap, wait_check, sleep,
        sleep_sched, ChildOffCpu, freeproc, hold_lock, sched
  <2>8. CASE Kills(c)
    BY <2>0, <2>8 DEF SleepInv, ScanInv, SleeperHasKids, Asleep, HaveKids, LabelInv, ForkInv, Forking,
        Preemptible, CpuInv, Kills, kkill, kkill_next, kkill_none
  <2>9. QED
    BY <1>3, <2>1, <2>2, <2>3, <2>4, <2>5, <2>6, <2>7, <2>8 DEF InProcess
<1>4. QED
  BY <1>1, <1>2, <1>3

\* A sleeping parent has missed no zombie.
LEMMA SleeperMissedNoneStep ==
  ASSUME TypeOK, IInv, NEW c \in CPUs,
         (\E s \in Slots : scheduler(c, s)) \/ swtch(c) \/ InProcess(c)
  PROVE  SleeperMissedNone'
<1> USE SlotFacts, ProcAssumption, OneInside DEF IInv, TypeOK, Free, Goto, At, fields, locals
<1>1. CASE \E s \in Slots : scheduler(c, s)
  BY <1>1 DEF SleepInv, SleeperMissedNone, Asleep, NoZombies, ScanInv, LabelInv, PassedAwake,
      PassedParent, ForkInv, Forking, Preemptible, scheduler
<1>2. CASE swtch(c)
  BY <1>2 DEF SleepInv, SleeperMissedNone, Asleep, NoZombies, ScanInv, LabelInv, PassedAwake,
      PassedParent, ForkInv, Forking, Preemptible, swtch
<1>3. CASE InProcess(c)
  <2>0. PICK p \in Slots : p = proc[c] /\ ~switching[c] /\ state[p] = "RUNNING"
    BY <1>3, Running
  <2>1. CASE Traps(c)
    BY <2>0, <2>1 DEF SleepInv, SleeperMissedNone, Asleep, NoZombies, ScanInv, LabelInv, PassedAwake,
        PassedParent, ForkInv, Forking, Preemptible, Traps, kerneltrap, usertrap_timer,
        usertrap_killed, usertrap_return, usertrap_fault, yield, sched, CheckKilled
  <2>2. CASE Calls(c)
    BY <2>0, <2>2 DEF SleepInv, SleeperMissedNone, Asleep, NoZombies, ScanInv, LabelInv, PassedAwake,
        PassedParent, ForkInv, Forking, Preemptible, Calls, sys_fork, sys_exit, sys_wait,
        sys_kill, syscall
  <2>3. CASE Allocs(c)
    <3>1. CASE allocproc_next(c)
      BY <2>0, <3>1 DEF SleepInv, SleeperMissedNone, Asleep, NoZombies, ScanInv, LabelInv, PassedAwake,
          PassedParent, ForkInv, Forking, Preemptible, allocproc_next
    <3>2. CASE allocproc_found(c)
      <4>1. PICK s \in Slots : s = scan[p] /\ state[s] = "UNUSED"
        BY <2>0, <3>2 DEF allocproc_found
      <4>2. /\ state' = [state EXCEPT ![s] = "USED"] /\ UNCHANGED <<parent, wscan>> /\ pc[p] = "allocproc"
            /\ pc' = [pc EXCEPT ![p] = "fork_parent", ![s] = "user"]
        BY <2>0, <3>2, <4>1 DEF allocproc_found
      <4>3. /\ \A q \in Slots : pc[q] = "wakeinit" => pc'[q] = "wakeinit"
            /\ \A q \in Slots : Asleep(q)' => Asleep(q)
        BY <4>1, <4>2 DEF LabelInv, Asleep
      <4>4. \A q \in Slots : NoZombies(q) => NoZombies(q)'
        BY <4>1, <4>2 DEF NoZombies
      <4>5. QED
        BY <4>2, <4>3, <4>4 DEF SleepInv, SleeperMissedNone
    <3>3. CASE allocproc_nomem(c)
      BY <2>0, <3>3 DEF SleepInv, SleeperMissedNone, Asleep, NoZombies, ScanInv, LabelInv, PassedAwake,
          PassedParent, ForkInv, Forking, Preemptible, allocproc_nomem, freeproc
    <3>4. CASE allocproc_full(c)
      BY <2>0, <3>4 DEF SleepInv, SleeperMissedNone, Asleep, NoZombies, ScanInv, LabelInv, PassedAwake,
          PassedParent, ForkInv, Forking, Preemptible, allocproc_full
    <3>5. QED
      BY <2>3, <3>1, <3>2, <3>3, <3>4 DEF Allocs
  <2>4. CASE Forks(c)
    BY <2>0, <2>4 DEF SleepInv, SleeperMissedNone, Asleep, NoZombies, ScanInv, LabelInv, PassedAwake,
        PassedParent, ForkInv, Forking, Preemptible, Forks, fork_parent, fork_run
  <2>5. CASE Exits(c)
    BY <2>0, <2>5 DEF SleepInv, SleeperMissedNone, Asleep, NoZombies, ScanInv, LabelInv, PassedAwake,
        PassedParent, ForkInv, Forking, Preemptible, Exits, kexit, reparent, reparent_done,
        exit_zombie, Adopt, sched
  <2>6. CASE Wakeups(c)
    <3>1. CASE wakeup_init(c)
      <4>1. PICK s \in Slots : s = wscan[p] /\ pc[p] = "wakeinit"
        BY <2>0, <3>1 DEF wakeup_init, wakeup
      <4>2. /\ UNCHANGED <<parent, pc>> /\ wscan' = [wscan EXCEPT ![p] = @ + 1]
            /\ s = p => state' = state
            /\ s # p => Free(s) /\ state' = [state EXCEPT ![s] = Wake(s, initproc)]
        BY <2>0, <3>1, <4>1 DEF wakeup_init, wakeup
      <4>3. /\ \A q \in Slots : Asleep(q)' => Asleep(q)
            /\ \A q \in Slots : NoZombies(q) => NoZombies(q)'
        BY <4>2 DEF Asleep, NoZombies, Wake
      <4>4. \A q \in Slots : pc[q] = "wakeinit" => q = p
        BY <2>0, <4>1 DEF InWaitLock
      <4>5. CASE s = initproc
        <5>1. p # initproc
          BY <4>1 DEF InitStays, Exiting
        <5>2. ~Asleep(initproc)'
          BY <4>2, <4>5, <5>1 DEF Asleep, Wake, LabelInv
        <5>3. QED
          BY <4>3, <5>2 DEF SleepInv, SleeperMissedNone
      <4>6. CASE s # initproc
        <5>1. \A q \in Slots : pc[q] = "wakeinit" => wscan[q] # 1
          BY <4>1, <4>4, <4>6 DEF initproc
        <5>2. QED
          BY <4>3, <5>1 DEF SleepInv, SleeperMissedNone
      <4>7. QED
        BY <4>5, <4>6
    <3>2. CASE wakeup_init_done(c)
      BY <2>0, <3>2 DEF SleepInv, SleeperMissedNone, Asleep, NoZombies, ScanInv, LabelInv, PassedAwake,
          PassedParent, ForkInv, Forking, Preemptible, wakeup_init_done
    <3>3. CASE wakeup_parent(c)
      BY <2>0, <3>3 DEF SleepInv, SleeperMissedNone, Asleep, NoZombies, ScanInv, LabelInv, PassedAwake,
          PassedParent, ForkInv, Forking, Preemptible, wakeup_parent, wakeup, Wake
    <3>4. CASE wakeup_parent_done(c)
      BY <2>0, <3>4 DEF SleepInv, SleeperMissedNone, Asleep, NoZombies, ScanInv, LabelInv, PassedAwake,
          PassedParent, ForkInv, Forking, Preemptible, wakeup_parent_done
    <3>5. QED
      BY <2>6, <3>1, <3>2, <3>3, <3>4 DEF Wakeups
  <2>7. CASE Waits(c)
    BY <2>0, <2>7 DEF SleepInv, SleeperMissedNone, Asleep, NoZombies, ScanInv, LabelInv, PassedAwake,
        PassedParent, ForkInv, Forking, Preemptible, Waits, kwait, wait_next, wait_reap,
        wait_check, sleep, sleep_sched, ChildOffCpu, freeproc, HaveKids, hold_lock, sched
  <2>8. CASE Kills(c)
    BY <2>0, <2>8 DEF SleepInv, SleeperMissedNone, Asleep, NoZombies, ScanInv, LabelInv, PassedAwake,
        PassedParent, ForkInv, Forking, Preemptible, Kills, kkill, kkill_next, kkill_none
  <2>9. QED
    BY <1>3, <2>1, <2>2, <2>3, <2>4, <2>5, <2>6, <2>7, <2>8 DEF InProcess
<1>4. QED
  BY <1>1, <1>2, <1>3

\* A parent that was woken stays awake until its child is a zombie.
LEMMA PassedAwakeStep ==
  ASSUME TypeOK, IInv, NEW c \in CPUs,
         (\E s \in Slots : scheduler(c, s)) \/ swtch(c) \/ InProcess(c)
  PROVE  PassedAwake'
<1> USE SlotFacts, ProcAssumption, Order, OneInside DEF IInv, TypeOK, Free, Goto, At, fields, locals
<1>1. CASE \E s \in Slots : scheduler(c, s)
  <2>1. PICK s \in Slots : scheduler(c, s)
    BY <1>1
  <2>2. /\ state[s] = "RUNNABLE" /\ state' = [state EXCEPT ![s] = "RUNNING"]
        /\ UNCHANGED <<pc, parent, wscan>>
    BY <2>1 DEF scheduler
  <2>3. pc[s] \notin {"zombie", "wakeparent"}
    BY <2>2 DEF LabelInv, Preemptible
  <2>4. /\ \A q \in Slots : Asleep(q)' => Asleep(q)
        /\ \A q \in Slots : PassedParent(q)' => PassedParent(q)
    BY <2>2, <2>3 DEF Asleep, PassedParent
  <2>5. QED
    BY <2>2, <2>4 DEF SleepInv, PassedAwake
<1>2. CASE swtch(c)
  BY <1>2 DEF SleepInv, PassedAwake, Asleep, PassedParent, LabelInv, InWaitLock, Preemptible, ForkInv,
      Forking, ParentInv, swtch
<1>3. CASE InProcess(c)
  <2>0. PICK p \in Slots : p = proc[c] /\ ~switching[c] /\ state[p] = "RUNNING"
    BY <1>3, Running
  <2>1. CASE Traps(c)
    BY <2>0, <2>1 DEF SleepInv, PassedAwake, Asleep, PassedParent, LabelInv, InWaitLock, Preemptible,
        ForkInv, Forking, ParentInv, Traps, kerneltrap, usertrap_timer, usertrap_killed,
        usertrap_return, usertrap_fault, yield, sched, CheckKilled
  <2>2. CASE Calls(c)
    BY <2>0, <2>2 DEF SleepInv, PassedAwake, Asleep, PassedParent, LabelInv, InWaitLock, Preemptible,
        ForkInv, Forking, ParentInv, Calls, sys_fork, sys_exit, sys_wait, sys_kill, syscall
  <2>3. CASE Allocs(c)
    <3>1. CASE allocproc_next(c)
      BY <2>0, <3>1 DEF SleepInv, PassedAwake, Asleep, PassedParent, LabelInv, InWaitLock, Preemptible,
          ForkInv, Forking, ParentInv, allocproc_next
    <3>2. CASE allocproc_found(c)
      BY <2>0, <3>2 DEF SleepInv, PassedAwake, Asleep, PassedParent, LabelInv, InWaitLock, Preemptible,
          ForkInv, Forking, ParentInv, allocproc_found
    <3>3. CASE allocproc_nomem(c)
      BY <2>0, <3>3 DEF SleepInv, PassedAwake, Asleep, PassedParent, LabelInv, InWaitLock, Preemptible,
          ForkInv, Forking, ParentInv, allocproc_nomem, freeproc
    <3>4. CASE allocproc_full(c)
      BY <2>0, <3>4 DEF SleepInv, PassedAwake, Asleep, PassedParent, LabelInv, InWaitLock, Preemptible,
          ForkInv, Forking, ParentInv, allocproc_full
    <3>5. QED
      BY <2>3, <3>1, <3>2, <3>3, <3>4 DEF Allocs
  <2>4. CASE Forks(c)
    BY <2>0, <2>4 DEF SleepInv, PassedAwake, Asleep, PassedParent, LabelInv, InWaitLock, Preemptible,
        ForkInv, Forking, ParentInv, Forks, fork_parent, fork_run
  <2>5. CASE Exits(c)
    <3>1. CASE kexit(c)
      BY <2>0, <3>1 DEF SleepInv, PassedAwake, Asleep, PassedParent, LabelInv, InWaitLock, Preemptible,
          ForkInv, Forking, ParentInv, kexit
    <3>2. CASE reparent(c)
      BY <2>0, <3>2 DEF SleepInv, PassedAwake, Asleep, PassedParent, LabelInv, InWaitLock, Preemptible,
          ForkInv, Forking, ParentInv, reparent, Adopt
    <3>3. CASE reparent_done(c)
      BY <2>0, <3>3 DEF SleepInv, PassedAwake, Asleep, PassedParent, LabelInv, InWaitLock, Preemptible,
          ForkInv, Forking, ParentInv, reparent_done
    <3>4. CASE exit_zombie(c)
      BY <2>0, <3>4 DEF SleepInv, PassedAwake, Asleep, PassedParent, LabelInv, InWaitLock, Preemptible,
          ForkInv, Forking, ParentInv, exit_zombie, sched
    <3>5. QED
      BY <2>5, <3>1, <3>2, <3>3, <3>4 DEF Exits
  <2>6. CASE Wakeups(c)
    <3>1. CASE wakeup_init(c)
      BY <2>0, <3>1 DEF SleepInv, PassedAwake, Asleep, PassedParent, LabelInv, InWaitLock, Preemptible,
          ForkInv, Forking, ParentInv, wakeup_init, wakeup, Wake
    <3>2. CASE wakeup_init_done(c)
      BY <2>0, <3>2 DEF SleepInv, PassedAwake, Asleep, PassedParent, LabelInv, InWaitLock, Preemptible,
          ForkInv, Forking, ParentInv, wakeup_init_done
    <3>3. CASE wakeup_parent(c)
      BY <2>0, <3>3 DEF SleepInv, PassedAwake, Asleep, PassedParent, LabelInv, InWaitLock, Preemptible,
          ForkInv, Forking, ParentInv, wakeup_parent, wakeup, Wake
    <3>4. CASE wakeup_parent_done(c)
      BY <2>0, <3>4 DEF SleepInv, PassedAwake, Asleep, PassedParent, LabelInv, InWaitLock, Preemptible,
          ForkInv, Forking, ParentInv, wakeup_parent_done
    <3>5. QED
      BY <2>6, <3>1, <3>2, <3>3, <3>4 DEF Wakeups
  <2>7. CASE Waits(c)
    BY <2>0, <2>7 DEF SleepInv, PassedAwake, Asleep, PassedParent, LabelInv, InWaitLock, Preemptible,
        ForkInv, Forking, ParentInv, Waits, kwait, wait_next, wait_reap, wait_check, sleep,
        sleep_sched, ChildOffCpu, freeproc, HaveKids, hold_lock, sched
  <2>8. CASE Kills(c)
    BY <2>0, <2>8 DEF SleepInv, PassedAwake, Asleep, PassedParent, LabelInv, InWaitLock, Preemptible,
        ForkInv, Forking, ParentInv, Kills, kkill, kkill_next, kkill_none
  <2>9. QED
    BY <1>3, <2>1, <2>2, <2>3, <2>4, <2>5, <2>6, <2>7, <2>8 DEF InProcess
<1>4. QED
  BY <1>1, <1>2, <1>3

-----------------------------------------------------------------------------
(* What each step means for the family of processes.                       *)

Used(s) == state[s] # "UNUSED"
Life(s) == IF state[s] = "ZOMBIE" THEN "dead" ELSE IF pc[s] \in Exiting THEN "exiting" ELSE "alive"
Parents(s) == {q \in Slots : parent[s] = q \/ child[q] = s}

KeepsUsed(T) == \A s \in Slots \ T : Used(s)' <=> Used(s)
KeepsLife(T) == \A s \in Slots \ T : Used(s) => Life(s)' = Life(s)
KeepsParents(T) == \A s \in Slots \ T : Used(s) => Parents(s)' = Parents(s)
KeepsAsking(T) == \A s \in Slots \ T : Asking(s)' = Asking(s)
KeepsCalls(T) == \A s \in Slots \ T : Asking(s)' = Asking(s) /\ (Passed(s)' <=> Passed(s))
Keeps == UNCHANGED <<pid, nextpid>> /\ KeepsUsed({})
KeepsKin == Keeps /\ KeepsLife({}) /\ KeepsParents({})

\* Nothing changes; p begins to exit; p faults; p calls kill(k), which marks s or
\* fails; s passes from p to init; p becomes a zombie; p has a new child s; a fork
\* fails; p reaps s.
Quiet == KeepsKin /\ KeepsCalls({}) /\ UNCHANGED killed
Begins(p) == /\ Keeps /\ KeepsLife({p}) /\ KeepsParents({}) /\ KeepsCalls({}) /\ UNCHANGED killed
             /\ Used(p) /\ p # initproc /\ Life(p) = "alive" /\ Life(p)' = "exiting" /\ Asking(p) = 0
Faults(p) == /\ KeepsKin /\ KeepsCalls({}) /\ killed' = [killed EXCEPT ![p] = TRUE]
             /\ Used(p) /\ Life(p) = "alive" /\ Asking(p) = 0
Asks(p, k) == /\ KeepsKin /\ KeepsCalls({p}) /\ UNCHANGED killed
              /\ Used(p) /\ Life(p) = "alive" /\ Asking(p) = 0 /\ Asking(p)' = k /\ ~Passed(p)'
Hits(p, s) == /\ KeepsKin /\ KeepsCalls({p}) /\ killed' = [killed EXCEPT ![s] = TRUE]
              /\ Used(p) /\ Asking(p)' = 0 /\ ~Passed(p)'
              /\ 0 \notin KillPids => Used(s) /\ Asking(p) = pid[s]
Misses(p) == /\ KeepsKin /\ KeepsCalls({p}) /\ UNCHANGED killed
             /\ Used(p) /\ Asking(p)' = 0 /\ ~Passed(p)'
             /\ 0 \notin KillPids => Asking(p) # 0
             /\ \A s \in Slots : Used(s) /\ pid[s] = Asking(p) /\ Asking(p) # 0 => Passed(p)
Adopts(p, s) == /\ Keeps /\ KeepsLife({}) /\ KeepsParents({s}) /\ KeepsCalls({}) /\ UNCHANGED killed
                /\ Used(p) /\ Life(p) = "exiting" /\ Used(s) /\ p \in Parents(s) /\ initproc \in Parents(s)'
Ends(p) == /\ Keeps /\ KeepsLife({p}) /\ KeepsParents({}) /\ KeepsCalls({}) /\ UNCHANGED killed
           /\ Used(p) /\ Life(p) = "exiting" /\ Life(p)' = "dead"
           /\ \A s \in Slots : Used(s) => p \notin Parents(s)
Births(p, s) == /\ nextpid' = nextpid + 1 /\ pid' = [pid EXCEPT ![s] = nextpid]
                /\ KeepsUsed({s}) /\ KeepsLife({s}) /\ KeepsParents({s}) /\ UNCHANGED killed
                /\ Used(p) /\ Life(p) = "alive" /\ ~Used(s) /\ Used(s)' /\ Life(s)' = "alive"
                /\ p \in Parents(s)' /\ KeepsAsking({})
                /\ \A q \in Slots : Passed(q) => Passed(q)'
                /\ \A q \in Slots : Passed(q)' => Passed(q) \/ Asking(q) = nextpid
Fails == /\ nextpid' = nextpid + 1 /\ UNCHANGED pid
         /\ KeepsUsed({}) /\ KeepsLife({}) /\ KeepsParents({}) /\ KeepsCalls({})
         /\ 0 \notin KillPids => UNCHANGED killed
Reaps(p, s) == /\ UNCHANGED nextpid /\ pid' = [pid EXCEPT ![s] = 0]
               /\ KeepsUsed({s}) /\ KeepsLife({s}) /\ KeepsParents({s})
               /\ killed' = [killed EXCEPT ![s] = FALSE]
               /\ Used(p) /\ Life(p) = "alive" /\ Used(s) /\ ~Used(s)' /\ Life(s) = "dead" /\ p \in Parents(s)
               /\ KeepsAsking({})
               /\ \A q \in Slots : Passed(q)' <=> Passed(q) /\ Asking(q) # pid[s]

\* One of these.
Effect == \/ Quiet \/ Fails
          \/ \E p \in Slots : Begins(p) \/ Faults(p) \/ Misses(p) \/ Ends(p)
          \/ \E p \in Slots, k \in KillPids : Asks(p, k)
          \/ \E p, s \in Slots : Hits(p, s) \/ Adopts(p, s) \/ Births(p, s) \/ Reaps(p, s)

\* Parents are in use, and there is one at most.
LEMMA ParentsUsed ==
  ASSUME TypeOK, IInv, NEW s \in Slots, NEW q \in Parents(s)
  PROVE  Used(q) /\ state[q] # "ZOMBIE" /\ \A r \in Parents(s) : r = q
<1>1. ASSUME NEW r \in Slots, child[r] = s
      PROVE  pc[r] \in Forking /\ Used(r) /\ state[r] # "ZOMBIE" /\ (parent[s] \in Slots => parent[s] = r)
  BY <1>1, SlotFacts DEF IInv, ForkInv, Forking, LabelInv, Used
<1>2. ASSUME NEW r \in Slots, parent[s] = r PROVE Used(r) /\ state[r] # "ZOMBIE"
  BY <1>2, SlotFacts DEF IInv, ParentInv, Live, Used
<1>3. \A r1, r2 \in Slots : child[r1] = s /\ child[r2] = s => r1 = r2
  BY SlotFacts DEF IInv, ForkInv
<1>4. QED
  BY <1>1, <1>2, <1>3 DEF Parents

\* Who is in kill() stays there, at the same slot of its scan.
SameCalls(T) ==
  \A s \in Slots \ T : /\ pc'[s] = "kill" <=> pc[s] = "kill"
                       /\ pc[s] = "kill" => target'[s] = target[s] /\ scan'[s] = scan[s]

LEMMA CallsKept ==
  ASSUME NEW T \in SUBSET Slots, UNCHANGED pid, KeepsUsed({}), SameCalls(T)
  PROVE  KeepsCalls(T)
<1> SUFFICES ASSUME NEW s \in Slots \ T PROVE Asking(s)' = Asking(s) /\ (Passed(s)' <=> Passed(s))
  BY DEF KeepsCalls
<1>1. Asking(s)' = Asking(s) /\ (Asking(s) # 0 => scan'[s] = scan[s])
  BY DEF SameCalls, KeepsUsed, Used, Asking
<1>2. \A t \in Slots : state'[t] # "UNUSED" <=> state[t] # "UNUSED"
  BY DEF KeepsUsed, Used
<1>3. QED
  BY <1>1, <1>2 DEF Passed

\* A slot that is given out may have been passed by a kill() of its new pid; one that
\* is freed is named by no scan any more.
LEMMA CallsBirth ==
  ASSUME NEW s \in Slots, pid \in [Slots -> Nat], pid' = [pid EXCEPT ![s] = nextpid], SameCalls({}),
         KeepsUsed({s}), ~Used(s), Used(s)', pc[s] # "kill", pc'[s] # "kill"
  PROVE  /\ KeepsAsking({})
         /\ \A q \in Slots : Passed(q) => Passed(q)'
         /\ \A q \in Slots : Passed(q)' => Passed(q) \/ Asking(q) = nextpid
<1>1. \A q \in Slots : Asking(q)' = Asking(q) /\ (Asking(q) # 0 => scan'[q] = scan[q])
  BY DEF SameCalls, KeepsUsed, Used, Asking
<1>2. \A t \in Slots \ {s} : (state'[t] # "UNUSED" <=> state[t] # "UNUSED") /\ pid'[t] = pid[t]
  BY DEF KeepsUsed, Used
<1>3. state[s] = "UNUSED" /\ pid'[s] = nextpid
  BY DEF Used
<1>4. QED
  BY <1>1, <1>2, <1>3 DEF Passed, KeepsAsking

LEMMA CallsReap ==
  ASSUME TypeOK, IInv, NEW s \in Slots, pid' = [pid EXCEPT ![s] = 0], SameCalls({}),
         KeepsUsed({s}), Used(s), ~Used(s)', pc[s] # "kill", pc'[s] # "kill"
  PROVE  /\ KeepsAsking({})
         /\ \A q \in Slots : Passed(q)' <=> Passed(q) /\ Asking(q) # pid[s]
<1>1. \A q \in Slots : Asking(q)' = Asking(q) /\ (Asking(q) # 0 => scan'[q] = scan[q])
  BY DEF SameCalls, KeepsUsed, Used, Asking
<1>2. \A t \in Slots \ {s} : (state'[t] # "UNUSED" <=> state[t] # "UNUSED") /\ pid'[t] = pid[t]
  BY DEF KeepsUsed, Used, TypeOK
<1>3. state'[s] = "UNUSED" /\ \A t \in Slots : pid[t] = pid[s] => t = s
  BY DEF Used, IInv, PidInv
<1>4. QED
  BY <1>1, <1>2, <1>3 DEF Passed, KeepsAsking

\* A process whose kill() ends is in none.
LEMMA CallEnded ==
  ASSUME NEW p \in Slots, pc'[p] # "kill"
  PROVE  Asking(p)' = 0 /\ ~Passed(p)'
  BY DEF Asking, Passed

\* A step that writes neither pids, parents nor p->killed, and takes no slot into or
\* out of use, is Quiet if nobody begins or ends its exit.
LEMMA QuietStep ==
  ASSUME UNCHANGED <<pid, nextpid, parent, child, killed>>, KeepsUsed({}), KeepsLife({}), SameCalls({})
  PROVE  Quiet
<1>1. KeepsCalls({})
  BY CallsKept
<1>2. QED
  BY <1>1 DEF Quiet, KeepsKin, Keeps, KeepsParents, Parents

LEMMA EffectStep ==
  ASSUME TypeOK, IInv, NEW c \in CPUs,
         (\E s \in Slots : scheduler(c, s)) \/ swtch(c) \/ InProcess(c)
  PROVE  Effect
<1> USE SlotFacts, ProcAssumption DEF TypeOK, Free, Goto, At, fields, locals, KeepsUsed, KeepsLife, SameCalls, Used, Life, Exiting
<1>1. CASE \E s \in Slots : scheduler(c, s)
  BY <1>1, QuietStep DEF scheduler, Effect
<1>2. CASE swtch(c)
  BY <1>2, QuietStep DEF swtch, Effect
<1>3. CASE InProcess(c)
  <2>0. PICK p \in Slots : p = proc[c] /\ ~switching[c] /\ state[p] = "RUNNING"
    BY <1>3, Running
  <2>1. CASE Traps(c)
    <3>1. CASE kerneltrap(c) \/ usertrap_timer(c) \/ usertrap_return(c)
      BY <2>0, <3>1, QuietStep DEF kerneltrap, usertrap_timer, usertrap_return, yield, sched, Effect
    <3>2. CASE usertrap_killed(c)
      <4>1. p # initproc
        BY <2>0, <3>2 DEF usertrap_killed, IInv, InitStays
      <4>2. KeepsCalls({}) /\ Asking(p) = 0
        BY <2>0, <3>2, CallsKept DEF usertrap_killed, CheckKilled, Asking
      <4>3. Begins(p)
        BY <2>0, <3>2, <4>1, <4>2 DEF usertrap_killed, CheckKilled, Begins, Keeps, KeepsParents, Parents
      <4>4. QED
        BY <4>3 DEF Effect
    <3>3. CASE usertrap_fault(c)
      <4>1. KeepsCalls({}) /\ Asking(p) = 0
        BY <2>0, <3>3, CallsKept DEF usertrap_fault, Asking
      <4>2. Faults(p)
        BY <2>0, <3>3, <4>1 DEF usertrap_fault, Faults, KeepsKin, Keeps, KeepsParents, Parents
      <4>3. QED
        BY <4>2 DEF Effect
    <3>4. QED
      BY <2>1, <3>1, <3>2, <3>3 DEF Traps
  <2>2. CASE Calls(c)
    <3>1. CASE sys_fork(c) \/ sys_wait(c)
      BY <2>0, <3>1, QuietStep DEF sys_fork, sys_wait, syscall, Effect
    <3>2. CASE sys_exit(c)
      <4>1. KeepsCalls({}) /\ Asking(p) = 0
        BY <2>0, <3>2, CallsKept DEF sys_exit, syscall, Asking
      <4>2. Begins(p)
        BY <2>0, <3>2, <4>1 DEF sys_exit, syscall, Begins, Keeps, KeepsParents, Parents
      <4>3. QED
        BY <4>2 DEF Effect
    <3>3. ASSUME NEW k \in KillPids, sys_kill(c, k) PROVE Effect
      <4>1. KeepsCalls({p}) /\ Asking(p) = 0
        BY <2>0, <3>3, CallsKept DEF sys_kill, syscall, Asking
      <4>2. Asking(p)' = k /\ scan'[p] = 1
        BY <2>0, <3>3 DEF sys_kill, syscall, Asking
      <4>3. ~Passed(p)'
        BY <4>2, Order DEF Passed
      <4>4. KeepsKin /\ UNCHANGED killed
        BY <2>0, <3>3 DEF sys_kill, syscall, KeepsKin, Keeps, KeepsParents, Parents
      <4>5. QED
        BY <2>0, <3>3, <4>1, <4>2, <4>3, <4>4 DEF sys_kill, syscall, Asks, Effect
    <3>4. QED
      BY <2>2, <3>1, <3>2, <3>3 DEF Calls
  <2>3. CASE Allocs(c)
    <3>1. CASE allocproc_next(c) \/ allocproc_full(c)
      BY <2>0, <3>1, QuietStep DEF allocproc_next, allocproc_full, Effect
    <3>2. CASE allocproc_found(c)
      <4>1. PICK s \in Slots : s = scan[p] /\ state[s] = "UNUSED" /\ child[p] = NoProc /\ s # p
        BY <2>0, <3>2 DEF allocproc_found, IInv, ForkInv, Forking
      <4>2. Parents(s)' = {p}
        <5>1. parent[s] = NoProc /\ \A q \in Slots : child[q] # s
          BY <4>1 DEF IInv, ForkInv, Forking
        <5>2. QED
          BY <2>0, <3>2, <4>1, <5>1 DEF allocproc_found, Parents
      <4>3. KeepsParents({s})
        BY <2>0, <3>2, <4>1 DEF allocproc_found, KeepsParents, Parents
      <4>4. SameCalls({}) /\ pid' = [pid EXCEPT ![s] = nextpid] /\ KeepsUsed({s}) /\ ~Used(s) /\ Used(s)'
        BY <2>0, <3>2, <4>1 DEF allocproc_found, IInv, LabelInv
      <4>5. pc[s] # "kill" /\ pc'[s] # "kill"
        BY <2>0, <3>2, <4>1 DEF allocproc_found, IInv, LabelInv
      <4>6. Births(p, s)
        BY <2>0, <3>2, <4>1, <4>2, <4>3, <4>4, <4>5, CallsBirth DEF allocproc_found, Births
      <4>7. QED
        BY <4>1, <4>6 DEF Effect
    <3>3. CASE allocproc_nomem(c)
      <4>1. PICK s \in Slots : s = scan[p] /\ state[s] = "UNUSED" /\ s # p
        BY <2>0, <3>3 DEF allocproc_nomem
      <4>2. pid[s] = 0 /\ parent[s] = NoProc /\ (0 \notin KillPids => ~killed[s])
        BY <4>1 DEF IInv, PidInv, ForkInv
      <4>3. UNCHANGED <<pid, parent, child>> /\ nextpid' = nextpid + 1
        BY <2>0, <3>3, <4>1, <4>2 DEF allocproc_nomem, freeproc
      <4>4. 0 \notin KillPids => UNCHANGED killed
        BY <2>0, <3>3, <4>1, <4>2 DEF allocproc_nomem, freeproc
      <4>5. KeepsUsed({}) /\ KeepsLife({}) /\ SameCalls({})
        BY <2>0, <3>3, <4>1 DEF allocproc_nomem, freeproc
      <4>6. KeepsCalls({})
        BY <4>3, <4>5, CallsKept
      <4>7. QED
        BY <4>3, <4>4, <4>5, <4>6 DEF Fails, KeepsParents, Parents, Effect
    <3>4. QED
      BY <2>3, <3>1, <3>2, <3>3 DEF Allocs
  <2>4. CASE Forks(c)
    <3> DEFINE s == child[p]
    <3>1. /\ s \in Slots /\ state[s] = "USED" /\ pc[s] = "user" /\ s # p
          /\ parent[s] = IF pc[p] = "fork_run" THEN p ELSE NoProc
      BY <2>0, <2>4 DEF Forks, fork_parent, fork_run, IInv, ForkInv, Forking, LabelInv
    <3>2. \A q \in Slots : child[q] = s => q = p
      BY <3>1 DEF IInv, ForkInv
    <3>3. CASE fork_parent(c)
      <4>1. KeepsParents({})
        BY <2>0, <3>1, <3>2, <3>3 DEF fork_parent, KeepsParents, Parents
      <4>2. KeepsCalls({})
        BY <2>0, <3>3, CallsKept DEF fork_parent
      <4>3. QED
        BY <2>0, <3>3, <4>1, <4>2 DEF fork_parent, Quiet, KeepsKin, Keeps, Effect
    <3>4. CASE fork_run(c)
      <4>1. KeepsParents({})
        BY <2>0, <3>1, <3>2, <3>4 DEF fork_run, KeepsParents, Parents
      <4>2. KeepsCalls({})
        BY <2>0, <3>1, <3>4, CallsKept DEF fork_run
      <4>3. QED
        BY <2>0, <3>1, <3>4, <4>1, <4>2 DEF fork_run, Quiet, KeepsKin, Keeps, Effect
    <3>5. QED
      BY <2>4, <3>3, <3>4 DEF Forks
  <2>5. CASE Exits(c)
    <3>1. CASE kexit(c) \/ reparent_done(c)
      BY <2>0, <3>1, QuietStep DEF kexit, reparent_done, Effect
    <3>2. CASE reparent(c)
      <4>0. PICK s \in Slots : s = scan[p]
        BY <2>0, <3>2 DEF reparent
      <4>1. CASE parent[s] = p
        <5>1. Used(s)
          BY <2>0, <4>1 DEF IInv, ForkInv
        <5>2. KeepsParents({s}) /\ initproc \in Parents(s)' /\ p \in Parents(s)
          BY <2>0, <3>2, <4>0, <4>1, <5>1 DEF reparent, Adopt, KeepsParents, Parents
        <5>3. KeepsCalls({})
          BY <2>0, <3>2, <4>0, <4>1, CallsKept DEF reparent
        <5>4. Adopts(p, s)
          BY <2>0, <3>2, <4>0, <4>1, <5>1, <5>2, <5>3 DEF reparent, Adopts, Keeps
        <5>5. QED
          BY <5>1, <5>4 DEF Effect
      <4>2. CASE parent[s] # p
        BY <2>0, <3>2, <4>0, <4>2, QuietStep DEF reparent, Effect
      <4>3. QED
        BY <4>1, <4>2
    <3>3. CASE exit_zombie(c)
      <4>1. \A s \in Slots : parent[s] # p /\ child[p] # s
        BY <2>0, <3>3 DEF exit_zombie, IInv, ParentInv, ForkInv, Forking
      <4>2. KeepsCalls({})
        BY <2>0, <3>3, CallsKept DEF exit_zombie, sched
      <4>3. Ends(p)
        BY <2>0, <3>3, <4>1, <4>2 DEF exit_zombie, sched, Ends, Keeps, KeepsParents, Parents
      <4>4. QED
        BY <4>3 DEF Effect
    <3>4. QED
      BY <2>5, <3>1, <3>2, <3>3 DEF Exits
  <2>6. CASE Wakeups(c)
    BY <2>0, <2>6, QuietStep DEF Wakeups, wakeup_init, wakeup_init_done, wakeup_parent, wakeup_parent_done,
       wakeup, Wake, Effect
  <2>7. CASE Waits(c)
    <3>1. CASE kwait(c) \/ wait_next(c) \/ wait_check(c) \/ sleep(c)
      BY <2>0, <3>1, QuietStep DEF kwait, wait_next, wait_check, sleep, hold_lock, Effect
    <3>2. CASE sleep_sched(c)
      BY <2>0, <3>2, QuietStep DEF sleep_sched, sched, Effect
    <3>3. CASE wait_reap(c)
      <4>1. PICK s \in Slots : s = scan[p] /\ parent[s] = p /\ state[s] = "ZOMBIE" /\ s # p
        BY <2>0, <3>3 DEF wait_reap
      <4>2. CASE UNCHANGED <<state, chan, killed, pid, parent>>
        BY <2>0, <3>3, <4>1, <4>2, QuietStep DEF wait_reap, Effect
      <4>3. CASE freeproc(s)
        <5>1. p \in Parents(s)
          BY <4>1 DEF Parents
        <5>2. KeepsParents({s})
          BY <2>0, <3>3, <4>1, <4>3 DEF wait_reap, freeproc, KeepsParents, Parents
        <5>3. /\ SameCalls({}) /\ pid' = [pid EXCEPT ![s] = 0] /\ KeepsUsed({s}) /\ Used(s) /\ ~Used(s)'
              /\ pc[s] # "kill" /\ pc'[s] # "kill"
          BY <2>0, <3>3, <4>1, <4>3 DEF wait_reap, freeproc, IInv, LabelInv
        <5>4. KeepsAsking({}) /\ \A q \in Slots : Passed(q)' <=> Passed(q) /\ Asking(q) # pid[s]
          BY <5>3, CallsReap
        <5>5. /\ UNCHANGED nextpid /\ killed' = [killed EXCEPT ![s] = FALSE] /\ KeepsLife({s})
              /\ Life(p) = "alive" /\ Used(p) /\ Life(s) = "dead"
          BY <2>0, <3>3, <4>1, <4>3 DEF wait_reap, freeproc
        <5>6. Reaps(p, s)
          BY <5>1, <5>2, <5>3, <5>4, <5>5 DEF Reaps
        <5>7. QED
          BY <5>6 DEF Effect
      <4>4. QED
        BY <2>0, <3>3, <4>1, <4>2, <4>3 DEF wait_reap
    <3>4. QED
      BY <2>7, <3>1, <3>2, <3>3 DEF Waits
  <2>8. CASE Kills(c)
    <3>0. pc[p] = "kill" /\ target[p] \in KillPids /\ Asking(p) = target[p] /\ Used(p)
      BY <2>0, <2>8 DEF Kills, kkill, kkill_next, kkill_none, IInv, InitStays, Asking
    <3>1. CASE kkill_next(c)
      <4>1. KeepsUsed({}) /\ SameCalls({p}) /\ UNCHANGED pid
        BY <2>0, <3>1 DEF kkill_next
      <4>2. KeepsCalls({p})
        BY <4>1, CallsKept
      <4>3. /\ scan[p] \in Slots /\ pid[scan[p]] # target[p] /\ scan'[p] = scan[p] + 1
            /\ UNCHANGED <<state, pc, target>>
        BY <2>0, <3>1 DEF kkill_next
      <4>4. Asking(p)' = Asking(p)
        BY <4>3 DEF Asking
      <4>5. \A t \in Slots : t < scan'[p] <=> t < scan[p] \/ t = scan[p]
        BY <4>3, Order
      <4>6. Passed(p)' <=> Passed(p)
        BY <3>0, <4>1, <4>3, <4>4, <4>5 DEF Passed
      <4>7. Quiet
        BY <2>0, <3>1, <4>2, <4>4, <4>6 DEF kkill_next, Quiet, KeepsCalls, KeepsKin, Keeps, KeepsParents, Parents
      <4>8. QED
        BY <4>7 DEF Effect
    <3>2. CASE kkill(c)
      <4>1. PICK s \in Slots : s = scan[p] /\ pid[s] = target[p] /\ pid[s] \in KillPids
        BY <2>0, <3>0, <3>2 DEF kkill
      <4>2. 0 \notin KillPids => Used(s)
        BY <4>1 DEF IInv, PidInv
      <4>3. KeepsKin /\ killed' = [killed EXCEPT ![s] = TRUE] /\ SameCalls({p}) /\ pc'[p] # "kill"
        BY <2>0, <3>2, <4>1, <4>2 DEF kkill, KeepsKin, Keeps, KeepsParents, Parents
      <4>4. KeepsCalls({p}) /\ Asking(p)' = 0 /\ ~Passed(p)'
        BY <4>3, CallsKept, CallEnded DEF KeepsKin, Keeps
      <4>5. Hits(p, s)
        BY <3>0, <4>1, <4>2, <4>3, <4>4 DEF Hits
      <4>6. QED
        BY <4>1, <4>5 DEF Effect
    <3>3. CASE kkill_none(c)
      <4>1. KeepsKin /\ UNCHANGED killed /\ SameCalls({p}) /\ pc'[p] # "kill" /\ scan[p] > NPROC
        BY <2>0, <3>3 DEF kkill_none, KeepsKin, Keeps, KeepsParents, Parents
      <4>2. KeepsCalls({p}) /\ Asking(p)' = 0 /\ ~Passed(p)'
        BY <4>1, CallsKept, CallEnded DEF KeepsKin, Keeps
      <4>3. \A t \in Slots : t < scan[p]
        BY <4>1, Order
      <4>4. \A t \in Slots : Used(t) /\ pid[t] = Asking(p) /\ Asking(p) # 0 => Passed(p)
        BY <4>3 DEF Passed
      <4>5. Misses(p)
        BY <3>0, <4>1, <4>2, <4>4 DEF Misses
      <4>6. QED
        BY <4>5 DEF Effect
    <3>4. QED
      BY <2>8, <3>1, <3>2, <3>3 DEF Kills
  <2>9. QED
    BY <1>3, <2>1, <2>2, <2>3, <2>4, <2>5, <2>6, <2>7, <2>8 DEF InProcess
<1>4. QED
  BY <1>1, <1>2, <1>3

-----------------------------------------------------------------------------
(* Pids.                                                                   *)

LEMMA AllocatingFinite ==
  ASSUME TypeOK
  PROVE  IsFiniteSet(Allocating) /\ Cardinality(Allocating) \in Nat
<1>1. IsFiniteSet(Slots)
  BY ProcAssumption, FS_Interval DEF Slots
<1>2. QED
  BY <1>1, FS_Subset, FS_CardinalityType DEF Allocating

\* Who is in allocproc(): every one of them can still be given a pid.
LEMMA AllocatingMoves ==
  ASSUME TypeOK, IInv, NEW c \in CPUs,
         (\E s \in Slots : scheduler(c, s)) \/ swtch(c) \/ InProcess(c)
  PROVE  \/ Allocating' = Allocating /\ nextpid' = nextpid
         \/ \E p \in Slots : /\ nextpid + Cardinality(Allocating) <= MaxPid /\ nextpid' = nextpid
                             /\ p \notin Allocating /\ Allocating' = Allocating \cup {p}
         \/ \E p \in Slots : /\ nextpid' \in {nextpid, nextpid + 1}
                             /\ p \in Allocating /\ Allocating' = Allocating \ {p}
<1> USE SlotFacts, ProcAssumption DEF TypeOK, Free, Goto, At, fields, locals, Allocating
<1>1. CASE (\E s \in Slots : scheduler(c, s)) \/ swtch(c)
  BY <1>1 DEF scheduler, swtch
<1>2. CASE InProcess(c)
  <2>0. PICK p \in Slots : p = proc[c] /\ ~switching[c] /\ state[p] = "RUNNING"
    BY <1>2, Running
  <2>1. CASE Traps(c)
    BY <2>0, <2>1 DEF Traps, kerneltrap, usertrap_timer, usertrap_killed, usertrap_return, usertrap_fault,
       yield, sched, CheckKilled
  <2>2. CASE Calls(c)
    <3>1. CASE sys_fork(c)
      <4>1. nextpid + Cardinality(Allocating) <= MaxPid /\ nextpid' = nextpid
        BY <3>1 DEF sys_fork
      <4>2. p \notin Allocating /\ Allocating' = Allocating \cup {p}
        BY <2>0, <3>1 DEF sys_fork, syscall
      <4>3. QED
        BY <4>1, <4>2
    <3>2. CASE sys_exit(c) \/ sys_wait(c) \/ \E k \in KillPids : sys_kill(c, k)
      BY <2>0, <3>2 DEF sys_exit, sys_wait, sys_kill, syscall
    <3>3. QED
      BY <2>2, <3>1, <3>2 DEF Calls
  <2>3. CASE Allocs(c)
    <3>1. CASE allocproc_next(c)
      BY <2>0, <3>1 DEF allocproc_next
    <3>2. CASE allocproc_found(c)
      <4>1. PICK s \in Slots : s = scan[p] /\ state[s] = "UNUSED" /\ s # p
        BY <2>0, <3>2 DEF allocproc_found
      <4>2. pc[s] # "allocproc"
        BY <4>1 DEF IInv, LabelInv
      <4>3. QED
        BY <2>0, <3>2, <4>1, <4>2 DEF allocproc_found
    <3>3. CASE allocproc_nomem(c)
      BY <2>0, <3>3 DEF allocproc_nomem, freeproc
    <3>4. CASE allocproc_full(c)
      BY <2>0, <3>4 DEF allocproc_full
    <3>5. QED
      BY <2>3, <3>1, <3>2, <3>3, <3>4 DEF Allocs
  <2>4. CASE Forks(c)
    BY <2>0, <2>4 DEF Forks, fork_parent, fork_run
  <2>5. CASE Exits(c)
    BY <2>0, <2>5 DEF Exits, kexit, reparent, reparent_done, exit_zombie, sched
  <2>6. CASE Wakeups(c)
    BY <2>0, <2>6 DEF Wakeups, wakeup_init, wakeup_init_done, wakeup_parent, wakeup_parent_done, wakeup
  <2>7. CASE Waits(c)
    BY <2>0, <2>7 DEF Waits, kwait, wait_next, wait_reap, wait_check, sleep, sleep_sched, hold_lock, sched,
       freeproc
  <2>8. CASE Kills(c)
    BY <2>0, <2>8 DEF Kills, kkill, kkill_next, kkill_none
  <2>9. QED
    BY <1>2, <2>1, <2>2, <2>3, <2>4, <2>5, <2>6, <2>7, <2>8 DEF InProcess
<1>3. QED
  BY <1>1, <1>2

LEMMA PidInvStep ==
  ASSUME TypeOK, IInv, TypeOK', NEW c \in CPUs,
         (\E s \in Slots : scheduler(c, s)) \/ swtch(c) \/ InProcess(c)
  PROVE  PidInv'
<1>1. nextpid' + Cardinality(Allocating') <= MaxPid + 1
  <2> DEFINE A == Allocating
             B == Allocating'
  <2>1. IsFiniteSet(A) /\ Cardinality(A) \in Nat
    BY AllocatingFinite
  <2>2. nextpid \in Nat /\ MaxPid \in Nat /\ nextpid + Cardinality(A) <= MaxPid + 1
    BY ProcAssumption DEF TypeOK, IInv, PidInv
  <2>3. \/ B = A /\ nextpid' = nextpid
        \/ \E p \in Slots : /\ nextpid + Cardinality(A) <= MaxPid /\ nextpid' = nextpid
                            /\ p \notin A /\ B = A \cup {p}
        \/ \E p \in Slots : nextpid' \in {nextpid, nextpid + 1} /\ p \in A /\ B = A \ {p}
    BY AllocatingMoves
  <2> HIDE DEF A, B
  <2>4. ASSUME NEW p, p \notin A, B = A \cup {p} PROVE Cardinality(B) = Cardinality(A) + 1
    BY <2>1, <2>4, FS_AddElement
  <2>5. ASSUME NEW p, p \in A, B = A \ {p} PROVE Cardinality(B) = Cardinality(A) - 1
    BY <2>1, <2>5, FS_RemoveElement
  <2>6. QED
    BY <2>1, <2>2, <2>3, <2>4, <2>5 DEF B
<1>2. /\ \A s \in Slots : Used(s) => pid[s] \in 1 .. nextpid - 1
      /\ \A s \in Slots : ~Used(s) => pid[s] = 0
      /\ \A s, t \in Slots : Used(s) /\ pid[s] = pid[t] => s = t
      /\ 0 \notin KillPids => \A s \in Slots : killed[s] => Used(s)
      /\ nextpid \in Nat
  BY DEF IInv, PidInv, Used, TypeOK
<1>3. pid \in [Slots -> Nat] /\ killed \in [Slots -> BOOLEAN]
  BY DEF TypeOK
<1>4. /\ \A s \in Slots : Used(s)' => pid'[s] \in 1 .. nextpid' - 1
      /\ \A s \in Slots : ~Used(s)' => pid'[s] = 0
      /\ \A s, t \in Slots : Used(s)' /\ pid'[s] = pid'[t] => s = t
      /\ 0 \notin KillPids => \A s \in Slots : killed'[s] => Used(s)'
  <2>1. CASE Quiet
    BY <1>2, <2>1 DEF Quiet, KeepsKin, Keeps, KeepsUsed
  <2>2. CASE Fails
    BY <1>2, <2>2 DEF Fails, KeepsUsed
  <2>3. ASSUME NEW p \in Slots, Begins(p) \/ Ends(p) \/ Misses(p) \/ \E k \in KillPids : Asks(p, k)
        PROVE  Keeps /\ UNCHANGED killed
    BY <2>3 DEF Begins, Ends, Misses, Asks, KeepsKin
  <2>4. ASSUME NEW p \in Slots, NEW s \in Slots, Adopts(p, s)
        PROVE  Keeps /\ UNCHANGED killed
    BY <2>4 DEF Adopts
  <2>5. CASE Keeps /\ UNCHANGED killed
    BY <1>2, <2>5 DEF Keeps, KeepsUsed
  <2>6. ASSUME NEW p \in Slots, NEW s \in Slots, Faults(s) \/ Hits(p, s)
        PROVE  <1>4!:
    BY <1>2, <1>3, <2>6 DEF Faults, Hits, KeepsKin, Keeps, KeepsUsed
  <2>7. ASSUME NEW p \in Slots, NEW s \in Slots, Births(p, s)
        PROVE  <1>4!:
    BY <1>2, <1>3, <2>7 DEF Births, KeepsUsed
  <2>8. ASSUME NEW p \in Slots, NEW s \in Slots, Reaps(p, s)
        PROVE  <1>4!:
    BY <1>2, <1>3, <2>8 DEF Reaps, KeepsUsed
  <2>9. QED
    BY <2>1, <2>2, <2>3, <2>4, <2>5, <2>6, <2>7, <2>8, EffectStep DEF Effect
<1>5. QED
  BY <1>1, <1>4 DEF PidInv, Used

-----------------------------------------------------------------------------
LEMMA InitInv == Init => TypeOK /\ IInv
<1> SUFFICES ASSUME Init PROVE TypeOK /\ IInv
  OBVIOUS
<1> USE SlotFacts, ProcAssumption
<1>1. TypeOK
  BY DEF Init, TypeOK, States, PC
<1>2. LocksHeld /\ StackInUse /\ CpuInv
  BY DEF Init, LocksHeld, StackInUse, CpuInv, At
<1>3. LabelInv /\ ForkInv /\ InitStays
  BY DEF Init, LabelInv, ForkInv, InitStays, Live, Exiting, Forking, Preemptible
<1>4. ParentInv /\ SleepInv
  BY DEF Init, ParentInv, SleepInv, ScanInv, SleeperHasKids, SleeperMissedNone, PassedAwake, Asleep,
         PassedParent, Live
<1>5. PidInv
  <2>1. Allocating = {} /\ Cardinality(Allocating) = 0
    BY FS_EmptySet DEF Init, Allocating
  <2>2. QED
    BY <2>1 DEF Init, PidInv
<1>6. QED
  BY <1>1, <1>2, <1>3, <1>4, <1>5 DEF IInv

LEMMA NextInv == TypeOK /\ IInv /\ [Next]_vars => TypeOK' /\ IInv'
<1> SUFFICES ASSUME TypeOK, IInv, [Next]_vars PROVE TypeOK' /\ IInv'
  OBVIOUS
<1>1. CASE Next
  <2>1. PICK c \in CPUs : (\E s \in Slots : scheduler(c, s)) \/ swtch(c) \/ InProcess(c)
    BY <1>1, NextSplit
  <2>2. TypeOK' /\ LocksHeld' /\ StackInUse' /\ CpuInv' /\ LabelInv' /\ ForkInv'
    BY <2>1, TypeOKStep, LocksHeldStep, StackInUseStep, CpuInvStep, LabelInvStep, ForkInvStep
  <2>3. InitStays' /\ ParentInv' /\ ScanInv' /\ SleeperHasKids'
    BY <2>1, InitStaysStep, ParentInvStep, ScanInvStep, SleeperHasKidsStep
  <2>4. SleeperMissedNone' /\ PassedAwake'
    BY <2>1, SleeperMissedNoneStep, PassedAwakeStep
  <2>5. PidInv'
    BY <2>1, <2>2, PidInvStep
  <2>6. QED
    BY <2>2, <2>3, <2>4, <2>5 DEF IInv, SleepInv
<1>2. CASE UNCHANGED vars
  <2>1. TypeOK' /\ LocksHeld' /\ StackInUse' /\ CpuInv'
    BY <1>2 DEF vars, IInv, TypeOK, LocksHeld, StackInUse, CpuInv, At
  <2>2. LabelInv' /\ ForkInv' /\ InitStays'
    BY <1>2 DEF vars, IInv, LabelInv, ForkInv, InitStays
  <2>3. ParentInv' /\ SleepInv'
    BY <1>2 DEF vars, IInv, ParentInv, SleepInv, ScanInv, SleeperHasKids, SleeperMissedNone, PassedAwake,
                Asleep, NoZombies, HaveKids, PassedParent
  <2>4. PidInv'
    BY <1>2 DEF vars, IInv, PidInv, Allocating
  <2>5. QED
    BY <2>1, <2>2, <2>3, <2>4 DEF IInv
<1>3. QED
  BY <1>1, <1>2

\* p->lock and wait_lock are held exactly where the code says, also across swtch(), and
\* so no kernel stack is in use twice or freed in use, with any number of CPUs.
THEOREM StacksSafe == Spec => []StackInv
<1>1. Init => TypeOK /\ IInv
  BY InitInv
<1>2. TypeOK /\ IInv /\ [Next]_vars => (TypeOK /\ IInv)'
  BY NextInv
<1>3. TypeOK /\ IInv => StackInv
  BY DEF StackInv
<1>4. QED
  BY <1>1, <1>2, <1>3, PTL DEF Spec

\* A parent asleep in kwait() has a child and has missed no zombie: the wakeup() of
\* kexit() comes before ZOMBIE, and wait_lock covers both the scan and the sleep.
THEOREM NoExitMissed == Spec => []NoMissedExit
<1>1. StackInv => NoMissedExit
  <2> SUFFICES ASSUME TypeOK, IInv, NEW p \in Slots, state[p] = "SLEEPING", wait_lock = NoCpu
               PROVE  HaveKids(p) /\ NoZombies(p)
    BY DEF StackInv, NoMissedExit, NoZombies
  <2>1. \A q \in Slots : pc[q] # "wakeinit"
    BY OneInside DEF InWaitLock
  <2>2. Asleep(p)
    BY DEF Asleep
  <2>3. QED
    BY <2>1, <2>2 DEF IInv, SleepInv, SleeperHasKids, SleeperMissedNone
<1>2. QED
  BY <1>1, StacksSafe, PTL

\* Every process but init has a parent that can still wait for it: reparent() has given
\* away every child before its caller becomes a zombie.
THEOREM ParentsCanWait == Spec => []OrphansAdopted
<1>1. StackInv => OrphansAdopted
  <2> SUFFICES ASSUME TypeOK, IInv PROVE OrphansAdopted
    BY DEF StackInv
  <2>1. \A s \in Slots : state[s] \notin {"UNUSED", "USED"} => state[s] \in Live \cup {"ZOMBIE"}
    BY DEF TypeOK, States, Live
  <2>2. QED
    BY <2>1 DEF OrphansAdopted, IInv, ParentInv, Live
<1>2. QED
  BY <1>1, StacksSafe, PTL

-----------------------------------------------------------------------------
(* proc.c implements Family.                                               *)

\* The status of a pid is that of its slot.
StatusCases ==
  \A k \in Pids :
    /\ k >= nextpid => StatusOf(k) = "none"
    /\ \A s \in Slots : Used(s) /\ pid[s] = k => k < nextpid /\ StatusOf(k) = Life(s)
    /\ k < nextpid /\ (\A s \in Slots : Used(s) => pid[s] # k) => StatusOf(k) = "gone"

\* The parent of a pid is that of its slot.
ParentCases ==
  \A k \in Pids :
    /\ (\A s \in Slots : Used(s) => pid[s] # k) => ParentOf(k) = 0
    /\ \A s \in Slots : Used(s) /\ pid[s] = k =>
         /\ \A q \in Parents(s) : ParentOf(k) = pid[q]
         /\ Parents(s) = {} => ParentOf(k) = 0

\* The call of a pid is that of its slot.
AskedCases ==
  \A k \in Pids :
    /\ (\A s \in Slots : Used(s) => pid[s] # k) => AskedOf(k) = 0
    /\ \A s \in Slots : Used(s) /\ pid[s] = k => AskedOf(k) = Asking(s)

\* Pids, and the set of parents.
PidCases ==
  /\ \A s \in Slots : Used(s) => pid[s] \in Pids /\ pid[s] < nextpid
  /\ \A s, t \in Slots : Used(s) /\ pid[s] = pid[t] => s = t
  /\ \A s \in Slots : \A q \in Parents(s) : Used(q) /\ state[q] # "ZOMBIE" /\ q \in Slots
  /\ \A k \in Pids : k \in Nat
  /\ nextpid \in Nat /\ nextpid <= MaxPid + 1
  /\ pid[initproc] = 1 /\ Used(initproc) /\ initproc \in Slots
  /\ 0 \notin KillPids => \A s \in Slots : killed[s] => Used(s)

Cases == StatusCases /\ ParentCases /\ AskedCases /\ PidCases

LEMMA FamilyCases == TypeOK /\ IInv => Cases
<1> SUFFICES ASSUME TypeOK, IInv PROVE Cases
  OBVIOUS
<1>1. PidCases
  <2>1. nextpid \in Nat /\ MaxPid \in Nat /\ nextpid <= MaxPid + 1
    <3>1. nextpid \in Nat /\ MaxPid \in Nat /\ nextpid + Cardinality(Allocating) <= MaxPid + 1
      BY ProcAssumption DEF TypeOK, IInv, PidInv
    <3>2. QED
      BY <3>1, AllocatingFinite
  <2>2. \A s \in Slots : Used(s) => pid[s] \in Pids /\ pid[s] < nextpid
    BY <2>1 DEF IInv, PidInv, Used, Pids, TypeOK
  <2>3. \A s, t \in Slots : Used(s) /\ pid[s] = pid[t] => s = t
    BY DEF IInv, PidInv, Used
  <2>4. \A s \in Slots : \A q \in Parents(s) : Used(q) /\ state[q] # "ZOMBIE" /\ q \in Slots
    BY ParentsUsed DEF Parents
  <2>5. pid[initproc] = 1 /\ Used(initproc) /\ initproc \in Slots
    BY SlotFacts DEF IInv, InitStays, Live, Used
  <2>6. 0 \notin KillPids => \A s \in Slots : killed[s] => Used(s)
    BY DEF IInv, PidInv, Used
  <2>7. QED
    BY <2>1, <2>2, <2>3, <2>4, <2>5, <2>6 DEF PidCases, Pids
<1>2. ASSUME NEW k \in Pids, NEW s \in Slots, Used(s), pid[s] = k
      PROVE  SlotsOf(k) = {s}
  BY <1>1, <1>2 DEF PidCases, SlotsOf, Used
<1>3. ASSUME NEW k \in Pids, \A s \in Slots : Used(s) => pid[s] # k
      PROVE  SlotsOf(k) = {}
  BY <1>3 DEF SlotsOf, Used
<1>4. StatusCases
  <2> SUFFICES ASSUME NEW k \in Pids
               PROVE  /\ k >= nextpid => StatusOf(k) = "none"
                      /\ \A s \in Slots : Used(s) /\ pid[s] = k => k < nextpid /\ StatusOf(k) = Life(s)
                      /\ k < nextpid /\ (\A s \in Slots : Used(s) => pid[s] # k) => StatusOf(k) = "gone"
    BY DEF StatusCases
  <2>1. k \in Nat /\ nextpid \in Nat
    BY <1>1 DEF PidCases
  <2>2. k >= nextpid => StatusOf(k) = "none"
    BY DEF StatusOf
  <2>3. ASSUME NEW s \in Slots, Used(s), pid[s] = k PROVE k < nextpid /\ StatusOf(k) = Life(s)
    <3>1. k < nextpid /\ ~(k >= nextpid)
      BY <1>1, <2>1, <2>3 DEF PidCases
    <3>2. SlotsOf(k) = {s}
      BY <1>2, <2>3
    <3>3. QED
      BY <3>1, <3>2 DEF StatusOf, Life
  <2>4. ASSUME k < nextpid, \A s \in Slots : Used(s) => pid[s] # k PROVE StatusOf(k) = "gone"
    <3>1. SlotsOf(k) = {} /\ ~(k >= nextpid)
      BY <1>3, <2>1, <2>4
    <3>2. QED
      BY <3>1 DEF StatusOf
  <2>5. QED
    BY <2>2, <2>3, <2>4
<1>5. ParentCases
  <2>1. ASSUME NEW k \in Pids, \A s \in Slots : Used(s) => pid[s] # k PROVE ParentOf(k) = 0
    BY <1>3, <2>1 DEF ParentOf
  <2>2. ASSUME NEW k \in Pids, NEW s \in Slots, Used(s), pid[s] = k
        PROVE  ParentOf(k) = IF Parents(s) = {} THEN 0 ELSE pid[CHOOSE q \in Parents(s) : TRUE]
    <3>1. SlotsOf(k) = {s}
      BY <1>2, <2>2
    <3> DEFINE P == {q \in Slots : \E t \in SlotsOf(k) : parent[t] = q \/ child[q] = t}
    <3>2. P = Parents(s)
      BY <3>1 DEF Parents
    <3>3. ParentOf(k) = IF P = {} THEN 0 ELSE pid[CHOOSE q \in P : TRUE]
      BY DEF ParentOf
    <3> HIDE DEF P
    <3>4. QED
      BY <3>2, <3>3
  <2>3. ASSUME NEW k \in Pids, NEW s \in Slots, Used(s), pid[s] = k, NEW q \in Parents(s)
        PROVE  ParentOf(k) = pid[q]
    <3>1. ParentOf(k) = pid[CHOOSE r \in Parents(s) : TRUE] /\ Parents(s) # {}
      BY <2>2, <2>3
    <3>2. (CHOOSE r \in Parents(s) : TRUE) \in Parents(s)
      BY <2>3
    <3>3. QED
      BY <3>1, <3>2, ParentsUsed
  <2>4. QED
    BY <2>1, <2>2, <2>3 DEF ParentCases
<1>6. AskedCases
  <2>1. ASSUME NEW k \in Pids, \A s \in Slots : Used(s) => pid[s] # k PROVE AskedOf(k) = 0
    BY <1>3, <2>1 DEF AskedOf
  <2>2. ASSUME NEW k \in Pids, NEW s \in Slots, Used(s), pid[s] = k PROVE AskedOf(k) = Asking(s)
    <3>1. SlotsOf(k) = {s} /\ (CHOOSE t \in {s} : TRUE) = s
      BY <1>2, <2>2
    <3>2. QED
      BY <3>1 DEF AskedOf
  <2>3. QED
    BY <2>1, <2>2 DEF AskedCases
<1>7. QED
  BY <1>1, <1>4, <1>5, <1>6 DEF Cases

LEMMA FamilyCasesNext == (TypeOK /\ IInv)' => Cases'
  BY FamilyCases, PTL

\* The family as Family sees it.
StatusMap == [k \in Pids |-> StatusOf(k)]
ParentMap == [k \in Pids |-> ParentOf(k)]
Doomed == {pid[s] : s \in {q \in Slots : killed[q]}}
AskedMap == [k \in Pids |-> AskedOf(k)]
MissedMap == {pid[s] : s \in {q \in Slots : Passed(q)}}

\* The slot of k stays its slot, if it has one.
SameSlot(k) == \A s \in Slots : Used(s)' /\ pid'[s] = k <=> Used(s) /\ pid[s] = k

\* The family does not change where the slot does not.
LEMMA StatusKept ==
  ASSUME Cases, Cases', NEW k \in Pids, SameSlot(k), k >= nextpid' <=> k >= nextpid,
         \A s \in Slots : Used(s) /\ pid[s] = k => Life(s)' = Life(s)
  PROVE  StatusOf(k)' = StatusOf(k)
<1>1. k \in Nat /\ nextpid \in Nat /\ nextpid' \in Nat
  BY DEF Cases, PidCases
<1>2. CASE k >= nextpid
  BY <1>2 DEF Cases, StatusCases
<1>3. CASE \E s \in Slots : Used(s) /\ pid[s] = k
  BY <1>3 DEF Cases, StatusCases, SameSlot
<1>4. CASE k < nextpid /\ k < nextpid' /\ \A s \in Slots : Used(s) => pid[s] # k
  BY <1>4 DEF Cases, StatusCases, SameSlot
<1>5. QED
  BY <1>1, <1>2, <1>3, <1>4

LEMMA ParentKept ==
  ASSUME Cases, Cases', NEW k \in Pids, SameSlot(k),
         \A s \in Slots : Used(s) /\ pid[s] = k =>
            Parents(s)' = Parents(s) /\ \A q \in Parents(s) : pid'[q] = pid[q]
  PROVE  ParentOf(k)' = ParentOf(k)
<1>1. CASE \A s \in Slots : Used(s) => pid[s] # k
  BY <1>1 DEF Cases, ParentCases, SameSlot
<1>2. ASSUME NEW s \in Slots, Used(s), pid[s] = k PROVE ParentOf(k)' = ParentOf(k)
  <2>0. Used(s)' /\ pid'[s] = k /\ Parents(s)' = Parents(s)
    BY <1>2 DEF SameSlot
  <2>1. CASE Parents(s) = {}
    BY <1>2, <2>0, <2>1 DEF Cases, ParentCases
  <2>2. ASSUME NEW q \in Parents(s) PROVE ParentOf(k)' = ParentOf(k)
    BY <1>2, <2>0, <2>2 DEF Cases, ParentCases
  <2>3. QED
    BY <2>1, <2>2
<1>3. QED
  BY <1>1, <1>2

LEMMA AskedKept ==
  ASSUME Cases, Cases', NEW k \in Pids, SameSlot(k),
         \A s \in Slots : Used(s) /\ pid[s] = k => Asking(s)' = Asking(s)
  PROVE  AskedOf(k)' = AskedOf(k)
<1>1. CASE \A s \in Slots : Used(s) => pid[s] # k
  BY <1>1 DEF Cases, AskedCases, SameSlot
<1>2. ASSUME NEW s \in Slots, Used(s), pid[s] = k PROVE AskedOf(k)' = AskedOf(k)
  BY <1>2 DEF Cases, AskedCases, SameSlot
<1>3. QED
  BY <1>1, <1>2

\* Only a process in use is in a call.
LEMMA CallersUsed ==
  /\ \A s \in Slots : (Asking(s) # 0 => Used(s)) /\ (Passed(s) => Asking(s) # 0 /\ Used(s))
  /\ \A s \in Slots : (Asking(s)' # 0 => Used(s)') /\ (Passed(s)' => Asking(s)' # 0 /\ Used(s)')
  BY DEF Asking, Passed, Used

\* A step that keeps pids and slots changes the status of no pid but that of p, the
\* parent of no pid but that of p, and no call but that of p.
LEMMA KeptBut ==
  ASSUME Cases, Cases', Keeps, NEW p \in Slots, Used(p)
  PROVE  /\ KeepsLife({}) => StatusMap' = StatusMap
         /\ KeepsParents({}) => ParentMap' = ParentMap
         /\ KeepsLife({p}) => StatusMap' = [StatusMap EXCEPT ![pid[p]] = Life(p)']
         /\ KeepsParents({p}) => \A q \in Parents(p)' : ParentMap' = [ParentMap EXCEPT ![pid[p]] = pid[q]]
         /\ UNCHANGED killed => Doomed' = Doomed
         /\ KeepsCalls({}) => AskedMap' = AskedMap /\ MissedMap' = MissedMap
         /\ KeepsCalls({p}) /\ ~Passed(p)' => /\ AskedMap' = [AskedMap EXCEPT ![pid[p]] = Asking(p)']
                                             /\ MissedMap' = MissedMap \ {pid[p]}
<1>1. pid' = pid /\ nextpid' = nextpid /\ \A s \in Slots : Used(s)' <=> Used(s)
  BY DEF Keeps, KeepsUsed
<1>2. \A k \in Pids : SameSlot(k)
  BY <1>1 DEF SameSlot
<1>3. KeepsLife({}) => StatusMap' = StatusMap
  <2>1. KeepsLife({}) => \A k \in Pids : StatusOf(k)' = StatusOf(k)
    BY <1>1, <1>2, StatusKept DEF KeepsLife
  <2>2. QED
    BY <2>1 DEF StatusMap
<1>4. KeepsParents({}) => ParentMap' = ParentMap
  <2>1. KeepsParents({}) => \A k \in Pids : ParentOf(k)' = ParentOf(k)
    BY <1>1, <1>2, ParentKept DEF KeepsParents
  <2>2. QED
    BY <2>1 DEF ParentMap
<1>5. pid[p] \in Pids /\ Used(p)' /\ pid'[p] = pid[p]
  BY <1>1 DEF Cases, PidCases
<1>6. KeepsLife({p}) => StatusMap' = [StatusMap EXCEPT ![pid[p]] = Life(p)']
  <2>1. ASSUME KeepsLife({p}), NEW k \in Pids, k # pid[p] PROVE StatusOf(k)' = StatusOf(k)
    BY <1>1, <1>2, <2>1, StatusKept DEF KeepsLife
  <2>2. ASSUME NEW k \in Pids, k = pid[p] PROVE StatusOf(k)' = Life(p)'
    BY <1>5, <2>2 DEF Cases, StatusCases
  <2>3. QED
    BY <1>5, <2>1, <2>2 DEF StatusMap
<1>7. ASSUME KeepsParents({p}), NEW q \in Parents(p)'
      PROVE  ParentMap' = [ParentMap EXCEPT ![pid[p]] = pid[q]]
  <2>1. ASSUME NEW k \in Pids, k # pid[p] PROVE ParentOf(k)' = ParentOf(k)
    BY <1>1, <1>2, <1>7, <2>1, ParentKept DEF KeepsParents
  <2>2. ASSUME NEW k \in Pids, k = pid[p] PROVE ParentOf(k)' = pid[q]
    BY <1>1, <1>5, <1>7, <2>2 DEF Cases, ParentCases
  <2>3. QED
    BY <1>5, <2>1, <2>2 DEF ParentMap
<1>8. UNCHANGED killed => Doomed' = Doomed
  BY <1>1 DEF Doomed
<1>9. ASSUME KeepsCalls({}) PROVE AskedMap' = AskedMap /\ MissedMap' = MissedMap
  <2>1. ASSUME NEW k \in Pids PROVE AskedOf(k)' = AskedOf(k)
    BY <1>2, <1>9, AskedKept DEF KeepsCalls
  <2>2. QED
    BY <1>1, <1>9, <2>1 DEF AskedMap, MissedMap, KeepsCalls
<1>10. ASSUME KeepsCalls({p}), ~Passed(p)'
       PROVE  /\ AskedMap' = [AskedMap EXCEPT ![pid[p]] = Asking(p)']
              /\ MissedMap' = MissedMap \ {pid[p]}
  <2>1. ASSUME NEW k \in Pids, k # pid[p] PROVE AskedOf(k)' = AskedOf(k)
    BY <1>2, <1>10, <2>1, AskedKept DEF KeepsCalls
  <2>2. ASSUME NEW k \in Pids, k = pid[p] PROVE AskedOf(k)' = Asking(p)'
    BY <1>5, <2>2 DEF Cases, AskedCases
  <2>3. AskedMap' = [AskedMap EXCEPT ![pid[p]] = Asking(p)']
    BY <1>5, <2>1, <2>2 DEF AskedMap
  <2>4. \A q \in Slots : Passed(q)' <=> Passed(q) /\ q # p
    BY <1>10 DEF KeepsCalls
  <2>5. \A q \in Slots : pid[q] = pid[p] => q = p
    BY DEF Cases, PidCases
  <2>6. MissedMap' = MissedMap \ {pid[p]}
    BY <1>1, <2>4, <2>5 DEF MissedMap
  <2>7. QED
    BY <2>3, <2>6
<1>11. QED
  BY <1>3, <1>4, <1>6, <1>7, <1>8, <1>9, <1>10

\* Effects on pids and slots: each is an action of Family.
LEMMA KeepsFamily ==
  ASSUME TypeOK, Cases, Cases', 0 \notin KillPids
  PROVE  /\ Quiet => UNCHANGED <<StatusMap, ParentMap, Doomed, AskedMap, MissedMap>>
         /\ \A p \in Slots : Begins(p) => family!BeginExit(pid[p])
         /\ \A p \in Slots : Ends(p) => family!EndExit(pid[p])
         /\ \A p, s \in Slots : Adopts(p, s) => family!Adopt(pid[s])
<1> USE DEF StatusMap, ParentMap, Doomed, AskedMap, MissedMap
<1>0. \A s \in Slots : Used(s) => pid[s] \in Pids /\ StatusOf(pid[s]) = Life(s) /\ pid[s] # 0
  BY DEF Cases, PidCases, StatusCases, Pids
<1>1. ASSUME Quiet PROVE UNCHANGED <<StatusMap, ParentMap, Doomed, AskedMap, MissedMap>>
  <2>1. initproc \in Slots /\ Used(initproc)
    BY DEF Cases, PidCases
  <2>2. QED
    BY <1>1, <2>1, KeptBut DEF Quiet, KeepsKin
<1>2. ASSUME NEW p \in Slots, Begins(p) PROVE family!BeginExit(pid[p])
  <2>1. pid[p] # 1
    BY <1>2 DEF Begins, Cases, PidCases
  <2>2. /\ UNCHANGED <<ParentMap, Doomed, AskedMap, MissedMap>>
        /\ StatusMap' = [StatusMap EXCEPT ![pid[p]] = "exiting"]
    BY <1>2, KeptBut DEF Begins
  <2>3. StatusMap[pid[p]] = "alive" /\ AskedMap[pid[p]] = 0
    BY <1>0, <1>2 DEF Begins, Cases, AskedCases
  <2>4. QED
    BY <2>1, <2>2, <2>3 DEF family!BeginExit, family!calls
<1>3. ASSUME NEW p \in Slots, Ends(p) PROVE family!EndExit(pid[p])
  <2>1. ASSUME NEW k \in Pids PROVE ParentMap[k] # pid[p]
    <3>1. CASE \A s \in Slots : Used(s) => pid[s] # k
      BY <1>0, <1>3, <3>1 DEF Ends, Cases, ParentCases
    <3>2. ASSUME NEW s \in Slots, Used(s), pid[s] = k PROVE ParentOf(k) # pid[p]
      <4>1. CASE Parents(s) = {}
        BY <1>0, <1>3, <3>2, <4>1 DEF Ends, Cases, ParentCases
      <4>2. ASSUME NEW q \in Parents(s) PROVE ParentOf(k) = pid[q] /\ q \in Slots /\ Used(q) /\ q # p
        BY <1>3, <3>2, <4>2 DEF Ends, Cases, ParentCases, PidCases
      <4>3. QED
        BY <1>3, <4>1, <4>2 DEF Cases, PidCases
    <3>3. QED
      BY <3>1, <3>2
  <2>2. /\ UNCHANGED <<ParentMap, Doomed, AskedMap, MissedMap>>
        /\ StatusMap' = [StatusMap EXCEPT ![pid[p]] = "dead"]
    BY <1>3, KeptBut DEF Ends
  <2>3. StatusMap[pid[p]] = "exiting"
    BY <1>0, <1>3 DEF Ends
  <2>4. QED
    BY <2>1, <2>2, <2>3 DEF family!EndExit, family!calls
<1>4. ASSUME NEW p \in Slots, NEW s \in Slots, Adopts(p, s) PROVE family!Adopt(pid[s])
  <2>1. ParentMap[pid[s]] = pid[p]
    BY <1>0, <1>4 DEF Adopts, Cases, ParentCases
  <2>2. pid[p] # 0 /\ StatusMap[pid[p]] = "exiting"
    BY <1>0, <1>4 DEF Adopts
  <2>3. ParentMap' = [ParentMap EXCEPT ![pid[s]] = 1]
    <3>1. \A q \in Parents(s)' : ParentMap' = [ParentMap EXCEPT ![pid[s]] = pid[q]]
      BY <1>4, KeptBut DEF Adopts
    <3>2. pid[initproc] = 1 /\ initproc \in Parents(s)'
      BY <1>4 DEF Adopts, Cases, PidCases
    <3>3. QED
      BY <3>1, <3>2
  <2>4. UNCHANGED <<StatusMap, Doomed, AskedMap, MissedMap>>
    BY <1>4, KeptBut DEF Adopts
  <2>5. QED
    BY <2>1, <2>2, <2>3, <2>4 DEF family!Adopt, family!calls
<1>5. QED
  BY <1>1, <1>2, <1>3, <1>4

\* A fault, and the calls of kill(): they name the process they mark.
LEMMA KillFamily ==
  ASSUME TypeOK, Cases, Cases', 0 \notin KillPids, NEW p \in Slots
  PROVE  /\ Faults(p) => family!Fault(pid[p])
         /\ \A k \in KillPids : Asks(p, k) => family!CallKill(pid[p], k)
         /\ \A s \in Slots : Hits(p, s) => family!Kill(pid[p])
         /\ Misses(p) => family!KillFails(pid[p])
<1> USE DEF StatusMap, ParentMap, Doomed, AskedMap, MissedMap
<1>0. \A s \in Slots : Used(s) => /\ pid[s] \in Pids /\ pid[s] # 0
                                  /\ StatusMap[pid[s]] = Life(s) /\ AskedMap[pid[s]] = Asking(s)
  BY DEF Cases, PidCases, StatusCases, AskedCases, Pids
<1>1. ASSUME Faults(p) PROVE family!Fault(pid[p])
  <2>1. UNCHANGED <<StatusMap, ParentMap, AskedMap, MissedMap>>
    BY <1>1, KeptBut DEF Faults, KeepsKin
  <2>2. Doomed' = Doomed \cup {pid[p]}
    BY <1>1 DEF Faults, KeepsKin, Keeps, TypeOK
  <2>3. StatusMap[pid[p]] = "alive" /\ AskedMap[pid[p]] = 0
    BY <1>0, <1>1 DEF Faults
  <2>4. QED
    BY <2>1, <2>2, <2>3 DEF family!Fault, family!calls
<1>2. ASSUME NEW k \in KillPids, Asks(p, k) PROVE family!CallKill(pid[p], k)
  <2>1. /\ UNCHANGED <<StatusMap, ParentMap, Doomed>>
        /\ AskedMap' = [AskedMap EXCEPT ![pid[p]] = k] /\ MissedMap' = MissedMap \ {pid[p]}
    BY <1>2, KeptBut DEF Asks, KeepsKin
  <2>2. ~Passed(p) /\ \A q \in Slots : pid[q] = pid[p] => q = p
    BY <1>2, CallersUsed DEF Asks, Cases, PidCases
  <2>3. MissedMap' = MissedMap
    BY <2>1, <2>2
  <2>4. StatusMap[pid[p]] = "alive" /\ AskedMap[pid[p]] = 0
    BY <1>0, <1>2 DEF Asks
  <2>5. QED
    BY <2>1, <2>3, <2>4 DEF family!CallKill
<1>3. ASSUME NEW s \in Slots, Hits(p, s) PROVE family!Kill(pid[p])
  <2>1. /\ UNCHANGED <<StatusMap, ParentMap>>
        /\ AskedMap' = [AskedMap EXCEPT ![pid[p]] = 0] /\ MissedMap' = MissedMap \ {pid[p]}
    BY <1>3, KeptBut DEF Hits, KeepsKin
  <2>2. Used(p) /\ Used(s) /\ Asking(p) = pid[s]
    BY <1>3 DEF Hits
  <2>3. Doomed' = Doomed \cup {pid[s]}
    BY <1>3 DEF Hits, KeepsKin, Keeps, TypeOK
  <2>4. AskedMap[pid[p]] = pid[s] /\ pid[s] \in Pids /\ StatusMap[pid[s]] \in family!There
    BY <1>0, <2>2 DEF Life, family!There
  <2>5. QED
    BY <2>1, <2>3, <2>4 DEF family!Kill
<1>4. ASSUME Misses(p) PROVE family!KillFails(pid[p])
  <2>1. /\ UNCHANGED <<StatusMap, ParentMap, Doomed>>
        /\ AskedMap' = [AskedMap EXCEPT ![pid[p]] = 0] /\ MissedMap' = MissedMap \ {pid[p]}
    BY <1>4, KeptBut DEF Misses, KeepsKin
  <2>2. AskedMap[pid[p]] = Asking(p) /\ Asking(p) # 0
    BY <1>0, <1>4 DEF Misses
  <2>3. ASSUME Asking(p) \in Pids, StatusMap[Asking(p)] \in family!There PROVE pid[p] \in MissedMap
    <3>1. PICK s \in Slots : Used(s) /\ pid[s] = Asking(p)
      <4>1. Asking(p) >= nextpid \/ Asking(p) < nextpid
        BY <2>3 DEF Cases, PidCases
      <4>2. QED
        BY <2>3, <4>1 DEF Cases, StatusCases, family!There
    <3>2. QED
      BY <1>4, <2>2, <3>1 DEF Misses
  <2>4. QED
    BY <2>1, <2>2, <2>3 DEF family!KillFails
<1>5. QED
  BY <1>1, <1>2, <1>3, <1>4

\* So are the effects that give or take a pid.
LEMMA BirthFamily ==
  ASSUME TypeOK, Cases, Cases', 0 \notin KillPids, NEW p \in Slots, NEW s \in Slots, Births(p, s)
  PROVE  nextpid \in Pids /\ family!Fork(pid[p], nextpid)
<1>1. /\ nextpid' = nextpid + 1 /\ nextpid \in Nat /\ Used(p) /\ p # s
      /\ ~Used(s) /\ Used(s)' /\ pid'[s] = nextpid /\ \A t \in Slots \ {s} : pid'[t] = pid[t]
  BY DEF Births, TypeOK
<1>2. nextpid \in Pids
  BY <1>1 DEF Cases, PidCases
<1>3. \A k \in Pids : k # nextpid => SameSlot(k) /\ (k >= nextpid' <=> k >= nextpid)
  <2>1. \A k \in Pids : k # nextpid => (k >= nextpid' <=> k >= nextpid)
    BY <1>1 DEF Pids
  <2>2. QED
    BY <1>1, <2>1 DEF SameSlot, Births, KeepsUsed
<1>4. StatusMap' = [StatusMap EXCEPT ![nextpid] = "alive"]
  <2>1. ASSUME NEW k \in Pids, k # nextpid PROVE StatusOf(k)' = StatusOf(k)
    BY <1>1, <1>3, <2>1, StatusKept DEF Births, KeepsLife
  <2>2. ASSUME NEW k \in Pids, k = nextpid PROVE StatusOf(k)' = "alive"
    BY <1>1, <2>2 DEF Cases, StatusCases, Births
  <2>3. QED
    BY <1>2, <2>1, <2>2 DEF StatusMap
<1>5. ParentMap' = [ParentMap EXCEPT ![nextpid] = pid[p]]
  <2>1. ASSUME NEW k \in Pids, k # nextpid PROVE ParentOf(k)' = ParentOf(k)
    <3>1. ASSUME NEW t \in Slots, Used(t), pid[t] = k
          PROVE  Parents(t)' = Parents(t) /\ \A q \in Parents(t) : pid'[q] = pid[q]
      BY <1>1, <3>1 DEF Births, KeepsParents, Cases, PidCases
    <3>2. QED
      BY <1>3, <2>1, <3>1, ParentKept
  <2>2. ASSUME NEW k \in Pids, k = nextpid PROVE ParentOf(k)' = pid[p]
    BY <1>1, <2>2 DEF Cases, ParentCases, Births
  <2>3. QED
    BY <1>2, <2>1, <2>2 DEF ParentMap
<1>6. Doomed' = Doomed
  <2>1. killed' = killed /\ \A q \in Slots : killed[q] => pid'[q] = pid[q]
    BY <1>1 DEF Births, Cases, PidCases
  <2>2. QED
    BY <2>1 DEF Doomed
<1>7. StatusMap[pid[p]] = "alive" /\ StatusMap[nextpid] = "none"
  <2>1. pid[p] \in Pids /\ StatusOf(pid[p]) = "alive"
    BY <1>1 DEF Cases, StatusCases, PidCases, Births
  <2>2. nextpid >= nextpid
    BY <1>1
  <2>3. StatusOf(nextpid) = "none"
    BY <1>2, <2>2 DEF Cases, StatusCases
  <2>4. QED
    BY <1>2, <2>1, <2>3 DEF StatusMap
<1>8. AskedMap' = AskedMap
  <2>1. ASSUME NEW k \in Pids, k # nextpid PROVE AskedOf(k)' = AskedOf(k)
    BY <1>3, <2>1, AskedKept DEF Births, KeepsAsking
  <2>2. Asking(s) = 0 /\ Asking(s)' = 0
    BY <1>1, CallersUsed DEF Births, KeepsAsking
  <2>3. \A t \in Slots : Used(t) => pid[t] # nextpid
    BY <1>1 DEF Cases, PidCases
  <2>4. ASSUME NEW k \in Pids, k = nextpid PROVE AskedOf(k)' = AskedOf(k)
    <3>1. AskedOf(k) = 0
      BY <2>3, <2>4 DEF Cases, AskedCases
    <3>2. AskedOf(k)' = 0
      BY <1>1, <2>2, <2>4 DEF Cases, AskedCases
    <3>3. QED
      BY <3>1, <3>2
  <2>5. QED
    BY <2>1, <2>4 DEF AskedMap
<1>9. PICK late \in SUBSET {k \in Pids : AskedMap[k] = nextpid} : MissedMap' = MissedMap \cup late
  <2>1. \A q \in Slots : Passed(q) => Passed(q)' /\ pid'[q] = pid[q]
    BY <1>1, CallersUsed DEF Births
  <2>2. ASSUME NEW q \in Slots, Passed(q)'
        PROVE  pid'[q] \in MissedMap \/ (pid'[q] \in Pids /\ AskedMap[pid'[q]] = nextpid)
    <3>1. Asking(q) # 0 /\ Used(q) /\ q # s /\ pid'[q] = pid[q]
      BY <1>1, <2>2, CallersUsed DEF Births, KeepsAsking
    <3>2. CASE Passed(q)
      BY <3>1, <3>2 DEF MissedMap
    <3>3. CASE Asking(q) = nextpid
      BY <3>1, <3>3 DEF Cases, AskedCases, PidCases, AskedMap
    <3>4. QED
      BY <2>2, <3>2, <3>3 DEF Births
  <2>3. MissedMap \subseteq MissedMap'
    BY <2>1 DEF MissedMap
  <2>4. MissedMap' \ MissedMap \in SUBSET {k \in Pids : AskedMap[k] = nextpid}
    BY <2>2 DEF MissedMap
  <2>5. MissedMap' = MissedMap \cup (MissedMap' \ MissedMap)
    BY <2>3
  <2>6. QED
    BY <2>4, <2>5
<1>10. QED
  BY <1>2, <1>4, <1>5, <1>6, <1>7, <1>8, <1>9 DEF family!Fork, family!Naming, StatusMap, ParentMap, Doomed,
     AskedMap, MissedMap

LEMMA FailFamily ==
  ASSUME Cases, Cases', 0 \notin KillPids, Fails
  PROVE  nextpid \in Pids /\ family!ForkFails(nextpid)
<1>1. /\ nextpid' = nextpid + 1 /\ nextpid \in Nat /\ pid' = pid /\ killed' = killed
      /\ \A t \in Slots : Used(t)' <=> Used(t)
  BY DEF Fails, Cases, PidCases, KeepsUsed
<1>2. nextpid \in Pids
  <2>1. pid[initproc] = 1 /\ pid[initproc] < nextpid /\ nextpid' <= MaxPid + 1 /\ MaxPid \in Nat
    BY ProcAssumption DEF Cases, PidCases
  <2>2. QED
    BY <1>1, <2>1 DEF Pids
<1>3. \A k \in Pids : SameSlot(k) /\ (k # nextpid => (k >= nextpid' <=> k >= nextpid))
  BY <1>1 DEF SameSlot, Pids
<1>4. StatusMap' = [StatusMap EXCEPT ![nextpid] = "gone"]
  <2>1. ASSUME NEW k \in Pids, k # nextpid PROVE StatusOf(k)' = StatusOf(k)
    BY <1>1, <1>3, <2>1, StatusKept DEF Fails, KeepsLife
  <2>2. ASSUME NEW k \in Pids, k = nextpid PROVE StatusOf(k)' = "gone"
    <3>1. k < nextpid' /\ \A s \in Slots : Used(s)' => pid'[s] # k
      BY <1>1, <2>2 DEF Cases, PidCases, Pids
    <3>2. QED
      BY <3>1 DEF Cases, StatusCases
  <2>3. QED
    BY <1>2, <2>1, <2>2 DEF StatusMap
<1>5. ParentMap' = ParentMap
  <2>1. ASSUME NEW k \in Pids PROVE ParentOf(k)' = ParentOf(k)
    BY <1>1, <1>3, ParentKept DEF Fails, KeepsParents
  <2>2. QED
    BY <2>1 DEF ParentMap
<1>6. Doomed' = Doomed
  BY <1>1 DEF Doomed
<1>7. StatusMap[nextpid] = "none"
  BY <1>1, <1>2 DEF Cases, StatusCases, StatusMap
<1>8. UNCHANGED <<AskedMap, MissedMap>>
  <2>1. ASSUME NEW k \in Pids PROVE AskedOf(k)' = AskedOf(k)
    BY <1>3, AskedKept DEF Fails, KeepsCalls
  <2>2. QED
    BY <1>1, <2>1 DEF AskedMap, MissedMap, Fails, KeepsCalls
<1>9. QED
  BY <1>2, <1>4, <1>5, <1>6, <1>7, <1>8 DEF family!ForkFails, family!calls, StatusMap, ParentMap, Doomed,
     AskedMap, MissedMap

LEMMA ReapFamily ==
  ASSUME TypeOK, Cases, Cases', NEW p \in Slots, NEW s \in Slots, Reaps(p, s)
  PROVE  family!Reap(pid[p], pid[s])
<1>1. /\ nextpid' = nextpid /\ Used(p) /\ Used(s) /\ ~Used(s)' /\ state[s] = "ZOMBIE"
      /\ \A t \in Slots \ {s} : pid'[t] = pid[t] /\ killed'[t] = killed[t]
      /\ ~killed'[s]
  BY DEF Reaps, TypeOK, Life
<1>2. pid[s] \in Pids /\ pid[s] < nextpid /\ \A t \in Slots : pid[t] = pid[s] => t = s
  BY <1>1 DEF Cases, PidCases
<1>3. \A k \in Pids : k # pid[s] => SameSlot(k)
  BY <1>1 DEF SameSlot, Reaps, KeepsUsed
<1>4. \A t \in Slots : Used(t)' => pid'[t] # pid[s]
  BY <1>1, <1>2
<1>5. StatusMap' = [StatusMap EXCEPT ![pid[s]] = "gone"]
  <2>1. ASSUME NEW k \in Pids, k # pid[s] PROVE StatusOf(k)' = StatusOf(k)
    BY <1>1, <1>3, <2>1, StatusKept DEF Reaps, KeepsLife
  <2>2. ASSUME NEW k \in Pids, k = pid[s] PROVE StatusOf(k)' = "gone"
    BY <1>1, <1>2, <1>4, <2>2 DEF Cases, StatusCases
  <2>3. QED
    BY <1>2, <2>1, <2>2 DEF StatusMap
<1>6. ParentMap' = [ParentMap EXCEPT ![pid[s]] = 0]
  <2>1. ASSUME NEW k \in Pids, k # pid[s] PROVE ParentOf(k)' = ParentOf(k)
    <3>1. ASSUME NEW t \in Slots, Used(t), pid[t] = k
          PROVE  Parents(t)' = Parents(t) /\ \A q \in Parents(t) : pid'[q] = pid[q]
      BY <1>1, <2>1, <3>1 DEF Reaps, KeepsParents, Cases, PidCases
    <3>2. QED
      BY <1>3, <2>1, <3>1, ParentKept
  <2>2. ASSUME NEW k \in Pids, k = pid[s] PROVE ParentOf(k)' = 0
    BY <1>4, <2>2 DEF Cases, ParentCases
  <2>3. QED
    BY <1>2, <2>1, <2>2 DEF ParentMap
<1>7. Doomed' = Doomed \ {pid[s]}
  BY <1>1, <1>2 DEF Doomed
<1>8. StatusMap[pid[p]] = "alive" /\ StatusMap[pid[s]] = "dead" /\ ParentMap[pid[s]] = pid[p]
  BY <1>1, <1>2 DEF Cases, StatusCases, ParentCases, PidCases, Reaps, StatusMap, ParentMap
<1>9. AskedMap' = AskedMap
  <2>1. ASSUME NEW k \in Pids, k # pid[s] PROVE AskedOf(k)' = AskedOf(k)
    BY <1>3, <2>1, AskedKept DEF Reaps, KeepsAsking
  <2>2. Asking(s) = 0
    BY <1>1, CallersUsed DEF Reaps, KeepsAsking
  <2>3. AskedOf(pid[s]) = 0
    BY <1>1, <1>2, <2>2 DEF Cases, AskedCases
  <2>4. ASSUME NEW k \in Pids, k = pid[s] PROVE AskedOf(k)' = AskedOf(k)
    BY <1>4, <2>3, <2>4 DEF Cases, AskedCases
  <2>5. QED
    BY <2>1, <2>4 DEF AskedMap
<1>10. MissedMap' = MissedMap \ {k \in Pids : AskedMap[k] = pid[s]}
  <2>1. \A q \in Slots : Passed(q)' <=> Passed(q) /\ Asking(q) # pid[s]
    BY DEF Reaps
  <2>2. \A q \in Slots : Passed(q)' => pid'[q] = pid[q]
    BY <1>1, CallersUsed
  <2>3. \A q \in Slots : Passed(q) => pid[q] \in Pids /\ AskedMap[pid[q]] = Asking(q)
    BY CallersUsed DEF Cases, AskedCases, PidCases, AskedMap
  <2>4. QED
    BY <2>1, <2>2, <2>3 DEF MissedMap
<1>11. QED
  BY <1>5, <1>6, <1>7, <1>8, <1>9, <1>10 DEF family!Reap, family!Naming, StatusMap, ParentMap, Doomed,
     AskedMap, MissedMap

LEMMA FamilyNext ==
  ASSUME TypeOK, Cases, Cases', 0 \notin KillPids, Effect
  PROVE  [family!Next]_family!vars
<1>0. \A s \in Slots : Used(s) => pid[s] \in Pids
  BY DEF Cases, PidCases
<1>1. CASE Quiet
  BY <1>1, KeepsFamily DEF family!vars, StatusMap, ParentMap, Doomed, AskedMap, MissedMap
<1>2. CASE Fails
  BY <1>2, FailFamily DEF family!Next
<1>3. ASSUME NEW p \in Slots, Begins(p) \/ Ends(p) \/ Faults(p) PROVE family!Next
  <2>1. Used(p)
    BY <1>3 DEF Begins, Ends, Faults
  <2>2. pid[p] \in Pids
    BY <1>0, <2>1
  <2>3. family!BeginExit(pid[p]) \/ family!EndExit(pid[p]) \/ family!Fault(pid[p])
    BY <1>3, KeepsFamily, KillFamily
  <2>4. QED
    BY <2>2, <2>3 DEF family!Next, family!BeginExit, family!EndExit, family!Fault
<1>4. ASSUME NEW p \in Slots, Misses(p) \/ \E s \in Slots : Hits(p, s) PROVE family!Next
  <2>1. Used(p)
    BY <1>4 DEF Misses, Hits
  <2>2. pid[p] \in Pids
    BY <1>0, <2>1
  <2>3. family!Kill(pid[p]) \/ family!KillFails(pid[p])
    BY <1>4, KillFamily
  <2>4. QED
    BY <2>2, <2>3 DEF family!Next, family!Kill, family!KillFails
<1>5. ASSUME NEW p \in Slots, NEW k \in KillPids, Asks(p, k) PROVE family!Next
  <2>1. Used(p)
    BY <1>5 DEF Asks
  <2>2. pid[p] \in Pids
    BY <1>0, <2>1
  <2>3. family!CallKill(pid[p], k)
    BY <1>5, KillFamily
  <2>4. QED
    BY <2>2, <2>3 DEF family!Next
<1>6. ASSUME NEW p \in Slots, NEW s \in Slots, Adopts(p, s) PROVE family!Next
  <2>1. Used(s)
    BY <1>6 DEF Adopts
  <2>2. QED
    BY <1>0, <1>6, <2>1, KeepsFamily DEF family!Next
<1>7. ASSUME NEW p \in Slots, NEW s \in Slots, Births(p, s) PROVE family!Next
  <2>1. Used(p)
    BY <1>7 DEF Births
  <2>2. QED
    BY <1>0, <1>7, <2>1, BirthFamily DEF family!Next, family!Fork
<1>8. ASSUME NEW p \in Slots, NEW s \in Slots, Reaps(p, s) PROVE family!Next
  <2>1. Used(p) /\ Used(s)
    BY <1>8 DEF Reaps
  <2>2. pid[p] \in Pids /\ pid[s] \in Pids
    BY <1>0, <2>1
  <2>3. family!Reap(pid[p], pid[s])
    BY <1>8, ReapFamily
  <2>4. QED
    BY <2>2, <2>3 DEF family!Next, family!Reap
<1>9. QED
  BY <1>1, <1>2, <1>3, <1>4, <1>5, <1>6, <1>7, <1>8 DEF Effect

LEMMA FamilyInit == Init => family!Init
<1> SUFFICES ASSUME Init PROVE family!Init
  OBVIOUS
<1> USE SlotFacts, ProcAssumption
<1>1. Cases
  BY InitInv, FamilyCases
<1>2. \A s \in Slots : /\ (Used(s) <=> s = initproc) /\ Parents(s) = {} /\ ~killed[s]
                      /\ Asking(s) = 0 /\ ~Passed(s)
  BY DEF Init, Used, Parents, Asking, Passed
<1>3. pid[initproc] = 1 /\ Life(initproc) = "alive" /\ nextpid = 2
  BY DEF Init, Life, Exiting
<1>4. ASSUME NEW k \in Pids PROVE StatusOf(k) = IF k = 1 THEN "alive" ELSE "none"
  <2>1. k = 1 \/ k >= nextpid
    BY <1>3 DEF Pids
  <2>2. QED
    BY <1>1, <1>2, <1>3, <2>1 DEF Cases, StatusCases
<1>5. ASSUME NEW k \in Pids PROVE ParentOf(k) = 0
  BY <1>1, <1>2, <1>3 DEF Cases, ParentCases
<1>6. Doomed = {} /\ MissedMap = {}
  BY <1>2 DEF Doomed, MissedMap
<1>7. ASSUME NEW k \in Pids PROVE AskedOf(k) = 0
  BY <1>1, <1>2, <1>3 DEF Cases, AskedCases
<1>8. QED
  BY <1>4, <1>5, <1>6, <1>7 DEF family!Init, Doomed, MissedMap

\* fork(), exit(), wait() and kill() keep their promises to user programs, for every
\* number of processes and CPUs: in particular a kill() marks the process whose pid it
\* was given, no other, and fails only if that one was not there from call to return.
\* This holds as long as nobody calls kill(0): kkill() compares the pid of free slots
\* too, and a mark left on a free slot would kill the next child.
THEOREM FamilyKept == 0 \notin KillPids /\ Spec => ImplementsFamily
<1> SUFFICES ASSUME 0 \notin KillPids PROVE Spec => ImplementsFamily
  OBVIOUS
<1>1. Init => TypeOK /\ IInv
  BY InitInv
<1>2. TypeOK /\ IInv /\ [Next]_vars => (TypeOK /\ IInv)'
  BY NextInv
<1>3. Init => family!Init
  BY FamilyInit
<1>4. (TypeOK /\ IInv) /\ (TypeOK /\ IInv)' /\ [Next]_vars => [family!Next]_family!vars
  <2> SUFFICES ASSUME TypeOK, IInv, (TypeOK /\ IInv)', [Next]_vars PROVE [family!Next]_family!vars
    OBVIOUS
  <2>1. CASE Next
    <3>1. PICK c \in CPUs : (\E s \in Slots : scheduler(c, s)) \/ swtch(c) \/ InProcess(c)
      BY <2>1, NextSplit
    <3>2. Effect
      BY <3>1, EffectStep
    <3>3. Cases /\ Cases'
      BY FamilyCases, FamilyCasesNext
    <3>4. QED
      BY <3>2, <3>3, FamilyNext
  <2>2. CASE UNCHANGED vars
    BY <2>2 DEF vars, family!vars, StatusOf, ParentOf, SlotsOf, AskedOf, Asking, Passed
  <2>3. QED
    BY <2>1, <2>2
<1>5. QED
  BY <1>1, <1>2, <1>3, <1>4, PTL DEF Spec, ImplementsFamily, family!Spec
=============================================================================
