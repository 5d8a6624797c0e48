------------------------------- MODULE Traps -------------------------------
(***************************************************************************)
(* CPUs, interrupts and traps: spin-locks and push_off()/pop_off()         *)
(* (kernel/spinlock.c), usertrap(), kerneltrap(), devintr() and the clock  *)
(* (kernel/trap.c), the assembly around them (trampoline.S, kernelvec.S,   *)
(* swtch.S), the PLIC (kernel/plic.c), sched(), yield(), sleep(), wakeup() *)
(* and scheduler() (kernel/proc.c), and sys_pause() (kernel/sysproc.c),    *)
(* the system call that waits for ticks.                                   *)
(*                                                                         *)
(* A thread is a process or the scheduler of a CPU; the scheduler of CPU c *)
(* is the thread c.  stk[t] is what thread t has still to do, as the       *)
(* return addresses on its kernel stack are: the head is where it is now.  *)
(* A frame is a tuple of a label and arguments.  The last frame of a       *)
(* process is the user program: "ecall", about to call pause(), or "next", *)
(* after it.  hw[c] holds the registers of CPU c: sie (interrupts on), tp  *)
(* (the hart number the kernel believes it is on), and the registers of a  *)
(* trap: stvec, sepc, spp and spie.                                        *)
(*                                                                         *)
(* fork(), exit's clean-up and the other system calls are in Proc; what    *)
(* the device handlers do is in Console and VirtioDisk.                    *)
(***************************************************************************)
EXTENDS Integers, Sequences, FiniteSets

CONSTANTS Procs, NCPU,
          UINT,         \* ticks wraps here (2^32 in the code)
          PauseArgs,    \* arguments of pause()
          Irqs,         \* devices behind the PLIC
          Victims       \* processes that a kill() may hit

CPUs == 0..(NCPU - 1)
Nobody == NCPU          \* no CPU holds the lock
UserTp == NCPU + 1      \* what a program keeps in tp
Threads == Procs \cup CPUs

ASSUME TrapsAssumption == /\ NCPU \in Nat \ {0} /\ UINT \in Nat \ {0}
                          /\ "tickslock" \notin Procs /\ Procs \cap CPUs = {}
                          /\ \A n \in PauseArgs : n \in Int /\ 2 * n < UINT   \* an int
                          /\ Victims \subseteq Procs

VARIABLES hw, cpu,      \* registers; noff and intena of struct cpu
          cur, stk,     \* thread of each CPU (c->proc); frames of each thread
          lock,         \* the CPU in lk->cpu of each spin-lock, Nobody when free
          state,        \* p->state and p->killed
          tf,           \* trapframe: kernel_hartid and epc
          ticks,
          pause,        \* of each process: n, ticks0, and the ticks that passed, up to n
          plic          \* of each irq: "quiet", "pending" or "claimed"
vars == <<hw, cpu, cur, stk, lock, state, tf, ticks, pause, plic>>
regs == <<hw, cpu>>
clock == <<ticks, pause>>

Top(c) == Head(stk[cur[c]])
At(c, l) == Top(c)[1] = l
cpuid(c) == hw[c].tp
holding(lk, c) == lock[lk] = cpuid(c)
\* myproc(): the thread that mycpu() runs.
myproc(c) == cur[cpuid(c)]
\* The thread of c returns, or goes on with the frames f.
Then(c, f) == stk' = [stk EXCEPT ![cur[c]] = f \o Tail(@)]

---------------------------------------------------------------------------
(* Spin-locks.                                                             *)

push_off(c) ==
  /\ hw' = [hw EXCEPT ![c].sie = FALSE]
  /\ cpu' = [cpu EXCEPT ![cpuid(c)] =
       [noff |-> @.noff + 1, intena |-> IF @.noff = 0 THEN hw[c].sie ELSE @.intena]]
pop_off(c) ==
  /\ cpu' = [cpu EXCEPT ![cpuid(c)].noff = @ - 1]
  /\ hw' = [hw EXCEPT ![c].sie = @ \/ (cpu[cpuid(c)].noff = 1 /\ cpu[cpuid(c)].intena)]

acquire(c) == /\ At(c, "acquire")
              /\ push_off(c)
              /\ Then(c, <<<<"spin", Top(c)[2]>>>>)
              /\ UNCHANGED <<cur, lock, state, tf, clock, plic>>
spin(c) == /\ At(c, "spin") /\ lock[Top(c)[2]] = Nobody
           /\ lock' = [lock EXCEPT ![Top(c)[2]] = cpuid(c)]
           /\ Then(c, <<>>)
           /\ UNCHANGED <<regs, cur, state, tf, clock, plic>>
release(c) == /\ At(c, "release")
              /\ lock' = [lock EXCEPT ![Top(c)[2]] = Nobody]
              /\ pop_off(c)
              /\ Then(c, <<>>)
              /\ UNCHANGED <<cur, state, tf, clock, plic>>

---------------------------------------------------------------------------
(* The hardware's part of a trap.  stvec says where the CPU goes.          *)

InUser(c) == At(c, "ecall") \/ At(c, "next")
Trap(c, cause) ==
  /\ hw' = [hw EXCEPT ![c] = [@ EXCEPT !.sepc = <<cur[c], Top(c)[1]>>,
                                       !.spp = IF InUser(c) THEN "user" ELSE "supervisor",
                                       !.spie = hw[c].sie, !.sie = FALSE]]
  /\ stk' = [stk EXCEPT ![cur[c]] = <<<<hw[c].stvec, cause>>>> \o @]
  /\ UNCHANGED <<cpu, cur, lock, state, tf, ticks, plic>>
\* Interrupts reach a user program whatever sie is.
Interruptible(c) == InUser(c) \/ hw[c].sie
ecall(c) == At(c, "ecall") /\ \E n \in PauseArgs : /\ pause' = [pause EXCEPT ![cur[c]].n = n]
                                                   /\ Trap(c, "ecall")
timer(c) == Interruptible(c) /\ Trap(c, "timer") /\ UNCHANGED pause
external(c) == /\ Interruptible(c) /\ \E i \in Irqs : plic[i] = "pending"
               /\ Trap(c, "external") /\ UNCHANGED pause
\* The program goes on to its next pause().
user(c) == /\ At(c, "next") /\ Then(c, <<<<"ecall">>>>)
           /\ UNCHANGED <<regs, cur, lock, state, tf, clock, plic>>
device(i) == /\ plic[i] = "quiet" /\ plic' = [plic EXCEPT ![i] = "pending"]
             /\ UNCHANGED <<regs, cur, stk, lock, state, tf, clock>>
\* sret: back to sepc, with the interrupts of spie.  No code reads sepc before
\* the next trap sets it, so that the model forgets it.
Sret(r) == [r EXCEPT !.sie = r.spie, !.spie = TRUE, !.spp = "user", !.sepc = <<>>]

---------------------------------------------------------------------------
(* devintr() and clockintr(): the frames they leave to their caller.       *)

devintr(cause) == IF cause = "timer" THEN <<<<"clockintr">>>> ELSE <<<<"plic_claim">>>>
\* yield() after a timer interrupt.
MaybeYield(c, cause) == IF cause = "timer" THEN <<<<"acquire", myproc(c)>>, <<"yield">>>> ELSE <<>>
PlicComplete(i) == <<<<"plic_complete", i>>>>

clockintr(c) == /\ At(c, "clockintr")
                /\ Then(c, IF cpuid(c) = 0 THEN <<<<"acquire", "tickslock">>, <<"tick">>>> ELSE <<>>)
                /\ UNCHANGED <<regs, cur, lock, state, tf, clock, plic>>
NextTick == (ticks + 1) % UINT
tick(c) == /\ At(c, "tick")
           /\ ticks' = NextTick
           /\ pause' = [p \in Procs |-> [pause[p] EXCEPT !.passed = IF @ < pause[p].n THEN @ + 1 ELSE @]]
           /\ Then(c, <<<<"wakeup", Procs \ {myproc(c)}>>, <<"release", "tickslock">>>>)
           /\ UNCHANGED <<regs, cur, lock, state, tf, plic>>
\* wakeup() of one process, with interrupts off; acquire(&p->lock), the test and release().
wakeup(c) ==
  /\ At(c, "wakeup")
  /\ \/ /\ Top(c)[2] = {} /\ Then(c, <<>>) /\ UNCHANGED state
     \/ \E p \in Top(c)[2] :
          /\ lock[p] = Nobody
          /\ state' = [state EXCEPT ![p].state = IF @ = "SLEEPING" THEN "RUNNABLE" ELSE @]
          /\ Then(c, <<<<"wakeup", Top(c)[2] \ {p}>>>>)
  /\ UNCHANGED <<regs, cur, lock, tf, clock, plic>>

\* plic_claim() gives each pending interrupt to one CPU and 0 to a CPU that comes late.
plic_claim(c) ==
  /\ At(c, "plic_claim")
  /\ \/ \E i \in Irqs : /\ plic[i] = "pending"
                        /\ plic' = [plic EXCEPT ![i] = "claimed"]
                        /\ Then(c, PlicComplete(i))
     \/ /\ \A i \in Irqs : plic[i] # "pending"
        /\ Then(c, <<>>) /\ UNCHANGED plic
  /\ UNCHANGED <<regs, cur, lock, state, tf, clock>>
plic_complete(c) == /\ At(c, "plic_complete")
                    /\ plic' = [plic EXCEPT ![Top(c)[2]] = "quiet"]
                    /\ Then(c, <<>>)
                    /\ UNCHANGED <<regs, cur, lock, state, tf, clock>>

---------------------------------------------------------------------------
(* From user space and back.                                               *)

uservec(c) == /\ At(c, "uservec")
              /\ hw' = [hw EXCEPT ![c].tp = tf[cur[c]].hartid]
              /\ Then(c, <<<<"usertrap", Top(c)[2]>>>>)
              /\ UNCHANGED <<cpu, cur, lock, state, tf, clock, plic>>
usertrap(c) == /\ At(c, "usertrap")
               /\ hw' = [hw EXCEPT ![c].stvec = "kernelvec"]
               /\ Then(c, <<<<"save_epc", Top(c)[2]>>>>)
               /\ UNCHANGED <<cpu, cur, lock, state, tf, clock, plic>>
\* epc += 4: the user program is to go on after the ecall.
PlusFour(pc) == <<pc[1], "next">>
Exit(c) == <<<<"acquire", myproc(c)>>, <<"kexit">>>>
save_epc(c) ==
  LET cause == Top(c)[2] IN
  /\ At(c, "save_epc")
  /\ \/ /\ cause = "ecall" /\ ~state[myproc(c)].killed
        /\ tf' = [tf EXCEPT ![myproc(c)].epc = PlusFour(hw[c].sepc)]
        /\ hw' = [hw EXCEPT ![c].sie = TRUE]
        /\ stk' = [stk EXCEPT ![cur[c]] = <<<<"sys_pause">>, <<"killed", "ecall">>, <<"next">>>>]
     \/ /\ cause = "ecall" /\ state[myproc(c)].killed
        /\ Then(c, Exit(c)) /\ UNCHANGED <<tf, hw>>
     \/ /\ cause # "ecall"
        /\ tf' = [tf EXCEPT ![myproc(c)].epc = hw[c].sepc]
        /\ Then(c, devintr(cause) \o <<<<"killed", cause>>>>) /\ UNCHANGED hw
  /\ UNCHANGED <<cpu, cur, lock, state, clock, plic>>
\* Nothing looks at the variables of sys_pause() after it returned.
NoPause == [n |-> 0, ticks0 |-> 0, passed |-> 0]
\* The end of usertrap(): exit if killed, yield() after a timer interrupt.
killed(c) ==
  /\ At(c, "killed")
  /\ Then(c, IF state[myproc(c)].killed THEN Exit(c)
             ELSE MaybeYield(c, Top(c)[2]) \o <<<<"prepare_return">>>>)
  /\ pause' = [pause EXCEPT ![cur[c]] = NoPause]
  /\ UNCHANGED <<regs, cur, lock, state, tf, ticks, plic>>
prepare_return(c) == /\ At(c, "prepare_return")
                     /\ hw' = [hw EXCEPT ![c].sie = FALSE]
                     /\ Then(c, <<<<"prepare_regs">>>>)
                     /\ UNCHANGED <<cpu, cur, lock, state, tf, clock, plic>>
prepare_regs(c) ==
  /\ At(c, "prepare_regs")
  /\ tf' = [tf EXCEPT ![myproc(c)].hartid = cpuid(c)]
  /\ hw' = [hw EXCEPT ![c] = [@ EXCEPT !.stvec = "uservec", !.spp = "user", !.spie = TRUE,
                                       !.sepc = tf[myproc(c)].epc]]
  /\ Then(c, <<<<"userret">>>>)
  /\ UNCHANGED <<cpu, cur, lock, state, clock, plic>>
userret(c) == /\ At(c, "userret")
              /\ hw' = [hw EXCEPT ![c] = [Sret(@) EXCEPT !.tp = UserTp]]
              /\ Then(c, <<>>)
              /\ UNCHANGED <<cpu, cur, lock, state, tf, clock, plic>>

---------------------------------------------------------------------------
(* From kernel code and back.  The frame holds the CSRs kerneltrap() saves *)
(* and kernelvec.S does not restore the tp it saved, so it is left out.    *)

kerneltrap(c) ==
  /\ At(c, "kernelvec")
  /\ Then(c, devintr(Top(c)[2])
             \o (IF myproc(c) \in Procs THEN MaybeYield(c, Top(c)[2]) ELSE <<>>)
             \o <<<<"restore", hw[c].sepc, hw[c].spp, hw[c].spie>>>>)
  /\ UNCHANGED <<regs, cur, lock, state, tf, clock, plic>>
\* Mutant: the trap registers are left as yield() left them.
NotRestored(r, f) == r
\* hw[c] after w_sepc(sepc), w_sstatus(sstatus) and the loads of kernelvec.S,
\* where f is the frame of kernelvec and r the registers.
Restored(r, f) == [r EXCEPT !.sepc = f[2], !.spp = f[3], !.spie = f[4], !.sie = FALSE]
restore(c) == /\ At(c, "restore")
              /\ hw' = [hw EXCEPT ![c] = Restored(@, Top(c))]
              /\ Then(c, <<<<"sret">>>>)
              /\ UNCHANGED <<cpu, cur, lock, state, tf, clock, plic>>
sret(c) == /\ At(c, "sret")
           /\ hw' = [hw EXCEPT ![c] = Sret(@)]
           /\ Then(c, <<>>)
           /\ UNCHANGED <<cpu, cur, lock, state, tf, clock, plic>>

---------------------------------------------------------------------------
(* sched(), yield(), exit() and scheduler().  swtch() leaves tp alone.     *)

Sched(c, s, after) == /\ state' = [state EXCEPT ![myproc(c)].state = s]
                      /\ Then(c, <<<<"sched">>>> \o after)
                      /\ UNCHANGED <<regs, cur, lock, tf, clock, plic>>
yield(c) == At(c, "yield") /\ Sched(c, "RUNNABLE", <<<<"release", myproc(c)>>>>)
kexit(c) == At(c, "kexit") /\ Sched(c, "ZOMBIE", <<>>)
\* sleep(&ticks, &tickslock), which holds p->lock and has released tickslock.
asleep(c) == /\ At(c, "asleep")
             /\ Sched(c, "SLEEPING", <<<<"release", myproc(c)>>, <<"acquire", "tickslock">>>>)
sched(c) == /\ At(c, "sched")
            /\ Then(c, <<<<"resumed", cpu[cpuid(c)].intena>>>>)
            /\ cur' = [cur EXCEPT ![c] = cpuid(c)]
            /\ UNCHANGED <<regs, lock, state, tf, clock, plic>>
\* Mutant: sched() leaves intena to the CPU.
resumed_cpu(c) == /\ At(c, "resumed")
                  /\ Then(c, <<>>)
                  /\ UNCHANGED <<regs, cur, lock, state, tf, clock, plic>>
\* sched() after swtch(): intena is a property of the thread.
resumed(c) == /\ At(c, "resumed")
              /\ cpu' = [cpu EXCEPT ![cpuid(c)].intena = Top(c)[2]]
              /\ Then(c, <<>>)
              /\ UNCHANGED <<hw, cur, lock, state, tf, clock, plic>>

intr_on(c) == /\ At(c, "scheduler") /\ ~hw[c].sie
              /\ hw' = [hw EXCEPT ![c].sie = TRUE]
              /\ UNCHANGED <<cpu, cur, stk, lock, state, tf, clock, plic>>
intr_off(c) == /\ At(c, "scheduler") /\ hw[c].sie
               /\ hw' = [hw EXCEPT ![c].sie = FALSE]
               /\ Then(c, <<<<"scan", Procs>>>>)
               /\ UNCHANGED <<cpu, cur, lock, state, tf, clock, plic>>
\* The loop over the process table, in any order; wfi is a pause before the next round.
scan(c) == /\ At(c, "scan")
           /\ \/ Top(c)[2] = {} /\ Then(c, <<<<"scheduler">>>>)
              \/ \E p \in Top(c)[2] :
                   Then(c, <<<<"acquire", p>>, <<"run", p>>, <<"scan", Top(c)[2] \ {p}>>>>)
           /\ UNCHANGED <<regs, cur, lock, state, tf, clock, plic>>
run(c) == LET p == Top(c)[2] IN
  /\ At(c, "run")
  /\ Then(c, <<<<"release", p>>>>)
  /\ IF state[p].state = "RUNNABLE"
     THEN /\ state' = [state EXCEPT ![p].state = "RUNNING"]
          /\ cur' = [cur EXCEPT ![c] = p]
     ELSE UNCHANGED <<state, cur>>
  /\ UNCHANGED <<regs, lock, tf, clock, plic>>

\* kkill() by another process; what it does besides is in Proc.
kkill(p) == /\ lock[p] = Nobody /\ ~state[p].killed
            /\ state' = [state EXCEPT ![p] = [killed |-> TRUE,
                           state |-> IF @.state = "SLEEPING" THEN "RUNNABLE" ELSE @.state]]
            /\ UNCHANGED <<regs, cur, stk, lock, tf, clock, plic>>

---------------------------------------------------------------------------
(* sys_pause().                                                            *)

AtLeastZero(n) == IF n < 0 THEN 0 ELSE n
\* Mutant: ticks < ticks0 + n, which a wrapped sum makes false at once.
TooEarlySum(p) == ticks < (pause[p].ticks0 + pause[p].n) % UINT
\* ticks - ticks0 < n, in unsigned arithmetic.
TooEarly(p) == (ticks - pause[p].ticks0) % UINT < pause[p].n % UINT

sys_pause(c) == /\ At(c, "sys_pause")
                /\ pause' = [pause EXCEPT ![cur[c]].n = AtLeastZero(@)]
                /\ Then(c, <<<<"acquire", "tickslock">>, <<"pause_start">>>>)
                /\ UNCHANGED <<regs, cur, lock, state, tf, ticks, plic>>
pause_start(c) == /\ At(c, "pause_start")
                  /\ pause' = [pause EXCEPT ![cur[c]].ticks0 = ticks, ![cur[c]].passed = 0]
                  /\ Then(c, <<<<"pause_loop">>>>)
                  /\ UNCHANGED <<regs, cur, lock, state, tf, ticks, plic>>
pause_loop(c) ==
  /\ At(c, "pause_loop")
  /\ Then(c, IF TooEarly(cur[c]) /\ ~state[myproc(c)].killed
             THEN <<<<"acquire", myproc(c)>>, <<"release", "tickslock">>, <<"asleep">>, <<"pause_loop">>>>
             ELSE <<<<"release", "tickslock">>>>)
  /\ UNCHANGED <<regs, cur, lock, state, tf, clock, plic>>

---------------------------------------------------------------------------

\* main() has run on every CPU; fork() made the processes, which begin in forkret()
\* with the p->lock that scheduler() took.
Init ==
  /\ hw = [c \in CPUs |-> [sie |-> FALSE, tp |-> c, stvec |-> "kernelvec",
                           sepc |-> <<>>, spp |-> "user", spie |-> TRUE]]
  /\ cpu = [c \in CPUs |-> [noff |-> 0, intena |-> FALSE]]
  /\ cur = [c \in CPUs |-> c]
  /\ stk = [t \in Threads |-> IF t \in CPUs THEN <<<<"scheduler">>>>
                              ELSE <<<<"release", t>>, <<"prepare_return">>, <<"ecall">>>>]
  /\ lock = [l \in Procs \cup {"tickslock"} |-> Nobody]
  /\ state = [p \in Procs |-> [state |-> "RUNNABLE", killed |-> FALSE]]
  /\ tf = [p \in Procs |-> [hartid |-> 0, epc |-> <<p, "ecall">>]]
  /\ ticks = UINT - 1
  /\ pause = [p \in Procs |-> NoPause]
  /\ plic = [i \in Irqs |-> "quiet"]

Next == \/ \E c \in CPUs :
             \/ acquire(c) \/ spin(c) \/ release(c)
             \/ ecall(c) \/ timer(c) \/ external(c) \/ user(c)
             \/ clockintr(c) \/ tick(c) \/ wakeup(c) \/ plic_claim(c) \/ plic_complete(c)
             \/ uservec(c) \/ usertrap(c) \/ save_epc(c) \/ killed(c)
             \/ prepare_return(c) \/ prepare_regs(c) \/ userret(c)
             \/ kerneltrap(c) \/ restore(c) \/ sret(c)
             \/ yield(c) \/ kexit(c) \/ asleep(c) \/ sched(c) \/ resumed(c)
             \/ intr_on(c) \/ intr_off(c) \/ scan(c) \/ run(c)
             \/ sys_pause(c) \/ pause_start(c) \/ pause_loop(c)
        \/ \E i \in Irqs : device(i)
        \/ \E p \in Victims : kkill(p)
Spec == Init /\ [][Next]_vars

---------------------------------------------------------------------------
(* Properties.                                                             *)

\* ticks stays a uint, noff counts at most two locks, locks belong to CPUs.
TypeOK ==
  /\ \A c \in CPUs : /\ hw[c].sie \in BOOLEAN /\ hw[c].spie \in BOOLEAN
                     /\ hw[c].tp \in CPUs \cup {UserTp} /\ hw[c].stvec \in {"uservec", "kernelvec"}
                     /\ hw[c].spp \in {"user", "supervisor"}
  /\ cpu \in [CPUs -> [noff : 0..2, intena : BOOLEAN]]
  /\ cur \in [CPUs -> Threads]
  /\ lock \in [Procs \cup {"tickslock"} -> CPUs \cup {Nobody}]
  /\ state \in [Procs -> [state : {"RUNNABLE", "RUNNING", "SLEEPING", "ZOMBIE"}, killed : BOOLEAN]]
  /\ ticks \in 0..(UINT - 1)
  /\ pause \in [Procs -> [n : Int, ticks0 : 0..(UINT - 1), passed : 0..UINT]]
  /\ plic \in [Irqs -> {"quiet", "pending", "claimed"}]

Handlers == {"kernelvec", "restore", "sret"}
HasFrame(t, f) == \E i \in 1..Len(stk[t]) : stk[t][i] = f
HasLabel(t, L) == \E i \in 1..Len(stk[t]) : stk[t][i][1] \in L
\* Thread t is in an interrupt handler; it is in a system call and not in a handler.
InHandler(t) == HasLabel(t, Handlers)
InSyscall(t) == ~InHandler(t) /\ HasFrame(t, <<"killed", "ecall">>)

\* Kernel code finds the number of the CPU it runs on in tp, however often the
\* thread was interrupted, switched out and moved to another CPU, and however the
\* program used tp (uservec, prepare_return(), kernelvec.S, swtch.S).
TpIsCpu == \A c \in CPUs : InUser(c) \/ At(c, "uservec") \/ hw[c].tp = c

\* noff is the number of spin-locks the CPU holds or spins for, across the locks that
\* a thread takes and the scheduler releases, and the reverse; interrupts are off
\* while it is not zero, so that no handler waits for a lock its own CPU holds.
LocksCounted ==
  \A c \in CPUs :
    /\ cpu[c].noff = Cardinality({l \in DOMAIN lock : lock[l] = c}) + (IF At(c, "spin") THEN 1 ELSE 0)
    /\ cpu[c].noff > 0 => ~hw[c].sie

\* Outside locks, a system call runs with interrupts on and a handler with interrupts
\* off, also after sleep() or yield() gave the CPU (and its intena) to others.
InterruptsRestored ==
  \A c \in CPUs :
    cur[c] \in Procs /\ cpu[c].noff = 0 =>
      /\ InHandler(cur[c]) => ~hw[c].sie
      /\ InSyscall(cur[c]) => hw[c].sie

\* A trap returns to the place it interrupted and in its mode, and a system call to
\* the instruction after the ecall, whatever traps came between.
ResumesWhereInterrupted ==
  \A c \in CPUs :
    At(c, "sret") \/ At(c, "userret") =>
      /\ hw[c].sepc = <<cur[c], stk[cur[c]][2][1]>>
      /\ hw[c].spp = (IF At(c, "sret") THEN "supervisor" ELSE "user")
      /\ hw[c].spie

\* pause(n) returns to a process nobody killed after n ticks at the least, over the wrap
\* of ticks too.
PauseLongEnough ==
  \A c \in CPUs : At(c, "killed") /\ Top(c)[2] = "ecall" /\ ~state[cur[c]].killed
                    => pause[cur[c]].passed >= pause[cur[c]].n

\* An interrupt the PLIC gave out is completed by the one thread that claimed it.
ClaimCompleted ==
  \A i \in Irqs : Cardinality({t \in Threads : HasFrame(t, <<"plic_complete", i>>)})
                    = (IF plic[i] = "claimed" THEN 1 ELSE 0)

\* The panics of acquire(), release(), pop_off(), sched(), usertrap() and kerneltrap().
Panics(c) ==
  \/ At(c, "spin") /\ holding(Top(c)[2], c)
  \/ At(c, "wakeup") /\ \E p \in Top(c)[2] : holding(p, c)
  \/ At(c, "release") /\ (~holding(Top(c)[2], c) \/ hw[c].sie \/ cpu[cpuid(c)].noff < 1)
  \/ At(c, "sched") /\ (\/ ~holding(myproc(c), c) \/ cpu[cpuid(c)].noff # 1
                         \/ state[myproc(c)].state = "RUNNING" \/ hw[c].sie)
  \/ At(c, "usertrap") /\ hw[c].spp # "user"
  \/ At(c, "kernelvec") /\ (hw[c].spp # "supervisor" \/ hw[c].sie)
\* No trap comes in the wrong mode or to the wrong vector, and no lock is taken twice
\* or kept over a switch: none of these panics happens.
NoPanic == \A c \in CPUs : ~Panics(c)

\* What kernel code relies on wherever it is interrupted and on whichever CPU it goes on:
\* its hart number, the count of its locks and the state of interrupts.
CpuInv == TypeOK /\ TpIsCpu /\ LocksCounted /\ InterruptsRestored

\* Traps nest and return without a trace: to where they came from, with the device's
\* interrupt completed, and without a panic.
TrapInv == ResumesWhereInterrupted /\ ClaimCompleted /\ NoPanic
=============================================================================
