----------------------------- MODULE TrapsProofs ----------------------------
(***************************************************************************)
(* Proofs about Traps: kernel code finds its hart number, its locks        *)
(* counted and its interrupts as they were, traps return to where they     *)
(* came from, and pause() waits long enough, for any number of CPUs,       *)
(* processes and devices and any width of ticks.                           *)
(*                                                                         *)
(* What lies under a frame says where it returns to, so that the two top   *)
(* frames of a stack determine the locks the thread holds and the          *)
(* registers of the CPU it runs on.                                        *)
(***************************************************************************)
EXTENDS Traps, SequenceTheorems, FiniteSetTheorems, TLAPS

Locks == Procs \cup {"tickslock"}
Causes == {"ecall", "timer", "external"}
User == {"ecall", "next"}
\* The labels at which an interrupt may find the CPU.
Open == User \cup {"sys_pause", "acquire", "killed", "prepare_return", "scheduler", "scan"}
PauseLabels == {"sys_pause", "pause_start", "pause_loop"}
\* From user space to the cause of the trap, and from its service back to user space.
TrapEntry == {"uservec", "usertrap", "save_epc"}
TrapExit == {"killed", "prepare_return", "prepare_regs", "userret"}
OfProcess == User \cup PauseLabels \cup TrapEntry \cup TrapExit
             \cup {"asleep", "kexit", "yield", "sched", "resumed"}
OfScheduler == {"scheduler", "scan", "run"}
OfDevice == {"clockintr", "tick", "wakeup", "plic_claim", "plic_complete"}
Labels == OfProcess \cup OfScheduler \cup OfDevice \cup Handlers \cup {"acquire", "spin", "release"}
Pc == {<<>>} \cup (Threads \X Labels)
Modes == {"user", "supervisor"}
Bare == User \cup PauseLabels
        \cup {"scheduler", "clockintr", "tick", "plic_claim", "prepare_return", "prepare_regs",
              "userret", "sret", "yield", "kexit", "asleep", "sched"}
Frame == {<<l>> : l \in Bare}
         \cup ({"acquire", "spin", "release", "run"} \X Locks)
         \cup ({"wakeup", "scan"} \X SUBSET Procs)
         \cup ({"kernelvec", "uservec", "usertrap", "save_epc", "killed"} \X Causes)
         \cup ({"plic_complete"} \X Irqs) \cup ({"resumed"} \X BOOLEAN)
         \cup ({"restore"} \X Pc \X Modes \X BOOLEAN)
Registers == [sie : BOOLEAN, tp : CPUs \cup {UserTp}, stvec : {"uservec", "kernelvec"},
              sepc : Pc, spp : Modes, spie : BOOLEAN]
CpuStruct == [noff : 0..2, intena : BOOLEAN]
States == {"RUNNABLE", "RUNNING", "SLEEPING", "ZOMBIE"}

Types ==
  /\ hw \in [CPUs -> Registers]
  /\ cpu \in [CPUs -> CpuStruct]
  /\ cur \in [CPUs -> Threads]
  /\ stk \in [Threads -> Seq(Frame)]
  /\ lock \in [Locks -> CPUs \cup {Nobody}]
  /\ state \in [Procs -> [state : States, killed : BOOLEAN]]
  /\ tf \in [Procs -> [hartid : CPUs, epc : Pc]]
  /\ ticks \in 0..(UINT - 1)
  /\ pause \in [Procs -> [n : Int, ticks0 : 0..(UINT - 1), passed : 0..UINT]]
  /\ plic \in [Irqs -> {"quiet", "pending", "claimed"}]

---------------------------------------------------------------------------
(* Stacks.                                                                 *)

Nth(s, i) == IF i <= Len(s) THEN s[i] ELSE <<"none">>
Has(s, f) == \E i \in 1..Len(s) : s[i] = f
HasOf(s, L) == \E i \in 1..Len(s) : s[i][1] \in L
Bottom(s) == s[Len(s)]

\* Where devintr() returns to.
AfterDevice(g, h) == g[1] \in {"killed", "restore"} \/ (g[1] = "acquire" /\ h[1] = "yield")
\* Frame f of thread t may stand on g, and g on h.
Onto(t, f, g, h) ==
  /\ f[1] \in OfProcess =>
       /\ t \in Procs
       /\ f[1] \in User => g[1] = "none"
       /\ f[1] \in TrapEntry => g[1] \in User /\ (f[2] = "ecall" => g[1] = "ecall")
       /\ f[1] \in TrapExit => g[1] \in User
       /\ f[1] \in PauseLabels => g = <<"killed", "ecall">>
       /\ f[1] = "asleep" => g[1] = "pause_loop"
       /\ f[1] = "kexit" => g[1] \in User
       /\ f[1] = "yield" => g[1] \in {"prepare_return", "restore"}
       /\ f[1] \in {"sched", "resumed"} => g[1] \in User \/ g = <<"release", t>>
  /\ f[1] \in OfScheduler =>
       /\ t \in CPUs
       /\ IF f[1] = "run" THEN f[2] \in Procs /\ g[1] = "scan" ELSE g[1] = "none"
  /\ f[1] \in OfDevice =>
       IF f[1] = "wakeup" THEN g = <<"release", "tickslock">> /\ h[1] # "asleep" ELSE AfterDevice(g, h)
  /\ f[1] = "release" =>
       \/ f[2] = "tickslock" /\ (g[1] = "asleep" \/ AfterDevice(g, h))
       \/ /\ f[2] = t /\ t \in Procs
          /\ \/ g[1] \in {"prepare_return", "restore"}
             \/ g = <<"acquire", "tickslock">> /\ h[1] = "pause_loop"
       \/ f[2] \in Procs /\ t \in CPUs /\ g[1] = "scan"
  /\ f[1] \in {"acquire", "spin"} =>
       \/ f[2] = "tickslock" /\ g[1] \in {"pause_start", "pause_loop", "tick"}
       \/ /\ f[2] = t /\ t \in Procs
          /\ g[1] \in {"kexit", "yield"} \/ (g = <<"release", "tickslock">> /\ h[1] = "asleep")
       \/ f[2] \in Procs /\ t \in CPUs /\ g = <<"run", f[2]>>
  /\ f[1] \in Handlers =>
       /\ g[1] \in Open /\ g[1] \notin User /\ (g[1] = "acquire" => h[1] # "release")
       /\ f[1] = "kernelvec" => f[2] # "ecall"
       /\ f[1] = "restore" => f = <<"restore", <<t, g[1]>>, "supervisor", TRUE>>

\* Every frame stands where it may, and one of them at most is a handler's.
Stack(t, s) ==
  /\ s \in Seq(Frame) /\ Len(s) > 0
  /\ \A i \in 1..Len(s) : Onto(t, s[i], Nth(s, i + 1), Nth(s, i + 2))
  /\ \A i, j \in 1..Len(s) : s[i][1] \in Handlers /\ s[j][1] \in Handlers => i = j

\* The locks that thread t holds, whose top frames are f and g, and noff.
Held(t, f, g) ==
  CASE f[1] \in {"tick", "wakeup", "pause_start", "pause_loop"} -> {"tickslock"}
    [] f[1] \in {"asleep", "yield", "kexit", "sched", "resumed"} -> {t}
    [] f[1] = "run" -> {f[2]}
    [] f[1] = "release" -> IF g[1] = "asleep" THEN {"tickslock", t} ELSE {f[2]}
    [] f[1] \in {"acquire", "spin"} /\ g[1] = "release" -> {"tickslock"}
    [] OTHER -> {}
Depth(f, g) ==
  CASE f[1] \in {"tick", "wakeup", "pause_start", "pause_loop",
                 "asleep", "yield", "kexit", "sched", "resumed", "run"} -> 1
    [] f[1] = "release" -> IF g[1] = "asleep" THEN 2 ELSE 1
    [] f[1] = "acquire" -> IF g[1] = "release" THEN 1 ELSE 0
    [] f[1] = "spin" -> IF g[1] = "release" THEN 2 ELSE 1
    [] OTHER -> 0

---------------------------------------------------------------------------
(* The inductive invariant.                                                *)

\* Registers r and struct cpu k of CPU c, by the stack s of the thread t that runs, whose
\* trapframe is u.
Regs(c, t, s, r, k, u) ==
  LET f == Nth(s, 1)
      g == Nth(s, 2)
  IN /\ f[1] \in User \/ f[1] = "uservec" \/ r.tp = c
     /\ f[1] \in User \/ f[1] \in {"uservec", "userret"} => u.hartid = c
     /\ r.stvec = IF f[1] \in User \/ f[1] \in {"uservec", "userret", "usertrap"} THEN "uservec" ELSE "kernelvec"
     /\ f[1] \in TrapEntry => r.sepc = <<t, g[1]>> /\ r.spp = "user"
     /\ f[1] \in {"kernelvec", "sret"} => r.sepc = <<t, g[1]>> /\ r.spp = "supervisor" /\ r.spie
     /\ f[1] = "userret" => r.sepc = u.epc /\ r.spp = "user" /\ r.spie
     /\ r.sie => k.noff = 0 /\ f[1] \in Open
     /\ HasOf(s, Handlers) => ~r.sie /\ (f[1] # "resumed" /\ k.noff > 0 => ~k.intena)
     /\ ~HasOf(s, Handlers) /\ Has(s, <<"killed", "ecall">>) =>
          /\ k.noff = 0 => r.sie
          /\ f[1] # "resumed" /\ k.noff > 0 => k.intena
     /\ k.noff = Depth(f, g)
CpuRegs(c) ==
  /\ Regs(c, cur[c], stk[cur[c]], hw[c], cpu[c], tf[cur[c]])
  /\ \A l \in Locks : lock[l] = c <=> l \in Held(cur[c], Nth(stk[cur[c]], 1), Nth(stk[cur[c]], 2))

\* A process runs on one CPU, whose scheduler then waits to release its lock.
SwitchInv ==
  /\ \A c \in CPUs : cur[c] \in Procs \cup {c}
  /\ \A c, d \in CPUs : cur[c] = cur[d] => c = d
  /\ \A c \in CPUs : cur[c] # c => /\ Nth(stk[c], 1) = <<"release", cur[c]>>
                                   /\ \/ state[cur[c]].state = "RUNNING"
                                      \/ Nth(stk[cur[c]], 1)[1] = "sched"
  /\ \A p \in Procs : (\A c \in CPUs : cur[c] # p) =>
       \/ Nth(stk[p], 1)[1] = "resumed"
       \/ Nth(stk[p], 1) = <<"release", p>> /\ Nth(stk[p], 2)[1] = "prepare_return"

\* What process p, with stack s, state x and trapframe u, keeps while it does not run and
\* while a handler runs on its stack.
Keeps(p, s, x, u) ==
  LET f == Nth(s, 1)
  IN /\ f[1] = "sched" => x.state # "RUNNING"
     /\ f[1] \in {"sched", "resumed"} /\ Nth(s, 2)[1] \in User => x.state = "ZOMBIE"
     /\ f[1] = "resumed" => /\ HasOf(s, Handlers) => ~f[2]
                            /\ ~HasOf(s, Handlers) /\ Has(s, <<"killed", "ecall">>) => f[2]
     /\ HasOf(s, TrapExit) => u.epc = <<p, Bottom(s)[1]>>
\* passed counts the ticks since ticks0, without the wrap, up to n; w are the variables of
\* sys_pause() of a process with stack s, and now is ticks.
Pausing(s, w, dead, now) ==
  /\ 2 * w.n < UINT
  /\ HasOf(s, {"pause_start", "pause_loop"}) => w.n >= 0
  /\ HasOf(s, {"pause_loop"}) => w.passed >= w.n \/ w.passed = (now - w.ticks0) % UINT
  /\ Has(s, <<"killed", "ecall">>) /\ ~HasOf(s, PauseLabels) => w.passed >= w.n \/ dead
ProcKeeps(p) == /\ Keeps(p, stk[p], state[p], tf[p])
                /\ Pausing(stk[p], pause[p], state[p].killed, ticks)

\* The claim of an interrupt is on top of one stack.
ClaimInv ==
  \A i \in Irqs :
    /\ plic[i] = "claimed" <=> \E t \in Threads : Nth(stk[t], 1) = <<"plic_complete", i>>
    /\ \A t, u \in Threads :
         Nth(stk[t], 1) = <<"plic_complete", i>> /\ Nth(stk[u], 1) = <<"plic_complete", i>> => t = u

IInv == /\ Types
        /\ \A t \in Threads : Stack(t, stk[t])
        /\ SwitchInv /\ ClaimInv
        /\ \A c \in CPUs : CpuRegs(c)
        /\ \A p \in Procs : ProcKeeps(p)

---------------------------------------------------------------------------
(* Constants and frames.                                                   *)

LEMMA Names ==
  /\ CPUs \subseteq Nat /\ Nobody \notin CPUs /\ UserTp \notin CPUs /\ 0 \in CPUs
  /\ "tickslock" \notin Procs /\ (\A p \in Procs : p \notin CPUs)
  /\ UINT \in Nat \ {0}
  BY TrapsAssumption DEF CPUs, Nobody, UserTp

LEMMA LabelOf ==
  ASSUME NEW f \in Frame
  PROVE  f[1] \in Labels /\ f[1] # "none"
<1>1. f[1] \in Labels
  BY DEF Frame, Bare, Labels, OfProcess, OfScheduler, OfDevice, Handlers, TrapEntry, TrapExit, User,
     PauseLabels
<1>2. "none" \notin Labels
  BY DEF Labels, OfProcess, OfScheduler, OfDevice, Handlers, TrapEntry, TrapExit, User, PauseLabels
<1>3. QED
  BY <1>1, <1>2

LEMMA Made ==
  /\ \A l \in Bare : <<l>> \in Frame
  /\ \A x \in Locks : {<<"acquire", x>>, <<"spin", x>>, <<"release", x>>, <<"run", x>>} \subseteq Frame
  /\ \A x \in SUBSET Procs : {<<"wakeup", x>>, <<"scan", x>>} \subseteq Frame
  /\ \A x \in Causes : {<<"kernelvec", x>>, <<"uservec", x>>, <<"usertrap", x>>,
                        <<"save_epc", x>>, <<"killed", x>>} \subseteq Frame
  /\ \A x \in Irqs : <<"plic_complete", x>> \in Frame
  /\ \A x \in BOOLEAN : <<"resumed", x>> \in Frame
  /\ \A x \in Pc, y \in Modes, z \in BOOLEAN : <<"restore", x, y, z>> \in Frame
<1>1. \A l \in Bare : <<l>> \in Frame
  BY DEF Frame
<1>2. \A x \in Locks : {<<"acquire", x>>, <<"spin", x>>, <<"release", x>>, <<"run", x>>} \subseteq Frame
  BY DEF Frame
<1>3. \A x \in SUBSET Procs : {<<"wakeup", x>>, <<"scan", x>>} \subseteq Frame
  BY DEF Frame
<1>4. \A x \in Causes : {<<"kernelvec", x>>, <<"uservec", x>>, <<"usertrap", x>>,
                        <<"save_epc", x>>, <<"killed", x>>} \subseteq Frame
  BY DEF Frame
<1>5. \A x \in Irqs : <<"plic_complete", x>> \in Frame
  BY DEF Frame
<1>6. \A x \in BOOLEAN : <<"resumed", x>> \in Frame
  BY DEF Frame
<1>7. \A x \in Pc, y \in Modes, z \in BOOLEAN : <<"restore", x, y, z>> \in Frame
  BY DEF Frame
<1>8. QED
  BY <1>1, <1>2, <1>3, <1>4, <1>5, <1>6, <1>7

\* The arguments that the labels have.
LEMMA Arguments ==
  ASSUME NEW f \in Frame
  PROVE  /\ f[1] \in {"wakeup", "scan"} => f[2] \in SUBSET Procs
         /\ f[1] = "plic_complete" => f[2] \in Irqs /\ f = <<"plic_complete", f[2]>>
         /\ f[1] = "resumed" => f[2] \in BOOLEAN
         /\ f[1] \in {"kernelvec", "uservec", "usertrap", "save_epc", "killed"} =>
              f[2] \in Causes /\ f = <<f[1], f[2]>>
         /\ f[1] \in {"acquire", "spin", "release", "run"} => f[2] \in Locks /\ f = <<f[1], f[2]>>
         /\ f[1] \in Bare => f = <<f[1]>>
  BY DEF Frame, Bare, User, PauseLabels

---------------------------------------------------------------------------
(* A return with more to do: the frames e take the place of the top of s.  *)

LEMMA Positions ==
  ASSUME NEW s \in Seq(Frame), Len(s) > 0, NEW e \in Seq(Frame)
  PROVE  /\ e \o Tail(s) \in Seq(Frame)
         /\ Len(e \o Tail(s)) = Len(e) + Len(s) - 1
         /\ \A i \in 1..Len(e) : (e \o Tail(s))[i] = e[i]
         /\ \A i \in 2..Len(s) : (e \o Tail(s))[i + Len(e) - 1] = s[i]
         /\ \A i, k \in Nat : i > 1 /\ k = i + Len(e) - 1 => Nth(e \o Tail(s), k) = Nth(s, i)
<1> DEFINE z == e \o Tail(s)
           n == Len(e)
           m == Len(s)
<1>1. s # <<>>
  BY EmptySeq
<1>2. Tail(s) \in Seq(Frame) /\ Len(Tail(s)) = m - 1 /\ \A i \in 1..m - 1 : Tail(s)[i] = s[i + 1]
  BY <1>1, HeadTailProperties
<1>3. n \in Nat /\ m \in Nat
  BY LenProperties
<1>4. /\ z \in Seq(Frame) /\ Len(z) = n + (m - 1)
      /\ \A i \in 1..n + (m - 1) : z[i] = IF i <= n THEN e[i] ELSE Tail(s)[i - n]
  BY <1>2, ConcatProperties
<1> HIDE DEF z, n, m
<1>5. \A i \in 1..n : z[i] = e[i]
  BY <1>3, <1>4 DEF m
<1>6. ASSUME NEW i \in 2..m PROVE z[i + n - 1] = s[i]
  <2>1. i + n - 1 \in 1..n + (m - 1) /\ ~(i + n - 1 <= n) /\ (i + n - 1) - n = i - 1 /\ i - 1 \in 1..m - 1 /\ (i - 1) + 1 = i
    BY <1>3
  <2>2. QED
    BY <1>2, <1>4, <2>1
<1>7. ASSUME NEW i \in Nat, NEW k \in Nat, i > 1, k = i + n - 1 PROVE Nth(z, k) = Nth(s, i)
  <2>1. k <= Len(z) <=> i <= m
    BY <1>3, <1>4, <1>7
  <2>2. QED
    BY <1>3, <1>6, <1>7, <2>1 DEF Nth, m
<1>8. QED
  BY <1>3, <1>4, <1>5, <1>6, <1>7 DEF z, n, m

\* The top frame, and the others.
LEMMA TopAndRest ==
  ASSUME NEW s \in Seq(Frame), Len(s) > 0
  PROVE  /\ Head(s) = s[1] /\ Nth(s, 1) = s[1] /\ s[1] \in Frame /\ Len(s) \in Nat
         /\ Len(s) > 1 => Nth(s, 2) = s[2] /\ s[2] \in Frame
         /\ ~(Len(s) > 1) => Nth(s, 2) = <<"none">>
         /\ Len(s) > 2 => Nth(s, 3) = s[3] /\ s[3] \in Frame
         /\ ~(Len(s) > 2) => Nth(s, 3) = <<"none">>
         /\ \A L : HasOf(s, L) <=> s[1][1] \in L \/ HasOf(Tail(s), L)
         /\ \A f : Has(s, f) <=> s[1] = f \/ Has(Tail(s), f)
<1>1. s # <<>> /\ Len(s) \in Nat /\ \A i \in 1..Len(s) : s[i] \in Frame
  BY EmptySeq, LenProperties, ElementOfSeq
<1>2. Tail(s) \in Seq(Frame) /\ Len(Tail(s)) = Len(s) - 1 /\ \A i \in 1..Len(s) - 1 : Tail(s)[i] = s[i + 1]
  BY <1>1, HeadTailProperties
<1>3. Head(s) = s[1]
  BY <1>1
<1>4. \A i \in 1..Len(s) : i = 1 \/ \E j \in 1..Len(s) - 1 : Tail(s)[j] = s[i]
  <2>1. TAKE i \in 1..Len(s)
  <2>2. i = 1 \/ \E j \in 1..Len(s) - 1 : i = j + 1
    <3>1. i = 1 \/ (i - 1 \in 1..Len(s) - 1 /\ i = (i - 1) + 1)
      BY <1>1
    <3>2. QED
      BY <3>1
  <2>3. QED
    BY <1>2, <2>2
<1>5. \A i \in 1..Len(s) - 1 : i + 1 \in 1..Len(s) /\ 1 \in 1..Len(s)
  BY <1>1
<1>6. \A L : HasOf(s, L) <=> s[1][1] \in L \/ HasOf(Tail(s), L)
  <2>1. TAKE L
  <2>2. ASSUME HasOf(s, L) PROVE s[1][1] \in L \/ HasOf(Tail(s), L)
    BY <1>2, <1>4, <2>2 DEF HasOf
  <2>3. ASSUME s[1][1] \in L \/ HasOf(Tail(s), L) PROVE HasOf(s, L)
    BY <1>1, <1>2, <1>5, <2>3 DEF HasOf
  <2>4. QED
    BY <2>2, <2>3
<1>7. \A f : Has(s, f) <=> s[1] = f \/ Has(Tail(s), f)
  <2>1. TAKE f
  <2>2. ASSUME Has(s, f) PROVE s[1] = f \/ Has(Tail(s), f)
    BY <1>2, <1>4, <2>2 DEF Has
  <2>3. ASSUME s[1] = f \/ Has(Tail(s), f) PROVE Has(s, f)
    BY <1>1, <1>2, <1>5, <2>3 DEF Has
  <2>4. QED
    BY <2>2, <2>3
<1>8. QED
  BY <1>1, <1>3, <1>6, <1>7 DEF Nth

LEMMA Replaced ==
  ASSUME NEW t, NEW s, Stack(t, s), NEW e \in Seq(Frame), Len(e) + Len(s) > 1,
         NEW z, z = e \o Tail(s),
         \A i \in 1..Len(e) : Onto(t, e[i], Nth(z, i + 1), Nth(z, i + 2)),
         \A i, j \in 1..Len(e) : e[i][1] \in Handlers /\ e[j][1] \in Handlers => i = j,
         HasOf(e, Handlers) => s[1][1] \in Handlers
  PROVE  /\ Stack(t, z)
         /\ \A L : HasOf(z, L) <=> HasOf(e, L) \/ HasOf(Tail(s), L)
         /\ \A f : Has(z, f) <=> Has(e, f) \/ Has(Tail(s), f)
         /\ Len(s) > 1 => Bottom(z) = Bottom(s)
<1> DEFINE n == Len(e)
           m == Len(s)
<1>1. n \in Nat /\ m \in Nat /\ m > 0 /\ n + m > 1 /\ s \in Seq(Frame)
  BY LenProperties DEF Stack
<1>2. /\ z \in Seq(Frame) /\ Len(z) = n + m - 1
      /\ \A i \in 1..n : z[i] = e[i]
      /\ \A i \in 2..m : z[i + n - 1] = s[i]
      /\ \A i, k \in Nat : i > 1 /\ k = i + n - 1 => Nth(z, k) = Nth(s, i)
  BY <1>1, Positions
<1>3. /\ Tail(s) \in Seq(Frame) /\ Len(Tail(s)) = m - 1
      /\ \A i \in 1..m - 1 : Tail(s)[i] = s[i + 1]
  <2>1. s # <<>>
    BY <1>1, EmptySeq
  <2>2. QED
    BY <1>1, <2>1, HeadTailProperties
<1>4. \A i \in 1..m : Onto(t, s[i], Nth(s, i + 1), Nth(s, i + 2))
  BY DEF Stack
<1>5. \A i, j \in 1..m : s[i][1] \in Handlers /\ s[j][1] \in Handlers => i = j
  BY DEF Stack
<1>h. \A i, j \in 1..n : e[i][1] \in Handlers /\ e[j][1] \in Handlers => i = j
  OBVIOUS
<1>o. \A i \in 1..n : Onto(t, e[i], Nth(z, i + 1), Nth(z, i + 2))
  OBVIOUS
<1> HIDE DEF n, m
\* A position of z is one of e or one below the top of s.
<1>6. \A i \in 1..Len(z) : i \in 1..n \/ (i - n + 1 \in 2..m /\ i - n + 1 + n - 1 = i /\ z[i] = s[i - n + 1])
  <2>1. TAKE i \in 1..Len(z)
  <2>2. CASE i <= n
    BY <1>1, <2>2
  <2>3. CASE i > n
    <3>1. i - n + 1 \in 2..m /\ i - n + 1 + n - 1 = i
      BY <1>1, <1>2, <2>3
    <3>2. QED
      BY <1>2, <3>1
  <2>4. QED
    BY <1>1, <1>2, <2>2, <2>3
<1>7. ASSUME NEW i \in 1..Len(z) PROVE Onto(t, z[i], Nth(z, i + 1), Nth(z, i + 2))
  <2>1. CASE i \in 1..n
    BY <1>2, <1>o, <2>1
  <2>2. CASE i - n + 1 \in 2..m /\ i - n + 1 + n - 1 = i /\ z[i] = s[i - n + 1]
    <3> DEFINE k == i - n + 1
    <3>1. k \in 1..m /\ k + 1 \in Nat /\ k + 2 \in Nat /\ k + 1 > 1 /\ k + 2 > 1
          /\ i + 1 = (k + 1) + n - 1 /\ i + 2 = (k + 2) + n - 1 /\ i + 1 \in Nat /\ i + 2 \in Nat
      BY <1>1, <2>2
    <3> HIDE DEF k
    <3>2. Nth(z, i + 1) = Nth(s, k + 1) /\ Nth(z, i + 2) = Nth(s, k + 2)
      BY <1>2, <3>1
    <3>3. Onto(t, s[k], Nth(s, k + 1), Nth(s, k + 2))
      BY <1>4, <3>1
    <3>4. z[i] = s[k]
      BY <2>2 DEF k
    <3>5. QED
      BY <3>2, <3>3, <3>4
  <2>3. QED
    BY <1>6, <2>1, <2>2
<1>8. ASSUME NEW i \in 1..Len(z), NEW j \in 1..Len(z), z[i][1] \in Handlers, z[j][1] \in Handlers PROVE i = j
  <2>1. CASE i \in 1..n /\ j \in 1..n
    BY <1>2, <1>8, <1>h, <2>1
  <2>2. CASE i \notin 1..n /\ j \notin 1..n
    <3>1. i - n + 1 \in 1..m /\ j - n + 1 \in 1..m /\ z[i] = s[i - n + 1] /\ z[j] = s[j - n + 1]
      <4>1. i - n + 1 \in 2..m /\ j - n + 1 \in 2..m /\ z[i] = s[i - n + 1] /\ z[j] = s[j - n + 1]
        BY <1>6, <2>2
      <4>2. QED
        BY <1>1, <4>1
    <3>2. i - n + 1 = j - n + 1
      BY <1>5, <1>8, <3>1
    <3>3. QED
      BY <1>1, <1>2, <3>2
  <2>3. ASSUME NEW a \in 1..n, NEW b \in 2..m, e[a][1] \in Handlers, s[b][1] \in Handlers PROVE FALSE
    <3>1. s[1][1] \in Handlers
      BY <2>3 DEF HasOf, n
    <3>2. 1 \in 1..m /\ b \in 1..m /\ b # 1
      BY <1>1
    <3>3. QED
      BY <1>5, <2>3, <3>1, <3>2
  <2>4. CASE i \in 1..n /\ j \notin 1..n
    BY <1>2, <1>6, <1>8, <2>3, <2>4
  <2>5. CASE i \notin 1..n /\ j \in 1..n
    BY <1>2, <1>6, <1>8, <2>3, <2>5
  <2>6. QED
    BY <2>1, <2>2, <2>4, <2>5
<1>9. Stack(t, z)
  <2>1. z \in Seq(Frame) /\ Len(z) > 0
    BY <1>1, <1>2
  <2>2. QED
    BY <1>7, <1>8, <2>1 DEF Stack
\* And each of those is a position of z.
<1>10. \A i \in 1..n : i \in 1..Len(z) /\ z[i] = e[i]
  <2>1. \A i \in 1..n : i \in 1..n + m - 1
    BY <1>1
  <2>2. QED
    BY <1>2, <2>1
<1>11. \A i \in 1..m - 1 : i + n \in 1..Len(z) /\ z[i + n] = Tail(s)[i]
  <2>1. TAKE i \in 1..m - 1
  <2>2. i + 1 \in 2..m /\ (i + 1) + n - 1 = i + n /\ i + n \in 1..Len(z)
    BY <1>1, <1>2
  <2>3. QED
    BY <1>2, <1>3, <2>2
<1>12. \A i \in 1..Len(z) : i \in 1..n \/ (i - n \in 1..m - 1 /\ z[i] = Tail(s)[i - n])
  <2>1. TAKE i \in 1..Len(z)
  <2>2. CASE i \in 1..n
    BY <2>2
  <2>3. CASE i - n + 1 \in 2..m /\ z[i] = s[i - n + 1]
    <3>1. i - n \in 1..m - 1 /\ (i - n) + 1 = i - n + 1
      BY <1>1, <1>2, <2>3
    <3>2. QED
      BY <1>3, <2>3, <3>1
  <2>4. QED
    BY <1>6, <2>2, <2>3
<1>13. \A L : HasOf(z, L) <=> HasOf(e, L) \/ HasOf(Tail(s), L)
  <2>1. TAKE L
  <2>2. ASSUME HasOf(z, L) PROVE HasOf(e, L) \/ HasOf(Tail(s), L)
    BY <1>2, <1>3, <1>12, <2>2 DEF HasOf, n
  <2>3. ASSUME HasOf(e, L) PROVE HasOf(z, L)
    BY <1>10, <2>3 DEF HasOf, n
  <2>4. ASSUME HasOf(Tail(s), L) PROVE HasOf(z, L)
    BY <1>3, <1>11, <2>4 DEF HasOf
  <2>5. QED
    BY <2>2, <2>3, <2>4
<1>14. \A f : Has(z, f) <=> Has(e, f) \/ Has(Tail(s), f)
  <2>1. TAKE f
  <2>2. ASSUME Has(z, f) PROVE Has(e, f) \/ Has(Tail(s), f)
    BY <1>2, <1>3, <1>12, <2>2 DEF Has, n
  <2>3. ASSUME Has(e, f) PROVE Has(z, f)
    BY <1>10, <2>3 DEF Has, n
  <2>4. ASSUME Has(Tail(s), f) PROVE Has(z, f)
    BY <1>3, <1>11, <2>4 DEF Has
  <2>5. QED
    BY <2>2, <2>3, <2>4
<1>15. m > 1 => Bottom(z) = Bottom(s)
  BY <1>1, <1>2 DEF Bottom, m
<1>16. QED
  BY <1>9, <1>13, <1>14, <1>15 DEF m

\* The same for the numbers of frames that the actions leave.
Put0(s) == <<>> \o Tail(s)
Put1(x, s) == <<x>> \o Tail(s)
Put2(x, y, s) == <<x, y>> \o Tail(s)
Put3(x, y, v, s) == <<x, y, v>> \o Tail(s)
Put4(x, y, v, w, s) == <<x, y, v, w>> \o Tail(s)
Add(x, s) == <<x>> \o s

LEMMA Pop ==
  ASSUME NEW t, NEW s, Stack(t, s), Len(s) > 1, NEW z, z = Put0(s)
  PROVE  /\ Stack(t, z)
         /\ Nth(z, 1) = Nth(s, 2) /\ Nth(z, 2) = Nth(s, 3)
         /\ \A L : HasOf(z, L) <=> HasOf(Tail(s), L)
         /\ \A f : Has(z, f) <=> Has(Tail(s), f)
         /\ Bottom(z) = Bottom(s)
<1> DEFINE e == <<>>
<1>1. e \in Seq(Frame) /\ Len(e) = 0 /\ s \in Seq(Frame) /\ Len(s) \in Nat
  BY EmptySeq, LenProperties DEF Stack
<1>3. z = e \o Tail(s) /\ Len(e) + Len(s) > 1 /\ 1..Len(e) = {}
  BY <1>1 DEF Put0
<1> HIDE DEF e
<1>2. Nth(z, 1) = Nth(s, 2) /\ Nth(z, 2) = Nth(s, 3)
  <2>1. \A i, k \in Nat : i > 1 /\ k = i + Len(e) - 1 => Nth(z, k) = Nth(s, i)
    <3>1. e \in Seq(Frame) /\ s \in Seq(Frame) /\ Len(s) > 0
      BY <1>1
    <3>2. \A i, k \in Nat : i > 1 /\ k = i + Len(e) - 1 => Nth(e \o Tail(s), k) = Nth(s, i)
      BY ONLY <3>1, Positions
    <3>3. QED
      BY ONLY <1>3, <3>2
  <2>2. QED
    BY <1>1, <2>1
<1>4. (\A L : ~HasOf(e, L)) /\ (\A f : ~Has(e, f))
  BY <1>3 DEF HasOf, Has
<1>5. /\ Stack(t, z)
      /\ \A L : HasOf(z, L) <=> HasOf(e, L) \/ HasOf(Tail(s), L)
      /\ \A f : Has(z, f) <=> Has(e, f) \/ Has(Tail(s), f)
      /\ Len(s) > 1 => Bottom(z) = Bottom(s)
  BY <1>1, <1>3, <1>4, Replaced
<1>6. QED
  BY <1>2, <1>4, <1>5

LEMMA Push1 ==
  ASSUME NEW t, NEW s, Stack(t, s), NEW x \in Frame, NEW z, z = Put1(x, s),
         Onto(t, x, Nth(s, 2), Nth(s, 3)), x[1] \in Handlers => s[1][1] \in Handlers
  PROVE  /\ Stack(t, z)
         /\ Nth(z, 1) = x /\ Nth(z, 2) = Nth(s, 2)
         /\ \A L : HasOf(z, L) <=> x[1] \in L \/ HasOf(Tail(s), L)
         /\ \A f : Has(z, f) <=> x = f \/ Has(Tail(s), f)
         /\ Len(s) > 1 => Bottom(z) = Bottom(s)
<1> DEFINE e == <<x>>
<1>1. /\ e \in Seq(Frame) /\ Len(e) = 1 /\ e[1] = x
      /\ s \in Seq(Frame) /\ Len(s) \in Nat /\ Len(s) > 0
  BY LenProperties DEF Stack
<1>2. z = e \o Tail(s)
  BY DEF Put1
<1> HIDE DEF e
<1>3. Nth(z, 1) = x /\ Nth(z, 2) = Nth(s, 2) /\ Nth(z, 3) = Nth(s, 3)
  <2>1. /\ \A i, k \in Nat : i > 1 /\ k = i + Len(e) - 1 => Nth(z, k) = Nth(s, i)
        /\ \A i \in 1..Len(e) : z[i] = e[i]
        /\ Len(z) = Len(e) + Len(s) - 1
    <3>1. /\ \A i, k \in Nat : i > 1 /\ k = i + Len(e) - 1 => Nth(e \o Tail(s), k) = Nth(s, i)
          /\ \A i \in 1..Len(e) : (e \o Tail(s))[i] = e[i]
          /\ Len(e \o Tail(s)) = Len(e) + Len(s) - 1
      <4>1. e \in Seq(Frame) /\ s \in Seq(Frame) /\ Len(s) > 0
        BY <1>1
      <4>2. QED
        BY ONLY <4>1, Positions
    <3>2. QED
      BY ONLY <1>2, <3>1
  <2>2. Nth(z, 2) = Nth(s, 2) /\ Nth(z, 3) = Nth(s, 3)
    <3>1. Len(e) = 1
      BY <1>1
    <3>2. QED
      BY ONLY <2>1, <3>1
  <2>3. z[1] = x /\ Len(z) >= 1
    BY <1>1, <2>1
  <2>4. QED
    BY <2>2, <2>3 DEF Nth
<1>4. (\A L : HasOf(e, L) <=> x[1] \in L) /\ (\A f : Has(e, f) <=> x = f)
  BY <1>1 DEF HasOf, Has
<1>5. \A i \in 1..Len(e) : Onto(t, e[i], Nth(z, i + 1), Nth(z, i + 2))
  BY <1>1, <1>3
<1>6. /\ Len(e) + Len(s) > 1
      /\ \A i, j \in 1..Len(e) : e[i][1] \in Handlers /\ e[j][1] \in Handlers => i = j
      /\ HasOf(e, Handlers) => s[1][1] \in Handlers
  BY <1>1, <1>4
<1>7. /\ Stack(t, z)
      /\ \A L : HasOf(z, L) <=> HasOf(e, L) \/ HasOf(Tail(s), L)
      /\ \A f : Has(z, f) <=> Has(e, f) \/ Has(Tail(s), f)
      /\ Len(s) > 1 => Bottom(z) = Bottom(s)
  <2>1. e \in Seq(Frame)
    BY <1>1
  <2>2. QED
    BY ONLY <1>2, <1>5, <1>6, <2>1, Stack(t, s), Replaced
<1>8. QED
  BY <1>3, <1>4, <1>7

LEMMA Push2 ==
  ASSUME NEW t, NEW s, Stack(t, s), NEW x \in Frame, NEW y \in Frame, NEW z, z = Put2(x, y, s),
         Onto(t, x, y, Nth(s, 2)), Onto(t, y, Nth(s, 2), Nth(s, 3)),
         x[1] \notin Handlers, y[1] \in Handlers => s[1][1] \in Handlers
  PROVE  /\ Stack(t, z)
         /\ Nth(z, 1) = x /\ Nth(z, 2) = y
         /\ \A L : HasOf(z, L) <=> x[1] \in L \/ y[1] \in L \/ HasOf(Tail(s), L)
         /\ \A f : Has(z, f) <=> x = f \/ y = f \/ Has(Tail(s), f)
         /\ Len(s) > 1 => Bottom(z) = Bottom(s)
<1> DEFINE e == <<x, y>>
<1>1. /\ e \in Seq(Frame) /\ Len(e) = 2 /\ e[1] = x /\ e[2] = y
      /\ s \in Seq(Frame) /\ Len(s) \in Nat /\ Len(s) > 0
  BY LenProperties DEF Stack
<1>2. z = e \o Tail(s)
  BY DEF Put2
<1> HIDE DEF e
<1>3. Nth(z, 1) = x /\ Nth(z, 2) = y /\ Nth(z, 3) = Nth(s, 2) /\ Nth(z, 4) = Nth(s, 3)
  <2>1. /\ \A i, k \in Nat : i > 1 /\ k = i + Len(e) - 1 => Nth(z, k) = Nth(s, i)
        /\ \A i \in 1..Len(e) : z[i] = e[i]
        /\ Len(z) = Len(e) + Len(s) - 1
    <3>1. /\ \A i, k \in Nat : i > 1 /\ k = i + Len(e) - 1 => Nth(e \o Tail(s), k) = Nth(s, i)
          /\ \A i \in 1..Len(e) : (e \o Tail(s))[i] = e[i]
          /\ Len(e \o Tail(s)) = Len(e) + Len(s) - 1
      <4>1. e \in Seq(Frame) /\ s \in Seq(Frame) /\ Len(s) > 0
        BY <1>1
      <4>2. QED
        BY ONLY <4>1, Positions
    <3>2. QED
      BY ONLY <1>2, <3>1
  <2>2. Nth(z, 3) = Nth(s, 2) /\ Nth(z, 4) = Nth(s, 3)
    <3>1. Len(e) = 2
      BY <1>1
    <3>2. QED
      BY ONLY <2>1, <3>1
  <2>3. z[1] = x /\ z[2] = y /\ Len(z) >= 2
    BY <1>1, <2>1
  <2>4. QED
    BY <2>2, <2>3 DEF Nth
<1>4. (\A L : HasOf(e, L) <=> x[1] \in L \/ y[1] \in L) /\ (\A f : Has(e, f) <=> x = f \/ y = f)
  <2>1. 1..Len(e) = {1, 2}
    BY <1>1
  <2>2. QED
    BY <1>1, <2>1 DEF HasOf, Has
<1>5. \A i \in 1..Len(e) : Onto(t, e[i], Nth(z, i + 1), Nth(z, i + 2))
  BY <1>1, <1>3
<1>6. /\ Len(e) + Len(s) > 1
      /\ \A i, j \in 1..Len(e) : e[i][1] \in Handlers /\ e[j][1] \in Handlers => i = j
      /\ HasOf(e, Handlers) => s[1][1] \in Handlers
  BY <1>1, <1>4
<1>7. /\ Stack(t, z)
      /\ \A L : HasOf(z, L) <=> HasOf(e, L) \/ HasOf(Tail(s), L)
      /\ \A f : Has(z, f) <=> Has(e, f) \/ Has(Tail(s), f)
      /\ Len(s) > 1 => Bottom(z) = Bottom(s)
  <2>1. e \in Seq(Frame)
    BY <1>1
  <2>2. QED
    BY ONLY <1>2, <1>5, <1>6, <2>1, Stack(t, s), Replaced
<1>8. QED
  BY <1>3, <1>4, <1>7

LEMMA Push3 ==
  ASSUME NEW t, NEW s, Stack(t, s), NEW x \in Frame, NEW y \in Frame, NEW v \in Frame,
         NEW z, z = Put3(x, y, v, s),
         Onto(t, x, y, v), Onto(t, y, v, Nth(s, 2)),
         Onto(t, v, Nth(s, 2), Nth(s, 3)),
         x[1] \notin Handlers, y[1] \notin Handlers, v[1] \in Handlers => s[1][1] \in Handlers
  PROVE  /\ Stack(t, z)
         /\ Nth(z, 1) = x /\ Nth(z, 2) = y
         /\ \A L : HasOf(z, L) <=> x[1] \in L \/ y[1] \in L \/ v[1] \in L \/ HasOf(Tail(s), L)
         /\ \A f : Has(z, f) <=> x = f \/ y = f \/ v = f \/ Has(Tail(s), f)
         /\ Len(s) > 1 => Bottom(z) = Bottom(s)
<1> DEFINE e == <<x, y, v>>
<1>1. /\ e \in Seq(Frame) /\ Len(e) = 3 /\ e[1] = x /\ e[2] = y /\ e[3] = v
      /\ s \in Seq(Frame) /\ Len(s) \in Nat /\ Len(s) > 0
  BY LenProperties DEF Stack
<1>2. z = e \o Tail(s)
  BY DEF Put3
<1> HIDE DEF e
<1>3. /\ Nth(z, 1) = x /\ Nth(z, 2) = y /\ Nth(z, 3) = v
      /\ Nth(z, 4) = Nth(s, 2) /\ Nth(z, 5) = Nth(s, 3)
  <2>1. /\ \A i, k \in Nat : i > 1 /\ k = i + Len(e) - 1 => Nth(z, k) = Nth(s, i)
        /\ \A i \in 1..Len(e) : z[i] = e[i]
        /\ Len(z) = Len(e) + Len(s) - 1
    <3>1. /\ \A i, k \in Nat : i > 1 /\ k = i + Len(e) - 1 => Nth(e \o Tail(s), k) = Nth(s, i)
          /\ \A i \in 1..Len(e) : (e \o Tail(s))[i] = e[i]
          /\ Len(e \o Tail(s)) = Len(e) + Len(s) - 1
      <4>1. e \in Seq(Frame) /\ s \in Seq(Frame) /\ Len(s) > 0
        BY <1>1
      <4>2. QED
        BY ONLY <4>1, Positions
    <3>2. QED
      BY ONLY <1>2, <3>1
  <2>2. Nth(z, 4) = Nth(s, 2) /\ Nth(z, 5) = Nth(s, 3)
    <3>1. Len(e) = 3
      BY <1>1
    <3>2. QED
      BY ONLY <2>1, <3>1
  <2>3. z[1] = x /\ z[2] = y /\ z[3] = v /\ Len(z) >= 3
    <3>1. Len(e) = 3 /\ Len(s) \in Nat /\ Len(s) > 0
      BY <1>1
    <3>2. Len(z) >= 3 /\ z[1] = e[1] /\ z[2] = e[2] /\ z[3] = e[3]
      BY ONLY <2>1, <3>1
    <3>3. QED
      BY <1>1, <3>2
  <2>4. QED
    BY <2>2, <2>3 DEF Nth
<1>4. /\ \A L : HasOf(e, L) <=> x[1] \in L \/ y[1] \in L \/ v[1] \in L
      /\ \A f : Has(e, f) <=> x = f \/ y = f \/ v = f
  <2>1. 1..Len(e) = {1, 2, 3}
    BY <1>1
  <2>2. QED
    BY <1>1, <2>1 DEF HasOf, Has
<1>5. \A i \in 1..Len(e) : Onto(t, e[i], Nth(z, i + 1), Nth(z, i + 2))
  BY <1>1, <1>3
<1>6. /\ Len(e) + Len(s) > 1
      /\ \A i, j \in 1..Len(e) : e[i][1] \in Handlers /\ e[j][1] \in Handlers => i = j
      /\ HasOf(e, Handlers) => s[1][1] \in Handlers
  BY <1>1, <1>4
<1>7. /\ Stack(t, z)
      /\ \A L : HasOf(z, L) <=> HasOf(e, L) \/ HasOf(Tail(s), L)
      /\ \A f : Has(z, f) <=> Has(e, f) \/ Has(Tail(s), f)
      /\ Len(s) > 1 => Bottom(z) = Bottom(s)
  <2>1. e \in Seq(Frame)
    BY <1>1
  <2>2. QED
    BY ONLY <1>2, <1>5, <1>6, <2>1, Stack(t, s), Replaced
<1>8. QED
  BY <1>3, <1>4, <1>7

LEMMA Push4 ==
  ASSUME NEW t, NEW s, Stack(t, s), NEW x \in Frame, NEW y \in Frame, NEW v \in Frame,
         NEW w \in Frame, 
         NEW z, z = Put4(x, y, v, w, s),
         Onto(t, x, y, v), Onto(t, y, v, w),
         Onto(t, v, w, Nth(s, 2)), Onto(t, w, Nth(s, 2), Nth(s, 3)),
         x[1] \notin Handlers, y[1] \notin Handlers, v[1] \notin Handlers, w[1] \in Handlers => s[1][1] \in Handlers
  PROVE  /\ Stack(t, z)
         /\ Nth(z, 1) = x /\ Nth(z, 2) = y
         /\ \A L : HasOf(z, L) <=> x[1] \in L \/ y[1] \in L \/ v[1] \in L \/ w[1] \in L \/ HasOf(Tail(s), L)
         /\ \A f : Has(z, f) <=> x = f \/ y = f \/ v = f \/ w = f \/ Has(Tail(s), f)
         /\ Len(s) > 1 => Bottom(z) = Bottom(s)
<1> DEFINE e == <<x, y, v, w>>
<1>1. /\ e \in Seq(Frame) /\ Len(e) = 4 /\ e[1] = x /\ e[2] = y /\ e[3] = v /\ e[4] = w
      /\ s \in Seq(Frame) /\ Len(s) \in Nat /\ Len(s) > 0
  BY LenProperties DEF Stack
<1>2. z = e \o Tail(s)
  BY DEF Put4
<1> HIDE DEF e
<1>3. /\ Nth(z, 1) = x /\ Nth(z, 2) = y /\ Nth(z, 3) = v /\ Nth(z, 4) = w
      /\ Nth(z, 5) = Nth(s, 2) /\ Nth(z, 6) = Nth(s, 3)
  <2>1. /\ \A i, k \in Nat : i > 1 /\ k = i + Len(e) - 1 => Nth(z, k) = Nth(s, i)
        /\ \A i \in 1..Len(e) : z[i] = e[i]
        /\ Len(z) = Len(e) + Len(s) - 1
    <3>1. /\ \A i, k \in Nat : i > 1 /\ k = i + Len(e) - 1 => Nth(e \o Tail(s), k) = Nth(s, i)
          /\ \A i \in 1..Len(e) : (e \o Tail(s))[i] = e[i]
          /\ Len(e \o Tail(s)) = Len(e) + Len(s) - 1
      <4>1. e \in Seq(Frame) /\ s \in Seq(Frame) /\ Len(s) > 0
        BY <1>1
      <4>2. QED
        BY ONLY <4>1, Positions
    <3>2. QED
      BY ONLY <1>2, <3>1
  <2>2. Nth(z, 5) = Nth(s, 2) /\ Nth(z, 6) = Nth(s, 3)
    <3>1. Len(e) = 4
      BY <1>1
    <3>2. QED
      BY ONLY <2>1, <3>1
  <2>3. z[1] = x /\ z[2] = y /\ z[3] = v /\ z[4] = w /\ Len(z) >= 4
    <3>1. Len(e) = 4 /\ Len(s) \in Nat /\ Len(s) > 0
      BY <1>1
    <3>2. Len(z) >= 4 /\ z[1] = e[1] /\ z[2] = e[2] /\ z[3] = e[3] /\ z[4] = e[4]
      BY ONLY <2>1, <3>1
    <3>3. QED
      BY <1>1, <3>2
  <2>4. QED
    BY <2>2, <2>3 DEF Nth
<1>4. /\ \A L : HasOf(e, L) <=> x[1] \in L \/ y[1] \in L \/ v[1] \in L \/ w[1] \in L
      /\ \A f : Has(e, f) <=> x = f \/ y = f \/ v = f \/ w = f
  <2>1. 1..Len(e) = {1, 2, 3, 4}
    BY <1>1
  <2>2. QED
    BY <1>1, <2>1 DEF HasOf, Has
<1>5. \A i \in 1..Len(e) : Onto(t, e[i], Nth(z, i + 1), Nth(z, i + 2))
  BY <1>1, <1>3
<1>6. /\ Len(e) + Len(s) > 1
      /\ \A i, j \in 1..Len(e) : e[i][1] \in Handlers /\ e[j][1] \in Handlers => i = j
      /\ HasOf(e, Handlers) => s[1][1] \in Handlers
  BY <1>1, <1>4
<1>7. /\ Stack(t, z)
      /\ \A L : HasOf(z, L) <=> HasOf(e, L) \/ HasOf(Tail(s), L)
      /\ \A f : Has(z, f) <=> Has(e, f) \/ Has(Tail(s), f)
      /\ Len(s) > 1 => Bottom(z) = Bottom(s)
  <2>1. e \in Seq(Frame)
    BY <1>1
  <2>2. QED
    BY ONLY <1>2, <1>5, <1>6, <2>1, Stack(t, s), Replaced
<1>8. QED
  BY <1>3, <1>4, <1>7

\* A trap puts a frame on the whole stack.
LEMMA Enter ==
  ASSUME NEW t, NEW s, Stack(t, s), NEW x \in Frame, NEW z, z = Add(x, s),
         Onto(t, x, Nth(s, 1), Nth(s, 2)), x[1] \in Handlers => ~HasOf(s, Handlers)
  PROVE  /\ Stack(t, z)
         /\ Nth(z, 1) = x /\ Nth(z, 2) = Nth(s, 1)
         /\ \A L : HasOf(z, L) <=> x[1] \in L \/ HasOf(s, L)
         /\ \A f : Has(z, f) <=> x = f \/ Has(s, f)
         /\ Bottom(z) = Bottom(s)
<1> DEFINE m == Len(s)
<1>1. s \in Seq(Frame) /\ m \in Nat /\ m > 0
  BY LenProperties DEF Stack
<1>2. <<x>> \in Seq(Frame) /\ Len(<<x>>) = 1 /\ <<x>>[1] = x
  OBVIOUS
<1>3. z \in Seq(Frame) /\ Len(z) = 1 + m /\ \A i \in 1..1 + m : z[i] = IF i <= 1 THEN x ELSE s[i - 1]
  <2>1. /\ z \in Seq(Frame) /\ Len(z) = 1 + m
        /\ \A i \in 1..1 + m : z[i] = IF i <= 1 THEN <<x>>[i] ELSE s[i - 1]
    BY <1>1, <1>2, ConcatProperties DEF Add
  <2>2. QED
    BY <1>2, <2>1
<1>4. \A i \in 1..m : Onto(t, s[i], Nth(s, i + 1), Nth(s, i + 2))
  BY DEF Stack
<1>5. \A i, j \in 1..m : s[i][1] \in Handlers /\ s[j][1] \in Handlers => i = j
  BY DEF Stack
<1> HIDE DEF m
<1>6. z[1] = x /\ 1 \in 1..Len(z)
  BY <1>1, <1>3
<1>7. \A j \in 1..m : j + 1 \in 1..Len(z) /\ z[j + 1] = s[j]
  <2>1. TAKE j \in 1..m
  <2>2. j + 1 \in 1..1 + m /\ ~(j + 1 <= 1) /\ (j + 1) - 1 = j
    BY <1>1
  <2>3. z[j + 1] = s[(j + 1) - 1]
    BY <1>3, <2>2
  <2>4. QED
    BY <1>3, <2>2, <2>3
<1>8. \A i \in 1..Len(z) : i = 1 \/ \E j \in 1..m : i = j + 1
  <2>1. TAKE i \in 1..Len(z)
  <2>2. i = 1 \/ (i - 1 \in 1..m /\ i = (i - 1) + 1)
    BY <1>1, <1>3
  <2>3. QED
    BY <2>2
<1>9. \A i, k \in Nat : i > 0 /\ k = i + 1 => Nth(z, k) = Nth(s, i)
  <2>1. TAKE i, k \in Nat
  <2>2. HAVE i > 0 /\ k = i + 1
  <2>3. CASE i <= m
    <3>1. i \in 1..m /\ k <= Len(z)
      BY <1>1, <1>3, <2>2, <2>3
    <3>2. QED
      BY <1>7, <2>2, <2>3, <3>1 DEF Nth, m
  <2>4. CASE ~(i <= m)
    <3>1. ~(k <= Len(z))
      BY <1>1, <1>3, <2>2, <2>4
    <3>2. QED
      BY <2>4, <3>1 DEF Nth, m
  <2>5. QED
    BY <2>3, <2>4
<1>10. Nth(z, 1) = x /\ Nth(z, 2) = Nth(s, 1) /\ Nth(z, 3) = Nth(s, 2)
  <2>1. Nth(z, 2) = Nth(s, 1) /\ Nth(z, 3) = Nth(s, 2)
    BY ONLY <1>9
  <2>2. Nth(z, 1) = x
    BY <1>1, <1>3, <1>6 DEF Nth
  <2>3. QED
    BY <2>1, <2>2
<1>11. ASSUME NEW i \in 1..Len(z) PROVE Onto(t, z[i], Nth(z, i + 1), Nth(z, i + 2))
  <2>1. CASE i = 1
    BY <1>6, <1>10, <2>1
  <2>2. ASSUME NEW j \in 1..m, i = j + 1 PROVE Onto(t, z[i], Nth(z, i + 1), Nth(z, i + 2))
    <3>1. /\ j + 1 \in Nat /\ j + 2 \in Nat /\ j + 1 > 0 /\ j + 2 > 0
          /\ i + 1 \in Nat /\ i + 2 \in Nat /\ i + 1 = (j + 1) + 1 /\ i + 2 = (j + 2) + 1
      BY <2>2
    <3>2. Nth(z, i + 1) = Nth(s, j + 1) /\ Nth(z, i + 2) = Nth(s, j + 2)
      BY <1>9, <3>1
    <3>3. z[i] = s[j]
      BY <1>7, <2>2
    <3>4. QED
      BY <1>4, <3>2, <3>3
  <2>3. QED
    BY <1>8, <2>1, <2>2
<1>12. \A L : HasOf(z, L) <=> x[1] \in L \/ HasOf(s, L)
  BY <1>6, <1>7, <1>8 DEF HasOf, m
<1>13. \A f : Has(z, f) <=> x = f \/ Has(s, f)
  BY <1>6, <1>7, <1>8 DEF Has, m
<1>14. ASSUME NEW i \in 1..Len(z), NEW j \in 1..Len(z), z[i][1] \in Handlers, z[j][1] \in Handlers PROVE i = j
  <2>1. CASE x[1] \in Handlers
    <3>1. \A a \in 1..m : s[a][1] \notin Handlers
      BY <2>1 DEF HasOf, m
    <3>2. QED
      BY <1>7, <1>8, <1>14, <3>1
  <2>2. CASE x[1] \notin Handlers
    <3>1. PICK a \in 1..m, b \in 1..m : i = a + 1 /\ j = b + 1
      BY <1>6, <1>8, <1>14, <2>2
    <3>2. a = b
      BY <1>5, <1>7, <1>14, <3>1
    <3>3. QED
      BY <3>1, <3>2
  <2>3. QED
    BY <2>1, <2>2
<1>15. Bottom(z) = Bottom(s)
  <2>1. m \in 1..m /\ Len(z) = m + 1
    BY <1>1, <1>3
  <2>2. QED
    BY <1>7, <2>1 DEF Bottom, m
<1>16. Stack(t, z)
  <2>1. z \in Seq(Frame) /\ Len(z) > 0
    BY <1>1, <1>3
  <2>2. QED
    BY <1>11, <1>14, <2>1 DEF Stack
<1>17. QED
  BY <1>10, <1>12, <1>13, <1>15, <1>16

---------------------------------------------------------------------------
(* Steps.  CPU c runs thread t, whose stack is s.                          *)

\* The top of the stack, and what the invariant says where it is.
View(c, t, s) ==
  /\ t = cur[c] /\ s = stk[t]
  /\ t \in Threads /\ (t \in Procs \/ t = c) /\ Stack(t, s)
  /\ Nth(s, 1) \in Frame /\ Top(c) = Nth(s, 1)
  /\ Onto(t, Nth(s, 1), Nth(s, 2), Nth(s, 3))
  /\ Len(s) > 1 <=> Nth(s, 2)[1] # "none"
  /\ Len(s) > 1 => Nth(s, 2) \in Frame /\ Onto(t, Nth(s, 2), Nth(s, 3), Nth(s, 4))
  /\ \A L : HasOf(s, L) <=> Nth(s, 1)[1] \in L \/ HasOf(Tail(s), L)
  /\ \A f : Has(s, f) <=> Nth(s, 1) = f \/ Has(Tail(s), f)
  /\ Regs(c, t, s, hw[c], cpu[c], tf[t])
  /\ \A l \in Locks : lock[l] = c <=> l \in Held(t, Nth(s, 1), Nth(s, 2))
  /\ t \in Procs => Keeps(t, s, state[t], tf[t]) /\ Pausing(s, pause[t], state[t].killed, ticks)
  /\ t \in Procs => state[t].state = "RUNNING" \/ Nth(s, 1)[1] = "sched"
  /\ hw[c] \in Registers /\ cpu[c] \in CpuStruct

LEMMA Running ==
  ASSUME IInv, NEW c \in CPUs, NEW t, t = cur[c], NEW s, s = stk[t]
  PROVE  View(c, t, s)
<1>1. /\ t \in Threads /\ (t \in Procs \/ t = c) /\ Stack(t, s)
      /\ hw[c] \in Registers /\ cpu[c] \in CpuStruct
  BY DEF IInv, Types, SwitchInv
<1>2. s \in Seq(Frame) /\ Len(s) > 0
  BY <1>1 DEF Stack
<1>3. /\ Head(s) = s[1] /\ Nth(s, 1) = s[1] /\ s[1] \in Frame /\ Len(s) \in Nat
      /\ Len(s) > 1 => Nth(s, 2) = s[2] /\ s[2] \in Frame
      /\ ~(Len(s) > 1) => Nth(s, 2) = <<"none">>
      /\ \A L : HasOf(s, L) <=> s[1][1] \in L \/ HasOf(Tail(s), L)
      /\ \A f : Has(s, f) <=> s[1] = f \/ Has(Tail(s), f)
  BY <1>2, TopAndRest
<1>4. Len(s) > 1 <=> Nth(s, 2)[1] # "none"
  BY <1>3, LabelOf
<1>5. Top(c) = Nth(s, 1)
  BY <1>3 DEF Top
<1>6. \A i \in 1..Len(s) : Onto(t, s[i], Nth(s, i + 1), Nth(s, i + 2))
  BY <1>1 DEF Stack
<1>7. Onto(t, Nth(s, 1), Nth(s, 2), Nth(s, 3)) /\ (Len(s) > 1 => Onto(t, Nth(s, 2), Nth(s, 3), Nth(s, 4)))
  <2>1. 1 \in 1..Len(s) /\ (Len(s) > 1 => 2 \in 1..Len(s)) /\ 1 + 1 = 2 /\ 1 + 2 = 3 /\ 2 + 1 = 3 /\ 2 + 2 = 4
    BY <1>2, <1>3
  <2>2. QED
    BY <1>3, <1>6, <2>1
<1>8. CpuRegs(c) /\ (t \in Procs => ProcKeeps(t)) /\ (t \in Procs => t # c)
  BY Names DEF IInv
<1>9. t \in Procs => state[t].state = "RUNNING" \/ Nth(s, 1)[1] = "sched"
  BY <1>8 DEF IInv, SwitchInv
<1>10. QED
  BY <1>1, <1>2, <1>3, <1>4, <1>5, <1>7, <1>8, <1>9 DEF CpuRegs, ProcKeeps, View

\* What other CPUs and other processes rely on is left alone.
LEMMA Step ==
  ASSUME IInv, Types', NEW c \in CPUs, NEW t, t = cur[c], NEW z, Stack(t, z),
         stk' = [stk EXCEPT ![t] = z], cur' = cur,
         \A d \in CPUs : d # c => hw'[d] = hw[d] /\ cpu'[d] = cpu[d],
         \A l \in Locks : lock'[l] = lock[l] \/ {lock[l], lock'[l]} \subseteq {c, Nobody},
         \A p \in Procs : p # t =>
           /\ tf'[p] = tf[p]
           /\ \/ state'[p] = state[p]
              \/ state[p].state = "SLEEPING" /\ state'[p].state = "RUNNABLE"
           /\ Pausing(stk[p], pause'[p], state'[p].killed, ticks'),
         ClaimInv', CpuRegs(c)',
         t \in Procs => ProcKeeps(t)' /\ (state'[t].state = "RUNNING" \/ Nth(z, 1)[1] = "sched")
  PROVE  IInv'
<1>1. t \in Threads /\ (t \in Procs \/ t = c) /\ stk \in [Threads -> Seq(Frame)]
  BY DEF IInv, Types, SwitchInv
<1>2. stk'[t] = z /\ \A u \in Threads : u # t => stk'[u] = stk[u]
  BY <1>1
<1>3. \A u \in Threads : Stack(u, stk[u])'
  <2>1. \A u \in Threads : Stack(u, stk'[u])
    BY <1>2 DEF IInv
  <2>2. QED
    BY <2>1 DEF Stack, Onto, Nth, AfterDevice
<1>4. ASSUME NEW d \in CPUs, d # c PROVE CpuRegs(d)'
  <2>1. /\ cur[d] \in Threads /\ cur[d] # t /\ CpuRegs(d) /\ Stack(cur[d], stk[cur[d]])
        /\ cur[d] \in Procs \/ cur[d] = d
    BY <1>4 DEF IInv, Types, SwitchInv
  <2> DEFINE b == cur[d]
             w == stk[b]
  <2>2. b \in Threads /\ b # t /\ CpuRegs(d) /\ Stack(b, w) /\ stk'[b] = w /\ cur'[d] = b
    BY <1>2, <2>1
  <2>3. Regs(d, b, w, hw[d], cpu[d], tf[b])
    BY <2>2 DEF CpuRegs
  <2>4. Regs(d, b, w, hw'[d], cpu'[d], tf'[b])
    <3>1. hw'[d] = hw[d] /\ cpu'[d] = cpu[d]
      BY <1>4
    <3>2. CASE b \in Procs
      <4>1. tf'[b] = tf[b]
        BY <2>2, <3>2
      <4>2. QED
        BY <2>3, <3>1, <4>1
    <3>3. CASE b \notin Procs
      <4>1. Nth(w, 1)[1] \notin OfProcess
        <5>1. w \in Seq(Frame) /\ Len(w) > 0
          BY <2>2 DEF Stack
        <5>2. Nth(w, 1) = w[1] /\ Len(w) \in Nat
          BY <5>1, TopAndRest
        <5>3. 1 \in 1..Len(w)
          BY <5>1, <5>2
        <5>4. Onto(b, w[1], Nth(w, 1 + 1), Nth(w, 1 + 2))
          BY <2>2, <5>3 DEF Stack
        <5>5. QED
          BY <3>3, <5>2, <5>4 DEF Onto
      <4>2. Nth(w, 1)[1] \notin User /\ Nth(w, 1)[1] \notin {"uservec", "userret"}
        BY <4>1 DEF OfProcess, TrapEntry, TrapExit
      <4> HIDE DEF b, w
      <4>3. QED
        BY <2>3, <3>1, <4>2 DEF Regs
    <3>4. QED
      BY <3>2, <3>3
  <2>5. \A l \in Locks : lock'[l] = d <=> lock[l] = d
    BY <1>4, Names DEF Nobody
  <2>6. \A l \in Locks : lock'[l] = d <=> l \in Held(b, Nth(w, 1), Nth(w, 2))
    BY <2>2, <2>5 DEF CpuRegs
  <2>7. QED
    BY <2>2, <2>4, <2>6 DEF CpuRegs
<1>5. ASSUME NEW p \in Procs, p # t PROVE ProcKeeps(p)'
  <2>1. stk'[p] = stk[p] /\ tf'[p] = tf[p] /\ Keeps(p, stk[p], state[p], tf[p])
    BY <1>2, <1>5 DEF IInv, ProcKeeps, Threads
  <2>2. Keeps(p, stk[p], state'[p], tf'[p])
    BY <1>5, <2>1 DEF Keeps
  <2>3. Pausing(stk[p], pause'[p], state'[p].killed, ticks')
    BY <1>5
  <2>4. QED
    BY <2>1, <2>2, <2>3 DEF ProcKeeps, Keeps, Pausing, Nth, HasOf, Has, Bottom
<1>6. SwitchInv'
  <2>1. \A d \in CPUs : cur[d] # d => d # t /\ d \in Threads
    BY <1>1, Names DEF IInv, SwitchInv, Threads
  <2>2. ASSUME NEW d \in CPUs, cur[d] # d
        PROVE  /\ Nth(stk'[d], 1) = <<"release", cur[d]>>
               /\ state'[cur[d]].state = "RUNNING" \/ Nth(stk'[cur[d]], 1)[1] = "sched"
    <3>1. Nth(stk'[d], 1) = <<"release", cur[d]>>
      BY <1>2, <2>1, <2>2 DEF IInv, SwitchInv
    <3>2. CASE d = c
      BY <1>1, <1>2, <2>2, <3>1, <3>2
    <3>3. CASE d # c
      <4>1. cur[d] \in Procs /\ cur[d] # t
        BY <2>2, <3>3 DEF IInv, SwitchInv
      <4>2. stk'[cur[d]] = stk[cur[d]]
        BY <1>2, <4>1 DEF Threads
      <4>3. state[cur[d]].state = "RUNNING" \/ Nth(stk[cur[d]], 1)[1] = "sched"
        BY <2>2 DEF IInv, SwitchInv
      <4>4. QED
        BY <3>1, <4>1, <4>2, <4>3
    <3>4. QED
      BY <3>2, <3>3
  <2>3. ASSUME NEW p \in Procs, \A d \in CPUs : cur[d] # p PROVE stk'[p] = stk[p]
    BY <1>2, <2>3 DEF Threads
  <2>4. QED
    BY <2>2, <2>3 DEF IInv, SwitchInv, Nth
<1>7. QED
  BY <1>3, <1>4, <1>5, <1>6 DEF IInv

\* No interrupt is claimed or completed.
LEMMA ClaimSame ==
  ASSUME IInv, NEW t \in Threads, NEW z, stk' = [stk EXCEPT ![t] = z], plic' = plic,
         Nth(stk[t], 1)[1] # "plic_complete", Nth(z, 1)[1] # "plic_complete"
  PROVE  ClaimInv'
<1>1. stk'[t] = z /\ \A u \in Threads : u # t => stk'[u] = stk[u]
  BY DEF IInv, Types
<1>2. \A i : <<"plic_complete", i>>[1] = "plic_complete"
  OBVIOUS
<1>3. \A i : \A u \in Threads : Nth(stk'[u], 1) = <<"plic_complete", i>> <=> Nth(stk[u], 1) = <<"plic_complete", i>>
  BY <1>1, <1>2
<1>4. QED
  BY <1>3 DEF IInv, ClaimInv, Nth

\* A step that neither the clock nor another process notices.
LEMMA LocalStep ==
  ASSUME IInv, Types', NEW c \in CPUs, NEW t, t = cur[c], NEW z, Stack(t, z),
         stk' = [stk EXCEPT ![t] = z], cur' = cur, ticks' = ticks, plic' = plic,
         \A d \in CPUs : d # c => hw'[d] = hw[d] /\ cpu'[d] = cpu[d],
         \A l \in Locks : lock'[l] = lock[l] \/ {lock[l], lock'[l]} \subseteq {c, Nobody},
         \A p \in Procs : p # t => tf'[p] = tf[p] /\ state'[p] = state[p] /\ pause'[p] = pause[p],
         Nth(stk[t], 1)[1] # "plic_complete", Nth(z, 1)[1] # "plic_complete",
         Regs(c, t, z, hw'[c], cpu'[c], tf'[t]),
         \A l \in Locks : lock'[l] = c <=> l \in Held(t, Nth(z, 1), Nth(z, 2)),
         t \in Procs => /\ Keeps(t, z, state'[t], tf'[t])
                        /\ Pausing(z, pause'[t], state'[t].killed, ticks)
                        /\ state'[t].state = "RUNNING" \/ Nth(z, 1)[1] = "sched"
  PROVE  IInv'
<1>1. t \in Threads
  BY DEF IInv, Types
<1>2. stk'[t] = z /\ cur'[c] = t
  BY <1>1 DEF IInv, Types
<1>3. ClaimInv'
  BY <1>1, ClaimSame
<1>4. CpuRegs(c)'
  BY <1>2 DEF CpuRegs
<1>5. t \in Procs => ProcKeeps(t)'
  BY <1>2 DEF ProcKeeps
<1>6. \A p \in Procs : p # t => Pausing(stk[p], pause'[p], state'[p].killed, ticks')
  BY DEF IInv, ProcKeeps
<1>7. \A p \in Procs : p # t =>
           /\ tf'[p] = tf[p]
           /\ \/ state'[p] = state[p]
              \/ state[p].state = "SLEEPING" /\ state'[p].state = "RUNNABLE"
           /\ Pausing(stk[p], pause'[p], state'[p].killed, ticks')
  BY <1>6
<1>8. t \in Procs => ProcKeeps(t)' /\ (state'[t].state = "RUNNING" \/ Nth(z, 1)[1] = "sched")
  BY <1>5
<1> HIDE DEF IInv
<1>9. QED
  BY <1>3, <1>4, <1>7, <1>8, Step

\* The same when the process keeps its state, its trapframe and its pause: the frames that
\* matter to these are as before.
SameFrames(s, z) ==
  /\ HasOf(z, TrapExit) => HasOf(s, TrapExit) /\ Bottom(z) = Bottom(s)
  /\ HasOf(z, {"pause_start", "pause_loop"}) => HasOf(s, {"pause_start", "pause_loop"})
  /\ HasOf(z, {"pause_loop"}) => HasOf(s, {"pause_loop"})
  /\ Has(z, <<"killed", "ecall">>) => Has(s, <<"killed", "ecall">>)
  /\ HasOf(s, PauseLabels) => HasOf(z, PauseLabels)

Plain(c, t, s, z) ==
  /\ Stack(t, z) /\ SameFrames(s, z)
  /\ stk' = [stk EXCEPT ![t] = z] /\ UNCHANGED <<cur, state, tf, clock, plic>>
  /\ hw' \in [CPUs -> Registers] /\ cpu' \in [CPUs -> CpuStruct] /\ lock' \in [Locks -> CPUs \cup {Nobody}]
  /\ \A d \in CPUs : d # c => hw'[d] = hw[d] /\ cpu'[d] = cpu[d]
  /\ \A l \in Locks : lock'[l] = lock[l] \/ {lock[l], lock'[l]} \subseteq {c, Nobody}
  /\ Nth(s, 1)[1] \notin {"plic_complete", "sched"}
  /\ Nth(z, 1)[1] \notin {"plic_complete", "sched", "resumed"}
  /\ Regs(c, t, z, hw'[c], cpu'[c], tf[t])
  /\ \A l \in Locks : lock'[l] = c <=> l \in Held(t, Nth(z, 1), Nth(z, 2))

LEMMA PlainStep ==
  ASSUME IInv, NEW c \in CPUs, NEW t, t = cur[c], NEW s, s = stk[t], NEW z, Plain(c, t, s, z)
  PROVE  IInv'
<1> USE DEF Plain
<1>0. Types'
  BY DEF IInv, Types, Stack, clock
<1>1. t \in Procs => /\ Keeps(t, s, state[t], tf[t])
                     /\ Pausing(s, pause[t], state[t].killed, ticks)
                     /\ state[t].state = "RUNNING"
  <2>1. View(c, t, s)
    BY Running
  <2>2. QED
    BY <2>1 DEF View
<1>2. t \in Procs => Keeps(t, z, state[t], tf[t])
  BY <1>1 DEF Keeps, SameFrames
<1>3. t \in Procs => Pausing(z, pause[t], state[t].killed, ticks)
  BY <1>1 DEF Pausing, SameFrames
<1>4. ticks' = ticks /\ pause' = pause /\ plic' = plic /\ cur' = cur /\ state' = state /\ tf' = tf
  BY DEF clock
<1>5. /\ \A p \in Procs : p # t => tf'[p] = tf[p] /\ state'[p] = state[p] /\ pause'[p] = pause[p]
      /\ Nth(stk[t], 1)[1] # "plic_complete" /\ Nth(z, 1)[1] # "plic_complete"
      /\ Regs(c, t, z, hw'[c], cpu'[c], tf'[t])
  BY <1>4
<1>6. t \in Procs => /\ Keeps(t, z, state'[t], tf'[t])
                     /\ Pausing(z, pause'[t], state'[t].killed, ticks)
                     /\ state'[t].state = "RUNNING" \/ Nth(z, 1)[1] = "sched"
  BY <1>1, <1>2, <1>3, <1>4
<1>7. /\ IInv /\ Types' /\ t = cur[c] /\ Stack(t, z) /\ stk' = [stk EXCEPT ![t] = z]
      /\ \A d \in CPUs : d # c => hw'[d] = hw[d] /\ cpu'[d] = cpu[d]
      /\ \A l \in Locks : lock'[l] = lock[l] \/ {lock[l], lock'[l]} \subseteq {c, Nobody}
      /\ \A l \in Locks : lock'[l] = c <=> l \in Held(t, Nth(z, 1), Nth(z, 2))
      /\ cur' = cur /\ ticks' = ticks /\ plic' = plic
  BY <1>0, <1>4
<1> HIDE DEF Plain
<1>8. QED
  BY ONLY c \in CPUs, <1>5, <1>6, <1>7, LocalStep, ZenonT(60)

\* Thread t of CPU c leaves the stack z, the registers r and the struct cpu k.
Moves(c, t, z, r, k) ==
  /\ stk' = [stk EXCEPT ![t] = z] /\ hw' = [hw EXCEPT ![c] = r] /\ cpu' = [cpu EXCEPT ![c] = k]
  /\ UNCHANGED <<cur, state, tf, ticks, pause, plic>>
SameLocks(t, s, z) ==
  \A l \in Locks : l \in Held(t, Nth(z, 1), Nth(z, 2)) <=> l \in Held(t, Nth(s, 1), Nth(s, 2))

Quiet(c, t, s, z, r, k) ==
  /\ Stack(t, z) /\ SameFrames(s, z) /\ SameLocks(t, s, z)
  /\ r \in Registers /\ k \in CpuStruct /\ Moves(c, t, z, r, k) /\ lock' = lock
  /\ Nth(s, 1)[1] \notin {"plic_complete", "sched"}
  /\ Nth(z, 1)[1] \notin {"plic_complete", "sched", "resumed"}
  /\ Regs(c, t, z, r, k, tf[t])

LEMMA QuietStep ==
  ASSUME IInv, NEW c \in CPUs, NEW t, t = cur[c], NEW s, s = stk[t], NEW z, NEW r, NEW k,
         Quiet(c, t, s, z, r, k)
  PROVE  IInv'
<1> USE DEF Quiet
<1>1. hw \in [CPUs -> Registers] /\ cpu \in [CPUs -> CpuStruct] /\ lock \in [Locks -> CPUs \cup {Nobody}]
  BY DEF IInv, Types
<1>2. stk' = [stk EXCEPT ![t] = z] /\ UNCHANGED <<cur, state, tf, clock, plic>>
  BY DEF Moves, clock
<1>0. hw'[c] = r /\ cpu'[c] = k
  BY <1>1 DEF Moves
<1>3. /\ hw' \in [CPUs -> Registers] /\ cpu' \in [CPUs -> CpuStruct]
      /\ \A d \in CPUs : d # c => hw'[d] = hw[d] /\ cpu'[d] = cpu[d]
  BY <1>1 DEF Moves
<1>4. lock' \in [Locks -> CPUs \cup {Nobody}]
  BY <1>1
<1>5. \A l \in Locks : lock'[l] = lock[l] \/ {lock[l], lock'[l]} \subseteq {c, Nobody}
  OBVIOUS
<1>6. Regs(c, t, z, hw'[c], cpu'[c], tf[t])
  BY <1>0
<1>7. \A l \in Locks : lock'[l] = c <=> l \in Held(t, Nth(z, 1), Nth(z, 2))
  <2>1. View(c, t, s)
    BY Running
  <2>2. QED
    BY <2>1 DEF View, SameLocks
<1>8. Plain(c, t, s, z)
  BY <1>2, <1>3, <1>4, <1>5, <1>6, <1>7 DEF Plain
<1>9. QED
  BY <1>8, PlainStep

LEMMA AcquireStep ==
  ASSUME IInv, NEW c \in CPUs, NEW t, t = cur[c], NEW s, s = stk[t], acquire(c)
  PROVE  IInv'
<1> DEFINE f == Nth(s, 1)
           g == Nth(s, 2)
           y == <<"spin", f[2]>>
           z == Put1(y, s)
           r == [hw[c] EXCEPT !.sie = FALSE]
           k == [noff |-> cpu[c].noff + 1, intena |-> IF cpu[c].noff = 0 THEN hw[c].sie ELSE cpu[c].intena]
<1>1. View(c, t, s)
  BY Running
<1>2. f[1] = "acquire" /\ f[2] \in Locks /\ cpuid(c) = c
  BY <1>1, Arguments DEF acquire, At, View, Regs, User, cpuid
<1>3. y \in Frame /\ y[1] = "spin" /\ Onto(t, y, g, Nth(s, 3))
  BY <1>1, <1>2, Made DEF View, Onto, OfProcess, User, PauseLabels, TrapEntry, TrapExit,
     OfScheduler, OfDevice, Handlers
<1>4. Moves(c, t, z, r, k) /\ lock' = lock
  BY <1>1, <1>2 DEF acquire, push_off, Then, Moves, View, Put1, clock
<1>5. hw[c] \in Registers /\ cpu[c] \in CpuStruct /\ Regs(c, t, s, hw[c], cpu[c], tf[t])
  BY <1>1 DEF View
<1>6. r \in Registers /\ r = [hw[c] EXCEPT !.sie = FALSE]
  BY <1>5 DEF Registers
<1> HIDE DEF y, r
<1>7. /\ Stack(t, z)
      /\ Nth(z, 1) = y /\ Nth(z, 2) = g
      /\ \A L : HasOf(z, L) <=> y[1] \in L \/ HasOf(Tail(s), L)
      /\ \A e : Has(z, e) <=> y = e \/ Has(Tail(s), e)
      /\ Len(s) > 1 => Bottom(z) = Bottom(s)
  <2>1. Stack(t, s) /\ y[1] \notin Handlers
    BY <1>1, <1>3 DEF View, Handlers
  <2>2. QED
    BY <1>3, <2>1, Push1
<1> HIDE DEF z
<1>8. k.noff = Depth(y, g) /\ k \in CpuStruct
  <2>1. Depth(y, g) = Depth(f, g) + 1 /\ Depth(y, g) \in 0..2
    BY <1>2, <1>3 DEF Depth
  <2>2. cpu[c].noff = Depth(f, g)
    BY <1>5 DEF Regs
  <2> HIDE DEF f, g, y
  <2>3. QED
    BY <1>5, <2>1, <2>2 DEF CpuStruct, Registers
<1> HIDE DEF k
<1>9. SameFrames(s, z) /\ SameLocks(t, s, z)
  <2>1. g[1] # "none" /\ Len(s) > 1
    BY <1>1, <1>2 DEF View, Onto
  <2>2. SameFrames(s, z)
    BY <1>1, <1>2, <1>3, <1>7, <2>1 DEF View, SameFrames, TrapExit, PauseLabels
  <2>3. SameLocks(t, s, z)
    BY <1>2, <1>3, <1>7 DEF SameLocks, Held
  <2>4. QED
    BY <2>2, <2>3
<1>10. Regs(c, t, z, r, k, tf[t])
  <2>1. /\ HasOf(z, Handlers) <=> HasOf(s, Handlers)
        /\ Has(z, <<"killed", "ecall">>) <=> Has(s, <<"killed", "ecall">>)
    BY <1>1, <1>2, <1>3, <1>7 DEF View, Handlers
  <2> HIDE DEF f, g
  <2>2. QED
    BY <1>2, <1>3, <1>5, <1>6, <1>7, <1>8, <2>1 DEF Regs, f, g, k, Registers, CpuStruct, User,
       TrapEntry
<1>11. Quiet(c, t, s, z, r, k)
  BY <1>2, <1>3, <1>4, <1>6, <1>7, <1>8, <1>9, <1>10 DEF Quiet
<1>12. QED
  BY <1>11, QuietStep
\* The frames under the top.
LEMMA Below ==
  ASSUME NEW s \in Seq(Frame), Len(s) > 0
  PROVE  /\ Len(s) \in Nat /\ Tail(s) \in Seq(Frame) /\ Len(Tail(s)) = Len(s) - 1
         /\ \A i \in 1..Len(s) - 1 : Tail(s)[i] = s[i + 1]
<1>1. s # <<>> /\ Len(s) \in Nat
  BY EmptySeq, LenProperties
<1>2. QED
  BY <1>1, HeadTailProperties

\* A stack of one frame, and a stack of one frame on the user program.
LEMMA Single ==
  ASSUME NEW s \in Seq(Frame), Len(s) > 0, ~(Len(s) > 1)
  PROVE  (\A L : ~HasOf(Tail(s), L)) /\ (\A e : ~Has(Tail(s), e)) /\ Bottom(s) = Nth(s, 1)
<1>1. Len(s) \in Nat /\ Len(Tail(s)) = Len(s) - 1
  BY Below
<1>2. Len(s) = 1
  <2> DEFINE n == Len(s)
  <2>1. n \in Nat /\ n > 0 /\ ~(n > 1)
    BY <1>1
  <2> HIDE DEF n
  <2>2. n = 1
    BY <2>1
  <2>3. QED
    BY <2>2 DEF n
<1>3. 1..Len(Tail(s)) = {}
  <2>1. Len(Tail(s)) = 1 - 1
    BY ONLY <1>1, <1>2
  <2>2. 1..(1 - 1) = {}
    OBVIOUS
  <2>3. QED
    BY ONLY <2>1, <2>2
<1>4. (\A L : ~HasOf(Tail(s), L)) /\ (\A e : ~Has(Tail(s), e))
  BY <1>3 DEF HasOf, Has
<1>5. Bottom(s) = Nth(s, 1)
  BY <1>2 DEF Bottom, Nth
<1>6. QED
  BY <1>4, <1>5

LEMMA UserBelow ==
  ASSUME NEW t, NEW s, Stack(t, s), Nth(s, 2)[1] \in User
  PROVE  /\ \A L : HasOf(Tail(s), L) <=> Nth(s, 2)[1] \in L
         /\ ~Has(Tail(s), <<"killed", "ecall">>)
         /\ Bottom(s) = Nth(s, 2) /\ Nth(s, 2) = <<Nth(s, 2)[1]>>
<1>1. s \in Seq(Frame) /\ Len(s) > 0
  BY DEF Stack
<1>2. Len(s) \in Nat /\ Len(Tail(s)) = Len(s) - 1 /\ \A i \in 1..Len(s) - 1 : Tail(s)[i] = s[i + 1]
  BY <1>1, Below
<1>3. Len(s) > 1 /\ Nth(s, 2) = s[2] /\ s[2] \in Frame
  <2>1. "none" \notin User
    BY DEF User
  <2>2. QED
    BY <1>1, <2>1, TopAndRest
<1>4. Len(s) = 2
  <2>1. 2 \in 1..Len(s) /\ 2 + 1 = 3 /\ 2 + 2 = 4
    BY <1>2, <1>3
  <2>2. Onto(t, s[2], Nth(s, 3), Nth(s, 4))
    BY <2>1 DEF Stack
  <2>3. Nth(s, 3)[1] = "none"
    BY <1>3, <2>2 DEF Onto, OfProcess
  <2>4. ~(Len(s) > 2)
    BY <1>1, <2>3, TopAndRest, LabelOf
  <2> DEFINE n == Len(s)
  <2>5. n \in Nat /\ n > 1 /\ ~(n > 2)
    BY <1>2, <1>3, <2>4
  <2> HIDE DEF n
  <2>6. n = 2
    BY <2>5
  <2>7. QED
    BY <2>6 DEF n
<1>5. Tail(s)[1] = s[2] /\ Len(Tail(s)) = 1 /\ 1..1 = {1}
  BY <1>2, <1>4
<1>6. /\ \A L : HasOf(Tail(s), L) <=> s[2][1] \in L
      /\ \A e : Has(Tail(s), e) <=> s[2] = e
  BY <1>5 DEF HasOf, Has
<1>7. s[2] = <<s[2][1]>> /\ s[2] # <<"killed", "ecall">>
  BY <1>3, Arguments DEF Bare, User
<1>8. QED
  BY <1>3, <1>4, <1>6, <1>7 DEF Bottom

LEMMA OneHandler ==
  ASSUME NEW t, NEW s, Stack(t, s), Nth(s, 1)[1] \in Handlers
  PROVE  ~HasOf(Tail(s), Handlers)
<1>1. s \in Seq(Frame) /\ Len(s) > 0
  BY DEF Stack
<1>2. Len(s) \in Nat /\ Len(Tail(s)) = Len(s) - 1 /\ \A i \in 1..Len(s) - 1 : Tail(s)[i] = s[i + 1]
  BY <1>1, Below
<1>3. SUFFICES ASSUME NEW i \in 1..Len(s) - 1, Tail(s)[i][1] \in Handlers PROVE FALSE
  BY <1>2 DEF HasOf
<1>4. i + 1 \in 1..Len(s) /\ 1 \in 1..Len(s) /\ i + 1 # 1
  BY <1>2
<1>5. s[i + 1][1] \in Handlers /\ s[1][1] \in Handlers
  BY <1>1, <1>2, <1>3, TopAndRest
<1>6. QED
  BY <1>4, <1>5 DEF Stack

\* The frames that kerneltrap() and usertrap() put one after another.
LEMMA Joined ==
  ASSUME NEW a, NEW b
  PROVE  <<a>> \o <<b>> = <<a, b>>
<1> DEFINE S == {a, b}
           p == <<a>> \o <<b>>
           q == <<a, b>>
<1>1. p \in Seq(S) /\ q \in Seq(S)
  OBVIOUS
<1>2. Len(p) = 2 /\ p[1] = a /\ p[2] = b /\ Len(q) = 2 /\ q[1] = a /\ q[2] = b
  OBVIOUS
<1> HIDE DEF p, q, S
<1>3. \A i \in 1..2 : p[i] = q[i]
  BY <1>2
<1>4. p = q
  BY <1>1, <1>2, <1>3, SeqEqual
<1>5. QED
  BY <1>4 DEF p, q

LEMMA JoinedFour ==
  ASSUME NEW a, NEW b, NEW c, NEW d
  PROVE  <<a>> \o <<b, c>> \o <<d>> = <<a, b, c, d>>
<1> DEFINE S == {a, b, c, d}
           o == <<a>> \o <<b, c>>
           p == o \o <<d>>
           q == <<a, b, c, d>>
<1>0. o \in Seq(S) /\ Len(o) = 3 /\ o[1] = a /\ o[2] = b /\ o[3] = c /\ d \in S /\ <<d>> \in Seq(S) /\ Len(<<d>>) = 1 /\ <<d>>[1] = d
  OBVIOUS
<1> HIDE DEF o
<1>1. p \in Seq(S) /\ q \in Seq(S)
  BY <1>0
<1>2. Len(q) = 4 /\ q[1] = a /\ q[2] = b /\ q[3] = c /\ q[4] = d
  BY <1>0
<1>3. Len(p) = 4 /\ p[1] = a /\ p[2] = b /\ p[3] = c /\ p[4] = d
  <2> DEFINE e == <<d>>
  <2>1. e \in Seq(S) /\ Len(e) = 1 /\ e[1] = d
    BY <1>0
  <2> HIDE DEF e, S
  <2>2. Len(o \o e) = 3 + 1 /\ \A i \in 1..3 + 1 : (o \o e)[i] = IF i <= 3 THEN o[i] ELSE e[i - 3]
    <3>1. o \in Seq(S) /\ Len(o) = 3
      BY <1>0
    <3>2. Len(o \o e) = Len(o) + Len(e) /\ \A i \in 1..Len(o) + Len(e) : (o \o e)[i] = IF i <= Len(o) THEN o[i] ELSE e[i - Len(o)]
      BY ONLY <2>1, <3>1, ConcatProperties
    <3>3. QED
      BY <3>1, <3>2, <2>1
  <2>3. Len(o \o e) = 4 /\ (o \o e)[1] = a /\ (o \o e)[2] = b /\ (o \o e)[3] = c /\ (o \o e)[4] = d
    BY <1>0, <2>1, <2>2
  <2>4. QED
    BY <2>3 DEF e
<1> HIDE DEF p, q, S
<1>4. \A i \in 1..4 : p[i] = q[i]
  BY <1>2, <1>3
<1>5. p = q
  BY <1>1, <1>2, <1>3, <1>4, SeqEqual
<1>6. QED
  BY <1>5 DEF p, q, o

LEMMA JoinedTwo ==
  ASSUME NEW a, NEW b
  PROVE  <<a>> \o <<>> \o <<b>> = <<a, b>>
<1>1. <<a>> \o <<>> = <<a>>
  OBVIOUS
<1>2. QED
  BY <1>1, Joined

LEMMA JoinedThree ==
  ASSUME NEW a, NEW b, NEW c
  PROVE  <<a>> \o <<b, c>> = <<a, b, c>>
<1> DEFINE S == {a, b, c}
           p == <<a>> \o <<b, c>>
           q == <<a, b, c>>
<1>1. p \in Seq(S) /\ q \in Seq(S)
  OBVIOUS
<1>2. Len(p) = 3 /\ p[1] = a /\ p[2] = b /\ p[3] = c /\ Len(q) = 3 /\ q[1] = a /\ q[2] = b /\ q[3] = c
  OBVIOUS
<1> HIDE DEF p, q, S
<1>3. \A i \in 1..3 : p[i] = q[i]
  BY <1>2
<1>4. p = q
  BY <1>1, <1>2, <1>3, SeqEqual
<1>5. QED
  BY <1>4 DEF p, q
LEMMA SpinStep ==
  ASSUME IInv, NEW c \in CPUs, NEW t, t = cur[c], NEW s, s = stk[t], spin(c)
  PROVE  IInv'
<1> DEFINE f == Nth(s, 1)
           g == Nth(s, 2)
           h == Nth(s, 3)
           z == Put0(s)
<1>1. View(c, t, s)
  BY Running
<1>2. f[1] = "spin" /\ f[2] \in Locks /\ cpuid(c) = c
  BY <1>1, Arguments DEF spin, At, View, Regs, User, cpuid
<1>3. Stack(t, s) /\ Onto(t, f, g, h) /\ (Len(s) > 1 <=> g[1] # "none")
  BY <1>1 DEF View
<1>8. /\ g[1] \in {"pause_start", "pause_loop", "tick", "kexit", "yield", "run", "release"}
      /\ g[1] = "release" => h[1] = "asleep"
  BY <1>2, <1>3 DEF Onto
<1>4. /\ stk' = [stk EXCEPT ![t] = z] /\ UNCHANGED <<cur, state, tf, clock, plic>>
      /\ lock[f[2]] = Nobody /\ lock' = [lock EXCEPT ![f[2]] = c] /\ hw' = hw /\ cpu' = cpu
  BY <1>1, <1>2 DEF spin, Then, View, Put0, regs
<1>5. /\ hw' \in [CPUs -> Registers] /\ cpu' \in [CPUs -> CpuStruct] /\ lock' \in [Locks -> CPUs \cup {Nobody}]
      /\ \A d \in CPUs : d # c => hw'[d] = hw[d] /\ cpu'[d] = cpu[d]
      /\ \A l \in Locks : lock'[l] = lock[l] \/ {lock[l], lock'[l]} \subseteq {c, Nobody}
      /\ \A l \in Locks : lock'[l] = c <=> lock[l] = c \/ l = f[2]
  BY <1>2, <1>4 DEF IInv, Types
<1>6. /\ Stack(t, z)
      /\ Nth(z, 1) = g /\ Nth(z, 2) = h
      /\ \A L : HasOf(z, L) <=> HasOf(Tail(s), L)
      /\ \A e : Has(z, e) <=> Has(Tail(s), e)
      /\ Bottom(z) = Bottom(s)
  <2>1. Len(s) > 1
    BY <1>3, <1>8
  <2>2. QED
    BY <1>3, <2>1, Pop
<1> HIDE DEF z
<1>7. SameFrames(s, z)
  BY <1>1, <1>2, <1>6 DEF View, SameFrames, TrapExit, PauseLabels
<1>9. \A l \in Locks : l \in Held(t, g, h) <=> l \in Held(t, f, g) \/ l = f[2]
  BY <1>2, <1>3 DEF Onto, Held
<1>10. Depth(g, h) = Depth(f, g) /\ Depth(f, g) > 0
  BY <1>2, <1>8 DEF Depth
<1>11. Regs(c, t, s, hw[c], cpu[c], tf[t]) /\ (\A l \in Locks : lock[l] = c <=> l \in Held(t, f, g))
  BY <1>1 DEF View
<1>12. Regs(c, t, z, hw'[c], cpu'[c], tf[t])
  <2>1. /\ HasOf(z, Handlers) <=> HasOf(s, Handlers)
        /\ Has(z, <<"killed", "ecall">>) <=> Has(s, <<"killed", "ecall">>)
    BY <1>1, <1>2, <1>6 DEF View, Handlers
  <2> HIDE DEF f, g, h
  <2>2. QED
    BY <1>2, <1>4, <1>6, <1>8, <1>10, <1>11, <2>1 DEF Regs, f, g, h, User, TrapEntry
<1>13. \A l \in Locks : lock'[l] = c <=> l \in Held(t, Nth(z, 1), Nth(z, 2))
  BY <1>5, <1>6, <1>9, <1>11
<1>14. /\ Nth(s, 1)[1] \notin {"plic_complete", "sched"}
       /\ Nth(z, 1)[1] \notin {"plic_complete", "sched", "resumed"}
  BY <1>2, <1>6, <1>8
<1>15. Plain(c, t, s, z)
  BY <1>4, <1>5, <1>6, <1>7, <1>12, <1>13, <1>14 DEF Plain
<1>16. QED
  BY <1>15, PlainStep

LEMMA ReleaseStep ==
  ASSUME IInv, NEW c \in CPUs, NEW t, t = cur[c], NEW s, s = stk[t], release(c)
  PROVE  IInv'
<1> DEFINE f == Nth(s, 1)
           g == Nth(s, 2)
           h == Nth(s, 3)
           z == Put0(s)
           r == [hw[c] EXCEPT !.sie = hw[c].sie \/ (cpu[c].noff = 1 /\ cpu[c].intena)]
           k == [cpu[c] EXCEPT !.noff = cpu[c].noff - 1]
<1>1. View(c, t, s)
  BY Running
<1>2. f[1] = "release" /\ f[2] \in Locks /\ cpuid(c) = c
  BY <1>1, Arguments DEF release, At, View, Regs, User, cpuid
<1>3. Stack(t, s) /\ Onto(t, f, g, h) /\ (Len(s) > 1 <=> g[1] # "none")
  BY <1>1 DEF View
<1>7. /\ g[1] \in {"asleep", "killed", "restore", "acquire", "prepare_return", "scan"}
      /\ g[1] = "acquire" => h[1] # "release"
  BY <1>2, <1>3 DEF Onto, AfterDevice
<1>4. /\ stk' = [stk EXCEPT ![t] = z] /\ UNCHANGED <<cur, state, tf, clock, plic>>
      /\ lock' = [lock EXCEPT ![f[2]] = Nobody]
  BY <1>1, <1>2 DEF release, Then, View, Put0
<1>a. hw' = [hw EXCEPT ![c] = r] /\ cpu' = [cpu EXCEPT ![c] = k]
  BY <1>2 DEF release, pop_off
<1>5. /\ Stack(t, z)
      /\ Nth(z, 1) = g /\ Nth(z, 2) = h
      /\ \A L : HasOf(z, L) <=> HasOf(Tail(s), L)
      /\ \A e : Has(z, e) <=> Has(Tail(s), e)
      /\ Bottom(z) = Bottom(s)
  <2>1. Len(s) > 1
    BY <1>3, <1>7
  <2>2. QED
    BY <1>3, <2>1, Pop
<1> HIDE DEF z
<1>6. SameFrames(s, z)
  BY <1>1, <1>2, <1>5 DEF View, SameFrames, TrapExit, PauseLabels
<1>8. \A l \in Locks : l \in Held(t, g, h) <=> l \in Held(t, f, g) /\ l # f[2]
  <2>1. CASE g[1] = "asleep"
    <3>1. Onto(t, g, h, Nth(s, 4))
      BY <1>1, <2>1 DEF View
    <3>2. t \in Procs
      BY <2>1, <3>1 DEF Onto, OfProcess
    <3>3. f[2] = "tickslock"
      BY <1>2, <1>3, <2>1 DEF Onto, AfterDevice
    <3>4. QED
      BY <1>2, <2>1, <3>2, <3>3, Names DEF Held
  <2>2. CASE g[1] # "asleep"
    BY <1>2, <1>7, <2>2 DEF Held
  <2>3. QED
    BY <2>1, <2>2
<1>9. Depth(g, h) = Depth(f, g) - 1 /\ Depth(f, g) \in 1..2 /\ (g[1] = "asleep" => Depth(f, g) = 2)
  BY <1>2, <1>7 DEF Depth
<1>10. Regs(c, t, s, hw[c], cpu[c], tf[t]) /\ (\A l \in Locks : lock[l] = c <=> l \in Held(t, f, g))
  BY <1>1 DEF View
<1>11. hw[c] \in Registers /\ cpu[c] \in CpuStruct /\ cpu[c].noff = Depth(f, g)
  BY <1>1, <1>10 DEF View, Regs
<1>12. r \in Registers /\ k \in CpuStruct
  <2> HIDE DEF f, g
  <2>1. r \in Registers
    BY <1>11 DEF Registers, CpuStruct
  <2>2. QED
    BY <1>9, <1>11, <2>1 DEF CpuStruct
<1> HIDE DEF r, k
<1>13. hw'[c] = r /\ cpu'[c] = k
  BY <1>a DEF IInv, Types
<1>14. Regs(c, t, z, hw'[c], cpu'[c], tf[t])
  <2>1. /\ HasOf(z, Handlers) <=> HasOf(s, Handlers)
        /\ Has(z, <<"killed", "ecall">>) <=> Has(s, <<"killed", "ecall">>)
    BY <1>1, <1>2, <1>5 DEF View, Handlers
  <2>2. g[1] = "restore" => HasOf(s, Handlers)
    <3>1. g[1] = "restore" => HasOf(z, Handlers)
      BY <1>3, <1>5, TopAndRest DEF Stack, Handlers
    <3>2. QED
      BY <2>1, <3>1
  <2> HIDE DEF f, g, h
  <2>3. Regs(c, t, z, r, k, tf[t])
    BY <1>2, <1>5, <1>7, <1>9, <1>10, <1>11, <2>1, <2>2 DEF Regs, f, g, h, r, k, Registers,
       CpuStruct, User, TrapEntry, Open
  <2>4. QED
    BY <1>13, <2>3
<1>15. /\ hw' \in [CPUs -> Registers] /\ cpu' \in [CPUs -> CpuStruct] /\ lock' \in [Locks -> CPUs \cup {Nobody}]
       /\ \A d \in CPUs : d # c => hw'[d] = hw[d] /\ cpu'[d] = cpu[d]
  BY <1>4, <1>a, <1>12 DEF IInv, Types
<1>16. /\ \A l \in Locks : lock'[l] = lock[l] \/ {lock[l], lock'[l]} \subseteq {c, Nobody}
       /\ \A l \in Locks : lock'[l] = c <=> lock[l] = c /\ l # f[2]
  <2>1. lock[f[2]] = c
    <3>1. f[2] \in Held(t, f, g)
      BY <1>2, <1>3 DEF Onto, Held, AfterDevice
    <3>2. QED
      BY <1>2, <1>10, <3>1
  <2>2. c # Nobody
    BY Names
  <2>3. QED
    BY <1>2, <1>4, <2>1, <2>2 DEF IInv, Types
<1>17. \A l \in Locks : lock'[l] = c <=> l \in Held(t, Nth(z, 1), Nth(z, 2))
  BY <1>5, <1>8, <1>10, <1>16
<1>18. /\ Nth(s, 1)[1] \notin {"plic_complete", "sched"}
       /\ Nth(z, 1)[1] \notin {"plic_complete", "sched", "resumed"}
  BY <1>2, <1>5, <1>7
<1>19. Plain(c, t, s, z)
  BY <1>4, <1>5, <1>6, <1>14, <1>15, <1>16, <1>17, <1>18 DEF Plain
<1>20. QED
  BY <1>19, PlainStep
LEMMA UserStep ==
  ASSUME IInv, NEW c \in CPUs, NEW t, t = cur[c], NEW s, s = stk[t], user(c)
  PROVE  IInv'
<1> DEFINE f == Nth(s, 1)
           g == Nth(s, 2)
           h == Nth(s, 3)
           x == <<"ecall">>
           z == Put1(x, s)
           r == hw[c]
<1>1. View(c, t, s)
  BY Running
<1>2. f[1] = "next"
  BY <1>1 DEF user, At, View
<1>3. Stack(t, s) /\ Onto(t, f, g, h) /\ (Len(s) > 1 <=> g[1] # "none")
  BY <1>1 DEF View
<1>4. /\ t \in Procs /\ g[1] = "none"
  BY <1>2, <1>3 DEF Onto, OfProcess, User, PauseLabels, TrapEntry, TrapExit, OfScheduler, OfDevice,
     Handlers
<1>b. (\A L : ~HasOf(Tail(s), L)) /\ (\A e : ~Has(Tail(s), e))
  BY <1>3, <1>4, Single DEF Stack
<1>5. /\ x \in Frame /\ x[1] = "ecall"
  BY <1>1, <1>2, <1>4, Made DEF Bare, Causes, User, PauseLabels
<1>o. Onto(t, x, g, h)
  BY <1>1, <1>2, <1>3, <1>4, <1>5 DEF Onto, OfProcess, User, PauseLabels, TrapEntry, TrapExit,
     OfScheduler, OfDevice, Handlers
<1>6. Moves(c, t, z, r, cpu[c]) /\ lock' = lock
  BY <1>1, <1>2 DEF user, Then, Moves, View, Put1, IInv, Types, regs, clock
<1>7. hw[c] \in Registers /\ cpu[c] \in CpuStruct /\ Regs(c, t, s, hw[c], cpu[c], tf[t])
  BY <1>1 DEF View
<1>8. r \in Registers
  BY <1>1, <1>2, <1>4, <1>7 DEF Registers
<1> HIDE DEF x
<1>9. /\ Stack(t, z)
      /\ Nth(z, 1) = x /\ Nth(z, 2) = g
      /\ \A L : HasOf(z, L) <=> x[1] \in L \/ HasOf(Tail(s), L)
      /\ \A e : Has(z, e) <=> x = e \/ Has(Tail(s), e)
      /\ Len(s) > 1 => Bottom(z) = Bottom(s)
  <2>1. Stack(t, s) /\ x[1] \notin Handlers
    BY <1>2, <1>3, <1>5 DEF Handlers
  <2>2. QED
    BY <1>5, <1>o, <2>1, Push1
<1> HIDE DEF z
<1>10. SameFrames(s, z)
  BY <1>1, <1>2, <1>3, <1>4, <1>5, <1>9, <1>b DEF View, SameFrames, User, TrapExit, PauseLabels,
     Open
<1>11. SameLocks(t, s, z)
  BY <1>2, <1>4, <1>5, <1>9 DEF SameLocks, Held, User, Open, PauseLabels
<1>12. Regs(c, t, z, r, cpu[c], tf[t])
  <2>1. /\ ~HasOf(z, Handlers)
        /\ ~Has(z, <<"killed", "ecall">>)
    BY <1>1, <1>2, <1>4, <1>5, <1>9, <1>b DEF View, Handlers, User
  <2>2. Depth(x, g) = Depth(f, g)
    BY <1>2, <1>4, <1>5 DEF Depth, User, Open, PauseLabels
  <2> HIDE DEF f, g, h
  <2>3. QED
    BY <1>2, <1>4, <1>5, <1>7, <1>8, <1>9, <2>1, <2>2 DEF Regs, f, g, h, Registers, CpuStruct, User,
       TrapEntry, Open, PauseLabels
<1>13. Quiet(c, t, s, z, r, cpu[c])
  <2>1. /\ Nth(s, 1)[1] \notin {"plic_complete", "sched"}
        /\ Nth(z, 1)[1] \notin {"plic_complete", "sched", "resumed"}
    BY <1>2, <1>4, <1>5, <1>9 DEF User, Open, PauseLabels
  <2>2. QED
    BY <1>6, <1>7, <1>8, <1>9, <1>10, <1>11, <1>12, <2>1 DEF Quiet
<1>14. QED
  BY <1>13, QuietStep

LEMMA UservecStep ==
  ASSUME IInv, NEW c \in CPUs, NEW t, t = cur[c], NEW s, s = stk[t], uservec(c)
  PROVE  IInv'
<1> DEFINE f == Nth(s, 1)
           g == Nth(s, 2)
           h == Nth(s, 3)
           x == <<"usertrap", f[2]>>
           z == Put1(x, s)
           r == [hw[c] EXCEPT !.tp = tf[t].hartid]
<1>1. View(c, t, s)
  BY Running
<1>2. f[1] = "uservec" /\ f[2] \in Causes
  BY <1>1, Arguments DEF uservec, At, View
<1>3. Stack(t, s) /\ Onto(t, f, g, h) /\ (Len(s) > 1 <=> g[1] # "none")
  BY <1>1 DEF View
<1>4. /\ t \in Procs /\ g[1] \in User /\ g[1] # "none"
      /\ f[2] = "ecall" => g[1] = "ecall"
  BY <1>2, <1>3 DEF Onto, OfProcess, User, PauseLabels, TrapEntry, TrapExit, OfScheduler, OfDevice,
     Handlers
<1>b. /\ \A L : HasOf(Tail(s), L) <=> g[1] \in L
      /\ ~Has(Tail(s), <<"killed", "ecall">>) /\ Bottom(s) = g
  BY <1>3, <1>4, UserBelow
<1>a. tf[t].hartid = c
  BY <1>1, <1>2 DEF View, Regs
<1>5. /\ x \in Frame /\ x[1] = "usertrap"
  BY <1>1, <1>2, <1>4, Made DEF Bare, Causes, User, PauseLabels
<1>o. Onto(t, x, g, h)
  BY <1>1, <1>2, <1>3, <1>4, <1>5 DEF Onto, OfProcess, User, PauseLabels, TrapEntry, TrapExit,
     OfScheduler, OfDevice, Handlers
<1>6. Moves(c, t, z, r, cpu[c]) /\ lock' = lock
  BY <1>1, <1>2 DEF uservec, Then, Moves, View, Put1, IInv, Types, regs, clock
<1>7. hw[c] \in Registers /\ cpu[c] \in CpuStruct /\ Regs(c, t, s, hw[c], cpu[c], tf[t])
  BY <1>1 DEF View
<1>8. r \in Registers /\ r = [hw[c] EXCEPT !.tp = tf[t].hartid]
  BY <1>1, <1>2, <1>4, <1>7, <1>a DEF Registers
<1> HIDE DEF x, r
<1>9. /\ Stack(t, z)
      /\ Nth(z, 1) = x /\ Nth(z, 2) = g
      /\ \A L : HasOf(z, L) <=> x[1] \in L \/ HasOf(Tail(s), L)
      /\ \A e : Has(z, e) <=> x = e \/ Has(Tail(s), e)
      /\ Len(s) > 1 => Bottom(z) = Bottom(s)
  <2>1. Stack(t, s) /\ x[1] \notin Handlers
    BY <1>2, <1>3, <1>5 DEF Handlers
  <2>2. QED
    BY <1>5, <1>o, <2>1, Push1
<1> HIDE DEF z
<1>10. SameFrames(s, z)
  BY <1>1, <1>2, <1>3, <1>4, <1>5, <1>9, <1>b DEF View, SameFrames, User, TrapExit, PauseLabels,
     Open
<1>11. SameLocks(t, s, z)
  BY <1>2, <1>4, <1>5, <1>9 DEF SameLocks, Held, User, Open, PauseLabels
<1>12. Regs(c, t, z, r, cpu[c], tf[t])
  <2>1. /\ ~HasOf(z, Handlers)
        /\ ~Has(z, <<"killed", "ecall">>)
    BY <1>1, <1>2, <1>4, <1>5, <1>9, <1>b DEF View, Handlers, User
  <2>2. Depth(x, g) = Depth(f, g)
    BY <1>2, <1>4, <1>5 DEF Depth, User, Open, PauseLabels
  <2> HIDE DEF f, g, h
  <2>3. QED
    BY <1>2, <1>4, <1>5, <1>7, <1>8, <1>9, <2>1, <2>2 DEF Regs, f, g, h, Registers, CpuStruct, User,
       TrapEntry, Open, PauseLabels
<1>13. Quiet(c, t, s, z, r, cpu[c])
  <2>1. /\ Nth(s, 1)[1] \notin {"plic_complete", "sched"}
        /\ Nth(z, 1)[1] \notin {"plic_complete", "sched", "resumed"}
    BY <1>2, <1>4, <1>5, <1>9 DEF User, Open, PauseLabels
  <2>2. QED
    BY <1>6, <1>7, <1>8, <1>9, <1>10, <1>11, <1>12, <2>1 DEF Quiet
<1>14. QED
  BY <1>13, QuietStep

LEMMA UsertrapStep ==
  ASSUME IInv, NEW c \in CPUs, NEW t, t = cur[c], NEW s, s = stk[t], usertrap(c)
  PROVE  IInv'
<1> DEFINE f == Nth(s, 1)
           g == Nth(s, 2)
           h == Nth(s, 3)
           x == <<"save_epc", f[2]>>
           z == Put1(x, s)
           r == [hw[c] EXCEPT !.stvec = "kernelvec"]
<1>1. View(c, t, s)
  BY Running
<1>2. f[1] = "usertrap" /\ f[2] \in Causes
  BY <1>1, Arguments DEF usertrap, At, View
<1>3. Stack(t, s) /\ Onto(t, f, g, h) /\ (Len(s) > 1 <=> g[1] # "none")
  BY <1>1 DEF View
<1>4. /\ t \in Procs /\ g[1] \in User /\ g[1] # "none"
      /\ f[2] = "ecall" => g[1] = "ecall"
  BY <1>2, <1>3 DEF Onto, OfProcess, User, PauseLabels, TrapEntry, TrapExit, OfScheduler, OfDevice,
     Handlers
<1>b. /\ \A L : HasOf(Tail(s), L) <=> g[1] \in L
      /\ ~Has(Tail(s), <<"killed", "ecall">>) /\ Bottom(s) = g
  BY <1>3, <1>4, UserBelow
<1>5. /\ x \in Frame /\ x[1] = "save_epc"
  BY <1>1, <1>2, <1>4, Made DEF Bare, Causes, User, PauseLabels
<1>o. Onto(t, x, g, h)
  BY <1>1, <1>2, <1>3, <1>4, <1>5 DEF Onto, OfProcess, User, PauseLabels, TrapEntry, TrapExit,
     OfScheduler, OfDevice, Handlers
<1>6. Moves(c, t, z, r, cpu[c]) /\ lock' = lock
  BY <1>1, <1>2 DEF usertrap, Then, Moves, View, Put1, IInv, Types, regs, clock
<1>7. hw[c] \in Registers /\ cpu[c] \in CpuStruct /\ Regs(c, t, s, hw[c], cpu[c], tf[t])
  BY <1>1 DEF View
<1>8. r \in Registers /\ r = [hw[c] EXCEPT !.stvec = "kernelvec"]
  BY <1>1, <1>2, <1>4, <1>7 DEF Registers
<1> HIDE DEF x, r
<1>9. /\ Stack(t, z)
      /\ Nth(z, 1) = x /\ Nth(z, 2) = g
      /\ \A L : HasOf(z, L) <=> x[1] \in L \/ HasOf(Tail(s), L)
      /\ \A e : Has(z, e) <=> x = e \/ Has(Tail(s), e)
      /\ Len(s) > 1 => Bottom(z) = Bottom(s)
  <2>1. Stack(t, s) /\ x[1] \notin Handlers
    BY <1>2, <1>3, <1>5 DEF Handlers
  <2>2. QED
    BY <1>5, <1>o, <2>1, Push1
<1> HIDE DEF z
<1>10. SameFrames(s, z)
  BY <1>1, <1>2, <1>3, <1>4, <1>5, <1>9, <1>b DEF View, SameFrames, User, TrapExit, PauseLabels,
     Open
<1>11. SameLocks(t, s, z)
  BY <1>2, <1>4, <1>5, <1>9 DEF SameLocks, Held, User, Open, PauseLabels
<1>12. Regs(c, t, z, r, cpu[c], tf[t])
  <2>1. /\ ~HasOf(z, Handlers)
        /\ ~Has(z, <<"killed", "ecall">>)
    BY <1>1, <1>2, <1>4, <1>5, <1>9, <1>b DEF View, Handlers, User
  <2>2. Depth(x, g) = Depth(f, g)
    BY <1>2, <1>4, <1>5 DEF Depth, User, Open, PauseLabels
  <2> HIDE DEF f, g, h
  <2>3. QED
    BY <1>2, <1>4, <1>5, <1>7, <1>8, <1>9, <2>1, <2>2 DEF Regs, f, g, h, Registers, CpuStruct, User,
       TrapEntry, Open, PauseLabels
<1>13. Quiet(c, t, s, z, r, cpu[c])
  <2>1. /\ Nth(s, 1)[1] \notin {"plic_complete", "sched"}
        /\ Nth(z, 1)[1] \notin {"plic_complete", "sched", "resumed"}
    BY <1>2, <1>4, <1>5, <1>9 DEF User, Open, PauseLabels
  <2>2. QED
    BY <1>6, <1>7, <1>8, <1>9, <1>10, <1>11, <1>12, <2>1 DEF Quiet
<1>14. QED
  BY <1>13, QuietStep

LEMMA PrepareReturnStep ==
  ASSUME IInv, NEW c \in CPUs, NEW t, t = cur[c], NEW s, s = stk[t], prepare_return(c)
  PROVE  IInv'
<1> DEFINE f == Nth(s, 1)
           g == Nth(s, 2)
           h == Nth(s, 3)
           x == <<"prepare_regs">>
           z == Put1(x, s)
           r == [hw[c] EXCEPT !.sie = FALSE]
<1>1. View(c, t, s)
  BY Running
<1>2. f[1] = "prepare_return"
  BY <1>1 DEF prepare_return, At, View
<1>3. Stack(t, s) /\ Onto(t, f, g, h) /\ (Len(s) > 1 <=> g[1] # "none")
  BY <1>1 DEF View
<1>4. /\ t \in Procs /\ g[1] \in User /\ g[1] # "none"
  BY <1>2, <1>3 DEF Onto, OfProcess, User, PauseLabels, TrapEntry, TrapExit, OfScheduler, OfDevice,
     Handlers
<1>b. /\ \A L : HasOf(Tail(s), L) <=> g[1] \in L
      /\ ~Has(Tail(s), <<"killed", "ecall">>) /\ Bottom(s) = g
  BY <1>3, <1>4, UserBelow
<1>5. /\ x \in Frame /\ x[1] = "prepare_regs"
  BY <1>1, <1>2, <1>4, Made DEF Bare, Causes, User, PauseLabels
<1>o. Onto(t, x, g, h)
  BY <1>1, <1>2, <1>3, <1>4, <1>5 DEF Onto, OfProcess, User, PauseLabels, TrapEntry, TrapExit,
     OfScheduler, OfDevice, Handlers
<1>6. Moves(c, t, z, r, cpu[c]) /\ lock' = lock
  BY <1>1, <1>2 DEF prepare_return, Then, Moves, View, Put1, IInv, Types, regs, clock
<1>7. hw[c] \in Registers /\ cpu[c] \in CpuStruct /\ Regs(c, t, s, hw[c], cpu[c], tf[t])
  BY <1>1 DEF View
<1>8. r \in Registers /\ r = [hw[c] EXCEPT !.sie = FALSE]
  BY <1>1, <1>2, <1>4, <1>7 DEF Registers
<1> HIDE DEF x, r
<1>9. /\ Stack(t, z)
      /\ Nth(z, 1) = x /\ Nth(z, 2) = g
      /\ \A L : HasOf(z, L) <=> x[1] \in L \/ HasOf(Tail(s), L)
      /\ \A e : Has(z, e) <=> x = e \/ Has(Tail(s), e)
      /\ Len(s) > 1 => Bottom(z) = Bottom(s)
  <2>1. Stack(t, s) /\ x[1] \notin Handlers
    BY <1>2, <1>3, <1>5 DEF Handlers
  <2>2. QED
    BY <1>5, <1>o, <2>1, Push1
<1> HIDE DEF z
<1>10. SameFrames(s, z)
  BY <1>1, <1>2, <1>3, <1>4, <1>5, <1>9, <1>b DEF View, SameFrames, User, TrapExit, PauseLabels,
     Open
<1>11. SameLocks(t, s, z)
  BY <1>2, <1>4, <1>5, <1>9 DEF SameLocks, Held, User, Open, PauseLabels
<1>12. Regs(c, t, z, r, cpu[c], tf[t])
  <2>1. /\ ~HasOf(z, Handlers)
        /\ ~Has(z, <<"killed", "ecall">>)
    BY <1>1, <1>2, <1>4, <1>5, <1>9, <1>b DEF View, Handlers, User
  <2>2. Depth(x, g) = Depth(f, g)
    BY <1>2, <1>4, <1>5 DEF Depth, User, Open, PauseLabels
  <2> HIDE DEF f, g, h
  <2>3. QED
    BY <1>2, <1>4, <1>5, <1>7, <1>8, <1>9, <2>1, <2>2 DEF Regs, f, g, h, Registers, CpuStruct, User,
       TrapEntry, Open, PauseLabels
<1>13. Quiet(c, t, s, z, r, cpu[c])
  <2>1. /\ Nth(s, 1)[1] \notin {"plic_complete", "sched"}
        /\ Nth(z, 1)[1] \notin {"plic_complete", "sched", "resumed"}
    BY <1>2, <1>4, <1>5, <1>9 DEF User, Open, PauseLabels
  <2>2. QED
    BY <1>6, <1>7, <1>8, <1>9, <1>10, <1>11, <1>12, <2>1 DEF Quiet
<1>14. QED
  BY <1>13, QuietStep

LEMMA RestoreStep ==
  ASSUME IInv, NEW c \in CPUs, NEW t, t = cur[c], NEW s, s = stk[t], restore(c)
  PROVE  IInv'
<1> DEFINE f == Nth(s, 1)
           g == Nth(s, 2)
           h == Nth(s, 3)
           x == <<"sret">>
           z == Put1(x, s)
           r == [hw[c] EXCEPT !.sepc = <<t, g[1]>>, !.spp = "supervisor", !.spie = TRUE, !.sie = FALSE]
<1>1. View(c, t, s)
  BY Running
<1>2. f[1] = "restore"
  BY <1>1 DEF restore, At, View
<1>3. Stack(t, s) /\ Onto(t, f, g, h) /\ (Len(s) > 1 <=> g[1] # "none")
  BY <1>1 DEF View
<1>4. /\ g[1] \in Open /\ g[1] \notin User /\ g[1] # "none" /\ (g[1] = "acquire" => h[1] # "release")
      /\ f = <<"restore", <<t, g[1]>>, "supervisor", TRUE>>
  BY <1>2, <1>3 DEF Onto, OfProcess, User, PauseLabels, TrapEntry, TrapExit, OfScheduler, OfDevice,
     Handlers, Open
<1>a. <<t, g[1]>> \in Pc
  BY <1>1, <1>3, <1>4, LabelOf DEF View, Pc
<1>c. f[2] = <<t, g[1]>> /\ f[3] = "supervisor" /\ f[4] = TRUE
  <2> HIDE DEF f, g
  <2>1. QED
    BY <1>4
<1>d. hw' = [hw EXCEPT ![c] = r]
  <2> HIDE DEF f, g
  <2>1. Top(c) = f
    BY <1>1 DEF View, f
  <2>2. QED
    BY <1>c, <2>1 DEF restore, Restored
<1>5. /\ x \in Frame /\ x[1] = "sret"
  BY <1>1, <1>2, <1>4, Made DEF Bare, Causes, User, PauseLabels
<1>o. Onto(t, x, g, h)
  BY <1>1, <1>2, <1>3, <1>4, <1>5 DEF Onto, OfProcess, User, PauseLabels, TrapEntry, TrapExit,
     OfScheduler, OfDevice, Handlers
<1>6. Moves(c, t, z, r, cpu[c]) /\ lock' = lock
  BY <1>1, <1>2, <1>d DEF restore, Then, Moves, View, Put1, IInv, Types, regs, clock
<1>7. hw[c] \in Registers /\ cpu[c] \in CpuStruct /\ Regs(c, t, s, hw[c], cpu[c], tf[t])
  BY <1>1 DEF View
<1>8. r \in Registers /\ r = [hw[c] EXCEPT !.sepc = <<t, g[1]>>, !.spp = "supervisor", !.spie = TRUE, !.sie = FALSE]
  BY <1>1, <1>2, <1>4, <1>7, <1>a DEF Registers, Modes
<1> HIDE DEF x, r
<1>9. /\ Stack(t, z)
      /\ Nth(z, 1) = x /\ Nth(z, 2) = g
      /\ \A L : HasOf(z, L) <=> x[1] \in L \/ HasOf(Tail(s), L)
      /\ \A e : Has(z, e) <=> x = e \/ Has(Tail(s), e)
      /\ Len(s) > 1 => Bottom(z) = Bottom(s)
  <2>1. Stack(t, s) /\ s[1][1] \in Handlers
    BY <1>2, <1>3, <1>5, TopAndRest DEF Handlers, Stack
  <2>2. QED
    BY <1>5, <1>o, <2>1, Push1
<1> HIDE DEF z
<1>10. SameFrames(s, z)
  BY <1>1, <1>2, <1>3, <1>4, <1>5, <1>9 DEF View, SameFrames, User, TrapExit, PauseLabels, Open
<1>11. SameLocks(t, s, z)
  BY <1>2, <1>4, <1>5, <1>9 DEF SameLocks, Held, User, Open, PauseLabels
<1>12. Regs(c, t, z, r, cpu[c], tf[t])
  <2>1. /\ HasOf(z, Handlers) <=> HasOf(s, Handlers)
        /\ Has(z, <<"killed", "ecall">>) <=> Has(s, <<"killed", "ecall">>)
    BY <1>1, <1>2, <1>4, <1>5, <1>9 DEF View, Handlers, User
  <2>2. Depth(x, g) = Depth(f, g)
    BY <1>2, <1>4, <1>5 DEF Depth, User, Open, PauseLabels
  <2> HIDE DEF f, g, h
  <2>3. QED
    BY <1>2, <1>4, <1>5, <1>7, <1>8, <1>9, <2>1, <2>2 DEF Regs, f, g, h, Registers, CpuStruct, User,
       TrapEntry, Open, PauseLabels
<1>13. Quiet(c, t, s, z, r, cpu[c])
  <2>1. /\ Nth(s, 1)[1] \notin {"plic_complete", "sched"}
        /\ Nth(z, 1)[1] \notin {"plic_complete", "sched", "resumed"}
    BY <1>2, <1>4, <1>5, <1>9 DEF User, Open, PauseLabels
  <2>2. QED
    BY <1>6, <1>7, <1>8, <1>9, <1>10, <1>11, <1>12, <2>1 DEF Quiet
<1>14. QED
  BY <1>13, QuietStep

LEMMA UserretStep ==
  ASSUME IInv, NEW c \in CPUs, NEW t, t = cur[c], NEW s, s = stk[t], userret(c)
  PROVE  IInv'
<1> DEFINE f == Nth(s, 1)
           g == Nth(s, 2)
           h == Nth(s, 3)
           z == Put0(s)
           r == [hw[c] EXCEPT !.sie = hw[c].spie, !.spie = TRUE, !.spp = "user", !.sepc = <<>>, !.tp = UserTp]
<1>1. View(c, t, s)
  BY Running
<1>2. f[1] = "userret"
  BY <1>1 DEF userret, At, View
<1>3. Stack(t, s) /\ Onto(t, f, g, h) /\ (Len(s) > 1 <=> g[1] # "none")
  BY <1>1 DEF View
<1>4. /\ t \in Procs /\ g[1] \in User /\ g[1] # "none"
  BY <1>2, <1>3 DEF Onto, OfProcess, User, PauseLabels, TrapEntry, TrapExit, OfScheduler, OfDevice,
     Handlers
<1>b. /\ \A L : HasOf(Tail(s), L) <=> g[1] \in L
      /\ ~Has(Tail(s), <<"killed", "ecall">>) /\ Bottom(s) = g
  BY <1>3, <1>4, UserBelow
<1>6. Moves(c, t, z, r, cpu[c]) /\ lock' = lock
  BY <1>1, <1>2 DEF userret, Then, Moves, View, Put0, IInv, Types, regs, clock, Sret
<1>7. hw[c] \in Registers /\ cpu[c] \in CpuStruct /\ Regs(c, t, s, hw[c], cpu[c], tf[t])
  BY <1>1 DEF View
<1>8. r \in Registers /\ r.sie = hw[c].spie /\ r.tp = UserTp /\ r.stvec = hw[c].stvec
  BY <1>1, <1>2, <1>4, <1>7 DEF Registers, Modes, Pc
<1> HIDE DEF r
<1>9. /\ Stack(t, z)
      /\ Nth(z, 1) = g /\ Nth(z, 2) = h
      /\ \A L : HasOf(z, L) <=> HasOf(Tail(s), L)
      /\ \A e : Has(z, e) <=> Has(Tail(s), e)
      /\ Bottom(z) = Bottom(s)
  <2>1. Len(s) > 1
    BY <1>3, <1>4
  <2>2. QED
    BY <1>3, <2>1, Pop
<1> HIDE DEF z
<1>10. SameFrames(s, z)
  BY <1>1, <1>2, <1>3, <1>4, <1>9, <1>b DEF View, SameFrames, User, TrapExit, PauseLabels, Open
<1>11. SameLocks(t, s, z)
  BY <1>2, <1>4, <1>9 DEF SameLocks, Held, User, Open, PauseLabels
<1>12. Regs(c, t, z, r, cpu[c], tf[t])
  <2>1. /\ ~HasOf(z, Handlers)
        /\ ~Has(z, <<"killed", "ecall">>)
    BY <1>1, <1>2, <1>4, <1>9, <1>b DEF View, Handlers, User
  <2>2. Depth(g, h) = Depth(f, g) /\ Depth(f, g) = 0
    BY <1>2, <1>4 DEF Depth, User, Open, PauseLabels
  <2> HIDE DEF f, g, h
  <2>3. QED
    BY <1>2, <1>4, <1>7, <1>8, <1>9, <2>1, <2>2 DEF Regs, f, g, h, Registers, CpuStruct, User,
       TrapEntry, Open, PauseLabels
<1>13. Quiet(c, t, s, z, r, cpu[c])
  <2>1. /\ Nth(s, 1)[1] \notin {"plic_complete", "sched"}
        /\ Nth(z, 1)[1] \notin {"plic_complete", "sched", "resumed"}
    BY <1>2, <1>4, <1>9 DEF User, Open, PauseLabels
  <2>2. QED
    BY <1>6, <1>7, <1>8, <1>9, <1>10, <1>11, <1>12, <2>1 DEF Quiet
<1>14. QED
  BY <1>13, QuietStep

LEMMA SretStep ==
  ASSUME IInv, NEW c \in CPUs, NEW t, t = cur[c], NEW s, s = stk[t], sret(c)
  PROVE  IInv'
<1> DEFINE f == Nth(s, 1)
           g == Nth(s, 2)
           h == Nth(s, 3)
           z == Put0(s)
           r == [hw[c] EXCEPT !.sie = hw[c].spie, !.spie = TRUE, !.spp = "user", !.sepc = <<>>]
<1>1. View(c, t, s)
  BY Running
<1>2. f[1] = "sret"
  BY <1>1 DEF sret, At, View
<1>3. Stack(t, s) /\ Onto(t, f, g, h) /\ (Len(s) > 1 <=> g[1] # "none")
  BY <1>1 DEF View
<1>4. /\ g[1] \in Open /\ g[1] \notin User /\ g[1] # "none" /\ (g[1] = "acquire" => h[1] # "release")
  BY <1>2, <1>3 DEF Onto, OfProcess, User, PauseLabels, TrapEntry, TrapExit, OfScheduler, OfDevice,
     Handlers, Open
<1>b. ~HasOf(Tail(s), Handlers)
  BY <1>2, <1>3, OneHandler DEF Handlers
<1>6. Moves(c, t, z, r, cpu[c]) /\ lock' = lock
  BY <1>1, <1>2 DEF sret, Then, Moves, View, Put0, IInv, Types, regs, clock, Sret
<1>7. hw[c] \in Registers /\ cpu[c] \in CpuStruct /\ Regs(c, t, s, hw[c], cpu[c], tf[t])
  BY <1>1 DEF View
<1>8. r \in Registers /\ r.sie = hw[c].spie /\ r.tp = hw[c].tp /\ r.stvec = hw[c].stvec
  BY <1>1, <1>2, <1>4, <1>7 DEF Registers, Modes, Pc
<1> HIDE DEF r
<1>9. /\ Stack(t, z)
      /\ Nth(z, 1) = g /\ Nth(z, 2) = h
      /\ \A L : HasOf(z, L) <=> HasOf(Tail(s), L)
      /\ \A e : Has(z, e) <=> Has(Tail(s), e)
      /\ Bottom(z) = Bottom(s)
  <2>1. Len(s) > 1
    BY <1>3, <1>4
  <2>2. QED
    BY <1>3, <2>1, Pop
<1> HIDE DEF z
<1>10. SameFrames(s, z)
  BY <1>1, <1>2, <1>3, <1>4, <1>9, <1>b DEF View, SameFrames, User, TrapExit, PauseLabels, Open
<1>11. SameLocks(t, s, z)
  BY <1>2, <1>4, <1>9 DEF SameLocks, Held, User, Open, PauseLabels
<1>12. Regs(c, t, z, r, cpu[c], tf[t])
  <2>1. /\ ~HasOf(z, Handlers)
        /\ Has(z, <<"killed", "ecall">>) <=> Has(s, <<"killed", "ecall">>)
    BY <1>1, <1>2, <1>4, <1>9, <1>b DEF View, Handlers, User
  <2>2. Depth(g, h) = Depth(f, g) /\ Depth(f, g) = 0
    BY <1>2, <1>4 DEF Depth, User, Open, PauseLabels
  <2> HIDE DEF f, g, h
  <2>3. QED
    BY <1>2, <1>4, <1>7, <1>8, <1>9, <2>1, <2>2 DEF Regs, f, g, h, Registers, CpuStruct, User,
       TrapEntry, Open, PauseLabels
<1>13. Quiet(c, t, s, z, r, cpu[c])
  <2>1. /\ Nth(s, 1)[1] \notin {"plic_complete", "sched"}
        /\ Nth(z, 1)[1] \notin {"plic_complete", "sched", "resumed"}
    BY <1>2, <1>4, <1>9 DEF User, Open, PauseLabels
  <2>2. QED
    BY <1>6, <1>7, <1>8, <1>9, <1>10, <1>11, <1>12, <2>1 DEF Quiet
<1>14. QED
  BY <1>13, QuietStep
LEMMA ClockTickStep ==
  ASSUME IInv, NEW c \in CPUs, NEW t, t = cur[c], NEW s, s = stk[t], clockintr(c), cpuid(c) = 0
  PROVE  IInv'
<1> DEFINE f == Nth(s, 1)
           g == Nth(s, 2)
           h == Nth(s, 3)
           x == <<"acquire", "tickslock">>
           y == <<"tick">>
           z == Put2(x, y, s)
           r == hw[c]
<1>1. View(c, t, s)
  BY Running
<1>2. f[1] = "clockintr"
  BY <1>1 DEF clockintr, At, View
<1>3. Stack(t, s) /\ Onto(t, f, g, h) /\ (Len(s) > 1 <=> g[1] # "none")
  BY <1>1 DEF View
<1>4. /\ AfterDevice(g, h) /\ g[1] # "none" /\ g[1] \in {"killed", "restore", "acquire"} /\ (g[1] = "acquire" => h[1] = "yield")
  BY <1>2, <1>3 DEF Onto, OfProcess, User, PauseLabels, TrapEntry, TrapExit, OfScheduler, OfDevice,
     Handlers, AfterDevice
<1>5. /\ x \in Frame /\ x[1] = "acquire"
      /\ y \in Frame /\ y[1] = "tick"
  BY <1>1, <1>2, <1>4, Made DEF Bare, Causes, User, PauseLabels, Locks
<1>o. Onto(t, x, y, g) /\ Onto(t, y, g, h)
  BY <1>1, <1>2, <1>3, <1>4, <1>5 DEF Onto, OfProcess, User, PauseLabels, TrapEntry, TrapExit,
     OfScheduler, OfDevice, Handlers, AfterDevice
<1>6. Moves(c, t, z, r, cpu[c]) /\ lock' = lock
  BY <1>1, <1>2 DEF clockintr, Then, Moves, View, Put2, IInv, Types, regs, clock
<1>7. hw[c] \in Registers /\ cpu[c] \in CpuStruct /\ Regs(c, t, s, hw[c], cpu[c], tf[t])
  BY <1>1 DEF View
<1>8. r \in Registers
  BY <1>1, <1>2, <1>4, <1>7 DEF Registers
<1> HIDE DEF x, y
<1>9. /\ Stack(t, z)
      /\ Nth(z, 1) = x /\ Nth(z, 2) = y
      /\ \A L : HasOf(z, L) <=> x[1] \in L \/ y[1] \in L \/ HasOf(Tail(s), L)
      /\ \A e : Has(z, e) <=> x = e \/ y = e \/ Has(Tail(s), e)
      /\ Len(s) > 1 => Bottom(z) = Bottom(s)
  <2>1. Stack(t, s) /\ x[1] \notin Handlers /\ y[1] \notin Handlers
    BY <1>2, <1>3, <1>5 DEF Handlers
  <2>2. QED
    BY <1>5, <1>o, <2>1, Push2
<1> HIDE DEF z
<1>10. SameFrames(s, z)
  BY <1>1, <1>2, <1>3, <1>4, <1>5, <1>9 DEF View, SameFrames, User, TrapExit, PauseLabels, Open
<1>11. SameLocks(t, s, z)
  BY <1>2, <1>4, <1>5, <1>9 DEF SameLocks, Held, User, Open, PauseLabels
<1>12. Regs(c, t, z, r, cpu[c], tf[t])
  <2>1. /\ HasOf(z, Handlers) <=> HasOf(s, Handlers)
        /\ Has(z, <<"killed", "ecall">>) <=> Has(s, <<"killed", "ecall">>)
    BY <1>1, <1>2, <1>4, <1>5, <1>9 DEF View, Handlers, User
  <2>2. Depth(x, y) = Depth(f, g)
    BY <1>2, <1>4, <1>5 DEF Depth, User, Open, PauseLabels
  <2> HIDE DEF f, g, h
  <2>3. QED
    BY <1>2, <1>4, <1>5, <1>7, <1>8, <1>9, <2>1, <2>2 DEF Regs, f, g, h, Registers, CpuStruct, User,
       TrapEntry, Open, PauseLabels
<1>13. Quiet(c, t, s, z, r, cpu[c])
  <2>1. /\ Nth(s, 1)[1] \notin {"plic_complete", "sched"}
        /\ Nth(z, 1)[1] \notin {"plic_complete", "sched", "resumed"}
    BY <1>2, <1>4, <1>5, <1>9 DEF User, Open, PauseLabels
  <2>2. QED
    BY <1>6, <1>7, <1>8, <1>9, <1>10, <1>11, <1>12, <2>1 DEF Quiet
<1>14. QED
  BY <1>13, QuietStep

LEMMA NoTickStep ==
  ASSUME IInv, NEW c \in CPUs, NEW t, t = cur[c], NEW s, s = stk[t], clockintr(c), cpuid(c) # 0
  PROVE  IInv'
<1> DEFINE f == Nth(s, 1)
           g == Nth(s, 2)
           h == Nth(s, 3)
           z == Put0(s)
           r == hw[c]
<1>1. View(c, t, s)
  BY Running
<1>2. f[1] = "clockintr"
  BY <1>1 DEF clockintr, At, View
<1>3. Stack(t, s) /\ Onto(t, f, g, h) /\ (Len(s) > 1 <=> g[1] # "none")
  BY <1>1 DEF View
<1>4. /\ AfterDevice(g, h) /\ g[1] # "none" /\ g[1] \in {"killed", "restore", "acquire"} /\ (g[1] = "acquire" => h[1] = "yield")
  BY <1>2, <1>3 DEF Onto, OfProcess, User, PauseLabels, TrapEntry, TrapExit, OfScheduler, OfDevice,
     Handlers, AfterDevice
<1>6. Moves(c, t, z, r, cpu[c]) /\ lock' = lock
  BY <1>1, <1>2 DEF clockintr, Then, Moves, View, Put0, IInv, Types, regs, clock
<1>7. hw[c] \in Registers /\ cpu[c] \in CpuStruct /\ Regs(c, t, s, hw[c], cpu[c], tf[t])
  BY <1>1 DEF View
<1>8. r \in Registers
  BY <1>1, <1>2, <1>4, <1>7 DEF Registers
<1>9. /\ Stack(t, z)
      /\ Nth(z, 1) = g /\ Nth(z, 2) = h
      /\ \A L : HasOf(z, L) <=> HasOf(Tail(s), L)
      /\ \A e : Has(z, e) <=> Has(Tail(s), e)
      /\ Bottom(z) = Bottom(s)
  <2>1. Len(s) > 1
    BY <1>3, <1>4
  <2>2. QED
    BY <1>3, <2>1, Pop
<1> HIDE DEF z
<1>10. SameFrames(s, z)
  BY <1>1, <1>2, <1>3, <1>4, <1>9 DEF View, SameFrames, User, TrapExit, PauseLabels, Open
<1>11. SameLocks(t, s, z)
  BY <1>2, <1>4, <1>9 DEF SameLocks, Held, User, Open, PauseLabels
<1>12. Regs(c, t, z, r, cpu[c], tf[t])
  <2>1. /\ HasOf(z, Handlers) <=> HasOf(s, Handlers)
        /\ Has(z, <<"killed", "ecall">>) <=> Has(s, <<"killed", "ecall">>)
    BY <1>1, <1>2, <1>4, <1>9 DEF View, Handlers, User
  <2>2. Depth(g, h) = Depth(f, g)
    BY <1>2, <1>4 DEF Depth, User, Open, PauseLabels
  <2> HIDE DEF f, g, h
  <2>3. QED
    BY <1>2, <1>4, <1>7, <1>8, <1>9, <2>1, <2>2 DEF Regs, f, g, h, Registers, CpuStruct, User,
       TrapEntry, Open, PauseLabels
<1>13. Quiet(c, t, s, z, r, cpu[c])
  <2>1. /\ Nth(s, 1)[1] \notin {"plic_complete", "sched"}
        /\ Nth(z, 1)[1] \notin {"plic_complete", "sched", "resumed"}
    BY <1>2, <1>4, <1>9 DEF User, Open, PauseLabels
  <2>2. QED
    BY <1>6, <1>7, <1>8, <1>9, <1>10, <1>11, <1>12, <2>1 DEF Quiet
<1>14. QED
  BY <1>13, QuietStep

LEMMA IntrOffStep ==
  ASSUME IInv, NEW c \in CPUs, NEW t, t = cur[c], NEW s, s = stk[t], intr_off(c)
  PROVE  IInv'
<1> DEFINE f == Nth(s, 1)
           g == Nth(s, 2)
           h == Nth(s, 3)
           x == <<"scan", Procs>>
           z == Put1(x, s)
           r == [hw[c] EXCEPT !.sie = FALSE]
<1>1. View(c, t, s)
  BY Running
<1>2. f[1] = "scheduler"
  BY <1>1 DEF intr_off, At, View
<1>3. Stack(t, s) /\ Onto(t, f, g, h) /\ (Len(s) > 1 <=> g[1] # "none")
  BY <1>1 DEF View
<1>4. /\ t \in CPUs /\ g[1] = "none"
  BY <1>2, <1>3 DEF Onto, OfProcess, User, PauseLabels, TrapEntry, TrapExit, OfScheduler, OfDevice,
     Handlers
<1>b. (\A L : ~HasOf(Tail(s), L)) /\ (\A e : ~Has(Tail(s), e))
  BY <1>3, <1>4, Single DEF Stack
<1>5. /\ x \in Frame /\ x[1] = "scan"
  BY <1>1, <1>2, <1>4, Made DEF Bare, Causes, User, PauseLabels
<1>o. Onto(t, x, g, h)
  BY <1>1, <1>2, <1>3, <1>4, <1>5 DEF Onto, OfProcess, User, PauseLabels, TrapEntry, TrapExit,
     OfScheduler, OfDevice, Handlers
<1>6. Moves(c, t, z, r, cpu[c]) /\ lock' = lock
  BY <1>1, <1>2 DEF intr_off, Then, Moves, View, Put1, IInv, Types, regs, clock
<1>7. hw[c] \in Registers /\ cpu[c] \in CpuStruct /\ Regs(c, t, s, hw[c], cpu[c], tf[t])
  BY <1>1 DEF View
<1>8. r \in Registers /\ r = [hw[c] EXCEPT !.sie = FALSE]
  BY <1>1, <1>2, <1>4, <1>7 DEF Registers
<1> HIDE DEF x, r
<1>9. /\ Stack(t, z)
      /\ Nth(z, 1) = x /\ Nth(z, 2) = g
      /\ \A L : HasOf(z, L) <=> x[1] \in L \/ HasOf(Tail(s), L)
      /\ \A e : Has(z, e) <=> x = e \/ Has(Tail(s), e)
      /\ Len(s) > 1 => Bottom(z) = Bottom(s)
  <2>1. Stack(t, s) /\ x[1] \notin Handlers
    BY <1>2, <1>3, <1>5 DEF Handlers
  <2>2. QED
    BY <1>5, <1>o, <2>1, Push1
<1> HIDE DEF z
<1>10. SameFrames(s, z)
  BY <1>1, <1>2, <1>3, <1>4, <1>5, <1>9, <1>b DEF View, SameFrames, User, TrapExit, PauseLabels,
     Open
<1>11. SameLocks(t, s, z)
  BY <1>2, <1>4, <1>5, <1>9 DEF SameLocks, Held, User, Open, PauseLabels
<1>12. Regs(c, t, z, r, cpu[c], tf[t])
  <2>1. /\ ~HasOf(z, Handlers)
        /\ ~Has(z, <<"killed", "ecall">>)
    BY <1>1, <1>2, <1>4, <1>5, <1>9, <1>b DEF View, Handlers, User
  <2>2. Depth(x, g) = Depth(f, g)
    BY <1>2, <1>4, <1>5 DEF Depth, User, Open, PauseLabels
  <2> HIDE DEF f, g, h
  <2>3. QED
    BY <1>2, <1>4, <1>5, <1>7, <1>8, <1>9, <2>1, <2>2 DEF Regs, f, g, h, Registers, CpuStruct, User,
       TrapEntry, Open, PauseLabels
<1>13. Quiet(c, t, s, z, r, cpu[c])
  <2>1. /\ Nth(s, 1)[1] \notin {"plic_complete", "sched"}
        /\ Nth(z, 1)[1] \notin {"plic_complete", "sched", "resumed"}
    BY <1>2, <1>4, <1>5, <1>9 DEF User, Open, PauseLabels
  <2>2. QED
    BY <1>6, <1>7, <1>8, <1>9, <1>10, <1>11, <1>12, <2>1 DEF Quiet
<1>14. QED
  BY <1>13, QuietStep

LEMMA ScanEndStep ==
  ASSUME IInv, NEW c \in CPUs, NEW t, t = cur[c], NEW s, s = stk[t], scan(c),
         Then(c, <<<<"scheduler">>>>)
  PROVE  IInv'
<1> DEFINE f == Nth(s, 1)
           g == Nth(s, 2)
           h == Nth(s, 3)
           x == <<"scheduler">>
           z == Put1(x, s)
           r == hw[c]
<1>1. View(c, t, s)
  BY Running
<1>2. f[1] = "scan"
  BY <1>1 DEF scan, At, View
<1>3. Stack(t, s) /\ Onto(t, f, g, h) /\ (Len(s) > 1 <=> g[1] # "none")
  BY <1>1 DEF View
<1>4. /\ t \in CPUs /\ g[1] = "none"
  BY <1>2, <1>3 DEF Onto, OfProcess, User, PauseLabels, TrapEntry, TrapExit, OfScheduler, OfDevice,
     Handlers
<1>b. (\A L : ~HasOf(Tail(s), L)) /\ (\A e : ~Has(Tail(s), e))
  BY <1>3, <1>4, Single DEF Stack
<1>5. /\ x \in Frame /\ x[1] = "scheduler"
  BY <1>1, <1>2, <1>4, Made DEF Bare, Causes, User, PauseLabels
<1>o. Onto(t, x, g, h)
  BY <1>1, <1>2, <1>3, <1>4, <1>5 DEF Onto, OfProcess, User, PauseLabels, TrapEntry, TrapExit,
     OfScheduler, OfDevice, Handlers
<1>6. Moves(c, t, z, r, cpu[c]) /\ lock' = lock
  BY <1>1, <1>2 DEF scan, Then, Moves, View, Put1, IInv, Types, regs, clock
<1>7. hw[c] \in Registers /\ cpu[c] \in CpuStruct /\ Regs(c, t, s, hw[c], cpu[c], tf[t])
  BY <1>1 DEF View
<1>8. r \in Registers
  BY <1>1, <1>2, <1>4, <1>7 DEF Registers
<1> HIDE DEF x
<1>9. /\ Stack(t, z)
      /\ Nth(z, 1) = x /\ Nth(z, 2) = g
      /\ \A L : HasOf(z, L) <=> x[1] \in L \/ HasOf(Tail(s), L)
      /\ \A e : Has(z, e) <=> x = e \/ Has(Tail(s), e)
      /\ Len(s) > 1 => Bottom(z) = Bottom(s)
  <2>1. Stack(t, s) /\ x[1] \notin Handlers
    BY <1>2, <1>3, <1>5 DEF Handlers
  <2>2. QED
    BY <1>5, <1>o, <2>1, Push1
<1> HIDE DEF z
<1>10. SameFrames(s, z)
  BY <1>1, <1>2, <1>3, <1>4, <1>5, <1>9, <1>b DEF View, SameFrames, User, TrapExit, PauseLabels,
     Open
<1>11. SameLocks(t, s, z)
  BY <1>2, <1>4, <1>5, <1>9 DEF SameLocks, Held, User, Open, PauseLabels
<1>12. Regs(c, t, z, r, cpu[c], tf[t])
  <2>1. /\ ~HasOf(z, Handlers)
        /\ ~Has(z, <<"killed", "ecall">>)
    BY <1>1, <1>2, <1>4, <1>5, <1>9, <1>b DEF View, Handlers, User
  <2>2. Depth(x, g) = Depth(f, g)
    BY <1>2, <1>4, <1>5 DEF Depth, User, Open, PauseLabels
  <2> HIDE DEF f, g, h
  <2>3. QED
    BY <1>2, <1>4, <1>5, <1>7, <1>8, <1>9, <2>1, <2>2 DEF Regs, f, g, h, Registers, CpuStruct, User,
       TrapEntry, Open, PauseLabels
<1>13. Quiet(c, t, s, z, r, cpu[c])
  <2>1. /\ Nth(s, 1)[1] \notin {"plic_complete", "sched"}
        /\ Nth(z, 1)[1] \notin {"plic_complete", "sched", "resumed"}
    BY <1>2, <1>4, <1>5, <1>9 DEF User, Open, PauseLabels
  <2>2. QED
    BY <1>6, <1>7, <1>8, <1>9, <1>10, <1>11, <1>12, <2>1 DEF Quiet
<1>14. QED
  BY <1>13, QuietStep

LEMMA ScanNextStep ==
  ASSUME IInv, NEW c \in CPUs, NEW t, t = cur[c], NEW s, s = stk[t], scan(c), NEW p \in Top(c)[2],
         Then(c, <<<<"acquire", p>>, <<"run", p>>, <<"scan", Top(c)[2] \ {p}>>>>)
  PROVE  IInv'
<1> DEFINE f == Nth(s, 1)
           g == Nth(s, 2)
           h == Nth(s, 3)
           x == <<"acquire", p>>
           y == <<"run", p>>
           v == <<"scan", f[2] \ {p}>>
           z == Put3(x, y, v, s)
           r == hw[c]
<1>1. View(c, t, s)
  BY Running
<1>2. f[1] = "scan" /\ f[2] \in SUBSET Procs
  BY <1>1, Arguments DEF scan, At, View
<1>3. Stack(t, s) /\ Onto(t, f, g, h) /\ (Len(s) > 1 <=> g[1] # "none")
  BY <1>1 DEF View
<1>4. /\ t \in CPUs /\ g[1] = "none" /\ p \in Procs /\ p \in Locks
  BY <1>1, <1>2, <1>3, Names DEF Onto, OfProcess, User, PauseLabels, TrapEntry, TrapExit,
     OfScheduler, OfDevice, Handlers, Locks, View
<1>b. (\A L : ~HasOf(Tail(s), L)) /\ (\A e : ~Has(Tail(s), e))
  BY <1>3, <1>4, Single DEF Stack
<1>5. /\ x \in Frame /\ x[1] = "acquire"
      /\ y \in Frame /\ y[1] = "run"
      /\ v \in Frame /\ v[1] = "scan"
  BY <1>1, <1>2, <1>4, Made DEF Bare, Causes, User, PauseLabels
<1>o. Onto(t, x, y, v) /\ Onto(t, y, v, g) /\ Onto(t, v, g, h)
  BY <1>1, <1>2, <1>3, <1>4, <1>5 DEF Onto, OfProcess, User, PauseLabels, TrapEntry, TrapExit,
     OfScheduler, OfDevice, Handlers
<1>6. Moves(c, t, z, r, cpu[c]) /\ lock' = lock
  BY <1>1, <1>2 DEF scan, Then, Moves, View, Put3, IInv, Types, regs, clock
<1>7. hw[c] \in Registers /\ cpu[c] \in CpuStruct /\ Regs(c, t, s, hw[c], cpu[c], tf[t])
  BY <1>1 DEF View
<1>8. r \in Registers
  BY <1>1, <1>2, <1>4, <1>7 DEF Registers
<1> HIDE DEF x, y, v
<1>9. /\ Stack(t, z)
      /\ Nth(z, 1) = x /\ Nth(z, 2) = y
      /\ \A L : HasOf(z, L) <=> x[1] \in L \/ y[1] \in L \/ v[1] \in L \/ HasOf(Tail(s), L)
      /\ \A e : Has(z, e) <=> x = e \/ y = e \/ v = e \/ Has(Tail(s), e)
      /\ Len(s) > 1 => Bottom(z) = Bottom(s)
  <2>1. Stack(t, s) /\ x[1] \notin Handlers /\ y[1] \notin Handlers /\ v[1] \notin Handlers
    BY <1>2, <1>3, <1>5 DEF Handlers
  <2>2. QED
    BY <1>5, <1>o, <2>1, Push3
<1> HIDE DEF z
<1>10. SameFrames(s, z)
  BY <1>1, <1>2, <1>3, <1>4, <1>5, <1>9, <1>b DEF View, SameFrames, User, TrapExit, PauseLabels,
     Open
<1>11. SameLocks(t, s, z)
  BY <1>2, <1>4, <1>5, <1>9 DEF SameLocks, Held, User, Open, PauseLabels
<1>12. Regs(c, t, z, r, cpu[c], tf[t])
  <2>1. /\ ~HasOf(z, Handlers)
        /\ ~Has(z, <<"killed", "ecall">>)
    BY <1>1, <1>2, <1>4, <1>5, <1>9, <1>b DEF View, Handlers, User
  <2>2. Depth(x, y) = Depth(f, g)
    BY <1>2, <1>4, <1>5 DEF Depth, User, Open, PauseLabels
  <2> HIDE DEF f, g, h
  <2>3. QED
    BY <1>2, <1>4, <1>5, <1>7, <1>8, <1>9, <2>1, <2>2 DEF Regs, f, g, h, Registers, CpuStruct, User,
       TrapEntry, Open, PauseLabels
<1>13. Quiet(c, t, s, z, r, cpu[c])
  <2>1. /\ Nth(s, 1)[1] \notin {"plic_complete", "sched"}
        /\ Nth(z, 1)[1] \notin {"plic_complete", "sched", "resumed"}
    BY <1>2, <1>4, <1>5, <1>9 DEF User, Open, PauseLabels
  <2>2. QED
    BY <1>6, <1>7, <1>8, <1>9, <1>10, <1>11, <1>12, <2>1 DEF Quiet
<1>14. QED
  BY <1>13, QuietStep
LEMMA TimerOfProcessStep ==
  ASSUME IInv, NEW c \in CPUs, NEW t, t = cur[c], NEW s, s = stk[t], kerneltrap(c),
         Top(c)[2] = "timer", t \in Procs
  PROVE  IInv'
<1> DEFINE f == Nth(s, 1)
           g == Nth(s, 2)
           h == Nth(s, 3)
           x == <<"clockintr">>
           y == <<"acquire", t>>
           v == <<"yield">>
           w == <<"restore", <<t, g[1]>>, "supervisor", TRUE>>
           z == Put4(x, y, v, w, s)
           r == hw[c]
<1>1. View(c, t, s)
  BY Running
<1>2. f[1] = "kernelvec" /\ f[2] \in Causes /\ cpuid(c) = c
  BY <1>1, Arguments DEF kerneltrap, At, View, Regs, User, cpuid
<1>3. Stack(t, s) /\ Onto(t, f, g, h) /\ (Len(s) > 1 <=> g[1] # "none")
  BY <1>1 DEF View
<1>4. /\ g[1] \in Open /\ g[1] \notin User /\ g[1] # "none" /\ (g[1] = "acquire" => h[1] # "release")
  BY <1>2, <1>3 DEF Onto, OfProcess, User, PauseLabels, TrapEntry, TrapExit, OfScheduler, OfDevice,
     Handlers, Open
<1>a. <<t, g[1]>> \in Pc
  BY <1>1, <1>3, <1>4, LabelOf DEF View, Pc
<1>c. hw[c].sepc = <<t, g[1]>> /\ hw[c].spp = "supervisor" /\ hw[c].spie = TRUE
  BY <1>1, <1>2 DEF View, Regs, Registers
<1>d. stk' = [stk EXCEPT ![t] = z]
  <2>1. Top(c) = f /\ cur[c] = t
    BY <1>1 DEF View, f
  <2> DEFINE q == <<"restore", hw[c].sepc, hw[c].spp, hw[c].spie>>
  <2>2. q = w
    BY <1>c
  <2> HIDE DEF q, f, g, x, y, v, w
  <2>3. stk' = [stk EXCEPT ![t] = (<<<<"clockintr">>>> \o <<<<"acquire", t>>, <<"yield">>>> \o <<q>>) \o Tail(@)]
    BY <2>1, <1>2, t \in Procs DEF kerneltrap, Then, devintr, MaybeYield, q, myproc
  <2>4. (<<<<"clockintr">>>> \o <<<<"acquire", t>>, <<"yield">>>> \o <<q>>) = <<x, y, v, q>>
    BY JoinedFour DEF x, y, v
  <2>5. QED
    BY <2>2, <2>3, <2>4 DEF z, Put4
<1>5. /\ x \in Frame /\ x[1] = "clockintr"
      /\ y \in Frame /\ y[1] = "acquire"
      /\ v \in Frame /\ v[1] = "yield"
      /\ w \in Frame /\ w[1] = "restore"
  BY <1>1, <1>2, <1>4, Made, <1>a DEF Bare, Causes, User, PauseLabels, Modes, Locks
<1>o. Onto(t, x, y, v) /\ Onto(t, y, v, w) /\ Onto(t, v, w, g) /\ Onto(t, w, g, h)
  BY <1>1, <1>2, <1>3, <1>4, <1>5 DEF Onto, OfProcess, User, PauseLabels, TrapEntry, TrapExit,
     OfScheduler, OfDevice, Handlers, AfterDevice, Open
<1>6. Moves(c, t, z, r, cpu[c]) /\ lock' = lock
  BY <1>1, <1>2, <1>d DEF kerneltrap, Then, Moves, View, Put4, IInv, Types, regs, clock
<1>7. hw[c] \in Registers /\ cpu[c] \in CpuStruct /\ Regs(c, t, s, hw[c], cpu[c], tf[t])
  BY <1>1 DEF View
<1>8. r \in Registers
  BY <1>1, <1>2, <1>4, <1>7 DEF Registers
<1> HIDE DEF x, y, v, w
<1>9. /\ Stack(t, z)
      /\ Nth(z, 1) = x /\ Nth(z, 2) = y
      /\ \A L : HasOf(z, L) <=> x[1] \in L \/ y[1] \in L \/ v[1] \in L \/ w[1] \in L \/ HasOf(Tail(s), L)
      /\ \A e : Has(z, e) <=> x = e \/ y = e \/ v = e \/ w = e \/ Has(Tail(s), e)
      /\ Len(s) > 1 => Bottom(z) = Bottom(s)
  <2>1. Stack(t, s) /\ x[1] \notin Handlers /\ y[1] \notin Handlers /\ v[1] \notin Handlers /\ s[1][1] \in Handlers
    BY <1>2, <1>3, <1>5, TopAndRest DEF Handlers, Stack
  <2>2. QED
    BY <1>5, <1>o, <2>1, Push4
<1> HIDE DEF z
<1>10. SameFrames(s, z)
  BY <1>1, <1>2, <1>3, <1>4, <1>5, <1>9 DEF View, SameFrames, User, TrapExit, PauseLabels, Open
<1>11. SameLocks(t, s, z)
  BY <1>2, <1>4, <1>5, <1>9 DEF SameLocks, Held, User, Open, PauseLabels
<1>12. Regs(c, t, z, r, cpu[c], tf[t])
  <2>1. /\ HasOf(z, Handlers) <=> HasOf(s, Handlers)
        /\ Has(z, <<"killed", "ecall">>) <=> Has(s, <<"killed", "ecall">>)
    BY <1>1, <1>2, <1>4, <1>5, <1>9 DEF View, Handlers, User
  <2>2. Depth(x, y) = Depth(f, g)
    BY <1>2, <1>4, <1>5 DEF Depth, User, Open, PauseLabels
  <2> HIDE DEF f, g, h
  <2>3. QED
    BY <1>2, <1>4, <1>5, <1>7, <1>8, <1>9, <2>1, <2>2 DEF Regs, f, g, h, Registers, CpuStruct, User,
       TrapEntry, Open, PauseLabels
<1>13. Quiet(c, t, s, z, r, cpu[c])
  <2>1. /\ Nth(s, 1)[1] \notin {"plic_complete", "sched"}
        /\ Nth(z, 1)[1] \notin {"plic_complete", "sched", "resumed"}
    BY <1>2, <1>4, <1>5, <1>9 DEF User, Open, PauseLabels
  <2>2. QED
    BY <1>6, <1>7, <1>8, <1>9, <1>10, <1>11, <1>12, <2>1 DEF Quiet
<1>14. QED
  BY <1>13, QuietStep

LEMMA TimerOfSchedulerStep ==
  ASSUME IInv, NEW c \in CPUs, NEW t, t = cur[c], NEW s, s = stk[t], kerneltrap(c),
         Top(c)[2] = "timer", t \notin Procs
  PROVE  IInv'
<1> DEFINE f == Nth(s, 1)
           g == Nth(s, 2)
           h == Nth(s, 3)
           x == <<"clockintr">>
           y == <<"restore", <<t, g[1]>>, "supervisor", TRUE>>
           z == Put2(x, y, s)
           r == hw[c]
<1>1. View(c, t, s)
  BY Running
<1>2. f[1] = "kernelvec" /\ f[2] \in Causes /\ cpuid(c) = c
  BY <1>1, Arguments DEF kerneltrap, At, View, Regs, User, cpuid
<1>3. Stack(t, s) /\ Onto(t, f, g, h) /\ (Len(s) > 1 <=> g[1] # "none")
  BY <1>1 DEF View
<1>4. /\ g[1] \in Open /\ g[1] \notin User /\ g[1] # "none" /\ (g[1] = "acquire" => h[1] # "release")
  BY <1>2, <1>3 DEF Onto, OfProcess, User, PauseLabels, TrapEntry, TrapExit, OfScheduler, OfDevice,
     Handlers, Open
<1>a. <<t, g[1]>> \in Pc
  BY <1>1, <1>3, <1>4, LabelOf DEF View, Pc
<1>c. hw[c].sepc = <<t, g[1]>> /\ hw[c].spp = "supervisor" /\ hw[c].spie = TRUE
  BY <1>1, <1>2 DEF View, Regs, Registers
<1>d. stk' = [stk EXCEPT ![t] = z]
  <2>1. Top(c) = f /\ cur[c] = t
    BY <1>1 DEF View, f
  <2> DEFINE q == <<"restore", hw[c].sepc, hw[c].spp, hw[c].spie>>
  <2>2. q = y
    BY <1>c
  <2> HIDE DEF q, f, g, x, y
  <2>3. stk' = [stk EXCEPT ![t] = (<<<<"clockintr">>>> \o <<>> \o <<q>>) \o Tail(@)]
    BY <2>1, <1>2, t \notin Procs DEF kerneltrap, Then, devintr, MaybeYield, q, myproc
  <2>4. (<<<<"clockintr">>>> \o <<>> \o <<q>>) = <<x, q>>
    BY JoinedTwo DEF x
  <2>5. QED
    BY <2>2, <2>3, <2>4 DEF z, Put2
<1>5. /\ x \in Frame /\ x[1] = "clockintr"
      /\ y \in Frame /\ y[1] = "restore"
  BY <1>1, <1>2, <1>4, Made, <1>a DEF Bare, Causes, User, PauseLabels, Modes, Locks
<1>o. Onto(t, x, y, g) /\ Onto(t, y, g, h)
  BY <1>1, <1>2, <1>3, <1>4, <1>5 DEF Onto, OfProcess, User, PauseLabels, TrapEntry, TrapExit,
     OfScheduler, OfDevice, Handlers, AfterDevice, Open
<1>6. Moves(c, t, z, r, cpu[c]) /\ lock' = lock
  BY <1>1, <1>2, <1>d DEF kerneltrap, Then, Moves, View, Put2, IInv, Types, regs, clock
<1>7. hw[c] \in Registers /\ cpu[c] \in CpuStruct /\ Regs(c, t, s, hw[c], cpu[c], tf[t])
  BY <1>1 DEF View
<1>8. r \in Registers
  BY <1>1, <1>2, <1>4, <1>7 DEF Registers
<1> HIDE DEF x, y
<1>9. /\ Stack(t, z)
      /\ Nth(z, 1) = x /\ Nth(z, 2) = y
      /\ \A L : HasOf(z, L) <=> x[1] \in L \/ y[1] \in L \/ HasOf(Tail(s), L)
      /\ \A e : Has(z, e) <=> x = e \/ y = e \/ Has(Tail(s), e)
      /\ Len(s) > 1 => Bottom(z) = Bottom(s)
  <2>1. Stack(t, s) /\ x[1] \notin Handlers /\ s[1][1] \in Handlers
    BY <1>2, <1>3, <1>5, TopAndRest DEF Handlers, Stack
  <2>2. QED
    BY <1>5, <1>o, <2>1, Push2
<1> HIDE DEF z
<1>10. SameFrames(s, z)
  BY <1>1, <1>2, <1>3, <1>4, <1>5, <1>9 DEF View, SameFrames, User, TrapExit, PauseLabels, Open
<1>11. SameLocks(t, s, z)
  BY <1>2, <1>4, <1>5, <1>9 DEF SameLocks, Held, User, Open, PauseLabels
<1>12. Regs(c, t, z, r, cpu[c], tf[t])
  <2>1. /\ HasOf(z, Handlers) <=> HasOf(s, Handlers)
        /\ Has(z, <<"killed", "ecall">>) <=> Has(s, <<"killed", "ecall">>)
    BY <1>1, <1>2, <1>4, <1>5, <1>9 DEF View, Handlers, User
  <2>2. Depth(x, y) = Depth(f, g)
    BY <1>2, <1>4, <1>5 DEF Depth, User, Open, PauseLabels
  <2> HIDE DEF f, g, h
  <2>3. QED
    BY <1>2, <1>4, <1>5, <1>7, <1>8, <1>9, <2>1, <2>2 DEF Regs, f, g, h, Registers, CpuStruct, User,
       TrapEntry, Open, PauseLabels
<1>13. Quiet(c, t, s, z, r, cpu[c])
  <2>1. /\ Nth(s, 1)[1] \notin {"plic_complete", "sched"}
        /\ Nth(z, 1)[1] \notin {"plic_complete", "sched", "resumed"}
    BY <1>2, <1>4, <1>5, <1>9 DEF User, Open, PauseLabels
  <2>2. QED
    BY <1>6, <1>7, <1>8, <1>9, <1>10, <1>11, <1>12, <2>1 DEF Quiet
<1>14. QED
  BY <1>13, QuietStep

LEMMA ExternalStep ==
  ASSUME IInv, NEW c \in CPUs, NEW t, t = cur[c], NEW s, s = stk[t], kerneltrap(c),
         Top(c)[2] # "timer"
  PROVE  IInv'
<1> DEFINE f == Nth(s, 1)
           g == Nth(s, 2)
           h == Nth(s, 3)
           x == <<"plic_claim">>
           y == <<"restore", <<t, g[1]>>, "supervisor", TRUE>>
           z == Put2(x, y, s)
           r == hw[c]
<1>1. View(c, t, s)
  BY Running
<1>2. f[1] = "kernelvec" /\ f[2] \in Causes /\ cpuid(c) = c
  BY <1>1, Arguments DEF kerneltrap, At, View, Regs, User, cpuid
<1>3. Stack(t, s) /\ Onto(t, f, g, h) /\ (Len(s) > 1 <=> g[1] # "none")
  BY <1>1 DEF View
<1>4. /\ g[1] \in Open /\ g[1] \notin User /\ g[1] # "none" /\ (g[1] = "acquire" => h[1] # "release")
  BY <1>2, <1>3 DEF Onto, OfProcess, User, PauseLabels, TrapEntry, TrapExit, OfScheduler, OfDevice,
     Handlers, Open
<1>a. <<t, g[1]>> \in Pc
  BY <1>1, <1>3, <1>4, LabelOf DEF View, Pc
<1>c. hw[c].sepc = <<t, g[1]>> /\ hw[c].spp = "supervisor" /\ hw[c].spie = TRUE
  BY <1>1, <1>2 DEF View, Regs, Registers
<1>d. stk' = [stk EXCEPT ![t] = z]
  <2>1. Top(c) = f /\ cur[c] = t
    BY <1>1 DEF View, f
  <2> DEFINE q == <<"restore", hw[c].sepc, hw[c].spp, hw[c].spie>>
  <2>2. q = y
    BY <1>c
  <2> HIDE DEF q, f, g, x, y
  <2>3. stk' = [stk EXCEPT ![t] = (<<<<"plic_claim">>>> \o <<>> \o <<q>>) \o Tail(@)]
    BY <2>1, <1>2, TRUE DEF kerneltrap, Then, devintr, MaybeYield, q, myproc
  <2>4. (<<<<"plic_claim">>>> \o <<>> \o <<q>>) = <<x, q>>
    BY JoinedTwo DEF x
  <2>5. QED
    BY <2>2, <2>3, <2>4 DEF z, Put2
<1>5. /\ x \in Frame /\ x[1] = "plic_claim"
      /\ y \in Frame /\ y[1] = "restore"
  BY <1>1, <1>2, <1>4, Made, <1>a DEF Bare, Causes, User, PauseLabels, Modes, Locks
<1>o. Onto(t, x, y, g) /\ Onto(t, y, g, h)
  BY <1>1, <1>2, <1>3, <1>4, <1>5 DEF Onto, OfProcess, User, PauseLabels, TrapEntry, TrapExit,
     OfScheduler, OfDevice, Handlers, AfterDevice, Open
<1>6. Moves(c, t, z, r, cpu[c]) /\ lock' = lock
  BY <1>1, <1>2, <1>d DEF kerneltrap, Then, Moves, View, Put2, IInv, Types, regs, clock
<1>7. hw[c] \in Registers /\ cpu[c] \in CpuStruct /\ Regs(c, t, s, hw[c], cpu[c], tf[t])
  BY <1>1 DEF View
<1>8. r \in Registers
  BY <1>1, <1>2, <1>4, <1>7 DEF Registers
<1> HIDE DEF x, y
<1>9. /\ Stack(t, z)
      /\ Nth(z, 1) = x /\ Nth(z, 2) = y
      /\ \A L : HasOf(z, L) <=> x[1] \in L \/ y[1] \in L \/ HasOf(Tail(s), L)
      /\ \A e : Has(z, e) <=> x = e \/ y = e \/ Has(Tail(s), e)
      /\ Len(s) > 1 => Bottom(z) = Bottom(s)
  <2>1. Stack(t, s) /\ x[1] \notin Handlers /\ s[1][1] \in Handlers
    BY <1>2, <1>3, <1>5, TopAndRest DEF Handlers, Stack
  <2>2. QED
    BY <1>5, <1>o, <2>1, Push2
<1> HIDE DEF z
<1>10. SameFrames(s, z)
  BY <1>1, <1>2, <1>3, <1>4, <1>5, <1>9 DEF View, SameFrames, User, TrapExit, PauseLabels, Open
<1>11. SameLocks(t, s, z)
  BY <1>2, <1>4, <1>5, <1>9 DEF SameLocks, Held, User, Open, PauseLabels
<1>12. Regs(c, t, z, r, cpu[c], tf[t])
  <2>1. /\ HasOf(z, Handlers) <=> HasOf(s, Handlers)
        /\ Has(z, <<"killed", "ecall">>) <=> Has(s, <<"killed", "ecall">>)
    BY <1>1, <1>2, <1>4, <1>5, <1>9 DEF View, Handlers, User
  <2>2. Depth(x, y) = Depth(f, g)
    BY <1>2, <1>4, <1>5 DEF Depth, User, Open, PauseLabels
  <2> HIDE DEF f, g, h
  <2>3. QED
    BY <1>2, <1>4, <1>5, <1>7, <1>8, <1>9, <2>1, <2>2 DEF Regs, f, g, h, Registers, CpuStruct, User,
       TrapEntry, Open, PauseLabels
<1>13. Quiet(c, t, s, z, r, cpu[c])
  <2>1. /\ Nth(s, 1)[1] \notin {"plic_complete", "sched"}
        /\ Nth(z, 1)[1] \notin {"plic_complete", "sched", "resumed"}
    BY <1>2, <1>4, <1>5, <1>9 DEF User, Open, PauseLabels
  <2>2. QED
    BY <1>6, <1>7, <1>8, <1>9, <1>10, <1>11, <1>12, <2>1 DEF Quiet
<1>14. QED
  BY <1>13, QuietStep
LEMMA IntrOnStep ==
  ASSUME IInv, NEW c \in CPUs, NEW t, t = cur[c], NEW s, s = stk[t], intr_on(c)
  PROVE  IInv'
<1> DEFINE f == Nth(s, 1)
           r == [hw[c] EXCEPT !.sie = TRUE]
<1>1. View(c, t, s)
  BY Running
<1>2. f[1] = "scheduler"
  BY <1>1 DEF intr_on, At, View
<1>3. Moves(c, t, s, r, cpu[c]) /\ lock' = lock
  BY <1>1 DEF intr_on, Moves, View, IInv, Types, clock
<1>4. hw[c] \in Registers /\ cpu[c] \in CpuStruct /\ Regs(c, t, s, hw[c], cpu[c], tf[t]) /\ Stack(t, s)
  BY <1>1 DEF View
<1>5. r \in Registers /\ r = [hw[c] EXCEPT !.sie = TRUE]
  BY <1>4 DEF Registers
<1> HIDE DEF r
<1>6. ~HasOf(s, Handlers)
  <2>1. Nth(s, 2)[1] = "none" /\ (Len(s) > 1 <=> Nth(s, 2)[1] # "none")
    BY <1>1, <1>2 DEF View, Onto, OfScheduler
  <2>2. \A L : ~HasOf(Tail(s), L)
    BY <1>4, <2>1, Single DEF Stack
  <2>3. QED
    BY <1>1, <1>2, <2>2 DEF View, Handlers
<1>7. Regs(c, t, s, r, cpu[c], tf[t])
  <2>1. Depth(f, Nth(s, 2)) = 0
    BY <1>2 DEF Depth
  <2> HIDE DEF f
  <2>2. QED
    BY <1>2, <1>4, <1>5, <1>6, <2>1 DEF Regs, f, Registers, CpuStruct, User, TrapEntry, Open
<1>8. SameFrames(s, s) /\ SameLocks(t, s, s)
  BY DEF SameFrames, SameLocks
<1>9. Quiet(c, t, s, s, r, cpu[c])
  BY <1>2, <1>3, <1>4, <1>5, <1>7, <1>8 DEF Quiet
<1>10. QED
  BY <1>9, QuietStep

LEMMA ResumedStep ==
  ASSUME IInv, NEW c \in CPUs, NEW t, t = cur[c], NEW s, s = stk[t], resumed(c)
  PROVE  IInv'
<1> DEFINE f == Nth(s, 1)
           g == Nth(s, 2)
           h == Nth(s, 3)
           z == Put0(s)
           k == [cpu[c] EXCEPT !.intena = f[2]]
<1>1. View(c, t, s)
  BY Running
<1>2. f[1] = "resumed" /\ f[2] \in BOOLEAN /\ cpuid(c) = c
  BY <1>1, Arguments DEF resumed, At, View, Regs, User, cpuid
<1>3. /\ Stack(t, s) /\ Onto(t, f, g, h) /\ (Len(s) > 1 <=> g[1] # "none")
      /\ hw[c] \in Registers /\ cpu[c] \in CpuStruct /\ Regs(c, t, s, hw[c], cpu[c], tf[t])
  BY <1>1 DEF View
\* The process is RUNNING, so it does not exit.
<1>4. t \in Procs /\ g = <<"release", t>> /\ Onto(t, g, h, Nth(s, 4))
  <2>1. t \in Procs /\ (g[1] \in User \/ g = <<"release", t>>)
    BY <1>2, <1>3 DEF Onto, OfProcess
  <2>2. state[t].state = "RUNNING" /\ Keeps(t, s, state[t], tf[t])
    BY <1>1, <1>2, <2>1 DEF View
  <2>3. g[1] \notin User
    BY <1>2, <2>2 DEF Keeps
  <2>4. Len(s) > 1
    BY <1>3, <2>1, <2>3
  <2>5. Onto(t, g, h, Nth(s, 4))
    BY <1>1, <2>4 DEF View
  <2>6. QED
    BY <2>1, <2>3, <2>5
<1>5. g[1] = "release" /\ g[2] = t /\ h[1] # "asleep"
  <2>1. g[1] = "release" /\ g[2] = t
    BY <1>4
  <2>2. t # "tickslock" /\ t \notin CPUs
    BY <1>4, Names
  <2>3. QED
    BY <1>4, <2>1, <2>2 DEF Onto
<1>6. Moves(c, t, z, hw[c], k) /\ lock' = lock
  BY <1>1, <1>2 DEF resumed, Then, Moves, View, Put0, IInv, Types, regs, clock
<1>7. k \in CpuStruct /\ k = [cpu[c] EXCEPT !.intena = f[2]]
  BY <1>2, <1>3 DEF CpuStruct
<1> HIDE DEF k
<1>8. /\ Stack(t, z)
      /\ Nth(z, 1) = g /\ Nth(z, 2) = h
      /\ \A L : HasOf(z, L) <=> HasOf(Tail(s), L)
      /\ \A e : Has(z, e) <=> Has(Tail(s), e)
      /\ Bottom(z) = Bottom(s)
  <2>1. Len(s) > 1
    BY <1>3, <1>5
  <2>2. QED
    BY <1>3, <2>1, Pop
<1> HIDE DEF z
<1>9. SameFrames(s, z)
  BY <1>1, <1>2, <1>8 DEF View, SameFrames, TrapExit, PauseLabels
<1>10. SameLocks(t, s, z)
  BY <1>2, <1>5, <1>8 DEF SameLocks, Held
<1>11. Regs(c, t, z, hw[c], k, tf[t])
  <2>1. /\ HasOf(z, Handlers) <=> HasOf(s, Handlers)
        /\ Has(z, <<"killed", "ecall">>) <=> Has(s, <<"killed", "ecall">>)
    BY <1>1, <1>2, <1>8 DEF View, Handlers
  <2>2. Depth(g, h) = 1 /\ Depth(f, g) = 1
    BY <1>2, <1>5 DEF Depth
  <2>3. /\ HasOf(s, Handlers) => ~f[2]
        /\ ~HasOf(s, Handlers) /\ Has(s, <<"killed", "ecall">>) => f[2]
    BY <1>1, <1>2, <1>4 DEF View, Keeps
  <2> HIDE DEF f, g, h
  <2>4. QED
    BY <1>2, <1>3, <1>5, <1>7, <1>8, <2>1, <2>2, <2>3 DEF Regs, f, g, h, Registers, CpuStruct, User,
       TrapEntry
<1>12. Quiet(c, t, s, z, hw[c], k)
  <2>1. /\ Nth(s, 1)[1] \notin {"plic_complete", "sched"}
        /\ Nth(z, 1)[1] \notin {"plic_complete", "sched", "resumed"}
    BY <1>2, <1>5, <1>8
  <2>2. QED
    BY <1>3, <1>6, <1>7, <1>8, <1>9, <1>10, <1>11, <2>1 DEF Quiet
<1>13. QED
  BY <1>12, QuietStep
\* A trap puts one frame on the stack: uservec on the user program, kernelvec on the kernel.
TrapRegisters(c, t, f) == [hw[c] EXCEPT !.sepc = <<t, f[1]>>,
                                        !.spp = IF f[1] \in User THEN "user" ELSE "supervisor",
                                        !.spie = hw[c].sie, !.sie = FALSE]
Trapped(c, t, s, z, r, y) ==
  /\ r \in Registers /\ Stack(t, z) /\ SameFrames(s, z) /\ SameLocks(t, s, z)
  /\ Regs(c, t, z, r, cpu[c], tf[t])
  /\ Nth(s, 1)[1] \in Open /\ Nth(z, 1) = y /\ y[1] \in {"uservec", "kernelvec"}
  /\ Nth(s, 1)[1] \in User => y[1] = "uservec"
  /\ \A L : HasOf(z, L) <=> y[1] \in L \/ HasOf(s, L)
  /\ \A e : Has(z, e) <=> y = e \/ Has(s, e)
  /\ Bottom(z) = Bottom(s)

LEMMA UserTrap ==
  ASSUME NEW c \in CPUs, NEW t, NEW s, View(c, t, s), Nth(s, 1)[1] \in User,
         NEW cause \in Causes, cause = "ecall" => Nth(s, 1)[1] = "ecall",
         NEW y, y = <<hw[c].stvec, cause>>, NEW z, z = Add(y, s),
         NEW r, r = TrapRegisters(c, t, Nth(s, 1))
  PROVE  Trapped(c, t, s, z, r, y)
<1> DEFINE f == Nth(s, 1)
           g == Nth(s, 2)
<1>1. /\ Stack(t, s) /\ Onto(t, f, g, Nth(s, 3)) /\ (Len(s) > 1 <=> g[1] # "none")
      /\ hw[c] \in Registers /\ Regs(c, t, s, hw[c], cpu[c], tf[t]) /\ f \in Frame /\ t \in Threads
      /\ cpu[c] \in CpuStruct
  BY DEF View
<1>2. t \in Procs /\ g[1] = "none" /\ f[1] # "none"
  BY <1>1, LabelOf DEF Onto, OfProcess
<1>3. hw[c].stvec = "uservec"
  BY <1>1 DEF Regs
<1>4. y \in Frame /\ y[1] = "uservec" /\ y[2] = cause /\ y # <<"killed", "ecall">>
  BY <1>3, Made
<1>5. Onto(t, y, f, g)
  BY <1>2, <1>4 DEF Onto, OfProcess, User, PauseLabels, TrapEntry, TrapExit, OfScheduler, OfDevice,
     Handlers
<1>6. /\ Stack(t, z)
      /\ Nth(z, 1) = y /\ Nth(z, 2) = f
      /\ \A L : HasOf(z, L) <=> y[1] \in L \/ HasOf(s, L)
      /\ \A e : Has(z, e) <=> y = e \/ Has(s, e)
      /\ Bottom(z) = Bottom(s)
  <2>1. y[1] \notin Handlers
    BY <1>4 DEF Handlers
  <2>2. QED
    BY <1>1, <1>4, <1>5, <2>1, Enter
<1>7. ~HasOf(z, Handlers) /\ ~Has(z, <<"killed", "ecall">>)
  <2>1. (\A L : ~HasOf(Tail(s), L)) /\ (\A e : ~Has(Tail(s), e))
    BY <1>1, <1>2, Single DEF Stack
  <2>2. f # <<"killed", "ecall">>
    BY DEF User
  <2>3. QED
    BY <1>4, <1>6, <2>1, <2>2 DEF View, Handlers, User
<1>8. r \in Registers /\ r = [hw[c] EXCEPT !.sepc = <<t, f[1]>>, !.spp = "user", !.spie = hw[c].sie, !.sie = FALSE]
  <2>1. <<t, f[1]>> \in Pc
    BY <1>1, LabelOf DEF Pc
  <2> HIDE DEF f
  <2>2. r = [hw[c] EXCEPT !.sepc = <<t, f[1]>>, !.spp = "user", !.spie = hw[c].sie, !.sie = FALSE]
    BY DEF TrapRegisters, f
  <2>3. QED
    BY <1>1, <2>1, <2>2 DEF Registers, Modes
<1>9. SameFrames(s, z)
  BY <1>4, <1>6 DEF SameFrames, TrapExit, PauseLabels
<1>10. SameLocks(t, s, z)
  BY <1>4, <1>6 DEF SameLocks, Held, User
<1>11. Regs(c, t, z, r, cpu[c], tf[t])
  <2>1. Depth(y, f) = 0 /\ Depth(f, g) = 0
    BY <1>4 DEF Depth, User
  <2>2. f[1] \in User
    OBVIOUS
  <2> HIDE DEF f, g
  <2>3. /\ r.sepc = <<t, f[1]>> /\ r.spp = "user" /\ ~r.sie
        /\ r.stvec = "uservec" /\ tf[t].hartid = c /\ cpu[c].noff = 0
    BY <1>1, <1>3, <1>8, <2>1, <2>2 DEF Registers, Regs, f, g
  <2>4. QED
    BY <1>4, <1>6, <1>7, <2>1, <2>3 DEF Regs, User, TrapEntry
<1>12. f[1] \in Open
  BY DEF Open
<1>13. QED
  BY <1>4, <1>6, <1>8, <1>9, <1>10, <1>11, <1>12 DEF Trapped

LEMMA KernelTrap ==
  ASSUME NEW c \in CPUs, NEW t, NEW s, View(c, t, s), Nth(s, 1)[1] \notin User, hw[c].sie,
         NEW cause \in Causes, cause # "ecall",
         NEW y, y = <<hw[c].stvec, cause>>, NEW z, z = Add(y, s),
         NEW r, r = TrapRegisters(c, t, Nth(s, 1))
  PROVE  Trapped(c, t, s, z, r, y)
<1> DEFINE f == Nth(s, 1)
           g == Nth(s, 2)
<1>1. /\ Stack(t, s) /\ Onto(t, f, g, Nth(s, 3))
      /\ hw[c] \in Registers /\ Regs(c, t, s, hw[c], cpu[c], tf[t]) /\ f \in Frame /\ t \in Threads
      /\ cpu[c] \in CpuStruct
  BY DEF View
<1>2. cpu[c].noff = 0 /\ f[1] \in Open /\ Depth(f, g) = 0 /\ ~HasOf(s, Handlers)
  BY <1>1 DEF Regs
<1>3. f[1] = "acquire" => g[1] # "release"
  BY <1>2 DEF Depth
<1>4. hw[c].stvec = "kernelvec" /\ hw[c].tp = c
  BY <1>1, <1>2 DEF Regs, Open, User
<1>5. y \in Frame /\ y[1] = "kernelvec" /\ y[2] = cause /\ y # <<"killed", "ecall">>
  BY <1>4, Made
<1>6. Onto(t, y, f, g)
  BY <1>2, <1>3, <1>5 DEF Onto, OfProcess, User, PauseLabels, TrapEntry, TrapExit, OfScheduler,
     OfDevice, Handlers
<1>7. /\ Stack(t, z)
      /\ Nth(z, 1) = y /\ Nth(z, 2) = f
      /\ \A L : HasOf(z, L) <=> y[1] \in L \/ HasOf(s, L)
      /\ \A e : Has(z, e) <=> y = e \/ Has(s, e)
      /\ Bottom(z) = Bottom(s)
  BY <1>1, <1>2, <1>5, <1>6, Enter
<1>8. HasOf(z, Handlers)
  BY <1>5, <1>7 DEF Handlers
<1>9. r \in Registers /\ r = [hw[c] EXCEPT !.sepc = <<t, f[1]>>, !.spp = "supervisor", !.spie = TRUE, !.sie = FALSE]
  <2>1. <<t, f[1]>> \in Pc
    BY <1>1, LabelOf DEF Pc
  <2>2. hw[c].sie = TRUE
    BY <1>1 DEF Registers
  <2> HIDE DEF f
  <2>3. r = [hw[c] EXCEPT !.sepc = <<t, f[1]>>, !.spp = "supervisor", !.spie = TRUE, !.sie = FALSE]
    BY <2>2 DEF TrapRegisters, f
  <2>4. QED
    BY <1>1, <2>1, <2>3 DEF Registers, Modes
<1>10. SameFrames(s, z)
  BY <1>5, <1>7 DEF SameFrames, TrapExit, PauseLabels
<1>11. SameLocks(t, s, z)
  BY <1>2, <1>3, <1>5, <1>7 DEF SameLocks, Held, Open, User
<1>12. Regs(c, t, z, r, cpu[c], tf[t])
  <2>1. Depth(y, f) = 0
    BY <1>5 DEF Depth
  <2> HIDE DEF f, g
  <2>2. /\ r.sepc = <<t, f[1]>> /\ r.spp = "supervisor" /\ r.spie /\ ~r.sie
        /\ r.stvec = "kernelvec" /\ r.tp = c
    BY <1>1, <1>4, <1>9 DEF Registers
  <2>3. QED
    BY <1>2, <1>5, <1>7, <1>8, <2>1, <2>2 DEF Regs, User, TrapEntry
<1>13. QED
  BY <1>2, <1>5, <1>7, <1>9, <1>10, <1>11, <1>12 DEF Trapped

LEMMA TrapTaken ==
  ASSUME IInv, NEW c \in CPUs, NEW t, t = cur[c], NEW s, s = stk[t],
         NEW cause \in Causes, Interruptible(c), Trap(c, cause), cause = "ecall" => Nth(s, 1)[1] = "ecall",
         NEW y, y = <<hw[c].stvec, cause>>, NEW z, z = Add(y, s),
         NEW r, r = TrapRegisters(c, t, Nth(s, 1))
  PROVE  /\ View(c, t, s) /\ Trapped(c, t, s, z, r, y)
         /\ stk' = [stk EXCEPT ![t] = z] /\ hw' = [hw EXCEPT ![c] = r] /\ lock' = lock
         /\ UNCHANGED <<cpu, cur, state, tf, ticks, plic>>
<1> DEFINE f == Nth(s, 1)
<1>1. View(c, t, s)
  BY Running
<1>2. Top(c) = f /\ (InUser(c) <=> f[1] \in User)
  BY <1>1 DEF View, InUser, At, User
<1>3. f[1] \in User \/ hw[c].sie
  BY <1>2 DEF Interruptible
<1>4. Trapped(c, t, s, z, r, y)
  <2>1. CASE f[1] \in User
    BY <1>1, <2>1, UserTrap
  <2>2. CASE f[1] \notin User
    <3>1. cause # "ecall"
      BY <2>2 DEF User
    <3>2. QED
      BY <1>1, <1>3, <2>2, <3>1, KernelTrap
  <2>3. QED
    BY <2>1, <2>2
<1>5. stk' = [stk EXCEPT ![t] = z] /\ lock' = lock /\ UNCHANGED <<cpu, cur, state, tf, ticks, plic>>
  BY DEF Trap, Add
<1>6. hw' = [hw EXCEPT ![c] = r]
  BY <1>2 DEF Trap, TrapRegisters
<1>7. QED
  BY <1>1, <1>4, <1>5, <1>6

LEMMA InterruptStep ==
  ASSUME IInv, NEW c \in CPUs, NEW t, t = cur[c], NEW s, s = stk[t],
         NEW cause \in {"timer", "external"}, Interruptible(c), Trap(c, cause), pause' = pause
  PROVE  IInv'
<1> DEFINE y == <<hw[c].stvec, cause>>
           z == Add(y, s)
           r == TrapRegisters(c, t, Nth(s, 1))
<1>1. cause \in Causes /\ cause # "ecall" /\ y = <<hw[c].stvec, cause>> /\ z = Add(y, s) /\ r = TrapRegisters(c, t, Nth(s, 1))
  BY DEF Causes
<1> HIDE DEF y, z, r
<1>2. /\ View(c, t, s) /\ Trapped(c, t, s, z, r, y)
      /\ stk' = [stk EXCEPT ![t] = z] /\ hw' = [hw EXCEPT ![c] = r] /\ lock' = lock
      /\ UNCHANGED <<cpu, cur, state, tf, ticks, plic>>
  BY <1>1, TrapTaken
<1>3. Moves(c, t, z, r, cpu[c])
  BY <1>2 DEF Moves, IInv, Types
<1>4. Quiet(c, t, s, z, r, cpu[c])
  BY <1>2, <1>3 DEF Quiet, Trapped, View, Open, User
<1>5. QED
  BY <1>4, QuietStep
\* Process t leaves the stack z, the registers r, and its state x, trapframe u and pause w.
MovesOf(c, t, z, r, x, u, w) ==
  /\ stk' = [stk EXCEPT ![t] = z] /\ hw' = [hw EXCEPT ![c] = r]
  /\ state' = [state EXCEPT ![t] = x] /\ tf' = [tf EXCEPT ![t] = u] /\ pause' = [pause EXCEPT ![t] = w]
  /\ UNCHANGED <<cpu, cur, lock, ticks, plic>>
StateOf == [state : States, killed : BOOLEAN]
FrameOf == [hartid : CPUs, epc : Pc]
PauseOf == [n : Int, ticks0 : 0..(UINT - 1), passed : 0..UINT]
Local(c, t, s, z, r, x, u, w) ==
  /\ t \in Procs /\ Stack(t, z) /\ SameLocks(t, s, z)
  /\ r \in Registers /\ x \in StateOf /\ u \in FrameOf /\ w \in PauseOf /\ MovesOf(c, t, z, r, x, u, w)
  /\ Nth(s, 1)[1] # "plic_complete" /\ Nth(z, 1)[1] # "plic_complete"
  /\ Regs(c, t, z, r, cpu[c], u) /\ Keeps(t, z, x, u) /\ Pausing(z, w, x.killed, ticks)
  /\ x.state = "RUNNING" \/ Nth(z, 1)[1] = "sched"

LEMMA ProcStep ==
  ASSUME IInv, NEW c \in CPUs, NEW t, t = cur[c], NEW s, s = stk[t],
         NEW z, NEW r, NEW x, NEW u, NEW w, Local(c, t, s, z, r, x, u, w)
  PROVE  IInv'
<1> USE DEF Local
<1>1. /\ hw \in [CPUs -> Registers] /\ cpu \in [CPUs -> CpuStruct] /\ lock \in [Locks -> CPUs \cup {Nobody}]
      /\ cur \in [CPUs -> Threads] /\ stk \in [Threads -> Seq(Frame)] /\ t \in Threads
      /\ state \in [Procs -> StateOf] /\ tf \in [Procs -> FrameOf] /\ pause \in [Procs -> PauseOf]
      /\ ticks \in 0..(UINT - 1) /\ plic \in [Irqs -> {"quiet", "pending", "claimed"}]
  BY DEF IInv, Types, StateOf, FrameOf, PauseOf
<1>2. /\ stk' = [stk EXCEPT ![t] = z] /\ cur' = cur /\ ticks' = ticks /\ plic' = plic
      /\ lock' = lock /\ cpu' = cpu
  BY DEF MovesOf
<1>3. /\ hw'[c] = r /\ state'[t] = x /\ tf'[t] = u /\ pause'[t] = w
      /\ \A d \in CPUs : d # c => hw'[d] = hw[d] /\ cpu'[d] = cpu[d]
      /\ \A p \in Procs : p # t => tf'[p] = tf[p] /\ state'[p] = state[p] /\ pause'[p] = pause[p]
  BY <1>1 DEF MovesOf
<1>4. Types'
  <2>1. z \in Seq(Frame)
    BY DEF Stack
  <2>2. hw' \in [CPUs -> Registers] /\ stk' \in [Threads -> Seq(Frame)]
    BY <1>1, <2>1 DEF MovesOf
  <2>3. state' \in [Procs -> StateOf] /\ tf' \in [Procs -> FrameOf] /\ pause' \in [Procs -> PauseOf]
    BY <1>1 DEF MovesOf
  <2>4. QED
    BY <1>1, <1>2, <2>2, <2>3 DEF Types, StateOf, FrameOf, PauseOf
<1>5. \A l \in Locks : lock'[l] = lock[l] \/ {lock[l], lock'[l]} \subseteq {c, Nobody}
  BY <1>2
<1>6. \A l \in Locks : lock'[l] = c <=> l \in Held(t, Nth(z, 1), Nth(z, 2))
  <2>1. View(c, t, s)
    BY Running
  <2>2. QED
    BY <1>2, <2>1 DEF View, SameLocks
<1>7. Regs(c, t, z, hw'[c], cpu'[c], tf'[t])
  BY <1>2, <1>3
<1>8. t \in Procs => /\ Keeps(t, z, state'[t], tf'[t])
                     /\ Pausing(z, pause'[t], state'[t].killed, ticks)
                     /\ state'[t].state = "RUNNING" \/ Nth(z, 1)[1] = "sched"
  BY <1>3
<1>9. /\ \A d \in CPUs : d # c => hw'[d] = hw[d] /\ cpu'[d] = cpu[d]
      /\ \A p \in Procs : p # t => tf'[p] = tf[p] /\ state'[p] = state[p] /\ pause'[p] = pause[p]
      /\ cur' = cur /\ ticks' = ticks /\ plic' = plic
  BY <1>2, <1>3
<1>10. /\ IInv /\ t = cur[c] /\ Stack(t, z) /\ stk' = [stk EXCEPT ![t] = z]
       /\ Nth(stk[t], 1)[1] # "plic_complete" /\ Nth(z, 1)[1] # "plic_complete"
  BY <1>2
<1> HIDE DEF Local
<1>11. QED
  BY ONLY c \in CPUs, <1>4, <1>5, <1>6, <1>7, <1>8, <1>9, <1>10, LocalStep, ZenonT(60)
\* What process t has, when it runs.
LEMMA RunningProcess ==
  ASSUME IInv, NEW c \in CPUs, NEW t, t = cur[c], t \in Procs
  PROVE  state[t] \in StateOf /\ tf[t] \in FrameOf /\ pause[t] \in PauseOf
  BY DEF IInv, Types, StateOf, FrameOf, PauseOf

\* A system call stands on the user program.
LEMMA CallBelow ==
  ASSUME NEW t, NEW s, Stack(t, s), Nth(s, 2)[1] = "killed"
  PROVE  /\ Nth(s, 3)[1] \in User
         /\ \A L : HasOf(Tail(s), L) <=> "killed" \in L \/ Nth(s, 3)[1] \in L
         /\ Bottom(s) = Nth(s, 3)
<1> DEFINE q == Put0(s)
<1>1. s \in Seq(Frame) /\ Len(s) > 0
  BY DEF Stack
<1>2. Len(s) > 1
  BY <1>1, TopAndRest
<1>3. /\ Stack(t, q) /\ Nth(q, 1) = Nth(s, 2) /\ Nth(q, 2) = Nth(s, 3)
      /\ \A L : HasOf(q, L) <=> HasOf(Tail(s), L)
      /\ Bottom(q) = Bottom(s)
  BY <1>2, Pop
<1> HIDE DEF q
<1>4. q \in Seq(Frame) /\ Len(q) > 0
  BY <1>3 DEF Stack
<1>5. Nth(q, 1) = q[1] /\ Len(q) \in Nat /\ \A L : HasOf(q, L) <=> q[1][1] \in L \/ HasOf(Tail(q), L)
  BY <1>4, TopAndRest
<1>6. Nth(q, 2)[1] \in User
  <2>1. 1 \in 1..Len(q) /\ 1 + 1 = 2 /\ 1 + 2 = 3
    BY <1>4, <1>5
  <2>2. Onto(t, q[1], Nth(q, 2), Nth(q, 3))
    BY <1>3, <2>1 DEF Stack
  <2>3. QED
    BY <1>3, <1>5, <2>2 DEF Onto, OfProcess, TrapExit
<1>7. (\A L : HasOf(Tail(q), L) <=> Nth(q, 2)[1] \in L) /\ Bottom(q) = Nth(q, 2)
  BY <1>3, <1>6, UserBelow
<1>8. QED
  BY <1>3, <1>5, <1>6, <1>7
LEMMA YieldStep ==
  ASSUME IInv, NEW c \in CPUs, NEW t, t = cur[c], NEW s, s = stk[t], yield(c)
  PROVE  IInv'
<1> DEFINE f == Nth(s, 1)
           g == Nth(s, 2)
           h == Nth(s, 3)
           x == <<"sched">>
           y == <<"release", t>>
           z == Put2(x, y, s)
           r == hw[c]
           st == [state[t] EXCEPT !.state = "RUNNABLE"]
           tr == tf[t]
           pz == pause[t]
<1>1. View(c, t, s)
  BY Running
<1>2. f[1] = "yield" /\ cpuid(c) = c
  BY <1>1 DEF yield, At, View, Regs, User, cpuid
<1>3. Stack(t, s) /\ Onto(t, f, g, h) /\ (Len(s) > 1 <=> g[1] # "none")
  BY <1>1 DEF View
<1>4. /\ t \in Procs
      /\ g[1] \in {"prepare_return", "restore"}
      /\ g[1] # "none"
  BY <1>2, <1>3 DEF Onto, OfProcess, User, PauseLabels, TrapEntry, TrapExit, OfScheduler, OfDevice,
     Handlers
<1>c. /\ hw[c] \in Registers /\ cpu[c] \in CpuStruct /\ Regs(c, t, s, hw[c], cpu[c], tf[t])
      /\ Keeps(t, s, state[t], tf[t]) /\ Pausing(s, pause[t], state[t].killed, ticks)
      /\ f[1] = "sched" \/ state[t].state = "RUNNING"
      /\ state[t] \in StateOf /\ tf[t] \in FrameOf /\ pause[t] \in PauseOf
  BY <1>1, <1>4, RunningProcess DEF View
<1>d. stk' = [stk EXCEPT ![t] = z]
  <2>1. stk' = [stk EXCEPT ![t] = (<<<<"sched">>>> \o <<<<"release", t>>>>) \o Tail(@)]
    BY <1>1, <1>2 DEF yield, Then, View, myproc, Sched
  <2>2. <<<<"sched">>>> \o <<<<"release", t>>>> = <<x, y>>
    BY Joined
  <2>3. QED
    BY <2>1, <2>2 DEF Put2
<1>5. /\ x \in Frame /\ x[1] = "sched"
      /\ y \in Frame /\ y[1] = "release"
  BY <1>1, <1>2, <1>4, Made DEF Bare, Causes, User, PauseLabels, Locks
<1>o. Onto(t, x, y, g) /\ Onto(t, y, g, h)
  BY <1>1, <1>2, <1>3, <1>4, <1>5 DEF Onto, OfProcess, User, PauseLabels, TrapEntry, TrapExit,
     OfScheduler, OfDevice, Handlers
<1>6. MovesOf(c, t, z, r, st, tr, pz)
  BY <1>1, <1>2, <1>d DEF yield, Then, MovesOf, View, Put2, IInv, Types, regs, clock, myproc, Sched
<1>7. r \in Registers
  BY <1>1, <1>2, <1>4, <1>c DEF Registers, FrameOf
<1>8. /\ st \in StateOf /\ st.state = "RUNNABLE" /\ st.killed = state[t].killed
      /\ tr \in FrameOf
      /\ pz \in PauseOf
  BY <1>c DEF StateOf, States, FrameOf, PauseOf
<1> HIDE DEF x, y, st
<1>9. /\ Stack(t, z)
      /\ Nth(z, 1) = x /\ Nth(z, 2) = y
      /\ \A L : HasOf(z, L) <=> x[1] \in L \/ y[1] \in L \/ HasOf(Tail(s), L)
      /\ \A e : Has(z, e) <=> x = e \/ y = e \/ Has(Tail(s), e)
      /\ Len(s) > 1 => Bottom(z) = Bottom(s)
  <2>1. Stack(t, s) /\ x[1] \notin Handlers /\ y[1] \notin Handlers
    BY <1>3, <1>5 DEF Handlers
  <2>2. QED
    BY <1>5, <1>o, <2>1, Push2
<1> HIDE DEF z
<1>10. SameLocks(t, s, z)
  BY <1>2, <1>4, <1>5, <1>9 DEF SameLocks, Held, User, Open, PauseLabels
<1>11. Regs(c, t, z, r, cpu[c], tr)
  <2>1. /\ HasOf(z, Handlers) <=> HasOf(s, Handlers)
        /\ Has(z, <<"killed", "ecall">>) <=> Has(s, <<"killed", "ecall">>)
    BY <1>1, <1>2, <1>4, <1>5, <1>9 DEF View, Handlers, User
  <2>2. Depth(x, y) = Depth(f, g)
    BY <1>2, <1>4, <1>5 DEF Depth, User, Open, PauseLabels
  <2> HIDE DEF f, g, h
  <2>3. QED
    BY <1>2, <1>4, <1>5, <1>7, <1>8, <1>9, <1>c, <2>1, <2>2 DEF Regs, f, g, h, Registers, CpuStruct,
       User, TrapEntry, Open, PauseLabels
<1>12. Keeps(t, z, st, tr)
  BY <1>1, <1>2, <1>3, <1>4, <1>5, <1>8, <1>9, <1>c DEF View, Keeps, TrapExit, User
<1>13. Pausing(z, pz, st.killed, ticks)
  BY <1>1, <1>2, <1>4, <1>5, <1>8, <1>9, <1>c DEF View, Pausing, PauseLabels, User
<1>14. Local(c, t, s, z, r, st, tr, pz)
  <2>1. /\ Nth(s, 1)[1] # "plic_complete" /\ Nth(z, 1)[1] # "plic_complete"
        /\ st.state = "RUNNING" \/ Nth(z, 1)[1] = "sched"
    BY <1>2, <1>5, <1>8, <1>9, <1>c DEF User, Open, PauseLabels
  <2>2. QED
    BY <1>4, <1>6, <1>7, <1>8, <1>9, <1>10, <1>11, <1>12, <1>13, <2>1 DEF Local
<1>15. QED
  BY <1>14, ProcStep

LEMMA KexitStep ==
  ASSUME IInv, NEW c \in CPUs, NEW t, t = cur[c], NEW s, s = stk[t], kexit(c)
  PROVE  IInv'
<1> DEFINE f == Nth(s, 1)
           g == Nth(s, 2)
           h == Nth(s, 3)
           x == <<"sched">>
           z == Put1(x, s)
           r == hw[c]
           st == [state[t] EXCEPT !.state = "ZOMBIE"]
           tr == tf[t]
           pz == pause[t]
<1>1. View(c, t, s)
  BY Running
<1>2. f[1] = "kexit" /\ cpuid(c) = c
  BY <1>1 DEF kexit, At, View, Regs, User, cpuid
<1>3. Stack(t, s) /\ Onto(t, f, g, h) /\ (Len(s) > 1 <=> g[1] # "none")
  BY <1>1 DEF View
<1>4. /\ t \in Procs
      /\ g[1] \in User /\ g[1] # "none"
  BY <1>2, <1>3 DEF Onto, OfProcess, User, PauseLabels, TrapEntry, TrapExit, OfScheduler, OfDevice,
     Handlers
<1>b. /\ \A L : HasOf(Tail(s), L) <=> g[1] \in L
      /\ ~Has(Tail(s), <<"killed", "ecall">>) /\ Bottom(s) = g
  BY <1>3, <1>4, UserBelow
<1>c. /\ hw[c] \in Registers /\ cpu[c] \in CpuStruct /\ Regs(c, t, s, hw[c], cpu[c], tf[t])
      /\ Keeps(t, s, state[t], tf[t]) /\ Pausing(s, pause[t], state[t].killed, ticks)
      /\ f[1] = "sched" \/ state[t].state = "RUNNING"
      /\ state[t] \in StateOf /\ tf[t] \in FrameOf /\ pause[t] \in PauseOf
  BY <1>1, <1>4, RunningProcess DEF View
<1>5. /\ x \in Frame /\ x[1] = "sched"
  BY <1>1, <1>2, <1>4, Made DEF Bare, Causes, User, PauseLabels, Locks
<1>o. Onto(t, x, g, h)
  BY <1>1, <1>2, <1>3, <1>4, <1>5 DEF Onto, OfProcess, User, PauseLabels, TrapEntry, TrapExit,
     OfScheduler, OfDevice, Handlers
<1>6. MovesOf(c, t, z, r, st, tr, pz)
  BY <1>1, <1>2 DEF kexit, Then, MovesOf, View, Put1, IInv, Types, regs, clock, myproc, Sched
<1>7. r \in Registers
  BY <1>1, <1>2, <1>4, <1>c DEF Registers, FrameOf
<1>8. /\ st \in StateOf /\ st.state = "ZOMBIE" /\ st.killed = state[t].killed
      /\ tr \in FrameOf
      /\ pz \in PauseOf
  BY <1>c DEF StateOf, States, FrameOf, PauseOf
<1> HIDE DEF x, st
<1>9. /\ Stack(t, z)
      /\ Nth(z, 1) = x /\ Nth(z, 2) = g
      /\ \A L : HasOf(z, L) <=> x[1] \in L \/ HasOf(Tail(s), L)
      /\ \A e : Has(z, e) <=> x = e \/ Has(Tail(s), e)
      /\ Len(s) > 1 => Bottom(z) = Bottom(s)
  <2>1. Stack(t, s) /\ x[1] \notin Handlers
    BY <1>3, <1>5 DEF Handlers
  <2>2. QED
    BY <1>5, <1>o, <2>1, Push1
<1> HIDE DEF z
<1>10. SameLocks(t, s, z)
  BY <1>2, <1>4, <1>5, <1>9 DEF SameLocks, Held, User, Open, PauseLabels
<1>11. Regs(c, t, z, r, cpu[c], tr)
  <2>1. /\ ~HasOf(z, Handlers)
        /\ ~Has(z, <<"killed", "ecall">>)
    BY <1>1, <1>2, <1>4, <1>5, <1>9, <1>b DEF View, Handlers, User
  <2>2. Depth(x, g) = Depth(f, g)
    BY <1>2, <1>4, <1>5 DEF Depth, User, Open, PauseLabels
  <2> HIDE DEF f, g, h
  <2>3. QED
    BY <1>2, <1>4, <1>5, <1>7, <1>8, <1>9, <1>c, <2>1, <2>2 DEF Regs, f, g, h, Registers, CpuStruct,
       User, TrapEntry, Open, PauseLabels
<1>12. Keeps(t, z, st, tr)
  BY <1>1, <1>2, <1>3, <1>4, <1>5, <1>8, <1>9, <1>c, <1>b DEF View, Keeps, TrapExit, User
<1>13. Pausing(z, pz, st.killed, ticks)
  BY <1>1, <1>2, <1>4, <1>5, <1>8, <1>9, <1>c, <1>b DEF View, Pausing, PauseLabels, User
<1>14. Local(c, t, s, z, r, st, tr, pz)
  <2>1. /\ Nth(s, 1)[1] # "plic_complete" /\ Nth(z, 1)[1] # "plic_complete"
        /\ st.state = "RUNNING" \/ Nth(z, 1)[1] = "sched"
    BY <1>2, <1>5, <1>8, <1>9, <1>c DEF User, Open, PauseLabels
  <2>2. QED
    BY <1>4, <1>6, <1>7, <1>8, <1>9, <1>10, <1>11, <1>12, <1>13, <2>1 DEF Local
<1>15. QED
  BY <1>14, ProcStep

LEMMA AsleepStep ==
  ASSUME IInv, NEW c \in CPUs, NEW t, t = cur[c], NEW s, s = stk[t], asleep(c)
  PROVE  IInv'
<1> DEFINE f == Nth(s, 1)
           g == Nth(s, 2)
           h == Nth(s, 3)
           x == <<"sched">>
           y == <<"release", t>>
           v == <<"acquire", "tickslock">>
           z == Put3(x, y, v, s)
           r == hw[c]
           st == [state[t] EXCEPT !.state = "SLEEPING"]
           tr == tf[t]
           pz == pause[t]
<1>1. View(c, t, s)
  BY Running
<1>2. f[1] = "asleep" /\ cpuid(c) = c
  BY <1>1 DEF asleep, At, View, Regs, User, cpuid
<1>3. Stack(t, s) /\ Onto(t, f, g, h) /\ (Len(s) > 1 <=> g[1] # "none")
  BY <1>1 DEF View
<1>4. /\ t \in Procs
      /\ g[1] = "pause_loop"
  BY <1>2, <1>3 DEF Onto, OfProcess, User, PauseLabels, TrapEntry, TrapExit, OfScheduler, OfDevice,
     Handlers
<1>c. /\ hw[c] \in Registers /\ cpu[c] \in CpuStruct /\ Regs(c, t, s, hw[c], cpu[c], tf[t])
      /\ Keeps(t, s, state[t], tf[t]) /\ Pausing(s, pause[t], state[t].killed, ticks)
      /\ f[1] = "sched" \/ state[t].state = "RUNNING"
      /\ state[t] \in StateOf /\ tf[t] \in FrameOf /\ pause[t] \in PauseOf
  BY <1>1, <1>4, RunningProcess DEF View
<1>d. stk' = [stk EXCEPT ![t] = z]
  <2>1. stk' = [stk EXCEPT ![t] = (<<<<"sched">>>> \o <<<<"release", t>>, <<"acquire", "tickslock">>>>) \o Tail(@)]
    BY <1>1, <1>2 DEF asleep, Then, View, myproc, Sched
  <2>2. <<<<"sched">>>> \o <<<<"release", t>>, <<"acquire", "tickslock">>>> = <<x, y, v>>
    BY JoinedThree
  <2>3. QED
    BY <2>1, <2>2 DEF Put3
<1>5. /\ x \in Frame /\ x[1] = "sched"
      /\ y \in Frame /\ y[1] = "release"
      /\ v \in Frame /\ v[1] = "acquire"
  BY <1>1, <1>2, <1>4, Made DEF Bare, Causes, User, PauseLabels, Locks
<1>o. Onto(t, x, y, v) /\ Onto(t, y, v, g) /\ Onto(t, v, g, h)
  BY <1>1, <1>2, <1>3, <1>4, <1>5 DEF Onto, OfProcess, User, PauseLabels, TrapEntry, TrapExit,
     OfScheduler, OfDevice, Handlers
<1>6. MovesOf(c, t, z, r, st, tr, pz)
  BY <1>1, <1>2, <1>d DEF asleep, Then, MovesOf, View, Put3, IInv, Types, regs, clock, myproc, Sched
<1>7. r \in Registers
  BY <1>1, <1>2, <1>4, <1>c DEF Registers, FrameOf
<1>8. /\ st \in StateOf /\ st.state = "SLEEPING" /\ st.killed = state[t].killed
      /\ tr \in FrameOf
      /\ pz \in PauseOf
  BY <1>c DEF StateOf, States, FrameOf, PauseOf
<1> HIDE DEF x, y, v, st
<1>9. /\ Stack(t, z)
      /\ Nth(z, 1) = x /\ Nth(z, 2) = y
      /\ \A L : HasOf(z, L) <=> x[1] \in L \/ y[1] \in L \/ v[1] \in L \/ HasOf(Tail(s), L)
      /\ \A e : Has(z, e) <=> x = e \/ y = e \/ v = e \/ Has(Tail(s), e)
      /\ Len(s) > 1 => Bottom(z) = Bottom(s)
  <2>1. Stack(t, s) /\ x[1] \notin Handlers /\ y[1] \notin Handlers /\ v[1] \notin Handlers
    BY <1>3, <1>5 DEF Handlers
  <2>2. QED
    BY <1>5, <1>o, <2>1, Push3
<1> HIDE DEF z
<1>10. SameLocks(t, s, z)
  BY <1>2, <1>4, <1>5, <1>9 DEF SameLocks, Held, User, Open, PauseLabels
<1>11. Regs(c, t, z, r, cpu[c], tr)
  <2>1. /\ HasOf(z, Handlers) <=> HasOf(s, Handlers)
        /\ Has(z, <<"killed", "ecall">>) <=> Has(s, <<"killed", "ecall">>)
    BY <1>1, <1>2, <1>4, <1>5, <1>9 DEF View, Handlers, User
  <2>2. Depth(x, y) = Depth(f, g)
    BY <1>2, <1>4, <1>5 DEF Depth, User, Open, PauseLabels
  <2> HIDE DEF f, g, h
  <2>3. QED
    BY <1>2, <1>4, <1>5, <1>7, <1>8, <1>9, <1>c, <2>1, <2>2 DEF Regs, f, g, h, Registers, CpuStruct,
       User, TrapEntry, Open, PauseLabels
<1>12. Keeps(t, z, st, tr)
  BY <1>1, <1>2, <1>3, <1>4, <1>5, <1>8, <1>9, <1>c DEF View, Keeps, TrapExit, User
<1>13. Pausing(z, pz, st.killed, ticks)
  <2>1. SameFrames(s, z)
    BY <1>1, <1>2, <1>3, <1>4, <1>5, <1>9 DEF View, SameFrames, User, TrapExit, PauseLabels
  <2>2. QED
    BY <1>8, <1>c, <2>1 DEF Pausing, SameFrames
<1>14. Local(c, t, s, z, r, st, tr, pz)
  <2>1. /\ Nth(s, 1)[1] # "plic_complete" /\ Nth(z, 1)[1] # "plic_complete"
        /\ st.state = "RUNNING" \/ Nth(z, 1)[1] = "sched"
    BY <1>2, <1>5, <1>8, <1>9, <1>c DEF User, Open, PauseLabels
  <2>2. QED
    BY <1>4, <1>6, <1>7, <1>8, <1>9, <1>10, <1>11, <1>12, <1>13, <2>1 DEF Local
<1>15. QED
  BY <1>14, ProcStep

LEMMA PrepareRegsStep ==
  ASSUME IInv, NEW c \in CPUs, NEW t, t = cur[c], NEW s, s = stk[t], prepare_regs(c)
  PROVE  IInv'
<1> DEFINE f == Nth(s, 1)
           g == Nth(s, 2)
           h == Nth(s, 3)
           x == <<"userret">>
           z == Put1(x, s)
           r == [hw[c] EXCEPT !.stvec = "uservec", !.spp = "user", !.spie = TRUE, !.sepc = tf[t].epc]
           st == state[t]
           tr == [tf[t] EXCEPT !.hartid = c]
           pz == pause[t]
<1>1. View(c, t, s)
  BY Running
<1>2. f[1] = "prepare_regs" /\ cpuid(c) = c
  BY <1>1 DEF prepare_regs, At, View, Regs, User, cpuid
<1>3. Stack(t, s) /\ Onto(t, f, g, h) /\ (Len(s) > 1 <=> g[1] # "none")
  BY <1>1 DEF View
<1>4. /\ t \in Procs
      /\ g[1] \in User /\ g[1] # "none"
  BY <1>2, <1>3 DEF Onto, OfProcess, User, PauseLabels, TrapEntry, TrapExit, OfScheduler, OfDevice,
     Handlers
<1>b. /\ \A L : HasOf(Tail(s), L) <=> g[1] \in L
      /\ ~Has(Tail(s), <<"killed", "ecall">>) /\ Bottom(s) = g
  BY <1>3, <1>4, UserBelow
<1>c. /\ hw[c] \in Registers /\ cpu[c] \in CpuStruct /\ Regs(c, t, s, hw[c], cpu[c], tf[t])
      /\ Keeps(t, s, state[t], tf[t]) /\ Pausing(s, pause[t], state[t].killed, ticks)
      /\ f[1] = "sched" \/ state[t].state = "RUNNING"
      /\ state[t] \in StateOf /\ tf[t] \in FrameOf /\ pause[t] \in PauseOf
  BY <1>1, <1>4, RunningProcess DEF View
<1>5. /\ x \in Frame /\ x[1] = "userret"
  BY <1>1, <1>2, <1>4, Made DEF Bare, Causes, User, PauseLabels, Locks
<1>o. Onto(t, x, g, h)
  BY <1>1, <1>2, <1>3, <1>4, <1>5 DEF Onto, OfProcess, User, PauseLabels, TrapEntry, TrapExit,
     OfScheduler, OfDevice, Handlers
<1>6. MovesOf(c, t, z, r, st, tr, pz)
  BY <1>1, <1>2 DEF prepare_regs, Then, MovesOf, View, Put1, IInv, Types, regs, clock, myproc
<1>7. r \in Registers /\ r = [hw[c] EXCEPT !.stvec = "uservec", !.spp = "user", !.spie = TRUE, !.sepc = tf[t].epc]
  BY <1>1, <1>2, <1>4, <1>c DEF Registers, FrameOf, Modes
<1>8. /\ st \in StateOf
      /\ tr \in FrameOf /\ tr.hartid = c /\ tr.epc = tf[t].epc
      /\ pz \in PauseOf
  BY <1>c DEF StateOf, States, FrameOf, PauseOf
<1> HIDE DEF x, r, tr
<1>9. /\ Stack(t, z)
      /\ Nth(z, 1) = x /\ Nth(z, 2) = g
      /\ \A L : HasOf(z, L) <=> x[1] \in L \/ HasOf(Tail(s), L)
      /\ \A e : Has(z, e) <=> x = e \/ Has(Tail(s), e)
      /\ Len(s) > 1 => Bottom(z) = Bottom(s)
  <2>1. Stack(t, s) /\ x[1] \notin Handlers
    BY <1>3, <1>5 DEF Handlers
  <2>2. QED
    BY <1>5, <1>o, <2>1, Push1
<1> HIDE DEF z
<1>10. SameLocks(t, s, z)
  BY <1>2, <1>4, <1>5, <1>9 DEF SameLocks, Held, User, Open, PauseLabels
<1>11. Regs(c, t, z, r, cpu[c], tr)
  <2>1. /\ ~HasOf(z, Handlers)
        /\ ~Has(z, <<"killed", "ecall">>)
    BY <1>1, <1>2, <1>4, <1>5, <1>9, <1>b DEF View, Handlers, User
  <2>2. Depth(x, g) = Depth(f, g)
    BY <1>2, <1>4, <1>5 DEF Depth, User, Open, PauseLabels
  <2> HIDE DEF f, g, h
  <2>3. QED
    BY <1>2, <1>4, <1>5, <1>7, <1>8, <1>9, <1>c, <2>1, <2>2 DEF Regs, f, g, h, Registers, CpuStruct,
       User, TrapEntry, Open, PauseLabels
<1>12. Keeps(t, z, st, tr)
  BY <1>1, <1>2, <1>3, <1>4, <1>5, <1>8, <1>9, <1>c, <1>b DEF View, Keeps, TrapExit, User
<1>13. Pausing(z, pz, st.killed, ticks)
  BY <1>1, <1>2, <1>4, <1>5, <1>8, <1>9, <1>c, <1>b DEF View, Pausing, PauseLabels, User
<1>14. Local(c, t, s, z, r, st, tr, pz)
  <2>1. /\ Nth(s, 1)[1] # "plic_complete" /\ Nth(z, 1)[1] # "plic_complete"
        /\ st.state = "RUNNING" \/ Nth(z, 1)[1] = "sched"
    BY <1>2, <1>5, <1>8, <1>9, <1>c DEF User, Open, PauseLabels
  <2>2. QED
    BY <1>4, <1>6, <1>7, <1>8, <1>9, <1>10, <1>11, <1>12, <1>13, <2>1 DEF Local
<1>15. QED
  BY <1>14, ProcStep
\* A number that is in range is its own remainder, and whole turns do not matter.
LEMMA ModSmall ==
  ASSUME NEW m \in Nat \ {0}, NEW x \in 0 .. m - 1
  PROVE  x % m = x
  OBVIOUS

LEMMA ModUnique ==
  ASSUME NEW m \in Nat \ {0}, NEW q \in Int, NEW r \in 0 .. m - 1
  PROVE  (q * m + r) % m = r
  OBVIOUS

LEMMA ModSplit ==
  ASSUME NEW m \in Nat \ {0}, NEW x \in Int
  PROVE  /\ x % m \in 0 .. m - 1
         /\ x \div m \in Int
         /\ x = (x \div m) * m + (x % m)
  OBVIOUS

LEMMA JoinedOn ==
  ASSUME NEW a, NEW b, NEW c
  PROVE  <<a, b>> \o <<c>> = <<a, b, c>> /\ <<>> \o <<c>> = <<c>>
<1> DEFINE S == {a, b, c}
           p == <<a, b>> \o <<c>>
           q == <<a, b, c>>
<1>1. p \in Seq(S) /\ q \in Seq(S)
  OBVIOUS
<1>2. Len(p) = 3 /\ p[1] = a /\ p[2] = b /\ p[3] = c /\ Len(q) = 3 /\ q[1] = a /\ q[2] = b /\ q[3] = c
  OBVIOUS
<1>0. <<>> \o <<c>> = <<c>>
  OBVIOUS
<1> HIDE DEF p, q, S
<1>3. \A i \in 1..3 : p[i] = q[i]
  BY <1>2
<1>4. p = q
  BY <1>1, <1>2, <1>3, SeqEqual
<1>5. QED
  BY <1>0, <1>4 DEF p, q
LEMMA KilledExitStep ==
  ASSUME IInv, NEW c \in CPUs, NEW t, t = cur[c], NEW s, s = stk[t], killed(c),
         state[myproc(c)].killed
  PROVE  IInv'
<1> DEFINE f == Nth(s, 1)
           g == Nth(s, 2)
           h == Nth(s, 3)
           x == <<"acquire", t>>
           y == <<"kexit">>
           z == Put2(x, y, s)
           r == hw[c]
           st == state[t]
           tr == tf[t]
           pz == [n |-> 0, ticks0 |-> 0, passed |-> 0]
<1>1. View(c, t, s)
  BY Running
<1>2. f[1] = "killed" /\ f[2] \in Causes /\ cpuid(c) = c
  BY <1>1, Arguments DEF killed, At, View, Regs, User, cpuid
<1>3. Stack(t, s) /\ Onto(t, f, g, h) /\ (Len(s) > 1 <=> g[1] # "none")
  BY <1>1 DEF View
<1>4. /\ t \in Procs
      /\ g[1] \in User /\ g[1] # "none"
  BY <1>2, <1>3 DEF Onto, OfProcess, User, PauseLabels, TrapEntry, TrapExit, OfScheduler, OfDevice,
     Handlers
<1>b. /\ \A L : HasOf(Tail(s), L) <=> g[1] \in L
      /\ ~Has(Tail(s), <<"killed", "ecall">>) /\ Bottom(s) = g
  BY <1>3, <1>4, UserBelow
<1>c. /\ hw[c] \in Registers /\ cpu[c] \in CpuStruct /\ Regs(c, t, s, hw[c], cpu[c], tf[t])
      /\ Keeps(t, s, state[t], tf[t]) /\ Pausing(s, pause[t], state[t].killed, ticks)
      /\ f[1] = "sched" \/ state[t].state = "RUNNING"
      /\ state[t] \in StateOf /\ tf[t] \in FrameOf /\ pause[t] \in PauseOf
  BY <1>1, <1>4, RunningProcess DEF View
<1>5. /\ x \in Frame /\ x[1] = "acquire"
      /\ y \in Frame /\ y[1] = "kexit"
  BY <1>1, <1>2, <1>4, Made DEF Bare, Causes, User, PauseLabels, Locks
<1>o. Onto(t, x, y, g) /\ Onto(t, y, g, h)
  BY <1>1, <1>2, <1>3, <1>4, <1>5 DEF Onto, OfProcess, User, PauseLabels, TrapEntry, TrapExit,
     OfScheduler, OfDevice, Handlers
<1>6. MovesOf(c, t, z, r, st, tr, pz)
  BY <1>1, <1>2 DEF killed, Then, MovesOf, View, Put2, IInv, Types, regs, clock, myproc, Exit,
     NoPause
<1>7. r \in Registers
  BY <1>1, <1>2, <1>4, <1>c DEF Registers, FrameOf
<1>8. /\ st \in StateOf
      /\ tr \in FrameOf
      /\ pz \in PauseOf /\ pz.n = 0 /\ pz.ticks0 = 0 /\ pz.passed = 0
  BY <1>c, Names DEF StateOf, States, FrameOf, PauseOf, AtLeastZero, Pausing
<1> HIDE DEF x, y, pz
<1>9. /\ Stack(t, z)
      /\ Nth(z, 1) = x /\ Nth(z, 2) = y
      /\ \A L : HasOf(z, L) <=> x[1] \in L \/ y[1] \in L \/ HasOf(Tail(s), L)
      /\ \A e : Has(z, e) <=> x = e \/ y = e \/ Has(Tail(s), e)
      /\ Len(s) > 1 => Bottom(z) = Bottom(s)
  <2>1. Stack(t, s) /\ x[1] \notin Handlers /\ y[1] \notin Handlers
    BY <1>3, <1>5 DEF Handlers
  <2>2. QED
    BY <1>5, <1>o, <2>1, Push2
<1> HIDE DEF z
<1>10. SameLocks(t, s, z)
  BY <1>2, <1>4, <1>5, <1>9 DEF SameLocks, Held, User, Open, PauseLabels
<1>11. Regs(c, t, z, r, cpu[c], tr)
  <2>1. /\ ~HasOf(z, Handlers)
        /\ ~Has(z, <<"killed", "ecall">>)
    BY <1>1, <1>2, <1>4, <1>5, <1>9, <1>b DEF View, Handlers, User
  <2>2. Depth(x, y) = Depth(f, g)
    BY <1>2, <1>4, <1>5 DEF Depth, User, Open, PauseLabels
  <2> HIDE DEF f, g, h
  <2>3. QED
    BY <1>2, <1>4, <1>5, <1>7, <1>8, <1>9, <1>c, <2>1, <2>2 DEF Regs, f, g, h, Registers, CpuStruct,
       User, TrapEntry, Open, PauseLabels
<1>12. Keeps(t, z, st, tr)
  BY <1>1, <1>2, <1>3, <1>4, <1>5, <1>8, <1>9, <1>c, <1>b DEF View, Keeps, TrapExit, User
<1>13. Pausing(z, pz, st.killed, ticks)
  BY <1>8, Names DEF Pausing
<1>14. Local(c, t, s, z, r, st, tr, pz)
  <2>1. /\ Nth(s, 1)[1] # "plic_complete" /\ Nth(z, 1)[1] # "plic_complete"
        /\ st.state = "RUNNING" \/ Nth(z, 1)[1] = "sched"
    BY <1>2, <1>5, <1>8, <1>9, <1>c DEF User, Open, PauseLabels
  <2>2. QED
    BY <1>4, <1>6, <1>7, <1>8, <1>9, <1>10, <1>11, <1>12, <1>13, <2>1 DEF Local
<1>15. QED
  BY <1>14, ProcStep

LEMMA KilledYieldStep ==
  ASSUME IInv, NEW c \in CPUs, NEW t, t = cur[c], NEW s, s = stk[t], killed(c),
         ~state[myproc(c)].killed, Top(c)[2] = "timer"
  PROVE  IInv'
<1> DEFINE f == Nth(s, 1)
           g == Nth(s, 2)
           h == Nth(s, 3)
           x == <<"acquire", t>>
           y == <<"yield">>
           v == <<"prepare_return">>
           z == Put3(x, y, v, s)
           r == hw[c]
           st == state[t]
           tr == tf[t]
           pz == [n |-> 0, ticks0 |-> 0, passed |-> 0]
<1>1. View(c, t, s)
  BY Running
<1>2. f[1] = "killed" /\ f[2] \in Causes /\ cpuid(c) = c
  BY <1>1, Arguments DEF killed, At, View, Regs, User, cpuid
<1>3. Stack(t, s) /\ Onto(t, f, g, h) /\ (Len(s) > 1 <=> g[1] # "none")
  BY <1>1 DEF View
<1>4. /\ t \in Procs
      /\ g[1] \in User /\ g[1] # "none"
  BY <1>2, <1>3 DEF Onto, OfProcess, User, PauseLabels, TrapEntry, TrapExit, OfScheduler, OfDevice,
     Handlers
<1>b. /\ \A L : HasOf(Tail(s), L) <=> g[1] \in L
      /\ ~Has(Tail(s), <<"killed", "ecall">>) /\ Bottom(s) = g
  BY <1>3, <1>4, UserBelow
<1>c. /\ hw[c] \in Registers /\ cpu[c] \in CpuStruct /\ Regs(c, t, s, hw[c], cpu[c], tf[t])
      /\ Keeps(t, s, state[t], tf[t]) /\ Pausing(s, pause[t], state[t].killed, ticks)
      /\ f[1] = "sched" \/ state[t].state = "RUNNING"
      /\ state[t] \in StateOf /\ tf[t] \in FrameOf /\ pause[t] \in PauseOf
  BY <1>1, <1>4, RunningProcess DEF View
<1>d. stk' = [stk EXCEPT ![t] = z]
  <2>1. stk' = [stk EXCEPT ![t] = (<<<<"acquire", t>>, <<"yield">>>> \o <<<<"prepare_return">>>>) \o Tail(@)]
    BY <1>1, <1>2 DEF killed, Then, View, myproc, MaybeYield
  <2>2. <<<<"acquire", t>>, <<"yield">>>> \o <<<<"prepare_return">>>> = <<x, y, v>>
    BY JoinedOn
  <2>3. QED
    BY <2>1, <2>2 DEF Put3
<1>5. /\ x \in Frame /\ x[1] = "acquire"
      /\ y \in Frame /\ y[1] = "yield"
      /\ v \in Frame /\ v[1] = "prepare_return"
  BY <1>1, <1>2, <1>4, Made DEF Bare, Causes, User, PauseLabels, Locks
<1>o. Onto(t, x, y, v) /\ Onto(t, y, v, g) /\ Onto(t, v, g, h)
  BY <1>1, <1>2, <1>3, <1>4, <1>5 DEF Onto, OfProcess, User, PauseLabels, TrapEntry, TrapExit,
     OfScheduler, OfDevice, Handlers
<1>6. MovesOf(c, t, z, r, st, tr, pz)
  BY <1>1, <1>2, <1>d DEF killed, Then, MovesOf, View, Put3, IInv, Types, regs, clock, myproc,
     NoPause
<1>7. r \in Registers
  BY <1>1, <1>2, <1>4, <1>c DEF Registers, FrameOf
<1>8. /\ st \in StateOf
      /\ tr \in FrameOf
      /\ pz \in PauseOf /\ pz.n = 0 /\ pz.ticks0 = 0 /\ pz.passed = 0
  BY <1>c, Names DEF StateOf, States, FrameOf, PauseOf
<1> HIDE DEF x, y, v, pz
<1>9. /\ Stack(t, z)
      /\ Nth(z, 1) = x /\ Nth(z, 2) = y
      /\ \A L : HasOf(z, L) <=> x[1] \in L \/ y[1] \in L \/ v[1] \in L \/ HasOf(Tail(s), L)
      /\ \A e : Has(z, e) <=> x = e \/ y = e \/ v = e \/ Has(Tail(s), e)
      /\ Len(s) > 1 => Bottom(z) = Bottom(s)
  <2>1. Stack(t, s) /\ x[1] \notin Handlers /\ y[1] \notin Handlers /\ v[1] \notin Handlers
    BY <1>3, <1>5 DEF Handlers
  <2>2. QED
    BY <1>5, <1>o, <2>1, Push3
<1> HIDE DEF z
<1>10. SameLocks(t, s, z)
  BY <1>2, <1>4, <1>5, <1>9 DEF SameLocks, Held, User, Open, PauseLabels
<1>11. Regs(c, t, z, r, cpu[c], tr)
  <2>1. /\ ~HasOf(z, Handlers)
        /\ ~Has(z, <<"killed", "ecall">>)
    BY <1>1, <1>2, <1>4, <1>5, <1>9, <1>b DEF View, Handlers, User
  <2>2. Depth(x, y) = Depth(f, g)
    BY <1>2, <1>4, <1>5 DEF Depth, User, Open, PauseLabels
  <2> HIDE DEF f, g, h
  <2>3. QED
    BY <1>2, <1>4, <1>5, <1>7, <1>8, <1>9, <1>c, <2>1, <2>2 DEF Regs, f, g, h, Registers, CpuStruct,
       User, TrapEntry, Open, PauseLabels
<1>12. Keeps(t, z, st, tr)
  BY <1>1, <1>2, <1>3, <1>4, <1>5, <1>8, <1>9, <1>c, <1>b DEF View, Keeps, TrapExit, User
<1>13. Pausing(z, pz, st.killed, ticks)
  BY <1>8, Names DEF Pausing
<1>14. Local(c, t, s, z, r, st, tr, pz)
  <2>1. /\ Nth(s, 1)[1] # "plic_complete" /\ Nth(z, 1)[1] # "plic_complete"
        /\ st.state = "RUNNING" \/ Nth(z, 1)[1] = "sched"
    BY <1>2, <1>5, <1>8, <1>9, <1>c DEF User, Open, PauseLabels
  <2>2. QED
    BY <1>4, <1>6, <1>7, <1>8, <1>9, <1>10, <1>11, <1>12, <1>13, <2>1 DEF Local
<1>15. QED
  BY <1>14, ProcStep

LEMMA KilledReturnStep ==
  ASSUME IInv, NEW c \in CPUs, NEW t, t = cur[c], NEW s, s = stk[t], killed(c),
         ~state[myproc(c)].killed, Top(c)[2] # "timer"
  PROVE  IInv'
<1> DEFINE f == Nth(s, 1)
           g == Nth(s, 2)
           h == Nth(s, 3)
           x == <<"prepare_return">>
           z == Put1(x, s)
           r == hw[c]
           st == state[t]
           tr == tf[t]
           pz == [n |-> 0, ticks0 |-> 0, passed |-> 0]
<1>1. View(c, t, s)
  BY Running
<1>2. f[1] = "killed" /\ f[2] \in Causes /\ cpuid(c) = c
  BY <1>1, Arguments DEF killed, At, View, Regs, User, cpuid
<1>3. Stack(t, s) /\ Onto(t, f, g, h) /\ (Len(s) > 1 <=> g[1] # "none")
  BY <1>1 DEF View
<1>4. /\ t \in Procs
      /\ g[1] \in User /\ g[1] # "none"
  BY <1>2, <1>3 DEF Onto, OfProcess, User, PauseLabels, TrapEntry, TrapExit, OfScheduler, OfDevice,
     Handlers
<1>b. /\ \A L : HasOf(Tail(s), L) <=> g[1] \in L
      /\ ~Has(Tail(s), <<"killed", "ecall">>) /\ Bottom(s) = g
  BY <1>3, <1>4, UserBelow
<1>c. /\ hw[c] \in Registers /\ cpu[c] \in CpuStruct /\ Regs(c, t, s, hw[c], cpu[c], tf[t])
      /\ Keeps(t, s, state[t], tf[t]) /\ Pausing(s, pause[t], state[t].killed, ticks)
      /\ f[1] = "sched" \/ state[t].state = "RUNNING"
      /\ state[t] \in StateOf /\ tf[t] \in FrameOf /\ pause[t] \in PauseOf
  BY <1>1, <1>4, RunningProcess DEF View
<1>d. stk' = [stk EXCEPT ![t] = z]
  <2>1. stk' = [stk EXCEPT ![t] = (<<>> \o <<<<"prepare_return">>>>) \o Tail(@)]
    BY <1>1, <1>2 DEF killed, Then, View, myproc, MaybeYield
  <2>2. <<>> \o <<<<"prepare_return">>>> = <<x>>
    BY JoinedOn
  <2>3. QED
    BY <2>1, <2>2 DEF Put1
<1>5. /\ x \in Frame /\ x[1] = "prepare_return"
  BY <1>1, <1>2, <1>4, Made DEF Bare, Causes, User, PauseLabels, Locks
<1>o. Onto(t, x, g, h)
  BY <1>1, <1>2, <1>3, <1>4, <1>5 DEF Onto, OfProcess, User, PauseLabels, TrapEntry, TrapExit,
     OfScheduler, OfDevice, Handlers
<1>6. MovesOf(c, t, z, r, st, tr, pz)
  BY <1>1, <1>2, <1>d DEF killed, Then, MovesOf, View, Put1, IInv, Types, regs, clock, myproc,
     NoPause
<1>7. r \in Registers
  BY <1>1, <1>2, <1>4, <1>c DEF Registers, FrameOf
<1>8. /\ st \in StateOf
      /\ tr \in FrameOf
      /\ pz \in PauseOf /\ pz.n = 0 /\ pz.ticks0 = 0 /\ pz.passed = 0
  BY <1>c, Names DEF StateOf, States, FrameOf, PauseOf
<1> HIDE DEF x, pz
<1>9. /\ Stack(t, z)
      /\ Nth(z, 1) = x /\ Nth(z, 2) = g
      /\ \A L : HasOf(z, L) <=> x[1] \in L \/ HasOf(Tail(s), L)
      /\ \A e : Has(z, e) <=> x = e \/ Has(Tail(s), e)
      /\ Len(s) > 1 => Bottom(z) = Bottom(s)
  <2>1. Stack(t, s) /\ x[1] \notin Handlers
    BY <1>3, <1>5 DEF Handlers
  <2>2. QED
    BY <1>5, <1>o, <2>1, Push1
<1> HIDE DEF z
<1>10. SameLocks(t, s, z)
  BY <1>2, <1>4, <1>5, <1>9 DEF SameLocks, Held, User, Open, PauseLabels
<1>11. Regs(c, t, z, r, cpu[c], tr)
  <2>1. /\ ~HasOf(z, Handlers)
        /\ ~Has(z, <<"killed", "ecall">>)
    BY <1>1, <1>2, <1>4, <1>5, <1>9, <1>b DEF View, Handlers, User
  <2>2. Depth(x, g) = Depth(f, g)
    BY <1>2, <1>4, <1>5 DEF Depth, User, Open, PauseLabels
  <2> HIDE DEF f, g, h
  <2>3. QED
    BY <1>2, <1>4, <1>5, <1>7, <1>8, <1>9, <1>c, <2>1, <2>2 DEF Regs, f, g, h, Registers, CpuStruct,
       User, TrapEntry, Open, PauseLabels
<1>12. Keeps(t, z, st, tr)
  BY <1>1, <1>2, <1>3, <1>4, <1>5, <1>8, <1>9, <1>c, <1>b DEF View, Keeps, TrapExit, User
<1>13. Pausing(z, pz, st.killed, ticks)
  BY <1>8, Names DEF Pausing
<1>14. Local(c, t, s, z, r, st, tr, pz)
  <2>1. /\ Nth(s, 1)[1] # "plic_complete" /\ Nth(z, 1)[1] # "plic_complete"
        /\ st.state = "RUNNING" \/ Nth(z, 1)[1] = "sched"
    BY <1>2, <1>5, <1>8, <1>9, <1>c DEF User, Open, PauseLabels
  <2>2. QED
    BY <1>4, <1>6, <1>7, <1>8, <1>9, <1>10, <1>11, <1>12, <1>13, <2>1 DEF Local
<1>15. QED
  BY <1>14, ProcStep

LEMMA SysPauseStep ==
  ASSUME IInv, NEW c \in CPUs, NEW t, t = cur[c], NEW s, s = stk[t], sys_pause(c)
  PROVE  IInv'
<1> DEFINE f == Nth(s, 1)
           g == Nth(s, 2)
           h == Nth(s, 3)
           x == <<"acquire", "tickslock">>
           y == <<"pause_start">>
           z == Put2(x, y, s)
           r == hw[c]
           st == state[t]
           tr == tf[t]
           pz == [pause[t] EXCEPT !.n = AtLeastZero(pause[t].n)]
<1>1. View(c, t, s)
  BY Running
<1>2. f[1] = "sys_pause" /\ cpuid(c) = c
  BY <1>1 DEF sys_pause, At, View, Regs, User, cpuid
<1>3. Stack(t, s) /\ Onto(t, f, g, h) /\ (Len(s) > 1 <=> g[1] # "none")
  BY <1>1 DEF View
<1>4. /\ t \in Procs
      /\ g = <<"killed", "ecall">> /\ g[1] = "killed"
  BY <1>2, <1>3 DEF Onto, OfProcess, User, PauseLabels, TrapEntry, TrapExit, OfScheduler, OfDevice,
     Handlers
<1>b. /\ h[1] \in User
      /\ \A L : HasOf(Tail(s), L) <=> "killed" \in L \/ h[1] \in L
  BY <1>3, <1>4, CallBelow
<1>c. /\ hw[c] \in Registers /\ cpu[c] \in CpuStruct /\ Regs(c, t, s, hw[c], cpu[c], tf[t])
      /\ Keeps(t, s, state[t], tf[t]) /\ Pausing(s, pause[t], state[t].killed, ticks)
      /\ f[1] = "sched" \/ state[t].state = "RUNNING"
      /\ state[t] \in StateOf /\ tf[t] \in FrameOf /\ pause[t] \in PauseOf
  BY <1>1, <1>4, RunningProcess DEF View
<1>5. /\ x \in Frame /\ x[1] = "acquire"
      /\ y \in Frame /\ y[1] = "pause_start"
  BY <1>1, <1>2, <1>4, Made DEF Bare, Causes, User, PauseLabels, Locks
<1>o. Onto(t, x, y, g) /\ Onto(t, y, g, h)
  BY <1>1, <1>2, <1>3, <1>4, <1>5 DEF Onto, OfProcess, User, PauseLabels, TrapEntry, TrapExit,
     OfScheduler, OfDevice, Handlers
<1>6. MovesOf(c, t, z, r, st, tr, pz)
  BY <1>1, <1>2 DEF sys_pause, Then, MovesOf, View, Put2, IInv, Types, regs, clock, myproc
<1>7. r \in Registers
  BY <1>1, <1>2, <1>4, <1>c DEF Registers, FrameOf
<1>8. /\ st \in StateOf
      /\ tr \in FrameOf
      /\ pz \in PauseOf /\ pz.n >= 0 /\ 2 * pz.n < UINT
  BY <1>c, Names DEF StateOf, States, FrameOf, PauseOf, AtLeastZero, Pausing
<1> HIDE DEF x, y, pz
<1>9. /\ Stack(t, z)
      /\ Nth(z, 1) = x /\ Nth(z, 2) = y
      /\ \A L : HasOf(z, L) <=> x[1] \in L \/ y[1] \in L \/ HasOf(Tail(s), L)
      /\ \A e : Has(z, e) <=> x = e \/ y = e \/ Has(Tail(s), e)
      /\ Len(s) > 1 => Bottom(z) = Bottom(s)
  <2>1. Stack(t, s) /\ x[1] \notin Handlers /\ y[1] \notin Handlers
    BY <1>3, <1>5 DEF Handlers
  <2>2. QED
    BY <1>5, <1>o, <2>1, Push2
<1> HIDE DEF z
<1>10. SameLocks(t, s, z)
  BY <1>2, <1>4, <1>5, <1>9 DEF SameLocks, Held, User, Open, PauseLabels
<1>11. Regs(c, t, z, r, cpu[c], tr)
  <2>1. /\ ~HasOf(z, Handlers) /\ ~HasOf(s, Handlers)
        /\ Has(z, <<"killed", "ecall">>) <=> Has(s, <<"killed", "ecall">>)
    BY <1>1, <1>2, <1>4, <1>5, <1>9, <1>b DEF View, Handlers, User
  <2>2. Depth(x, y) = Depth(f, g)
    BY <1>2, <1>4, <1>5 DEF Depth, User, Open, PauseLabels
  <2> HIDE DEF f, g, h
  <2>3. QED
    BY <1>2, <1>4, <1>5, <1>7, <1>8, <1>9, <1>c, <2>1, <2>2 DEF Regs, f, g, h, Registers, CpuStruct,
       User, TrapEntry, Open, PauseLabels
<1>12. Keeps(t, z, st, tr)
  BY <1>1, <1>2, <1>3, <1>4, <1>5, <1>8, <1>9, <1>c, <1>b DEF View, Keeps, TrapExit, User
<1>13. Pausing(z, pz, st.killed, ticks)
  BY <1>5, <1>8, <1>9, <1>b DEF Pausing, PauseLabels, User
<1>14. Local(c, t, s, z, r, st, tr, pz)
  <2>1. /\ Nth(s, 1)[1] # "plic_complete" /\ Nth(z, 1)[1] # "plic_complete"
        /\ st.state = "RUNNING" \/ Nth(z, 1)[1] = "sched"
    BY <1>2, <1>5, <1>8, <1>9, <1>c DEF User, Open, PauseLabels
  <2>2. QED
    BY <1>4, <1>6, <1>7, <1>8, <1>9, <1>10, <1>11, <1>12, <1>13, <2>1 DEF Local
<1>15. QED
  BY <1>14, ProcStep

LEMMA PauseStartStep ==
  ASSUME IInv, NEW c \in CPUs, NEW t, t = cur[c], NEW s, s = stk[t], pause_start(c)
  PROVE  IInv'
<1> DEFINE f == Nth(s, 1)
           g == Nth(s, 2)
           h == Nth(s, 3)
           x == <<"pause_loop">>
           z == Put1(x, s)
           r == hw[c]
           st == state[t]
           tr == tf[t]
           pz == [pause[t] EXCEPT !.ticks0 = ticks, !.passed = 0]
<1>1. View(c, t, s)
  BY Running
<1>2. f[1] = "pause_start" /\ cpuid(c) = c
  BY <1>1 DEF pause_start, At, View, Regs, User, cpuid
<1>3. Stack(t, s) /\ Onto(t, f, g, h) /\ (Len(s) > 1 <=> g[1] # "none")
  BY <1>1 DEF View
<1>4. /\ t \in Procs
      /\ g = <<"killed", "ecall">> /\ g[1] = "killed"
  BY <1>2, <1>3 DEF Onto, OfProcess, User, PauseLabels, TrapEntry, TrapExit, OfScheduler, OfDevice,
     Handlers
<1>b. /\ h[1] \in User
      /\ \A L : HasOf(Tail(s), L) <=> "killed" \in L \/ h[1] \in L
  BY <1>3, <1>4, CallBelow
<1>c. /\ hw[c] \in Registers /\ cpu[c] \in CpuStruct /\ Regs(c, t, s, hw[c], cpu[c], tf[t])
      /\ Keeps(t, s, state[t], tf[t]) /\ Pausing(s, pause[t], state[t].killed, ticks)
      /\ f[1] = "sched" \/ state[t].state = "RUNNING"
      /\ state[t] \in StateOf /\ tf[t] \in FrameOf /\ pause[t] \in PauseOf
  BY <1>1, <1>4, RunningProcess DEF View
<1>n. pause[t].n >= 0 /\ 2 * pause[t].n < UINT
  BY <1>1, <1>2, <1>c DEF Pausing, View
<1>k. ticks \in 0..(UINT - 1)
  BY DEF IInv, Types
<1>m. (ticks - ticks) % UINT = 0
  <2>1. ticks - ticks = 0 /\ 0 \in 0..(UINT - 1) /\ UINT \in Nat \ {0}
    BY <1>k, Names
  <2>2. QED
    BY <2>1, ModSmall
<1>5. /\ x \in Frame /\ x[1] = "pause_loop"
  BY <1>1, <1>2, <1>4, Made DEF Bare, Causes, User, PauseLabels, Locks
<1>o. Onto(t, x, g, h)
  BY <1>1, <1>2, <1>3, <1>4, <1>5 DEF Onto, OfProcess, User, PauseLabels, TrapEntry, TrapExit,
     OfScheduler, OfDevice, Handlers
<1>6. MovesOf(c, t, z, r, st, tr, pz)
  BY <1>1, <1>2 DEF pause_start, Then, MovesOf, View, Put1, IInv, Types, regs, clock, myproc
<1>7. r \in Registers
  BY <1>1, <1>2, <1>4, <1>c DEF Registers, FrameOf
<1>8. /\ st \in StateOf
      /\ tr \in FrameOf
      /\ pz \in PauseOf /\ pz.n >= 0 /\ 2 * pz.n < UINT /\ pz.ticks0 = ticks /\ pz.passed = 0
  <2>1. 0 \in 0..UINT
    BY Names
  <2>2. pause[t] \in PauseOf
    BY <1>c
  <2>4. pz \in PauseOf /\ pz.n = pause[t].n /\ pz.ticks0 = ticks /\ pz.passed = 0
    BY <1>k, <2>1, <2>2 DEF PauseOf
  <2> HIDE DEF pz
  <2>5. QED
    BY <1>c, <1>n, <2>4
<1> HIDE DEF x, pz
<1>9. /\ Stack(t, z)
      /\ Nth(z, 1) = x /\ Nth(z, 2) = g
      /\ \A L : HasOf(z, L) <=> x[1] \in L \/ HasOf(Tail(s), L)
      /\ \A e : Has(z, e) <=> x = e \/ Has(Tail(s), e)
      /\ Len(s) > 1 => Bottom(z) = Bottom(s)
  <2>1. Stack(t, s) /\ x[1] \notin Handlers
    BY <1>3, <1>5 DEF Handlers
  <2>2. QED
    BY <1>5, <1>o, <2>1, Push1
<1> HIDE DEF z
<1>10. SameLocks(t, s, z)
  BY <1>2, <1>4, <1>5, <1>9 DEF SameLocks, Held, User, Open, PauseLabels
<1>11. Regs(c, t, z, r, cpu[c], tr)
  <2>1. /\ ~HasOf(z, Handlers) /\ ~HasOf(s, Handlers)
        /\ Has(z, <<"killed", "ecall">>) <=> Has(s, <<"killed", "ecall">>)
    BY <1>1, <1>2, <1>4, <1>5, <1>9, <1>b DEF View, Handlers, User
  <2>2. Depth(x, g) = Depth(f, g)
    BY <1>2, <1>4, <1>5 DEF Depth, User, Open, PauseLabels
  <2> HIDE DEF f, g, h
  <2>3. QED
    BY <1>2, <1>4, <1>5, <1>7, <1>8, <1>9, <1>c, <2>1, <2>2 DEF Regs, f, g, h, Registers, CpuStruct,
       User, TrapEntry, Open, PauseLabels
<1>12. Keeps(t, z, st, tr)
  BY <1>1, <1>2, <1>3, <1>4, <1>5, <1>8, <1>9, <1>c, <1>b DEF View, Keeps, TrapExit, User
<1>13. Pausing(z, pz, st.killed, ticks)
  <2>1. pz.passed = (ticks - pz.ticks0) % UINT
    BY <1>8, <1>m
  <2>2. QED
    BY <1>5, <1>8, <1>9, <1>b, <2>1 DEF Pausing, PauseLabels, User
<1>14. Local(c, t, s, z, r, st, tr, pz)
  <2>1. /\ Nth(s, 1)[1] # "plic_complete" /\ Nth(z, 1)[1] # "plic_complete"
        /\ st.state = "RUNNING" \/ Nth(z, 1)[1] = "sched"
    BY <1>2, <1>5, <1>8, <1>9, <1>c DEF User, Open, PauseLabels
  <2>2. QED
    BY <1>4, <1>6, <1>7, <1>8, <1>9, <1>10, <1>11, <1>12, <1>13, <2>1 DEF Local
<1>15. QED
  BY <1>14, ProcStep
LEMMA PauseWaitStep ==
  ASSUME IInv, NEW c \in CPUs, NEW t, t = cur[c], NEW s, s = stk[t], pause_loop(c),
         TooEarly(cur[c]) /\ ~state[myproc(c)].killed
  PROVE  IInv'
<1> DEFINE f == Nth(s, 1)
           g == Nth(s, 2)
           h == Nth(s, 3)
           x == <<"acquire", t>>
           y == <<"release", "tickslock">>
           v == <<"asleep">>
           w == <<"pause_loop">>
           z == Put4(x, y, v, w, s)
           r == hw[c]
<1>1. View(c, t, s)
  BY Running
<1>2. f[1] = "pause_loop" /\ cpuid(c) = c
  BY <1>1, Arguments DEF pause_loop, At, View, Regs, User, cpuid
<1>3. Stack(t, s) /\ Onto(t, f, g, h) /\ (Len(s) > 1 <=> g[1] # "none")
  BY <1>1 DEF View
<1>4. /\ t \in Procs /\ g = <<"killed", "ecall">> /\ g[1] = "killed"
  BY <1>2, <1>3 DEF Onto, OfProcess, User, PauseLabels, TrapEntry, TrapExit, OfScheduler, OfDevice,
     Handlers
<1>5. /\ x \in Frame /\ x[1] = "acquire"
      /\ y \in Frame /\ y[1] = "release"
      /\ v \in Frame /\ v[1] = "asleep"
      /\ w \in Frame /\ w[1] = "pause_loop"
  BY <1>1, <1>2, <1>4, Made DEF Bare, Causes, User, PauseLabels, Locks
<1>o. Onto(t, x, y, v) /\ Onto(t, y, v, w) /\ Onto(t, v, w, g) /\ Onto(t, w, g, h)
  BY <1>1, <1>2, <1>3, <1>4, <1>5 DEF Onto, OfProcess, User, PauseLabels, TrapEntry, TrapExit,
     OfScheduler, OfDevice, Handlers
<1>6. Moves(c, t, z, r, cpu[c]) /\ lock' = lock
  BY <1>1, <1>2 DEF pause_loop, Then, Moves, View, Put4, IInv, Types, regs, clock, myproc
<1>7. hw[c] \in Registers /\ cpu[c] \in CpuStruct /\ Regs(c, t, s, hw[c], cpu[c], tf[t])
  BY <1>1 DEF View
<1>8. r \in Registers
  BY <1>1, <1>2, <1>4, <1>7 DEF Registers
<1> HIDE DEF x, y, v, w
<1>9. /\ Stack(t, z)
      /\ Nth(z, 1) = x /\ Nth(z, 2) = y
      /\ \A L : HasOf(z, L) <=> x[1] \in L \/ y[1] \in L \/ v[1] \in L \/ w[1] \in L \/ HasOf(Tail(s), L)
      /\ \A e : Has(z, e) <=> x = e \/ y = e \/ v = e \/ w = e \/ Has(Tail(s), e)
      /\ Len(s) > 1 => Bottom(z) = Bottom(s)
  <2>1. Stack(t, s) /\ x[1] \notin Handlers /\ y[1] \notin Handlers /\ v[1] \notin Handlers /\ w[1] \notin Handlers
    BY <1>2, <1>3, <1>5 DEF Handlers
  <2>2. QED
    BY <1>5, <1>o, <2>1, Push4
<1> HIDE DEF z
<1>10. SameFrames(s, z)
  BY <1>1, <1>2, <1>3, <1>4, <1>5, <1>9 DEF View, SameFrames, User, TrapExit, PauseLabels, Open
<1>11. SameLocks(t, s, z)
  BY <1>2, <1>4, <1>5, <1>9 DEF SameLocks, Held, User, Open, PauseLabels
<1>12. Regs(c, t, z, r, cpu[c], tf[t])
  <2>1. /\ HasOf(z, Handlers) <=> HasOf(s, Handlers)
        /\ Has(z, <<"killed", "ecall">>) <=> Has(s, <<"killed", "ecall">>)
    BY <1>1, <1>2, <1>4, <1>5, <1>9 DEF View, Handlers, User
  <2>2. Depth(x, y) = Depth(f, g)
    BY <1>2, <1>4, <1>5 DEF Depth, User, Open, PauseLabels
  <2> HIDE DEF f, g, h
  <2>3. QED
    BY <1>2, <1>4, <1>5, <1>7, <1>8, <1>9, <2>1, <2>2 DEF Regs, f, g, h, Registers, CpuStruct, User,
       TrapEntry, Open, PauseLabels
<1>13. Quiet(c, t, s, z, r, cpu[c])
  <2>1. /\ Nth(s, 1)[1] \notin {"plic_complete", "sched"}
        /\ Nth(z, 1)[1] \notin {"plic_complete", "sched", "resumed"}
    BY <1>2, <1>4, <1>5, <1>9 DEF User, Open, PauseLabels
  <2>2. QED
    BY <1>6, <1>7, <1>8, <1>9, <1>10, <1>11, <1>12, <2>1 DEF Quiet
<1>14. QED
  BY <1>13, QuietStep

LEMMA PauseDoneStep ==
  ASSUME IInv, NEW c \in CPUs, NEW t, t = cur[c], NEW s, s = stk[t], pause_loop(c),
         ~(TooEarly(cur[c]) /\ ~state[myproc(c)].killed)
  PROVE  IInv'
<1> DEFINE f == Nth(s, 1)
           g == Nth(s, 2)
           h == Nth(s, 3)
           x == <<"release", "tickslock">>
           z == Put1(x, s)
           r == hw[c]
           st == state[t]
           tr == tf[t]
           pz == pause[t]
<1>1. View(c, t, s)
  BY Running
<1>2. f[1] = "pause_loop" /\ cpuid(c) = c
  BY <1>1 DEF pause_loop, At, View, Regs, User, cpuid
<1>3. Stack(t, s) /\ Onto(t, f, g, h) /\ (Len(s) > 1 <=> g[1] # "none")
  BY <1>1 DEF View
<1>4. /\ t \in Procs
      /\ g = <<"killed", "ecall">> /\ g[1] = "killed"
  BY <1>2, <1>3 DEF Onto, OfProcess, User, PauseLabels, TrapEntry, TrapExit, OfScheduler, OfDevice,
     Handlers
<1>b. /\ h[1] \in User
      /\ \A L : HasOf(Tail(s), L) <=> "killed" \in L \/ h[1] \in L
  BY <1>3, <1>4, CallBelow
<1>c. /\ hw[c] \in Registers /\ cpu[c] \in CpuStruct /\ Regs(c, t, s, hw[c], cpu[c], tf[t])
      /\ Keeps(t, s, state[t], tf[t]) /\ Pausing(s, pause[t], state[t].killed, ticks)
      /\ f[1] = "sched" \/ state[t].state = "RUNNING"
      /\ state[t] \in StateOf /\ tf[t] \in FrameOf /\ pause[t] \in PauseOf
  BY <1>1, <1>4, RunningProcess DEF View
<1>k. ticks \in 0..(UINT - 1) /\ UINT \in Nat \ {0}
  BY Names DEF IInv, Types
<1>5. /\ x \in Frame /\ x[1] = "release"
      /\ x[2] = "tickslock"
  BY <1>1, <1>2, <1>4, Made DEF Bare, Causes, User, PauseLabels, Locks
<1>o. Onto(t, x, g, h)
  BY <1>1, <1>2, <1>3, <1>4, <1>5 DEF Onto, OfProcess, User, PauseLabels, TrapEntry, TrapExit,
     OfScheduler, OfDevice, Handlers, AfterDevice
<1>6. MovesOf(c, t, z, r, st, tr, pz)
  BY <1>1, <1>2 DEF pause_loop, Then, MovesOf, View, Put1, IInv, Types, regs, clock, myproc
<1>7. r \in Registers
  BY <1>1, <1>2, <1>4, <1>c DEF Registers, FrameOf
<1>8. /\ st \in StateOf
      /\ tr \in FrameOf
      /\ pz \in PauseOf
  BY <1>c DEF StateOf, States, FrameOf, PauseOf
<1> HIDE DEF x
<1>9. /\ Stack(t, z)
      /\ Nth(z, 1) = x /\ Nth(z, 2) = g
      /\ \A L : HasOf(z, L) <=> x[1] \in L \/ HasOf(Tail(s), L)
      /\ \A e : Has(z, e) <=> x = e \/ Has(Tail(s), e)
      /\ Len(s) > 1 => Bottom(z) = Bottom(s)
  <2>1. Stack(t, s) /\ x[1] \notin Handlers
    BY <1>3, <1>5 DEF Handlers
  <2>2. QED
    BY <1>5, <1>o, <2>1, Push1
<1> HIDE DEF z
<1>10. SameLocks(t, s, z)
  BY <1>2, <1>4, <1>5, <1>9 DEF SameLocks, Held, User, Open, PauseLabels
<1>11. Regs(c, t, z, r, cpu[c], tr)
  <2>1. /\ ~HasOf(z, Handlers) /\ ~HasOf(s, Handlers)
        /\ Has(z, <<"killed", "ecall">>) <=> Has(s, <<"killed", "ecall">>)
    BY <1>1, <1>2, <1>4, <1>5, <1>9, <1>b DEF View, Handlers, User
  <2>2. Depth(x, g) = Depth(f, g)
    BY <1>2, <1>4, <1>5 DEF Depth, User, Open, PauseLabels
  <2> HIDE DEF f, g, h
  <2>3. QED
    BY <1>2, <1>4, <1>5, <1>7, <1>8, <1>9, <1>c, <2>1, <2>2 DEF Regs, f, g, h, Registers, CpuStruct,
       User, TrapEntry, Open, PauseLabels
<1>12. Keeps(t, z, st, tr)
  BY <1>1, <1>2, <1>3, <1>4, <1>5, <1>8, <1>9, <1>c, <1>b DEF View, Keeps, TrapExit, User
<1>13. Pausing(z, pz, st.killed, ticks)
  <2>1. /\ 2 * pause[t].n < UINT /\ pause[t].n >= 0
        /\ pause[t].passed >= pause[t].n \/ pause[t].passed = (ticks - pause[t].ticks0) % UINT
    BY <1>1, <1>2, <1>c DEF Pausing, View
  <2>2. pause[t].n \in Int /\ pause[t].ticks0 \in 0..(UINT - 1) /\ pause[t].passed \in 0..UINT
    BY <1>c DEF PauseOf
  <2>3. pause[t].n \in 0..(UINT - 1)
    BY <1>k, <2>1, <2>2
  <2>4. pause[t].n % UINT = pause[t].n
    BY <1>k, <2>3, ModSmall
  <2>5. (ticks - pause[t].ticks0) % UINT \in 0..(UINT - 1)
    <3>1. ticks - pause[t].ticks0 \in Int
      BY <1>k, <2>2
    <3>2. QED
      BY <1>k, <3>1, ModSplit
  <2>6. myproc(c) = t
    BY <1>2 DEF myproc
  <2>7. ~((ticks - pause[t].ticks0) % UINT < pause[t].n) \/ state[t].killed
    BY <2>4, <2>6 DEF TooEarly
  <2> DEFINE now == (ticks - pause[t].ticks0) % UINT
  <2> HIDE DEF now
  <2>8. pause[t].passed >= pause[t].n \/ state[t].killed
    BY <1>k, <2>1, <2>2, <2>3, <2>5, <2>7 DEF now
  <2>9. ~HasOf(z, {"pause_start", "pause_loop"}) /\ ~HasOf(z, {"pause_loop"})
    BY <1>5, <1>9, <1>b DEF User
  <2>10. QED
    BY <2>1, <2>8, <2>9 DEF Pausing
<1>14. Local(c, t, s, z, r, st, tr, pz)
  <2>1. /\ Nth(s, 1)[1] # "plic_complete" /\ Nth(z, 1)[1] # "plic_complete"
        /\ st.state = "RUNNING" \/ Nth(z, 1)[1] = "sched"
    BY <1>2, <1>5, <1>8, <1>9, <1>c DEF User, Open, PauseLabels
  <2>2. QED
    BY <1>4, <1>6, <1>7, <1>8, <1>9, <1>10, <1>11, <1>12, <1>13, <2>1 DEF Local
<1>15. QED
  BY <1>14, ProcStep

LEMMA SaveExitStep ==
  ASSUME IInv, NEW c \in CPUs, NEW t, t = cur[c], NEW s, s = stk[t], save_epc(c),
         Top(c)[2] = "ecall", state[myproc(c)].killed
  PROVE  IInv'
<1> DEFINE f == Nth(s, 1)
           g == Nth(s, 2)
           h == Nth(s, 3)
           x == <<"acquire", t>>
           y == <<"kexit">>
           z == Put2(x, y, s)
           r == hw[c]
<1>1. View(c, t, s)
  BY Running
<1>2. f[1] = "save_epc" /\ cpuid(c) = c
  BY <1>1, Arguments DEF save_epc, At, View, Regs, User, cpuid
<1>3. Stack(t, s) /\ Onto(t, f, g, h) /\ (Len(s) > 1 <=> g[1] # "none")
  BY <1>1 DEF View
<1>4. /\ t \in Procs /\ g[1] \in User /\ g[1] # "none"
  BY <1>2, <1>3 DEF Onto, OfProcess, User, PauseLabels, TrapEntry, TrapExit, OfScheduler, OfDevice,
     Handlers
<1>b. /\ \A L : HasOf(Tail(s), L) <=> g[1] \in L
      /\ ~Has(Tail(s), <<"killed", "ecall">>) /\ Bottom(s) = g
  BY <1>3, <1>4, UserBelow
<1>5. /\ x \in Frame /\ x[1] = "acquire"
      /\ y \in Frame /\ y[1] = "kexit"
  BY <1>1, <1>2, <1>4, Made DEF Bare, Causes, User, PauseLabels, Locks
<1>o. Onto(t, x, y, g) /\ Onto(t, y, g, h)
  BY <1>1, <1>2, <1>3, <1>4, <1>5 DEF Onto, OfProcess, User, PauseLabels, TrapEntry, TrapExit,
     OfScheduler, OfDevice, Handlers
<1>6. Moves(c, t, z, r, cpu[c]) /\ lock' = lock
  BY <1>1, <1>2 DEF save_epc, Then, Moves, View, Put2, IInv, Types, regs, clock, Exit, myproc
<1>7. hw[c] \in Registers /\ cpu[c] \in CpuStruct /\ Regs(c, t, s, hw[c], cpu[c], tf[t])
  BY <1>1 DEF View
<1>8. r \in Registers
  BY <1>1, <1>2, <1>4, <1>7 DEF Registers
<1> HIDE DEF x, y
<1>9. /\ Stack(t, z)
      /\ Nth(z, 1) = x /\ Nth(z, 2) = y
      /\ \A L : HasOf(z, L) <=> x[1] \in L \/ y[1] \in L \/ HasOf(Tail(s), L)
      /\ \A e : Has(z, e) <=> x = e \/ y = e \/ Has(Tail(s), e)
      /\ Len(s) > 1 => Bottom(z) = Bottom(s)
  <2>1. Stack(t, s) /\ x[1] \notin Handlers /\ y[1] \notin Handlers
    BY <1>2, <1>3, <1>5 DEF Handlers
  <2>2. QED
    BY <1>5, <1>o, <2>1, Push2
<1> HIDE DEF z
<1>10. SameFrames(s, z)
  BY <1>1, <1>2, <1>3, <1>4, <1>5, <1>9, <1>b DEF View, SameFrames, User, TrapExit, PauseLabels,
     Open
<1>11. SameLocks(t, s, z)
  BY <1>2, <1>4, <1>5, <1>9 DEF SameLocks, Held, User, Open, PauseLabels
<1>12. Regs(c, t, z, r, cpu[c], tf[t])
  <2>1. /\ ~HasOf(z, Handlers)
        /\ ~Has(z, <<"killed", "ecall">>)
    BY <1>1, <1>2, <1>4, <1>5, <1>9, <1>b DEF View, Handlers, User
  <2>2. Depth(x, y) = Depth(f, g)
    BY <1>2, <1>4, <1>5 DEF Depth, User, Open, PauseLabels
  <2> HIDE DEF f, g, h
  <2>3. QED
    BY <1>2, <1>4, <1>5, <1>7, <1>8, <1>9, <2>1, <2>2 DEF Regs, f, g, h, Registers, CpuStruct, User,
       TrapEntry, Open, PauseLabels
<1>13. Quiet(c, t, s, z, r, cpu[c])
  <2>1. /\ Nth(s, 1)[1] \notin {"plic_complete", "sched"}
        /\ Nth(z, 1)[1] \notin {"plic_complete", "sched", "resumed"}
    BY <1>2, <1>4, <1>5, <1>9 DEF User, Open, PauseLabels
  <2>2. QED
    BY <1>6, <1>7, <1>8, <1>9, <1>10, <1>11, <1>12, <2>1 DEF Quiet
<1>14. QED
  BY <1>13, QuietStep

LEMMA SaveTimerStep ==
  ASSUME IInv, NEW c \in CPUs, NEW t, t = cur[c], NEW s, s = stk[t], save_epc(c),
         Top(c)[2] = "timer"
  PROVE  IInv'
<1> DEFINE f == Nth(s, 1)
           g == Nth(s, 2)
           h == Nth(s, 3)
           x == <<"clockintr">>
           y == <<"killed", f[2]>>
           z == Put2(x, y, s)
           r == hw[c]
           st == state[t]
           tr == [tf[t] EXCEPT !.epc = <<t, g[1]>>]
           pz == pause[t]
<1>1. View(c, t, s)
  BY Running
<1>2. f[1] = "save_epc" /\ f[2] \in Causes /\ f[2] = "timer" /\ cpuid(c) = c
  BY <1>1, Arguments DEF save_epc, At, View, Regs, User, cpuid
<1>3. Stack(t, s) /\ Onto(t, f, g, h) /\ (Len(s) > 1 <=> g[1] # "none")
  BY <1>1 DEF View
<1>4. /\ t \in Procs
      /\ g[1] \in User /\ g[1] # "none"
  BY <1>2, <1>3 DEF Onto, OfProcess, User, PauseLabels, TrapEntry, TrapExit, OfScheduler, OfDevice,
     Handlers
<1>b. /\ \A L : HasOf(Tail(s), L) <=> g[1] \in L
      /\ ~Has(Tail(s), <<"killed", "ecall">>) /\ Bottom(s) = g
  BY <1>3, <1>4, UserBelow
<1>c. /\ hw[c] \in Registers /\ cpu[c] \in CpuStruct /\ Regs(c, t, s, hw[c], cpu[c], tf[t])
      /\ Keeps(t, s, state[t], tf[t]) /\ Pausing(s, pause[t], state[t].killed, ticks)
      /\ f[1] = "sched" \/ state[t].state = "RUNNING"
      /\ state[t] \in StateOf /\ tf[t] \in FrameOf /\ pause[t] \in PauseOf
  BY <1>1, <1>4, RunningProcess DEF View
<1>e. <<t, g[1]>> \in Pc /\ hw[c].sepc = <<t, g[1]>>
  <2>1. <<t, g[1]>> \in Pc
    BY <1>1, <1>3, <1>4, LabelOf DEF View, Pc
  <2>2. hw[c].sepc = <<t, g[1]>>
    BY <1>1, <1>2 DEF View, Regs, TrapEntry
  <2>3. QED
    BY <2>1, <2>2
<1>d. stk' = [stk EXCEPT ![t] = z]
  <2>1. stk' = [stk EXCEPT ![t] = (<<<<"clockintr">>>> \o <<<<"killed", f[2]>>>>) \o Tail(@)]
    BY <1>1, <1>2 DEF save_epc, Then, View, myproc, devintr
  <2>2. <<<<"clockintr">>>> \o <<<<"killed", f[2]>>>> = <<x, y>>
    BY Joined
  <2>3. QED
    BY <2>1, <2>2 DEF Put2
<1>5. /\ x \in Frame /\ x[1] = "clockintr"
      /\ y \in Frame /\ y[1] = "killed"
      /\ y # <<"killed", "ecall">>
  BY <1>1, <1>2, <1>4, Made DEF Bare, Causes, User, PauseLabels, Locks
<1>o. Onto(t, x, y, g) /\ Onto(t, y, g, h)
  BY <1>1, <1>2, <1>3, <1>4, <1>5 DEF Onto, OfProcess, User, PauseLabels, TrapEntry, TrapExit,
     OfScheduler, OfDevice, Handlers, AfterDevice
<1>6. MovesOf(c, t, z, r, st, tr, pz)
  BY <1>1, <1>2, <1>d, <1>e DEF save_epc, Then, MovesOf, View, Put2, IInv, Types, regs, clock,
     myproc, PlusFour
<1>7. r \in Registers
  BY <1>1, <1>2, <1>4, <1>c DEF Registers, FrameOf
<1>8. /\ st \in StateOf
      /\ tr \in FrameOf /\ tr.epc = <<t, g[1]>> /\ tr.hartid = tf[t].hartid
      /\ pz \in PauseOf
  BY <1>c, <1>e DEF StateOf, States, FrameOf, PauseOf
<1> HIDE DEF x, y, tr
<1>9. /\ Stack(t, z)
      /\ Nth(z, 1) = x /\ Nth(z, 2) = y
      /\ \A L : HasOf(z, L) <=> x[1] \in L \/ y[1] \in L \/ HasOf(Tail(s), L)
      /\ \A e : Has(z, e) <=> x = e \/ y = e \/ Has(Tail(s), e)
      /\ Len(s) > 1 => Bottom(z) = Bottom(s)
  <2>1. Stack(t, s) /\ x[1] \notin Handlers /\ y[1] \notin Handlers
    BY <1>3, <1>5 DEF Handlers
  <2>2. QED
    BY <1>5, <1>o, <2>1, Push2
<1> HIDE DEF z
<1>10. SameLocks(t, s, z)
  BY <1>2, <1>4, <1>5, <1>9 DEF SameLocks, Held, User, Open, PauseLabels
<1>11. Regs(c, t, z, r, cpu[c], tr)
  <2>1. /\ ~HasOf(z, Handlers)
        /\ ~Has(z, <<"killed", "ecall">>)
    BY <1>1, <1>2, <1>4, <1>5, <1>9, <1>b DEF View, Handlers, User
  <2>2. Depth(x, y) = Depth(f, g)
    BY <1>2, <1>4, <1>5 DEF Depth, User, Open, PauseLabels
  <2> HIDE DEF f, g, h
  <2>3. QED
    BY <1>2, <1>4, <1>5, <1>7, <1>8, <1>9, <1>c, <2>1, <2>2 DEF Regs, f, g, h, Registers, CpuStruct,
       User, TrapEntry, Open, PauseLabels
<1>12. Keeps(t, z, st, tr)
  BY <1>1, <1>2, <1>3, <1>4, <1>5, <1>8, <1>9, <1>c, <1>b DEF View, Keeps, TrapExit, User
<1>13. Pausing(z, pz, st.killed, ticks)
  BY <1>1, <1>2, <1>4, <1>5, <1>8, <1>9, <1>c, <1>b DEF View, Pausing, PauseLabels, User
<1>14. Local(c, t, s, z, r, st, tr, pz)
  <2>1. /\ Nth(s, 1)[1] # "plic_complete" /\ Nth(z, 1)[1] # "plic_complete"
        /\ st.state = "RUNNING" \/ Nth(z, 1)[1] = "sched"
    BY <1>2, <1>5, <1>8, <1>9, <1>c DEF User, Open, PauseLabels
  <2>2. QED
    BY <1>4, <1>6, <1>7, <1>8, <1>9, <1>10, <1>11, <1>12, <1>13, <2>1 DEF Local
<1>15. QED
  BY <1>14, ProcStep

LEMMA SaveExternalStep ==
  ASSUME IInv, NEW c \in CPUs, NEW t, t = cur[c], NEW s, s = stk[t], save_epc(c),
         Top(c)[2] \notin {"timer", "ecall"}
  PROVE  IInv'
<1> DEFINE f == Nth(s, 1)
           g == Nth(s, 2)
           h == Nth(s, 3)
           x == <<"plic_claim">>
           y == <<"killed", f[2]>>
           z == Put2(x, y, s)
           r == hw[c]
           st == state[t]
           tr == [tf[t] EXCEPT !.epc = <<t, g[1]>>]
           pz == pause[t]
<1>1. View(c, t, s)
  BY Running
<1>2. f[1] = "save_epc" /\ f[2] \in Causes /\ f[2] \notin {"timer", "ecall"} /\ cpuid(c) = c
  BY <1>1, Arguments DEF save_epc, At, View, Regs, User, cpuid
<1>3. Stack(t, s) /\ Onto(t, f, g, h) /\ (Len(s) > 1 <=> g[1] # "none")
  BY <1>1 DEF View
<1>4. /\ t \in Procs
      /\ g[1] \in User /\ g[1] # "none"
  BY <1>2, <1>3 DEF Onto, OfProcess, User, PauseLabels, TrapEntry, TrapExit, OfScheduler, OfDevice,
     Handlers
<1>b. /\ \A L : HasOf(Tail(s), L) <=> g[1] \in L
      /\ ~Has(Tail(s), <<"killed", "ecall">>) /\ Bottom(s) = g
  BY <1>3, <1>4, UserBelow
<1>c. /\ hw[c] \in Registers /\ cpu[c] \in CpuStruct /\ Regs(c, t, s, hw[c], cpu[c], tf[t])
      /\ Keeps(t, s, state[t], tf[t]) /\ Pausing(s, pause[t], state[t].killed, ticks)
      /\ f[1] = "sched" \/ state[t].state = "RUNNING"
      /\ state[t] \in StateOf /\ tf[t] \in FrameOf /\ pause[t] \in PauseOf
  BY <1>1, <1>4, RunningProcess DEF View
<1>e. <<t, g[1]>> \in Pc /\ hw[c].sepc = <<t, g[1]>>
  <2>1. <<t, g[1]>> \in Pc
    BY <1>1, <1>3, <1>4, LabelOf DEF View, Pc
  <2>2. hw[c].sepc = <<t, g[1]>>
    BY <1>1, <1>2 DEF View, Regs, TrapEntry
  <2>3. QED
    BY <2>1, <2>2
<1>d. stk' = [stk EXCEPT ![t] = z]
  <2>1. stk' = [stk EXCEPT ![t] = (<<<<"plic_claim">>>> \o <<<<"killed", f[2]>>>>) \o Tail(@)]
    BY <1>1, <1>2 DEF save_epc, Then, View, myproc, devintr
  <2>2. <<<<"plic_claim">>>> \o <<<<"killed", f[2]>>>> = <<x, y>>
    BY Joined
  <2>3. QED
    BY <2>1, <2>2 DEF Put2
<1>5. /\ x \in Frame /\ x[1] = "plic_claim"
      /\ y \in Frame /\ y[1] = "killed"
      /\ y # <<"killed", "ecall">>
  BY <1>1, <1>2, <1>4, Made DEF Bare, Causes, User, PauseLabels, Locks
<1>o. Onto(t, x, y, g) /\ Onto(t, y, g, h)
  BY <1>1, <1>2, <1>3, <1>4, <1>5 DEF Onto, OfProcess, User, PauseLabels, TrapEntry, TrapExit,
     OfScheduler, OfDevice, Handlers, AfterDevice
<1>6. MovesOf(c, t, z, r, st, tr, pz)
  BY <1>1, <1>2, <1>d, <1>e DEF save_epc, Then, MovesOf, View, Put2, IInv, Types, regs, clock,
     myproc, PlusFour
<1>7. r \in Registers
  BY <1>1, <1>2, <1>4, <1>c DEF Registers, FrameOf
<1>8. /\ st \in StateOf
      /\ tr \in FrameOf /\ tr.epc = <<t, g[1]>> /\ tr.hartid = tf[t].hartid
      /\ pz \in PauseOf
  BY <1>c, <1>e DEF StateOf, States, FrameOf, PauseOf
<1> HIDE DEF x, y, tr
<1>9. /\ Stack(t, z)
      /\ Nth(z, 1) = x /\ Nth(z, 2) = y
      /\ \A L : HasOf(z, L) <=> x[1] \in L \/ y[1] \in L \/ HasOf(Tail(s), L)
      /\ \A e : Has(z, e) <=> x = e \/ y = e \/ Has(Tail(s), e)
      /\ Len(s) > 1 => Bottom(z) = Bottom(s)
  <2>1. Stack(t, s) /\ x[1] \notin Handlers /\ y[1] \notin Handlers
    BY <1>3, <1>5 DEF Handlers
  <2>2. QED
    BY <1>5, <1>o, <2>1, Push2
<1> HIDE DEF z
<1>10. SameLocks(t, s, z)
  BY <1>2, <1>4, <1>5, <1>9 DEF SameLocks, Held, User, Open, PauseLabels
<1>11. Regs(c, t, z, r, cpu[c], tr)
  <2>1. /\ ~HasOf(z, Handlers)
        /\ ~Has(z, <<"killed", "ecall">>)
    BY <1>1, <1>2, <1>4, <1>5, <1>9, <1>b DEF View, Handlers, User
  <2>2. Depth(x, y) = Depth(f, g)
    BY <1>2, <1>4, <1>5 DEF Depth, User, Open, PauseLabels
  <2> HIDE DEF f, g, h
  <2>3. QED
    BY <1>2, <1>4, <1>5, <1>7, <1>8, <1>9, <1>c, <2>1, <2>2 DEF Regs, f, g, h, Registers, CpuStruct,
       User, TrapEntry, Open, PauseLabels
<1>12. Keeps(t, z, st, tr)
  BY <1>1, <1>2, <1>3, <1>4, <1>5, <1>8, <1>9, <1>c, <1>b DEF View, Keeps, TrapExit, User
<1>13. Pausing(z, pz, st.killed, ticks)
  BY <1>1, <1>2, <1>4, <1>5, <1>8, <1>9, <1>c, <1>b DEF View, Pausing, PauseLabels, User
<1>14. Local(c, t, s, z, r, st, tr, pz)
  <2>1. /\ Nth(s, 1)[1] # "plic_complete" /\ Nth(z, 1)[1] # "plic_complete"
        /\ st.state = "RUNNING" \/ Nth(z, 1)[1] = "sched"
    BY <1>2, <1>5, <1>8, <1>9, <1>c DEF User, Open, PauseLabels
  <2>2. QED
    BY <1>4, <1>6, <1>7, <1>8, <1>9, <1>10, <1>11, <1>12, <1>13, <2>1 DEF Local
<1>15. QED
  BY <1>14, ProcStep
\* The stack of a system call: sys_pause() on usertrap() on the user program.
LEMMA CallStack ==
  ASSUME NEW t \in Procs, NEW z, z = <<<<"sys_pause">>, <<"killed", "ecall">>, <<"next">>>>
  PROVE  /\ Stack(t, z) /\ Nth(z, 1) = <<"sys_pause">> /\ Nth(z, 2) = <<"killed", "ecall">>
         /\ \A L : HasOf(z, L) <=> "sys_pause" \in L \/ "killed" \in L \/ "next" \in L
         /\ Has(z, <<"killed", "ecall">>)
         /\ Bottom(z) = <<"next">>
<1> DEFINE x == <<"sys_pause">>
           y == <<"killed", "ecall">>
           v == <<"next">>
<1>1. /\ x \in Frame /\ y \in Frame /\ v \in Frame
      /\ x[1] = "sys_pause" /\ y[1] = "killed" /\ y[2] = "ecall" /\ v[1] = "next"
  BY Made DEF Bare, Causes, User, PauseLabels
<1>2. Onto(t, x, y, v) /\ Onto(t, y, v, <<"none">>) /\ Onto(t, v, <<"none">>, <<"none">>)
  BY DEF Onto, OfProcess, User, PauseLabels, TrapEntry, TrapExit, OfScheduler, OfDevice, Handlers
<1>3. y = <<"killed", "ecall">> /\ z = <<x, y, v>>
  OBVIOUS
<1> HIDE DEF x, y, v
<1>4. z \in Seq(Frame) /\ Len(z) = 3 /\ z[1] = x /\ z[2] = y /\ z[3] = v
  BY <1>1, <1>3
<1>5. 1..3 = {1, 2, 3} /\ ~(4 <= 3) /\ ~(5 <= 3) /\ 1 <= 3 /\ 2 <= 3 /\ 3 <= 3
  OBVIOUS
<1>6. /\ Nth(z, 1) = x /\ Nth(z, 2) = y /\ Nth(z, 3) = v
      /\ Nth(z, 4) = <<"none">> /\ Nth(z, 5) = <<"none">>
  BY <1>4, <1>5 DEF Nth
<1>7. \A i \in 1..Len(z) : Onto(t, z[i], Nth(z, i + 1), Nth(z, i + 2))
  <2>1. /\ Onto(t, z[1], Nth(z, 2), Nth(z, 3)) /\ Onto(t, z[2], Nth(z, 3), Nth(z, 4))
        /\ Onto(t, z[3], Nth(z, 4), Nth(z, 5))
    BY <1>2, <1>4, <1>6
  <2>2. 1 + 1 = 2 /\ 1 + 2 = 3 /\ 2 + 1 = 3 /\ 2 + 2 = 4 /\ 3 + 1 = 4 /\ 3 + 2 = 5
    OBVIOUS
  <2>3. QED
    BY <1>4, <1>5, <2>1, <2>2
<1>8. \A i, j \in 1..Len(z) : z[i][1] \in Handlers /\ z[j][1] \in Handlers => i = j
  BY <1>1, <1>4, <1>5 DEF Handlers
<1>9. Stack(t, z)
  BY <1>4, <1>7, <1>8 DEF Stack
<1>10. \A L : HasOf(z, L) <=> "sys_pause" \in L \/ "killed" \in L \/ "next" \in L
  BY <1>1, <1>4, <1>5 DEF HasOf
<1>11. Has(z, <<"killed", "ecall">>) /\ Bottom(z) = v
  BY <1>3, <1>4, <1>5 DEF Has, Bottom
<1>12. QED
  BY <1>3, <1>6, <1>9, <1>10, <1>11 DEF x, v

LEMMA SaveCallStep ==
  ASSUME IInv, NEW c \in CPUs, NEW t, t = cur[c], NEW s, s = stk[t], save_epc(c),
         Top(c)[2] = "ecall", ~state[myproc(c)].killed
  PROVE  IInv'
<1> DEFINE f == Nth(s, 1)
           g == Nth(s, 2)
           x == <<"sys_pause">>
           y == <<"killed", "ecall">>
           z == <<x, y, <<"next">>>>
           r == [hw[c] EXCEPT !.sie = TRUE]
           tr == [tf[t] EXCEPT !.epc = <<t, "next">>]
<1>1. View(c, t, s)
  BY Running
<1>2. f[1] = "save_epc" /\ f[2] = "ecall" /\ cpuid(c) = c
  BY <1>1 DEF save_epc, At, View, Regs, User, cpuid
<1>3. t \in Procs /\ g[1] = "ecall"
  BY <1>1, <1>2 DEF View, Onto, OfProcess, TrapEntry
<1>4. /\ hw[c] \in Registers /\ cpu[c] \in CpuStruct /\ Regs(c, t, s, hw[c], cpu[c], tf[t])
      /\ Pausing(s, pause[t], state[t].killed, ticks) /\ state[t].state = "RUNNING"
      /\ state[t] \in StateOf /\ tf[t] \in FrameOf /\ pause[t] \in PauseOf
  BY <1>1, <1>2, <1>3, RunningProcess DEF View
<1>5. /\ Stack(t, z) /\ Nth(z, 1) = x /\ Nth(z, 2) = y
      /\ \A L : HasOf(z, L) <=> "sys_pause" \in L \/ "killed" \in L \/ "next" \in L
      /\ Has(z, <<"killed", "ecall">>)
      /\ Bottom(z) = <<"next">>
  BY <1>3, CallStack
<1>6. MovesOf(c, t, z, r, state[t], tr, pause[t])
  <2>1. Top(c) = f /\ cur[c] = t /\ myproc(c) = t
    BY <1>1, <1>2 DEF View, myproc
  <2>2. PlusFour(hw[c].sepc) = <<t, "next">>
    BY <1>2, <1>4 DEF Regs, TrapEntry, PlusFour
  <2>3. stk' = [stk EXCEPT ![t] = z] /\ hw' = [hw EXCEPT ![c] = r] /\ tf' = [tf EXCEPT ![t] = tr]
    BY <1>2, <2>1, <2>2 DEF save_epc
  <2>4. UNCHANGED <<cpu, cur, lock, state, ticks, pause, plic>>
    BY DEF save_epc, clock
  <2> HIDE DEF z, r, tr
  <2>5. QED
    BY <2>3, <2>4 DEF MovesOf, IInv, Types
<1>7. r \in Registers /\ r = [hw[c] EXCEPT !.sie = TRUE]
  BY <1>4 DEF Registers
<1>8. tr \in FrameOf /\ tr.epc = <<t, "next">>
  <2>1. <<t, "next">> \in Pc
    BY <1>3 DEF Pc, Threads, Labels, OfProcess, User
  <2>2. QED
    BY <1>4, <2>1 DEF FrameOf
<1>9. x[1] = "sys_pause" /\ y[1] = "killed" /\ <<"next">>[1] = "next"
  OBVIOUS
<1> HIDE DEF x, y, z, r, tr
<1>10. SameLocks(t, s, z)
  BY <1>2, <1>5, <1>9 DEF SameLocks, Held
<1>11. Regs(c, t, z, r, cpu[c], tr)
  <2>1. Depth(x, y) = 0 /\ Depth(f, g) = 0 /\ ~HasOf(z, Handlers)
    BY <1>2, <1>5, <1>9 DEF Depth, Handlers
  <2> HIDE DEF f, g
  <2>2. r.sie /\ r.tp = c /\ r.stvec = "kernelvec" /\ cpu[c].noff = 0
    BY <1>2, <1>4, <1>7, <2>1 DEF Regs, f, g, Registers, User
  <2>3. QED
    BY <1>5, <1>9, <2>1, <2>2 DEF Regs, User, TrapEntry, Open
<1>12. Keeps(t, z, state[t], tr)
  BY <1>5, <1>8, <1>9 DEF Keeps
<1>13. Pausing(z, pause[t], state[t].killed, ticks)
  BY <1>4, <1>5 DEF Pausing, PauseLabels
<1>14. Local(c, t, s, z, r, state[t], tr, pause[t])
  BY <1>2, <1>3, <1>4, <1>5, <1>6, <1>7, <1>8, <1>9, <1>10, <1>11, <1>12, <1>13 DEF Local
<1>15. QED
  BY <1>14, ProcStep

LEMMA EcallStep ==
  ASSUME IInv, NEW c \in CPUs, NEW t, t = cur[c], NEW s, s = stk[t], ecall(c)
  PROVE  IInv'
<1> DEFINE f == Nth(s, 1)
           y == <<hw[c].stvec, "ecall">>
           z == Add(y, s)
           r == TrapRegisters(c, t, f)
<1>1. View(c, t, s)
  BY Running
<1>2. f[1] = "ecall" /\ Interruptible(c) /\ Trap(c, "ecall")
  BY <1>1 DEF ecall, At, View, Interruptible, InUser
<1>3. PICK n \in PauseArgs : pause' = [pause EXCEPT ![t].n = n]
  BY DEF ecall
<1>4. "ecall" \in Causes /\ y = <<hw[c].stvec, "ecall">> /\ z = Add(y, s) /\ r = TrapRegisters(c, t, Nth(s, 1))
  BY DEF Causes
<1> HIDE DEF y, z, r
<1>5. /\ Trapped(c, t, s, z, r, y)
      /\ stk' = [stk EXCEPT ![t] = z] /\ hw' = [hw EXCEPT ![c] = r] /\ lock' = lock
      /\ UNCHANGED <<cpu, cur, state, tf, ticks, plic>>
  BY <1>2, <1>4, TrapTaken
<1>6. /\ t \in Procs /\ Stack(t, s) /\ Nth(s, 2)[1] = "none" /\ (Len(s) > 1 <=> Nth(s, 2)[1] # "none")
      /\ state[t].state = "RUNNING"
  BY <1>1, <1>2 DEF View, Onto, OfProcess, User
<1>7. state[t] \in StateOf /\ tf[t] \in FrameOf /\ pause[t] \in PauseOf
  BY <1>6, RunningProcess
<1> DEFINE pz == [pause[t] EXCEPT !.n = n]
<1>8. n \in Int /\ 2 * n < UINT
  BY TrapsAssumption
<1>9. pz \in PauseOf /\ pz.n = n
  BY <1>7, <1>8 DEF PauseOf
<1>10. MovesOf(c, t, z, r, state[t], tf[t], pz)
  BY <1>3, <1>5 DEF MovesOf, IInv, Types
<1> HIDE DEF pz
<1>11. /\ y[1] = "uservec" /\ Nth(z, 1) = y
       /\ \A L : HasOf(z, L) <=> y[1] \in L \/ HasOf(s, L)
       /\ \A e : Has(z, e) <=> y = e \/ Has(s, e)
       /\ Stack(t, z) /\ SameLocks(t, s, z) /\ r \in Registers /\ Regs(c, t, z, r, cpu[c], tf[t])
  BY <1>2, <1>5 DEF Trapped, User
<1>12. (\A L : HasOf(z, L) <=> "uservec" \in L \/ "ecall" \in L) /\ ~Has(z, <<"killed", "ecall">>)
  <2>1. (\A L : ~HasOf(Tail(s), L)) /\ (\A e : ~Has(Tail(s), e))
    BY <1>6, Single DEF Stack
  <2>2. f # <<"killed", "ecall">> /\ y # <<"killed", "ecall">>
    BY <1>2, <1>11
  <2>3. QED
    BY <1>1, <1>2, <1>11, <2>1, <2>2 DEF View
<1>13. Keeps(t, z, state[t], tf[t])
  BY <1>11, <1>12 DEF Keeps, TrapExit
<1>14. Pausing(z, pz, state[t].killed, ticks)
  BY <1>8, <1>9, <1>12 DEF Pausing
<1>15. Local(c, t, s, z, r, state[t], tf[t], pz)
  BY <1>2, <1>6, <1>7, <1>9, <1>10, <1>11, <1>13, <1>14 DEF Local
<1>16. QED
  BY <1>15, ProcStep
\* A step of a device handler, which other processes may notice in their state and their pause.
Serves(c, t, s, z) ==
  /\ Stack(t, z) /\ SameFrames(s, z) /\ SameLocks(t, s, z)
  /\ stk' = [stk EXCEPT ![t] = z] /\ UNCHANGED <<hw, cpu, cur, lock, tf>>
  /\ Regs(c, t, z, hw[c], cpu[c], tf[t])
  /\ Nth(s, 1)[1] # "sched" /\ Nth(z, 1)[1] \notin {"sched", "resumed"}
  /\ state' \in [Procs -> StateOf] /\ pause' \in [Procs -> PauseOf] /\ ticks' \in 0..(UINT - 1)
  /\ plic' \in [Irqs -> {"quiet", "pending", "claimed"}] /\ ClaimInv'
  /\ \A p \in Procs : \/ state'[p] = state[p]
                      \/ p # t /\ state[p].state = "SLEEPING" /\ state'[p].state = "RUNNABLE"
  /\ \A p \in Procs : \A q : Pausing(q, pause[p], state[p].killed, ticks)
                           => Pausing(q, pause'[p], state'[p].killed, ticks')

LEMMA ServesStep ==
  ASSUME IInv, NEW c \in CPUs, NEW t, t = cur[c], NEW s, s = stk[t], NEW z, Serves(c, t, s, z)
  PROVE  IInv'
<1> USE DEF Serves
<1>1. View(c, t, s)
  BY Running
<1>2. stk \in [Threads -> Seq(Frame)] /\ t \in Threads /\ z \in Seq(Frame)
  BY <1>1 DEF IInv, Types, Stack
<1>3. stk'[t] = z /\ stk' \in [Threads -> Seq(Frame)]
  BY <1>2
<1>4. Types'
  BY <1>3 DEF IInv, Types, StateOf, PauseOf
<1>5. \A l \in Locks : l \in Held(t, Nth(z, 1), Nth(z, 2)) <=> lock[l] = c
  BY <1>1 DEF View, SameLocks
<1>6. CpuRegs(c)'
  <2>1. cur'[c] = t /\ hw' = hw /\ cpu' = cpu /\ tf' = tf /\ lock' = lock
    OBVIOUS
  <2>2. Regs(c, t, z, hw'[c], cpu'[c], tf'[t])
    BY <2>1
  <2>3. \A l \in Locks : lock'[l] = c <=> l \in Held(t, Nth(z, 1), Nth(z, 2))
    BY <1>5, <2>1
  <2>4. QED
    BY <1>3, <2>1, <2>2, <2>3 DEF CpuRegs
<1>7. ASSUME t \in Procs PROVE ProcKeeps(t)' /\ state'[t].state = "RUNNING"
  <2>1. /\ Keeps(t, s, state[t], tf[t]) /\ Pausing(s, pause[t], state[t].killed, ticks)
        /\ state[t].state = "RUNNING" /\ state'[t] = state[t] /\ tf'[t] = tf[t]
    BY <1>1, <1>7 DEF View
  <2>2. Keeps(t, z, state'[t], tf'[t])
    BY <2>1 DEF Keeps, SameFrames
  <2>3. Pausing(z, pause[t], state[t].killed, ticks)
    BY <2>1 DEF Pausing, SameFrames
  <2>4. Pausing(z, pause'[t], state'[t].killed, ticks')
    BY <1>7, <2>3
  <2>5. QED
    BY <1>3, <2>1, <2>2, <2>4 DEF ProcKeeps
<1>8. ASSUME NEW p \in Procs, p # t
      PROVE  /\ tf'[p] = tf[p]
             /\ \/ state'[p] = state[p]
                \/ state[p].state = "SLEEPING" /\ state'[p].state = "RUNNABLE"
             /\ Pausing(stk[p], pause'[p], state'[p].killed, ticks')
  <2>1. Pausing(stk[p], pause[p], state[p].killed, ticks)
    BY DEF IInv, ProcKeeps
  <2>2. Pausing(stk[p], pause'[p], state'[p].killed, ticks')
    BY <2>1
  <2>3. QED
    BY <2>2
<1>9. /\ \A d \in CPUs : d # c => hw'[d] = hw[d] /\ cpu'[d] = cpu[d]
      /\ \A l \in Locks : lock'[l] = lock[l] \/ {lock[l], lock'[l]} \subseteq {c, Nobody}
      /\ \A p \in Procs : p # t =>
           /\ tf'[p] = tf[p]
           /\ \/ state'[p] = state[p]
              \/ state[p].state = "SLEEPING" /\ state'[p].state = "RUNNABLE"
           /\ Pausing(stk[p], pause'[p], state'[p].killed, ticks')
      /\ t \in Procs => ProcKeeps(t)' /\ (state'[t].state = "RUNNING" \/ Nth(z, 1)[1] = "sched")
  BY <1>7, <1>8
<1>10. /\ IInv /\ t = cur[c] /\ Stack(t, z) /\ stk' = [stk EXCEPT ![t] = z] /\ cur' = cur /\ ClaimInv'
  OBVIOUS
<1> HIDE DEF Serves
<1>11. QED
  BY ONLY c \in CPUs, <1>4, <1>6, <1>9, <1>10, Step, ZenonT(60)

\* The clock goes on by one, over the wrap too.
LEMMA TickOn ==
  ASSUME NEW m \in Nat \ {0}, NEW a \in 0 .. m - 1, NEW b \in 0 .. m - 1, NEW n \in Int, 2 * n < m,
         (a - b) % m < n
  PROVE  (((a + 1) % m) - b) % m = ((a - b) % m) + 1
<1> DEFINE q == (a - b) \div m
           d == (a - b) % m
           q1 == (a + 1) \div m
           a1 == (a + 1) % m
<1>1. q \in Int /\ d \in 0 .. m - 1 /\ a - b = q * m + d
  <2>1. a - b \in Int
    OBVIOUS
  <2>2. QED
    BY <2>1, ModSplit
<1>2. q1 \in Int /\ a1 \in 0 .. m - 1 /\ a + 1 = q1 * m + a1
  <2>1. a + 1 \in Int
    OBVIOUS
  <2>2. QED
    BY <2>1, ModSplit
<1>3. d < n
  OBVIOUS
<1> HIDE DEF q, d, q1, a1
<1>4. d + 1 \in 0 .. m - 1
  BY <1>1, <1>3
<1>5. a1 - b = (q - q1) * m + (d + 1) /\ q - q1 \in Int
  BY <1>1, <1>2
<1>6. ((q - q1) * m + (d + 1)) % m = d + 1
  BY <1>4, <1>5, ModUnique
<1>7. (a1 - b) % m = d + 1
  BY <1>5, <1>6
<1>8. QED
  BY <1>7 DEF a1, d
LEMMA WakeupEndStep ==
  ASSUME IInv, NEW c \in CPUs, NEW t, t = cur[c], NEW s, s = stk[t], wakeup(c), Then(c, <<>>),
         state' = state
  PROVE  IInv'
<1> DEFINE f == Nth(s, 1)
           g == Nth(s, 2)
           h == Nth(s, 3)
           z == Put0(s)
           r == hw[c]
<1>1. View(c, t, s)
  BY Running
<1>2. f[1] = "wakeup"
  BY <1>1 DEF wakeup, At, View
<1>3. Stack(t, s) /\ Onto(t, f, g, h) /\ (Len(s) > 1 <=> g[1] # "none")
  BY <1>1 DEF View
<1>4. /\ g = <<"release", "tickslock">> /\ g[1] = "release" /\ g[2] = "tickslock" /\ h[1] # "asleep"
  BY <1>2, <1>3 DEF Onto, OfProcess, User, PauseLabels, TrapEntry, TrapExit, OfScheduler, OfDevice,
     Handlers
<1>6. Moves(c, t, z, r, cpu[c]) /\ lock' = lock
  BY <1>1, <1>2 DEF wakeup, Then, Moves, View, Put0, IInv, Types, regs, clock
<1>7. hw[c] \in Registers /\ cpu[c] \in CpuStruct /\ Regs(c, t, s, hw[c], cpu[c], tf[t])
  BY <1>1 DEF View
<1>8. r \in Registers
  BY <1>1, <1>2, <1>4, <1>7 DEF Registers
<1>9. /\ Stack(t, z)
      /\ Nth(z, 1) = g /\ Nth(z, 2) = h
      /\ \A L : HasOf(z, L) <=> HasOf(Tail(s), L)
      /\ \A e : Has(z, e) <=> Has(Tail(s), e)
      /\ Bottom(z) = Bottom(s)
  <2>1. Len(s) > 1
    BY <1>3, <1>4
  <2>2. QED
    BY <1>3, <2>1, Pop
<1> HIDE DEF z
<1>10. SameFrames(s, z)
  BY <1>1, <1>2, <1>3, <1>4, <1>9 DEF View, SameFrames, User, TrapExit, PauseLabels, Open
<1>11. SameLocks(t, s, z)
  BY <1>2, <1>4, <1>9 DEF SameLocks, Held, User, Open, PauseLabels
<1>12. Regs(c, t, z, r, cpu[c], tf[t])
  <2>1. /\ HasOf(z, Handlers) <=> HasOf(s, Handlers)
        /\ Has(z, <<"killed", "ecall">>) <=> Has(s, <<"killed", "ecall">>)
    BY <1>1, <1>2, <1>4, <1>9 DEF View, Handlers, User
  <2>2. Depth(g, h) = Depth(f, g)
    BY <1>2, <1>4 DEF Depth, User, Open, PauseLabels
  <2> HIDE DEF f, g, h
  <2>3. QED
    BY <1>2, <1>4, <1>7, <1>8, <1>9, <2>1, <2>2 DEF Regs, f, g, h, Registers, CpuStruct, User,
       TrapEntry, Open, PauseLabels
<1>13. Quiet(c, t, s, z, r, cpu[c])
  <2>1. /\ Nth(s, 1)[1] \notin {"plic_complete", "sched"}
        /\ Nth(z, 1)[1] \notin {"plic_complete", "sched", "resumed"}
    BY <1>2, <1>4, <1>9 DEF User, Open, PauseLabels
  <2>2. QED
    BY <1>6, <1>7, <1>8, <1>9, <1>10, <1>11, <1>12, <2>1 DEF Quiet
<1>14. QED
  BY <1>13, QuietStep

LEMMA WakeupOneStep ==
  ASSUME IInv, NEW c \in CPUs, NEW t, t = cur[c], NEW s, s = stk[t], wakeup(c), NEW p \in Top(c)[2],
         state' = [state EXCEPT ![p].state = IF @ = "SLEEPING" THEN "RUNNABLE" ELSE @],
         Then(c, <<<<"wakeup", Top(c)[2] \ {p}>>>>)
  PROVE  IInv'
<1> DEFINE f == Nth(s, 1)
           g == Nth(s, 2)
           h == Nth(s, 3)
           x == <<"wakeup", f[2] \ {p}>>
           z == Put1(x, s)
<1>1. View(c, t, s)
  BY Running
<1>2. f[1] = "wakeup" /\ f[2] \in SUBSET Procs
  BY <1>1, Arguments DEF wakeup, At, View
<1>3. Stack(t, s) /\ Onto(t, f, g, h) /\ (Len(s) > 1 <=> g[1] # "none")
  BY <1>1 DEF View
<1>4. /\ g = <<"release", "tickslock">> /\ g[1] = "release" /\ g[2] = "tickslock" /\ h[1] # "asleep"
  BY <1>2, <1>3 DEF Onto, OfProcess, User, PauseLabels, TrapEntry, TrapExit, OfScheduler, OfDevice,
     Handlers
<1>5. /\ x \in Frame /\ x[1] = "wakeup"
  BY <1>1, <1>2, <1>4, Made DEF Bare, Causes, User, PauseLabels
<1>o. Onto(t, x, g, h)
  BY <1>1, <1>2, <1>3, <1>4, <1>5 DEF Onto, OfProcess, User, PauseLabels, TrapEntry, TrapExit,
     OfScheduler, OfDevice, Handlers
<1>6. stk' = [stk EXCEPT ![t] = z] /\ UNCHANGED <<hw, cpu, cur, lock, tf>>
  BY <1>1, <1>2 DEF wakeup, Then, View, Put1, regs
<1>7. hw[c] \in Registers /\ cpu[c] \in CpuStruct /\ Regs(c, t, s, hw[c], cpu[c], tf[t])
  BY <1>1 DEF View
<1>8. hw[c] \in Registers
  BY <1>1, <1>2, <1>4, <1>7 DEF Registers
<1> HIDE DEF x
<1>9. /\ Stack(t, z)
      /\ Nth(z, 1) = x /\ Nth(z, 2) = g
      /\ \A L : HasOf(z, L) <=> x[1] \in L \/ HasOf(Tail(s), L)
      /\ \A e : Has(z, e) <=> x = e \/ Has(Tail(s), e)
      /\ Len(s) > 1 => Bottom(z) = Bottom(s)
  <2>1. Stack(t, s) /\ x[1] \notin Handlers
    BY <1>2, <1>3, <1>5 DEF Handlers
  <2>2. QED
    BY <1>5, <1>o, <2>1, Push1
<1> HIDE DEF z
<1>10. SameFrames(s, z)
  BY <1>1, <1>2, <1>3, <1>4, <1>5, <1>9 DEF View, SameFrames, User, TrapExit, PauseLabels, Open
<1>11. SameLocks(t, s, z)
  BY <1>2, <1>4, <1>5, <1>9 DEF SameLocks, Held, User, Open, PauseLabels
<1>12. Regs(c, t, z, hw[c], cpu[c], tf[t])
  <2>1. /\ HasOf(z, Handlers) <=> HasOf(s, Handlers)
        /\ Has(z, <<"killed", "ecall">>) <=> Has(s, <<"killed", "ecall">>)
    BY <1>1, <1>2, <1>4, <1>5, <1>9 DEF View, Handlers, User
  <2>2. Depth(x, g) = Depth(f, g)
    BY <1>2, <1>4, <1>5 DEF Depth, User, Open, PauseLabels
  <2> HIDE DEF f, g, h
  <2>3. QED
    BY <1>2, <1>4, <1>5, <1>7, <1>8, <1>9, <2>1, <2>2 DEF Regs, f, g, h, Registers, CpuStruct, User,
       TrapEntry, Open, PauseLabels
<1>a. p \in Procs
  BY <1>1, <1>2 DEF View
<1>13. /\ state' \in [Procs -> StateOf] /\ pause' \in [Procs -> PauseOf] /\ ticks' \in 0..(UINT - 1)
       /\ plic' \in [Irqs -> {"quiet", "pending", "claimed"}] /\ pause' = pause /\ ticks' = ticks /\ plic' = plic
  <2>1. state \in [Procs -> StateOf]
    BY DEF IInv, Types, StateOf
  <2>2. state' \in [Procs -> StateOf]
    BY <1>a, <2>1 DEF StateOf, States
  <2>3. QED
    BY <2>2 DEF wakeup, IInv, Types, PauseOf, clock
<1>14. \A q \in Procs : state'[q].killed = state[q].killed
  BY <1>a DEF IInv, Types
<1>15. \A q \in Procs : \/ state'[q] = state[q]
                        \/ q # t /\ state[q].state = "SLEEPING" /\ state'[q].state = "RUNNABLE"
  <2>1. state \in [Procs -> StateOf]
    BY DEF IInv, Types, StateOf
  <2>2. t \in Procs => state[t].state = "RUNNING"
    BY <1>1, <1>2 DEF View
  <2>3. \A q \in Procs : q # p => state'[q] = state[q]
    BY <1>a, <2>1
  <2>4. CASE state[p].state = "SLEEPING"
    <3>1. state'[p].state = "RUNNABLE" /\ p # t
      BY <1>a, <2>1, <2>2, <2>4 DEF StateOf
    <3>2. QED
      BY <2>3, <2>4, <3>1
  <2>5. CASE state[p].state # "SLEEPING"
    <3>1. state'[p] = [state[p] EXCEPT !.state = state[p].state]
      BY <1>a, <2>1, <2>5
    <3>2. state'[p] = state[p]
      BY <1>a, <2>1, <3>1 DEF StateOf
    <3>3. QED
      BY <2>3, <3>2
  <2>6. QED
    BY <2>4, <2>5
<1>16. \A q \in Procs : \A w : Pausing(w, pause[q], state[q].killed, ticks)
                           => Pausing(w, pause'[q], state'[q].killed, ticks')
  BY <1>13, <1>14
<1>17. ClaimInv'
  <2>1. t \in Threads /\ plic' = plic
    BY <1>1, <1>13 DEF View
  <2>2. Nth(stk[t], 1)[1] # "plic_complete" /\ Nth(z, 1)[1] # "plic_complete"
    BY <1>2, <1>5, <1>9
  <2>3. QED
    BY <1>6, <2>1, <2>2, ClaimSame
<1>18. Serves(c, t, s, z)
  <2>1. Nth(s, 1)[1] # "sched" /\ Nth(z, 1)[1] \notin {"sched", "resumed"}
    BY <1>2, <1>4, <1>5, <1>9
  <2>2. QED
    BY <1>6, <1>7, <1>9, <1>10, <1>11, <1>12, <1>13, <1>14, <1>15, <1>16, <1>17, <2>1 DEF Serves
<1>19. QED
  BY <1>18, ServesStep

LEMMA TickStep ==
  ASSUME IInv, NEW c \in CPUs, NEW t, t = cur[c], NEW s, s = stk[t], tick(c)
  PROVE  IInv'
<1> DEFINE f == Nth(s, 1)
           g == Nth(s, 2)
           h == Nth(s, 3)
           x == <<"wakeup", Procs \ {t}>>
           y == <<"release", "tickslock">>
           z == Put2(x, y, s)
<1>1. View(c, t, s)
  BY Running
<1>2. f[1] = "tick" /\ cpuid(c) = c
  BY <1>1, Arguments DEF tick, At, View, Regs, User, cpuid
<1>3. Stack(t, s) /\ Onto(t, f, g, h) /\ (Len(s) > 1 <=> g[1] # "none")
  BY <1>1 DEF View
<1>4. /\ AfterDevice(g, h) /\ g[1] # "none" /\ g[1] \in {"killed", "restore", "acquire"} /\ (g[1] = "acquire" => h[1] = "yield")
  BY <1>2, <1>3 DEF Onto, OfProcess, User, PauseLabels, TrapEntry, TrapExit, OfScheduler, OfDevice,
     Handlers, AfterDevice
<1>5. /\ x \in Frame /\ x[1] = "wakeup"
      /\ y \in Frame /\ y[1] = "release"
  BY <1>1, <1>2, <1>4, Made DEF Bare, Causes, User, PauseLabels, Locks
<1>o. Onto(t, x, y, g) /\ Onto(t, y, g, h)
  BY <1>1, <1>2, <1>3, <1>4, <1>5 DEF Onto, OfProcess, User, PauseLabels, TrapEntry, TrapExit,
     OfScheduler, OfDevice, Handlers, AfterDevice
<1>6. stk' = [stk EXCEPT ![t] = z] /\ UNCHANGED <<hw, cpu, cur, lock, tf>>
  BY <1>1, <1>2 DEF tick, Then, View, Put2, regs, myproc
<1>7. hw[c] \in Registers /\ cpu[c] \in CpuStruct /\ Regs(c, t, s, hw[c], cpu[c], tf[t])
  BY <1>1 DEF View
<1>8. hw[c] \in Registers
  BY <1>1, <1>2, <1>4, <1>7 DEF Registers
<1> HIDE DEF x, y
<1>9. /\ Stack(t, z)
      /\ Nth(z, 1) = x /\ Nth(z, 2) = y
      /\ \A L : HasOf(z, L) <=> x[1] \in L \/ y[1] \in L \/ HasOf(Tail(s), L)
      /\ \A e : Has(z, e) <=> x = e \/ y = e \/ Has(Tail(s), e)
      /\ Len(s) > 1 => Bottom(z) = Bottom(s)
  <2>1. Stack(t, s) /\ x[1] \notin Handlers /\ y[1] \notin Handlers
    BY <1>2, <1>3, <1>5 DEF Handlers
  <2>2. QED
    BY <1>5, <1>o, <2>1, Push2
<1> HIDE DEF z
<1>10. SameFrames(s, z)
  BY <1>1, <1>2, <1>3, <1>4, <1>5, <1>9 DEF View, SameFrames, User, TrapExit, PauseLabels, Open
<1>11. SameLocks(t, s, z)
  BY <1>2, <1>4, <1>5, <1>9 DEF SameLocks, Held, User, Open, PauseLabels
<1>12. Regs(c, t, z, hw[c], cpu[c], tf[t])
  <2>1. /\ HasOf(z, Handlers) <=> HasOf(s, Handlers)
        /\ Has(z, <<"killed", "ecall">>) <=> Has(s, <<"killed", "ecall">>)
    BY <1>1, <1>2, <1>4, <1>5, <1>9 DEF View, Handlers, User
  <2>2. Depth(x, y) = Depth(f, g)
    BY <1>2, <1>4, <1>5 DEF Depth, User, Open, PauseLabels
  <2> HIDE DEF f, g, h
  <2>3. QED
    BY <1>2, <1>4, <1>5, <1>7, <1>8, <1>9, <2>1, <2>2 DEF Regs, f, g, h, Registers, CpuStruct, User,
       TrapEntry, Open, PauseLabels
<1>k. UINT \in Nat \ {0} /\ ticks \in 0..(UINT - 1) /\ ticks' = (ticks + 1) % UINT
  BY Names DEF tick, NextTick, IInv, Types
<1>13. state' = state /\ plic' = plic /\ state' \in [Procs -> StateOf]
       /\ plic' \in [Irqs -> {"quiet", "pending", "claimed"}]
  BY DEF tick, IInv, Types, StateOf
<1>14. ticks' \in 0..(UINT - 1)
  <2>1. ticks + 1 \in Int
    BY <1>k
  <2>2. QED
    BY <1>k, <2>1, ModSplit
<1>15. ASSUME NEW p \in Procs
       PROVE  /\ pause[p] \in PauseOf
              /\ pause'[p] = [pause[p] EXCEPT !.passed = IF pause[p].passed < pause[p].n THEN pause[p].passed + 1 ELSE pause[p].passed]
              /\ 2 * pause[p].n < UINT
  <2>1. pause[p] \in PauseOf /\ 2 * pause[p].n < UINT
    BY DEF IInv, Types, PauseOf, ProcKeeps, Pausing
  <2>2. pause'[p] = [pause[p] EXCEPT !.passed = IF pause[p].passed < pause[p].n THEN pause[p].passed + 1 ELSE pause[p].passed]
    BY DEF tick
  <2>3. QED
    BY <2>1, <2>2
<1>16. ASSUME NEW p \in Procs
       PROVE  /\ pause'[p] \in PauseOf /\ pause'[p].n = pause[p].n /\ pause'[p].ticks0 = pause[p].ticks0
              /\ pause'[p].passed = IF pause[p].passed < pause[p].n THEN pause[p].passed + 1 ELSE pause[p].passed
  <2> DEFINE e == IF pause[p].passed < pause[p].n THEN pause[p].passed + 1 ELSE pause[p].passed
  <2>1. pause[p].n \in Int /\ pause[p].passed \in 0..UINT /\ 2 * pause[p].n < UINT /\ UINT \in Nat
    BY <1>k, <1>15 DEF PauseOf
  <2>2. e \in 0..UINT
    <3>1. \A a \in Int, b \in 0..UINT : 2 * a < UINT /\ b < a => b + 1 \in 0..UINT
      BY <1>k
    <3>2. QED
      BY <2>1, <3>1
  <2>3. pause'[p] = [pause[p] EXCEPT !.passed = e]
    BY <1>15
  <2> HIDE DEF e
  <2>4. pause'[p] \in PauseOf /\ pause'[p].n = pause[p].n /\ pause'[p].ticks0 = pause[p].ticks0 /\ pause'[p].passed = e
    BY <1>15, <2>2, <2>3 DEF PauseOf
  <2>5. QED
    BY <2>4 DEF e
<1>17. pause' \in [Procs -> PauseOf]
  <2>1. DOMAIN pause' = Procs /\ pause' = [p \in Procs |-> pause'[p]]
    BY DEF tick
  <2>2. QED
    BY <1>16, <2>1
<1>18. ASSUME NEW p \in Procs, NEW q, Pausing(q, pause[p], state[p].killed, ticks)
       PROVE  Pausing(q, pause'[p], state'[p].killed, ticks')
  <2>1. /\ pause[p].n \in Int /\ pause[p].passed \in 0..UINT /\ pause[p].ticks0 \in 0..(UINT - 1)
        /\ 2 * pause[p].n < UINT
    BY <1>15 DEF PauseOf
  <2>2. pause[p].passed >= pause[p].n => pause'[p].passed >= pause'[p].n
    BY <1>16, <2>1
  <2>3. ASSUME pause[p].passed = (ticks - pause[p].ticks0) % UINT
        PROVE  pause'[p].passed >= pause'[p].n \/ pause'[p].passed = (ticks' - pause'[p].ticks0) % UINT
    <3>1. CASE pause[p].passed < pause[p].n
      <4>1. (((ticks + 1) % UINT) - pause[p].ticks0) % UINT = ((ticks - pause[p].ticks0) % UINT) + 1
        BY <1>k, <2>1, <2>3, <3>1, TickOn
      <4>2. QED
        BY <1>k, <1>16, <2>3, <3>1, <4>1
    <3>2. CASE ~(pause[p].passed < pause[p].n)
      BY <2>1, <2>2, <3>2
    <3>3. QED
      BY <3>1, <3>2
  <2>4. state'[p].killed = state[p].killed /\ pause'[p].n = pause[p].n
    BY <1>13, <1>16
  <2> DEFINE old == (ticks - pause[p].ticks0) % UINT
             new == (ticks' - pause'[p].ticks0) % UINT
  <2>5. Pausing(q, pause[p], state[p].killed, ticks)
    BY <1>18
  <2>6. HasOf(q, {"pause_loop"}) => pause[p].passed >= pause[p].n \/ pause[p].passed = old
    BY <2>5 DEF Pausing
  <2>7. HasOf(q, {"pause_loop"}) => pause'[p].passed >= pause'[p].n \/ pause'[p].passed = new
    BY <2>2, <2>3, <2>6
  <2>8. QED
    BY <2>1, <2>2, <2>4, <2>5, <2>7 DEF Pausing
<1>19. ClaimInv'
  <2>1. t \in Threads /\ plic' = plic
    BY <1>1, <1>13 DEF View
  <2>2. Nth(stk[t], 1)[1] # "plic_complete" /\ Nth(z, 1)[1] # "plic_complete"
    BY <1>2, <1>5, <1>9
  <2>3. QED
    BY <1>6, <2>1, <2>2, ClaimSame
<1>20. Serves(c, t, s, z)
  <2>1. Nth(s, 1)[1] # "sched" /\ Nth(z, 1)[1] \notin {"sched", "resumed"}
    BY <1>2, <1>4, <1>5, <1>9
  <2>2. QED
    BY <1>6, <1>7, <1>9, <1>10, <1>11, <1>12, <1>13, <1>14, <1>17, <1>18, <1>19, <2>1 DEF Serves
<1>21. QED
  BY <1>20, ServesStep
LEMMA ClaimNoneStep ==
  ASSUME IInv, NEW c \in CPUs, NEW t, t = cur[c], NEW s, s = stk[t], plic_claim(c), Then(c, <<>>),
         plic' = plic
  PROVE  IInv'
<1> DEFINE f == Nth(s, 1)
           g == Nth(s, 2)
           h == Nth(s, 3)
           z == Put0(s)
           r == hw[c]
<1>1. View(c, t, s)
  BY Running
<1>2. f[1] = "plic_claim"
  BY <1>1 DEF plic_claim, At, View
<1>3. Stack(t, s) /\ Onto(t, f, g, h) /\ (Len(s) > 1 <=> g[1] # "none")
  BY <1>1 DEF View
<1>4. /\ AfterDevice(g, h) /\ g[1] # "none" /\ g[1] \in {"killed", "restore", "acquire"} /\ (g[1] = "acquire" => h[1] = "yield")
  BY <1>2, <1>3 DEF Onto, OfProcess, User, PauseLabels, TrapEntry, TrapExit, OfScheduler, OfDevice,
     Handlers, AfterDevice
<1>6. Moves(c, t, z, r, cpu[c]) /\ lock' = lock
  BY <1>1, <1>2 DEF plic_claim, Then, Moves, View, Put0, IInv, Types, regs, clock
<1>7. hw[c] \in Registers /\ cpu[c] \in CpuStruct /\ Regs(c, t, s, hw[c], cpu[c], tf[t])
  BY <1>1 DEF View
<1>8. r \in Registers
  BY <1>1, <1>2, <1>4, <1>7 DEF Registers
<1>9. /\ Stack(t, z)
      /\ Nth(z, 1) = g /\ Nth(z, 2) = h
      /\ \A L : HasOf(z, L) <=> HasOf(Tail(s), L)
      /\ \A e : Has(z, e) <=> Has(Tail(s), e)
      /\ Bottom(z) = Bottom(s)
  <2>1. Len(s) > 1
    BY <1>3, <1>4
  <2>2. QED
    BY <1>3, <2>1, Pop
<1> HIDE DEF z
<1>10. SameFrames(s, z)
  BY <1>1, <1>2, <1>3, <1>4, <1>9 DEF View, SameFrames, User, TrapExit, PauseLabels, Open
<1>11. SameLocks(t, s, z)
  BY <1>2, <1>4, <1>9 DEF SameLocks, Held, User, Open, PauseLabels
<1>12. Regs(c, t, z, r, cpu[c], tf[t])
  <2>1. /\ HasOf(z, Handlers) <=> HasOf(s, Handlers)
        /\ Has(z, <<"killed", "ecall">>) <=> Has(s, <<"killed", "ecall">>)
    BY <1>1, <1>2, <1>4, <1>9 DEF View, Handlers, User
  <2>2. Depth(g, h) = Depth(f, g)
    BY <1>2, <1>4 DEF Depth, User, Open, PauseLabels
  <2> HIDE DEF f, g, h
  <2>3. QED
    BY <1>2, <1>4, <1>7, <1>8, <1>9, <2>1, <2>2 DEF Regs, f, g, h, Registers, CpuStruct, User,
       TrapEntry, Open, PauseLabels
<1>13. Quiet(c, t, s, z, r, cpu[c])
  <2>1. /\ Nth(s, 1)[1] \notin {"plic_complete", "sched"}
        /\ Nth(z, 1)[1] \notin {"plic_complete", "sched", "resumed"}
    BY <1>2, <1>4, <1>9 DEF User, Open, PauseLabels
  <2>2. QED
    BY <1>6, <1>7, <1>8, <1>9, <1>10, <1>11, <1>12, <2>1 DEF Quiet
<1>14. QED
  BY <1>13, QuietStep

LEMMA ClaimOneStep ==
  ASSUME IInv, NEW c \in CPUs, NEW t, t = cur[c], NEW s, s = stk[t], plic_claim(c), NEW i \in Irqs,
         plic[i] = "pending", plic' = [plic EXCEPT ![i] = "claimed"], Then(c, PlicComplete(i))
  PROVE  IInv'
<1> DEFINE f == Nth(s, 1)
           g == Nth(s, 2)
           h == Nth(s, 3)
           x == <<"plic_complete", i>>
           z == Put1(x, s)
<1>1. View(c, t, s)
  BY Running
<1>2. f[1] = "plic_claim"
  BY <1>1 DEF plic_claim, At, View
<1>3. Stack(t, s) /\ Onto(t, f, g, h) /\ (Len(s) > 1 <=> g[1] # "none")
  BY <1>1 DEF View
<1>4. /\ AfterDevice(g, h) /\ g[1] # "none" /\ g[1] \in {"killed", "restore", "acquire"} /\ (g[1] = "acquire" => h[1] = "yield")
  BY <1>2, <1>3 DEF Onto, OfProcess, User, PauseLabels, TrapEntry, TrapExit, OfScheduler, OfDevice,
     Handlers, AfterDevice
<1>5. /\ x \in Frame /\ x[1] = "plic_complete"
  BY <1>1, <1>2, <1>4, Made DEF Bare, Causes, User, PauseLabels
<1>o. Onto(t, x, g, h)
  BY <1>1, <1>2, <1>3, <1>4, <1>5 DEF Onto, OfProcess, User, PauseLabels, TrapEntry, TrapExit,
     OfScheduler, OfDevice, Handlers, AfterDevice
<1>6. stk' = [stk EXCEPT ![t] = z] /\ UNCHANGED <<hw, cpu, cur, lock, tf>>
  BY <1>1, <1>2 DEF plic_claim, Then, View, Put1, regs, PlicComplete
<1>7. hw[c] \in Registers /\ cpu[c] \in CpuStruct /\ Regs(c, t, s, hw[c], cpu[c], tf[t])
  BY <1>1 DEF View
<1>8. hw[c] \in Registers
  BY <1>1, <1>2, <1>4, <1>7 DEF Registers
<1> HIDE DEF x
<1>9. /\ Stack(t, z)
      /\ Nth(z, 1) = x /\ Nth(z, 2) = g
      /\ \A L : HasOf(z, L) <=> x[1] \in L \/ HasOf(Tail(s), L)
      /\ \A e : Has(z, e) <=> x = e \/ Has(Tail(s), e)
      /\ Len(s) > 1 => Bottom(z) = Bottom(s)
  <2>1. Stack(t, s) /\ x[1] \notin Handlers
    BY <1>2, <1>3, <1>5 DEF Handlers
  <2>2. QED
    BY <1>5, <1>o, <2>1, Push1
<1> HIDE DEF z
<1>10. SameFrames(s, z)
  BY <1>1, <1>2, <1>3, <1>4, <1>5, <1>9 DEF View, SameFrames, User, TrapExit, PauseLabels, Open
<1>11. SameLocks(t, s, z)
  BY <1>2, <1>4, <1>5, <1>9 DEF SameLocks, Held, User, Open, PauseLabels
<1>12. Regs(c, t, z, hw[c], cpu[c], tf[t])
  <2>1. /\ HasOf(z, Handlers) <=> HasOf(s, Handlers)
        /\ Has(z, <<"killed", "ecall">>) <=> Has(s, <<"killed", "ecall">>)
    BY <1>1, <1>2, <1>4, <1>5, <1>9 DEF View, Handlers, User
  <2>2. Depth(x, g) = Depth(f, g)
    BY <1>2, <1>4, <1>5 DEF Depth, User, Open, PauseLabels
  <2> HIDE DEF f, g, h
  <2>3. QED
    BY <1>2, <1>4, <1>5, <1>7, <1>8, <1>9, <2>1, <2>2 DEF Regs, f, g, h, Registers, CpuStruct, User,
       TrapEntry, Open, PauseLabels
<1>13. /\ state' = state /\ pause' = pause /\ ticks' = ticks
       /\ state' \in [Procs -> StateOf] /\ pause' \in [Procs -> PauseOf] /\ ticks' \in 0..(UINT - 1)
  BY DEF plic_claim, IInv, Types, StateOf, PauseOf, clock
<1>14. plic \in [Irqs -> {"quiet", "pending", "claimed"}] /\ plic' \in [Irqs -> {"quiet", "pending", "claimed"}]
  BY DEF IInv, Types
<1>15. t \in Threads /\ stk'[t] = z /\ \A b \in Threads : b # t => stk'[b] = stk[b]
  BY <1>1, <1>6 DEF View, IInv, Types
<1>16. /\ \A b \in Threads : b # t => Nth(stk'[b], 1) = Nth(stk[b], 1)
       /\ Nth(stk'[t], 1) = <<"plic_complete", i>>
  BY <1>5, <1>9, <1>15 DEF x
<1>17. \A j : Nth(stk[t], 1) # <<"plic_complete", j>>
  BY <1>2
<1>18. ClaimInv'
  <2>1. ASSUME NEW j \in Irqs
        PROVE  /\ plic'[j] = "claimed" <=> \E b \in Threads : Nth(stk'[b], 1) = <<"plic_complete", j>>
               /\ \A a, b \in Threads : Nth(stk'[a], 1) = <<"plic_complete", j>> /\ Nth(stk'[b], 1) = <<"plic_complete", j>> => a = b
    <3>1. /\ plic[j] = "claimed" <=> \E b \in Threads : Nth(stk[b], 1) = <<"plic_complete", j>>
          /\ \A a, b \in Threads : Nth(stk[a], 1) = <<"plic_complete", j>> /\ Nth(stk[b], 1) = <<"plic_complete", j>> => a = b
      BY DEF IInv, ClaimInv
    <3>2. CASE j = i
      <4>1. plic[i] # "claimed" /\ plic'[i] = "claimed"
        BY <1>14
      <4>2. QED
        BY <1>15, <1>16, <3>1, <3>2, <4>1
    <3>3. CASE j # i
      <4>1. plic'[j] = plic[j] /\ <<"plic_complete", i>> # <<"plic_complete", j>>
        BY <1>14, <3>3
      <4>2. QED
        BY <1>15, <1>16, <1>17, <3>1, <4>1
    <3>4. QED
      BY <3>2, <3>3
  <2>2. QED
    BY <2>1 DEF ClaimInv, Nth
<1>p. \A p \in Procs : \A q : Pausing(q, pause[p], state[p].killed, ticks)
                            => Pausing(q, pause'[p], state'[p].killed, ticks')
  BY <1>13
<1>19. Serves(c, t, s, z)
  <2>1. Nth(s, 1)[1] # "sched" /\ Nth(z, 1)[1] \notin {"sched", "resumed"}
    BY <1>2, <1>4, <1>5, <1>9
  <2>2. QED
    BY <1>6, <1>7, <1>9, <1>10, <1>11, <1>12, <1>13, <1>14, <1>18, <1>p, <2>1 DEF Serves
<1>20. QED
  BY <1>19, ServesStep

LEMMA CompleteStep ==
  ASSUME IInv, NEW c \in CPUs, NEW t, t = cur[c], NEW s, s = stk[t], plic_complete(c)
  PROVE  IInv'
<1> DEFINE f == Nth(s, 1)
           g == Nth(s, 2)
           h == Nth(s, 3)
           z == Put0(s)
<1>1. View(c, t, s)
  BY Running
<1>2. f[1] = "plic_complete"
  BY <1>1 DEF plic_complete, At, View
<1>3. Stack(t, s) /\ Onto(t, f, g, h) /\ (Len(s) > 1 <=> g[1] # "none")
  BY <1>1 DEF View
<1>4. /\ AfterDevice(g, h) /\ g[1] # "none" /\ g[1] \in {"killed", "restore", "acquire"} /\ (g[1] = "acquire" => h[1] = "yield")
  BY <1>2, <1>3 DEF Onto, OfProcess, User, PauseLabels, TrapEntry, TrapExit, OfScheduler, OfDevice,
     Handlers, AfterDevice
<1>6. stk' = [stk EXCEPT ![t] = z] /\ UNCHANGED <<hw, cpu, cur, lock, tf>>
  BY <1>1, <1>2 DEF plic_complete, Then, View, Put0, regs
<1>7. hw[c] \in Registers /\ cpu[c] \in CpuStruct /\ Regs(c, t, s, hw[c], cpu[c], tf[t])
  BY <1>1 DEF View
<1>8. hw[c] \in Registers
  BY <1>1, <1>2, <1>4, <1>7 DEF Registers
<1>9. /\ Stack(t, z)
      /\ Nth(z, 1) = g /\ Nth(z, 2) = h
      /\ \A L : HasOf(z, L) <=> HasOf(Tail(s), L)
      /\ \A e : Has(z, e) <=> Has(Tail(s), e)
      /\ Bottom(z) = Bottom(s)
  <2>1. Len(s) > 1
    BY <1>3, <1>4
  <2>2. QED
    BY <1>3, <2>1, Pop
<1> HIDE DEF z
<1>10. SameFrames(s, z)
  BY <1>1, <1>2, <1>3, <1>4, <1>9 DEF View, SameFrames, User, TrapExit, PauseLabels, Open
<1>11. SameLocks(t, s, z)
  BY <1>2, <1>4, <1>9 DEF SameLocks, Held, User, Open, PauseLabels
<1>12. Regs(c, t, z, hw[c], cpu[c], tf[t])
  <2>1. /\ HasOf(z, Handlers) <=> HasOf(s, Handlers)
        /\ Has(z, <<"killed", "ecall">>) <=> Has(s, <<"killed", "ecall">>)
    BY <1>1, <1>2, <1>4, <1>9 DEF View, Handlers, User
  <2>2. Depth(g, h) = Depth(f, g)
    BY <1>2, <1>4 DEF Depth, User, Open, PauseLabels
  <2> HIDE DEF f, g, h
  <2>3. QED
    BY <1>2, <1>4, <1>7, <1>8, <1>9, <2>1, <2>2 DEF Regs, f, g, h, Registers, CpuStruct, User,
       TrapEntry, Open, PauseLabels
<1>a. f[2] \in Irqs /\ f = <<"plic_complete", f[2]>>
  BY <1>1, <1>2, Arguments DEF View
<1>13. /\ state' = state /\ pause' = pause /\ ticks' = ticks
       /\ state' \in [Procs -> StateOf] /\ pause' \in [Procs -> PauseOf] /\ ticks' \in 0..(UINT - 1)
  BY DEF plic_complete, IInv, Types, StateOf, PauseOf, clock
<1>14. plic \in [Irqs -> {"quiet", "pending", "claimed"}] /\ plic' \in [Irqs -> {"quiet", "pending", "claimed"}]
  BY <1>1, <1>a DEF IInv, Types, plic_complete, View
<1>15. t \in Threads /\ stk'[t] = z /\ \A b \in Threads : b # t => stk'[b] = stk[b]
  BY <1>1, <1>6 DEF View, IInv, Types
<1>16. /\ \A b \in Threads : b # t => Nth(stk'[b], 1) = Nth(stk[b], 1)
       /\ \A j : Nth(stk'[t], 1) # <<"plic_complete", j>>
  BY <1>4, <1>9, <1>15
<1>17. Nth(stk[t], 1) = <<"plic_complete", f[2]>> /\ plic' = [plic EXCEPT ![f[2]] = "quiet"]
  BY <1>1, <1>a DEF plic_complete, View
<1>18. ClaimInv'
  <2> DEFINE i == f[2]
  <2>0. i \in Irqs /\ Nth(stk[t], 1) = <<"plic_complete", i>> /\ plic' = [plic EXCEPT ![i] = "quiet"]
    BY <1>a, <1>17
  <2> HIDE DEF i
  <2>1. ASSUME NEW j \in Irqs
        PROVE  /\ plic'[j] = "claimed" <=> \E b \in Threads : Nth(stk'[b], 1) = <<"plic_complete", j>>
               /\ \A a, b \in Threads : Nth(stk'[a], 1) = <<"plic_complete", j>> /\ Nth(stk'[b], 1) = <<"plic_complete", j>> => a = b
    <3>1. /\ plic[j] = "claimed" <=> \E b \in Threads : Nth(stk[b], 1) = <<"plic_complete", j>>
          /\ \A a, b \in Threads : Nth(stk[a], 1) = <<"plic_complete", j>> /\ Nth(stk[b], 1) = <<"plic_complete", j>> => a = b
      BY DEF IInv, ClaimInv
    <3>2. CASE j = i
      <4>1. plic'[i] # "claimed"
        BY <1>14, <2>0
      <4>2. QED
        BY <1>15, <1>16, <2>0, <3>1, <3>2, <4>1
    <3>3. CASE j # i
      <4>1. plic'[j] = plic[j] /\ <<"plic_complete", i>> # <<"plic_complete", j>>
        BY <1>14, <2>0, <3>3
      <4>2. QED
        BY <1>15, <1>16, <2>0, <3>1, <4>1
    <3>4. QED
      BY <3>2, <3>3
  <2>2. QED
    BY <2>1 DEF ClaimInv, Nth
<1>p. \A p \in Procs : \A q : Pausing(q, pause[p], state[p].killed, ticks)
                            => Pausing(q, pause'[p], state'[p].killed, ticks')
  BY <1>13
<1>19. Serves(c, t, s, z)
  <2>1. Nth(s, 1)[1] # "sched" /\ Nth(z, 1)[1] \notin {"sched", "resumed"}
    BY <1>2, <1>4, <1>9
  <2>2. QED
    BY <1>6, <1>7, <1>9, <1>10, <1>11, <1>12, <1>13, <1>14, <1>18, <1>p, <2>1 DEF Serves
<1>20. QED
  BY <1>19, ServesStep
\* The whole state, from its parts.
LEMMA Unprimed ==
  ASSUME \A t \in Threads : Stack(t, stk'[t])
  PROVE  \A t \in Threads : Stack(t, stk[t])'
  BY DEF Stack, Onto, Nth, AfterDevice

LEMMA DeviceStep ==
  ASSUME IInv, NEW i \in Irqs, device(i)
  PROVE  IInv'
<1>1. UNCHANGED <<hw, cpu, cur, stk, lock, state, tf, ticks, pause>>
  BY DEF device, regs, clock
<1>2. plic' = [plic EXCEPT ![i] = "pending"] /\ plic[i] = "quiet" /\ plic \in [Irqs -> {"quiet", "pending", "claimed"}]
  BY DEF device, IInv, Types
<1>3. Types'
  BY <1>1, <1>2 DEF IInv, Types
<1>4. \A t \in Threads : Stack(t, stk[t])'
  BY <1>1, Unprimed DEF IInv
<1>5. ClaimInv'
  <2>1. \A j \in Irqs : plic'[j] = "claimed" <=> plic[j] = "claimed"
    BY <1>2
  <2>2. QED
    BY <1>1, <2>1 DEF IInv, ClaimInv, Nth
<1>6. SwitchInv'
  BY <1>1 DEF IInv, SwitchInv, Nth
<1>7. \A c \in CPUs : CpuRegs(c)'
  BY <1>1 DEF IInv, CpuRegs
<1>8. \A p \in Procs : ProcKeeps(p)'
  BY <1>1 DEF IInv, ProcKeeps
<1>9. QED
  BY <1>3, <1>4, <1>5, <1>6, <1>7, <1>8 DEF IInv

LEMMA KkillStep ==
  ASSUME IInv, NEW p \in Victims, kkill(p)
  PROVE  IInv'
<1>1. UNCHANGED <<hw, cpu, cur, stk, lock, tf, ticks, pause, plic>> /\ p \in Procs
  BY TrapsAssumption DEF kkill, regs, clock
<1>2. state \in [Procs -> StateOf]
  BY DEF IInv, Types, StateOf
<1>3. /\ state'[p] = [killed |-> TRUE, state |-> IF state[p].state = "SLEEPING" THEN "RUNNABLE" ELSE state[p].state]
      /\ \A q \in Procs : q # p => state'[q] = state[q]
      /\ state' \in [Procs -> StateOf]
  BY <1>1, <1>2 DEF kkill, StateOf, States
<1>4. Types'
  BY <1>1, <1>3 DEF IInv, Types, StateOf
<1>5. \A t \in Threads : Stack(t, stk[t])'
  BY <1>1, Unprimed DEF IInv
<1>6. ClaimInv'
  BY <1>1 DEF IInv, ClaimInv, Nth
<1>7. \A q \in Procs : state[q].state = "RUNNING" => state'[q].state = "RUNNING"
  BY <1>3
<1>8. SwitchInv'
  BY <1>1, <1>7 DEF IInv, SwitchInv, Nth
<1>9. \A c \in CPUs : CpuRegs(c)'
  BY <1>1 DEF IInv, CpuRegs
<1>10. ASSUME NEW q \in Procs PROVE ProcKeeps(q)'
  <2>1. Keeps(q, stk[q], state[q], tf[q]) /\ Pausing(stk[q], pause[q], state[q].killed, ticks)
    BY DEF IInv, ProcKeeps
  <2>2. /\ state'[q].state = "RUNNING" => state[q].state = "RUNNING"
        /\ state[q].state = "ZOMBIE" => state'[q].state = "ZOMBIE"
        /\ state[q].killed => state'[q].killed
    BY <1>3
  <2>3. Keeps(q, stk[q], state'[q], tf[q])
    BY <2>1, <2>2 DEF Keeps
  <2>4. Pausing(stk[q], pause[q], state'[q].killed, ticks)
    BY <2>1, <2>2 DEF Pausing
  <2>5. QED
    BY <1>1, <2>3, <2>4 DEF ProcKeeps
<1>11. QED
  BY <1>4, <1>5, <1>6, <1>8, <1>9, <1>10 DEF IInv

\* A stack of two frames.
LEMMA TwoFrames ==
  ASSUME NEW t, NEW s, Stack(t, s), Nth(s, 2)[1] # "none", Nth(s, 3)[1] = "none"
  PROVE  /\ \A L : HasOf(Tail(s), L) <=> Nth(s, 2)[1] \in L
         /\ \A e : Has(Tail(s), e) <=> Nth(s, 2) = e
<1>1. s \in Seq(Frame) /\ Len(s) > 0
  BY DEF Stack
<1>2. Len(s) \in Nat /\ Len(Tail(s)) = Len(s) - 1 /\ \A i \in 1..Len(s) - 1 : Tail(s)[i] = s[i + 1]
  BY <1>1, Below
<1>3. Len(s) > 1 /\ Nth(s, 2) = s[2]
  BY <1>1, TopAndRest
<1>4. ~(Len(s) > 2)
  BY <1>1, TopAndRest, LabelOf
<1>5. Len(s) = 2
  <2> DEFINE n == Len(s)
  <2>1. n \in Nat /\ n > 1 /\ ~(n > 2)
    BY <1>2, <1>3, <1>4
  <2> HIDE DEF n
  <2>2. n = 2
    BY <2>1
  <2>3. QED
    BY <2>2 DEF n
<1>6. Tail(s)[1] = s[2] /\ Len(Tail(s)) = 1 /\ 1..1 = {1}
  BY <1>2, <1>5
<1>7. QED
  BY <1>3, <1>6 DEF HasOf, Has
\* swtch(): CPU c goes on with thread b.
Switches(c, t, z, b) ==
  /\ Stack(t, z) /\ stk' = [stk EXCEPT ![t] = z] /\ cur' = [cur EXCEPT ![c] = b]
  /\ UNCHANGED <<hw, cpu, lock, tf, ticks, pause, plic>> /\ state' \in [Procs -> StateOf]
  /\ b \in Threads /\ b # t
  /\ Nth(stk[t], 1)[1] # "plic_complete" /\ Nth(z, 1)[1] # "plic_complete"
  /\ Regs(c, b, stk[b], hw[c], cpu[c], tf[b])
  /\ \A l \in Locks : lock[l] = c <=> l \in Held(b, Nth(stk[b], 1), Nth(stk[b], 2))
  /\ \A p \in Procs : Keeps(p, stk'[p], state'[p], tf[p]) /\ Pausing(stk'[p], pause[p], state'[p].killed, ticks)
  /\ SwitchInv'

LEMMA SwitchesStep ==
  ASSUME IInv, NEW c \in CPUs, NEW t, t = cur[c], NEW z, NEW b, Switches(c, t, z, b)
  PROVE  IInv'
<1> USE DEF Switches
<1>1. /\ stk \in [Threads -> Seq(Frame)] /\ cur \in [CPUs -> Threads] /\ t \in Threads /\ z \in Seq(Frame)
  BY DEF IInv, Types, Stack
<1>2. /\ stk'[t] = z /\ stk' \in [Threads -> Seq(Frame)] /\ \A u \in Threads : u # t => stk'[u] = stk[u]
      /\ cur'[c] = b /\ cur' \in [CPUs -> Threads] /\ \A d \in CPUs : d # c => cur'[d] = cur[d]
  BY <1>1
<1>3. Types'
  BY <1>2 DEF IInv, Types, StateOf
<1>4. \A u \in Threads : Stack(u, stk[u])'
  <2>1. \A u \in Threads : Stack(u, stk'[u])
    BY <1>2 DEF IInv
  <2>2. QED
    BY <2>1, Unprimed
<1>5. ClaimInv'
  BY <1>1, ClaimSame
<1>6. CpuRegs(c)'
  <2>1. stk'[b] = stk[b] /\ cur'[c] = b
    BY <1>2
  <2>2. QED
    BY <2>1 DEF CpuRegs
<1>7. ASSUME NEW d \in CPUs, d # c PROVE CpuRegs(d)'
  <2>1. cur[d] \in Threads /\ cur[d] # t /\ CpuRegs(d)
    BY <1>1, <1>7 DEF IInv, SwitchInv
  <2>2. cur'[d] = cur[d] /\ stk'[cur[d]] = stk[cur[d]]
    BY <1>2, <1>7, <2>1
  <2>3. QED
    BY <2>1, <2>2 DEF CpuRegs
<1>8. \A p \in Procs : ProcKeeps(p)'
  BY DEF ProcKeeps
<1>9. QED
  BY <1>3, <1>4, <1>5, <1>6, <1>7, <1>8 DEF IInv

LEMMA SchedStep ==
  ASSUME IInv, NEW c \in CPUs, NEW t, t = cur[c], NEW s, s = stk[t], sched(c)
  PROVE  IInv'
<1> DEFINE f == Nth(s, 1)
           g == Nth(s, 2)
           h == Nth(s, 3)
           x == <<"resumed", cpu[c].intena>>
           z == Put1(x, s)
           S == stk[c]
<1>1. View(c, t, s)
  BY Running
<1>2. f[1] = "sched" /\ cpuid(c) = c
  BY <1>1 DEF sched, At, View, Regs, User, cpuid
<1>3. /\ Stack(t, s) /\ Onto(t, f, g, h) /\ cpu[c] \in CpuStruct /\ hw[c] \in Registers
      /\ Regs(c, t, s, hw[c], cpu[c], tf[t]) /\ (Len(s) > 1 <=> g[1] # "none")
  BY <1>1 DEF View
<1>4. t \in Procs /\ (g[1] \in User \/ g = <<"release", t>>) /\ g[1] # "none" /\ t # c
  BY <1>2, <1>3, Names DEF Onto, OfProcess, User
<1>5. x \in Frame /\ x[1] = "resumed" /\ x[2] = cpu[c].intena
  BY <1>3, Made DEF CpuStruct
<1>6. Onto(t, x, g, h)
  BY <1>3, <1>4, <1>5 DEF Onto, OfProcess, User, PauseLabels, TrapEntry, TrapExit, OfScheduler,
     OfDevice, Handlers
<1>7. /\ stk' = [stk EXCEPT ![t] = z] /\ cur' = [cur EXCEPT ![c] = c]
      /\ UNCHANGED <<hw, cpu, lock, state, tf, ticks, pause, plic>>
  BY <1>1, <1>2 DEF sched, Then, View, Put1, regs, clock
<1> HIDE DEF x
<1>8. /\ Stack(t, z)
      /\ Nth(z, 1) = x /\ Nth(z, 2) = g
      /\ \A L : HasOf(z, L) <=> x[1] \in L \/ HasOf(Tail(s), L)
      /\ \A e : Has(z, e) <=> x = e \/ Has(Tail(s), e)
      /\ Len(s) > 1 => Bottom(z) = Bottom(s)
  <2>1. x[1] \notin Handlers
    BY <1>5 DEF Handlers
  <2>2. QED
    BY <1>3, <1>5, <1>6, <2>1, Push1
<1> HIDE DEF z
\* The scheduler waits to release the lock of t.
<1>9. c \in Threads /\ Stack(c, S) /\ Nth(S, 1) = <<"release", t>>
  BY <1>4 DEF IInv, SwitchInv, Threads
<1>10. Nth(S, 2)[1] = "scan" /\ Nth(S, 3)[1] = "none"
  <2>1. S \in Seq(Frame) /\ Len(S) > 0
    BY <1>9 DEF Stack
  <2>2. /\ Nth(S, 1) = S[1] /\ Len(S) \in Nat
        /\ Len(S) > 1 => Nth(S, 2) = S[2] /\ S[2] \in Frame
        /\ ~(Len(S) > 1) => Nth(S, 2) = <<"none">>
    BY <2>1, TopAndRest
  <2>3. 1 \in 1..Len(S) /\ (Len(S) > 1 => 2 \in 1..Len(S)) /\ 1 + 1 = 2 /\ 1 + 2 = 3 /\ 2 + 1 = 3 /\ 2 + 2 = 4
    BY <2>1, <2>2
  <2>4. Onto(c, S[1], Nth(S, 2), Nth(S, 3))
    BY <1>9, <2>3 DEF Stack
  <2>5. Nth(S, 2)[1] = "scan"
    <3>1. S[1][1] = "release" /\ S[1][2] = t /\ t # "tickslock" /\ t # c
      BY <1>4, <1>9, <2>2, Names
    <3>2. QED
      BY <2>4, <3>1 DEF Onto
  <2>6. Len(S) > 1
    BY <2>2, <2>5
  <2>7. Onto(c, S[2], Nth(S, 3), Nth(S, 4))
    BY <1>9, <2>3, <2>6 DEF Stack
  <2>8. QED
    BY <2>2, <2>5, <2>6, <2>7 DEF Onto, OfScheduler
<1>11. ~HasOf(S, Handlers) /\ ~Has(S, <<"killed", "ecall">>)
  <2>1. S \in Seq(Frame) /\ Len(S) > 0
    BY <1>9 DEF Stack
  <2>2. Nth(S, 2)[1] # "none" /\ Nth(S, 2)[1] \notin Handlers /\ Nth(S, 2) # <<"killed", "ecall">>
    BY <1>10 DEF Handlers
  <2>3. ~HasOf(Tail(S), Handlers) /\ ~Has(Tail(S), <<"killed", "ecall">>)
    BY <1>9, <1>10, <2>2, TwoFrames
  <2>4. S[1] = <<"release", t>> /\ S[1][1] \notin Handlers
    <3>1. S[1] = <<"release", t>>
      BY <1>9, <2>1, TopAndRest
    <3>2. QED
      BY <3>1 DEF Handlers
  <2>5. <<"release", t>> # <<"killed", "ecall">>
    OBVIOUS
  <2> HIDE DEF S
  <2>6. QED
    BY <2>1, <2>3, <2>4, <2>5, TopAndRest
<1> HIDE DEF S
<1>12. Regs(c, c, S, hw[c], cpu[c], tf[c])
  <2> DEFINE F == Nth(S, 1)
             G == Nth(S, 2)
  <2>1. F[1] = "release" /\ G[1] = "scan"
    BY <1>9, <1>10
  <2>2. Depth(F, G) = 1 /\ Depth(f, g) = 1
    BY <1>2, <2>1 DEF Depth
  <2> HIDE DEF F, G, f, g
  <2>3. cpu[c].noff = 1 /\ ~hw[c].sie /\ hw[c].tp = c /\ hw[c].stvec = "kernelvec"
    BY <1>2, <1>3, <2>2 DEF Regs, f, g, User, Open
  <2>4. QED
    BY <1>11, <2>1, <2>2, <2>3 DEF Regs, F, G, User, TrapEntry
<1>13. \A l \in Locks : lock[l] = c <=> l \in Held(c, Nth(S, 1), Nth(S, 2))
  <2>1. Held(c, Nth(S, 1), Nth(S, 2)) = {t}
    BY <1>9, <1>10 DEF Held
  <2>2. Held(t, f, g) = {t}
    BY <1>2 DEF Held
  <2>3. QED
    BY <1>1, <2>1, <2>2 DEF View
<1>14. stk'[t] = z /\ \A u \in Threads : u # t => stk'[u] = stk[u]
  BY <1>1, <1>7 DEF View, IInv, Types
<1>15. ASSUME NEW p \in Procs
       PROVE  Keeps(p, stk'[p], state'[p], tf[p]) /\ Pausing(stk'[p], pause[p], state'[p].killed, ticks)
  <2>1. Keeps(p, stk[p], state[p], tf[p]) /\ Pausing(stk[p], pause[p], state[p].killed, ticks)
    BY DEF IInv, ProcKeeps
  <2>2. CASE p = t
    <3>1. SameFrames(s, z)
      BY <1>1, <1>2, <1>3, <1>4, <1>5, <1>8 DEF View, SameFrames, TrapExit, PauseLabels
    <3>2. /\ HasOf(z, Handlers) <=> HasOf(s, Handlers)
          /\ Has(z, <<"killed", "ecall">>) <=> Has(s, <<"killed", "ecall">>)
      BY <1>1, <1>2, <1>5, <1>8 DEF View, Handlers
    <3>3. /\ HasOf(s, Handlers) => ~cpu[c].intena
          /\ ~HasOf(s, Handlers) /\ Has(s, <<"killed", "ecall">>) => cpu[c].intena
      <4>1. Depth(f, g) = 1
        BY <1>2 DEF Depth
      <4> HIDE DEF f, g
      <4>2. QED
        BY <1>2, <1>3, <4>1 DEF Regs, f, g
    <3>4. Keeps(t, s, state[t], tf[t]) /\ Pausing(s, pause[t], state[t].killed, ticks)
      BY <2>1, <2>2
    <3>5. Keeps(t, z, state[t], tf[t])
      BY <1>2, <1>5, <1>8, <3>1, <3>2, <3>3, <3>4 DEF Keeps, SameFrames
    <3>6. Pausing(z, pause[t], state[t].killed, ticks)
      BY <3>1, <3>4 DEF Pausing, SameFrames
    <3>7. QED
      BY <1>7, <1>14, <2>2, <3>5, <3>6
  <2>3. CASE p # t
    BY <1>7, <1>14, <2>1, <2>3 DEF Threads
  <2>4. QED
    BY <2>2, <2>3
<1>16. SwitchInv'
  <2>1. cur \in [CPUs -> Threads] /\ SwitchInv
    BY DEF IInv, Types
  <2>2. cur'[c] = c /\ \A d \in CPUs : d # c => cur'[d] = cur[d] /\ cur[d] # t /\ cur[d] # c
    BY <1>7, <2>1, Names DEF SwitchInv
  <2>3. \A d \in CPUs : cur'[d] \in Procs \cup {d}
    BY <2>1, <2>2 DEF SwitchInv
  <2>4. \A d, e \in CPUs : cur'[d] = cur'[e] => d = e
    BY <2>1, <2>2 DEF SwitchInv
  <2>5. ASSUME NEW d \in CPUs, cur'[d] # d
        PROVE  /\ Nth(stk'[d], 1) = <<"release", cur'[d]>>
               /\ state'[cur'[d]].state = "RUNNING" \/ Nth(stk'[cur'[d]], 1)[1] = "sched"
    <3>1. d # c /\ cur'[d] = cur[d] /\ cur[d] # t /\ cur[d] \in Threads /\ d # t /\ d \in Threads
      BY <1>4, <2>1, <2>2, <2>5, Names DEF Threads
    <3>2. stk'[d] = stk[d] /\ stk'[cur[d]] = stk[cur[d]]
      BY <1>14, <3>1
    <3>3. /\ Nth(stk[d], 1) = <<"release", cur[d]>>
          /\ state[cur[d]].state = "RUNNING" \/ Nth(stk[cur[d]], 1)[1] = "sched"
      BY <2>1, <2>5, <3>1 DEF SwitchInv
    <3>4. QED
      BY <1>7, <3>1, <3>2, <3>3
  <2>6. ASSUME NEW p \in Procs, \A d \in CPUs : cur'[d] # p
        PROVE  \/ Nth(stk'[p], 1)[1] = "resumed"
               \/ Nth(stk'[p], 1) = <<"release", p>> /\ Nth(stk'[p], 2)[1] = "prepare_return"
    <3>1. CASE p = t
      BY <1>5, <1>8, <1>14, <3>1
    <3>2. CASE p # t
      <4>1. \A d \in CPUs : cur[d] # p
        BY <2>2, <2>6, <3>2
      <4>2. stk'[p] = stk[p]
        BY <1>14, <3>2 DEF Threads
      <4>3. QED
        BY <2>1, <4>1, <4>2 DEF SwitchInv
    <3>3. QED
      BY <3>1, <3>2
  <2>7. QED
    BY <2>3, <2>4, <2>5, <2>6 DEF SwitchInv, Nth
<1>17. state' \in [Procs -> StateOf]
  BY <1>7 DEF IInv, Types, StateOf
<1>18. Switches(c, t, z, c)
  <2>1. Nth(stk[t], 1)[1] # "plic_complete" /\ Nth(z, 1)[1] # "plic_complete"
    BY <1>2, <1>5, <1>8
  <2>2. stk[c] = S
    BY DEF S
  <2>3. QED
    BY <1>4, <1>7, <1>8, <1>9, <1>12, <1>13, <1>15, <1>16, <1>17, <2>1, <2>2 DEF Switches
<1>19. QED
  BY <1>18, SwitchesStep
\* scheduler() passes a process that is not RUNNABLE.
LEMMA RunSkipStep ==
  ASSUME IInv, NEW c \in CPUs, NEW t, t = cur[c], NEW s, s = stk[t], run(c),
         state[Top(c)[2]].state # "RUNNABLE"
  PROVE  IInv'
<1> DEFINE f == Nth(s, 1)
           g == Nth(s, 2)
           h == Nth(s, 3)
           x == <<"release", f[2]>>
           z == Put1(x, s)
           r == hw[c]
<1>1. View(c, t, s)
  BY Running
<1>2. f[1] = "run"
  BY <1>1 DEF run, At, View
<1>3. Stack(t, s) /\ Onto(t, f, g, h) /\ (Len(s) > 1 <=> g[1] # "none")
  BY <1>1 DEF View
<1>4. /\ t \in CPUs /\ f[2] \in Procs /\ f[2] \in Locks /\ g[1] = "scan"
  BY <1>2, <1>3 DEF Onto, OfProcess, User, PauseLabels, TrapEntry, TrapExit, OfScheduler, OfDevice,
     Handlers, Locks
<1>5. /\ x \in Frame /\ x[1] = "release" /\ x[2] = f[2]
  BY <1>1, <1>2, <1>4, Made DEF Bare, Causes, User, PauseLabels
<1>o. Onto(t, x, g, h)
  BY <1>1, <1>2, <1>3, <1>4, <1>5 DEF Onto, OfProcess, User, PauseLabels, TrapEntry, TrapExit,
     OfScheduler, OfDevice, Handlers
<1>6. Moves(c, t, z, r, cpu[c]) /\ lock' = lock
  BY <1>1, <1>2 DEF run, Then, Moves, View, Put1, IInv, Types, regs, clock
<1>7. hw[c] \in Registers /\ cpu[c] \in CpuStruct /\ Regs(c, t, s, hw[c], cpu[c], tf[t])
  BY <1>1 DEF View
<1>8. r \in Registers
  BY <1>1, <1>2, <1>4, <1>7 DEF Registers
<1> HIDE DEF x
<1>9. /\ Stack(t, z)
      /\ Nth(z, 1) = x /\ Nth(z, 2) = g
      /\ \A L : HasOf(z, L) <=> x[1] \in L \/ HasOf(Tail(s), L)
      /\ \A e : Has(z, e) <=> x = e \/ Has(Tail(s), e)
      /\ Len(s) > 1 => Bottom(z) = Bottom(s)
  <2>1. Stack(t, s) /\ x[1] \notin Handlers
    BY <1>2, <1>3, <1>5 DEF Handlers
  <2>2. QED
    BY <1>5, <1>o, <2>1, Push1
<1> HIDE DEF z
<1>10. SameFrames(s, z)
  BY <1>1, <1>2, <1>3, <1>4, <1>5, <1>9 DEF View, SameFrames, User, TrapExit, PauseLabels, Open
<1>11. SameLocks(t, s, z)
  BY <1>2, <1>4, <1>5, <1>9 DEF SameLocks, Held, User, Open, PauseLabels
<1>12. Regs(c, t, z, r, cpu[c], tf[t])
  <2>1. /\ HasOf(z, Handlers) <=> HasOf(s, Handlers)
        /\ Has(z, <<"killed", "ecall">>) <=> Has(s, <<"killed", "ecall">>)
    BY <1>1, <1>2, <1>4, <1>5, <1>9 DEF View, Handlers, User
  <2>2. Depth(x, g) = Depth(f, g)
    BY <1>2, <1>4, <1>5 DEF Depth, User, Open, PauseLabels
  <2> HIDE DEF f, g, h
  <2>3. QED
    BY <1>2, <1>4, <1>5, <1>7, <1>8, <1>9, <2>1, <2>2 DEF Regs, f, g, h, Registers, CpuStruct, User,
       TrapEntry, Open, PauseLabels
<1>13. Quiet(c, t, s, z, r, cpu[c])
  <2>1. /\ Nth(s, 1)[1] \notin {"plic_complete", "sched"}
        /\ Nth(z, 1)[1] \notin {"plic_complete", "sched", "resumed"}
    BY <1>2, <1>4, <1>5, <1>9 DEF User, Open, PauseLabels
  <2>2. QED
    BY <1>6, <1>7, <1>8, <1>9, <1>10, <1>11, <1>12, <2>1 DEF Quiet
<1>14. QED
  BY <1>13, QuietStep

\* What a process that does not run finds when the scheduler of c switches to it.
Waits(p, s, x) ==
  /\ Stack(p, s) /\ x.state = "RUNNABLE" /\ Nth(s, 1) \in Frame
  /\ \/ Nth(s, 1)[1] = "resumed"
     \/ Nth(s, 1) = <<"release", p>> /\ ~HasOf(s, Handlers) /\ ~Has(s, <<"killed", "ecall">>)
                                     /\ Nth(s, 2)[1] = "prepare_return"

LEMMA NewProcess ==
  ASSUME NEW p \in Procs, NEW s, Stack(p, s), Nth(s, 1) = <<"release", p>>,
         Nth(s, 2)[1] = "prepare_return"
  PROVE  ~HasOf(s, Handlers) /\ ~Has(s, <<"killed", "ecall">>)
<1> DEFINE q == Put0(s)
<1>1. s \in Seq(Frame) /\ Len(s) > 0
  BY DEF Stack
<1>2. Len(s) > 1
  BY <1>1, TopAndRest
<1>3. /\ Stack(p, q) /\ Nth(q, 1) = Nth(s, 2)
      /\ \A L : HasOf(q, L) <=> HasOf(Tail(s), L)
      /\ \A e : Has(q, e) <=> Has(Tail(s), e)
  BY <1>2, Pop
<1> HIDE DEF q
<1>4. q \in Seq(Frame) /\ Len(q) > 0
  BY <1>3 DEF Stack
<1>5. /\ Nth(q, 1) = q[1] /\ Len(q) \in Nat
      /\ \A L : HasOf(q, L) <=> q[1][1] \in L \/ HasOf(Tail(q), L)
      /\ \A e : Has(q, e) <=> q[1] = e \/ Has(Tail(q), e)
  BY <1>4, TopAndRest
<1>6. Nth(q, 2)[1] \in User
  <2>1. 1 \in 1..Len(q) /\ 1 + 1 = 2 /\ 1 + 2 = 3
    BY <1>4, <1>5
  <2>2. Onto(p, q[1], Nth(q, 2), Nth(q, 3))
    BY <1>3, <2>1 DEF Stack
  <2>3. QED
    BY <1>3, <1>5, <2>2 DEF Onto, OfProcess, TrapExit
<1>7. (\A L : HasOf(Tail(q), L) <=> Nth(q, 2)[1] \in L) /\ ~Has(Tail(q), <<"killed", "ecall">>)
  BY <1>3, <1>6, UserBelow
<1>8. ~HasOf(q, Handlers) /\ ~Has(q, <<"killed", "ecall">>)
  BY <1>3, <1>5, <1>6, <1>7 DEF Handlers, User
<1>9. /\ Nth(s, 1) = s[1]
      /\ \A L : HasOf(s, L) <=> s[1][1] \in L \/ HasOf(Tail(s), L)
      /\ \A e : Has(s, e) <=> s[1] = e \/ Has(Tail(s), e)
  BY <1>1, TopAndRest
<1>10. s[1][1] \notin Handlers /\ s[1] # <<"killed", "ecall">>
  BY <1>9 DEF Handlers
<1>11. QED
  BY <1>3, <1>8, <1>9, <1>10

\* The scheduler that holds the lock of a RUNNABLE process finds it waiting.
LEMMA RunnableWaits ==
  ASSUME IInv, NEW c \in CPUs, cur[c] = c, NEW p \in Procs, lock[p] = c, state[p].state = "RUNNABLE"
  PROVE  (\A d \in CPUs : cur[d] # p) /\ Waits(p, stk[p], state[p])
<1>1. ASSUME NEW d \in CPUs, cur[d] = p PROVE FALSE
  <2>1. d # c /\ cur[d] # d
    BY <1>1, Names
  <2>2. state[p].state = "RUNNING" \/ Nth(stk[p], 1)[1] = "sched"
    BY <1>1, <2>1 DEF IInv, SwitchInv
  <2>3. Nth(stk[p], 1)[1] = "sched"
    BY <2>2
  <2>4. p \in Locks /\ \A l \in Locks : lock[l] = d <=> l \in Held(p, Nth(stk[p], 1), Nth(stk[p], 2))
    BY <1>1 DEF IInv, CpuRegs, Locks
  <2>5. Held(p, Nth(stk[p], 1), Nth(stk[p], 2)) = {p}
    BY <2>3 DEF Held
  <2>6. QED
    BY <2>1, <2>4, <2>5
<1>2. /\ Stack(p, stk[p])
      /\ \/ Nth(stk[p], 1)[1] = "resumed"
         \/ Nth(stk[p], 1) = <<"release", p>> /\ Nth(stk[p], 2)[1] = "prepare_return"
  BY <1>1 DEF IInv, SwitchInv, Threads
<1>3. Nth(stk[p], 1) \in Frame
  <2>1. stk[p] \in Seq(Frame) /\ Len(stk[p]) > 0
    BY <1>2 DEF Stack
  <2>2. QED
    BY <2>1, TopAndRest
<1>4. Nth(stk[p], 1)[1] # "resumed" => ~HasOf(stk[p], Handlers) /\ ~Has(stk[p], <<"killed", "ecall">>)
  BY <1>2, NewProcess
<1>5. QED
  BY <1>1, <1>2, <1>3, <1>4 DEF Waits

LEMMA RunStep ==
  ASSUME IInv, NEW c \in CPUs, NEW t, t = cur[c], NEW s, s = stk[t], run(c),
         state[Top(c)[2]].state = "RUNNABLE"
  PROVE  IInv'
<1> DEFINE f == Nth(s, 1)
           g == Nth(s, 2)
           h == Nth(s, 3)
           p == f[2]
           x == <<"release", p>>
           z == Put1(x, s)
           S == stk[p]
<1>1. View(c, t, s)
  BY Running
<1>2. f[1] = "run" /\ cpuid(c) = c
  BY <1>1 DEF run, At, View, Regs, User, cpuid
<1>3. /\ Stack(t, s) /\ Onto(t, f, g, h) /\ cpu[c] \in CpuStruct /\ hw[c] \in Registers
      /\ Regs(c, t, s, hw[c], cpu[c], tf[t]) /\ (Len(s) > 1 <=> g[1] # "none")
  BY <1>1 DEF View
<1>4. t = c /\ t \in CPUs /\ p \in Procs /\ p \in Locks /\ g[1] = "scan" /\ p # c /\ state[p].state = "RUNNABLE"
  BY <1>1, <1>2, <1>3, Names DEF Onto, OfScheduler, Locks, View
<1>5. x \in Frame /\ x[1] = "release" /\ x[2] = p
  BY <1>4, Made
<1>6. Onto(t, x, g, h)
  BY <1>3, <1>4, <1>5 DEF Onto, OfProcess, User, PauseLabels, TrapEntry, TrapExit, OfScheduler,
     OfDevice, Handlers
<1>7. /\ stk' = [stk EXCEPT ![t] = z] /\ cur' = [cur EXCEPT ![c] = p]
      /\ state' = [state EXCEPT ![p].state = "RUNNING"]
      /\ UNCHANGED <<hw, cpu, lock, tf, ticks, pause, plic>>
  BY <1>1, <1>2, <1>4 DEF run, Then, View, Put1, regs, clock
<1>h. x = <<"release", p>>
  OBVIOUS
<1> HIDE DEF x
<1>8. Stack(t, z) /\ Nth(z, 1) = x
  <2>1. x[1] \notin Handlers
    BY <1>5 DEF Handlers
  <2>2. QED
    BY <1>3, <1>5, <1>6, <2>1, Push1
<1> HIDE DEF z
<1>9. lock[p] = c /\ \A l \in Locks : lock[l] = c <=> l = p
  <2>1. Held(t, f, g) = {p}
    BY <1>2 DEF Held
  <2>2. QED
    BY <1>1, <1>4, <2>1 DEF View
<1>10. (\A d \in CPUs : cur[d] # p) /\ Waits(p, S, state[p])
  BY <1>1, <1>4, <1>9, RunnableWaits DEF View
<1>p. p \in Threads /\ p # t
  BY <1>4 DEF Threads
<1>11. /\ Depth(f, g) = 1 /\ cpu[c].noff = 1 /\ ~hw[c].sie /\ hw[c].tp = c /\ hw[c].stvec = "kernelvec"
  <2>1. Depth(f, g) = 1
    BY <1>2 DEF Depth
  <2> HIDE DEF f, g
  <2>2. QED
    BY <1>2, <1>3, <2>1 DEF Regs, f, g, User, Open
<1> DEFINE F == Nth(S, 1)
           G == Nth(S, 2)
<1>12. /\ Stack(p, S) /\ F \in Frame
       /\ F[1] = "resumed" \/ (F = x /\ G[1] = "prepare_return" /\ ~HasOf(S, Handlers) /\ ~Has(S, <<"killed", "ecall">>))
  BY <1>10, <1>h DEF Waits
<1>k. Keeps(p, S, state[p], tf[p]) /\ Pausing(S, pause[p], state[p].killed, ticks)
  BY <1>4 DEF IInv, ProcKeeps
<1> HIDE DEF S, f, g, p
<1>s. state'[p].state = "RUNNING" /\ state'[p].killed = state[p].killed
      /\ state' \in [Procs -> StateOf] /\ \A q \in Procs : q # p => state'[q] = state[q]
  <2>1. state \in [Procs -> StateOf] /\ p \in Procs /\ state' = [state EXCEPT ![p].state = "RUNNING"]
    BY <1>4, <1>7 DEF IInv, Types, StateOf
  <2>2. QED
    BY <2>1 DEF StateOf, States
<1>13. Depth(F, G) = 1 /\ Held(p, F, G) = {p}
  BY <1>5, <1>12 DEF Depth, Held
<1>14. Regs(c, p, S, hw[c], cpu[c], tf[p])
  <2>1. F[1] \in {"resumed", "release"}
    BY <1>5, <1>12
  <2>2. F[1] = "resumed" \/ (~HasOf(S, Handlers) /\ ~Has(S, <<"killed", "ecall">>))
    BY <1>12
  <2> HIDE DEF F, G
  <2>3. QED
    BY <1>11, <1>13, <2>1, <2>2 DEF Regs, F, G, User, TrapEntry
<1>15. \A l \in Locks : lock[l] = c <=> l \in Held(p, F, G)
  BY <1>9, <1>13
<1>16. stk'[t] = z /\ stk'[p] = S /\ \A u \in Threads : u # t => stk'[u] = stk[u]
  BY <1>1, <1>7, <1>p DEF View, IInv, Types, S
<1>17. ASSUME NEW q \in Procs
       PROVE  Keeps(q, stk'[q], state'[q], tf[q]) /\ Pausing(stk'[q], pause[q], state'[q].killed, ticks)
  <2>1. stk'[q] = stk[q]
    BY <1>4, <1>16, Names DEF Threads
  <2>2. CASE q = p
    <3>1. F[1] # "sched"
      BY <1>5, <1>12
    <3>2. F[1] \in {"sched", "resumed"} /\ G[1] \in User => state[p].state = "ZOMBIE"
      BY <1>k DEF Keeps
    <3>3. ~(F[1] \in {"sched", "resumed"} /\ G[1] \in User)
      BY <1>4, <3>2
    <3> HIDE DEF F, G
    <3>4. Keeps(p, S, state'[p], tf[p])
      BY <1>k, <3>1, <3>3 DEF Keeps, F, G
    <3>5. Pausing(S, pause[p], state'[p].killed, ticks)
      BY <1>k, <1>s
    <3>6. QED
      BY <1>16, <2>2, <3>4, <3>5
  <2>3. CASE q # p
    <3>1. Keeps(q, stk[q], state[q], tf[q]) /\ Pausing(stk[q], pause[q], state[q].killed, ticks)
      BY DEF IInv, ProcKeeps
    <3>2. QED
      BY <1>s, <2>1, <2>3, <3>1
  <2>4. QED
    BY <2>2, <2>3
<1>18. SwitchInv'
  <2>1. cur \in [CPUs -> Threads] /\ SwitchInv
    BY DEF IInv, Types
  <2>2. cur'[c] = p /\ \A d \in CPUs : d # c => cur'[d] = cur[d] /\ cur[d] # p
    BY <1>7, <1>10, <2>1
  <2>3. \A d \in CPUs : cur'[d] \in Procs \cup {d}
    BY <1>4, <2>1, <2>2 DEF SwitchInv
  <2>4. \A d, e \in CPUs : cur'[d] = cur'[e] => d = e
    BY <2>1, <2>2 DEF SwitchInv
  <2>5. ASSUME NEW d \in CPUs, cur'[d] # d
        PROVE  /\ Nth(stk'[d], 1) = <<"release", cur'[d]>>
               /\ state'[cur'[d]].state = "RUNNING" \/ Nth(stk'[cur'[d]], 1)[1] = "sched"
    <3>1. CASE d = c
      BY <1>4, <1>8, <1>16, <1>s, <1>h, <2>2, <3>1
    <3>2. CASE d # c
      <4>1. cur'[d] = cur[d] /\ cur[d] # p /\ cur[d] \in Procs /\ cur[d] # t /\ d # t /\ d \in Threads
        BY <1>4, <2>1, <2>2, <2>5, <3>2, Names DEF Threads, SwitchInv
      <4>2. stk'[d] = stk[d] /\ stk'[cur[d]] = stk[cur[d]] /\ state'[cur[d]] = state[cur[d]]
        BY <1>16, <1>s, <4>1 DEF Threads
      <4>3. /\ Nth(stk[d], 1) = <<"release", cur[d]>>
            /\ state[cur[d]].state = "RUNNING" \/ Nth(stk[cur[d]], 1)[1] = "sched"
        BY <2>1, <2>5, <4>1 DEF SwitchInv
      <4>4. QED
        BY <4>1, <4>2, <4>3
    <3>3. QED
      BY <3>1, <3>2
  <2>6. ASSUME NEW q \in Procs, \A d \in CPUs : cur'[d] # q
        PROVE  \/ Nth(stk'[q], 1)[1] = "resumed"
               \/ Nth(stk'[q], 1) = <<"release", q>> /\ Nth(stk'[q], 2)[1] = "prepare_return"
    <3>1. q # p /\ \A d \in CPUs : cur[d] # q
      BY <1>4, <2>2, <2>6, Names
    <3>2. stk'[q] = stk[q]
      BY <1>4, <1>16, Names DEF Threads
    <3>3. QED
      BY <2>1, <3>1, <3>2 DEF SwitchInv
  <2>7. QED
    BY <2>3, <2>4, <2>5, <2>6 DEF SwitchInv, Nth
<1>19. Switches(c, t, z, p)
  <2>1. Nth(stk[t], 1)[1] # "plic_complete" /\ Nth(z, 1)[1] # "plic_complete"
    BY <1>2, <1>5, <1>8 DEF f
  <2>2. stk[p] = S
    BY DEF S
  <2>3. QED
    BY <1>7, <1>8, <1>14, <1>15, <1>17, <1>18, <1>p, <1>s, <2>1, <2>2 DEF Switches
<1>20. QED
  BY <1>19, SwitchesStep
---------------------------------------------------------------------------
(* The invariant holds at the start and every step keeps it.               *)

\* The stacks of a scheduler and of a new process.
LEMMA SchedulerStack ==
  ASSUME NEW t \in CPUs, NEW z, z = <<<<"scheduler">>>>
  PROVE  Stack(t, z) /\ Nth(z, 1) = <<"scheduler">> /\ Nth(z, 2) = <<"none">> /\ Len(z) = 1 /\ z[1] = <<"scheduler">>
<1> DEFINE x == <<"scheduler">>
<1>1. x \in Frame /\ x[1] = "scheduler" /\ Onto(t, x, <<"none">>, <<"none">>)
  <2>1. x \in Frame /\ x[1] = "scheduler"
    BY Made DEF Bare
  <2>2. QED
    BY <2>1 DEF Onto, OfProcess, User, PauseLabels, TrapEntry, TrapExit, OfScheduler, OfDevice,
       Handlers
<1>2. z = <<x>>
  OBVIOUS
<1> HIDE DEF x
<1>3. z \in Seq(Frame) /\ Len(z) = 1 /\ z[1] = x
  BY <1>1, <1>2
<1>4. 1..1 = {1} /\ ~(2 <= 1) /\ ~(3 <= 1) /\ 1 <= 1 /\ 1 + 1 = 2 /\ 1 + 2 = 3
  OBVIOUS
<1>5. Nth(z, 1) = x /\ Nth(z, 2) = <<"none">> /\ Nth(z, 3) = <<"none">>
  BY <1>3, <1>4 DEF Nth
<1>6. \A i \in 1..Len(z) : Onto(t, z[i], Nth(z, i + 1), Nth(z, i + 2))
  BY <1>1, <1>3, <1>4, <1>5
<1>7. \A i, j \in 1..Len(z) : z[i][1] \in Handlers /\ z[j][1] \in Handlers => i = j
  BY <1>3, <1>4
<1>8. QED
  BY <1>3, <1>5, <1>6, <1>7 DEF Stack, x

LEMMA NewStack ==
  ASSUME NEW t \in Procs, NEW z, z = <<<<"release", t>>, <<"prepare_return">>, <<"ecall">>>>
  PROVE  /\ Stack(t, z) /\ Nth(z, 1) = <<"release", t>> /\ Nth(z, 2) = <<"prepare_return">>
         /\ Bottom(z) = <<"ecall">>
         /\ \A L : HasOf(z, L) <=> "release" \in L \/ "prepare_return" \in L \/ "ecall" \in L
         /\ ~Has(z, <<"killed", "ecall">>)
<1> DEFINE x == <<"release", t>>
           y == <<"prepare_return">>
           v == <<"ecall">>
<1>1. /\ x \in Frame /\ y \in Frame /\ v \in Frame
      /\ x[1] = "release" /\ x[2] = t /\ y[1] = "prepare_return" /\ v[1] = "ecall"
      /\ x # <<"killed", "ecall">> /\ y # <<"killed", "ecall">> /\ v # <<"killed", "ecall">>
  BY Made DEF Bare, User, Locks
<1>2. Onto(t, x, y, v) /\ Onto(t, y, v, <<"none">>) /\ Onto(t, v, <<"none">>, <<"none">>)
  BY <1>1 DEF Onto, OfProcess, User, PauseLabels, TrapEntry, TrapExit, OfScheduler, OfDevice,
     Handlers
<1>3. z = <<x, y, v>>
  OBVIOUS
<1> HIDE DEF x, y, v
<1>4. z \in Seq(Frame) /\ Len(z) = 3 /\ z[1] = x /\ z[2] = y /\ z[3] = v
  BY <1>1, <1>3
<1>5. 1..3 = {1, 2, 3} /\ ~(4 <= 3) /\ ~(5 <= 3) /\ 1 <= 3 /\ 2 <= 3 /\ 3 <= 3
  OBVIOUS
<1>6. /\ Nth(z, 1) = x /\ Nth(z, 2) = y /\ Nth(z, 3) = v
      /\ Nth(z, 4) = <<"none">> /\ Nth(z, 5) = <<"none">>
  BY <1>4, <1>5 DEF Nth
<1>7. \A i \in 1..Len(z) : Onto(t, z[i], Nth(z, i + 1), Nth(z, i + 2))
  <2>1. /\ Onto(t, z[1], Nth(z, 2), Nth(z, 3)) /\ Onto(t, z[2], Nth(z, 3), Nth(z, 4))
        /\ Onto(t, z[3], Nth(z, 4), Nth(z, 5))
    BY <1>2, <1>4, <1>6
  <2>2. 1 + 1 = 2 /\ 1 + 2 = 3 /\ 2 + 1 = 3 /\ 2 + 2 = 4 /\ 3 + 1 = 4 /\ 3 + 2 = 5
    OBVIOUS
  <2>3. QED
    BY <1>4, <1>5, <2>1, <2>2
<1>8. \A i, j \in 1..Len(z) : z[i][1] \in Handlers /\ z[j][1] \in Handlers => i = j
  BY <1>1, <1>4, <1>5 DEF Handlers
<1>9. Stack(t, z)
  BY <1>4, <1>7, <1>8 DEF Stack
<1>10. \A L : HasOf(z, L) <=> "release" \in L \/ "prepare_return" \in L \/ "ecall" \in L
  BY <1>1, <1>4, <1>5 DEF HasOf
<1>11. ~Has(z, <<"killed", "ecall">>) /\ Bottom(z) = v
  BY <1>1, <1>4, <1>5 DEF Has, Bottom
<1>12. QED
  BY <1>6, <1>9, <1>10, <1>11 DEF x, y, v

LEMMA InitHolds ==
  ASSUME Init
  PROVE  IInv
<1>1. \A t \in CPUs : stk[t] = <<<<"scheduler">>>>
  BY DEF Init, Threads
<1>2. \A t \in Procs : stk[t] = <<<<"release", t>>, <<"prepare_return">>, <<"ecall">>>>
  BY Names DEF Init, Threads
<1>3. /\ \A t \in CPUs : Stack(t, stk[t]) /\ Nth(stk[t], 1) = <<"scheduler">> /\ Nth(stk[t], 2) = <<"none">>
                         /\ Len(stk[t]) = 1 /\ stk[t][1] = <<"scheduler">>
      /\ \A t \in Procs : Stack(t, stk[t]) /\ Nth(stk[t], 1) = <<"release", t>> /\ Nth(stk[t], 2) = <<"prepare_return">>
                          /\ Bottom(stk[t]) = <<"ecall">>
                          /\ (\A L : HasOf(stk[t], L) <=> "release" \in L \/ "prepare_return" \in L \/ "ecall" \in L)
                          /\ ~Has(stk[t], <<"killed", "ecall">>)
  <2>1. ASSUME NEW t \in CPUs
        PROVE  Stack(t, stk[t]) /\ Nth(stk[t], 1) = <<"scheduler">> /\ Nth(stk[t], 2) = <<"none">>
               /\ Len(stk[t]) = 1 /\ stk[t][1] = <<"scheduler">>
    BY <1>1, SchedulerStack
  <2>2. ASSUME NEW t \in Procs
        PROVE  /\ Stack(t, stk[t]) /\ Nth(stk[t], 1) = <<"release", t>> /\ Nth(stk[t], 2) = <<"prepare_return">>
               /\ Bottom(stk[t]) = <<"ecall">>
               /\ \A L : HasOf(stk[t], L) <=> "release" \in L \/ "prepare_return" \in L \/ "ecall" \in L
               /\ ~Has(stk[t], <<"killed", "ecall">>)
    BY <1>2, NewStack
  <2>3. QED
    BY <2>1, <2>2
<1>4. \A t \in Threads : Stack(t, stk[t])
  BY <1>3 DEF Threads
<1>5. Types
  <2>1. hw \in [CPUs -> Registers]
    BY DEF Init, Registers, Pc, Modes
  <2>2. cpu \in [CPUs -> CpuStruct]
    BY DEF Init, CpuStruct
  <2>3. cur \in [CPUs -> Threads]
    BY DEF Init, Threads
  <2>4. stk \in [Threads -> Seq(Frame)]
    <3>1. stk = [t \in Threads |-> stk[t]]
      BY DEF Init
    <3>2. \A t \in Threads : stk[t] \in Seq(Frame)
      BY <1>4 DEF Stack
    <3>3. QED
      BY <3>1, <3>2
  <2>5. lock \in [Locks -> CPUs \cup {Nobody}]
    BY DEF Init, Locks
  <2>6. state \in [Procs -> [state : States, killed : BOOLEAN]]
    BY DEF Init, States
  <2>7. tf \in [Procs -> [hartid : CPUs, epc : Pc]]
    <3>1. \A p \in Procs : <<p, "ecall">> \in Pc
      BY DEF Pc, Threads, Labels, OfProcess, User
    <3>2. QED
      BY <3>1, Names DEF Init
  <2>8. ticks \in 0..(UINT - 1)
    BY TrapsAssumption DEF Init
  <2>9. pause \in [Procs -> [n : Int, ticks0 : 0..(UINT - 1), passed : 0..UINT]]
    BY TrapsAssumption DEF Init, NoPause
  <2>10. plic \in [Irqs -> {"quiet", "pending", "claimed"}]
    BY DEF Init
  <2>11. QED
    BY <2>1, <2>2, <2>3, <2>4, <2>5, <2>6, <2>7, <2>8, <2>9, <2>10 DEF Types
<1>6. SwitchInv
  <2>1. \A c \in CPUs : cur[c] = c
    BY DEF Init
  <2>2. \A p \in Procs : Nth(stk[p], 1) = <<"release", p>> /\ Nth(stk[p], 2)[1] = "prepare_return"
    BY <1>3
  <2>3. QED
    BY <2>1, <2>2 DEF SwitchInv
<1>7. ClaimInv
  <2>1. \A t \in Threads : Nth(stk[t], 1)[1] # "plic_complete"
    BY <1>3 DEF Threads
  <2>2. \A t \in Threads, i \in Irqs : Nth(stk[t], 1) # <<"plic_complete", i>>
    BY <2>1
  <2>3. \A i \in Irqs : plic[i] # "claimed"
    BY DEF Init
  <2>4. QED
    BY <2>2, <2>3 DEF ClaimInv
<1>8. ASSUME NEW c \in CPUs PROVE CpuRegs(c)
  <2> DEFINE f == Nth(stk[c], 1)
             g == Nth(stk[c], 2)
  <2>a. cur[c] = c
    BY DEF Init
  <2>1. cur[c] = c /\ f[1] = "scheduler" /\ Nobody # c
    BY <1>3, <2>a, Names
  <2>2. /\ hw[c].sie = FALSE /\ hw[c].tp = c /\ hw[c].stvec = "kernelvec" /\ cpu[c].noff = 0
        /\ \A l \in Locks : lock[l] = Nobody
    BY DEF Init, Locks
  <2>3. ~Has(stk[c], <<"killed", "ecall">>) /\ ~HasOf(stk[c], Handlers)
    <3>1. Len(stk[c]) = 1 /\ stk[c][1] = <<"scheduler">> /\ 1..1 = {1}
      BY <1>3
    <3>2. <<"scheduler">> # <<"killed", "ecall">> /\ <<"scheduler">>[1] \notin Handlers
      BY DEF Handlers
    <3>3. QED
      BY <3>1, <3>2 DEF Has, HasOf
  <2>4. Held(c, f, g) = {} /\ Depth(f, g) = 0
    BY <2>1 DEF Held, Depth
  <2> HIDE DEF f, g
  <2>5. Regs(c, c, stk[c], hw[c], cpu[c], tf[c])
    BY <2>1, <2>2, <2>3, <2>4 DEF Regs, f, g, User, TrapEntry
  <2>6. QED
    BY <2>1, <2>2, <2>4, <2>5 DEF CpuRegs, f, g
<1>9. ASSUME NEW p \in Procs PROVE ProcKeeps(p)
  <2>1. /\ Nth(stk[p], 1)[1] = "release" /\ Bottom(stk[p])[1] = "ecall"
        /\ \A L : HasOf(stk[p], L) <=> "release" \in L \/ "prepare_return" \in L \/ "ecall" \in L
        /\ ~Has(stk[p], <<"killed", "ecall">>)
    BY <1>3
  <2>2. tf[p].epc = <<p, "ecall">> /\ pause[p].n = 0
    BY DEF Init, NoPause
  <2>3. Keeps(p, stk[p], state[p], tf[p])
    BY <2>1, <2>2 DEF Keeps
  <2>4. Pausing(stk[p], pause[p], state[p].killed, ticks)
    BY <2>1, <2>2, TrapsAssumption DEF Pausing
  <2>5. QED
    BY <2>3, <2>4 DEF ProcKeeps
<1>10. QED
  BY <1>4, <1>5, <1>6, <1>7, <1>8, <1>9 DEF IInv
\* Every step of CPU c keeps the invariant: one case for each action, and for each branch of it.
LEMMA CpuStepHolds ==
  ASSUME IInv, NEW c \in CPUs,
         \/ acquire(c) \/ spin(c) \/ release(c) \/ ecall(c) \/ timer(c) \/ external(c) \/ user(c) \/ clockintr(c) \/ tick(c)
         \/ wakeup(c) \/ plic_claim(c) \/ plic_complete(c) \/ uservec(c) \/ usertrap(c) \/ save_epc(c) \/ killed(c) \/ prepare_return(c) \/ prepare_regs(c)
         \/ userret(c) \/ kerneltrap(c) \/ restore(c) \/ sret(c) \/ yield(c) \/ kexit(c) \/ asleep(c) \/ sched(c) \/ resumed(c)
         \/ intr_on(c) \/ intr_off(c) \/ scan(c) \/ run(c) \/ sys_pause(c) \/ pause_start(c) \/ pause_loop(c)
  PROVE  IInv'
<1> DEFINE t == cur[c]
           s == stk[t]
<1>0. t = cur[c] /\ s = stk[t]
  OBVIOUS
<1> HIDE DEF t, s
<1>1. CASE acquire(c)
  BY <1>0, <1>1, AcquireStep
<1>2. CASE spin(c)
  BY <1>0, <1>2, SpinStep
<1>3. CASE release(c)
  BY <1>0, <1>3, ReleaseStep
<1>4. CASE ecall(c)
  BY <1>0, <1>4, EcallStep
<1>5. CASE timer(c)
  <2>1. Interruptible(c) /\ Trap(c, "timer") /\ pause' = pause
    BY <1>5 DEF timer
  <2>2. QED
    BY <1>0, <2>1, InterruptStep
<1>6. CASE external(c)
  <2>1. Interruptible(c) /\ Trap(c, "external") /\ pause' = pause
    BY <1>6 DEF external
  <2>2. QED
    BY <1>0, <2>1, InterruptStep
<1>7. CASE user(c)
  BY <1>0, <1>7, UserStep
<1>8. CASE clockintr(c)
  <2>1. CASE cpuid(c) = 0
    BY <1>0, <1>8, <2>1, ClockTickStep
  <2>2. CASE cpuid(c) # 0
    BY <1>0, <1>8, <2>2, NoTickStep
  <2>3. QED
    BY <2>1, <2>2
<1>9. CASE tick(c)
  BY <1>0, <1>9, TickStep
<1>10. CASE wakeup(c)
  <2>1. CASE Then(c, <<>>) /\ state' = state
    BY <1>0, <1>10, <2>1, WakeupEndStep
  <2>2. CASE \E p \in Top(c)[2] :
               /\ state' = [state EXCEPT ![p].state = IF @ = "SLEEPING" THEN "RUNNABLE" ELSE @]
               /\ Then(c, <<<<"wakeup", Top(c)[2] \ {p}>>>>)
    <3>1. PICK p \in Top(c)[2] :
            /\ state' = [state EXCEPT ![p].state = IF @ = "SLEEPING" THEN "RUNNABLE" ELSE @]
            /\ Then(c, <<<<"wakeup", Top(c)[2] \ {p}>>>>)
      BY <2>2
    <3>2. QED
      BY <1>0, <1>10, <3>1, WakeupOneStep
  <2>3. QED
    BY <1>10, <2>1, <2>2 DEF wakeup
<1>11. CASE plic_claim(c)
  <2>1. CASE Then(c, <<>>) /\ plic' = plic
    BY <1>0, <1>11, <2>1, ClaimNoneStep
  <2>2. CASE \E i \in Irqs : /\ plic[i] = "pending" /\ plic' = [plic EXCEPT ![i] = "claimed"]
                            /\ Then(c, PlicComplete(i))
    <3>1. PICK i \in Irqs : /\ plic[i] = "pending" /\ plic' = [plic EXCEPT ![i] = "claimed"]
                           /\ Then(c, PlicComplete(i))
      BY <2>2
    <3>2. QED
      BY <1>0, <1>11, <3>1, ClaimOneStep
  <2>3. QED
    BY <1>11, <2>1, <2>2 DEF plic_claim
<1>12. CASE plic_complete(c)
  BY <1>0, <1>12, CompleteStep
<1>13. CASE uservec(c)
  BY <1>0, <1>13, UservecStep
<1>14. CASE usertrap(c)
  BY <1>0, <1>14, UsertrapStep
<1>15. CASE save_epc(c)
  <2>1. CASE Top(c)[2] = "ecall" /\ state[myproc(c)].killed
    BY <1>0, <1>15, <2>1, SaveExitStep
  <2>2. CASE Top(c)[2] = "ecall" /\ ~state[myproc(c)].killed
    BY <1>0, <1>15, <2>2, SaveCallStep
  <2>3. CASE Top(c)[2] = "timer"
    BY <1>0, <1>15, <2>3, SaveTimerStep
  <2>4. CASE Top(c)[2] \notin {"timer", "ecall"}
    BY <1>0, <1>15, <2>4, SaveExternalStep
  <2>5. QED
    BY <2>1, <2>2, <2>3, <2>4
<1>16. CASE killed(c)
  <2>1. CASE state[myproc(c)].killed
    BY <1>0, <1>16, <2>1, KilledExitStep
  <2>2. CASE ~state[myproc(c)].killed /\ Top(c)[2] = "timer"
    BY <1>0, <1>16, <2>2, KilledYieldStep
  <2>3. CASE ~state[myproc(c)].killed /\ Top(c)[2] # "timer"
    BY <1>0, <1>16, <2>3, KilledReturnStep
  <2>4. QED
    BY <2>1, <2>2, <2>3
<1>17. CASE prepare_return(c)
  BY <1>0, <1>17, PrepareReturnStep
<1>18. CASE prepare_regs(c)
  BY <1>0, <1>18, PrepareRegsStep
<1>19. CASE userret(c)
  BY <1>0, <1>19, UserretStep
<1>20. CASE kerneltrap(c)
  <2>1. CASE Top(c)[2] = "timer" /\ t \in Procs
    BY <1>0, <1>20, <2>1, TimerOfProcessStep
  <2>2. CASE Top(c)[2] = "timer" /\ t \notin Procs
    BY <1>0, <1>20, <2>2, TimerOfSchedulerStep
  <2>3. CASE Top(c)[2] # "timer"
    BY <1>0, <1>20, <2>3, ExternalStep
  <2>4. QED
    BY <2>1, <2>2, <2>3
<1>21. CASE restore(c)
  BY <1>0, <1>21, RestoreStep
<1>22. CASE sret(c)
  BY <1>0, <1>22, SretStep
<1>23. CASE yield(c)
  BY <1>0, <1>23, YieldStep
<1>24. CASE kexit(c)
  BY <1>0, <1>24, KexitStep
<1>25. CASE asleep(c)
  BY <1>0, <1>25, AsleepStep
<1>26. CASE sched(c)
  BY <1>0, <1>26, SchedStep
<1>27. CASE resumed(c)
  BY <1>0, <1>27, ResumedStep
<1>28. CASE intr_on(c)
  BY <1>0, <1>28, IntrOnStep
<1>29. CASE intr_off(c)
  BY <1>0, <1>29, IntrOffStep
<1>30. CASE scan(c)
  <2>1. CASE Then(c, <<<<"scheduler">>>>)
    BY <1>0, <1>30, <2>1, ScanEndStep
  <2>2. CASE \E p \in Top(c)[2] : Then(c, <<<<"acquire", p>>, <<"run", p>>, <<"scan", Top(c)[2] \ {p}>>>>)
    <3>1. PICK p \in Top(c)[2] : Then(c, <<<<"acquire", p>>, <<"run", p>>, <<"scan", Top(c)[2] \ {p}>>>>)
      BY <2>2
    <3>2. QED
      BY <1>0, <1>30, <3>1, ScanNextStep
  <2>3. QED
    BY <1>30, <2>1, <2>2 DEF scan
<1>31. CASE run(c)
  <2>1. CASE state[Top(c)[2]].state # "RUNNABLE"
    BY <1>0, <1>31, <2>1, RunSkipStep
  <2>2. CASE state[Top(c)[2]].state = "RUNNABLE"
    BY <1>0, <1>31, <2>2, RunStep
  <2>3. QED
    BY <2>1, <2>2
<1>32. CASE sys_pause(c)
  BY <1>0, <1>32, SysPauseStep
<1>33. CASE pause_start(c)
  BY <1>0, <1>33, PauseStartStep
<1>34. CASE pause_loop(c)
  <2>1. CASE TooEarly(cur[c]) /\ ~state[myproc(c)].killed
    BY <1>0, <1>34, <2>1, PauseWaitStep
  <2>2. CASE ~(TooEarly(cur[c]) /\ ~state[myproc(c)].killed)
    BY <1>0, <1>34, <2>2, PauseDoneStep
  <2>3. QED
    BY <2>1, <2>2
<1>35. QED
  BY <1>1, <1>2, <1>3, <1>4, <1>5, <1>6, <1>7, <1>8, <1>9, <1>10, <1>11, <1>12, <1>13, <1>14, <1>15,
     <1>16, <1>17, <1>18, <1>19, <1>20, <1>21, <1>22, <1>23, <1>24, <1>25, <1>26, <1>27, <1>28,
     <1>29, <1>30, <1>31, <1>32, <1>33, <1>34

LEMMA StepHolds ==
  ASSUME IInv, [Next]_vars
  PROVE  IInv'
<1>1. CASE UNCHANGED vars
  <2>1. UNCHANGED <<hw, cpu, cur, stk, lock, state, tf, ticks, pause, plic>>
    BY <1>1 DEF vars
  <2>2. Types'
    BY <2>1 DEF IInv, Types
  <2>3. \A t \in Threads : Stack(t, stk[t])'
    BY <2>1, Unprimed DEF IInv
  <2>4. SwitchInv'
    BY <2>1 DEF IInv, SwitchInv, Nth
  <2>5. ClaimInv'
    BY <2>1 DEF IInv, ClaimInv, Nth
  <2>6. \A c \in CPUs : CpuRegs(c)'
    BY <2>1 DEF IInv, CpuRegs
  <2>7. \A p \in Procs : ProcKeeps(p)'
    BY <2>1 DEF IInv, ProcKeeps
  <2>8. QED
    BY <2>2, <2>3, <2>4, <2>5, <2>6, <2>7 DEF IInv
<1>2. CASE \E i \in Irqs : device(i)
  BY <1>2, DeviceStep
<1>3. CASE \E p \in Victims : kkill(p)
  BY <1>3, KkillStep
<1>4. ASSUME NEW c \in CPUs,
             \/ acquire(c) \/ spin(c) \/ release(c) \/ ecall(c) \/ timer(c) \/ external(c) \/ user(c) \/ clockintr(c) \/ tick(c)
             \/ wakeup(c) \/ plic_claim(c) \/ plic_complete(c) \/ uservec(c) \/ usertrap(c) \/ save_epc(c) \/ killed(c) \/ prepare_return(c) \/ prepare_regs(c)
             \/ userret(c) \/ kerneltrap(c) \/ restore(c) \/ sret(c) \/ yield(c) \/ kexit(c) \/ asleep(c) \/ sched(c) \/ resumed(c)
             \/ intr_on(c) \/ intr_off(c) \/ scan(c) \/ run(c) \/ sys_pause(c) \/ pause_start(c) \/ pause_loop(c)
      PROVE  IInv'
  BY <1>4, CpuStepHolds
<1>5. QED
  BY <1>1, <1>2, <1>3, <1>4 DEF Next
---------------------------------------------------------------------------
(* What the invariant implies.                                             *)

\* The thread of c, seen from its registers.
LEMMA Seen ==
  ASSUME IInv, NEW c \in CPUs, NEW t, t = cur[c], NEW s, s = stk[t]
  PROVE  /\ Top(c) = Nth(s, 1) /\ Top(c) \in Frame /\ Stack(t, s)
         /\ Onto(t, Nth(s, 1), Nth(s, 2), Nth(s, 3))
         /\ Regs(c, t, s, hw[c], cpu[c], tf[t]) /\ cpu[c] \in CpuStruct /\ hw[c] \in Registers
         /\ \A l \in Locks : lock[l] = c <=> l \in Held(t, Nth(s, 1), Nth(s, 2))
         /\ Nth(s, 2)[1] = "asleep" => t \in Procs
         /\ t \in Procs => Keeps(t, s, state[t], tf[t]) /\ Pausing(s, pause[t], state[t].killed, ticks)
         /\ \A L : HasOf(s, L) <=> Nth(s, 1)[1] \in L \/ HasOf(Tail(s), L)
         /\ Nth(s, 2)[1] # "none" => Nth(s, 2) = s[2]
<1>1. View(c, t, s)
  BY Running
<1>2. Nth(s, 2)[1] = "asleep" => t \in Procs
  BY <1>1 DEF View, Onto, OfProcess
<1>3. Nth(s, 2)[1] # "none" => Nth(s, 2) = s[2]
  <2>1. s \in Seq(Frame) /\ Len(s) > 0
    BY <1>1 DEF View, Stack
  <2>2. QED
    BY <1>1, <2>1, TopAndRest DEF View
<1>4. QED
  BY <1>1, <1>2, <1>3 DEF View

LEMMA HoldsTypeOK ==
  ASSUME IInv
  PROVE  TypeOK
<1>1. Types
  BY DEF IInv
<1>2. ASSUME NEW c \in CPUs
      PROVE  /\ hw[c].sie \in BOOLEAN /\ hw[c].spie \in BOOLEAN
             /\ hw[c].tp \in CPUs \cup {UserTp} /\ hw[c].stvec \in {"uservec", "kernelvec"}
             /\ hw[c].spp \in {"user", "supervisor"}
  <2>1. hw[c] \in Registers
    BY <1>1 DEF Types
  <2>2. QED
    BY <2>1 DEF Registers, Modes
<1>3. QED
  BY <1>1, <1>2 DEF TypeOK, Types, CpuStruct, States, Locks

LEMMA HoldsTpIsCpu ==
  ASSUME IInv
  PROVE  TpIsCpu
<1>1. ASSUME NEW c \in CPUs PROVE InUser(c) \/ At(c, "uservec") \/ hw[c].tp = c
  <2> DEFINE t == cur[c]
             s == stk[t]
  <2>1. Top(c) = Nth(s, 1) /\ Regs(c, t, s, hw[c], cpu[c], tf[t])
    BY Seen
  <2>2. Top(c)[1] \in User \/ Top(c)[1] = "uservec" \/ hw[c].tp = c
    BY <2>1 DEF Regs
  <2>3. QED
    BY <2>2 DEF InUser, At, User
<1>2. QED
  BY <1>1 DEF TpIsCpu

\* noff counts the locks that the thread holds or spins for.
LEMMA HeldCount ==
  ASSUME NEW t, NEW f \in Frame, NEW g, NEW h, Onto(t, f, g, h), g[1] = "asleep" => t \in Procs
  PROVE  /\ Held(t, f, g) \subseteq Locks
         /\ Depth(f, g) = Cardinality(Held(t, f, g)) + (IF f[1] = "spin" THEN 1 ELSE 0)
<1>1. \A x : Cardinality({x}) = 1
  BY FS_Singleton
<1>2. Cardinality({}) = 0
  BY FS_EmptySet
<1>3. "tickslock" \in Locks /\ (\A p \in Procs : p \in Locks)
  BY DEF Locks
<1>4. CASE f[1] \in {"tick", "wakeup", "pause_start", "pause_loop"}
  <2>1. Held(t, f, g) = {"tickslock"} /\ Depth(f, g) = 1 /\ f[1] # "spin"
    BY <1>4 DEF Held, Depth
  <2>2. QED
    BY <1>1, <1>3, <2>1
<1>5. CASE f[1] \in {"asleep", "yield", "kexit", "sched", "resumed"}
  <2>1. Held(t, f, g) = {t} /\ Depth(f, g) = 1 /\ f[1] # "spin"
    BY <1>5 DEF Held, Depth
  <2>2. t \in Procs
    BY <1>5 DEF Onto, OfProcess
  <2>3. QED
    BY <1>1, <1>3, <2>1, <2>2
<1>6. CASE f[1] = "run"
  <2>1. Held(t, f, g) = {f[2]} /\ Depth(f, g) = 1 /\ f[1] # "spin"
    BY <1>6 DEF Held, Depth
  <2>2. f[2] \in Procs
    BY <1>6 DEF Onto, OfScheduler
  <2>3. QED
    BY <1>1, <1>3, <2>1, <2>2
<1>7. CASE f[1] = "release"
  <2>1. CASE g[1] = "asleep"
    <3>1. Held(t, f, g) = {"tickslock", t} /\ Depth(f, g) = 2 /\ f[1] # "spin"
      BY <1>7, <2>1 DEF Held, Depth
    <3>2. t \in Procs /\ t # "tickslock"
      BY <2>1, Names
    <3>3. IsFiniteSet({"tickslock"}) /\ {"tickslock", t} = {"tickslock"} \cup {t} /\ t \notin {"tickslock"}
      BY <3>2, FS_Singleton
    <3>4. Cardinality({"tickslock", t}) = Cardinality({"tickslock"}) + 1
      BY <3>3, FS_AddElement
    <3>5. QED
      BY <1>1, <1>3, <3>1, <3>2, <3>4
  <2>2. CASE g[1] # "asleep"
    <3>1. Held(t, f, g) = {f[2]} /\ Depth(f, g) = 1 /\ f[1] # "spin"
      BY <1>7, <2>2 DEF Held, Depth
    <3>2. f[2] \in Locks
      BY <1>7, Arguments
    <3>3. QED
      BY <1>1, <3>1, <3>2
  <2>3. QED
    BY <2>1, <2>2
<1>8. CASE f[1] \in {"acquire", "spin"} /\ g[1] = "release"
  <2>1. Held(t, f, g) = {"tickslock"} /\ (f[1] = "spin" => Depth(f, g) = 2) /\ (f[1] # "spin" => Depth(f, g) = 1)
    BY <1>8 DEF Held, Depth
  <2>2. Cardinality(Held(t, f, g)) = 1 /\ Held(t, f, g) \subseteq Locks
    BY <1>1, <1>3, <2>1
  <2>3. QED
    BY <2>1, <2>2
<1>9. CASE f[1] \in {"acquire", "spin"} /\ g[1] # "release"
  <2>1. Held(t, f, g) = {} /\ Depth(f, g) = IF f[1] = "spin" THEN 1 ELSE 0
    BY <1>9 DEF Held, Depth
  <2>2. QED
    BY <1>2, <2>1
<1>10. CASE f[1] \notin {"tick", "wakeup", "pause_start", "pause_loop", "asleep", "yield", "kexit", "sched",
                         "resumed", "run", "release", "acquire", "spin"}
  <2>1. Held(t, f, g) = {} /\ Depth(f, g) = 0 /\ f[1] # "spin"
    BY <1>10 DEF Held, Depth
  <2>2. QED
    BY <1>2, <2>1
<1>11. QED
  BY <1>4, <1>5, <1>6, <1>7, <1>8, <1>9, <1>10

LEMMA HoldsLocksCounted ==
  ASSUME IInv
  PROVE  LocksCounted
<1>1. ASSUME NEW c \in CPUs
      PROVE  /\ cpu[c].noff = Cardinality({l \in DOMAIN lock : lock[l] = c}) + (IF At(c, "spin") THEN 1 ELSE 0)
             /\ cpu[c].noff > 0 => ~hw[c].sie
  <2> DEFINE t == cur[c]
             s == stk[t]
             f == Nth(s, 1)
             g == Nth(s, 2)
  <2>1. /\ Top(c) = f /\ f \in Frame /\ Onto(t, f, g, Nth(s, 3)) /\ (g[1] = "asleep" => t \in Procs)
        /\ Regs(c, t, s, hw[c], cpu[c], tf[t]) /\ cpu[c] \in CpuStruct
        /\ \A l \in Locks : lock[l] = c <=> l \in Held(t, f, g)
    BY Seen
  <2>2. /\ Held(t, f, g) \subseteq Locks
        /\ Depth(f, g) = Cardinality(Held(t, f, g)) + (IF f[1] = "spin" THEN 1 ELSE 0)
    BY <2>1, HeldCount
  <2>3. DOMAIN lock = Locks
    BY DEF IInv, Types
  <2>4. {l \in DOMAIN lock : lock[l] = c} = Held(t, f, g)
    BY <2>1, <2>2, <2>3
  <2>5. cpu[c].noff = Depth(f, g) /\ (hw[c].sie => cpu[c].noff = 0)
    BY <2>1 DEF Regs
  <2>6. At(c, "spin") <=> f[1] = "spin"
    BY <2>1 DEF At
  <2> HIDE DEF f, g
  <2>7. QED
    BY <2>2, <2>4, <2>5, <2>6
<1>2. QED
  BY <1>1 DEF LocksCounted

LEMMA HoldsInterruptsRestored ==
  ASSUME IInv
  PROVE  InterruptsRestored
<1>1. ASSUME NEW c \in CPUs, cpu[c].noff = 0
      PROVE  (InHandler(cur[c]) => ~hw[c].sie) /\ (InSyscall(cur[c]) => hw[c].sie)
  <2> DEFINE t == cur[c]
             s == stk[t]
  <2>1. Regs(c, t, s, hw[c], cpu[c], tf[t])
    BY Seen
  <2>2. (InHandler(t) <=> HasOf(s, Handlers)) /\ (InSyscall(t) <=> ~HasOf(s, Handlers) /\ Has(s, <<"killed", "ecall">>))
    BY DEF InHandler, InSyscall, HasLabel, HasFrame, Has, HasOf
  <2> HIDE DEF s, t
  <2>3. (HasOf(s, Handlers) => ~hw[c].sie) /\ (~HasOf(s, Handlers) /\ Has(s, <<"killed", "ecall">>) => hw[c].sie)
    BY <1>1, <2>1 DEF Regs
  <2>4. QED
    BY <2>2, <2>3 DEF t
<1>2. QED
  BY <1>1 DEF InterruptsRestored

LEMMA HoldsResumes ==
  ASSUME IInv
  PROVE  ResumesWhereInterrupted
<1>1. ASSUME NEW c \in CPUs, At(c, "sret") \/ At(c, "userret")
      PROVE  /\ hw[c].sepc = <<cur[c], stk[cur[c]][2][1]>>
             /\ hw[c].spp = (IF At(c, "sret") THEN "supervisor" ELSE "user")
             /\ hw[c].spie
  <2> DEFINE t == cur[c]
             s == stk[t]
             f == Nth(s, 1)
             g == Nth(s, 2)
  <2>1. /\ Top(c) = f /\ Onto(t, f, g, Nth(s, 3)) /\ Stack(t, s)
        /\ Regs(c, t, s, hw[c], cpu[c], tf[t]) /\ (g[1] # "none" => g = s[2])
        /\ t \in Procs => Keeps(t, s, state[t], tf[t])
        /\ \A L : HasOf(s, L) <=> f[1] \in L \/ HasOf(Tail(s), L)
    BY Seen
  <2>2. CASE f[1] = "sret"
    <3>1. g[1] # "none" /\ g = s[2]
      BY <2>1, <2>2 DEF Onto, Handlers, Open, User
    <3>2. hw[c].sepc = <<t, g[1]>> /\ hw[c].spp = "supervisor" /\ hw[c].spie
      BY <2>1, <2>2 DEF Regs
    <3>3. QED
      BY <2>1, <2>2, <3>1, <3>2 DEF At
  <2>3. CASE f[1] = "userret"
    <3>1. t \in Procs /\ g[1] \in User
      BY <2>1, <2>3 DEF Onto, OfProcess, TrapExit
    <3>2. g = s[2] /\ Bottom(s) = g
      BY <2>1, <3>1, UserBelow DEF User
    <3>3. tf[t].epc = <<t, Bottom(s)[1]>>
      BY <2>1, <2>3, <3>1 DEF Keeps, TrapExit
    <3>4. hw[c].sepc = tf[t].epc /\ hw[c].spp = "user" /\ hw[c].spie
      BY <2>1, <2>3 DEF Regs
    <3>5. QED
      BY <2>1, <2>3, <3>2, <3>3, <3>4 DEF At
  <2>4. QED
    BY <1>1, <2>1, <2>2, <2>3 DEF At
<1>2. QED
  BY <1>1 DEF ResumesWhereInterrupted

\* No frame stands on plic_complete.
LEMMA ClaimOnTop ==
  ASSUME NEW t, NEW s, Stack(t, s), NEW i
  PROVE  Has(s, <<"plic_complete", i>>) <=> Nth(s, 1) = <<"plic_complete", i>>
<1>1. s \in Seq(Frame) /\ Len(s) > 0
  BY DEF Stack
<1>2. Nth(s, 1) = s[1] /\ Len(s) \in Nat /\ \A k \in 1..Len(s) : s[k] \in Frame
  BY <1>1, TopAndRest, ElementOfSeq
<1>3. ASSUME NEW k \in 1..Len(s), k # 1, s[k] = <<"plic_complete", i>> PROVE FALSE
  <2> DEFINE j == k - 1
  <2>1. j \in 1..Len(s) /\ j + 1 = k /\ k <= Len(s)
    BY <1>2, <1>3
  <2> HIDE DEF j
  <2>2. Onto(t, s[j], Nth(s, j + 1), Nth(s, j + 2))
    BY <2>1 DEF Stack
  <2>3. Nth(s, j + 1) = s[k] /\ s[k][1] = "plic_complete"
    BY <1>3, <2>1 DEF Nth
  <2>4. s[j][1] \in Labels
    BY <1>2, <2>1, LabelOf
  <2> DEFINE f == s[j]
             g == s[k]
             h == Nth(s, j + 2)
  <2>5. Onto(t, f, g, h) /\ g[1] = "plic_complete" /\ f[1] \in Labels
    BY <2>2, <2>3, <2>4
  <2> HIDE DEF f, g, h
  <2>6. f[1] \notin OfProcess
    BY <2>5 DEF Onto, OfProcess, User, PauseLabels, TrapEntry, TrapExit
  <2>7. f[1] \notin OfScheduler /\ f[1] \notin OfDevice
    BY <2>5 DEF Onto, OfScheduler, OfDevice, AfterDevice
  <2>8. f[1] \notin Handlers
    BY <2>5 DEF Onto, Open, User
  <2>9. f[1] \notin {"acquire", "spin", "release"}
    BY <2>5 DEF Onto, AfterDevice
  <2>10. QED
    BY <2>5, <2>6, <2>7, <2>8, <2>9 DEF Labels
<1>4. 1 \in 1..Len(s)
  BY <1>1, <1>2
<1>5. QED
  BY <1>2, <1>3, <1>4 DEF Has

LEMMA HoldsClaims ==
  ASSUME IInv
  PROVE  ClaimCompleted
<1>1. ASSUME NEW i \in Irqs
      PROVE  Cardinality({t \in Threads : HasFrame(t, <<"plic_complete", i>>)})
               = (IF plic[i] = "claimed" THEN 1 ELSE 0)
  <2> DEFINE T == {t \in Threads : Nth(stk[t], 1) = <<"plic_complete", i>>}
  <2>1. {t \in Threads : HasFrame(t, <<"plic_complete", i>>)} = T
    <3>1. ASSUME NEW t \in Threads
          PROVE  HasFrame(t, <<"plic_complete", i>>) <=> Nth(stk[t], 1) = <<"plic_complete", i>>
      <4>1. Stack(t, stk[t])
        BY DEF IInv
      <4>2. Has(stk[t], <<"plic_complete", i>>) <=> Nth(stk[t], 1) = <<"plic_complete", i>>
        BY <4>1, ClaimOnTop
      <4>3. QED
        BY <4>2 DEF HasFrame, Has
    <3>2. QED
      BY <3>1
  <2>2. /\ plic[i] = "claimed" <=> \E t \in Threads : Nth(stk[t], 1) = <<"plic_complete", i>>
        /\ \A t, u \in Threads :
             Nth(stk[t], 1) = <<"plic_complete", i>> /\ Nth(stk[u], 1) = <<"plic_complete", i>> => t = u
    BY DEF IInv, ClaimInv
  <2>3. CASE plic[i] = "claimed"
    <3>1. PICK t \in Threads : Nth(stk[t], 1) = <<"plic_complete", i>>
      BY <2>2, <2>3
    <3>2. T = {t}
      BY <2>2, <3>1
    <3>3. QED
      BY <2>1, <2>3, <3>2, FS_Singleton
  <2>4. CASE plic[i] # "claimed"
    <3>1. T = {}
      BY <2>2, <2>4
    <3>2. QED
      BY <2>1, <2>4, <3>1, FS_EmptySet
  <2>5. QED
    BY <2>3, <2>4
<1>2. QED
  BY <1>1 DEF ClaimCompleted

LEMMA HoldsNoPanic ==
  ASSUME IInv
  PROVE  NoPanic
<1>1. ASSUME NEW c \in CPUs PROVE ~Panics(c)
  <2> DEFINE t == cur[c]
             s == stk[t]
             f == Nth(s, 1)
             g == Nth(s, 2)
             h == Nth(s, 3)
  <2>1. /\ Top(c) = f /\ f \in Frame /\ Onto(t, f, g, h)
        /\ Regs(c, t, s, hw[c], cpu[c], tf[t]) /\ cpu[c] \in CpuStruct
        /\ \A l \in Locks : lock[l] = c <=> l \in Held(t, f, g)
        /\ t \in Procs => Keeps(t, s, state[t], tf[t])
        /\ \A L : HasOf(s, L) <=> f[1] \in L \/ HasOf(Tail(s), L)
    BY Seen
  <2>2. f[1] \notin User /\ f[1] # "uservec" => cpuid(c) = c /\ myproc(c) = t
    BY <2>1 DEF Regs, cpuid, myproc
  <2>3. "tickslock" \in Locks /\ "tickslock" \notin Procs /\ \A p \in Procs : p \in Locks
    BY Names DEF Locks
  <2>4. hw[c].sie => f[1] \in Open
    BY <2>1 DEF Regs
  <2>5. ASSUME f[1] = "spin" PROVE ~holding(f[2], c)
    <3>1. f[2] \in Locks /\ cpuid(c) = c
      BY <2>1, <2>2, <2>5, Arguments DEF User
    <3>2. f[2] \notin Held(t, f, g)
      BY <2>1, <2>3, <2>5 DEF Held, Onto
    <3>3. QED
      BY <2>1, <3>1, <3>2 DEF holding
  <2>6. ASSUME f[1] = "wakeup", NEW p \in f[2] PROVE ~holding(p, c)
    <3>1. f[2] \in SUBSET Procs /\ cpuid(c) = c
      BY <2>1, <2>2, <2>6, Arguments DEF User
    <3>2. p \in Locks /\ p # "tickslock" /\ Held(t, f, g) = {"tickslock"}
      BY <2>3, <2>6, <3>1 DEF Held
    <3>3. QED
      BY <2>1, <3>1, <3>2 DEF holding
  <2>7. ASSUME f[1] = "release" PROVE holding(f[2], c) /\ ~hw[c].sie /\ ~(cpu[cpuid(c)].noff < 1)
    <3>1. f[2] \in Locks /\ cpuid(c) = c /\ f[1] \notin Open
      BY <2>1, <2>2, <2>7, Arguments DEF User, Open
    <3>2. f[2] \in Held(t, f, g)
      BY <2>1, <2>7 DEF Held, Onto, AfterDevice
    <3>3. Depth(f, g) \in {1, 2} /\ cpu[c].noff = Depth(f, g)
      <4>1. Depth(f, g) \in {1, 2}
        BY <2>7 DEF Depth
      <4>2. QED
        BY <2>1, <4>1 DEF Regs
    <3>4. QED
      BY <2>1, <2>4, <3>1, <3>2, <3>3 DEF holding
  <2>8. ASSUME f[1] = "sched"
        PROVE  /\ holding(myproc(c), c) /\ cpu[cpuid(c)].noff = 1
               /\ state[myproc(c)].state # "RUNNING" /\ ~hw[c].sie
    <3>1. t \in Procs /\ cpuid(c) = c /\ myproc(c) = t /\ f[1] \notin Open
      BY <2>1, <2>2, <2>8 DEF User, Open, Onto, OfProcess
    <3>2. Held(t, f, g) = {t} /\ Depth(f, g) = 1
      BY <2>8 DEF Held, Depth
    <3>3. cpu[c].noff = Depth(f, g)
      BY <2>1 DEF Regs
    <3>4. state[t].state # "RUNNING"
      BY <2>1, <2>8, <3>1 DEF Keeps
    <3>5. QED
      BY <2>1, <2>3, <2>4, <3>1, <3>2, <3>3, <3>4 DEF holding
  <2>9. ASSUME f[1] = "usertrap" PROVE hw[c].spp = "user"
    BY <2>1, <2>9 DEF Regs, TrapEntry
  <2>10. ASSUME f[1] = "kernelvec" PROVE hw[c].spp = "supervisor" /\ ~hw[c].sie
    BY <2>1, <2>4, <2>10 DEF Regs, Open, User
  <2>11. \A l : At(c, l) <=> f[1] = l
    BY <2>1 DEF At
  <2> HIDE DEF f, g, h
  <2>12. QED
    BY <2>1, <2>5, <2>6, <2>7, <2>8, <2>9, <2>10, <2>11 DEF Panics
<1>2. QED
  BY <1>1 DEF NoPanic

LEMMA HoldsPause ==
  ASSUME IInv
  PROVE  PauseLongEnough
<1>1. ASSUME NEW c \in CPUs, At(c, "killed"), Top(c)[2] = "ecall", ~state[cur[c]].killed
      PROVE  pause[cur[c]].passed >= pause[cur[c]].n
  <2> DEFINE t == cur[c]
             s == stk[t]
             f == Nth(s, 1)
             g == Nth(s, 2)
  <2>1. /\ Top(c) = f /\ f \in Frame /\ Onto(t, f, g, Nth(s, 3)) /\ Stack(t, s)
        /\ t \in Procs => Pausing(s, pause[t], state[t].killed, ticks)
        /\ \A L : HasOf(s, L) <=> f[1] \in L \/ HasOf(Tail(s), L)
    BY Seen
  <2>2. f[1] = "killed" /\ f[2] = "ecall" /\ f = <<"killed", "ecall">>
    BY <1>1, <2>1, Arguments DEF At
  <2>3. t \in Procs /\ g[1] \in User
    BY <2>1, <2>2 DEF Onto, OfProcess, TrapExit
  <2>4. ~HasOf(s, PauseLabels)
    BY <2>1, <2>2, <2>3, UserBelow DEF PauseLabels, User
  <2>5. Has(s, <<"killed", "ecall">>)
    <3>1. s \in Seq(Frame) /\ Len(s) > 0
      BY <2>1 DEF Stack
    <3>2. QED
      BY <2>2, <3>1, TopAndRest
  <2> HIDE DEF s, f, g
  <2>6. pause[t].passed >= pause[t].n \/ state[t].killed
    BY <2>1, <2>3, <2>4, <2>5 DEF Pausing
  <2>7. QED
    BY <1>1, <2>6
<1>2. QED
  BY <1>1 DEF PauseLongEnough

---------------------------------------------------------------------------
(* The theorems.                                                           *)

\* The invariant holds in every state that the CPUs, traps and interrupts reach.
LEMMA Invariance == Spec => []IInv
<1>1. Init => IInv
  BY InitHolds
<1>2. IInv /\ [Next]_vars => IInv'
  BY StepHolds
<1>3. QED
  BY <1>1, <1>2, PTL DEF Spec

\* Kernel code finds its hart number in tp, noff the number of the locks it holds or
\* spins for, and interrupts as they were before it took them, on whichever CPU it goes on
\* after a trap, sleep() or yield() (uservec, usertrap(), push_off(), pop_off(), sched()).
THEOREM KernelCodeOnItsCpu == Spec => []CpuInv
<1>1. IInv => CpuInv
  BY HoldsTypeOK, HoldsTpIsCpu, HoldsLocksCounted, HoldsInterruptsRestored DEF CpuInv
<1>2. QED
  BY <1>1, Invariance, PTL

\* sret returns to the instruction and the mode that the trap left, a claimed interrupt is
\* completed by the one thread that claimed it, and acquire(), release(), pop_off(), sched(),
\* usertrap() and kerneltrap() do not panic.
THEOREM TrapsReturn == Spec => []TrapInv
<1>1. IInv => TrapInv
  BY HoldsResumes, HoldsClaims, HoldsNoPanic DEF TrapInv
<1>2. QED
  BY <1>1, Invariance, PTL

\* pause(n) of a process that nobody killed returns after n ticks at the least, whatever the
\* width of ticks and wherever it wraps (sys_pause(), clockintr()).
THEOREM PauseWaits == Spec => []PauseLongEnough
<1>1. IInv => PauseLongEnough
  BY HoldsPause
<1>2. QED
  BY <1>1, Invariance, PTL
=============================================================================
