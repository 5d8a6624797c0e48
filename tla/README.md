# xv6: a TLA+ verification project

This directory specifies the xv6 kernel of this repository (RISC-V, multiprocessor) and its shell in
TLA+, checks the specifications with TLC on small instances, and proves with TLAPS, for every value of the
parameters, the safety properties and the refinements of eight of its ten detailed modules: log, buffer cache, pipes, processes,
disk driver, console, virtual memory and traps. `PROJECT.json` maps every
definition that models code to its source lines.

    tlc -workers 2 -config Fs.cfg MCFs      # a run of the table in section 3
    tlapm LogProofs.tla                     # a proof

## 1. The system

| Component (source) | State | Operations | Interacts with | What is hard | What makes it correct |
|---|---|---|---|---|---|
| Logging layer (`log.c`) | header in memory and on disk, log blocks, `outstanding`, `committing` | `begin_op`, `log_write`, `end_op`, `commit`, `recover_from_log` | pins buffers; every file-system call runs inside it | group commit of overlapping calls; crash at any disk write, also during recovery; admission by reservation | calls are atomic under crashes; no update is lost to recycling; sleepers are woken; the log never overflows |
| Buffer cache, sleep-locks (`bio.c`, `sleeplock.c`) | per buffer: block number, `valid`, data, `refcnt`, sleep-lock; LRU list | `bget`, `bread`, `bwrite`, `brelse`, `bpin`, `bunpin`, `acquiresleep`, `releasesleep` | disk driver below, log and inodes above | `bcache.lock` is given up before the sleep-lock is waited for; recycling | one copy per block, one holder at a time, what is held or pinned stays |
| Disk driver (`virtio_disk.c`) | descriptors, avail and used rings, `info[].status`, `b->disk` | `virtio_disk_rw`, `virtio_disk_intr`, `alloc3_desc`, `free_chain` | device, interrupts, buffer cache | completion out of order, index wrap, descriptors run out, acknowledging races new completions | every request completes once, with its own buffer |
| Inodes, directories, block allocator (`fs.c`) | inode table with `ref`, `valid`, sleep-locks; on-disk inodes, bitmap | `iget`, `iput`, `ilock`, `ialloc`, `bmap`, `itrunc`, `dirlink`, `namex`, `ireclaim` | log, buffer cache | `iput` gives up `itable.lock` while freeing; orphans after a crash | no inode freed while in use; counts agree with holders; the durable disk is well formed |
| Files, system calls (`file.c`, `sysfile.c`) | file table, per-process descriptors | open, close, dup, link, unlink, mkdir, mknod, chdir, read, write, fstat, pipe | inodes, pipes, devices | reference counts; one of several steps failing; locks given up between them | references = holders on every path |
| Pipes (`pipe.c`) | ring of `PIPESIZE` bytes, `nread`, `nwrite`, two open flags, references | `piperead`, `pipewrite`, `pipeclose` | sleep/wakeup, file references, copyin/copyout | unsigned wrap-around; two channels; kill; close races | bounded FIFO; no lost wakeup; end of file is final; freed once, unused after |
| Processes and scheduler (`proc.c`, `sysproc.c`) | process table, `p->lock`, `wait_lock`, `c->proc` | `scheduler`, `sched`, `yield`, `sleep`, `wakeup`, fork, exit, wait, kill | everything sleeps and is preempted through it | locks held across `swtch`; exit racing wait; orphans; slot reuse | a kernel stack has one user; no missed exit; every zombie has a living parent; a kill marks the process it names and no other |
| Spin-locks, traps, clock (`spinlock.c`, `trap.c`, `plic.c`, `*.S`, `sys_pause`) | CPU registers of a trap, `noff`, `intena`, trapframe, `ticks` | `acquire`, `release`, `push_off`, `pop_off`, `usertrap`, `kerneltrap`, `devintr`, `clockintr`, `prepare_return` | every other part of the kernel | nested traps, threads that change CPU, interrupts while a lock is held | a trap resumes what it interrupted; a CPU knows its number; no handler spins on its own CPU's lock |
| Memory (`kalloc.c`, `vm.c`, `exec.c`) | free list, page tables, `p->sz` | `kalloc`, `kfree`, `uvmcopy`, `uvmalloc`, `uvmdealloc`, `vmfault`, `kexec` | fork, exec, exit, sbrk | failure half-way; lazily allocated pages; sizes that are not pages | every page has one use; address spaces are separate |
| Console, UART (`console.c`, `uart.c`) | input ring with `r`, `w`, `e`; `tx_busy` | `consoleintr`, `consoleread`, `consolewrite`, `uartwrite`, `uartintr` | interrupts, sleep/wakeup | interrupt against process; indices that wrap and move back | lines arrive whole, once; the transmitter is not overrun and does not stall |
| Shell and init (`user/sh.c`, `user/init.c`) | command tree; processes and their descriptors | the parser, `runcmd`, the two main loops | fork, exit, wait, pipe, dup, exec | ends of pipes left open; `wait(0)` takes any child; recursion over a cursor | the parse is the grammar's; programs get the right descriptors; the prompt returns |

The components form a stack: the shell calls fork, exec, pipe and the file-system calls; those run in
transactions of the log on inodes in the buffer cache, which the disk driver fills; whatever waits sleeps and is woken
through the process table, and traps drive it all.

## 2. Modules

| Module | What it is | Code |
|---|---|---|
| `AtomicDisk`, `Log` | a disk that changes by whole groups of calls, and the redo log with crashes and recovery | `log.c` |
| `BufferCache`, `Bio` | a cache with one copy per block (its steps are those `Log` takes on buffers), and the buffers with LRU list, references and sleep-locks | `bio.c`, `sleeplock.c` |
| `SyncDisk`, `VirtioDisk` | a disk that carries out each request once (the one step `Bio` takes for a transfer), and the driver with its device | `virtio_disk.c` |
| `Fs` | inodes, directories, paths, files and the calls, on a disk whose commits are `Log`'s promise | `fs.c`, `file.c`, `sysfile.c`, parts of `proc.c` and `pipe.c` |
| `Fifo`, `Pipe` | a bounded queue with two ends that close, and the ring buffer with its sleepers | `pipe.c`, `fileclose()` |
| `Family`, `Proc` | fork, exit, wait, kill on pids, and the process table with CPUs and scheduler | `proc.c`, `trap.c`, `sysproc.c` |
| `Traps` | CPUs as registers and kernel stacks as sequences of frames | `spinlock.c`, `trap.c`, `plic.c`, `kernelvec.S`, `trampoline.S`, `swtch.S`, `proc.c`, `sysproc.c` |
| `AddressSpaces`, `Vm` | separate memories that start as zeroes, and pages with page tables | `kalloc.c`, `vm.c`, `exec.c`, parts of `proc.c` and `sysproc.c` |
| `Tty`, `Console` | an editable line in front of a queue, and the ring with the UART | `console.c`, `uart.c` |
| `Shell` | parser, processes and descriptors | `user/sh.c`, `user/init.c` |
| `MCProc`, `MCVirtioDisk`, `MCFs`, `MCVm`, `MCTraps`, `MCShell` | instances for TLC; `Log`, `Bio`, `Pipe` and `Console` need none | |
| `LogProofs`, `BioProofs`, `PipeProofs`, `ProcProofs`, `VirtioDiskProofs`, `ConsoleProofs`, `VmProofs`, `TrapsProofs` | theorems about the module they are named after | |

Where two modules stand in one row, the first is the abstract specification and the second is shown to
implement it (`INSTANCE ... WITH`, with the abstract specification as a property). `AtomicDisk`,
`BufferCache` and `SyncDisk` are also how the layers compose: each detailed module uses the abstract one below it.

Variables carry the names of the C fields (`lh` is `log.lh.block[0..n-1]`, `refcnt` is `b->refcnt`, and
so on); `pc` says where a process is, and actions carry the name of the function, or of its part,
that they model. Definitions placed just before another one, of the same parameters and used by
nobody, are mutations: plausible bugs (a wakeup forgotten, a lock taken too late) that the properties
are tested against.

### Granularity

A step is one critical section of a spin-lock, one section under a sleep-lock, or one disk write. Where the code holds a lock
across several steps, the lock is a variable: sleep-locks, `wait_lock`, `pi->lock`, `cons.lock`,
`vdisk_lock`, and `p->lock` across `swtch()` and inside `sleep()`. Outside `Proc` and `Traps`, `sleep()` is one atomic
step; the reason it may be (the condition lock is released only under `p->lock`, which `wakeup()` takes) is what
`Proc` models step by step for `kwait()`. In `Traps` a step is as fine as an interrupt can tell.

### Abstractions

* **Log.** Block contents are members of a small set; a call does not compute anything from them, and logs nothing more
  once it has logged as many distinct blocks as it reserved (section 5).
  The header is written atomically, a data block in flight may be torn by a crash. Any cached copy that is neither locked
  nor pinned may vanish. A call locks one buffer at a time; that the code may lock a second, of another block, before it
  releases the first adds nothing `log.c` could tell. Panicking stops the machine.
* **Bio.** One device; a transfer is a single step. `Procs` are holders: each has one buffer at a time, and a process that asks for a
  second while it has one (`write_log()` and `install_trans()`, `log.c:75-76` and `185-186`; `bmap()` over `balloc()`, `itrunc()` over `bfree()`) is two of
  them. For safety that is more general than the code. For `SleeperWakes` it is an assumption: a holder releases its buffer, so that the one
  it waits for meanwhile is released too is not shown. (Log blocks, home blocks, indirect blocks and the bitmap are asked for in an
  order without cycles.)
* **VirtioDisk.** A request is named by its buffer. `vdisk_lock` is held over `alloc_format` and
  `publish`, which the device sees as two steps. Memory barriers are taken to work; the status byte is
  always "ok", as QEMU's is; the device takes the direction from the flags of the data descriptor, and never looks at the type in `ops[]`. What is never read again is set back to its first value.
* **Fs.** A file grows by whole blocks, up to `MAXFILE`; a directory has one block; names and paths are given, not parsed;
  a `write()` is one block and so one transaction. A `write()` from memory the program does not have, which leaves a block
  beyond the size, is left out. The log is its promise: `durable` becomes `disk` when the last
  outstanding call ends. Two paths are used, one relative and one through a directory, so current directories that
  were removed occur; `..` does not occur in paths (see section 6). When `pipe()` fails it gives back its descriptors and then its files, one by one.
* **Pipe.** Processes get their descriptors when the behaviour starts; reads and
  writes of 0 bytes are left out. Return values are reduced to "end of file".
* **Proc.** Every scan of the process table takes one step per slot. `kexit()` closes files before
  `acquire(&wait_lock)`, which changes no state of this module (it is in `Fs`). The exit
  status is not carried; `copyout()` of it may fail except for init, which passes 0. Leaving `sched()`
  is one step with the scheduler's choice, because nobody else can look at a process whose lock is held.
  `Family` keeps, for each process, the pid it gave to the `kill()` it is in (`asked`), and which of these calls began before their
  victim was born (`missed`): `kkill()` scans slot by slot, so such a call may or may not meet it. In `Proc` the two are read off a caller's
  `target` and the slot its scan has reached.
  Killing init is excluded by assumption: it leads to `panic("init exiting")` by design.
* **Traps.** The registers kept are those a trap uses, and `tp`. The only system call is `pause()`; a program otherwise computes,
  traps and uses `tp` as it likes. What a device handler does is elsewhere.
* **Vm.** Sizes are counted in units of which `PGSIZE` make a page; a table page serves `Fanout` pages; the
  top levels of a page table are one root page and one page for trampoline and trapframe. A page that `kalloc()` hands out holds junk until it is
  cleared or copied to. exec's image is a text page, a guard and a stack page. `kalloc()` of a page and `mappages()` of it, which may need a
  page for a table, are one step that needs both pages: when only the second is missing, the code takes the first and gives it back with
  `kfree(mem)`, which leaves the memory as it was but is not seen to do so. In the same way `allocproc()` takes its three pages in one step or fails.
* **Console.** One handler at a time, as the PLIC guarantees (`ClaimCompleted` of `Traps`). The transmit FIFO counts bytes; input is not lost in
  the device. `consoleintr()` stores a character and wakes readers before its echo is sent, the code after; `cons.lock` is held over both, so
  no reader can tell. ^P prints and changes nothing.
* **Shell.** A line is a sequence of tokens; a program writes a few pipefuls, then reads to the end of its input. `cd` and `>>` are left out.
  `wait()` is enabled only when there is a zombie child: the waits of `sh.c` always have a child, so the return of -1 is not met. A child of init whose
  `exec("sh")` fails exits at once, as a shell does that finds the end of its input.

## 3. Runs

| Run | Instance | Shows |
|---|---|---|
| `log` | 2 processes, 2 blocks, 2 values, a log of 2 blocks of which a call reserves 1, 2 crashes, fair | `CrashAtomic` (refinement of `AtomicDisk`), `NoTornRead`, `SleeperHasWaker`, `NoPanic`, the inductive invariant `IInv`; `LogProgress`: sleepers wake, commits end, the machine recovers |
| `bio` | 2 holders, 3 blocks, 2 buffers, 1 pin, fair | `OneBufferPerBlock`, `StillWanted`, `NoLostWakeup`, `CacheInv` (`TypeOK`, `IInv`, `PinsBounded`, `ReadOnce`, `EnoughBuffers`), `ImplementsCache`; a sleeper on a buffer is woken |
| `virtio` | 3 requests, 8 descriptors, indices modulo 16 | `QueueInv` (`TypeOK`, `IInv`, `RequestTracked`, `CompletionSeen`, `NoLostWakeup`), `ChainsPartition`, `ImplementsDisk`; no deadlock |
| `fs` | 2 processes, 3 calls, 3 inodes and table slots, 2 blocks, 2 files, 2 descriptors each, 2 crashes | `CountInv` (`TypeOK`, `RefsCounted`), `CopyIsCurrent`, `InUseInv` (`InUseIsAllocated`, `IputWontBlock`, `NoInodePanic`), `DurableConsistent`, `BootLeavesNoOrphan`; no deadlock |
| `fs_leak` | 2 processes, 1 name, 2 inodes | **violation**, see section 6 |
| `pipe` | 2 readers and 2 writers in 3 processes, of which the one with both ends may be killed, 2 bytes, counters modulo 4, fair | `PipeInv` (`TypeOK`, `IInv` with `EofIsFinal`, `NoLostWakeup`, `NoUseAfterFree`), `ImplementsFifo`; readers return at end of file |
| `proc_safety` | 2 CPUs, 3 slots, pids up to 4, `kill()` of pid 3 | `StackInv` (`TypeOK`, `IInv` with `LocksHeld` and `StackInUse`), `NoMissedExit`, `OrphansAdopted`, `ImplementsFamily`; no deadlock |
| `proc_liveness` | 1 CPU, 3 slots, pids up to 3, fair | `ProcProgress`: orphans are reaped; killed user code exits |
| `traps` | 2 CPUs, 1 process, 1 device, ticks modulo 3 | `CpuInv` (`TypeOK`, `TpIsCpu`, `LocksCounted`, `InterruptsRestored`), `TrapInv` (`ResumesWhereInterrupted`, `ClaimCompleted`, `NoPanic`), `PauseLongEnough`; no deadlock |
| `vm` | 2 processes, 13 pages, 3 pages of memory each | `PageInv` (`TypeOK`, `IInv`, `PagesPartition`, `NoLeafBeyondSize`), `ImplementsSpaces`; no deadlock |
| `console` | 1 reader, 2 writers, ring of 2, indices modulo 4, 3 keys, fair | `ConsoleInv` (`TypeOK`, `IInv` with `NoLostWakeup` and `FifoBounded`), `ImplementsTty`; a sleeping sender is woken |
| `shell` | 6 processes, 5 descriptors, all 584 lines of up to 3 tokens and 10 longer ones, then one of 2 second lines, fair | `ParsedByGrammar`, `PlumbingInv` (`TypeOK`, `Plumbing`), `InOrder`; the shell prompts again |

An invariant whose parts are in brackets is their conjunction.

**Bounds.** Log: two processes let one commit while the other waits or writes; two blocks make absorption, order
of installation and tearing visible. A log of two blocks of which each call reserves one is scarce: two calls fill it, a call that comes while
one is active may have to wait for space, and admitting one too many overflows it. With two crashes the second may come when recovery has installed a
block. Calls that log several blocks are left to the theorems (`CrashAtomicity`, `NoPanicEver`). Bio: two holders and a pin for two
buffers give a holder, a waiter and recycling; three blocks do not fit. Virtio: two requests take six of eight descriptors, so the third
sleeps; eight entries fit twice into sixteen indices. Fs: three calls are the least for open, unlink and a third that
meets them; inodes, blocks, files and descriptors are few enough to run out; a second crash may come in the middle of `ireclaim()`'s scan,
before or after an orphan is freed. Pipe: two writers take turns in filling the pipe, and two readers wake from one write; the process with both ends is a reader and a writer in turn;
counters modulo 4 wrap, and 4 is a multiple of the size, as 2^32 is of 512. Proc: three slots are
init, a parent and its child, and pids up to 4 let slots be used again and the table be full; pid 3 can be named by `kill()` before it is born, while it
lives or is dead, and after pid 4 has its slot. Traps: one process that moves between two CPUs, whose schedulers
are interrupted too; a tick counter of 3 wraps within a pause. Vm: two address spaces of three pages with their
tables need more than the pages there are, so every allocation can fail. Console: three keys fill a ring of two once over; `Start`
puts the indices just before their wrap. Shell: three levels of pipes or blocks need more than six processes, so `fork` fails
in some behaviours; the second line is one program or a list of two, the least that calls `wait(0)` with a background process of the first line around. `MaxCrashes`, `MaxCalls`, `MaxPid`, `MaxPinned`, `MaxN`, `MaxTyped`, `RxSize`, `MaxLines` and `Chunks` are the named bounds.
`proc_safety` uses the symmetry of CPUs; `vm` explores states that differ only in the numbers of pages once (`Shape`), and `traps`
those that differ only in an `intena` that `push_off()` overwrites before anybody reads it (`Live`).

**Deadlock** is checked except where the system may really stop: `bget()` may panic (`bio`), both ends of a
pipe are closed (`pipe`), nobody types (`console`), or init exits, which is a panic of the kernel (`shell`). In `fs` the
end of all calls is a step of its own (`Finished`).

**Fairness.** Liveness runs assume what the kernel's scheduling gives. `scheduler()` scans the whole table for ever and
timer interrupts preempt both user and kernel code, so every runnable process runs (weak fairness
of its steps). Where a step needs a lock others take again and again, strong fairness is assumed:
a spinning `acquire()` gets its turn. The `amoswap` loop does not promise that in theory; nothing in the kernel
could make progress without it. In `Log` and `Bio` a system call is assumed to release the buffers it locked and to reach
`end_op()`; nothing is assumed about who wins in `begin_op()`, so no claim is made that a given call is
ever admitted. In `Proc` init calls `wait()` in a loop (`user/init.c`), and in `Pipe` writers close in the end (at
the latest by exiting). In `Console` the UART sends what it has and its handler runs. In `Shell` processes run and programs
read to the end of their input; nobody is assumed to type.

## 4. Proofs

All theorems hold for any sets of processes, CPUs, blocks, bytes and requests and any sizes that satisfy the `ASSUME` of the
module. Each rests on an inductive invariant (`IInv`), which TLC found to hold on the instance of the run before it was proved, and whose proof has a lemma per
part or per action. A run checks the parts of it that are defined in the component's module;
the parts defined with the proofs (all of it for `Traps`, where it makes the run too long) were checked on the same instance.

* **`LogProofs`.** `Invariance` proves `TypeOK /\ IInv`. `CrashAtomic` is not inductive by itself: whether a
  crash loses anything depends on where the committed data is. `IInv` says it in four parts. `GroupInv`: calls are counted,
  there is at most one committer, and none while calls are active. `HeadInv`: the header on disk is empty except from the
  commit point to the end of installation, when it equals the one in memory. `BufInv`: a buffer is pinned exactly while it is
  logged and not yet installed, and an unpinned one that nobody modifies equals the disk. `DiskInv`: log blocks named by a header are
  whole and equal to the cached data until installed, and only blocks that recovery will rewrite can be torn.
  `TypeCorrect`, `RecyclableIsCleanAlways` and `NoTornReadAlways` follow. `CrashAtomicity` is `Spec => CrashAtomic`: the durable disk is what
  recovery would make of the current header, log and home blocks; writing the header is the step at which it changes for a whole
  group, and all other steps, installation, clearing and recovery included, leave it alone because of `IInv`.
  `NoPanicEver` counts: the blocks in the log plus
  what active calls may still add stay within `LOGBLOCKS`. Also `SleeperHasWakerAlways`.
* **`BioProofs`.** `Invariance` for `IInv` of `Bio`: `refcnt` is at least the number of processes between `bget()` and `brelse()`,
  and the sleep-lock's holder is the process past `acquiresleep()`. Recycling needs `refcnt = 0`, so it never
  hits a buffer somebody waits for. `OneBufferPerBlockAlways`, `StillWantedAlways` and `NoLostWakeupAlways` follow. `CacheSafe` adds what
  `EnoughBuffers` needs: `refcnt` exceeds the references of processes by pins, of which there are at most `MaxPinned`, so a table without
  a free buffer has `NBUF` references. `BufferCacheRefined` is `Spec => ImplementsCache`: a block
  that a process holds is valid in its buffer, and is read from disk only after recycling (`ReadOnce`), so the holder sees what was last written.
* **`PipeProofs`.** `PipeSafe`: who is inside a call has its end open, and who sleeps without a reason is about to be woken by the holder of
  `pi->lock` (`EndsOpen`, `SleepersSeen`). `PipeIsFifo`: `nread` and `nwrite` may wrap at any multiple of `PIPESIZE` that leaves room
  for a full pipe.
* **`ProcProofs`.** `StacksSafe`, `NoExitMissed` and `ParentsCanWait` are one induction. The parts of `IInv` say who holds which lock
  (`LocksHeld`), which CPU runs what (`StackInUse`, `CpuInv`), where a thread can be in each state (`LabelInv`), what a pending fork has left half done (`ForkInv`), that
  init stays (`InitStays`), which children an exiting process still has (`ParentInv`), and what the scans under `wait_lock` have passed (`SleepInv`). The heart is
  `PassedAwake`: a child whose `wakeup()` has passed its parent finds the parent awake until it is a zombie itself, because the
  parent needs `wait_lock` to go back to sleep.
  `FamilyKept` is `Spec => ImplementsFamily`, provided that no program calls `kill(0)`. `PidInv` (pids in use differ and are below `nextpid`)
  makes the status and the parent of a pid those of its one slot; `EffectStep` shows that each of the 34 actions has one of eleven effects on slots, and
  each effect is an action of `Family` or none. For `kill()` the state of a scan is what counts: a caller whose scan has passed the slot of the pid it names
  did so before that pid was born there (`Passed`), so a scan that ends without a match has missed nobody who was there from the call on, and
  a match is the pid asked for, because `kkill()` compares and marks under one lock.
* **`VirtioDiskProofs`.** `QueueSafe`, `DescriptorsPartitioned`, `DriverIsSynchronous`. A head is in at most one of the avail ring, the device's
  hands, the answered set and the used ring, and in one exactly while its caller sleeps (`PlaceInv`); the chains of callers are disjoint and
  are all that is not free (`ChainInv`); since there are at most `NUM` heads, no ring is overrun (`RingInv`). `free_chain()` walks the chain by a
  recursive function; that it has the value its equation says is proved from the least counterexample, without an induction schema.
* **`ConsoleProofs`.** `ConsoleSafe`, `ConsoleIsTty`. `RingInv`: `r`, `w` and `e` follow each other around the ring, and what can still be edited
  holds no newline, so ^U goes back to `w` and no further. `FifoInv` says who may still add a byte to the transmitter.
* **`VmProofs`.** `PagesSafe`, `SpacesSeparate`. `PagesPartition` counts uses, which no step can be followed through; `IInv` says instead that the
  pages of a process (`Own`: its two tables with what they map, its trapframe and its argument) are disjoint from those of every other
  process and from the free list, and that all together are the memory (`MemoryInv`); that inside a process a table is a tree in which no page occurs twice
  and a mapped page has its table (`Tree`, `OwnInv`); what a process has in each state (`StateInv`); and how far the loops of `uvmalloc()`,
  `uvmcopy()` and `kexec()` have come and what their pages hold (`GrowInv`, `CopyInv`, `LoadInv`). Every action moves pages between the free list and
  one process only, so one lemma (`Frame`) covers everybody else; each action then has a lemma for its own process, and two processes for the steps of fork.
  A failed loop returns exactly the pages that its part of the invariant says it took, and `proc_freepagetable()` returns all that a process has
  because nothing is mapped at or above the size it is given (`FreeAll`). Each action is then a step of `AddressSpaces` or leaves all spaces as they are. The assumptions are three pages for
  `userinit()`, room for the image of `/init`, and that programs do not store the value that stands for no space.
* **`TrapsProofs`.** `KernelCodeOnItsCpu`, `TrapsReturn`, `PauseWaits`. The properties speak of the registers of a CPU and the top of one stack, and a step
  brings up whatever lies below: a return pops a frame, a switch continues another stack on another CPU. `IInv` therefore says what a whole
  stack may look like. `Stack`: which frame may stand on which two (`Onto`; a handler stands only on code that runs with interrupts on, saves the place under it, and there
  is at most one). The two top frames then determine the locks a thread holds (`Held`), `noff` (`Depth`) and `tp`, `stvec`, `sepc`, `spp`, `spie` and `sie` of the CPU it runs on (`Regs`).
  `SwitchInv`: a process runs on one CPU, whose scheduler waits to release its lock, and one that does not run waits in `swtch()` or in
  `forkret()`. `Keeps`: what a thread that does not run will find, its `intena`, its `epc` and its state. `ClaimInv`: a claimed interrupt is on top of one
  stack, so nothing can come between claim and completion. `Pausing`: `passed` is the distance from `ticks0` to `ticks` modulo the width of `ticks`, or has reached `n`;
  this needs that an `int` is less than half of that width. Every action has a lemma, most of them by way of one of five that say what a
  step may touch (`Plain`, `Quiet`, `Local`, `Serves`, `Switches`): if only the top of one stack and the CPU under it change, all other parts of the invariant
  stay. The assumptions are that processes, CPUs and `tickslock` have different names, and the one on `int`.

The provers know `%` by its defining equation only, so lemmas about wrapping indices (`ModUnique` and those after it) start from the uniqueness of the remainder. They
give what `Append`, `Tail` and a step of an index do to the sequence between two indices. They stand at the head of each module that needs them.

**Model-checked only.** Every liveness property and the absence of deadlock (liveness under fairness and `ENABLED` are beyond the prover
here), and all properties of `Fs` and `Shell`. `Shell` uses recursive operators, so its module can
hold no theorem. The invariants of `Fs` count references over the tables of all processes at every moment of every call; their induction is left open.

## 5. What holds only under a condition

* `NoPanic` of `Log` needs calls that log nothing more, not even a block they have logged already, once they have logged as many distinct blocks
  as they reserve (section 6, `log.c:221`). The largest file-system call of this kernel (`filewrite`, which splits its work by `MAXOPBLOCKS`) stays below that.
* `EnoughBuffers` needs `NBUF >= holders + pinned blocks`, where a process that has two buffers is two holders. xv6 has `NBUF = LOGBLOCKS = 30`: if the log were completely
  full of pinned blocks, no buffer would be left for the next `bread()`.
* `NoLostWakeup` of `Pipe` lets a reader sleep on a pipe with bytes in it once a writer was killed, as the code does (section 6).
* `ImplementsFamily` needs programs that do not call `kill(0)` (section 6), and `Proc` as a whole programs that do not kill init.
* `NoInodePanic` of `Fs` is about four panics: `ilock()` of a slot without references or of an inode without a type, `unlink()` of an
  inode without links and `bfree()` of a free block. It is checked for paths without `..`; with `..` the code reaches the second (section 6). The
  panic of `iget()` for a full table is not claimed either: the code reaches it, and the run's table is as large as its inodes.
* `ImplementsSpaces` does not tell a failed call that changed the length of a space from an `sbrk()`, and `ImplementsTty` does not say which reads may lose a
  character (in the code, those whose `either_copyout()` fails).
* `InOrder` of `Shell` holds while no `fork1()` has failed.

## 6. Where code and documentation disagree

* `fs_leak`: `iput()` releases the inode's lock after freeing it on disk but before it gives back its reference
  (`fs.c:356-361`). A process that allocates the same inode in this window, and drops it again without a link, does not
  free it because it sees two references; the first then takes the count to zero without looking. The inode stays allocated until
  `ireclaim()` at the next boot, against the comment at `fs.c:130`.

Read in the code, and outside what the runs check:

* `log_write()` tests for room before absorption, so a log that is exactly full would panic on a block it already
  holds (`log.c:221`).
* A `kill()` between `killed(p)` and `sleep()` in `kwait()` is not noticed until a child exits (`proc.c:407`);
  `piperead`, `pipewrite`, `consoleread` and `sys_pause` have the same window. A killed writer of a pipe returns without waking readers (`pipe.c:84`).
* `kill(0)` matches an unused slot, and the process that gets the slot next is born killed (`proc.c:599`).
* A file made in a current directory that was removed keeps a link nobody can remove, and `..` of such a directory
  may lead to an inode that was freed (`panic("ilock: no type")`). `iget()` panics when more than `NINODE` inodes are in use, and `NFILE` is larger than `NINODE`.
* The first of several redirections of one command wins, `a & b` is a syntax error, and a pipeline whose second `fork1()`
  fails is left running. When init cannot fork, it exits, and the kernel panics.

## 7. Not modelled

`syscall.c` (a table), `start.c` and `entry.S` (run once, before the first state), `printf.c` and `string.c`
(formatting, copying), the kernel's own page table, feature negotiation with the disk, indirect blocks, path parsing, the ELF
format, `mkfs` except for the disk it makes, and the user programs other than `sh` and `init`, of which `usertests.c` and `grind.c`, the longest, are
tests. `features/*.md` describe features that have no code in this commit.

## 8. Plan

1. Theorems about `Fs` (`RefsCounted`).
2. Pure algorithms against reference definitions: `bmap` with the indirect block, `skipelem`, `balloc`'s bitmap search and `umalloc`.
3. A larger `Fs` instance with `..` and three processes, once the state space is reduced by symmetry of inodes and blocks.
