-------------------------------- MODULE Log ---------------------------------
(***************************************************************************)
(* The redo log of kernel/log.c: concurrent file-system calls, the group   *)
(* commit, and recovery after a crash.                                     *)
(*                                                                         *)
(* Each action is one critical section under log.lock, one buffer          *)
(* operation under the buffer's sleep-lock, or one disk write.  The buffer *)
(* cache (kernel/bio.c, module Bio) appears as far as the log relies on    *)
(* it: a block has at most one cached copy, a copy that is neither locked  *)
(* nor pinned may be recycled at any moment, and its contents are then     *)
(* lost.  A crash may tear the block that is being written, except the     *)
(* header, which fits in one 512-byte sector.                              *)
(***************************************************************************)
EXTENDS Integers, Sequences, FiniteSets

CONSTANTS
    Procs,        \* processes that make file-system calls
    Blocks,       \* home block numbers, the ones log_write() records
    Data,         \* block contents
    Zero,         \* the contents mkfs gives the log blocks
    Torn,         \* contents of a block whose write a crash interrupted
    NotCached,    \* "no buffer holds this block"
    NoBlock,      \* "this process has no buffer locked"
    LOGBLOCKS,    \* param.h: data blocks in the on-disk log
    MAXOPBLOCKS,  \* param.h: blocks that begin_op() reserves for a call
    OpBlocks,     \* distinct blocks a call really logs
    MaxCrashes    \* bound on the crashes of one behaviour

ASSUME LogAssumption ==
    /\ IsFiniteSet(Procs)
    /\ Zero \in Data
    /\ Torn \notin Data
    /\ NotCached \notin Data \cup {Torn}
    /\ NoBlock \notin Blocks
    /\ MAXOPBLOCKS \in Nat \ {0}
    /\ LOGBLOCKS \in Nat
    /\ MAXOPBLOCKS <= LOGBLOCKS
    /\ OpBlocks \in 1 .. MAXOPBLOCKS
    /\ MaxCrashes \in Nat

VARIABLES
    disk,         \* home blocks on disk
    dlog,         \* log blocks on disk: log.start + i
    dhead,        \* log header on disk: the first n entries of its block[]
    lh,           \* log.lh in memory: the first n entries of its block[]
    outstanding,  \* log.outstanding
    committing,   \* log.committing
    cache,        \* contents of the buffer that caches a home block
    pin,          \* references bpin() holds on that buffer
    holds,        \* the buffer whose sleep-lock a process holds
    pc,           \* where a process is
    wrote,        \* blocks the current call of a process has logged
    tail,         \* loop variable of write_log() and install_trans()
    mode,         \* "boot", "recover", "up" or "panicked"
    crashes       \* crashes so far

logvars  == <<lh, outstanding, committing>>
diskvars == <<disk, dlog, dhead>>
bufvars  == <<cache, pin, holds>>
vars == <<diskvars, logvars, bufvars, pc, wrote, tail, mode, crashes>>

-----------------------------------------------------------------------------
\* Program counters.  "inop", "locked" and "dirty" are between begin_op() and
\* end_op(): no buffer locked; one locked and as the log knows it; one locked
\* and modified, log_write() not yet called.
ActivePC == {"inop", "locked", "dirty"}
CommitPC == {"write_log", "install_trans", "wake"}
PC == {"idle", "begin", "asleep"} \cup ActivePC \cup CommitPC

Active == {p \in Procs : pc[p] \in ActivePC}
Locked(b) == \E p \in Procs : holds[p] = b
Logged(b) == \E i \in 1 .. Len(lh) : lh[i] = b

\* The contents bread() returns: the cached copy, else what the disk holds.
Contents(b) == IF cache[b] = NotCached THEN disk[b] ELSE cache[b]

Goto(p, l) == pc' = [pc EXCEPT ![p] = l]

\* wakeup(&log) by p, which itself goes on at l.
WakeupAndGoto(p, l) ==
    pc' = [q \in Procs |-> IF q = p THEN l
                           ELSE IF pc[q] = "asleep" THEN "begin" ELSE pc[q]]

\* bpin() and bunpin(), under bcache.lock.
bpin(b) == [pin EXCEPT ![b] = @ + 1]
bunpin(b) == [pin EXCEPT ![b] = @ - 1]

\* panic(): the machine is stuck until it is restarted.
Panic ==
    /\ mode' = "panicked"
    /\ UNCHANGED <<diskvars, logvars, bufvars, pc, wrote, tail, crashes>>

-----------------------------------------------------------------------------
\* begin_op()

\* A system call enters begin_op().
call(p) ==
    /\ pc[p] = "idle"
    /\ Goto(p, "begin")
    /\ UNCHANGED <<diskvars, logvars, bufvars, wrote, tail, mode, crashes>>

\* The space test of begin_op(): the log must have room for the calls under way
\* and this one, each at its worst.  Mutant: this one is not counted.
NoSpaceForOthers == Len(lh) + outstanding * MAXOPBLOCKS > LOGBLOCKS
NoSpace == Len(lh) + (outstanding + 1) * MAXOPBLOCKS > LOGBLOCKS

\* One turn of the loop, under log.lock: sleep, or join the group.
begin_op(p) ==
    /\ pc[p] = "begin"
    /\ IF committing \/ NoSpace
       THEN /\ Goto(p, "asleep")
            /\ UNCHANGED outstanding
       ELSE /\ outstanding' = outstanding + 1
            /\ Goto(p, "inop")
    /\ UNCHANGED <<diskvars, lh, committing, bufvars, wrote, tail, mode, crashes>>

-----------------------------------------------------------------------------
\* The call's own work: bread(), modify b->data, log_write(), brelse()

\* bread() in a call: lock the buffer, reading the block if it is not cached.
bread(p, b) ==
    /\ pc[p] = "inop"
    /\ ~Locked(b)
    /\ cache' = [cache EXCEPT ![b] = Contents(b)]
    /\ holds' = [holds EXCEPT ![p] = b]
    /\ Goto(p, "locked")
    /\ UNCHANGED <<diskvars, logvars, pin, wrote, tail, mode, crashes>>

\* The call changes the data of the buffer it has locked, within its budget: it
\* logs at most OpBlocks distinct blocks, and nothing more once these are as many
\* as begin_op() reserved (log_write() tests for room before it looks for absorption).
modify(p, v) ==
    /\ pc[p] = "locked"
    /\ holds[p] \in wrote[p] \/ Cardinality(wrote[p]) < OpBlocks
    /\ Cardinality(wrote[p]) < MAXOPBLOCKS
    /\ cache' = [cache EXCEPT ![holds[p]] = v]
    /\ Goto(p, "dirty")
    /\ UNCHANGED <<diskvars, logvars, pin, holds, wrote, tail, mode, crashes>>

\* log_write(): record the block and pin its buffer, once (log absorption).
log_write(p) ==
    /\ pc[p] = "dirty"
    /\ IF Len(lh) >= LOGBLOCKS \/ outstanding < 1
       THEN Panic
       ELSE /\ IF Logged(holds[p])
               THEN UNCHANGED <<lh, pin>>
               ELSE /\ lh' = Append(lh, holds[p])
                    /\ pin' = bpin(holds[p])
            /\ wrote' = [wrote EXCEPT ![p] = @ \cup {holds[p]}]
            /\ Goto(p, "locked")
            /\ UNCHANGED <<diskvars, outstanding, committing, cache, holds,
                           tail, mode, crashes>>

\* brelse()
brelse(p) ==
    /\ pc[p] = "locked"
    /\ holds' = [holds EXCEPT ![p] = NoBlock]
    /\ Goto(p, "inop")
    /\ UNCHANGED <<diskvars, logvars, cache, pin, wrote, tail, mode, crashes>>

\* bread() and brelse() of a process that only reads, outside a transaction.
read(b) ==
    /\ cache[b] = NotCached
    /\ ~Locked(b)
    /\ cache' = [cache EXCEPT ![b] = disk[b]]
    /\ UNCHANGED <<diskvars, logvars, pin, holds, pc, wrote, tail, mode, crashes>>

\* bget() recycles a buffer nobody references (refcnt == 0) for another block.
recycle(b) ==
    /\ cache[b] # NotCached
    /\ ~Locked(b)
    /\ pin[b] = 0
    /\ cache' = [cache EXCEPT ![b] = NotCached]
    /\ UNCHANGED <<diskvars, logvars, pin, holds, pc, wrote, tail, mode, crashes>>

-----------------------------------------------------------------------------
\* end_op() and commit()

\* First critical section of end_op(): the last call out becomes committer.
end_op(p) ==
    /\ pc[p] = "inop"
    /\ IF committing
       THEN Panic
       ELSE /\ outstanding' = outstanding - 1
            /\ wrote' = [wrote EXCEPT ![p] = {}]
            /\ IF outstanding = 1
               THEN /\ committing' = TRUE
                    /\ tail' = 0
                    /\ Goto(p, IF Len(lh) > 0 THEN "write_log" ELSE "wake")
               ELSE /\ WakeupAndGoto(p, "idle")
                    /\ UNCHANGED <<committing, tail>>
            /\ UNCHANGED <<diskvars, lh, bufvars, mode, crashes>>

\* One turn of write_log(): copy a modified block from the cache to the log.
write_log(p) ==
    /\ pc[p] = "write_log"
    /\ tail < Len(lh)
    /\ LET b == lh[tail + 1] IN
        /\ ~Locked(b)
        /\ dlog' = [dlog EXCEPT ![tail + 1] = Contents(b)]
        /\ cache' = [cache EXCEPT ![b] = Contents(b)]
    /\ tail' = tail + 1
    /\ UNCHANGED <<disk, dhead, logvars, pin, holds, pc, wrote, mode, crashes>>

\* The order of commit(): every block is in the log before the header names it.
HeaderFirst == TRUE
LogWritten == tail = Len(lh)

\* write_head() after write_log(): the point at which the group commits.
write_head(p) ==
    /\ pc[p] = "write_log"
    /\ LogWritten
    /\ dhead' = lh
    /\ tail' = 0
    /\ Goto(p, "install_trans")
    /\ UNCHANGED <<disk, dlog, logvars, bufvars, wrote, mode, crashes>>

\* The copy both uses of install_trans() make in one turn of the loop.
InstallBlock ==
    /\ tail < Len(lh)
    /\ LET b == lh[tail + 1] IN
        /\ ~Locked(b)
        /\ disk' = [disk EXCEPT ![b] = dlog[tail + 1]]
        /\ cache' = [cache EXCEPT ![b] = dlog[tail + 1]]
    /\ tail' = tail + 1

\* One turn of install_trans(0): copy a block home and unpin its buffer.
install_trans(p) ==
    /\ pc[p] = "install_trans"
    /\ InstallBlock
    /\ pin' = bunpin(lh[tail + 1])
    /\ UNCHANGED <<dlog, dhead, logvars, holds, pc, wrote, mode, crashes>>

\* log.lh.n = 0 and the second write_head(): erase the transaction.
clear_head(p) ==
    /\ pc[p] = "install_trans"
    /\ tail = Len(lh)
    /\ lh' = <<>>
    /\ dhead' = <<>>
    /\ Goto(p, "wake")
    /\ UNCHANGED <<disk, dlog, outstanding, committing, bufvars, wrote, tail,
                   mode, crashes>>

\* Second critical section of end_op().
commit_not_done(p) ==
    /\ pc[p] = "wake"
    /\ WakeupAndGoto(p, "idle")
    /\ UNCHANGED <<diskvars, logvars, bufvars, wrote, tail, mode, crashes>>
commit_done(p) ==
    /\ pc[p] = "wake"
    /\ committing' = FALSE
    /\ WakeupAndGoto(p, "idle")
    /\ UNCHANGED <<diskvars, lh, outstanding, bufvars, wrote, tail, mode, crashes>>

-----------------------------------------------------------------------------
\* Crash, and recovery by the first process (fsinit() -> initlog())

\* The block a machine that stops now may leave half written.
LogInFlight ==
    {i \in {tail + 1} : i <= Len(lh) /\ \E p \in Procs : pc[p] = "write_log"}
HomeInFlight ==
    {lh[i] : i \in {j \in {tail + 1} :
        j <= Len(lh) /\ (mode = "recover" \/ \E p \in Procs : pc[p] = "install_trans")}}

crash ==
    /\ crashes < MaxCrashes
    /\ \E tl \in SUBSET LogInFlight, th \in SUBSET HomeInFlight :
        /\ dlog' = [i \in 1 .. LOGBLOCKS |-> IF i \in tl THEN Torn ELSE dlog[i]]
        /\ disk' = [b \in Blocks |-> IF b \in th THEN Torn ELSE disk[b]]
    /\ lh' = <<>>
    /\ outstanding' = 0
    /\ committing' = FALSE
    /\ cache' = [b \in Blocks |-> NotCached]
    /\ pin' = [b \in Blocks |-> 0]
    /\ holds' = [p \in Procs |-> NoBlock]
    /\ pc' = [p \in Procs |-> "idle"]
    /\ wrote' = [p \in Procs |-> {}]
    /\ tail' = 0
    /\ mode' = "boot"
    /\ crashes' = crashes + 1
    /\ UNCHANGED dhead

\* read_head()
read_empty_head ==
    /\ mode = "boot"
    /\ lh' = <<>>
    /\ tail' = 0
    /\ mode' = "recover"
    /\ UNCHANGED <<diskvars, outstanding, committing, bufvars, pc, wrote, crashes>>
read_head ==
    /\ mode = "boot"
    /\ lh' = dhead
    /\ tail' = 0
    /\ mode' = "recover"
    /\ UNCHANGED <<diskvars, outstanding, committing, bufvars, pc, wrote, crashes>>

\* One turn of install_trans(1): no buffer was pinned before the crash.
recover_install ==
    /\ mode = "recover"
    /\ InstallBlock
    /\ UNCHANGED <<dlog, dhead, logvars, pin, holds, pc, wrote, mode, crashes>>

\* The end of recover_from_log(): clear the log; calls may start.
recover_clear ==
    /\ mode = "recover"
    /\ tail = Len(lh)
    /\ lh' = <<>>
    /\ dhead' = <<>>
    /\ mode' = "up"
    /\ UNCHANGED <<disk, dlog, outstanding, committing, bufvars, pc, wrote, tail,
                   crashes>>

-----------------------------------------------------------------------------
\* mkfs writes a zeroed log into an arbitrary image; the machine is about to boot.
Init ==
    /\ disk \in [Blocks -> Data]
    /\ dlog = [i \in 1 .. LOGBLOCKS |-> Zero]
    /\ dhead = <<>>
    /\ lh = <<>>
    /\ outstanding = 0
    /\ committing = FALSE
    /\ cache = [b \in Blocks |-> NotCached]
    /\ pin = [b \in Blocks |-> 0]
    /\ holds = [p \in Procs |-> NoBlock]
    /\ pc = [p \in Procs |-> "idle"]
    /\ wrote = [p \in Procs |-> {}]
    /\ tail = 0
    /\ mode = "boot"
    /\ crashes = 0

Commit(p) == write_log(p) \/ write_head(p) \/ install_trans(p) \/ clear_head(p)

Process(p) ==
    \/ call(p) \/ begin_op(p) \/ end_op(p)
    \/ \E b \in Blocks : bread(p, b)
    \/ \E v \in Data : modify(p, v)
    \/ log_write(p) \/ brelse(p)
    \/ Commit(p) \/ commit_done(p)

Recovery == read_head \/ recover_install \/ recover_clear

Next ==
    \/ /\ mode = "up"
       /\ \/ \E p \in Procs : Process(p)
          \/ \E b \in Blocks : read(b) \/ recycle(b)
    \/ Recovery
    \/ crash

Spec == Init /\ [][Next]_vars

\* A machine that is up keeps scheduling its processes, disk writes complete,
\* and a system call does a bounded amount of work: it releases the buffers it
\* locks and reaches end_op().  Nobody is promised to win the race in begin_op().
Up(A) == mode = "up" /\ A
Fairness ==
    /\ WF_vars(Recovery)
    /\ \A p \in Procs :
        /\ WF_vars(Up(Commit(p) \/ commit_done(p)))
        /\ WF_vars(Up(log_write(p)))
        /\ SF_vars(Up(brelse(p)))
        /\ SF_vars(Up(end_op(p)))

FairSpec == Spec /\ Fairness

-----------------------------------------------------------------------------
\* Every variable has its type, and the header fits in the log.
TypeOK ==
    /\ disk \in [Blocks -> Data \cup {Torn}]
    /\ dlog \in [1 .. LOGBLOCKS -> Data \cup {Torn}]
    /\ dhead \in Seq(Blocks) /\ Len(dhead) <= LOGBLOCKS
    /\ lh \in Seq(Blocks) /\ Len(lh) <= LOGBLOCKS
    /\ outstanding \in Nat
    /\ committing \in BOOLEAN
    /\ cache \in [Blocks -> Data \cup {Torn, NotCached}]
    /\ pin \in [Blocks -> Nat]
    /\ holds \in [Procs -> Blocks \cup {NoBlock}]
    /\ pc \in [Procs -> PC]
    /\ wrote \in [Procs -> SUBSET Blocks]
    /\ tail \in Nat
    /\ mode \in {"boot", "recover", "up", "panicked"}
    /\ crashes \in Nat

\* No call reaches panic("too big a transaction"), panic("log_write outside of
\* trans") or panic("log.committing"): the reservation begin_op() makes is
\* enough for every call that starts, however calls overlap, also when they fill
\* the log to its last block.
NoPanic == mode # "panicked"

\* A buffer that nobody has locked and that the log has not pinned agrees with
\* the disk, so recycling it in bget() loses no update (bpin() in log_write(),
\* bunpin() in install_trans()).
RecyclableIsClean ==
    \A b \in Blocks :
        cache[b] # NotCached /\ pin[b] = 0 /\ ~Locked(b) => cache[b] = disk[b]

\* No call is ever given a block whose write a crash interrupted.
NoTornRead == \A b \in Blocks : cache[b] # Torn

\* A process asleep in begin_op() has somebody to wake it: a committer, or a
\* call that has yet to reach end_op().
SleeperHasWaker ==
    \A p \in Procs : pc[p] = "asleep" => committing \/ outstanding > 0

-----------------------------------------------------------------------------
\* The inductive invariant.

Running == mode \in {"up", "panicked"}
At(l) == \E p \in Procs : pc[p] = l
Dirty(b) == \E p \in Procs : pc[p] = "dirty" /\ holds[p] = b
\* Entry i of the header has been copied home, by commit() or by recovery.
Installed(i) == i <= tail /\ (mode = "recover" \/ At("install_trans"))

\* Who is where: calls are counted, at most one process commits, and only when
\* no call is under way; a buffer has one holder.
GroupInv ==
    /\ outstanding = Cardinality(Active)
    /\ committing <=> \E p \in Procs : pc[p] \in CommitPC
    /\ \A p, q \in Procs : pc[p] \in CommitPC /\ pc[q] \in CommitPC => p = q
    /\ committing => Active = {}
    /\ ~Running => \A p \in Procs : pc[p] = "idle"
    /\ \A p \in Procs : holds[p] # NoBlock <=> pc[p] \in {"locked", "dirty"}
    /\ \A p, q \in Procs : holds[p] = holds[q] /\ holds[p] # NoBlock => p = q

\* The header on disk is empty, or is the transaction being installed.
HeadInv ==
    /\ \A i, j \in 1 .. Len(lh) : lh[i] = lh[j] => i = j
    /\ \A i, j \in 1 .. Len(dhead) : dhead[i] = dhead[j] => i = j
    /\ mode = "boot" => lh = <<>>
    /\ mode = "recover" \/ At("install_trans") => dhead = lh
    /\ Running /\ ~At("install_trans") => dhead = <<>>
    /\ At("wake") => lh = <<>>
    /\ mode = "recover" \/ At("write_log") \/ At("install_trans") => tail <= Len(lh)

\* Buffers: pinned exactly while logged and not yet installed, and otherwise
\* equal to the disk unless a call has one locked and modified.
BufInv ==
    /\ \A b \in Blocks :
        pin[b] = IF Running /\ \E i \in 1 .. Len(lh) : lh[i] = b /\ ~Installed(i)
                 THEN 1 ELSE 0
    /\ \A b \in Blocks : pin[b] # 0 => cache[b] # NotCached
    /\ \A b \in Blocks :
        cache[b] # NotCached /\ pin[b] = 0 /\ ~Dirty(b) => cache[b] = disk[b]
    /\ \A b \in Blocks : cache[b] # Torn
    /\ \A p \in Procs : holds[p] # NoBlock => cache[holds[p]] # NotCached

\* The log: copied entries hold what the cache holds, committed ones are whole,
\* and a torn home block is one that recovery will write again.
DiskInv ==
    /\ \A i \in 1 .. Len(dhead) : dlog[i] # Torn
    /\ At("write_log") => \A i \in 1 .. tail : dlog[i] = cache[lh[i]]
    /\ At("install_trans") =>
        \A i \in 1 .. Len(lh) : i > tail => dlog[i] = cache[lh[i]]
    /\ \A i \in 1 .. Len(lh) : Installed(i) => disk[lh[i]] = dlog[i]
    /\ \A b \in Blocks : disk[b] = Torn =>
        \E i \in 1 .. Len(dhead) : dhead[i] = b /\ ~Installed(i)

\* The inductive invariant behind crash atomicity.
IInv == GroupInv /\ HeadInv /\ BufInv /\ DiskInv

-----------------------------------------------------------------------------
\* What recovery makes of a header, a log and a disk: the blocks the header
\* names come from the log.
Recover(head, log, home) ==
    [b \in Blocks |->
        IF \E i \in 1 .. Len(head) : head[i] = b
        THEN log[CHOOSE i \in 1 .. Len(head) : head[i] = b]
        ELSE home[b]]

\* The refinement mapping: what a machine that crashed now would come back with,
\* and what a call that reads now is given.
Recovered == Recover(dhead, dlog, disk)
Visible == [b \in Blocks |-> Contents(b)]

AD == INSTANCE AtomicDisk WITH
        durable <- Recovered,
        current <- IF Running THEN Visible ELSE Recovered,
        active  <- Active,
        sealed  <- committing

\* Crash atomicity: the log implements AtomicDisk, whose disk goes in one step
\* from before a group of calls to after it and falls back to that state when
\* the machine crashes, at any disk write, during recovery too.
CrashAtomic == AD!Spec

\* Nobody sleeps in begin_op() for ever.
SleeperWakes == \A p \in Procs : pc[p] = "asleep" ~> pc[p] # "asleep"

\* Every commit that starts ends (or the machine crashes).
CommitEnds == committing ~> ~committing

\* After a crash the machine comes up again, crashes during recovery included.
Recovers == mode = "boot" ~> mode = "up"


\* The liveness of log.c: sleepers in begin_op() wake, commits end, recovery ends.
LogProgress == SleeperWakes /\ CommitEnds /\ Recovers
=============================================================================
