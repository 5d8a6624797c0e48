-------------------------------- MODULE Pipe --------------------------------
(***************************************************************************)
(* A pipe: kernel/pipe.c, with the reference counts of kernel/file.c that  *)
(* decide when an end is closed.                                           *)
(*                                                                         *)
(* pi->lock is held from acquire() to release() or sleep(): a step is one  *)
(* turn of a loop.  Only kill() reaches a process between two steps under  *)
(* the lock, because p->killed has p->lock.  sleep() and wakeup() are      *)
(* atomic steps, as module Proc shows they may be taken.                   *)
(***************************************************************************)
EXTENDS Integers, Sequences, FiniteSets

CONSTANTS
    Readers,   \* processes with the read end open when pipe() returns to them
    Writers,   \* processes with the write end open
    Killable,  \* processes that may be killed
    Bytes,
    PIPESIZE,
    UINT,      \* 2^32: nread and nwrite are counted modulo UINT
    MaxN,      \* bound: bytes asked for in one call
    NoProc     \* holder of pi->lock when it is free

Procs == Readers \cup Writers

ASSUME PipeAssumption ==
    /\ NoProc \notin Procs
    /\ Killable \subseteq Procs
    /\ PIPESIZE \in Nat \ {0} /\ UINT \in Nat
    /\ \E k \in 2 .. UINT : UINT = k * PIPESIZE
    /\ MaxN \in Nat \ {0}

VARIABLES
    data, nread, nwrite, readopen, writeopen,  \* struct pipe
    lock,     \* the process that holds pi->lock
    freed,    \* kfree(pi) was called
    rfds,     \* processes with a file descriptor for the read end
    wfds,     \* and for the write end
    pc, n, i, \* where a process is, and its locals
    eof,      \* processes to which piperead() returned 0, which means end of file
    killed    \* p->killed

pipe == <<data, nread, nwrite, readopen, writeopen>>
vars == <<pipe, lock, freed, rfds, wfds, pc, n, i, eof, killed>>

-----------------------------------------------------------------------------
PC == {"idle", "closing_read", "closing_write",
       "r_lock", "r_wait", "r_sleep", "r_asleep", "r_copy",
       "w_lock", "w_loop", "w_put", "w_asleep"}

\* Labels inside the critical section of pi->lock.
Locked == {"r_wait", "r_sleep", "r_copy", "w_loop", "w_put"}

Count == (nwrite - nread) % UINT
Empty == nread = nwrite
OneTooMany == nwrite = (nread + PIPESIZE + 1) % UINT
Full == nwrite = (nread + PIPESIZE) % UINT

Goto(p, l) == pc' = [pc EXCEPT ![p] = l]

\* wakeup(&pi->nread), wakeup(&pi->nwrite): the sleepers, which then go for the
\* lock; p goes to label l.
GotoAndWake(p, l, asleep, awake) ==
    pc' = [q \in Procs |-> IF q = p THEN l ELSE IF pc[q] = asleep THEN awake ELSE pc[q]]
WakeNobody(p, l) == Goto(p, l)
WakeReaders(p, l) == GotoAndWake(p, l, "r_asleep", "r_lock")
WakeWriters(p, l) == GotoAndWake(p, l, "w_asleep", "w_lock")

\* release(&pi->lock) and return.
Return(p) ==
    /\ lock' = NoProc
    /\ n' = [n EXCEPT ![p] = 0]
    /\ i' = [i EXCEPT ![p] = 0]

Acquire(p, from, to) ==
    /\ pc[p] = from
    /\ lock = NoProc
    /\ lock' = p
    /\ Goto(p, to)
    /\ UNCHANGED <<pipe, freed, rfds, wfds, n, i, eof, killed>>

-----------------------------------------------------------------------------
\* piperead(pi, addr, k), with k > 0
piperead(p, k) ==
    /\ pc[p] = "idle"
    /\ ~killed[p]
    /\ p \in rfds
    /\ n' = [n EXCEPT ![p] = k]
    /\ Goto(p, "r_lock")
    /\ UNCHANGED <<pipe, lock, freed, rfds, wfds, i, eof, killed>>

read_lock(p) == Acquire(p, "r_lock", "r_wait")

\* The loop that waits for data; it is entered again after every sleep().
MustWait == Empty /\ writeopen

read_go(p) ==
    /\ pc[p] = "r_wait"
    /\ ~MustWait
    /\ Goto(p, "r_copy")
    /\ UNCHANGED <<pipe, lock, freed, rfds, wfds, n, i, eof, killed>>

read_wait(p) ==
    /\ pc[p] = "r_wait"
    /\ MustWait
    /\ IF killed[p]
       THEN /\ Goto(p, "idle")
            /\ Return(p)
       ELSE /\ Goto(p, "r_sleep")
            /\ UNCHANGED <<lock, n, i>>
    /\ UNCHANGED <<pipe, freed, rfds, wfds, eof, killed>>

\* sleep(&pi->nread, &pi->lock)
read_sleep(p) ==
    /\ pc[p] = "r_sleep"
    /\ lock' = NoProc
    /\ Goto(p, "r_asleep")
    /\ UNCHANGED <<pipe, freed, rfds, wfds, n, i, eof, killed>>

\* One byte goes to the user.
read_byte(p) ==
    /\ pc[p] = "r_copy"
    /\ i[p] < n[p]
    /\ ~Empty
    /\ nread' = (nread + 1) % UINT
    /\ i' = [i EXCEPT ![p] = @ + 1]
    /\ UNCHANGED <<data, nwrite, readopen, writeopen, lock, freed, rfds, wfds, pc, n, eof,
                   killed>>

\* copyout() fails: the byte stays in the pipe.
read_fault(p) ==
    /\ pc[p] = "r_copy"
    /\ i[p] < n[p]
    /\ ~Empty
    /\ WakeWriters(p, "idle")
    /\ Return(p)
    /\ UNCHANGED <<pipe, freed, rfds, wfds, eof, killed>>

read_done(p) ==
    /\ pc[p] = "r_copy"
    /\ i[p] = n[p] \/ Empty
    /\ WakeWriters(p, "idle")
    /\ eof' = IF i[p] = 0 THEN eof \cup {p} ELSE eof
    /\ Return(p)
    /\ UNCHANGED <<pipe, freed, rfds, wfds, killed>>

-----------------------------------------------------------------------------
\* pipewrite(pi, addr, k), with k > 0
pipewrite(p, k) ==
    /\ pc[p] = "idle"
    /\ ~killed[p]
    /\ p \in wfds
    /\ n' = [n EXCEPT ![p] = k]
    /\ Goto(p, "w_lock")
    /\ UNCHANGED <<pipe, lock, freed, rfds, wfds, i, eof, killed>>

write_lock(p) == Acquire(p, "w_lock", "w_loop")

\* The top of the loop: the early return wakes nobody.
write_check(p) ==
    /\ pc[p] = "w_loop"
    /\ i[p] < n[p]
    /\ IF ~readopen \/ killed[p]
       THEN /\ Goto(p, "idle")
            /\ Return(p)
       ELSE /\ Goto(p, "w_put")
            /\ UNCHANGED <<lock, n, i>>
    /\ UNCHANGED <<pipe, freed, rfds, wfds, eof, killed>>

\* wakeup(&pi->nread); sleep(&pi->nwrite, &pi->lock)
write_full(p) ==
    /\ pc[p] = "w_put"
    /\ Full
    /\ lock' = NoProc
    /\ WakeReaders(p, "w_asleep")
    /\ UNCHANGED <<pipe, freed, rfds, wfds, n, i, eof, killed>>

write_byte(p, v) ==
    /\ pc[p] = "w_put"
    /\ ~Full
    /\ data' = [data EXCEPT ![nwrite % PIPESIZE] = v]
    /\ nwrite' = (nwrite + 1) % UINT
    /\ i' = [i EXCEPT ![p] = @ + 1]
    /\ Goto(p, "w_loop")
    /\ UNCHANGED <<nread, readopen, writeopen, lock, freed, rfds, wfds, n, eof, killed>>

\* copyin() fails, or everything is written.
write_fault(p) ==
    /\ pc[p] = "w_put"
    /\ ~Full
    /\ WakeReaders(p, "idle")
    /\ Return(p)
    /\ UNCHANGED <<pipe, freed, rfds, wfds, eof, killed>>

write_done(p) ==
    /\ pc[p] = "w_loop"
    /\ i[p] = n[p]
    /\ WakeReaders(p, "idle")
    /\ Return(p)
    /\ UNCHANGED <<pipe, freed, rfds, wfds, eof, killed>>

-----------------------------------------------------------------------------
\* fileclose(): --f->ref under ftable.lock; whoever drops the last reference
\* goes on to pipeclose().
AnyReference(fds, p) == TRUE
LastReference(fds, p) == fds = {p}

close_read(p) ==
    /\ pc[p] = "idle"
    /\ p \in rfds
    /\ rfds' = rfds \ {p}
    /\ Goto(p, IF LastReference(rfds, p) THEN "closing_read" ELSE "idle")
    /\ UNCHANGED <<pipe, lock, freed, wfds, n, i, eof, killed>>

close_write(p) ==
    /\ pc[p] = "idle"
    /\ p \in wfds
    /\ wfds' = wfds \ {p}
    /\ Goto(p, IF LastReference(wfds, p) THEN "closing_write" ELSE "idle")
    /\ UNCHANGED <<pipe, lock, freed, rfds, n, i, eof, killed>>

\* pipeclose(pi, 0) and pipeclose(pi, 1)
pipeclose_read(p) ==
    /\ pc[p] = "closing_read"
    /\ lock = NoProc
    /\ readopen' = FALSE
    /\ freed' = (freed \/ ~writeopen)
    /\ WakeWriters(p, "idle")
    /\ UNCHANGED <<data, nread, nwrite, writeopen, lock, rfds, wfds, n, i, eof, killed>>

pipeclose_write(p) ==
    /\ pc[p] = "closing_write"
    /\ lock = NoProc
    /\ writeopen' = FALSE
    /\ freed' = (freed \/ ~readopen)
    /\ WakeReaders(p, "idle")
    /\ UNCHANGED <<data, nread, nwrite, readopen, lock, rfds, wfds, n, i, eof, killed>>

\* kkill(): sets p->killed and wakes the victim.
kkill(p) ==
    /\ ~killed[p]
    /\ killed' = [killed EXCEPT ![p] = TRUE]
    /\ Goto(p, CASE pc[p] = "r_asleep" -> "r_lock"
                 [] pc[p] = "w_asleep" -> "w_lock"
                 [] OTHER -> pc[p])
    /\ UNCHANGED <<pipe, lock, freed, rfds, wfds, n, i, eof>>

-----------------------------------------------------------------------------
\* pipealloc(), and the fork()s after it.  kalloc() leaves any bytes in data.
Init ==
    /\ data \in [0 .. PIPESIZE - 1 -> Bytes]
    /\ nread = 0
    /\ nwrite = 0
    /\ readopen = TRUE
    /\ writeopen = TRUE
    /\ lock = NoProc
    /\ freed = FALSE
    /\ rfds = Readers
    /\ wfds = Writers
    /\ pc = [p \in Procs |-> "idle"]
    /\ n = [p \in Procs |-> 0]
    /\ i = [p \in Procs |-> 0]
    /\ eof = {}
    /\ killed = [p \in Procs |-> FALSE]

\* The calls in progress go on.
Step(p) ==
    \/ read_lock(p) \/ read_go(p) \/ read_wait(p) \/ read_sleep(p)
    \/ read_byte(p) \/ read_fault(p) \/ read_done(p)
    \/ write_lock(p) \/ write_check(p) \/ write_full(p) \/ (\E v \in Bytes : write_byte(p, v))
    \/ write_fault(p) \/ write_done(p)
    \/ pipeclose_read(p) \/ pipeclose_write(p)

Call(p) ==
    \/ \E k \in 1 .. MaxN : piperead(p, k) \/ pipewrite(p, k)
    \/ close_read(p) \/ close_write(p)

Next ==
    \/ \E p \in Procs : Step(p) \/ Call(p)
    \/ \E p \in Killable : kkill(p)

Spec == Init /\ [][Next]_vars

\* A process that is not asleep is scheduled, and wins pi->lock in the end; a
\* writer closes its descriptor, at the latest when it exits.
Fairness ==
    \A p \in Procs : SF_vars(Step(p)) /\ SF_vars(close_write(p))

FairSpec == Spec /\ Fairness

-----------------------------------------------------------------------------
(***************************************************************************)
(* Properties.                                                             *)
(***************************************************************************)

\* Types; pi->lock is held by the one process that is inside its critical
\* section; no more bytes are counted than the pipe holds.
TypeOK ==
    /\ data \in [0 .. PIPESIZE - 1 -> Bytes]
    /\ nread \in 0 .. UINT - 1
    /\ nwrite \in 0 .. UINT - 1
    /\ readopen \in BOOLEAN
    /\ writeopen \in BOOLEAN
    /\ lock \in Procs \cup {NoProc}
    /\ freed \in BOOLEAN
    /\ rfds \subseteq Readers
    /\ wfds \subseteq Writers
    /\ pc \in [Procs -> PC]
    /\ n \in [Procs -> Nat]
    /\ i \in [Procs -> Nat]
    /\ eof \subseteq Readers
    /\ killed \in [Procs -> BOOLEAN]
    /\ \A p \in Procs : lock = p <=> pc[p] \in Locked
    /\ Count <= PIPESIZE

\* No wakeup is lost: once pi->lock is free, a reader is asleep only on an empty
\* pipe that can still be written ("pipe-empty"), and a writer only on a full
\* pipe that can still be read ("pipewrite-full").  The one exception is in the
\* code: a killed writer returns without waking the readers of what it wrote.
NoLostWakeup ==
    lock = NoProc =>
        \A p \in Procs :
            /\ pc[p] = "r_asleep" => writeopen /\ (Empty \/ \E q \in Writers : killed[q])
            /\ pc[p] = "w_asleep" => Full /\ readopen

\* End of file is final: a read that returned 0 found the pipe empty and its
\* write end closed, and nothing comes after, for any reader.
EofIsFinal == eof # {} => Empty /\ ~writeopen

\* Nobody uses a pipe that pipeclose() freed, and only one process frees it.
NoUseAfterFree == freed => \A p \in Procs : pc[p] = "idle"

\* The bytes between nread and nwrite.
Queue == [k \in 1 .. Count |-> data[(nread + k - 1) % PIPESIZE]]

F == INSTANCE Fifo WITH queue <- Queue, Capacity <- PIPESIZE

\* The ring with its wrapping counters implements a bounded queue: no byte is
\* lost, repeated, reordered or overwritten, whatever calls overlap.
ImplementsFifo == F!Spec

\* A reader does not sleep for ever once every writer has closed: pipeclose()
\* wakes it and it returns.
ReadersReturn == \A p \in Readers :
    ~writeopen /\ pc[p] \in {"r_lock", "r_wait", "r_sleep", "r_asleep"} ~> pc[p] = "idle"

(***************************************************************************)
(* The inductive invariant.                                                *)
(***************************************************************************)
Reading == {"r_lock", "r_wait", "r_sleep", "r_asleep", "r_copy"}
Writing == {"w_lock", "w_loop", "w_put", "w_asleep"}

\* Whoever is in a call has its end open; one process at most closes an end, after
\* the last reference is gone; the pipe is freed when both ends are closed.
EndsOpen ==
    /\ \A p \in Procs : pc[p] \in Reading => p \in rfds /\ n[p] > 0
    /\ \A p \in Procs : pc[p] \in Writing => p \in wfds
    /\ rfds # {} => readopen
    /\ wfds # {} => writeopen
    /\ \A p \in Procs : pc[p] = "closing_read" => readopen /\ rfds = {}
    /\ \A p \in Procs : pc[p] = "closing_write" => writeopen /\ wfds = {}
    /\ \A p, q \in Procs : pc[p] = pc[q] /\ pc[p] \in {"closing_read", "closing_write"} => p = q
    /\ freed => ~readopen /\ ~writeopen

\* What a process found under pi->lock is still so when it acts on it, and whoever
\* sleeps without a reason is about to be woken by the holder of pi->lock.
SleepersSeen ==
    /\ \A p \in Procs : pc[p] = "r_sleep" => MustWait
    /\ \A p \in Procs : pc[p] = "r_copy" /\ i[p] = 0 => ~MustWait
    /\ \A p \in Procs : pc[p] = "w_put" => readopen
    /\ \A p \in Procs : pc[p] = "r_asleep" =>
        /\ writeopen
        /\ Empty \/ (\E q \in Writers : killed[q]) \/ (\E q \in Procs : pc[q] \in {"w_loop", "w_put"})
    /\ \A p \in Procs : pc[p] = "w_asleep" =>
        /\ readopen
        /\ Full \/ \E q \in Procs : pc[q] = "r_copy"

IInv == EndsOpen /\ SleepersSeen /\ EofIsFinal

\* What holds of a pipe between any two steps of its readers, writers and closers.
PipeInv == TypeOK /\ IInv /\ NoLostWakeup /\ NoUseAfterFree
=============================================================================
