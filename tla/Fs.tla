-------------------------------- MODULE Fs --------------------------------
(***************************************************************************)
(* Inodes, directories, path names, open files and the file-system calls   *)
(* (kernel/fs.c, kernel/file.c, kernel/sysfile.c), with crashes.           *)
(*                                                                         *)
(* disk is what the calls read and write through the buffer cache; durable *)
(* is what a crash leaves: the log (module Log) commits when the last      *)
(* outstanding call ends.  A step is what a process does between two       *)
(* points where it may wait for a sleep-lock or another process may see    *)
(* the difference: the section of an ilock()..iunlock(), or one part of    *)
(* iput().  A directory has one block of entries.  Slots of the inode and  *)
(* file tables, inodes and descriptors are counted from 1; 0 is none.      *)
(***************************************************************************)
EXTENDS Integers, Sequences, FiniteSets, FiniteSetsExt, Functions

CONSTANTS Procs,        \* process slots
          InitProc,     \* the process that boots
          NoProc,       \* no process holds a lock
          Names,        \* names of directory entries
          Paths,        \* the paths calls use: [abs |-> BOOLEAN, elems |-> <<...>>]
          NINODE,       \* slots of the inode table
          NInodes,      \* inodes on disk
          NBlocks,      \* data blocks on disk
          NFILE, NOFILE,\* open files, descriptors of a process
          MAXFILE,      \* blocks of a file
          MaxCalls, MaxCrashes

ASSUME FsAssumption == /\ InitProc \in Procs /\ NoProc \notin Procs
                       /\ {NINODE, NInodes, NBlocks, NFILE, NOFILE} \subseteq Nat \ {0}
                       /\ \A pa \in Paths : Range(pa.elems) \subseteq Names \cup {".", ".."}

VARIABLES disk, durable, itable, ftable, proc, reclaim, calls, crashes
other == <<reclaim, calls, crashes>>
vars == <<disk, durable, itable, ftable, proc, other>>

ROOTINO == 1
Slots == 1..NINODE
Inums == 1..NInodes
Blocks == 1..NBlocks
Entries == Names \cup {".", ".."}
NoInode == [type |-> "none", nlink |-> 0, addrs |-> <<>>]
Idle == [live |-> FALSE, cwd |-> 0, ofile |-> [fd \in 1..NOFILE |-> 0],
         inop |-> FALSE, pc |-> "user", op |-> "none", elems |-> <<>>, new |-> <<>>,
         trunc |-> FALSE, fd |-> 0, cur |-> 0, dp |-> 0, ip |-> 0, put |-> <<>>, iput |-> "test",
         files |-> <<>>, fds |-> <<>>]

---------------------------------------------------------------------------
(* Blocks and inodes on disk.                                              *)

\* balloc(): the first free block, zeroed.
CanAlloc(d) == d.used # Blocks
FirstFree(d) == Min(Blocks \ d.used)
balloc(d) == [d EXCEPT !.used = @ \cup {FirstFree(d)},
                       !.data[FirstFree(d)] = [e \in Entries |-> 0]]

bfree(d, blocks) == [d EXCEPT !.used = @ \ blocks]

\* itrunc(): bfree() of every block; the inode is left without any.
itrunc(d, n) == [bfree(d, Range(d.inode[n].addrs)) EXCEPT !.inode[n].addrs = <<>>]

\* bmap() of the block after the last one: a new block at the end of the inode.
bmap(d, n) == [balloc(d) EXCEPT !.inode[n].addrs = Append(@, FirstFree(d))]

\* readi() and writei() of one block at off: how many blocks were read or written.
\* Nothing is written beyond the end (another open truncated the file), beyond the
\* largest size, or when bmap() finds no block.
readi(d, n, off) == IF off < Len(d.inode[n].addrs) THEN 1 ELSE 0
Grows(d, n, off) == off = Len(d.inode[n].addrs) /\ off < MAXFILE /\ CanAlloc(d)
writei(d, n, off) == IF Grows(d, n, off) THEN bmap(d, n) ELSE d
Written(d, n, off) == IF off < Len(d.inode[n].addrs) \/ Grows(d, n, off) THEN 1 ELSE 0

\* dirlookup() in the directory n: the inode the entry names, or 0.
dirlookup(d, n, e) ==
  IF d.inode[n].addrs = <<>> THEN 0 ELSE d.data[d.inode[n].addrs[1]][e]

\* dirlink() fails when the entry exists or no block can be had.
CanLink(d, n, e) == dirlookup(d, n, e) = 0 /\ (d.inode[n].addrs # <<>> \/ CanAlloc(d))
SetEntry(d, n, e, i) == [d EXCEPT !.data[d.inode[n].addrs[1]][e] = i]
dirlink(d, n, e, i) == SetEntry(IF d.inode[n].addrs = <<>> THEN bmap(d, n) ELSE d, n, e, i)

isdirempty(d, n) == \A e \in Names : dirlookup(d, n, e) = 0

\* ialloc(): the first inode that is free on disk.
FreeInodes(d) == {n \in Inums : d.inode[n].type = "none"}

AddLinks(d, n, k) == [d EXCEPT !.inode[n].nlink = @ + k]

---------------------------------------------------------------------------
(* The inode table.  itable[s].din is the copy of the inode in memory.     *)

Cached(n) == {s \in Slots : itable[s].ref > 0 /\ itable[s].inum = n}
Empty == {s \in Slots : itable[s].ref = 0}
SlotOf(n) == Min(IF Cached(n) # {} THEN Cached(n) ELSE Empty)
CanGet(n) == Cached(n) \cup Empty # {}

idup(it, s) == [it EXCEPT ![s].ref = @ + 1]
\* Mutant: the slot keeps the copy of the inode it held before.
iget_keeps_copy(it, n) ==
  LET s == SlotOf(n) IN
  IF Cached(n) # {} THEN idup(it, s) ELSE [it EXCEPT ![s].inum = n, ![s].ref = 1]
iget(it, n) ==
  LET s == SlotOf(n) IN
  IF Cached(n) # {} THEN idup(it, s)
  ELSE [it EXCEPT ![s].inum = n, ![s].ref = 1, ![s].valid = FALSE]

\* What ilock() reads: the copy, or the disk's inode when the copy is not valid.
Inode(s) == IF itable[s].valid THEN itable[s].din ELSE disk.inode[itable[s].inum]

\* The slot that process p locks next.
Wants(p) == CASE proc[p].pc = "namex" /\ proc[p].elems # <<>> -> proc[p].cur
              [] proc[p].pc \in {"create", "unlink", "link_new"} -> proc[p].dp
              [] proc[p].pc \in {"open", "create_exists", "create_new", "unlink_ip",
                                 "link_old", "link_bad", "chdir"} -> proc[p].ip
              [] proc[p].pc \in {"read", "write", "fstat"} -> ftable[proc[p].ofile[proc[p].fd]].ip
              [] OTHER -> 0

At(p, pc) == proc[p].pc = pc /\ proc[p].put = <<>>

\* The inode whose slot p then takes from the table, if any.
Found(p) == dirlookup(disk, itable[Wants(p)].inum, Head(proc[p].elems))
Gets(p) == IF proc[p].pc \in {"namex", "create", "unlink"} /\ Found(p) # 0 THEN {Found(p)}
           ELSE IF proc[p].pc = "create" /\ FreeInodes(disk) # {} THEN {Min(FreeInodes(disk))}
           ELSE {}

\* ilock(): p may enter the section at pc that begins by locking the slot s.
ilock(p, pc, s) == /\ At(p, pc) /\ itable[s].lock = NoProc /\ Inode(s).type # "none"
                   /\ \A n \in Gets(p) : CanGet(n)

\* The table while p holds s, and after iunlock() of the slots S, where the disk
\* has become d: iupdate() keeps the copies of locked inodes and d the same.
Copy(it, s, d) == [it EXCEPT ![s].valid = TRUE, ![s].din = d.inode[itable[s].inum]]
Locked(it, p, s, d) == [Copy(it, s, d) EXCEPT ![s].lock = p]
Unlocked(it, s, d) == [Copy(it, s, d) EXCEPT ![s].lock = NoProc]

\* The next step of p panics over the inode it works on: ilock() of a slot without
\* references or of a free inode, unlink() of an inode with no link, bfree() of a
\* block that is free.
InodePanics(p) ==
  LET s == Wants(p) IN
  \/ /\ s # 0 /\ At(p, proc[p].pc) /\ itable[s].lock = NoProc
     /\ \/ itable[s].ref < 1
        \/ Inode(s).type = "none"
        \/ proc[p].pc = "unlink_ip" /\ Inode(s).nlink < 1
  \/ /\ proc[p].iput = "free"
     /\ ~ Range(disk.inode[itable[Head(proc[p].put)].inum].addrs) \subseteq disk.used

\* iput() in three parts: the test (and, to free the inode, its lock), the
\* freeing, and the last decrement under itable.lock.
\* Mutant: the reference count is not looked at.
MustFreeAnyway(s) == itable[s].valid /\ itable[s].din.nlink = 0
MustFree(s) == itable[s].ref = 1 /\ itable[s].valid /\ itable[s].din.nlink = 0
iput_test(p) ==
  LET s == Head(proc[p].put) IN
  /\ proc[p].put # <<>> /\ proc[p].iput = "test"
  /\ IF MustFree(s)
     THEN /\ itable[s].lock = NoProc
          /\ itable' = [itable EXCEPT ![s].lock = p]
          /\ proc' = [proc EXCEPT ![p].iput = "free"]
     ELSE /\ itable' = [itable EXCEPT ![s].ref = @ - 1]
          /\ proc' = [proc EXCEPT ![p].put = Tail(@)]
  /\ UNCHANGED <<disk, durable, ftable, other>>
\* Mutant: the blocks stay in the bitmap.
FreedNotTruncated(d, n) == [d EXCEPT !.inode[n] = NoInode]
Freed(d, n) == [itrunc(d, n) EXCEPT !.inode[n] = NoInode]
iput_free(p) ==
  LET s == Head(proc[p].put) IN
  /\ proc[p].iput = "free"
  /\ disk' = Freed(disk, itable[s].inum)
  /\ itable' = [itable EXCEPT ![s].valid = FALSE, ![s].lock = NoProc]
  /\ proc' = [proc EXCEPT ![p].iput = "drop"]
  /\ UNCHANGED <<durable, ftable, other>>
iput_drop(p) ==
  LET s == Head(proc[p].put) IN
  /\ proc[p].iput = "drop"
  /\ itable' = [itable EXCEPT ![s].ref = @ - 1]
  /\ proc' = [proc EXCEPT ![p].iput = "test", ![p].put = Tail(@)]
  /\ UNCHANGED <<disk, durable, ftable, other>>

---------------------------------------------------------------------------
(* begin_op() and end_op(), and the walk along a path.                     *)

Lookups == {"open", "chdir", "link_old"}                 \* namei()
Creates == {"creat", "mkdir", "mknod"}
ParentLookups == Creates \cup {"unlink", "link_new"}     \* nameiparent()
AfterWalk(op) == IF op \in Creates THEN "create" ELSE op
AfterFailure(op) == IF op = "link_new" THEN "link_bad" ELSE "end_op"

Walk(p, path, pr) ==
  /\ itable' = IF path.abs THEN iget(itable, ROOTINO) ELSE idup(itable, proc[p].cwd)
  /\ proc' = [proc EXCEPT ![p] = [pr EXCEPT
                 !.pc = "namex", !.elems = path.elems,
                 !.cur = IF path.abs THEN SlotOf(ROOTINO) ELSE proc[p].cwd]]

Quiet(p) == proc[p].live /\ reclaim = 0 /\ At(p, "user")
sys_path(p, op, path, new, trunc) ==
  /\ Quiet(p) /\ calls < MaxCalls /\ calls' = calls + 1
  /\ Walk(p, path, [proc[p] EXCEPT !.inop = TRUE, !.op = op, !.new = new, !.trunc = trunc])
  /\ UNCHANGED <<disk, durable, ftable, reclaim, crashes>>

\* The path is at its end: namei() has its inode, nameiparent() of "/" fails.
namex_end(p) ==
  /\ At(p, "namex") /\ proc[p].elems = <<>>
  /\ proc' = IF proc[p].op \in Lookups
             THEN [proc EXCEPT ![p].pc = AfterWalk(proc[p].op), ![p].ip = proc[p].cur,
                               ![p].cur = 0]
             ELSE [proc EXCEPT ![p].pc = AfterFailure(proc[p].op), ![p].put = <<proc[p].cur>>,
                               ![p].cur = 0]
  /\ UNCHANGED <<disk, durable, itable, ftable, other>>

namex(p) ==
  LET s == proc[p].cur
      next == dirlookup(disk, itable[s].inum, Head(proc[p].elems))
      last == proc[p].op \in ParentLookups /\ Len(proc[p].elems) = 1
  IN
  /\ proc[p].pc = "namex" /\ proc[p].elems # <<>> /\ ilock(p, "namex", s)
  /\ \/ /\ Inode(s).type # "dir" \/ (~last /\ next = 0)
        /\ proc' = [proc EXCEPT ![p].pc = AfterFailure(proc[p].op), ![p].put = <<s>>, ![p].cur = 0]
        /\ itable' = Unlocked(itable, s, disk)
     \/ /\ Inode(s).type = "dir" /\ last
        /\ proc' = [proc EXCEPT ![p].pc = AfterWalk(proc[p].op), ![p].dp = s, ![p].cur = 0]
        /\ itable' = Unlocked(itable, s, disk)
     \/ /\ Inode(s).type = "dir" /\ ~last /\ next # 0
        /\ proc' = [proc EXCEPT ![p].elems = Tail(@), ![p].put = <<s>>, ![p].cur = SlotOf(next)]
        /\ itable' = iget(Unlocked(itable, s, disk), next)
  /\ UNCHANGED <<disk, durable, ftable, other>>

\* end_op() and the return of the call; the log commits when no other is in one.
Commit(p) == IF \A q \in Procs \ {p} : ~proc[q].inop THEN disk ELSE durable
end_op(p) ==
  /\ At(p, "end_op")
  /\ durable' = Commit(p)
  /\ proc' = [proc EXCEPT ![p] = [Idle EXCEPT !.live = (proc[p].op # "exited"), !.ofile = proc[p].ofile,
                 !.cwd = IF proc[p].op = "chdir" /\ proc[p].ip # 0 THEN proc[p].ip ELSE proc[p].cwd,
                 !.pc = IF proc[p].op = "exit" THEN "exit" ELSE "user"]]
  /\ UNCHANGED <<disk, itable, ftable, other>>

---------------------------------------------------------------------------
(* create(), for open(O_CREATE), mkdir() and mknod().                      *)

Type(op) == [creat |-> "file", mkdir |-> "dir", mknod |-> "device"][op]

create(p) ==
  LET dp == proc[p].dp
      found == dirlookup(disk, itable[dp].inum, Head(proc[p].elems))
      new == Min(FreeInodes(disk))
      alloc == [disk EXCEPT !.inode[new] = [NoInode EXCEPT !.type = Type(proc[p].op)]]
  IN
  /\ ilock(p, "create", dp)
  /\ \/ /\ found # 0
        /\ itable' = iget(Unlocked(itable, dp, disk), found)
        /\ proc' = [proc EXCEPT ![p].pc = "create_exists", ![p].ip = SlotOf(found),
                                ![p].put = <<dp>>, ![p].dp = 0]
        /\ UNCHANGED disk
     \/ /\ found = 0 /\ FreeInodes(disk) = {}
        /\ itable' = Unlocked(itable, dp, disk)
        /\ proc' = [proc EXCEPT ![p].pc = "end_op", ![p].put = <<dp>>, ![p].dp = 0]
        /\ UNCHANGED disk
     \/ /\ found = 0 /\ FreeInodes(disk) # {}
        /\ disk' = alloc
        /\ itable' = iget(Locked(itable, p, dp, disk), new)
        /\ proc' = [proc EXCEPT ![p].pc = "create_new", ![p].ip = SlotOf(new)]
  /\ UNCHANGED <<durable, ftable, other>>

create_exists(p) ==
  LET s == proc[p].ip
      ok == proc[p].op = "creat" /\ Inode(s).type \in {"file", "device"}
  IN
  /\ ilock(p, "create_exists", s)
  /\ itable' = IF ok THEN Locked(itable, p, s, disk) ELSE Unlocked(itable, s, disk)
  /\ proc' = IF ok THEN [proc EXCEPT ![p].pc = "open_file"]
             ELSE [proc EXCEPT ![p].pc = "end_op", ![p].put = <<s>>, ![p].ip = 0]
  /\ UNCHANGED <<disk, durable, ftable, other>>

Made(op) == IF op = "creat" THEN "open_file" ELSE "made"
create_new(p) ==
  LET ip == proc[p].ip
      dp == proc[p].dp
      isdir == proc[p].op = "mkdir"
      n == itable[ip].inum
      parent == itable[dp].inum
      d0 == AddLinks(disk, n, 1)
      dots == ~isdir \/ CanLink(d0, n, ".")
      d1 == IF isdir THEN dirlink(dirlink(d0, n, ".", n), n, "..", parent) ELSE d0
      ok == dots /\ CanLink(d1, parent, Head(proc[p].elems))
      d2 == dirlink(d1, parent, Head(proc[p].elems), n)
      d3 == IF isdir THEN AddLinks(d2, parent, 1) ELSE d2
      bad == AddLinks(IF dots THEN d1 ELSE d0, n, -1)
  IN
  /\ ilock(p, "create_new", ip)
  /\ \/ /\ ok /\ disk' = d3
        /\ itable' = Unlocked(Locked(itable, p, ip, d3), dp, d3)
        /\ proc' = [proc EXCEPT ![p].pc = Made(proc[p].op), ![p].put = <<dp>>, ![p].dp = 0]
     \/ /\ ~ok /\ disk' = bad
        /\ itable' = Unlocked(itable, ip, bad)
        /\ proc' = [proc EXCEPT ![p].pc = "unlock_dp", ![p].put = <<ip>>, ![p].ip = 0]
  /\ UNCHANGED <<durable, ftable, other>>

\* mkdir() and mknod() have made their inode.
made(p) ==
  LET s == proc[p].ip IN
  /\ At(p, "made")
  /\ itable' = Unlocked(itable, s, disk)
  /\ proc' = [proc EXCEPT ![p].pc = "end_op", ![p].put = <<s>>, ![p].ip = 0]
  /\ UNCHANGED <<disk, durable, ftable, other>>

\* The end of a failed create() or unlink(): iunlockput(dp).
unlock_dp(p) ==
  LET s == proc[p].dp IN
  /\ At(p, "unlock_dp")
  /\ itable' = Unlocked(itable, s, disk)
  /\ proc' = [proc EXCEPT ![p].pc = "end_op", ![p].put = <<s>>, ![p].dp = 0]
  /\ UNCHANGED <<disk, durable, ftable, other>>

---------------------------------------------------------------------------
(* open(), read(), write(), fstat(), dup() and close().                    *)

open(p) ==
  LET s == proc[p].ip
      ok == Inode(s).type = "dir" => ~proc[p].trunc
  IN
  /\ ilock(p, "open", s)
  /\ itable' = IF ok THEN Locked(itable, p, s, disk) ELSE Unlocked(itable, s, disk)
  /\ proc' = IF ok THEN [proc EXCEPT ![p].pc = "open_file"]
             ELSE [proc EXCEPT ![p].pc = "end_op", ![p].put = <<s>>, ![p].ip = 0]
  /\ UNCHANGED <<disk, durable, ftable, other>>

FreeFiles == {f \in 1..NFILE : ftable[f].ref = 0}
FreeFds(p) == {fd \in 1..NOFILE : proc[p].ofile[fd] = 0}

\* filealloc() and fdalloc(), or their failure; a device with a bad major fails too.
open_file(p) ==
  LET s == proc[p].ip
      n == itable[s].inum
      f == Min(FreeFiles)
      d == IF proc[p].trunc /\ disk.inode[n].type = "file" THEN itrunc(disk, n) ELSE disk
  IN
  /\ At(p, "open_file")
  /\ \/ /\ FreeFiles = {} \/ FreeFds(p) = {} \/ disk.inode[n].type = "device"
        /\ itable' = Unlocked(itable, s, disk)
        /\ proc' = [proc EXCEPT ![p].pc = "end_op", ![p].put = <<s>>, ![p].ip = 0]
        /\ UNCHANGED <<disk, ftable>>
     \/ /\ FreeFiles # {} /\ FreeFds(p) # {}
        /\ ftable' = [ftable EXCEPT ![f] = [ref |-> 1, ip |-> s, off |-> 0, w |-> proc[p].trunc \/ proc[p].op = "creat",
                         type |-> IF disk.inode[n].type = "device" THEN "device" ELSE "inode"]]
        /\ disk' = d /\ itable' = Unlocked(itable, s, d)
        /\ proc' = [proc EXCEPT ![p].pc = "end_op", ![p].ofile[Min(FreeFds(p))] = f, ![p].ip = 0]
  /\ UNCHANGED <<durable, other>>

\* A call on the descriptor fd of an inode: dup(), close(), read(), write(), fstat().
sys_fd(p, op, fd) ==
  LET f == proc[p].ofile[fd] IN
  /\ Quiet(p) /\ f # 0 /\ calls < MaxCalls /\ calls' = calls + 1
  /\ op \in {"read", "write"} => ftable[f].type = "inode"
  /\ op = "fstat" => ftable[f].type # "pipe"
  /\ op = "write" => ftable[f].w
  /\ proc' = [proc EXCEPT ![p].pc = op, ![p].fd = fd, ![p].inop = (op = "write")]
  /\ UNCHANGED <<disk, durable, itable, ftable, reclaim, crashes>>

sys_dup(p) ==
  LET f == proc[p].ofile[proc[p].fd] IN
  /\ At(p, "dup")
  /\ IF FreeFds(p) = {}
     THEN proc' = [proc EXCEPT ![p].pc = "user", ![p].fd = 0] /\ UNCHANGED ftable
     ELSE /\ proc' = [proc EXCEPT ![p].pc = "user", ![p].fd = 0, ![p].ofile[Min(FreeFds(p))] = f]
          /\ ftable' = [ftable EXCEPT ![f].ref = @ + 1]
  /\ UNCHANGED <<disk, durable, itable, other>>

\* off moves by what was read or written.
fileread(p) ==
  LET f == proc[p].ofile[proc[p].fd]
      s == ftable[f].ip
  IN
  /\ ilock(p, "read", s)
  /\ itable' = Unlocked(itable, s, disk)
  /\ ftable' = [ftable EXCEPT ![f].off = @ + readi(disk, itable[s].inum, @)]
  /\ proc' = [proc EXCEPT ![p].pc = "user", ![p].fd = 0]
  /\ UNCHANGED <<disk, durable, other>>

filestat(p) ==
  LET s == ftable[proc[p].ofile[proc[p].fd]].ip IN
  /\ ilock(p, "fstat", s)
  /\ itable' = Unlocked(itable, s, disk)
  /\ proc' = [proc EXCEPT ![p].pc = "user", ![p].fd = 0]
  /\ UNCHANGED <<disk, durable, ftable, other>>

filewrite(p) ==
  LET f == proc[p].ofile[proc[p].fd]
      s == ftable[f].ip
      n == itable[s].inum
      d == writei(disk, n, ftable[f].off)
  IN
  /\ ilock(p, "write", s)
  /\ disk' = d /\ itable' = Unlocked(itable, s, d)
  /\ ftable' = [ftable EXCEPT ![f].off = @ + Written(disk, n, @)]
  /\ proc' = [proc EXCEPT ![p].pc = "end_op", ![p].fd = 0]
  /\ UNCHANGED <<durable, other>>

\* fileclose(): the last reference puts the inode, in a transaction of its own;
\* pipeclose() is in module Pipe.
LastClose(f) == ftable[f].ref = 1
fileclose(p, fd, pc) ==
  LET f == proc[p].ofile[fd]
      puts == LastClose(f) /\ ftable[f].type # "pipe"
  IN
  /\ ftable' = [ftable EXCEPT ![f].ref = @ - 1, ![f].type = IF LastClose(f) THEN "none" ELSE @,
                              ![f].off = IF LastClose(f) THEN 0 ELSE @,
                              ![f].ip = IF LastClose(f) THEN 0 ELSE @]
  /\ proc' = [proc EXCEPT ![p].ofile[fd] = 0, ![p].fd = 0,
                 ![p].pc = IF puts THEN "end_op" ELSE pc,
                 ![p].inop = puts,
                 ![p].op = IF puts /\ pc = "exit" THEN "exit" ELSE "none",
                 ![p].put = IF puts THEN <<ftable[f].ip>> ELSE <<>>]
  /\ UNCHANGED <<disk, durable, itable, other>>
sys_close(p) == At(p, "close") /\ fileclose(p, proc[p].fd, "user")

\* pipe(): pipealloc() takes two files, one after the other, and a page; then two
\* descriptors are taken and copied out.  What fails leaves the descriptors it has,
\* and pipe_bad() takes them back and closes the files, one after the other.
Allocated(f) == [ftable EXCEPT ![f] = [@ EXCEPT !.ref = 1, !.type = "pipe"]]
PipeFailed(p, fds) ==
  /\ proc' = [proc EXCEPT ![p].pc = "pipe_bad", ![p].fds = fds,
                 ![p].ofile = [fd \in 1..NOFILE |-> IF \E i \in DOMAIN fds : fds[i] = fd
                                                    THEN proc[p].files[CHOOSE i \in DOMAIN fds : fds[i] = fd]
                                                    ELSE @[fd]]]
  /\ UNCHANGED ftable
sys_pipe(p) ==
  /\ Quiet(p) /\ FreeFiles # {} /\ calls < MaxCalls /\ calls' = calls + 1
  /\ ftable' = Allocated(Min(FreeFiles))
  /\ proc' = [proc EXCEPT ![p].pc = "pipe", ![p].files = <<Min(FreeFiles)>>]
  /\ UNCHANGED <<disk, durable, itable, reclaim, crashes>>
pipealloc(p) ==
  /\ At(p, "pipe") /\ Len(proc[p].files) = 1
  /\ IF FreeFiles = {} THEN PipeFailed(p, <<>>)
     ELSE /\ ftable' = Allocated(Min(FreeFiles))
          /\ proc' = [proc EXCEPT ![p].files = Append(@, Min(FreeFiles))]
  /\ UNCHANGED <<disk, durable, itable, other>>
pipe_fds(p) ==
  LET fd0 == Min(FreeFds(p))
      fd1 == Min(FreeFds(p) \ {fd0})
  IN
  /\ At(p, "pipe") /\ Len(proc[p].files) = 2
  /\ \/ PipeFailed(p, <<>>)                                               \* no page, or no descriptor
     \/ Cardinality(FreeFds(p)) = 1 /\ PipeFailed(p, <<fd0>>)
     \/ Cardinality(FreeFds(p)) >= 2 /\ PipeFailed(p, <<fd0, fd1>>)       \* copyout() failed
     \/ /\ Cardinality(FreeFds(p)) >= 2
        /\ proc' = [proc EXCEPT ![p].pc = "user", ![p].files = <<>>,
                       ![p].ofile[fd0] = proc[p].files[1], ![p].ofile[fd1] = proc[p].files[2]]
        /\ UNCHANGED ftable
  /\ UNCHANGED <<disk, durable, itable, other>>
pipe_bad(p) ==
  /\ At(p, "pipe_bad")
  /\ ftable' = [ftable EXCEPT ![Head(proc[p].files)] = [@ EXCEPT !.ref = 0, !.type = "none"]]
  /\ proc' = [proc EXCEPT ![p].ofile = [fd \in 1..NOFILE |-> IF fd \in Range(proc[p].fds) THEN 0 ELSE @[fd]],
                 ![p].fds = <<>>, ![p].files = Tail(@),
                 ![p].pc = IF Len(proc[p].files) = 1 THEN "user" ELSE @]
  /\ UNCHANGED <<disk, durable, itable, other>>

---------------------------------------------------------------------------
(* unlink(), link() and chdir().                                           *)

\* The directory is locked, its entry found; then the inode is locked too.
unlink(p) ==
  LET dp == proc[p].dp
      e == Head(proc[p].elems)
      found == IF e \in {".", ".."} THEN 0 ELSE dirlookup(disk, itable[dp].inum, e)
  IN
  /\ ilock(p, "unlink", dp)
  /\ \/ /\ found = 0
        /\ itable' = Unlocked(itable, dp, disk)
        /\ proc' = [proc EXCEPT ![p].pc = "end_op", ![p].put = <<dp>>, ![p].dp = 0]
     \/ /\ found # 0
        /\ itable' = iget(Locked(itable, p, dp, disk), found)
        /\ proc' = [proc EXCEPT ![p].pc = "unlink_ip", ![p].ip = SlotOf(found)]
  /\ UNCHANGED <<disk, durable, ftable, other>>

unlink_ip(p) ==
  LET ip == proc[p].ip
      dp == proc[p].dp
      n == itable[dp].inum
      d0 == SetEntry(disk, n, Head(proc[p].elems), 0)
      d1 == IF Inode(ip).type = "dir" THEN AddLinks(d0, n, -1) ELSE d0
      refused == Inode(ip).type = "dir" /\ ~isdirempty(disk, itable[ip].inum)
  IN
  /\ ilock(p, "unlink_ip", ip) /\ Inode(ip).nlink >= 1
  /\ \/ /\ refused
        /\ itable' = Unlocked(itable, ip, disk)
        /\ proc' = [proc EXCEPT ![p].pc = "unlock_dp", ![p].put = <<ip>>, ![p].ip = 0]
        /\ UNCHANGED disk
     \/ /\ ~refused
        /\ disk' = d1 /\ itable' = Unlocked(Locked(itable, p, ip, d1), dp, d1)
        /\ proc' = [proc EXCEPT ![p].pc = "unlinked", ![p].put = <<dp>>, ![p].dp = 0]
  /\ UNCHANGED <<durable, ftable, other>>

unlinked(p) ==
  LET s == proc[p].ip
      d == AddLinks(disk, itable[s].inum, -1)
  IN
  /\ At(p, "unlinked")
  /\ disk' = d /\ itable' = Unlocked(itable, s, d)
  /\ proc' = [proc EXCEPT ![p].pc = "end_op", ![p].put = <<s>>, ![p].ip = 0]
  /\ UNCHANGED <<durable, ftable, other>>

link_old(p) ==
  LET s == proc[p].ip
      d == AddLinks(disk, itable[s].inum, 1)
  IN
  /\ ilock(p, "link_old", s)
  /\ IF Inode(s).type = "dir"
     THEN /\ itable' = Unlocked(itable, s, disk)
          /\ proc' = [proc EXCEPT ![p].pc = "end_op", ![p].put = <<s>>, ![p].ip = 0]
          /\ UNCHANGED disk
     ELSE /\ disk' = d /\ itable' = Unlocked(itable, s, d)
          /\ proc' = [proc EXCEPT ![p].pc = "link_walk"]
  /\ UNCHANGED <<durable, ftable, other>>
link_walk(p) ==
  /\ At(p, "link_walk") /\ Walk(p, proc[p].new, [proc[p] EXCEPT !.op = "link_new", !.new = <<>>])
  /\ UNCHANGED <<disk, durable, ftable, other>>

link_new(p) ==
  LET dp == proc[p].dp
      n == itable[dp].inum
      e == Head(proc[p].elems)
      d == dirlink(disk, n, e, itable[proc[p].ip].inum)
  IN
  /\ ilock(p, "link_new", dp)
  /\ IF CanLink(disk, n, e)
     THEN /\ disk' = d /\ itable' = Unlocked(itable, dp, d)
          /\ proc' = [proc EXCEPT ![p].pc = "end_op", ![p].put = <<dp, proc[p].ip>>,
                                  ![p].dp = 0, ![p].ip = 0]
     ELSE /\ itable' = Unlocked(itable, dp, disk) /\ UNCHANGED disk
          /\ proc' = [proc EXCEPT ![p].pc = "link_bad", ![p].put = <<dp>>, ![p].dp = 0]
  /\ UNCHANGED <<durable, ftable, other>>

link_bad(p) ==
  LET s == proc[p].ip
      d == AddLinks(disk, itable[s].inum, -1)
  IN
  /\ ilock(p, "link_bad", s)
  /\ disk' = d /\ itable' = Unlocked(itable, s, d)
  /\ proc' = [proc EXCEPT ![p].pc = "end_op", ![p].put = <<s>>, ![p].ip = 0]
  /\ UNCHANGED <<durable, ftable, other>>

chdir(p) ==
  LET s == proc[p].ip
      ok == Inode(s).type = "dir"
  IN
  /\ ilock(p, "chdir", s)
  /\ itable' = Unlocked(itable, s, disk)
  /\ proc' = IF ok THEN [proc EXCEPT ![p].pc = "end_op", ![p].put = <<proc[p].cwd>>, ![p].cwd = 0]
             ELSE [proc EXCEPT ![p].pc = "end_op", ![p].put = <<s>>, ![p].ip = 0]
  /\ UNCHANGED <<disk, durable, ftable, other>>

---------------------------------------------------------------------------
(* fork() and exit(), a crash, and the boot that follows.                  *)

\* Mutant: fork() copies the descriptors without filedup().
NotInherited(p, f) == 0
Inherited(p, f) == Cardinality({fd \in 1..NOFILE : proc[p].ofile[fd] = f})
kfork(p, q) ==
  /\ Quiet(p) /\ ~proc[q].live
  /\ proc' = [proc EXCEPT ![q] = [proc[p] EXCEPT !.pc = "user"]]
  /\ ftable' = [f \in 1..NFILE |-> [ftable[f] EXCEPT !.ref = @ + Inherited(p, f)]]
  /\ itable' = idup(itable, proc[p].cwd)
  /\ UNCHANGED <<disk, durable, other>>

\* exit(): closes the descriptors one by one, then puts the current directory.
sys_exit(p) ==
  /\ Quiet(p) /\ calls < MaxCalls /\ calls' = calls + 1
  /\ p # InitProc
  /\ proc' = [proc EXCEPT ![p].pc = "exit"]
  /\ UNCHANGED <<disk, durable, itable, ftable, reclaim, crashes>>
kexit(p) ==
  /\ At(p, "exit")
  /\ IF FreeFds(p) # 1..NOFILE
     THEN fileclose(p, Min(1..NOFILE \ FreeFds(p)), "exit")
     ELSE /\ proc' = [proc EXCEPT ![p].op = "exited", ![p].inop = TRUE, ![p].pc = "end_op",
                                  ![p].put = <<proc[p].cwd>>, ![p].cwd = 0]
          /\ UNCHANGED <<disk, durable, itable, ftable, other>>

\* Memory after boot: init's current directory is the root, nothing else is in use.
BootItable == [s \in Slots |-> [inum |-> ROOTINO, ref |-> IF s = 1 THEN 1 ELSE 0,
                                valid |-> FALSE, lock |-> NoProc, din |-> NoInode]]
BootFtable == [f \in 1..NFILE |-> [ref |-> 0, ip |-> 0, off |-> 0, w |-> FALSE, type |-> "none"]]
BootProc == [p \in Procs |-> IF p = InitProc THEN [Idle EXCEPT !.live = TRUE, !.cwd = 1] ELSE Idle]

crash ==
  /\ crashes < MaxCrashes /\ crashes' = crashes + 1
  /\ disk' = durable
  /\ itable' = BootItable /\ ftable' = BootFtable /\ proc' = BootProc /\ reclaim' = 1
  /\ UNCHANGED <<durable, calls>>

\* ireclaim(): one inode of the scan, in a transaction of its own.
\* Mutant: directories and devices are passed over.
IsOrphanFile(n) == disk.inode[n].type = "file" /\ disk.inode[n].nlink = 0
IsOrphan(n) == disk.inode[n].type # "none" /\ disk.inode[n].nlink = 0
ireclaim ==
  /\ reclaim # 0
  /\ disk' = IF IsOrphan(reclaim) THEN Freed(disk, reclaim) ELSE disk
  /\ durable' = disk'
  /\ reclaim' = IF reclaim = NInodes THEN 0 ELSE reclaim + 1
  /\ UNCHANGED <<itable, ftable, proc, calls, crashes>>

\* The disk that mkfs made: a root directory that holds its own two entries.
Mkfs == [inode |-> [n \in Inums |-> IF n = ROOTINO THEN [type |-> "dir", nlink |-> 1, addrs |-> <<1>>]
                                    ELSE NoInode],
         used |-> {1},
         data |-> [b \in Blocks |-> [e \in Entries |-> IF b = 1 /\ e \notin Names THEN ROOTINO ELSE 0]]]

Init == /\ disk = Mkfs /\ durable = Mkfs
        /\ itable = BootItable /\ ftable = BootFtable /\ proc = BootProc /\ reclaim = 1
        /\ calls = 0 /\ crashes = 0

\* Every call that may be made has been made and has returned.
Finished == /\ calls = MaxCalls /\ reclaim = 0 /\ \A p \in Procs : proc[p].pc = "user"
            /\ UNCHANGED vars

Start(p) ==
  \/ \E path \in Paths, op \in {"open", "chdir", "creat", "mkdir", "mknod", "unlink"} :
        sys_path(p, op, path, <<>>, FALSE)
  \/ \E path \in Paths, op \in {"open", "creat"} : sys_path(p, op, path, <<>>, TRUE)
  \/ \E old, new \in Paths : sys_path(p, "link_old", old, new, FALSE)
  \/ \E fd \in 1..NOFILE, op \in {"read", "write", "fstat", "dup", "close"} : sys_fd(p, op, fd)
  \/ \E q \in Procs : kfork(p, q)
  \/ sys_exit(p) \/ sys_pipe(p)
Step(p) ==
  \/ iput_test(p) \/ iput_free(p) \/ iput_drop(p)
  \/ namex_end(p) \/ namex(p) \/ end_op(p)
  \/ create(p) \/ create_exists(p) \/ create_new(p) \/ made(p) \/ unlock_dp(p)
  \/ open(p) \/ open_file(p) \/ sys_dup(p) \/ fileread(p) \/ filestat(p) \/ filewrite(p) \/ sys_close(p)
  \/ pipealloc(p) \/ pipe_fds(p) \/ pipe_bad(p)
  \/ unlink(p) \/ unlink_ip(p) \/ unlinked(p)
  \/ link_old(p) \/ link_walk(p) \/ link_new(p) \/ link_bad(p) \/ chdir(p) \/ kexit(p)

Next == (\E p \in Procs : Start(p) \/ Step(p)) \/ ireclaim \/ crash \/ Finished

Spec == Init /\ [][Next]_vars

---------------------------------------------------------------------------
(* Properties.                                                             *)

Registers == {"cur", "dp", "ip", "cwd"}

\* The values of the tables and of the registers of a call.
TypeOK ==
  /\ \A d \in {disk, durable} :
       /\ \A n \in Inums : /\ d.inode[n].type \in {"none", "file", "dir", "device"}
                            /\ d.inode[n].nlink \in 0..(2 * NInodes + MaxCalls)
                            /\ Range(d.inode[n].addrs) \subseteq Blocks
                            /\ Len(d.inode[n].addrs) <= MAXFILE
       /\ d.used \subseteq Blocks
  /\ \A s \in Slots : /\ itable[s].inum \in Inums /\ itable[s].ref \in Nat
                      /\ itable[s].valid \in BOOLEAN /\ itable[s].lock \in Procs \cup {NoProc}
  /\ \A f \in 1..NFILE : /\ ftable[f].ref \in Nat /\ ftable[f].ip \in 0..NINODE
                         /\ ftable[f].off \in 0..MAXFILE
  /\ \A p \in Procs : /\ \A r \in Registers : proc[p][r] \in 0..NINODE
                      /\ Range(proc[p].put) \subseteq Slots
                      /\ Range(proc[p].ofile) \subseteq 0..NFILE
  /\ reclaim \in 0..NInodes

\* ref of an inode counts its holders exactly: the open files, the current
\* directories and the pointers that calls in progress have yet to iput(); ref of
\* a file counts the descriptors and the files a pipe() has yet to give out.  (iget(), idup(), iput(), filedup(), fileclose()
\* on every path through sysfile.c, its error paths included.)
RefsCounted ==
  /\ \A s \in Slots : itable[s].ref =
       Cardinality({f \in 1..NFILE : ftable[f].ref > 0 /\ ftable[f].ip = s})
       + Cardinality({x \in Procs \X Registers : proc[x[1]][x[2]] = s})
       + Cardinality({x \in Procs \X (1..2) :
                        x[2] <= Len(proc[x[1]].put) /\ proc[x[1]].put[x[2]] = s})
  /\ \A f \in 1..NFILE : ftable[f].ref =
       Cardinality({x \in Procs \X (1..NOFILE) :
                        proc[x[1]].ofile[x[2]] = f /\ x[2] \notin Range(proc[x[1]].fds)})
       + Cardinality({p \in Procs : f \in Range(proc[p].files)})

\* An inode in use has one slot, and the copy in the slot is never stale when it is
\* valid, whoever freed and allocated the inode meanwhile (iput() drops itable.lock).
CopyIsCurrent ==
  \A s \in Slots : itable[s].ref > 0 =>
    /\ Cached(itable[s].inum) = {s}
    /\ itable[s].valid => itable[s].din = disk.inode[itable[s].inum]

\* An inode is not freed while a file is open on it or it is a current directory.
InUseIsAllocated ==
  \A s \in Slots :
    \/ \E f \in 1..NFILE : ftable[f].ref > 0 /\ ftable[f].ip = s
    \/ \E p \in Procs : proc[p].cwd = s
    => disk.inode[itable[s].inum].type # "none"

\* fs.c:345: "ip->ref == 1 means no other process can have ip locked, so this
\* acquiresleep() won't block (or deadlock)", with itable.lock held.
IputWontBlock ==
  \A p \in Procs : proc[p].put # <<>> /\ proc[p].iput = "test" /\ MustFree(Head(proc[p].put))
                  => itable[Head(proc[p].put)].lock = NoProc

\* The disk a crash would leave is well formed at every moment: the bitmap holds
\* exactly the blocks of the inodes, no block is in two inodes, every entry
\* names an allocated inode, and no inode has fewer links than entries.
Dirs(d) == {n \in Inums : d.inode[n].type = "dir" /\ d.inode[n].addrs # <<>>}
Naming(d, n) == {x \in Dirs(d) \X Names : dirlookup(d, x[1], x[2]) = n}
DurableConsistent ==
  /\ durable.used = UNION {Range(durable.inode[n].addrs) : n \in Inums}
  /\ \A m, n \in Inums :
       m # n => Range(durable.inode[m].addrs) \cap Range(durable.inode[n].addrs) = {}
  /\ \A n \in Inums : /\ durable.inode[n].nlink >= Cardinality(Naming(durable, n))
                      /\ Naming(durable, n) # {} => durable.inode[n].type # "none"

IsLeft(d, n) == d.inode[n].type # "none" /\ d.inode[n].nlink = 0

\* When the scan of ireclaim() ends, what unlinked but open files a crash left
\* is gone from the disk, and for good: no later crash brings it back.
BootLeavesNoOrphan ==
  [][reclaim # 0 /\ reclaim' = 0 => \A n \in Inums : ~IsLeft(durable', n)]_vars

\* fs.c:130: "ialloc() allocates, and iput() frees if the reference and link counts
\* have fallen to zero": an inode without links that nobody holds is not left
\* allocated, except to the scan of ireclaim().
CountsAtZeroFree ==
  \A n \in Inums : IsLeft(disk, n) => Cached(n) # {} \/ (reclaim # 0 /\ reclaim <= n)

\* Whoever is about to lock an inode found by a path without ".." finds it referenced
\* and allocated, unlink() finds a link to take away, and iput() frees blocks that
\* are in use: the panics "ilock", "ilock: no type", "unlink: nlink < 1" and "freeing
\* free block".  (The panic of iget() is not among them: the table of the code fills
\* up when more than NINODE inodes are in use.)
NoInodePanic == \A p \in Procs : ~InodePanics(p)

\* The counts of inodes and files are exact, and so in range.
CountInv == TypeOK /\ RefsCounted

\* iput() frees an inode at the right moment: nobody uses it, holds its lock or, on a
\* path without "..", is about to lock it.
InUseInv == InUseIsAllocated /\ IputWontBlock /\ NoInodePanic
=============================================================================
