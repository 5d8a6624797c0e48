----------------------------- MODULE LogProofs ------------------------------
(***************************************************************************)
(* Proofs about Log: the inductive invariant, that Log implements          *)
(* AtomicDisk, that the log does not overflow and that no wakeup is lost,  *)
(* for every set of processes, blocks and data and every size of the log.  *)
(***************************************************************************)
EXTENDS Log, FiniteSetTheorems, TLAPS

\* The set of calls under way is finite, so outstanding can count it.
LEMMA ActiveFinite == IsFiniteSet(Active) /\ Cardinality(Active) \in Nat
  BY LogAssumption, FS_Subset, FS_CardinalityType DEF Active

\* While a call is between begin_op() and end_op() nobody is in commit().
LEMMA NobodyCommits ==
  ASSUME GroupInv, NEW p \in Procs, pc[p] \in ActivePC
  PROVE  ~committing /\ \A q \in Procs : pc[q] \notin CommitPC
  BY DEF GroupInv, Active

\* While a process is in commit() no buffer is locked and it is alone there.
LEMMA CommitterAlone ==
  ASSUME TypeOK, GroupInv, NEW p \in Procs, pc[p] \in CommitPC
  PROVE  /\ committing
         /\ Active = {}
         /\ \A q \in Procs : q # p => pc[q] \notin CommitPC
         /\ \A q \in Procs : holds[q] = NoBlock
         /\ \A l \in CommitPC : At(l) <=> pc[p] = l
  BY DEF TypeOK, GroupInv, Active, ActivePC, At

\* In the initial state the invariant holds.
LEMMA InitInv == Init => TypeOK /\ IInv
<1> SUFFICES ASSUME Init PROVE TypeOK /\ IInv
  OBVIOUS
<1>1. TypeOK
  <2>1. disk \in [Blocks -> Data \cup {Torn}] /\ dlog \in [1 .. LOGBLOCKS -> Data \cup {Torn}]
    BY LogAssumption DEF Init
  <2>2. wrote \in [Procs -> SUBSET Blocks]
    BY DEF Init
  <2>3. pc \in [Procs -> PC] /\ holds \in [Procs -> Blocks \cup {NoBlock}]
    BY DEF Init, PC
  <2>4. dhead \in Seq(Blocks) /\ Len(dhead) = 0 /\ lh \in Seq(Blocks) /\ Len(lh) = 0
    BY DEF Init
  <2>5. cache \in [Blocks -> Data \cup {Torn, NotCached}] /\ pin \in [Blocks -> Nat]
    BY DEF Init
  <2>6. /\ outstanding \in Nat /\ committing \in BOOLEAN /\ tail \in Nat /\ crashes \in Nat
        /\ mode \in {"boot", "recover", "up", "panicked"}
    BY DEF Init
  <2>7. QED
    BY <2>1, <2>2, <2>3, <2>4, <2>5, <2>6, LogAssumption DEF TypeOK
<1>2. Active = {} /\ Cardinality(Active) = 0
  BY FS_EmptySet DEF Init, Active, ActivePC
<1>3. GroupInv
  BY <1>2, LogAssumption DEF Init, GroupInv, CommitPC, Running
<1>4. HeadInv
  BY DEF Init, HeadInv, At, Running
<1>5. BufInv
  BY LogAssumption DEF Init, BufInv, Running
<1>6. DiskInv
  BY LogAssumption DEF Init, DiskInv, At, Installed
<1>7. QED
  BY <1>1, <1>3, <1>4, <1>5, <1>6 DEF IInv

-----------------------------------------------------------------------------
\* call() only moves a process to begin_op().
LEMMA CallInv ==
  ASSUME TypeOK, IInv, mode = "up", NEW p \in Procs, call(p)
  PROVE  TypeOK' /\ IInv'
<1> USE DEF IInv
<1>1. TypeOK'
  BY DEF call, TypeOK, Goto, PC, diskvars, logvars, bufvars
<1>2. Active' = Active
  BY DEF call, Goto, TypeOK, Active, ActivePC
<1>3. GroupInv'
  BY <1>2 DEF call, Goto, TypeOK, GroupInv, CommitPC, Running, logvars, bufvars
<1>4. HeadInv'
  BY DEF call, Goto, TypeOK, HeadInv, At, Running, diskvars, logvars
<1>5. BufInv'
  BY DEF call, Goto, TypeOK, BufInv, Running, Installed, At, Dirty, diskvars, logvars, bufvars
<1>6. DiskInv'
  BY DEF call, Goto, TypeOK, DiskInv, Installed, At, diskvars, logvars, bufvars
<1>7. QED
  BY <1>1, <1>3, <1>4, <1>5, <1>6

\* begin_op() counts the call it admits and lets nobody in during a commit.
LEMMA BeginInv ==
  ASSUME TypeOK, IInv, mode = "up", NEW p \in Procs, begin_op(p)
  PROVE  TypeOK' /\ IInv'
<1> USE DEF IInv, diskvars, bufvars
<1>1. PICK l \in {"asleep", "inop"} :
        /\ pc' = [pc EXCEPT ![p] = l]
        /\ l = "inop" => ~committing /\ outstanding' = outstanding + 1
        /\ l = "asleep" => outstanding' = outstanding
  BY DEF begin_op, Goto
<1>2. TypeOK'
  BY <1>1 DEF begin_op, TypeOK, PC, ActivePC
<1>3. outstanding' = Cardinality(Active')
  <2>1. CASE l = "asleep"
    <3>1. Active' = Active
      BY <1>1, <2>1 DEF begin_op, TypeOK, Active, ActivePC
    <3>2. QED
      BY <1>1, <2>1, <3>1 DEF GroupInv
  <2>2. CASE l = "inop"
    <3>1. Active' = Active \cup {p} /\ p \notin Active
      BY <1>1, <2>2 DEF begin_op, TypeOK, Active, ActivePC
    <3>2. QED
      BY <1>1, <2>2, <3>1, ActiveFinite, FS_AddElement DEF GroupInv
  <2>3. QED
    BY <2>1, <2>2
<1>4. GroupInv'
  <2>1. committing => l = "asleep" /\ Active' = Active
    BY <1>1 DEF begin_op, TypeOK, Active, ActivePC
  <2>2. QED
    BY <1>1, <1>3, <2>1 DEF begin_op, TypeOK, GroupInv, CommitPC, Running
<1>5. HeadInv'
  BY <1>1 DEF begin_op, TypeOK, HeadInv, At, Running
<1>6. BufInv'
  BY <1>1 DEF begin_op, TypeOK, BufInv, Running, Installed, At, Dirty
<1>7. DiskInv'
  BY <1>1 DEF begin_op, TypeOK, DiskInv, Installed, At
<1>8. QED
  BY <1>2, <1>4, <1>5, <1>6, <1>7

\* bread() fills the cache from the disk when it must.
LEMMA BreadInv ==
  ASSUME TypeOK, IInv, mode = "up", NEW p \in Procs, NEW b \in Blocks, bread(p, b)
  PROVE  TypeOK' /\ IInv'
<1> USE DEF IInv, diskvars, logvars
<1>1. TypeOK'
  BY DEF bread, TypeOK, Goto, PC, Contents, ActivePC
<1>2. Active' = Active
  BY DEF bread, Goto, TypeOK, Active, ActivePC
<1>3. \A l \in CommitPC : ~At(l) /\ ~At(l)'
  BY NobodyCommits DEF bread, Goto, TypeOK, ActivePC, CommitPC, At
<1>4. GroupInv'
  BY <1>2, LogAssumption DEF bread, Goto, TypeOK, GroupInv, CommitPC, Running, Locked
<1>5. HeadInv'
  BY DEF bread, Goto, TypeOK, HeadInv, At, Running
<1>6. BufInv'
  BY LogAssumption DEF bread, Goto, TypeOK, BufInv, DiskInv, HeadInv, GroupInv, Running, Installed, At, Dirty, Contents, Locked
<1>7. DiskInv'
  BY <1>3 DEF bread, TypeOK, DiskInv, Installed, CommitPC
<1>8. QED
  BY <1>1, <1>4, <1>5, <1>6, <1>7

\* A call modifies only the buffer it has locked.
LEMMA ModifyInv ==
  ASSUME TypeOK, IInv, mode = "up", NEW p \in Procs, NEW v \in Data, modify(p, v)
  PROVE  TypeOK' /\ IInv'
<1> USE DEF IInv, diskvars, logvars
<1>0. holds[p] \in Blocks /\ holds[p] # NoBlock
  BY DEF modify, TypeOK, GroupInv
<1>1. TypeOK'
  BY <1>0 DEF modify, TypeOK, Goto, PC, ActivePC
<1>2. Active' = Active
  BY DEF modify, Goto, TypeOK, Active, ActivePC
<1>3. \A l \in CommitPC : ~At(l) /\ ~At(l)'
  BY NobodyCommits DEF modify, Goto, TypeOK, ActivePC, CommitPC, At
<1>4. GroupInv'
  BY <1>2 DEF modify, Goto, TypeOK, GroupInv, CommitPC, Running
<1>5. HeadInv'
  BY DEF modify, Goto, TypeOK, HeadInv, At, Running
<1>6. BufInv'
  BY <1>0, <1>3, LogAssumption DEF modify, Goto, TypeOK, BufInv, Running, Installed, CommitPC, Dirty
<1>7. DiskInv'
  BY <1>3 DEF modify, TypeOK, DiskInv, Installed, CommitPC
<1>8. QED
  BY <1>1, <1>4, <1>5, <1>6, <1>7

\* brelse() follows log_write(): the buffer it unlocks is clean or pinned.
LEMMA BrelseInv ==
  ASSUME TypeOK, IInv, mode = "up", NEW p \in Procs, brelse(p)
  PROVE  TypeOK' /\ IInv'
<1> USE DEF IInv, diskvars, logvars
<1>1. TypeOK'
  BY DEF brelse, TypeOK, Goto, PC, ActivePC
<1>2. Active' = Active
  BY DEF brelse, Goto, TypeOK, Active, ActivePC
<1>3. \A l \in CommitPC : ~At(l) /\ ~At(l)'
  BY NobodyCommits DEF brelse, Goto, TypeOK, ActivePC, CommitPC, At
<1>4. GroupInv'
  BY <1>2 DEF brelse, Goto, TypeOK, GroupInv, CommitPC, Running
<1>5. HeadInv'
  BY DEF brelse, Goto, TypeOK, HeadInv, At, Running
<1>6. BufInv'
  BY <1>3 DEF brelse, Goto, TypeOK, BufInv, Running, Installed, CommitPC, Dirty
<1>7. DiskInv'
  BY <1>3 DEF brelse, TypeOK, DiskInv, Installed, CommitPC
<1>8. QED
  BY <1>1, <1>4, <1>5, <1>6, <1>7

\* What happens to a buffer that is not pinned is no concern of the log's.
LEMMA CleanChange ==
  ASSUME TypeOK, IInv, mode = "up", NEW b \in Blocks, pin[b] = 0,
         \A c \in Blocks : c # b => cache'[c] = cache[c],
         UNCHANGED <<disk, dlog, dhead, lh, tail, mode, pc>>
  PROVE  DiskInv'
<1> USE DEF IInv
<1>1. /\ \A i \in 1 .. Len(lh) : ~Installed(i) => lh[i] # b
      /\ \A i \in 1 .. Len(lh) : lh[i] \in Blocks
  <2>1. \A i \in 1 .. Len(lh) : ~Installed(i) => lh[i] # b
    BY DEF BufInv, Running
  <2>2. QED
    BY <2>1 DEF TypeOK
<1>2. At("write_log") => \A i \in 1 .. tail : i \in 1 .. Len(lh) /\ ~Installed(i)
  <2>1. At("write_log") => tail <= Len(lh) /\ ~At("install_trans")
    BY DEF HeadInv, GroupInv, At, CommitPC
  <2>2. QED
    BY <2>1 DEF TypeOK, Installed
<1>3. (At("write_log") => \A i \in 1 .. tail : dlog[i] = cache[lh[i]])'
  BY <1>1, <1>2 DEF DiskInv, At
<1>4. (At("install_trans") => \A i \in 1 .. Len(lh) : i > tail => dlog[i] = cache[lh[i]])'
  BY <1>1 DEF DiskInv, At, Installed, TypeOK
<1>5. QED
  BY <1>3, <1>4 DEF DiskInv, At, Installed

\* A process that only reads caches what the disk holds, which is never torn
\* once recovery is over.
LEMMA ReadInv ==
  ASSUME TypeOK, IInv, mode = "up", NEW b \in Blocks, read(b)
  PROVE  TypeOK' /\ IInv'
<1> USE DEF IInv, diskvars, logvars
<1>1. TypeOK'
  BY DEF read, TypeOK
<1>2. GroupInv'
  BY DEF read, GroupInv, Active, Running
<1>3. HeadInv'
  BY DEF read, HeadInv, At, Running
<1>4. pin[b] = 0 /\ disk[b] # Torn
  BY DEF read, TypeOK, BufInv, DiskInv, HeadInv, Running, Installed, At
<1>5. BufInv'
  BY <1>4 DEF read, TypeOK, BufInv, Running, Installed, At, Dirty
<1>6. DiskInv'
  BY <1>4, CleanChange DEF read, TypeOK
<1>7. QED
  BY <1>1, <1>2, <1>3, <1>5, <1>6

\* Recycling a buffer disturbs nothing the log still needs.
LEMMA RecycleInv ==
  ASSUME TypeOK, IInv, mode = "up", NEW b \in Blocks, recycle(b)
  PROVE  TypeOK' /\ IInv'
<1> USE DEF IInv, diskvars, logvars
<1>1. TypeOK'
  BY DEF recycle, TypeOK
<1>2. GroupInv'
  BY DEF recycle, GroupInv, Active, Running
<1>3. HeadInv'
  BY DEF recycle, HeadInv, At, Running
<1>4. BufInv'
  BY LogAssumption DEF recycle, TypeOK, BufInv, GroupInv, Running, Installed, At, Dirty, Locked
<1>5. DiskInv'
  BY CleanChange DEF recycle, TypeOK
<1>6. QED
  BY <1>1, <1>2, <1>3, <1>4, <1>5

-----------------------------------------------------------------------------
\* panic() stops the machine and changes nothing else.
LEMMA PanicInv ==
  ASSUME TypeOK, IInv, mode = "up", Panic
  PROVE  TypeOK' /\ IInv'
<1> USE DEF IInv, diskvars, logvars, bufvars
<1>1. TypeOK'
  BY DEF Panic, TypeOK
<1>2. GroupInv'
  BY DEF Panic, GroupInv, Active, Running
<1>3. HeadInv'
  BY DEF Panic, HeadInv, At, Running
<1>4. BufInv'
  BY DEF Panic, BufInv, Running, Installed, At, Dirty
<1>5. DiskInv'
  BY DEF Panic, DiskInv, Installed, At
<1>6. QED
  BY <1>1, <1>2, <1>3, <1>4, <1>5

\* log_write() pins the buffer it logs, and logs a block once.
LEMMA LogWriteInv ==
  ASSUME TypeOK, IInv, mode = "up", NEW p \in Procs, log_write(p)
  PROVE  TypeOK' /\ IInv'
<1> USE DEF IInv, diskvars, logvars, bufvars
<1>1. CASE Panic
  BY <1>1, PanicInv
<1>2. ASSUME ~Panic
      PROVE  TypeOK' /\ IInv'
  <2> DEFINE h == holds[p]
  <2>0. h \in Blocks /\ h # NoBlock
    BY DEF log_write, TypeOK, GroupInv
  <2>1. /\ pc[p] = "dirty"
        /\ ~(Len(lh) >= LOGBLOCKS)
        /\ \/ Logged(h) /\ UNCHANGED <<lh, pin>>
           \/ ~Logged(h) /\ lh' = Append(lh, h) /\ pin' = [pin EXCEPT ![h] = @ + 1]
        /\ wrote' = [wrote EXCEPT ![p] = @ \cup {h}]
        /\ pc' = [pc EXCEPT ![p] = "locked"]
        /\ UNCHANGED <<disk, dlog, dhead, outstanding, committing, cache, holds, tail, mode, crashes>>
    BY <1>2 DEF log_write, Goto, bpin
  <2>2. /\ \A i \in 1 .. Len(lh) : lh[i] \in Blocks
        /\ lh' \in Seq(Blocks) /\ Len(lh') <= LOGBLOCKS
        /\ Len(lh') \in Nat /\ Len(lh) \in Nat /\ Len(lh) <= Len(lh')
        /\ \A i \in 1 .. Len(lh) : lh'[i] = lh[i]
        /\ \A i \in 1 .. Len(lh') : i \notin 1 .. Len(lh) => lh'[i] = h /\ i = Len(lh) + 1 /\ ~Logged(h)
    <3>1. lh \in Seq(Blocks) /\ Len(lh) \in Nat /\ Len(lh) < LOGBLOCKS
      BY <2>1, LogAssumption DEF TypeOK
    <3>2. CASE Logged(h)
      <4>1. lh' = lh
        BY <3>2, <2>1
      <4>2. QED
        BY <4>1, <3>1, LogAssumption
    <3>3. CASE ~Logged(h)
      <4>1. lh' = Append(lh, h)
        BY <3>3, <2>1
      <4>2. /\ lh' \in Seq(Blocks) /\ Len(lh') = Len(lh) + 1
            /\ \A i \in 1 .. Len(lh) : lh'[i] = lh[i]
            /\ lh'[Len(lh) + 1] = h
        BY <4>1, <3>1, <2>0
      <4>3. QED
        BY <4>2, <3>1, <3>3, LogAssumption
    <3>4. QED
      BY <3>2, <3>3
  <2>3. TypeOK'
    <3>1. wrote' \in [Procs -> SUBSET Blocks]
      BY <2>0, <2>1 DEF TypeOK
    <3>2. pin' \in [Blocks -> Nat]
      BY <2>0, <2>1 DEF TypeOK
    <3>3. QED
      BY <3>1, <3>2, <2>1, <2>2 DEF TypeOK, PC, ActivePC
  <2>4. Active' = Active
    BY <2>1 DEF TypeOK, Active, ActivePC
  <2>5. \A l \in CommitPC : ~At(l) /\ ~At(l)'
    BY <2>1, NobodyCommits DEF TypeOK, ActivePC, CommitPC, At
  <2>6. GroupInv'
    BY <2>1, <2>4 DEF TypeOK, GroupInv, CommitPC, Running
  <2>7. HeadInv'
    <3>1. (\A i, j \in 1 .. Len(lh) : lh[i] = lh[j] => i = j)'
      BY <2>2 DEF HeadInv, Logged
    <3>2. QED
      BY <3>1, <2>1, <2>5 DEF HeadInv, Running, CommitPC
  <2>8. BufInv'
    <3>1. \A i : ~Installed(i) /\ ~Installed(i)'
      BY <2>1, <2>5 DEF Installed, CommitPC
    <3>2. \A b \in Blocks : (\E i \in 1 .. Len(lh') : lh'[i] = b) <=> Logged(b) \/ b = h
      <4>1. \E i \in 1 .. Len(lh') : lh'[i] = h
        <5>1. CASE Logged(h)
          BY <5>1, <2>1 DEF Logged
        <5>2. CASE ~Logged(h)
          BY <5>2, <2>1, <2>0 DEF TypeOK
        <5>3. QED
          BY <5>1, <5>2
      <4>2. QED
        BY <4>1, <2>2 DEF Logged
    <3>3. \A b \in Blocks : pin[b] = IF Logged(b) THEN 1 ELSE 0
      BY <3>1 DEF BufInv, Running, Logged
    <3>4. \A b \in Blocks : pin'[b] = IF Logged(b) \/ b = h THEN 1 ELSE 0
      BY <3>3, <2>0, <2>1 DEF TypeOK
    <3>5. \A b \in Blocks : b # h => (Dirty(b) <=> Dirty(b)')
      BY <2>1 DEF Dirty, TypeOK
    <3>6. (\A b \in Blocks :
            pin[b] = IF Running /\ \E i \in 1 .. Len(lh) : lh[i] = b /\ ~Installed(i)
                     THEN 1 ELSE 0)'
      BY <3>1, <3>2, <3>4, <2>1 DEF Running
    <3>7. QED
      BY <3>3, <3>4, <3>5, <3>6, <2>0, <2>1 DEF BufInv
  <2>9. DiskInv'
    BY <2>1, <2>2, <2>5 DEF DiskInv, HeadInv, Installed, CommitPC
  <2>10. QED
    BY <2>3, <2>6, <2>7, <2>8, <2>9
<1>3. QED
  BY <1>1, <1>2

\* The last end_op() of a group starts the commit, with tail at its first block;
\* any other end_op() only leaves and wakes the sleepers.
LEMMA EndInv ==
  ASSUME TypeOK, IInv, mode = "up", NEW p \in Procs, end_op(p)
  PROVE  TypeOK' /\ IInv'
<1> USE DEF IInv, diskvars, logvars, bufvars
<1>0. p \in Active /\ ~committing /\ \A q \in Procs : pc[q] \notin CommitPC
  BY NobodyCommits DEF end_op, Active, ActivePC
<1>1. /\ outstanding' = outstanding - 1
      /\ wrote' = [wrote EXCEPT ![p] = {}]
      /\ UNCHANGED <<disk, dlog, dhead, lh, cache, pin, holds, mode, crashes>>
  BY <1>0 DEF end_op
<1>2. IsFiniteSet(Active \ {p}) /\ Cardinality(Active \ {p}) = outstanding - 1 /\ outstanding \in Nat \ {0}
  <2>1. Cardinality(Active \ {p}) = outstanding - 1 /\ IsFiniteSet(Active \ {p})
    BY <1>0, ActiveFinite, FS_RemoveElement DEF GroupInv
  <2>2. QED
    BY <2>1, FS_CardinalityType DEF TypeOK
<1>3. wrote' \in [Procs -> SUBSET Blocks] /\ outstanding' \in Nat
  BY <1>1, <1>2 DEF TypeOK
<1>4. CASE outstanding = 1
  <2>1. PICK l \in {"write_log", "wake"} :
          /\ pc' = [pc EXCEPT ![p] = l]
          /\ l = "wake" => lh = <<>>
          /\ committing' = TRUE
          /\ tail' = 0
    <3>1. Len(lh) > 0 \/ lh = <<>>
      BY DEF TypeOK
    <3>2. QED
      BY <3>1, <1>0, <1>4 DEF end_op, Goto
  <2>2. TypeOK'
    BY <2>1, <1>1, <1>3 DEF TypeOK, PC, CommitPC
  <2>3. Active = {p} /\ Active' = {} /\ outstanding' = 0 /\ Cardinality(Active') = 0
    <3>1. Active \ {p} = {}
      BY <1>2, <1>4, FS_EmptySet
    <3>2. Active' = Active \ {p}
      BY <2>1 DEF TypeOK, Active, ActivePC
    <3>3. QED
      BY <3>1, <3>2, <1>0, <1>1, <1>4, FS_EmptySet
  <2>4. /\ \A q \in Procs : q # p => pc'[q] = pc[q]
        /\ pc'[p] = l
        /\ ~At("install_trans") /\ ~At("install_trans")' /\ ~At("write_log")
        /\ At("wake")' => l = "wake"
    BY <2>1, <1>0 DEF TypeOK, At, CommitPC
  <2>5. GroupInv'
    BY <2>1, <2>3, <2>4, <1>0, <1>1 DEF end_op, GroupInv, CommitPC, Running, TypeOK
  <2>6. HeadInv'
    BY <2>1, <2>4, <1>1 DEF HeadInv, Running, TypeOK
  <2>7. BufInv'
    <3>1. \A i : ~Installed(i) /\ ~Installed(i)'
      BY <2>4, <1>1 DEF Installed
    <3>2. \A b \in Blocks : Dirty(b)' <=> Dirty(b)
      BY <2>1, <2>4, <1>1 DEF Dirty, end_op
    <3>3. QED
      BY <3>1, <3>2, <1>1 DEF BufInv, Running
  <2>8. DiskInv'
    BY <2>1, <2>4, <1>1 DEF DiskInv, HeadInv, Installed
  <2>9. QED
    BY <2>2, <2>5, <2>6, <2>7, <2>8
<1>5. CASE outstanding # 1
  <2>1. /\ pc' = [q \in Procs |-> IF q = p THEN "idle"
                                 ELSE IF pc[q] = "asleep" THEN "begin" ELSE pc[q]]
        /\ UNCHANGED <<committing, tail>>
    BY <1>0, <1>5 DEF end_op, WakeupAndGoto
  <2>2. TypeOK'
    BY <2>1, <1>1, <1>3 DEF TypeOK, PC
  <2>3. Active' = Active \ {p}
    BY <2>1 DEF TypeOK, Active, ActivePC
  <2>4. \A l \in CommitPC : ~At(l) /\ ~At(l)'
    BY <2>1, <1>0 DEF CommitPC, At
  <2>5. \A q \in Procs : /\ pc'[q] \notin CommitPC
                         /\ pc'[q] \in {"locked", "dirty"} <=> pc[q] \in {"locked", "dirty"}
                         /\ pc'[q] = "dirty" <=> pc[q] = "dirty"
    BY <2>1, <1>0 DEF end_op, CommitPC
  <2>6. GroupInv'
    BY <2>1, <2>3, <2>5, <1>0, <1>1, <1>2 DEF GroupInv, Running
  <2>7. HeadInv'
    BY <2>1, <2>4, <1>1 DEF HeadInv, Running, CommitPC
  <2>8. BufInv'
    BY <2>4, <2>5, <1>1 DEF BufInv, Running, Installed, Dirty, CommitPC
  <2>9. DiskInv'
    BY <2>1, <2>4, <1>1 DEF DiskInv, Installed, CommitPC
  <2>10. QED
    BY <2>2, <2>6, <2>7, <2>8, <2>9
<1>6. QED
  BY <1>4, <1>5

-----------------------------------------------------------------------------
\* write_log() copies from a buffer that is still cached, because it is pinned.
LEMMA WriteLogInv ==
  ASSUME TypeOK, IInv, mode = "up", NEW p \in Procs, write_log(p)
  PROVE  TypeOK' /\ IInv'
<1> USE DEF IInv, logvars
<1> DEFINE b == lh[tail + 1]
<1>1. /\ At("write_log") /\ ~At("install_trans") /\ ~At("wake")
      /\ dhead = <<>>
      /\ tail + 1 \in 1 .. Len(lh) /\ tail + 1 \in 1 .. LOGBLOCKS
      /\ b \in Blocks
  BY CommitterAlone, LogAssumption DEF write_log, CommitPC, HeadInv, Running, TypeOK
<1>2. pin[b] = 1 /\ cache[b] # NotCached /\ cache[b] # Torn
  BY <1>1 DEF BufInv, Running, Installed
<1>3. /\ dlog' = [dlog EXCEPT ![tail + 1] = cache[b]]
      /\ cache' = cache
      /\ tail' = tail + 1
      /\ UNCHANGED <<disk, dhead, lh, outstanding, committing, pin, holds, pc, wrote, mode, crashes>>
  BY <1>1, <1>2 DEF write_log, Contents, TypeOK
<1>4. TypeOK'
  BY <1>1, <1>2, <1>3 DEF TypeOK
<1>5. GroupInv'
  BY <1>3 DEF GroupInv, Active, Running
<1>6. HeadInv'
  BY <1>1, <1>3 DEF HeadInv, At, Running, TypeOK
<1>7. BufInv'
  BY <1>1, <1>3 DEF BufInv, Running, Installed, At, Dirty
<1>8. DiskInv'
  BY <1>1, <1>3, <1>4 DEF DiskInv, Installed, At, TypeOK
<1>9. QED
  BY <1>4, <1>5, <1>6, <1>7, <1>8

\* When the header is written every block it names is whole in the log.
LEMMA WriteHeadInv ==
  ASSUME TypeOK, IInv, mode = "up", NEW p \in Procs, write_head(p)
  PROVE  TypeOK' /\ IInv'
<1> USE DEF IInv, logvars, bufvars
<1>1. /\ At("write_log") /\ ~At("install_trans") /\ ~At("wake")
      /\ dhead = <<>> /\ tail = Len(lh)
  BY CommitterAlone DEF write_head, LogWritten, CommitPC, HeadInv, Running
<1>2. /\ pc' = [pc EXCEPT ![p] = "install_trans"]
      /\ dhead' = lh /\ tail' = 0
      /\ UNCHANGED <<disk, dlog, lh, outstanding, committing, cache, pin, holds, wrote, mode, crashes>>
  BY DEF write_head, Goto
<1>3. /\ ~At("write_log")' /\ At("install_trans")' /\ ~At("wake")'
      /\ \A q \in Procs : q # p => pc'[q] = pc[q] /\ pc[q] \notin CommitPC
      /\ pc[p] = "write_log" /\ pc'[p] = "install_trans"
  BY <1>2, CommitterAlone DEF write_head, CommitPC, At, TypeOK
<1>4. TypeOK'
  BY <1>2 DEF TypeOK, PC, CommitPC
<1>5. Active' = Active
  BY <1>3 DEF Active, ActivePC
<1>6. GroupInv'
  BY <1>2, <1>3, <1>5 DEF GroupInv, CommitPC, Running
<1>7. HeadInv'
  BY <1>2, <1>3 DEF HeadInv, Running, TypeOK
<1>8. \A i \in 1 .. Len(lh) : ~Installed(i) /\ ~Installed(i)'
  BY <1>1, <1>2 DEF Installed, TypeOK
<1>9. BufInv'
  <2>1. \A b \in Blocks : Dirty(b)' <=> Dirty(b)
    BY <1>2, <1>3 DEF Dirty
  <2>2. QED
    BY <1>2, <1>8, <2>1 DEF BufInv, Running
<1>10. DiskInv'
  <2>1. \A i \in 1 .. Len(lh) : lh[i] \in Blocks /\ dlog[i] = cache[lh[i]] /\ dlog[i] # Torn
    BY <1>1 DEF DiskInv, BufInv, TypeOK
  <2>2. \A b \in Blocks : disk[b] # Torn
    BY <1>1 DEF DiskInv
  <2>3. QED
    BY <1>2, <1>3, <1>8, <2>1, <2>2 DEF DiskInv
<1>11. QED
  BY <1>4, <1>6, <1>7, <1>9, <1>10

\* install_trans(0) writes home what the buffer already holds and unpins it.
LEMMA InstallInv ==
  ASSUME TypeOK, IInv, mode = "up", NEW p \in Procs, install_trans(p)
  PROVE  TypeOK' /\ IInv'
<1> USE DEF IInv, logvars
<1> DEFINE b == lh[tail + 1]
<1>1. /\ At("install_trans") /\ ~At("write_log") /\ ~At("wake")
      /\ dhead = lh
      /\ tail \in Nat /\ Len(lh) \in Nat
      /\ tail + 1 \in 1 .. Len(lh) /\ tail + 1 \in 1 .. LOGBLOCKS
      /\ b \in Blocks
      /\ \A i \in 1 .. Len(lh) : lh[i] \in Blocks
  BY CommitterAlone, LogAssumption DEF install_trans, InstallBlock, CommitPC, HeadInv, TypeOK
<1>2. /\ pin[b] = 1 /\ cache[b] # NotCached /\ cache[b] # Torn
      /\ dlog[tail + 1] = cache[b]
  BY <1>1 DEF BufInv, DiskInv, Running, Installed
<1>3. /\ disk' = [disk EXCEPT ![b] = dlog[tail + 1]]
      /\ cache' = cache
      /\ pin' = [pin EXCEPT ![b] = 0]
      /\ tail' = tail + 1
      /\ UNCHANGED <<dlog, dhead, lh, outstanding, committing, holds, pc, wrote, mode, crashes>>
  BY <1>1, <1>2 DEF install_trans, InstallBlock, bunpin, TypeOK
<1>4. TypeOK'
  BY <1>1, <1>3 DEF TypeOK
<1>5. GroupInv'
  BY <1>3 DEF GroupInv, Active, Running
<1>6. HeadInv'
  BY <1>1, <1>3 DEF HeadInv, At, Running
<1>7. \A i \in 1 .. Len(lh) : /\ Installed(i) <=> i <= tail
                             /\ Installed(i)' <=> i <= tail + 1
  BY <1>1, <1>3 DEF Installed, At
<1>8. \A i \in 1 .. Len(lh) : i # tail + 1 => lh[i] # b
  BY <1>1 DEF HeadInv
<1>9. BufInv'
  <2>1. \A c \in Blocks : Dirty(c)' <=> Dirty(c)
    BY <1>3 DEF Dirty
  <2>2. \A c \in Blocks : c # b => /\ pin'[c] = pin[c] /\ disk'[c] = disk[c]
    BY <1>1, <1>3 DEF TypeOK
  <2>3. pin'[b] = 0 /\ disk'[b] = cache[b]
    BY <1>1, <1>2, <1>3 DEF TypeOK
  <2>4. \A c \in Blocks : (\E i \in 1 .. Len(lh) : lh[i] = c /\ ~(i <= tail + 1))
                          <=> c # b /\ (\E i \in 1 .. Len(lh) : lh[i] = c /\ ~(i <= tail))
    BY <1>1, <1>8
  <2>5. (\A c \in Blocks :
          pin[c] = IF Running /\ \E i \in 1 .. Len(lh) : lh[i] = c /\ ~Installed(i)
                   THEN 1 ELSE 0)'
    <3>1. ASSUME NEW c \in Blocks
          PROVE  pin'[c] = IF \E i \in 1 .. Len(lh) : lh[i] = c /\ ~Installed(i)'
                           THEN 1 ELSE 0
      <4>1. pin[c] = IF \E i \in 1 .. Len(lh) : lh[i] = c /\ ~Installed(i) THEN 1 ELSE 0
        BY DEF BufInv, Running
      <4>2. (\E i \in 1 .. Len(lh) : lh[i] = c /\ ~Installed(i))
              <=> (\E i \in 1 .. Len(lh) : lh[i] = c /\ ~(i <= tail))
        BY <1>1, <1>3 DEF Installed, At
      <4>3. (\E i \in 1 .. Len(lh) : lh[i] = c /\ ~Installed(i)')
              <=> (\E i \in 1 .. Len(lh) : lh[i] = c /\ ~(i <= tail + 1))
        BY <1>1, <1>3 DEF Installed, At
      <4>4. QED
        BY <4>1, <4>2, <4>3, <2>2, <2>3, <2>4
    <3>2. QED
      BY <1>3, <3>1 DEF Running
  <2>6. QED
    BY <1>3, <2>1, <2>2, <2>3, <2>5 DEF BufInv
<1>10. DiskInv'
  <2>1. \A i \in 1 .. Len(lh) : Installed(i)' => disk'[lh[i]] = dlog[i]
    BY <1>1, <1>3, <1>7, <1>8 DEF DiskInv, TypeOK
  <2>2. \A c \in Blocks : disk'[c] = Torn => \E i \in 1 .. Len(lh) : lh[i] = c /\ ~(i <= tail + 1)
    BY <1>1, <1>2, <1>3, <1>7 DEF DiskInv, TypeOK
  <2>3. QED
    BY <1>1, <1>3, <1>7, <2>1, <2>2 DEF DiskInv, At
<1>11. QED
  BY <1>4, <1>5, <1>6, <1>9, <1>10

\* The header is erased only when every block is home.
LEMMA ClearHeadInv ==
  ASSUME TypeOK, IInv, mode = "up", NEW p \in Procs, clear_head(p)
  PROVE  TypeOK' /\ IInv'
<1> USE DEF IInv, bufvars
<1>1. /\ At("install_trans") /\ dhead = lh /\ tail = Len(lh)
      /\ Len(lh) \in Nat
  BY CommitterAlone DEF clear_head, CommitPC, HeadInv, TypeOK
<1>2. /\ pc' = [pc EXCEPT ![p] = "wake"]
      /\ lh' = <<>> /\ dhead' = <<>>
      /\ UNCHANGED <<disk, dlog, outstanding, committing, cache, pin, holds, wrote, tail, mode, crashes>>
  BY DEF clear_head, Goto
<1>3. /\ ~At("write_log")' /\ ~At("install_trans")'
      /\ \A q \in Procs : q # p => pc'[q] = pc[q] /\ pc[q] \notin CommitPC
      /\ pc[p] = "install_trans" /\ pc'[p] = "wake"
  BY <1>2, CommitterAlone DEF clear_head, CommitPC, At, TypeOK
<1>4. \A i \in 1 .. Len(lh) : Installed(i)
  BY <1>1 DEF Installed
<1>5. TypeOK'
  BY <1>2, LogAssumption DEF TypeOK, PC, CommitPC
<1>6. Active' = Active
  BY <1>3 DEF Active, ActivePC
<1>7. GroupInv'
  BY <1>2, <1>3, <1>6 DEF GroupInv, CommitPC, Running
<1>8. HeadInv'
  BY <1>2, <1>3 DEF HeadInv, Running
<1>9. BufInv'
  <2>1. \A b \in Blocks : Dirty(b)' <=> Dirty(b)
    BY <1>2, <1>3 DEF Dirty
  <2>2. \A b \in Blocks : pin[b] = 0
    BY <1>4 DEF BufInv
  <2>3. Len(lh') = 0
    BY <1>2
  <2>4. QED
    BY <1>2, <2>1, <2>2, <2>3 DEF BufInv
<1>10. DiskInv'
  <2>1. \A b \in Blocks : disk[b] # Torn
    BY <1>1, <1>4 DEF DiskInv
  <2>2. QED
    BY <1>2, <1>3, <2>1 DEF DiskInv
<1>11. QED
  BY <1>5, <1>7, <1>8, <1>9, <1>10

\* The committer leaves and wakes the sleepers.
LEMMA CommitDoneInv ==
  ASSUME TypeOK, IInv, mode = "up", NEW p \in Procs, commit_done(p)
  PROVE  TypeOK' /\ IInv'
<1> USE DEF IInv, diskvars, bufvars
<1>1. /\ pc' = [q \in Procs |-> IF q = p THEN "idle"
                               ELSE IF pc[q] = "asleep" THEN "begin" ELSE pc[q]]
      /\ committing' = FALSE /\ pc[p] = "wake"
      /\ UNCHANGED <<disk, dlog, dhead, lh, outstanding, cache, pin, holds, wrote, tail, mode, crashes>>
  BY DEF commit_done, WakeupAndGoto
<1>2. /\ \A q \in Procs : q # p => pc[q] \notin CommitPC
      /\ ~At("write_log") /\ ~At("install_trans")
  BY <1>1, CommitterAlone DEF CommitPC
<1>3. \A q \in Procs : /\ pc'[q] \notin CommitPC
                       /\ pc'[q] \in ActivePC <=> pc[q] \in ActivePC
                       /\ pc'[q] \in {"locked", "dirty"} <=> pc[q] \in {"locked", "dirty"}
                       /\ pc'[q] = "dirty" <=> pc[q] = "dirty"
  BY <1>1, <1>2 DEF CommitPC, ActivePC
<1>4. TypeOK'
  BY <1>1 DEF TypeOK, PC
<1>5. Active' = Active
  BY <1>3 DEF Active
<1>6. GroupInv'
  BY <1>1, <1>3, <1>5 DEF GroupInv, Running
<1>7. ~At("write_log")' /\ ~At("install_trans")' /\ ~At("wake")'
  BY <1>3 DEF At, CommitPC
<1>8. HeadInv'
  BY <1>1, <1>2, <1>7 DEF HeadInv, Running
<1>9. BufInv'
  BY <1>1, <1>2, <1>3, <1>7 DEF BufInv, Running, Installed, Dirty
<1>10. DiskInv'
  BY <1>1, <1>2, <1>7 DEF DiskInv, Installed
<1>11. QED
  BY <1>4, <1>6, <1>8, <1>9, <1>10

-----------------------------------------------------------------------------
\* A crash tears at most a log block no header names, or a home block the
\* header on disk names and recovery will write again.
LEMMA CrashInv ==
  ASSUME TypeOK, IInv, crash
  PROVE  TypeOK' /\ IInv'
<1> USE DEF IInv
<1>1. PICK tl \in SUBSET LogInFlight, th \in SUBSET HomeInFlight :
        /\ dlog' = [i \in 1 .. LOGBLOCKS |-> IF i \in tl THEN Torn ELSE dlog[i]]
        /\ disk' = [b \in Blocks |-> IF b \in th THEN Torn ELSE disk[b]]
  BY DEF crash
<1>2. /\ lh' = <<>> /\ dhead' = dhead /\ tail' = 0 /\ mode' = "boot"
      /\ outstanding' = 0 /\ committing' = FALSE /\ crashes' = crashes + 1
      /\ cache' = [b \in Blocks |-> NotCached] /\ pin' = [b \in Blocks |-> 0]
      /\ holds' = [p \in Procs |-> NoBlock] /\ pc' = [p \in Procs |-> "idle"]
      /\ wrote' = [p \in Procs |-> {}]
  BY DEF crash
<1>3. TypeOK'
  <2>1. dlog' \in [1 .. LOGBLOCKS -> Data \cup {Torn}] /\ disk' \in [Blocks -> Data \cup {Torn}]
    BY <1>1 DEF TypeOK
  <2>2. lh' \in Seq(Blocks) /\ Len(lh') = 0
    BY <1>2
  <2>3. /\ wrote' \in [Procs -> SUBSET Blocks]
        /\ pc' \in [Procs -> PC] /\ holds' \in [Procs -> Blocks \cup {NoBlock}]
    BY <1>2 DEF PC
  <2>4. cache' \in [Blocks -> Data \cup {Torn, NotCached}] /\ pin' \in [Blocks -> Nat]
    BY <1>2
  <2>5. /\ outstanding' \in Nat /\ tail' \in Nat /\ crashes' \in Nat
        /\ mode' \in {"boot", "recover", "up", "panicked"}
        /\ dhead' \in Seq(Blocks) /\ Len(dhead') <= LOGBLOCKS
    BY <1>2 DEF TypeOK
  <2>6. committing' \in BOOLEAN
    BY <1>2
  <2>7. QED
    BY <2>1, <2>2, <2>3, <2>4, <2>5, <2>6, LogAssumption DEF TypeOK
<1>4. Active' = {} /\ Cardinality(Active') = 0
  BY <1>2, FS_EmptySet DEF Active, ActivePC
<1>5. GroupInv'
  BY <1>2, <1>4, LogAssumption DEF GroupInv, CommitPC, Running
<1>6. HeadInv'
  BY <1>2 DEF HeadInv, At, Running
<1>7. BufInv'
  BY <1>2, LogAssumption DEF BufInv, Running
<1>8. DiskInv'
  <2>1. ~At("write_log")' /\ ~At("install_trans")' /\ Len(lh') = 0 /\ \A i : ~Installed(i)'
    BY <1>2 DEF At, Installed
  <2>2. \A i \in 1 .. Len(dhead) : dlog'[i] # Torn
    <3>1. tl # {} => At("write_log") /\ mode # "recover" /\ mode # "boot"
      BY DEF LogInFlight, At, GroupInv, Running
    <3>2. tl # {} => dhead = <<>>
      BY <3>1 DEF HeadInv, Running, TypeOK, GroupInv, At, CommitPC
    <3>3. \A i \in 1 .. Len(dhead) : i \in 1 .. LOGBLOCKS /\ dlog[i] # Torn
      BY LogAssumption DEF DiskInv, TypeOK
    <3>4. QED
      BY <1>1, <3>2, <3>3
  <2>3. \A b \in Blocks : disk'[b] = Torn => \E i \in 1 .. Len(dhead) : dhead[i] = b
    <3>1. ASSUME NEW b \in Blocks, b \in th
          PROVE  \E i \in 1 .. Len(dhead) : dhead[i] = b
      <4>1. /\ b = lh[tail + 1] /\ tail + 1 <= Len(lh)
            /\ mode = "recover" \/ At("install_trans")
        BY <3>1 DEF HomeInFlight, At
      <4>2. QED
        BY <4>1 DEF HeadInv, TypeOK
    <3>2. QED
      BY <1>1, <3>1 DEF DiskInv
  <2>4. QED
    BY <1>2, <2>1, <2>2, <2>3 DEF DiskInv
<1>9. QED
  BY <1>3, <1>5, <1>6, <1>7, <1>8

\* read_head() loads the header that is on disk.
LEMMA ReadHeadInv ==
  ASSUME TypeOK, IInv, read_head
  PROVE  TypeOK' /\ IInv'
<1> USE DEF IInv, diskvars, bufvars
<1>1. /\ mode = "boot" /\ mode' = "recover" /\ lh' = dhead /\ tail' = 0
      /\ UNCHANGED <<disk, dlog, dhead, outstanding, committing, cache, pin, holds, pc, wrote, crashes>>
  BY DEF read_head
<1>2. \A p \in Procs : pc[p] = "idle"
  BY <1>1 DEF GroupInv, Running
<1>3. TypeOK'
  BY <1>1 DEF TypeOK
<1>4. GroupInv'
  BY <1>1, <1>2 DEF GroupInv, Active, Running
<1>5. HeadInv'
  BY <1>1, <1>2 DEF HeadInv, At, Running, TypeOK
<1>6. BufInv'
  BY <1>1 DEF BufInv, Running, Dirty
<1>7. \A i \in 1 .. Len(dhead) : ~Installed(i)'
  BY <1>1 DEF Installed
<1>8. DiskInv'
  BY <1>1, <1>2, <1>7 DEF DiskInv, At
<1>9. QED
  BY <1>3, <1>4, <1>5, <1>6, <1>8

\* Recovery writes home a block that is whole in the log.
LEMMA RecoverInstallInv ==
  ASSUME TypeOK, IInv, recover_install
  PROVE  TypeOK' /\ IInv'
<1> USE DEF IInv, logvars
<1> DEFINE b == lh[tail + 1]
<1>1. /\ mode = "recover" /\ dhead = lh
      /\ tail \in Nat /\ Len(lh) \in Nat
      /\ tail + 1 \in 1 .. Len(lh) /\ tail + 1 \in 1 .. LOGBLOCKS
      /\ b \in Blocks
      /\ \A i \in 1 .. Len(lh) : lh[i] \in Blocks
  BY LogAssumption DEF recover_install, InstallBlock, HeadInv, TypeOK
<1>2. /\ disk' = [disk EXCEPT ![b] = dlog[tail + 1]]
      /\ cache' = [cache EXCEPT ![b] = dlog[tail + 1]]
      /\ tail' = tail + 1
      /\ UNCHANGED <<dlog, dhead, lh, outstanding, committing, pin, holds, pc, wrote, mode, crashes>>
  BY DEF recover_install, InstallBlock
<1>3. \A p \in Procs : pc[p] = "idle"
  BY <1>1 DEF GroupInv, Running
<1>4. dlog[tail + 1] # Torn /\ dlog[tail + 1] \in Data
  BY <1>1 DEF DiskInv, TypeOK
<1>5. TypeOK'
  BY <1>1, <1>2, <1>4 DEF TypeOK
<1>6. GroupInv'
  BY <1>2 DEF GroupInv, Active, Running
<1>7. HeadInv'
  BY <1>1, <1>2, <1>3 DEF HeadInv, At, Running
<1>8. BufInv'
  BY <1>1, <1>2, <1>3, <1>4, LogAssumption DEF BufInv, Running, Dirty, GroupInv, TypeOK
<1>9. DiskInv'
  <2>1. \A i \in 1 .. Len(lh) : /\ Installed(i) <=> i <= tail
                               /\ Installed(i)' <=> i <= tail + 1
    BY <1>1, <1>2 DEF Installed
  <2>2. \A i \in 1 .. Len(lh) : i # tail + 1 => lh[i] # b
    BY <1>1 DEF HeadInv
  <2>3. \A i \in 1 .. Len(lh) : Installed(i)' => disk'[lh[i]] = dlog[i]
    BY <1>1, <1>2, <2>1, <2>2 DEF DiskInv, TypeOK
  <2>4. \A c \in Blocks : disk'[c] = Torn => \E i \in 1 .. Len(lh) : lh[i] = c /\ ~(i <= tail + 1)
    BY <1>1, <1>2, <1>4, <2>1 DEF DiskInv, TypeOK
  <2>5. QED
    BY <1>1, <1>2, <1>3, <2>1, <2>3, <2>4 DEF DiskInv, At
<1>10. QED
  BY <1>5, <1>6, <1>7, <1>8, <1>9

\* Recovery erases the header once every block is home; no block is torn then.
LEMMA RecoverClearInv ==
  ASSUME TypeOK, IInv, recover_clear
  PROVE  TypeOK' /\ IInv'
<1> USE DEF IInv, bufvars
<1>1. /\ mode = "recover" /\ mode' = "up" /\ tail = Len(lh) /\ dhead = lh
      /\ lh' = <<>> /\ dhead' = <<>>
      /\ UNCHANGED <<disk, dlog, outstanding, committing, cache, pin, holds, pc, wrote, tail, crashes>>
  BY DEF recover_clear, HeadInv
<1>2. \A p \in Procs : pc[p] = "idle"
  BY <1>1 DEF GroupInv, Running
<1>3. TypeOK'
  BY <1>1, LogAssumption DEF TypeOK
<1>4. GroupInv'
  BY <1>1, <1>2 DEF GroupInv, Active, Running
<1>5. HeadInv'
  BY <1>1, <1>2 DEF HeadInv, At
<1>6. BufInv'
  BY <1>1 DEF BufInv, Running, Dirty
<1>7. \A c \in Blocks : disk[c] # Torn
  BY <1>1 DEF DiskInv, Installed, TypeOK
<1>8. DiskInv'
  BY <1>1, <1>2, <1>7 DEF DiskInv, At
<1>9. QED
  BY <1>3, <1>4, <1>5, <1>6, <1>8

-----------------------------------------------------------------------------
\* A step that changes no variable keeps the invariant.
LEMMA StutterInv ==
  ASSUME TypeOK, IInv, UNCHANGED vars
  PROVE  TypeOK' /\ IInv'
<1> USE DEF IInv, vars, diskvars, logvars, bufvars
<1>1. TypeOK'
  BY DEF TypeOK
<1>2. GroupInv' /\ HeadInv'
  BY DEF GroupInv, HeadInv, Active, Running, At
<1>3. BufInv' /\ DiskInv'
  BY DEF BufInv, DiskInv, Running, At, Dirty, Installed
<1>4. QED
  BY <1>1, <1>2, <1>3

\* Every step of the log keeps the invariant.
LEMMA NextInv == TypeOK /\ IInv /\ [Next]_vars => TypeOK' /\ IInv'
<1> SUFFICES ASSUME TypeOK, IInv, [Next]_vars PROVE TypeOK' /\ IInv'
  OBVIOUS
<1>1. ASSUME mode = "up", NEW p \in Procs, Process(p)
      PROVE  TypeOK' /\ IInv'
  <2>1. CASE call(p)
    BY <1>1, <2>1, CallInv
  <2>2. CASE begin_op(p)
    BY <1>1, <2>2, BeginInv
  <2>3. CASE end_op(p)
    BY <1>1, <2>3, EndInv
  <2>4. CASE \E b \in Blocks : bread(p, b)
    BY <1>1, <2>4, BreadInv
  <2>5. CASE \E v \in Data : modify(p, v)
    BY <1>1, <2>5, ModifyInv
  <2>6. CASE log_write(p)
    BY <1>1, <2>6, LogWriteInv
  <2>7. CASE brelse(p)
    BY <1>1, <2>7, BrelseInv
  <2>8. CASE write_log(p)
    BY <1>1, <2>8, WriteLogInv
  <2>9. CASE write_head(p)
    BY <1>1, <2>9, WriteHeadInv
  <2>10. CASE install_trans(p)
    BY <1>1, <2>10, InstallInv
  <2>11. CASE clear_head(p)
    BY <1>1, <2>11, ClearHeadInv
  <2>12. CASE commit_done(p)
    BY <1>1, <2>12, CommitDoneInv
  <2>13. QED
    BY <1>1, <2>1, <2>2, <2>3, <2>4, <2>5, <2>6, <2>7, <2>8, <2>9, <2>10, <2>11, <2>12
       DEF Process, Commit
<1>2. ASSUME mode = "up", NEW b \in Blocks, read(b) \/ recycle(b)
      PROVE  TypeOK' /\ IInv'
  BY <1>2, ReadInv, RecycleInv
<1>3. CASE Recovery
  BY <1>3, ReadHeadInv, RecoverInstallInv, RecoverClearInv DEF Recovery
<1>4. CASE crash
  BY <1>4, CrashInv
<1>5. CASE UNCHANGED vars
  BY <1>5, StutterInv
<1>6. QED
  BY <1>1, <1>2, <1>3, <1>4, <1>5 DEF Next

\* The inductive invariant holds in every reachable state: calls are counted,
\* buffers are pinned exactly while the log needs them, and what the header on
\* disk names is whole in the log.
THEOREM Invariance == Spec => [](TypeOK /\ IInv)
<1>1. Init => TypeOK /\ IInv
  BY InitInv
<1>2. TypeOK /\ IInv /\ [Next]_vars => (TypeOK /\ IInv)'
  BY NextInv
<1>3. QED
  BY <1>1, <1>2, PTL DEF Spec

\* The variables keep their types, for every size of the log.
THEOREM TypeCorrect == Spec => []TypeOK
  BY Invariance, PTL

\* bget() never recycles a buffer whose contents are not yet on disk.
THEOREM RecyclableIsCleanAlways == Spec => []RecyclableIsClean
<1>1. TypeOK /\ IInv => RecyclableIsClean
  BY DEF IInv, BufInv, RecyclableIsClean, Dirty, Locked
<1>2. QED
  BY <1>1, Invariance, PTL

\* No call is given a block that a crash left half written.
THEOREM NoTornReadAlways == Spec => []NoTornRead
<1>1. TypeOK /\ IInv => NoTornRead
  BY DEF IInv, BufInv, NoTornRead
<1>2. QED
  BY <1>1, Invariance, PTL

-----------------------------------------------------------------------------
(***************************************************************************)
(* Log implements AtomicDisk: every step of the log, a crash at any point  *)
(* included, is a step of the atomic disk or changes nothing there.        *)
(***************************************************************************)

\* A block the header names is recovered from the log ...
LEMMA RecoverLogged ==
  ASSUME NEW hd \in Seq(Blocks), NEW lg, NEW home,
         \A i, j \in 1 .. Len(hd) : hd[i] = hd[j] => i = j,
         NEW k \in 1 .. Len(hd)
  PROVE  Recover(hd, lg, home)[hd[k]] = lg[k]
<1> DEFINE c == CHOOSE i \in 1 .. Len(hd) : hd[i] = hd[k]
<1>1. c \in 1 .. Len(hd) /\ hd[c] = hd[k]
  OBVIOUS
<1>2. c = k
  BY <1>1
<1>3. hd[k] \in Blocks
  OBVIOUS
<1>4. Recover(hd, lg, home)[hd[k]] = lg[c]
  BY <1>3 DEF Recover
<1>5. QED
  BY <1>2, <1>4

\* ... and any other block is the one at home.
LEMMA RecoverHome ==
  ASSUME NEW hd, NEW lg, NEW home, NEW b \in Blocks,
         \A i \in 1 .. Len(hd) : hd[i] # b
  PROVE  Recover(hd, lg, home)[b] = home[b]
  BY DEF Recover

\* With an empty header the disk is what it is.
LEMMA RecoverEmpty ==
  ASSUME TypeOK, dhead = <<>>
  PROVE  Recovered = disk
  BY DEF Recovered, Recover, TypeOK

\* Two recoveries agree when they agree on every block.
LEMMA SameRecovered ==
  ASSUME \A b \in Blocks : Recovered'[b] = Recovered[b]
  PROVE  Recovered' = Recovered
  BY DEF Recovered, Recover

\* Outside of a commit the cache and the disk differ only in logged blocks and
\* in buffers a call is changing.
LEMMA VisibleIsDisk ==
  ASSUME TypeOK, IInv, NEW b \in Blocks, pin[b] = 0, ~Dirty(b)
  PROVE  Contents(b) = disk[b]
  BY DEF IInv, BufInv, Contents

-----------------------------------------------------------------------------
\* The initial state is an initial state of the atomic disk.
LEMMA InitRefines == Init => AD!Init
<1> SUFFICES ASSUME Init PROVE AD!Init
  OBVIOUS
<1>1. TypeOK /\ dhead = <<>>
  BY InitInv DEF Init
<1>2. Recovered = disk
  BY <1>1, RecoverEmpty
<1>3. Active = {}
  BY DEF Init, Active, ActivePC
<1>4. QED
  BY <1>2, <1>3 DEF Init, AD!Init, Running

\* Steps that leave the disk, the header and the log alone change what is
\* visible at most.
LEMMA NothingDurable ==
  ASSUME UNCHANGED <<disk, dlog, dhead>>
  PROVE  Recovered' = Recovered
  BY DEF Recovered

\* The steps of a call.
LEMMA CallRefines ==
  ASSUME TypeOK, IInv, TypeOK', IInv', mode = "up", NEW p \in Procs,
         \/ call(p) \/ begin_op(p) \/ log_write(p) \/ brelse(p) \/ end_op(p)
         \/ \E b \in Blocks : bread(p, b)
         \/ \E v \in Data : modify(p, v)
  PROVE  [AD!Next]_AD!vars
<1> USE DEF diskvars, logvars, bufvars, AD!vars
<1>0. Recovered' = Recovered /\ crashes' = crashes /\ Running /\ Running'
  BY NothingDurable DEF call, begin_op, log_write, Panic, brelse, end_op, bread, modify, Running
<1>1. CASE call(p)
  <2>1. Active' = Active /\ Visible' = Visible /\ committing' = committing
    BY <1>1 DEF call, Goto, TypeOK, Active, ActivePC, Visible, Contents
  <2>2. QED
    BY <1>0, <2>1
<1>2. CASE begin_op(p)
  <2>1. Visible' = Visible /\ committing' = committing
    BY <1>2 DEF begin_op, Visible, Contents
  <2>2. CASE committing \/ NoSpace
    <3>1. Active' = Active
      BY <1>2, <2>2 DEF begin_op, Goto, TypeOK, Active, ActivePC
    <3>2. QED
      BY <1>0, <2>1, <3>1
  <2>3. CASE ~(committing \/ NoSpace)
    <3>1. Active' = Active \cup {p} /\ p \notin Active
      BY <1>2, <2>3 DEF begin_op, Goto, TypeOK, Active, ActivePC
    <3>2. AD!Begin(p)
      BY <1>0, <2>1, <2>3, <3>1 DEF AD!Begin
    <3>3. QED
      BY <3>2 DEF AD!Next
  <2>4. QED
    BY <2>2, <2>3
<1>3. CASE log_write(p)
  <2>1. Active' = Active /\ Visible' = Visible /\ committing' = committing
    BY <1>3 DEF log_write, Panic, Goto, TypeOK, Active, ActivePC, Visible, Contents
  <2>2. QED
    BY <1>0, <2>1
<1>4. CASE brelse(p)
  <2>1. Active' = Active /\ Visible' = Visible /\ committing' = committing
    BY <1>4 DEF brelse, Goto, TypeOK, Active, ActivePC, Visible, Contents
  <2>2. QED
    BY <1>0, <2>1
<1>5. CASE end_op(p)
  <2>1. p \in Active /\ ~committing
    BY <1>5, NobodyCommits DEF end_op, Active, ActivePC, IInv
  <2>2. Active' = Active \ {p}
    BY <1>5, <2>1 DEF end_op, Goto, WakeupAndGoto, TypeOK, Active, ActivePC
  <2>3. committing' = (Active = {p})
    <3>1. outstanding = Cardinality(Active) /\ IsFiniteSet(Active)
      BY ActiveFinite DEF IInv, GroupInv
    <3>2. outstanding = 1 <=> Active = {p}
      BY <2>1, <3>1, FS_Singleton
    <3>3. CASE Active = {p}
      <4>1. committing' = TRUE
        BY <1>5, <2>1, <3>2, <3>3 DEF end_op
      <4>2. QED
        BY <4>1, <3>3
    <3>4. CASE Active # {p}
      <4>1. committing' = FALSE
        BY <1>5, <2>1, <3>2, <3>4 DEF end_op, TypeOK
      <4>2. QED
        BY <4>1, <3>4
    <3>5. QED
      BY <3>3, <3>4
  <2>4. Visible' = Visible
    BY <1>5, <2>1 DEF end_op, Visible, Contents
  <2>5. AD!End(p)
    BY <1>0, <2>1, <2>2, <2>3, <2>4 DEF AD!End
  <2>6. QED
    BY <2>5 DEF AD!Next
<1>6. ASSUME NEW b \in Blocks, bread(p, b)
      PROVE  [AD!Next]_AD!vars
  <2>1. Active' = Active /\ committing' = committing
    BY <1>6 DEF bread, Goto, TypeOK, Active, ActivePC
  <2>2. \A c \in Blocks : Contents(c)' = Contents(c)
    BY <1>6 DEF bread, TypeOK, Contents
  <2>3. Visible' = Visible
    BY <2>2 DEF Visible
  <2>4. QED
    BY <1>0, <2>1, <2>3
<1>7. ASSUME NEW v \in Data, modify(p, v)
      PROVE  [AD!Next]_AD!vars
  <2>1. Active' = Active /\ committing' = committing /\ p \in Active
    BY <1>7 DEF modify, Goto, TypeOK, Active, ActivePC
  <2>2. holds[p] \in Blocks
    BY <1>7 DEF modify, IInv, GroupInv, TypeOK
  <2>3. \A c \in Blocks : Contents(c)' = IF c = holds[p] THEN v ELSE Contents(c)
    BY <1>7, <2>2, LogAssumption DEF modify, TypeOK, Contents
  <2>4. Visible' = [Visible EXCEPT ![holds[p]] = v]
    BY <2>2, <2>3 DEF Visible
  <2>5. AD!Write(p, holds[p], v)
    BY <1>0, <2>1, <2>4 DEF AD!Write
  <2>6. QED
    BY <1>7, <2>2, <2>5 DEF AD!Next
<1>8. QED
  BY <1>1, <1>2, <1>3, <1>4, <1>5, <1>6, <1>7

\* What a reader or a recycled buffer does to the cache is not visible.
LEMMA CacheRefines ==
  ASSUME TypeOK, IInv, mode = "up", NEW b \in Blocks, read(b) \/ recycle(b)
  PROVE  UNCHANGED AD!vars
<1> USE DEF diskvars, logvars, AD!vars
<1>0. /\ Recovered' = Recovered /\ crashes' = crashes /\ Running /\ Running'
      /\ Active' = Active /\ committing' = committing
  BY NothingDurable DEF read, recycle, Running, Active
<1>1. CASE read(b)
  <2>1. \A c \in Blocks : Contents(c)' = Contents(c)
    BY <1>1, LogAssumption DEF read, TypeOK, Contents
  <2>2. QED
    BY <1>0, <2>1 DEF Visible
<1>2. CASE recycle(b)
  <2>1. Contents(b) = disk[b]
    BY <1>2, VisibleIsDisk DEF recycle, Dirty, Locked
  <2>2. \A c \in Blocks : Contents(c)' = Contents(c)
    BY <1>2, <2>1 DEF recycle, TypeOK, Contents
  <2>3. QED
    BY <1>0, <2>2 DEF Visible
<1>3. QED
  BY <1>1, <1>2

\* The header write is the one step of a commit the atomic disk sees; the last
\* critical section of end_op() opens the next group.
LEMMA CommitRefines ==
  ASSUME TypeOK, IInv, mode = "up", NEW p \in Procs, Commit(p) \/ commit_done(p)
  PROVE  [AD!Next]_AD!vars
<1> USE DEF diskvars, logvars, bufvars, AD!vars, IInv
<1>0. pc[p] \in CommitPC /\ committing /\ \A q \in Procs : holds[q] = NoBlock
  BY CommitterAlone DEF Commit, write_log, write_head, install_trans, clear_head, commit_done, CommitPC
<1>1. \A b \in Blocks : ~Dirty(b)
  BY <1>0, LogAssumption DEF Dirty
<1>2. CASE write_log(p)
  <2>1. /\ Active' = Active /\ committing' = committing /\ crashes' = crashes
        /\ Running /\ Running' /\ dhead' = dhead /\ disk' = disk
    BY <1>2 DEF write_log, Active, Running
  <2>2. dhead = <<>>
    BY <1>2, CommitterAlone DEF write_log, HeadInv, Running, CommitPC
  <2>3. Recovered' = Recovered
    <3>1. \A b \in Blocks : Recovered[b] = disk[b] /\ Recovered'[b] = disk'[b]
      BY <2>1, <2>2, RecoverHome DEF Recovered
    <3>2. QED
      BY <2>1, <3>1, SameRecovered
  <2>4. Visible' = Visible
    <3>1. \A b \in Blocks : Contents(b)' = Contents(b)
      BY <1>2, <2>1 DEF write_log, Contents, TypeOK
    <3>2. QED
      BY <3>1 DEF Visible
  <2>5. QED
    BY <2>1, <2>3, <2>4
<1>3. CASE write_head(p)
  <2>1. /\ pc' = [pc EXCEPT ![p] = "install_trans"]
        /\ committing' = committing /\ crashes' = crashes /\ Running /\ Running'
        /\ dhead' = lh /\ UNCHANGED <<disk, dlog, cache>>
        /\ pc[p] = "write_log" /\ tail = Len(lh)
    BY <1>3 DEF write_head, LogWritten, Goto, Running
  <2>2. Active' = Active
    BY <2>1 DEF Active, ActivePC, TypeOK
  <2>3. Visible' = Visible
    BY <2>1 DEF Visible, Contents
  <2>4. At("write_log") /\ ~At("install_trans")
    BY <2>1, CommitterAlone DEF CommitPC
  <2>5. \A b \in Blocks : Recovered'[b] = Visible[b]
    <3>1. ASSUME NEW i \in 1 .. Len(lh)
          PROVE  Recovered'[lh[i]] = Visible[lh[i]]
      <4>1. Recovered'[lh[i]] = dlog[i]
        <5>1. lh \in Seq(Blocks) /\ \A j, k \in 1 .. Len(lh) : lh[j] = lh[k] => j = k
          BY DEF TypeOK, HeadInv
        <5>2. Recover(lh, dlog, disk)[lh[i]] = dlog[i]
          BY <5>1, RecoverLogged
        <5>3. QED
          BY <5>2, <2>1 DEF Recovered
      <4>2. lh[i] \in Blocks /\ dlog[i] = cache[lh[i]]
        BY <2>1, <2>4 DEF DiskInv, TypeOK
      <4>3. ~Installed(i)
        BY <2>4 DEF Installed
      <4>4. pin[lh[i]] = 1 /\ cache[lh[i]] # NotCached
        BY <4>2, <4>3 DEF BufInv, Running
      <4>5. QED
        BY <4>1, <4>2, <4>4 DEF Visible, Contents
    <3>2. ASSUME NEW b \in Blocks, \A i \in 1 .. Len(lh) : lh[i] # b
          PROVE  Recovered'[b] = Visible[b]
      <4>1. Recovered'[b] = disk[b]
        BY <3>2, <2>1, RecoverHome DEF Recovered
      <4>2. pin[b] = 0
        BY <3>2 DEF BufInv
      <4>3. QED
        BY <4>1, <4>2, <1>1, VisibleIsDisk DEF Visible
    <3>3. QED
      BY <3>1, <3>2
  <2>6. Recovered' = Visible
    BY <2>5 DEF Recovered, Recover, Visible
  <2>7. AD!Commit
    BY <1>0, <2>1, <2>2, <2>3, <2>6 DEF AD!Commit
  <2>8. QED
    BY <2>7 DEF AD!Next
<1>4. CASE install_trans(p)
  <2> DEFINE k == tail + 1
  <2>1. /\ At("install_trans") /\ dhead = lh /\ dhead' = dhead /\ dlog' = dlog
        /\ lh \in Seq(Blocks) /\ \A i, j \in 1 .. Len(lh) : lh[i] = lh[j] => i = j
        /\ k \in 1 .. Len(lh) /\ lh[k] \in Blocks
    BY <1>4, CommitterAlone DEF install_trans, InstallBlock, HeadInv, CommitPC, TypeOK
  <2>2. /\ disk' = [disk EXCEPT ![lh[k]] = dlog[k]]
        /\ cache' = [cache EXCEPT ![lh[k]] = dlog[k]]
        /\ UNCHANGED <<committing, crashes, pc, mode>>
    BY <1>4 DEF install_trans, InstallBlock
  <2>3. Active' = Active /\ Running /\ Running'
    BY <2>2 DEF Active, Running
  <2>4. \A b \in Blocks : Recovered'[b] = Recovered[b]
    <3>1. \A i \in 1 .. Len(lh) : Recovered'[lh[i]] = dlog[i] /\ Recovered[lh[i]] = dlog[i]
      BY <2>1, RecoverLogged DEF Recovered
    <3>2. ASSUME NEW b \in Blocks, \A i \in 1 .. Len(lh) : lh[i] # b
          PROVE  Recovered'[b] = Recovered[b]
      <4>1. Recovered'[b] = disk'[b] /\ Recovered[b] = disk[b]
        BY <2>1, <3>2, RecoverHome DEF Recovered
      <4>2. QED
        BY <4>1, <2>1, <2>2, <3>2 DEF TypeOK
    <3>3. QED
      BY <3>1, <3>2
  <2>5. dlog[k] = cache[lh[k]]
    BY <2>1 DEF DiskInv, TypeOK
  <2>6. cache[lh[k]] # NotCached
    <3>1. ~Installed(k)
      BY DEF Installed, TypeOK
    <3>2. pin[lh[k]] = 1
      BY <2>1, <2>3, <3>1 DEF BufInv
    <3>3. QED
      BY <2>1, <3>2 DEF BufInv
  <2>7. \A b \in Blocks : Contents(b)' = Contents(b)
    BY <2>1, <2>2, <2>5, <2>6 DEF Contents, TypeOK
  <2>8. QED
    BY <2>2, <2>3, <2>4, <2>7, SameRecovered DEF Visible
<1>5. CASE clear_head(p)
  <2>1. /\ At("install_trans") /\ dhead = lh /\ tail = Len(lh)
        /\ lh \in Seq(Blocks) /\ \A i, j \in 1 .. Len(lh) : lh[i] = lh[j] => i = j
        /\ \A i \in 1 .. Len(lh) : Installed(i)
    BY <1>5, CommitterAlone DEF clear_head, HeadInv, CommitPC, TypeOK, Installed
  <2>2. /\ pc' = [pc EXCEPT ![p] = "wake"] /\ dhead' = <<>>
        /\ UNCHANGED <<disk, dlog, cache, committing, crashes, mode>>
    BY <1>5 DEF clear_head, Goto
  <2>3. Active' = Active /\ Running /\ Running'
    BY <1>5, <2>2 DEF clear_head, Active, ActivePC, Running, TypeOK
  <2>4. \A b \in Blocks : Recovered'[b] = disk[b]
    BY <2>2, RecoverHome DEF Recovered
  <2>5. \A b \in Blocks : Recovered[b] = disk[b]
    <3>1. \A i \in 1 .. Len(lh) : Recovered[lh[i]] = dlog[i] /\ disk[lh[i]] = dlog[i]
      BY <2>1, RecoverLogged DEF Recovered, DiskInv
    <3>2. QED
      BY <2>1, <3>1, RecoverHome DEF Recovered
  <2>6. QED
    BY <2>2, <2>3, <2>4, <2>5, SameRecovered DEF Visible, Contents
<1>6. CASE commit_done(p)
  <2>1. At("wake") /\ ~At("install_trans") /\ lh = <<>> /\ dhead = <<>>
    BY <1>6, CommitterAlone DEF commit_done, HeadInv, CommitPC, Running
  <2>2. \A b \in Blocks : pin[b] = 0
    BY <2>1 DEF BufInv
  <2>3. \A b \in Blocks : Contents(b) = disk[b]
    BY <1>1, <2>2, VisibleIsDisk
  <2>4. Recovered = Visible
    BY <2>1, <2>3 DEF Recovered, Recover, Visible
  <2>5. /\ committing' = FALSE /\ crashes' = crashes
        /\ UNCHANGED <<disk, dlog, dhead, cache, mode>> /\ Running /\ Running'
    BY <1>6 DEF commit_done, Running
  <2>6. Active' = Active
    BY <1>6 DEF commit_done, WakeupAndGoto, Active, ActivePC
  <2>7. Visible' = Visible
    BY <2>5 DEF Visible, Contents
  <2>8. AD!Reopen
    BY <1>0, <2>4, <2>5, <2>6, <2>7, NothingDurable DEF AD!Reopen
  <2>9. QED
    BY <2>8 DEF AD!Next
<1>7. QED
  BY <1>2, <1>3, <1>4, <1>5, <1>6 DEF Commit

\* A crash takes the atomic disk back to what is durable: what it tears is not
\* named by the header, or is rewritten from the log.
LEMMA CrashRefines ==
  ASSUME TypeOK, IInv, TypeOK', IInv', crash
  PROVE  AD!Crash
<1>1. /\ crashes' = crashes + 1 /\ committing' = FALSE /\ dhead' = dhead /\ ~Running'
      /\ pc' = [p \in Procs |-> "idle"] /\ mode' = "boot"
  BY DEF crash, Running
<1>2. Active' = {}
  BY <1>1 DEF Active, ActivePC
<1>3. dhead \in Seq(Blocks) /\ \A i, j \in 1 .. Len(dhead) : dhead[i] = dhead[j] => i = j
  BY DEF TypeOK, IInv, HeadInv
<1>4. PICK tl \in SUBSET LogInFlight, th \in SUBSET HomeInFlight :
        /\ dlog' = [i \in 1 .. LOGBLOCKS |-> IF i \in tl THEN Torn ELSE dlog[i]]
        /\ disk' = [b \in Blocks |-> IF b \in th THEN Torn ELSE disk[b]]
  BY DEF crash
<1>5. \A i \in 1 .. Len(dhead) : dlog'[i] = dlog[i]
  <2>1. \A i \in 1 .. Len(dhead) : dlog'[i] # Torn /\ i \in 1 .. LOGBLOCKS
    BY <1>1, LogAssumption DEF IInv, DiskInv, TypeOK
  <2>2. QED
    BY <2>1, <1>4
<1>6. \A b \in Blocks : (\A i \in 1 .. Len(dhead) : dhead[i] # b) => disk'[b] = disk[b]
  <2>1. \A b \in Blocks : (\A i \in 1 .. Len(dhead) : dhead[i] # b) => disk'[b] # Torn
    BY <1>1 DEF IInv, DiskInv
  <2>2. QED
    BY <2>1, <1>4
<1>7. \A b \in Blocks : Recovered'[b] = Recovered[b]
  <2>1. \A i \in 1 .. Len(dhead) : Recovered'[dhead[i]] = dlog'[i] /\ Recovered[dhead[i]] = dlog[i]
    BY <1>1, <1>3, RecoverLogged DEF Recovered
  <2>2. ASSUME NEW b \in Blocks, \A i \in 1 .. Len(dhead) : dhead[i] # b
        PROVE  Recovered'[b] = Recovered[b]
    <3>1. Recovered'[b] = disk'[b] /\ Recovered[b] = disk[b]
      BY <1>1, <2>2, RecoverHome DEF Recovered
    <3>2. QED
      BY <3>1, <2>2, <1>6
  <2>3. QED
    BY <1>5, <2>1, <2>2
<1>8. Recovered' = Recovered
  BY <1>7, SameRecovered
<1>9. QED
  BY <1>1, <1>2, <1>8 DEF AD!Crash

\* Recovery changes nothing that the atomic disk shows.
LEMMA RecoveryRefines ==
  ASSUME TypeOK, IInv, Recovery
  PROVE  UNCHANGED AD!vars
<1> USE DEF diskvars, logvars, bufvars, AD!vars, IInv
<1>0. /\ committing' = committing /\ crashes' = crashes /\ ~Running
      /\ pc' = pc /\ Active' = Active
  BY DEF Recovery, read_head, recover_install, recover_clear, Running, Active
<1>1. CASE read_head
  BY <1>0, <1>1, NothingDurable DEF read_head, Running
<1>2. CASE recover_install
  <2> DEFINE k == tail + 1
  <2>1. /\ dhead = lh /\ dhead' = dhead /\ dlog' = dlog /\ ~Running'
        /\ lh \in Seq(Blocks) /\ \A i, j \in 1 .. Len(lh) : lh[i] = lh[j] => i = j
        /\ k \in 1 .. Len(lh)
        /\ disk' = [disk EXCEPT ![lh[k]] = dlog[k]]
    BY <1>2 DEF recover_install, InstallBlock, HeadInv, TypeOK, Running
  <2>2. \A i \in 1 .. Len(lh) : Recovered'[lh[i]] = dlog[i] /\ Recovered[lh[i]] = dlog[i]
    BY <2>1, RecoverLogged DEF Recovered
  <2>3. ASSUME NEW b \in Blocks, \A i \in 1 .. Len(lh) : lh[i] # b
        PROVE  Recovered'[b] = Recovered[b]
    <3>1. Recovered'[b] = disk'[b] /\ Recovered[b] = disk[b]
      <4>1. \A i \in 1 .. Len(dhead) : dhead[i] # b
        BY <2>1, <2>3
      <4>2. dhead' = dhead
        BY <2>1
      <4>3. QED
        BY <4>1, <4>2, RecoverHome DEF Recovered
    <3>2. QED
      BY <3>1, <2>1, <2>3 DEF TypeOK
  <2>4. Recovered' = Recovered
    BY <2>2, <2>3, SameRecovered
  <2>5. QED
    BY <1>0, <2>1, <2>4
<1>3. CASE recover_clear
  <2>1. /\ dhead = lh /\ tail = Len(lh) /\ mode = "recover" /\ Running'
        /\ lh \in Seq(Blocks) /\ \A i, j \in 1 .. Len(lh) : lh[i] = lh[j] => i = j
        /\ \A i \in 1 .. Len(lh) : Installed(i)
        /\ dhead' = <<>> /\ UNCHANGED <<disk, dlog, cache>>
    BY <1>3 DEF recover_clear, HeadInv, TypeOK, Installed, Running
  <2>2. \A i \in 1 .. Len(lh) : Recovered[lh[i]] = dlog[i] /\ disk[lh[i]] = dlog[i]
    BY <2>1, RecoverLogged DEF Recovered, DiskInv
  <2>3. \A b \in Blocks : Recovered[b] = disk[b]
    BY <2>1, <2>2, RecoverHome DEF Recovered
  <2>4. \A b \in Blocks : Recovered'[b] = disk[b]
    BY <2>1, RecoverHome DEF Recovered
  <2>5. \A b \in Blocks : pin[b] = 0 /\ ~Dirty(b)
    BY <1>0 DEF BufInv, Dirty, GroupInv
  <2>6. \A b \in Blocks : Contents(b)' = disk[b]
    BY <2>1, <2>5, VisibleIsDisk DEF Contents
  <2>7. Visible' = Recovered
    BY <2>3, <2>6 DEF Visible, Recovered, Recover
  <2>8. Recovered' = Recovered
    BY <2>3, <2>4, SameRecovered
  <2>9. QED
    BY <1>0, <2>1, <2>7, <2>8
<1>4. QED
  BY <1>1, <1>2, <1>3 DEF Recovery

\* Every step of the log is a step of the atomic disk, or leaves it as it is.
LEMMA StepRefines ==
  ASSUME TypeOK, IInv, TypeOK', IInv', [Next]_vars
  PROVE  [AD!Next]_AD!vars
<1>1. ASSUME mode = "up", NEW p \in Procs, Process(p)
      PROVE  [AD!Next]_AD!vars
  BY <1>1, CallRefines, CommitRefines DEF Process
<1>2. ASSUME mode = "up", NEW b \in Blocks, read(b) \/ recycle(b)
      PROVE  [AD!Next]_AD!vars
  BY <1>2, CacheRefines
<1>3. CASE Recovery
  BY <1>3, RecoveryRefines
<1>4. CASE crash
  BY <1>4, CrashRefines DEF AD!Next
<1>5. CASE UNCHANGED vars
  BY <1>5 DEF vars, diskvars, logvars, bufvars, AD!vars, Recovered, Visible, Contents, Active, Running
<1>6. QED
  BY <1>1, <1>2, <1>3, <1>4, <1>5 DEF Next

\* Crash atomicity: whatever the interleaving of calls, commits, crashes and
\* recoveries, the disk goes in one step from before a group of calls to after
\* it, and a crash loses at most the group that has not committed.
THEOREM CrashAtomicity == Spec => CrashAtomic
<1>1. Init => AD!Init
  BY InitRefines
<1>2. TypeOK /\ IInv /\ TypeOK' /\ IInv' /\ [Next]_vars => [AD!Next]_AD!vars
  BY StepRefines
<1>3. Spec => [](TypeOK /\ IInv)
  BY Invariance
<1>4. QED
  BY <1>1, <1>2, <1>3, PTL DEF Spec, CrashAtomic, AD!Spec

-----------------------------------------------------------------------------
(***************************************************************************)
(* What the reservation of begin_op() buys: the log never overflows, so    *)
(* none of the panics of kernel/log.c is reached, and whoever sleeps in    *)
(* begin_op() sleeps behind a call or a commit that will wake it.          *)
(***************************************************************************)

\* The log blocks that the calls in A have reserved and not used, when each call
\* p has logged the blocks w[p]: slot <<p, i>> is free while that is fewer than i.
SlotsOf(A, w) ==
    {s \in Procs \X (1 .. MAXOPBLOCKS) : s[1] \in A /\ s[2] > Cardinality(w[s[1]])}
Slots == SlotsOf(Active, wrote)

\* What a call has logged is within its budget and in the header; the blocks
\* in the header and the free slots together fit in the log.
SpaceInv ==
    /\ \A p \in Procs : IsFiniteSet(wrote[p]) /\ Cardinality(wrote[p]) \in 0 .. OpBlocks
    /\ \A p \in Procs : p \notin Active => wrote[p] = {}
    /\ \A p \in Procs : \A b \in wrote[p] : Logged(b)
    /\ \A p \in Procs : pc[p] = "dirty" =>
            /\ holds[p] \in wrote[p] \/ Cardinality(wrote[p]) < OpBlocks
            /\ Cardinality(wrote[p]) < MAXOPBLOCKS
    /\ Len(lh) + Cardinality(Slots) <= LOGBLOCKS

\* The log is empty when no call is under way; a sleeper has a waker.
WaitInv ==
    /\ Running /\ ~committing /\ outstanding = 0 => lh = <<>>
    /\ SleeperHasWaker

\* A call has at most MAXOPBLOCKS free slots.
LEMMA SlotsBound ==
  ASSUME NEW A \in SUBSET Procs, NEW w
  PROVE  /\ IsFiniteSet(SlotsOf(A, w))
         /\ Cardinality(SlotsOf(A, w)) \in Nat
         /\ Cardinality(SlotsOf(A, w)) <= Cardinality(A) * MAXOPBLOCKS
<1>1. IsFiniteSet(A) /\ IsFiniteSet(1 .. MAXOPBLOCKS) /\ Cardinality(1 .. MAXOPBLOCKS) = MAXOPBLOCKS
  BY LogAssumption, FS_Subset, FS_Interval
<1>2. IsFiniteSet(A \X (1 .. MAXOPBLOCKS))
      /\ Cardinality(A \X (1 .. MAXOPBLOCKS)) = Cardinality(A) * MAXOPBLOCKS
  BY <1>1, FS_Product
<1>3. SlotsOf(A, w) \in SUBSET (A \X (1 .. MAXOPBLOCKS))
  BY DEF SlotsOf
<1>4. QED
  BY <1>2, <1>3, FS_Subset, FS_CardinalityType

\* Steps that log nothing and neither start nor end a call.
LEMMA QuietSpace ==
  ASSUME SpaceInv, lh' = lh, wrote' = wrote, Active' = Active,
         \A p \in Procs : pc'[p] = "dirty" => pc[p] = "dirty" /\ holds'[p] = holds[p]
  PROVE  SpaceInv'
  BY DEF SpaceInv, Slots, Logged

\* When no call is under way the header alone has to fit.
LEMMA IdleSpace ==
  ASSUME TypeOK', Active' = {}, \A p \in Procs : wrote'[p] = {}
  PROVE  SpaceInv'
<1>1. Slots' = {}
  BY DEF Slots, SlotsOf
<1>2. Cardinality(Slots') = 0 /\ Cardinality({}) = 0 /\ IsFiniteSet({})
  BY <1>1, FS_EmptySet
<1>3. Len(lh') + Cardinality(Slots') <= LOGBLOCKS
  BY <1>2, LogAssumption DEF TypeOK
<1>4. \A p \in Procs : pc'[p] # "dirty"
  BY DEF Active, ActivePC
<1>5. \A p \in Procs : /\ IsFiniteSet(wrote'[p]) /\ Cardinality(wrote'[p]) \in 0 .. OpBlocks
                       /\ \A b \in wrote'[p] : Logged(b)'
  BY <1>2, LogAssumption
<1>6. QED
  BY <1>3, <1>4, <1>5 DEF SpaceInv

\* begin_op() admits a call only if its worst case still fits.
LEMMA BeginSpace ==
  ASSUME TypeOK, IInv, TypeOK', IInv', SpaceInv, NEW p \in Procs, begin_op(p)
  PROVE  SpaceInv'
<1>1. lh' = lh /\ wrote' = wrote /\ holds' = holds
  BY DEF begin_op, bufvars
<1>2. \A q \in Procs : pc'[q] = "dirty" => pc[q] = "dirty"
  BY DEF begin_op, Goto, TypeOK
<1>3. CASE committing \/ NoSpace
  <2>1. Active' = Active
    BY <1>3 DEF begin_op, Goto, TypeOK, Active, ActivePC
  <2>2. QED
    BY <1>1, <1>2, <2>1, QuietSpace
<1>4. CASE ~(committing \/ NoSpace)
  <2>1. outstanding' = outstanding + 1
    BY <1>4 DEF begin_op
  <2>2. Cardinality(Active') = outstanding + 1
    BY <2>1 DEF IInv, GroupInv
  <2>3. Len(lh) + (outstanding + 1) * MAXOPBLOCKS <= LOGBLOCKS
    BY <1>4, LogAssumption DEF NoSpace, TypeOK
  <2>4. /\ Cardinality(Slots') \in Nat
        /\ Cardinality(Slots') <= (outstanding + 1) * MAXOPBLOCKS
    BY <1>1, <2>2, SlotsBound DEF Slots, Active
  <2>5. Len(lh') + Cardinality(Slots') <= LOGBLOCKS
    <3> DEFINE m == (outstanding + 1) * MAXOPBLOCKS
    <3>1. m \in Nat /\ Len(lh) \in Nat /\ LOGBLOCKS \in Nat
      BY LogAssumption DEF TypeOK
    <3>2. Len(lh) + m <= LOGBLOCKS /\ Cardinality(Slots') <= m
      BY <2>3, <2>4
    <3> HIDE DEF m
    <3>3. QED
      BY <3>1, <3>2, <2>4, <1>1
  <2>6. \A q \in Procs : q \notin Active' => q \notin Active
    BY <1>4 DEF begin_op, Goto, TypeOK, Active, ActivePC
  <2>7. QED
    BY <1>1, <1>2, <2>5, <2>6 DEF SpaceInv, Logged
<1>5. QED
  BY <1>3, <1>4

\* A call that is about to log a block has a free slot for it, and still has
\* one if the block is in the log already.
LEMMA FreeSlot ==
  ASSUME TypeOK, IInv, SpaceInv,
         NEW p \in Procs, pc[p] = "dirty"
  PROVE  /\ <<p, Cardinality(wrote[p]) + 1>> \in Slots
         /\ Len(lh) < LOGBLOCKS
<1>1. Cardinality(wrote[p]) \in 0 .. OpBlocks /\ Cardinality(wrote[p]) < MAXOPBLOCKS
  BY DEF SpaceInv
<1>2. p \in Active
  BY DEF Active, ActivePC
<1>3. <<p, Cardinality(wrote[p]) + 1>> \in Slots
  BY <1>1, <1>2, LogAssumption DEF Slots, SlotsOf
<1>4. IsFiniteSet(Slots) /\ Cardinality(Slots) \in Nat
  BY SlotsBound DEF Slots, Active
<1>5. Cardinality(Slots) # 0
  BY <1>3, <1>4, FS_EmptySet
<1>6. QED
  BY <1>3, <1>4, <1>5, LogAssumption DEF SpaceInv, TypeOK

\* log_write() uses up a slot of its call exactly when the log grows.
LEMMA LogWriteSpace ==
  ASSUME TypeOK, IInv, SpaceInv, mode = "up",
         NEW p \in Procs, log_write(p)
  PROVE  SpaceInv' /\ mode' # "panicked"
<1> DEFINE h == holds[p]
           n == Cardinality(wrote[p])
<1>1. pc[p] = "dirty" /\ p \in Active /\ h \in Blocks
  BY DEF log_write, Active, ActivePC, IInv, GroupInv, TypeOK
<1>2. ~(Len(lh) >= LOGBLOCKS) /\ ~(outstanding < 1)
  <2>1. Len(lh) < LOGBLOCKS
    BY <1>1, FreeSlot
  <2>2. outstanding # 0
    BY <1>1, ActiveFinite, FS_EmptySet DEF IInv, GroupInv
  <2>3. QED
    BY <2>1, <2>2, LogAssumption DEF TypeOK
<1>3. /\ \/ Logged(h) /\ lh' = lh
         \/ ~Logged(h) /\ lh' = Append(lh, h)
      /\ wrote' = [wrote EXCEPT ![p] = @ \cup {h}]
      /\ pc' = [pc EXCEPT ![p] = "locked"]
      /\ UNCHANGED <<holds, mode>>
  BY <1>2 DEF log_write, Goto
<1>4. Active' = Active
  BY <1>1, <1>3 DEF Active, ActivePC, TypeOK
<1>5. /\ IsFiniteSet(wrote[p]) /\ n \in 0 .. OpBlocks
      /\ h \in wrote[p] \/ n < OpBlocks
  BY <1>1 DEF SpaceInv
<1>6. /\ wrote'[p] = wrote[p] \cup {h}
      /\ \A q \in Procs : q # p => wrote'[q] = wrote[q]
      /\ IsFiniteSet(wrote'[p])
      /\ Cardinality(wrote'[p]) = IF h \in wrote[p] THEN n ELSE n + 1
  <2>1. wrote'[p] = wrote[p] \cup {h} /\ \A q \in Procs : q # p => wrote'[q] = wrote[q]
    BY <1>3 DEF TypeOK
  <2>2. QED
    BY <2>1, <1>5, FS_AddElement
<1>7. /\ \A b : Logged(b) => Logged(b)'
      /\ \E i \in 1 .. Len(lh') : lh'[i] = h
  <2>1. CASE Logged(h)
    BY <2>1, <1>3 DEF Logged
  <2>2. CASE ~Logged(h)
    <3>1. lh' = Append(lh, h) /\ lh \in Seq(Blocks) /\ Len(lh) \in Nat
      BY <2>2, <1>3 DEF TypeOK
    <3>2. /\ Len(lh') = Len(lh) + 1 /\ lh'[Len(lh) + 1] = h
          /\ \A i \in 1 .. Len(lh) : lh'[i] = lh[i]
      BY <3>1, <1>1
    <3>3. \E i \in 1 .. Len(lh') : lh'[i] = h
      BY <3>1, <3>2
    <3>4. ASSUME NEW b, Logged(b) PROVE Logged(b)'
      <4>1. PICK i \in 1 .. Len(lh) : lh[i] = b
        BY <3>4 DEF Logged
      <4>2. i \in 1 .. Len(lh') /\ lh'[i] = b
        BY <4>1, <3>1, <3>2
      <4>3. QED
        BY <4>2 DEF Logged
    <3>5. QED
      BY <3>3, <3>4
  <2>3. QED
    BY <2>1, <2>2
<1>8. Len(lh') + Cardinality(Slots') <= LOGBLOCKS
  <2>0. IsFiniteSet(Slots) /\ Cardinality(Slots) \in Nat /\ Len(lh) \in Nat
    <3>1. IsFiniteSet(Slots) /\ Cardinality(Slots) \in Nat
      BY SlotsBound DEF Slots, Active
    <3>2. QED
      BY <3>1 DEF TypeOK
  <2>1. CASE h \in wrote[p]
    <3>1. Logged(h) /\ lh' = lh
      BY <2>1, <1>3 DEF SpaceInv
    <3>2. wrote' = wrote
      BY <2>1, <1>3 DEF TypeOK
    <3>3. QED
      BY <3>1, <3>2, <1>4 DEF SpaceInv, Slots
  <2>2. CASE h \notin wrote[p]
    <3>1. Slots' = Slots \ {<<p, n + 1>>}
      <4>1. \A q \in Procs, i \in 1 .. MAXOPBLOCKS :
              <<q, i>> \in Slots' <=> q \in Active /\ i > Cardinality(wrote'[q])
        BY <1>4 DEF Slots, SlotsOf
      <4>2. \A q \in Procs, i \in 1 .. MAXOPBLOCKS :
              <<q, i>> \in Slots <=> q \in Active /\ i > Cardinality(wrote[q])
        BY DEF Slots, SlotsOf
      <4>3. \A q \in Procs, i \in 1 .. MAXOPBLOCKS :
              <<q, i>> \in Slots' <=> <<q, i>> \in Slots /\ <<q, i>> # <<p, n + 1>>
        <5>1. ASSUME NEW q \in Procs, NEW i \in 1 .. MAXOPBLOCKS, q # p
              PROVE  <<q, i>> \in Slots' <=> <<q, i>> \in Slots /\ <<q, i>> # <<p, n + 1>>
          BY <5>1, <4>1, <4>2, <1>6
        <5>2. ASSUME NEW i \in 1 .. MAXOPBLOCKS
              PROVE  <<p, i>> \in Slots' <=> <<p, i>> \in Slots /\ <<p, i>> # <<p, n + 1>>
          <6>1. Cardinality(wrote'[p]) = n + 1 /\ n \in Nat /\ i \in Nat
            BY <1>5, <1>6, <2>2, LogAssumption
          <6>2. i > n + 1 <=> i > n /\ i # n + 1
            BY <6>1
          <6>3. QED
            BY <6>1, <6>2, <4>1, <4>2
        <5>3. QED
          BY <5>1, <5>2
      <4>4. Slots \subseteq Procs \X (1 .. MAXOPBLOCKS) /\ Slots' \subseteq Procs \X (1 .. MAXOPBLOCKS)
        BY DEF Slots, SlotsOf
      <4>5. QED
        BY <4>3, <4>4
    <3>2. <<p, n + 1>> \in Slots
      BY <1>1, FreeSlot
    <3>3. Cardinality(Slots') = Cardinality(Slots) - 1
      BY <3>1, <3>2, <2>0, FS_RemoveElement
    <3>4. Len(lh') <= Len(lh) + 1 /\ Len(lh') \in Nat
      BY <1>1, <1>3 DEF TypeOK
    <3>5. QED
      BY <3>3, <3>4, <2>0, LogAssumption DEF SpaceInv
  <2>3. QED
    BY <2>1, <2>2
<1>9. \A q \in Procs : IsFiniteSet(wrote'[q]) /\ Cardinality(wrote'[q]) \in 0 .. OpBlocks
  <2>1. Cardinality(wrote'[p]) \in 0 .. OpBlocks
    BY <1>5, <1>6, LogAssumption
  <2>2. QED
    BY <2>1, <1>6 DEF SpaceInv
<1>10. \A q \in Procs : \A b \in wrote'[q] : Logged(b)'
  <2>1. \A q \in Procs : \A b \in wrote[q] : Logged(b)
    BY DEF SpaceInv
  <2>2. \A b : b = h => Logged(b)'
    BY <1>7 DEF Logged
  <2>3. QED
    BY <2>1, <2>2, <1>6, <1>7
<1>11. \A q \in Procs : pc'[q] = "dirty" => q # p /\ pc[q] = "dirty"
  BY <1>3 DEF TypeOK
<1>12. SpaceInv'
  BY <1>1, <1>3, <1>4, <1>6, <1>8, <1>9, <1>10, <1>11 DEF SpaceInv
<1>13. QED
  BY <1>3, <1>12

\* end_op() gives back the slots its call did not use.
LEMMA EndSpace ==
  ASSUME TypeOK, IInv, SpaceInv, mode = "up", NEW p \in Procs, end_op(p)
  PROVE  SpaceInv' /\ mode' # "panicked"
<1>1. p \in Active /\ ~committing
  BY NobodyCommits DEF end_op, Active, ActivePC, IInv
<1>2. lh' = lh /\ holds' = holds /\ mode' = mode /\ wrote' = [wrote EXCEPT ![p] = {}]
  BY <1>1 DEF end_op, bufvars
<1>3. /\ Active' = Active \ {p}
      /\ \A q \in Procs : pc'[q] = "dirty" => q # p /\ pc[q] = "dirty"
  BY <1>1 DEF end_op, Goto, WakeupAndGoto, TypeOK, Active, ActivePC
<1>4. wrote'[p] = {} /\ \A q \in Procs : q # p => wrote'[q] = wrote[q]
  BY <1>2 DEF TypeOK
<1>5. Slots' \in SUBSET Slots
  BY <1>3, <1>4 DEF Slots, SlotsOf
<1>6. Cardinality(Slots') <= Cardinality(Slots) /\ Cardinality(Slots') \in Nat /\ Cardinality(Slots) \in Nat
  BY <1>5, SlotsBound, FS_Subset, FS_CardinalityType DEF Slots, Active
<1>7. Len(lh') + Cardinality(Slots') <= LOGBLOCKS
  BY <1>2, <1>6, LogAssumption DEF SpaceInv, TypeOK
<1>8. SpaceInv'
  BY <1>2, <1>3, <1>4, <1>7, FS_EmptySet, LogAssumption DEF SpaceInv, Logged
<1>9. QED
  BY <1>2, <1>8

\* The other steps of a process log nothing.
LEMMA ProcessSpace ==
  ASSUME TypeOK, IInv, TypeOK', IInv', SpaceInv,
         mode = "up", NEW p \in Procs, Process(p)
  PROVE  SpaceInv' /\ mode' # "panicked"
<1> USE DEF diskvars, logvars, bufvars
<1>1. CASE call(p)
  <2>1. /\ lh' = lh /\ wrote' = wrote /\ holds' = holds /\ mode' = mode /\ Active' = Active
        /\ \A q \in Procs : pc'[q] = "dirty" => pc[q] = "dirty"
    BY <1>1 DEF call, Goto, TypeOK, Active, ActivePC
  <2>2. QED
    BY <2>1, QuietSpace
<1>2. CASE begin_op(p)
  BY <1>2, BeginSpace DEF begin_op
<1>3. CASE end_op(p)
  BY <1>3, EndSpace
<1>4. ASSUME NEW b \in Blocks, bread(p, b)
      PROVE  SpaceInv' /\ mode' # "panicked"
  <2>1. /\ lh' = lh /\ wrote' = wrote /\ mode' = mode /\ Active' = Active
        /\ \A q \in Procs : pc'[q] = "dirty" => pc[q] = "dirty" /\ holds'[q] = holds[q]
    BY <1>4 DEF bread, Goto, TypeOK, Active, ActivePC
  <2>2. QED
    BY <2>1, QuietSpace
<1>5. ASSUME NEW v \in Data, modify(p, v)
      PROVE  SpaceInv' /\ mode' # "panicked"
  <2>1. /\ lh' = lh /\ wrote' = wrote /\ mode' = mode /\ holds' = holds /\ Active' = Active
        /\ \A q \in Procs : pc'[q] = "dirty" => q = p \/ pc[q] = "dirty"
        /\ holds[p] \in wrote[p] \/ Cardinality(wrote[p]) < OpBlocks
        /\ Cardinality(wrote[p]) < MAXOPBLOCKS
    BY <1>5 DEF modify, Goto, TypeOK, Active, ActivePC
  <2>2. QED
    BY <2>1 DEF SpaceInv, Slots, Logged
<1>6. CASE log_write(p)
  BY <1>6, LogWriteSpace
<1>7. CASE brelse(p)
  <2>1. /\ lh' = lh /\ wrote' = wrote /\ mode' = mode /\ Active' = Active
        /\ \A q \in Procs : pc'[q] = "dirty" => pc[q] = "dirty" /\ holds'[q] = holds[q]
    BY <1>7 DEF brelse, Goto, TypeOK, Active, ActivePC
  <2>2. QED
    BY <2>1, QuietSpace
<1>8. CASE Commit(p) \/ commit_done(p)
  <2>1. pc[p] \in CommitPC /\ Active = {}
    BY <1>8, CommitterAlone DEF Commit, write_log, write_head, install_trans, clear_head,
                               commit_done, CommitPC, IInv
  <2>2. Active' = {}
    BY <1>8, <2>1 DEF Commit, write_log, write_head, install_trans, clear_head, commit_done,
                      Goto, WakeupAndGoto, TypeOK, Active, ActivePC
  <2>3. wrote' = wrote /\ mode' = mode
    BY <1>8 DEF Commit, write_log, write_head, install_trans, clear_head, commit_done
  <2>4. \A q \in Procs : wrote'[q] = {}
    BY <2>1, <2>3 DEF SpaceInv
  <2>5. QED
    BY <2>2, <2>3, <2>4, IdleSpace
<1>9. QED
  BY <1>1, <1>2, <1>3, <1>4, <1>5, <1>6, <1>7, <1>8 DEF Process

\* Every step keeps the log within its space.
LEMMA NextSpace ==
  ASSUME TypeOK, IInv, TypeOK', IInv', SpaceInv, NoPanic, [Next]_vars
  PROVE  SpaceInv' /\ NoPanic'
<1> USE DEF NoPanic, vars, diskvars, logvars, bufvars
<1>1. ASSUME mode = "up", NEW p \in Procs, Process(p)
      PROVE  SpaceInv' /\ NoPanic'
  BY <1>1, ProcessSpace
<1>2. ASSUME mode = "up", NEW b \in Blocks, read(b) \/ recycle(b)
      PROVE  SpaceInv' /\ NoPanic'
  <2>1. UNCHANGED <<lh, wrote, pc, holds, mode>> /\ Active' = Active
    BY <1>2 DEF read, recycle, Active
  <2>2. QED
    BY <2>1, QuietSpace
<1>3. CASE Recovery
  <2>1. mode' # "panicked" /\ wrote' = wrote /\ pc' = pc /\ Active' = Active /\ ~Running
    BY <1>3 DEF Recovery, read_head, recover_install, recover_clear, Active, Running
  <2>2. Active = {}
    BY <2>1 DEF IInv, GroupInv, Active, ActivePC
  <2>3. QED
    BY <2>1, <2>2, IdleSpace DEF SpaceInv
<1>4. CASE crash
  <2>1. mode' # "panicked" /\ wrote' = [p \in Procs |-> {}] /\ pc' = [p \in Procs |-> "idle"]
    BY <1>4 DEF crash
  <2>2. QED
    BY <2>1, IdleSpace DEF Active, ActivePC
<1>5. CASE UNCHANGED vars
  BY <1>5, QuietSpace DEF Active
<1>6. QED
  BY <1>1, <1>2, <1>3, <1>4, <1>5 DEF Next

\* None of the panics of log.c is reachable, whatever the number of processes and
\* the size of the log, when calls keep to the reservation begin_op() makes for
\* them: the log may become full, and whoever still logs a block finds room.
THEOREM NoPanicEver == Spec => []NoPanic
<1>1. Init => SpaceInv /\ NoPanic
  <2> SUFFICES ASSUME Init PROVE SpaceInv /\ NoPanic
    OBVIOUS
  <2>1. Active = {} /\ lh = <<>> /\ \A p \in Procs : wrote[p] = {} /\ pc[p] = "idle"
    BY DEF Init, Active, ActivePC
  <2>2. Slots = {} /\ Cardinality(Slots) = 0 /\ Len(lh) = 0
    BY <2>1, FS_EmptySet DEF Slots, SlotsOf
  <2>3. \A p \in Procs : IsFiniteSet(wrote[p]) /\ Cardinality(wrote[p]) \in 0 .. OpBlocks
    <3>1. 0 \in 0 .. OpBlocks
      BY LogAssumption
    <3>2. QED
      BY <2>1, <3>1, FS_EmptySet
  <2>4. QED
    BY <2>1, <2>2, <2>3, LogAssumption DEF SpaceInv, NoPanic, Init
<1>2. TypeOK /\ IInv /\ TypeOK' /\ IInv' /\ SpaceInv /\ NoPanic /\ [Next]_vars
        => SpaceInv' /\ NoPanic'
  BY NextSpace
<1>3. Spec => [](TypeOK /\ IInv)
  BY Invariance
<1>4. QED
  BY <1>1, <1>2, <1>3, PTL DEF Spec

-----------------------------------------------------------------------------
\* Every step keeps a waker for each sleeper: nobody goes to sleep on an empty
\* log with no call under way, and the last to leave wakes all.
LEMMA NextWait ==
  ASSUME TypeOK, IInv, TypeOK', IInv', WaitInv, [Next]_vars
  PROVE  WaitInv'
<1> USE DEF vars, diskvars, logvars, bufvars, WaitInv
<1>1. ASSUME mode = "up", NEW p \in Procs, Process(p)
      PROVE  WaitInv'
  <2>0. Running
    BY <1>1 DEF Running
  <2>1. CASE call(p)
    BY <2>1 DEF call, Goto, TypeOK, SleeperHasWaker, Running
  <2>2. CASE begin_op(p)
    <3>1. CASE committing \/ NoSpace
      <4>1. committing \/ outstanding > 0
        <5>1. ASSUME ~committing, outstanding = 0 PROVE FALSE
          BY <5>1, <3>1, <2>0, LogAssumption DEF NoSpace
        <5>2. QED
          BY <5>1 DEF TypeOK
      <4>2. QED
        BY <2>2, <3>1, <4>1 DEF begin_op, Goto, SleeperHasWaker, TypeOK
    <3>2. CASE ~(committing \/ NoSpace)
      BY <2>2, <3>2 DEF begin_op, Goto, SleeperHasWaker, TypeOK
    <3>3. QED
      BY <3>1, <3>2
  <2>3. CASE end_op(p)
    <3>1. ~committing /\ outstanding # 0
      <4>1. p \in Active /\ ~committing
        BY <2>3, NobodyCommits DEF end_op, Active, ActivePC, IInv
      <4>2. QED
        BY <4>1, ActiveFinite, FS_EmptySet DEF IInv, GroupInv
    <3>2. QED
      BY <2>3, <3>1 DEF end_op, Goto, WakeupAndGoto, SleeperHasWaker, TypeOK
  <2>4. CASE \E b \in Blocks : bread(p, b)
    BY <2>4 DEF bread, Goto, TypeOK, SleeperHasWaker, Running
  <2>5. CASE \E v \in Data : modify(p, v)
    BY <2>5 DEF modify, Goto, TypeOK, SleeperHasWaker, Running
  <2>6. CASE log_write(p)
    <3>1. outstanding # 0
      <4>1. p \in Active
        BY <2>6 DEF log_write, Active, ActivePC
      <4>2. QED
        BY <4>1, ActiveFinite, FS_EmptySet DEF IInv, GroupInv
    <3>2. QED
      BY <2>6, <3>1 DEF log_write, Panic, Goto, TypeOK, SleeperHasWaker
  <2>7. CASE brelse(p)
    BY <2>7 DEF brelse, Goto, TypeOK, SleeperHasWaker, Running
  <2>8. CASE write_log(p)
    BY <2>8 DEF write_log, SleeperHasWaker, Running
  <2>9. CASE write_head(p)
    BY <2>9 DEF write_head, Goto, TypeOK, SleeperHasWaker, Running
  <2>10. CASE install_trans(p)
    BY <2>10 DEF install_trans, SleeperHasWaker, Running
  <2>11. CASE clear_head(p)
    BY <2>11 DEF clear_head, Goto, TypeOK, SleeperHasWaker, Running
  <2>12. CASE commit_done(p)
    <3>1. lh = <<>>
      BY <2>12 DEF commit_done, IInv, HeadInv, At
    <3>2. QED
      BY <2>12, <3>1 DEF commit_done, WakeupAndGoto, SleeperHasWaker
  <2>13. QED
    BY <1>1, <2>1, <2>2, <2>3, <2>4, <2>5, <2>6, <2>7, <2>8, <2>9, <2>10, <2>11, <2>12
       DEF Process, Commit
<1>2. ASSUME mode = "up", NEW b \in Blocks, read(b) \/ recycle(b)
      PROVE  WaitInv'
  BY <1>2 DEF read, recycle, SleeperHasWaker, Running
<1>3. CASE Recovery
  <2>1. \A p \in Procs : pc'[p] = "idle"
    BY <1>3 DEF Recovery, read_head, recover_install, recover_clear, IInv, GroupInv, Running
  <2>2. Running' => lh' = <<>>
    BY <1>3 DEF Recovery, read_head, recover_install, recover_clear, Running
  <2>3. QED
    BY <2>1, <2>2 DEF SleeperHasWaker
<1>4. CASE crash
  BY <1>4 DEF crash, SleeperHasWaker, Running
<1>5. CASE UNCHANGED vars
  BY <1>5 DEF SleeperHasWaker, Running
<1>6. QED
  BY <1>1, <1>2, <1>3, <1>4, <1>5 DEF Next

\* No wakeup is lost in begin_op(): a process sleeps there only while a call or
\* a commit that will wake it is under way.
THEOREM SleeperHasWakerAlways == Spec => []SleeperHasWaker
<1>1. Init => WaitInv
  BY DEF Init, WaitInv, SleeperHasWaker
<1>2. TypeOK /\ IInv /\ TypeOK' /\ IInv' /\ WaitInv /\ [Next]_vars => WaitInv'
  BY NextWait
<1>3. WaitInv => SleeperHasWaker
  BY DEF WaitInv
<1>4. Spec => [](TypeOK /\ IInv)
  BY Invariance
<1>5. QED
  BY <1>1, <1>2, <1>3, <1>4, PTL DEF Spec
=============================================================================
