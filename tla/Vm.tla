-------------------------------- MODULE Vm --------------------------------
(***************************************************************************)
(* Physical pages (kernel/kalloc.c), user page tables (kernel/vm.c) and    *)
(* the calls that build and tear down address spaces: fork() and exit()    *)
(* (kernel/proc.c), exec() (kernel/exec.c) and sbrk() (kernel/sysproc.c).  *)
(*                                                                         *)
(* Sizes are counted in units of which PGSIZE make a page, so that sizes   *)
(* that are not a multiple of a page occur.  A page table is a root page,  *)
(* a page for the table of the trampoline and the trapframe, a page for    *)
(* the table of each Fanout user pages, and the user pages it maps.  A     *)
(* loop takes one page per step, as other processes allocate between its   *)
(* rounds; when no page is left it gives back what it had taken.           *)
(***************************************************************************)
EXTENDS Integers, Sequences, FiniteSets, Functions

CONSTANTS Procs, InitProc,
          NPages,       \* physical pages
          MaxPages,     \* user pages below the trapframe
          Fanout,       \* user pages of one table
          PGSIZE,
          Data,         \* what programs store
          SbrkSizes     \* what sbrk() is called with

ASSUME VmAssumption == /\ InitProc \in Procs /\ SbrkSizes \subseteq Int
                       /\ {NPages, MaxPages, Fanout, PGSIZE} \subseteq Nat \ {0}
                       /\ NPages >= 3     \* userinit() finds its pages
                       /\ MaxPages >= 3   \* /init fits
                       /\ "none" \notin Data

Zero == "zero"
Junk == "junk"
Text == "text"
Image == <<Text, Zero, Zero>>   \* exec()'s text page, stack guard and stack
Pages == 1..NPages
Tables == 1..((MaxPages + Fanout - 1) \div Fanout)
NoPage == 0

VARIABLES free,     \* the free pages of kmem.freelist
          data,     \* contents of each page
          pt,       \* page table of each process
          sz,       \* p->sz
          trapframe,\* page of the trapframe, or NoPage: no process
          new,      \* page table that exec() is building
          argv,     \* page of sys_exec() for an argument
          pc, arg, i\* what the process does, with what argument, and its loop counter
vars == <<free, data, pt, sz, trapframe, new, argv, pc, arg, i>>

---------------------------------------------------------------------------
(* Page tables: pte[v] is the page that holds user page v, flags[v] its    *)
(* PTE_U and PTE_W bits.                                                   *)

NoTable == [root |-> NoPage, top |-> NoPage, tab |-> [t \in Tables |-> NoPage],
            pte |-> [v \in 1..MaxPages |-> NoPage], flags |-> [v \in 1..MaxPages |-> {}]]

PGROUNDUP(n) == (n + PGSIZE - 1) \div PGSIZE        \* in pages
TableOf(v) == ((v - 1) \div Fanout) + 1

\* kalloc() of the k-th page from now on, all of which a step takes at once.
Nth(k) == CHOOSE g \in free : Cardinality({h \in free : h < g}) = k - 1

\* mappages() of a new page v, through walk(): one page, and one for a missing table.
Needs(t, v) == IF t.tab[TableOf(v)] = NoPage THEN 2 ELSE 1
mappages(t, v, flags) ==
  [root |-> t.root, top |-> t.top,
   tab |-> [t.tab EXCEPT ![TableOf(v)] = IF @ = NoPage THEN Nth(2) ELSE @],
   pte |-> [t.pte EXCEPT ![v] = Nth(1)], flags |-> [t.flags EXCEPT ![v] = flags]]
Taken(t, v) == {Nth(k) : k \in 1..Needs(t, v)}

\* proc_pagetable(): the root and the table of the trampoline and the trapframe.
uvmcreate == [NoTable EXCEPT !.root = Nth(1)]
proc_pagetable == [uvmcreate EXCEPT !.top = Nth(2)]

\* walkaddr(): the page that holds user page v, unless user code may not touch it.
walkaddr(t, v) == IF "u" \in t.flags[v] THEN t.pte[v] ELSE NoPage
uvmclear(flags) == flags \ {"u"}

\* uvmunmap() of the user pages V, and the pages this frees.
uvmunmap(t, V) ==
  [root |-> t.root, top |-> t.top, tab |-> t.tab,
   pte |-> [v \in 1..MaxPages |-> IF v \in V THEN NoPage ELSE t.pte[v]],
   flags |-> [v \in 1..MaxPages |-> IF v \in V THEN {} ELSE t.flags[v]]]
Leaves(t, V) == {t.pte[v] : v \in V} \ {NoPage}

\* uvmfree(): the user pages below n, then freewalk() of the tables.
freewalk(t) == ({t.root, t.top} \cup Range(t.tab)) \ {NoPage}
uvmfree(t, n) == Leaves(t, 1..n) \cup freewalk(t)
\* The trampoline and the trapframe are unmapped only.
proc_freepagetable(t, n) == uvmfree(t, n)

\* kfree() of the pages G: they hold junk from then on.
kfree(G) == /\ free' = free \cup G
            /\ data' = [g \in Pages |-> IF g \in G THEN Junk ELSE data[g]]

User(p) == trapframe[p] # NoPage /\ pc[p] = "user"
Goto(p, l) == pc' = [pc EXCEPT ![p] = l]

---------------------------------------------------------------------------
(* sbrk().                                                                 *)

\* Neither form of sbrk() grows into the trapframe.
Fits(p, n) == PGROUNDUP(sz[p] + n) <= MaxPages

sbrk_lazy(p, n) ==
  /\ User(p) /\ n > 0 /\ Fits(p, n)
  /\ sz' = [sz EXCEPT ![p] = @ + n]
  /\ UNCHANGED <<free, data, pt, trapframe, new, argv, pc, i, arg>>

\* growproc() of n < 0: uvmdealloc().  A size below zero wraps and changes nothing.
Unmapped(from, to) == (PGROUNDUP(to) + 1)..PGROUNDUP(from)
shrink(p, n) ==
  LET V == Unmapped(sz[p], sz[p] + n) IN
  /\ User(p) /\ n < 0 /\ sz[p] + n >= 0
  /\ sz' = [sz EXCEPT ![p] = @ + n]
  /\ pt' = [pt EXCEPT ![p] = uvmunmap(@, V)]
  /\ kfree(Leaves(pt[p], V))
  /\ UNCHANGED <<trapframe, new, argv, pc, i, arg>>

\* growproc() of n > 0: uvmalloc() takes the pages from PGROUNDUP(sz) on.
sbrk_eager(p, n) ==
  /\ User(p) /\ n > 0 /\ Fits(p, n)
  /\ Goto(p, "grow") /\ arg' = [arg EXCEPT ![p] = sz[p] + n]
  /\ i' = [i EXCEPT ![p] = PGROUNDUP(sz[p]) + 1]
  /\ UNCHANGED <<free, data, pt, sz, trapframe, new, argv>>
uvmalloc(p) ==
  LET v == i[p] IN
  /\ pc[p] = "grow" /\ v <= PGROUNDUP(arg[p]) /\ Cardinality(free) >= Needs(pt[p], v)
  /\ pt' = [pt EXCEPT ![p] = mappages(@, v, {"u", "w"})]
  /\ free' = free \ Taken(pt[p], v)
  /\ data' = [data EXCEPT ![Nth(1)] = Zero]
  /\ i' = [i EXCEPT ![p] = v + 1]
  /\ UNCHANGED <<sz, trapframe, new, argv, pc, arg>>
uvmalloc_fails(p) ==
  LET V == (PGROUNDUP(sz[p]) + 1)..(i[p] - 1) IN
  /\ pc[p] = "grow" /\ i[p] <= PGROUNDUP(arg[p]) /\ Cardinality(free) < Needs(pt[p], i[p])
  /\ pt' = [pt EXCEPT ![p] = uvmunmap(@, V)]
  /\ kfree(Leaves(pt[p], V))
  /\ Goto(p, "user")
  /\ arg' = [arg EXCEPT ![p] = 0] /\ i' = [i EXCEPT ![p] = 1]
  /\ UNCHANGED <<sz, trapframe, new, argv>>
growproc(p) ==
  /\ pc[p] = "grow" /\ i[p] > PGROUNDUP(arg[p])
  /\ sz' = [sz EXCEPT ![p] = arg[p]]
  /\ Goto(p, "user")
  /\ arg' = [arg EXCEPT ![p] = 0] /\ i' = [i EXCEPT ![p] = 1]
  /\ UNCHANGED <<free, data, pt, trapframe, new, argv>>

---------------------------------------------------------------------------
(* Loads and stores of the program, and copyout() and copyin() for it.     *)

InSpace(p, v) == User(p) /\ v <= PGROUNDUP(sz[p])
store(p, v, d) ==
  /\ InSpace(p, v) /\ walkaddr(pt[p], v) # NoPage /\ "w" \in pt[p].flags[v]
  /\ data' = [data EXCEPT ![walkaddr(pt[p], v)] = d]
  /\ UNCHANGED <<free, pt, sz, trapframe, new, argv, pc, i, arg>>

\* vmfault(): a page that sbrk() left out is made when it is first touched.
vmfault(p, v) ==
  /\ InSpace(p, v) /\ pt[p].pte[v] = NoPage /\ Cardinality(free) >= Needs(pt[p], v)
  /\ pt' = [pt EXCEPT ![p] = mappages(@, v, {"u", "w"})]
  /\ free' = free \ Taken(pt[p], v)
  /\ data' = [data EXCEPT ![Nth(1)] = Zero]
  /\ UNCHANGED <<sz, trapframe, new, argv, pc, i, arg>>

\* A fault that vmfault() does not repair, or a call of exit().
exit(p) ==
  /\ User(p) /\ p # InitProc /\ Goto(p, "zombie")
  /\ UNCHANGED <<free, data, pt, sz, trapframe, new, argv, i, arg>>

---------------------------------------------------------------------------
(* fork() and the freeproc() of kwait().                                   *)

allocproc(p, q) ==
  /\ User(p) /\ trapframe[q] = NoPage /\ Cardinality(free) >= 3
  /\ pt' = [pt EXCEPT ![q] = proc_pagetable]
  /\ trapframe' = [trapframe EXCEPT ![q] = Nth(3)]
  /\ free' = free \ {Nth(k) : k \in 1..3}
  /\ pc' = [pc EXCEPT ![p] = "fork", ![q] = "embryo"] /\ arg' = [arg EXCEPT ![p] = q]
  /\ i' = [i EXCEPT ![p] = 1]
  /\ UNCHANGED <<data, sz, new, argv>>

Child(p) == arg[p]
\* Mutant: the child gets a new page.
Uncopied(g) == Zero
Copied(g) == data[g]
uvmcopy(p) ==
  LET v == i[p] 
      q == Child(p)
  IN
  /\ pc[p] = "fork" /\ v <= PGROUNDUP(sz[p]) /\ i' = [i EXCEPT ![p] = v + 1]
  /\ \/ /\ pt[p].pte[v] = NoPage
        /\ UNCHANGED <<free, data, pt>>
     \/ /\ pt[p].pte[v] # NoPage /\ Cardinality(free) >= Needs(pt[q], v)
        /\ pt' = [pt EXCEPT ![q] = mappages(@, v, pt[p].flags[v])]
        /\ free' = free \ Taken(pt[q], v)
        /\ data' = [data EXCEPT ![Nth(1)] = Copied(pt[p].pte[v])]
  /\ UNCHANGED <<sz, trapframe, new, argv, pc, arg>>

\* uvmcopy() unmaps the i pages before the one that failed, then freeproc(np).
\* Mutant: one page too few is unmapped.
UnmapOnErrorOneLess(n) == 1..(n - 2)
UnmapOnError(n) == 1..(n - 1)
uvmcopy_fails(p) ==
  LET q == Child(p) IN
  /\ pc[p] = "fork" /\ i[p] <= PGROUNDUP(sz[p]) /\ pt[p].pte[i[p]] # NoPage
  /\ Cardinality(free) < Needs(pt[q], i[p])
  /\ kfree(Leaves(pt[q], UnmapOnError(i[p])) \cup proc_freepagetable(uvmunmap(pt[q], UnmapOnError(i[p])), 0)
           \cup {trapframe[q]})
  /\ pt' = [pt EXCEPT ![q] = NoTable]
  /\ trapframe' = [trapframe EXCEPT ![q] = NoPage]
  /\ pc' = [pc EXCEPT ![p] = "user", ![q] = "unused"]
  /\ arg' = [arg EXCEPT ![p] = 0] /\ i' = [i EXCEPT ![p] = 1]
  /\ UNCHANGED <<sz, new, argv>>
kfork(p) ==
  /\ pc[p] = "fork" /\ i[p] > PGROUNDUP(sz[p])
  /\ sz' = [sz EXCEPT ![Child(p)] = sz[p]]
  /\ pc' = [pc EXCEPT ![p] = "user", ![Child(p)] = "user"]
  /\ arg' = [arg EXCEPT ![p] = 0] /\ i' = [i EXCEPT ![p] = 1]
  /\ UNCHANGED <<free, data, pt, trapframe, new, argv>>

freeproc(q) ==
  /\ pc[q] = "zombie"
  /\ kfree(proc_freepagetable(pt[q], PGROUNDUP(sz[q])) \cup {trapframe[q]})
  /\ pt' = [pt EXCEPT ![q] = NoTable]
  /\ trapframe' = [trapframe EXCEPT ![q] = NoPage]
  /\ sz' = [sz EXCEPT ![q] = 0]
  /\ Goto(q, "unused")
  /\ UNCHANGED <<new, argv, i, arg>>

---------------------------------------------------------------------------
(* exec().                                                                 *)

\* sys_exec() copies an argument into a page of its own.
sys_exec(p) ==
  /\ User(p) /\ free # {}
  /\ argv' = [argv EXCEPT ![p] = Nth(1)]
  /\ free' = free \ {Nth(1)}
  /\ Goto(p, "exec")
  /\ UNCHANGED <<data, pt, sz, trapframe, new, i, arg>>

exec_pagetable(p) ==
  /\ pc[p] = "exec" /\ Cardinality(free) >= 2
  /\ new' = [new EXCEPT ![p] = proc_pagetable]
  /\ free' = free \ {Nth(1), Nth(2)}
  /\ Goto(p, "load") /\ i' = [i EXCEPT ![p] = 1]
  /\ UNCHANGED <<data, pt, sz, trapframe, argv, arg>>

\* uvmalloc() and loadseg() of the text, then the guard and the stack.
ImageFlags == <<{"u"}, uvmclear({"u", "w"}), {"u", "w"}>>
exec_load(p) ==
  LET v == i[p] IN
  /\ pc[p] = "load" /\ v <= Len(Image) /\ Cardinality(free) >= Needs(new[p], v)
  /\ new' = [new EXCEPT ![p] = mappages(@, v, ImageFlags[v])]
  /\ free' = free \ Taken(new[p], v)
  /\ data' = [data EXCEPT ![Nth(1)] = Image[v]]
  /\ i' = [i EXCEPT ![p] = v + 1]
  /\ UNCHANGED <<pt, sz, trapframe, argv, pc, arg>>

\* bad: a page is missing, the file is no program, or an argument does not fit.
exec_bad(p) ==
  /\ pc[p] \in {"exec", "load"} /\ argv[p] # NoPage
  /\ kfree(proc_freepagetable(new[p], i[p] - 1) \cup {argv[p]})
  /\ new' = [new EXCEPT ![p] = NoTable] /\ argv' = [argv EXCEPT ![p] = NoPage]
  /\ Goto(p, "user") /\ i' = [i EXCEPT ![p] = 1]
  /\ UNCHANGED <<pt, sz, trapframe, arg>>

\* Commit to the new image, free the old one and the argument.
exec_commit(p) ==
  /\ pc[p] = "load" /\ i[p] > Len(Image)
  /\ pt' = [pt EXCEPT ![p] = new[p]]
  /\ sz' = [sz EXCEPT ![p] = Len(Image) * PGSIZE]
  /\ kfree((proc_freepagetable(pt[p], PGROUNDUP(sz[p])) \cup {argv[p]}) \ {NoPage})
  /\ new' = [new EXCEPT ![p] = NoTable] /\ argv' = [argv EXCEPT ![p] = NoPage]
  /\ Goto(p, "user") /\ i' = [i EXCEPT ![p] = 1]
  /\ UNCHANGED <<trapframe, arg>>

---------------------------------------------------------------------------
\* The first process, made by userinit(), is about to exec("/init").
Init ==
  /\ free = 4..NPages
  /\ data = [g \in Pages |-> Junk]
  /\ pt = [p \in Procs |-> IF p = InitProc THEN [NoTable EXCEPT !.root = 1, !.top = 2] ELSE NoTable]
  /\ sz = [p \in Procs |-> 0]
  /\ trapframe = [p \in Procs |-> IF p = InitProc THEN 3 ELSE NoPage]
  /\ new = [p \in Procs |-> NoTable]
  /\ argv = [p \in Procs |-> NoPage]
  /\ pc = [p \in Procs |-> IF p = InitProc THEN "exec" ELSE "unused"]
  /\ arg = [p \in Procs |-> 0] /\ i = [p \in Procs |-> 1]

Next == \E p \in Procs :
  \/ \E n \in SbrkSizes : sbrk_lazy(p, n) \/ sbrk_eager(p, n) \/ shrink(p, n)
  \/ uvmalloc(p) \/ uvmalloc_fails(p) \/ growproc(p)
  \/ \E v \in 1..MaxPages : vmfault(p, v) \/ \E d \in Data : store(p, v, d)
  \/ \E q \in Procs : allocproc(p, q)
  \/ uvmcopy(p) \/ uvmcopy_fails(p) \/ kfork(p)
  \/ exit(p) \/ freeproc(p)
  \/ sys_exec(p) \/ exec_pagetable(p) \/ exec_load(p) \/ exec_bad(p) \/ exec_commit(p)

Spec == Init /\ [][Next]_vars

---------------------------------------------------------------------------
(* Properties.                                                             *)

PC == {"unused", "embryo", "user", "zombie", "grow", "fork", "exec", "load"}
UserPages == 1..MaxPages
Table == [root : Pages \cup {NoPage}, top : Pages \cup {NoPage}, tab : [Tables -> Pages \cup {NoPage}],
          pte : [UserPages -> Pages \cup {NoPage}], flags : [UserPages -> SUBSET {"u", "w"}]]
Contents == Data \cup {Zero, Junk, Text}

TypeOK ==
  /\ free \subseteq Pages /\ data \in [Pages -> Contents]
  /\ pt \in [Procs -> Table] /\ new \in [Procs -> Table]
  /\ sz \in [Procs -> 0..(MaxPages * PGSIZE)]
  /\ trapframe \in [Procs -> Pages \cup {NoPage}] /\ argv \in [Procs -> Pages \cup {NoPage}]
  /\ pc \in [Procs -> PC] /\ i \in [Procs -> 1..(MaxPages + 1)]
  /\ arg \in [Procs -> Procs \cup 0..(MaxPages * PGSIZE)]

\* The uses of page g: in the free list, as part of a page table, as a user page,
\* a trapframe or an argument of exec().
Uses(g) ==
  (IF g \in free THEN 1 ELSE 0)
  + Cardinality({p \in Procs : trapframe[p] = g}) + Cardinality({p \in Procs : argv[p] = g})
  + Cardinality({x \in Procs \X (1..MaxPages) : pt[x[1]].pte[x[2]] = g})
  + Cardinality({x \in Procs \X (1..MaxPages) : new[x[1]].pte[x[2]] = g})
  + Cardinality({x \in Procs \X Tables : pt[x[1]].tab[x[2]] = g})
  + Cardinality({x \in Procs \X Tables : new[x[1]].tab[x[2]] = g})
  + Cardinality({p \in Procs : pt[p].root = g}) + Cardinality({p \in Procs : pt[p].top = g})
  + Cardinality({p \in Procs : new[p].root = g}) + Cardinality({p \in Procs : new[p].top = g})

\* Every physical page has exactly one use at every moment, half-way through
\* fork(), exec() and sbrk() and after each of their failures: none leaks, none
\* is shared, none is free and still mapped.
PagesPartition == \A g \in Pages : Uses(g) = 1

\* freewalk() panics on a page that is still mapped: a process that could be freed
\* has no page at or above its size, and every page it maps has its table.
NoLeafBeyondSize ==
  \A p \in Procs : pc[p] \in {"user", "zombie", "exec", "load"} =>
    \A v \in 1..MaxPages : pt[p].pte[v] # NoPage =>
      v <= PGROUNDUP(sz[p]) /\ pt[p].tab[TableOf(v)] # NoPage

(***************************************************************************)
(* The inductive invariant.  A page table is a tree; the pages of a        *)
(* process are those of its two tables, its trapframe and its argument.    *)
(***************************************************************************)
Held(t) == Leaves(t, UserPages) \cup freewalk(t)
Frames(p) == {trapframe[p], argv[p]} \ {NoPage}
Own(p) == Held(pt[p]) \cup Held(new[p]) \cup Frames(p)

\* No page is in a table twice, and a mapped page has its table.
Tree(t) ==
  /\ t.root # NoPage => t.root # t.top
  /\ \A a, b \in Tables : t.tab[a] # NoPage /\ t.tab[a] = t.tab[b] => a = b
  /\ \A a \in Tables : t.tab[a] # NoPage => t.tab[a] # t.root /\ t.tab[a] # t.top
  /\ \A v, w \in UserPages : t.pte[v] # NoPage /\ t.pte[v] = t.pte[w] => v = w
  /\ Leaves(t, UserPages) \cap freewalk(t) = {}
  /\ \A v \in UserPages : t.pte[v] # NoPage => t.tab[TableOf(v)] # NoPage

\* What is mapped, and what a process has in each state.
Mapped(t) == {v \in UserPages : t.pte[v] # NoPage}
OwnInv(p) ==
  /\ Tree(pt[p]) /\ Tree(new[p])
  /\ Held(pt[p]) \cap Held(new[p]) = {}
  /\ Frames(p) \cap (Held(pt[p]) \cup Held(new[p])) = {}
  /\ trapframe[p] # NoPage => trapframe[p] # argv[p]
StateInv(p) ==
  /\ trapframe[p] = NoPage <=> pc[p] = "unused"
  /\ pc[p] = "unused" => pt[p] = NoTable
  /\ pc[p] # "load" => new[p] = NoTable
  /\ pc[p] \notin {"exec", "load"} => argv[p] = NoPage
  /\ pc[p] \notin {"grow", "embryo"} => Mapped(pt[p]) \subseteq 1..PGROUNDUP(sz[p])

\* How far the loops of uvmalloc(), uvmcopy() and exec() have come, and what the pages
\* they have made hold.
GrowInv(p) ==
  pc[p] = "grow" =>
    /\ arg[p] \in sz[p]..(MaxPages * PGSIZE)
    /\ i[p] \in (PGROUNDUP(sz[p]) + 1)..(PGROUNDUP(arg[p]) + 1)
    /\ Mapped(pt[p]) \subseteq 1..(i[p] - 1)
    /\ \A v \in (PGROUNDUP(sz[p]) + 1)..(i[p] - 1) : pt[p].pte[v] # NoPage /\ data[pt[p].pte[v]] = Zero
LoadInv(p) ==
  pc[p] = "load" =>
    /\ i[p] <= Len(Image) + 1
    /\ Mapped(new[p]) = 1..(i[p] - 1)
    /\ \A v \in 1..(i[p] - 1) : data[new[p].pte[v]] = Image[v]
CopyInv(p) ==
  pc[p] = "fork" =>
    /\ Child(p) \in Procs /\ pc[Child(p)] = "embryo"
    /\ \A q \in Procs : pc[q] = "fork" /\ Child(q) = Child(p) => q = p
    /\ i[p] <= PGROUNDUP(sz[p]) + 1
    /\ Mapped(pt[Child(p)]) = {v \in Mapped(pt[p]) : v < i[p]}
    /\ \A v \in Mapped(pt[Child(p)]) : data[pt[Child(p)].pte[v]] = data[pt[p].pte[v]]

\* The pages of the processes and the free ones partition the memory.
MemoryInv ==
  /\ \A p, q \in Procs : p # q => Own(p) \cap Own(q) = {}
  /\ \A p \in Procs : Own(p) \cap free = {}
  /\ \A g \in Pages : g \in free \/ \E p \in Procs : g \in Own(p)

IInv == /\ MemoryInv
        /\ \A p \in Procs : OwnInv(p) /\ StateInv(p) /\ GrowInv(p) /\ LoadInv(p) /\ CopyInv(p)

Space == [p \in Procs |->
  IF pc[p] \in {"unused", "embryo", "zombie"} THEN <<"none">>
  ELSE [v \in 1..PGROUNDUP(sz[p]) |-> IF pt[p].pte[v] = NoPage THEN Zero ELSE data[pt[p].pte[v]]]]
Abstract == INSTANCE AddressSpaces WITH space <- Space

\* Page tables and lazy allocation implement separate address spaces: what a process
\* stores only it (and children forked later) sees, pages are zero until
\* written, fork() copies, exec() replaces, and a call that fails changes no page (of a
\* failed call that changed the length alone, this would say that it was an sbrk()).
ImplementsSpaces == Abstract!Spec

\* Each page has one use, and what is freed with a process is all it had.
PageInv == TypeOK /\ IInv /\ PagesPartition /\ NoLeafBeyondSize
=============================================================================
