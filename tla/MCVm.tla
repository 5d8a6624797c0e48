------------------------------- MODULE MCVm -------------------------------
(***************************************************************************)
(* A small instance of Vm.  States that differ only in which physical page *)
(* serves which purpose are explored once: Shape tells apart what each     *)
(* page table maps and holds, how many pages are free, and any page that   *)
(* has not exactly one use.                                                *)
(***************************************************************************)
EXTENDS Vm

Sizes == {-3, 1, 3}

Has(g) == g # NoPage
TableShape(t) ==
  <<[v \in 1..MaxPages |-> IF Has(t.pte[v]) THEN <<data[t.pte[v]], t.flags[v]>> ELSE <<>>],
    [k \in Tables |-> Has(t.tab[k])], Has(t.root), Has(t.top)>>
Shape == <<[p \in Procs |-> TableShape(pt[p])], [p \in Procs |-> TableShape(new[p])],
           [p \in Procs |-> <<sz[p], Has(trapframe[p]), Has(argv[p]), pc[p], arg[p], i[p]>>],
           Cardinality(free), {g \in Pages : Uses(g) # 1}>>
=============================================================================
