--------------------------- MODULE AddressSpaces ---------------------------
(***************************************************************************)
(* What virtual memory promises a program: each process has an address     *)
(* space of its own, a sequence of pages that are zero until written.      *)
(* fork() copies it, exec() replaces it, sbrk() changes its length, and a  *)
(* call that fails changes no page.                                        *)
(***************************************************************************)
EXTENDS Integers, Sequences

CONSTANTS Procs, Data, Zero, Image, MaxPages

VARIABLE space      \* a sequence of pages, or <<"none">> for no process

None == <<"none">>

Init == \E p \in Procs : space = [q \in Procs |-> IF q = p THEN <<>> ELSE None]

store(p, v, d) == /\ space[p] # None /\ v \in 1..Len(space[p])
                  /\ space' = [space EXCEPT ![p][v] = d]
sbrk(p, n) == /\ space[p] # None
              /\ space' = [space EXCEPT ![p] =
                    [v \in 1..n |-> IF v <= Len(space[p]) THEN space[p][v] ELSE Zero]]
fork(p, q) == /\ space[p] # None /\ space[q] = None
              /\ space' = [space EXCEPT ![q] = space[p]]
exec(p) == space[p] # None /\ space' = [space EXCEPT ![p] = Image]
exit(p) == space[p] # None /\ space' = [space EXCEPT ![p] = None]

Next == \E p \in Procs :
          \/ \E v \in 1..MaxPages, d \in Data : store(p, v, d)
          \/ \E n \in 0..MaxPages : sbrk(p, n)
          \/ \E q \in Procs : fork(p, q)
          \/ exec(p)
          \/ exit(p)

Spec == Init /\ [][Next]_space
=============================================================================
