------------------------------- MODULE MCProc -------------------------------
(***************************************************************************)
(* Proc for TLC.  Pid 2 is init's first child; pid 3 is its second, or its *)
(* first grandchild.  They are killed before they are born, alive, dying,  *)
(* dead, and after their slot was given to another process.                *)
(***************************************************************************)
EXTENDS Proc, TLC

CONSTANTS c1, c2

OneCPU == {c1}
TwoCPUs == {c1, c2}
Symmetry == Permutations(TwoCPUs)

KillFirst == {2}
KillSecond == {3}
=============================================================================
