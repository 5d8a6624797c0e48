---------------------------- MODULE MCVirtioDisk ----------------------------
(***************************************************************************)
(* VirtioDisk for TLC.  Blocks never hold the same contents, so data that  *)
(* goes to a wrong place is noticed; the first can change, so a transfer   *)
(* in the wrong direction is noticed too.                                  *)
(***************************************************************************)
EXTENDS VirtioDisk

CONSTANTS b1, b2, b3

ThreeBufs == {b1, b2, b3}
ThreeContents == [b \in ThreeBufs |-> IF b = b1 THEN {1, 2} ELSE IF b = b2 THEN {3} ELSE {4}]
=============================================================================
