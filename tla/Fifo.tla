-------------------------------- MODULE Fifo --------------------------------
(***************************************************************************)
(* What a pipe promises: the bytes that were written come out once, in     *)
(* order; at most Capacity of them wait; bytes go in while the write end   *)
(* is open, and come out while the read end is.                            *)
(***************************************************************************)
EXTENDS Naturals, Sequences

CONSTANTS Bytes, Capacity

VARIABLES
    queue,     \* the bytes in the pipe
    readopen,  \* the read end is open
    writeopen  \* the write end is open

vars == <<queue, readopen, writeopen>>

Init ==
    /\ queue = <<>>
    /\ readopen = TRUE
    /\ writeopen = TRUE

Put(v) ==
    /\ writeopen
    /\ Len(queue) < Capacity
    /\ queue' = Append(queue, v)
    /\ UNCHANGED <<readopen, writeopen>>

Take ==
    /\ readopen
    /\ queue # <<>>
    /\ queue' = Tail(queue)
    /\ UNCHANGED <<readopen, writeopen>>

CloseRead ==
    /\ readopen
    /\ readopen' = FALSE
    /\ UNCHANGED <<queue, writeopen>>

CloseWrite ==
    /\ writeopen
    /\ writeopen' = FALSE
    /\ UNCHANGED <<queue, readopen>>

Next == (\E v \in Bytes : Put(v)) \/ Take \/ CloseRead \/ CloseWrite

Spec == Init /\ [][Next]_vars
=============================================================================
