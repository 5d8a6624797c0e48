-------------------------------- MODULE Tty --------------------------------
(***************************************************************************)
(* What the console promises its readers: typed characters go to a line    *)
(* that can still be edited, a newline, an end-of-file or a full buffer    *)
(* sends the line off, and reads take what was sent in order.  A read      *)
(* stops at a newline, and only a read that has nothing takes the          *)
(* end-of-file.                                                            *)
(***************************************************************************)
EXTENDS Integers, Sequences

CONSTANTS Readers, Chars, NL, EOF, Size

VARIABLES edit, queue, got      \* got[p]: what the present read of p has

Init == edit = <<>> /\ queue = <<>> /\ got = [p \in Readers |-> <<>>]

type(c) ==
  /\ Len(queue) + Len(edit) < Size
  /\ IF c \in {NL, EOF} \/ Len(queue) + Len(edit) + 1 = Size
     THEN queue' = queue \o Append(edit, c) /\ edit' = <<>>
     ELSE edit' = Append(edit, c) /\ UNCHANGED queue
  /\ UNCHANGED got
erase == /\ edit # <<>> /\ edit' = SubSeq(edit, 1, Len(edit) - 1)
         /\ UNCHANGED <<queue, got>>
kill_line == edit' = <<>> /\ UNCHANGED <<queue, got>>

begin(p) == got' = [got EXCEPT ![p] = <<>>] /\ UNCHANGED <<edit, queue>>
take(p) == /\ queue # <<>> /\ Head(queue) # EOF /\ NL \notin {got[p][k] : k \in DOMAIN got[p]}
           /\ got' = [got EXCEPT ![p] = Append(@, Head(queue))]
           /\ queue' = Tail(queue)
           /\ UNCHANGED edit
\* A read into memory the program does not have loses the character it was about
\* to return.  Which reads those are is not said here: what is excluded is that
\* characters are reordered or returned twice, and that an end-of-file is lost.
lose(p) == queue # <<>> /\ Head(queue) # EOF /\ queue' = Tail(queue) /\ UNCHANGED <<edit, got>>
end_of_file(p) == /\ queue # <<>> /\ Head(queue) = EOF /\ got[p] = <<>>
                  /\ queue' = Tail(queue)
                  /\ UNCHANGED <<edit, got>>

Next == \/ \E c \in Chars : type(c)
        \/ erase \/ kill_line
        \/ \E p \in Readers : begin(p) \/ take(p) \/ lose(p) \/ end_of_file(p)

Spec == Init /\ [][Next]_<<edit, queue, got>>
=============================================================================
