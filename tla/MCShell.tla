------------------------------ MODULE MCShell -------------------------------
(***************************************************************************)
(* Shell for TLC: every line of at most MaxLen tokens, and some longer     *)
(* ones; then a second line, while background processes of the first may   *)
(* still run.                                                              *)
(***************************************************************************)
EXTENDS Shell

CONSTANT MaxLen

Tokens == {"w", "|", "&", ";", "(", ")", "<", ">"}
Short == UNION {[1..n -> Tokens] : n \in 1..MaxLen}
Long == {<<"w", "|", "w", "|", "w">>,
         <<"(", "w", ";", "w", ")", "|", "w">>,
         <<"w", "|", "(", "w", "&", ";", "w", ")", ">", "w">>,
         <<"w", "|", "w", "|", "w", "&">>,
         <<"w", "<", "w", "w", "|", "w", ">", "w">>,
         <<"(", "w", "&", ")", ";", "w", "w", ">", "w", ">", "w">>,
         <<"w", "&", "w", ";">>, <<"(", "w", ")", "w">>, <<"w", "|", "w", ")">>,
         <<"(", "(", "w", ")", "<", "w", ")", "&", "&">>}
Second == {<<"w">>, <<"w", ";", "w">>}
TypedLines == <<Short \cup Long, Second>>
=============================================================================
