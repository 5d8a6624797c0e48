------------------------------- MODULE MCFs -------------------------------
(* Small instances of Fs. *)
EXTENDS Fs

CONSTANTS a, b

Rel(elems) == [abs |-> FALSE, elems |-> elems]
TreePaths == {Rel(<<a>>), [abs |-> TRUE, elems |-> <<a, b>>]}
OnePath == {Rel(<<a>>)}
=============================================================================
