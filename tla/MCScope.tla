------------------------------- MODULE MCScope -------------------------------
(* Small instances of Scope for TLC.                                        *)
EXTENDS Scope, TLC

CONSTANTS x, s1, s2, s3, s4

\* A variable of any type, and a constant function.
TwoTypes == {[of |-> "any", constant |-> FALSE], [of |-> "function", constant |-> TRUE]}

Interchangeable == Permutations(Addresses)
=============================================================================
