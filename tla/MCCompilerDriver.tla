-------------------------- MODULE MCCompilerDriver --------------------------
(* Small instances of CompilerDriver for TLC.                               *)
EXTENDS CompilerDriver

CONSTANTS c1, c2, c3, c4, o1, o2, o3, o4

\* Two compilations that link and two that do not.
Four == {c1, c2, c3, c4}
ModeOfFour == [c \in Four |-> CASE c = c3 -> "ir" [] c = c4 -> "print" [] OTHER -> "run"]
OutOfFour == [c \in Four |-> CASE c = c1 -> o1 [] c = c2 -> o2 [] c = c3 -> o3 [] OTHER -> o4]
=============================================================================
