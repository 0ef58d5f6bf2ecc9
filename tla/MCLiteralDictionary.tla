------------------------ MODULE MCLiteralDictionary -------------------------
(* Small instances of LiteralDictionary for TLC.                           *)
EXTENDS LiteralDictionary

CONSTANTS a, b, f

\* Two identifiers that collide in the last slot of a table of 8, so that one
\* probes around its end, and part in a table of 16; f is a function literal.
IdentKeys == {a, b}
IdentClass == [k \in IdentKeys |-> k]
IdentHash == [k \in IdentKeys \union {f} |->
                 CASE k = a -> 7 [] k = b -> 15 [] OTHER -> 0]

ASSUME HashRespectsEquality
=============================================================================
