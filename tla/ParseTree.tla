----------------------------- MODULE ParseTree -----------------------------
(***************************************************************************)
(* The nodes the parser builds (core/ast/xvr_ast_node): a record with the  *)
(* kind k, the opcode, type or name o, the value v of a literal and the    *)
(* children c.  An array of nodes (block, compound, collection) is its     *)
(* children; moving a node into one frees only its shell.                  *)
(***************************************************************************)
EXTENDS Integers, Sequences, SequencesExt

Node(kind, info, kids) == [k |-> kind, o |-> info, v |-> 0, c |-> kids]

\* The nodes without children: break, continue, the increments, import, pass.
Leaf(kind, info) == Node(kind, info, << >>)

\* Xvr_emitASTNodeLiteral.
Literal(type, value) == [k |-> "Literal", o |-> type, v |-> value, c |-> << >>]
Name(id) == [k |-> "Literal", o |-> id, v |-> 0, c |-> << >>]

\* The null handle, and a handle that was never set or whose node is freed.
Null == Node("Null", "", << >>)
Wild == Node("Wild", "", << >>)

IsNode(n) == n.k \notin {"Null", "Wild"}

\* The nodes Xvr_freeASTNode frees.
RECURSIVE Size(_)
Size(n) == IF IsNode(n) THEN FoldLeft(LAMBDA s, m : s + Size(m), 1, n.c) ELSE 0

\* freeASTNodeCustom reaches every child, and follows a wild one.
RECURSIVE ReachesWild(_)
ReachesWild(n) == n.k = "Wild" \/ \E i \in DOMAIN n.c : ReachesWild(n.c[i])

\* The children that may be null in a finished tree: what the code tests before use.
MayBeNull(n, i) ==
    \/ n.k = "Index" /\ i \in {2, 3}    \* Xvr_emitASTNodeIndex
    \/ n.k = "If" /\ i = 3              \* no else
    \/ n.k = "Param"                    \* a parameter has no initialiser

RECURSIVE Complete(_)
Complete(n) ==
    /\ IsNode(n)
    /\ \A i \in DOMAIN n.c : Complete(n.c[i]) \/ (n.c[i] = Null /\ MayBeNull(n, i))
=============================================================================
