---------------------------- MODULE AstOptimizer ----------------------------
(***************************************************************************)
(* The optimizer of the syntax tree (optimizer/xvr_ast_optimizer.cpp), as  *)
(* the compiler runs it before code generation: every enabled pass, in the *)
(* order of the priorities, over every node of the program, but not over   *)
(* the children.  A node has a kind k, an operator o, a literal type y, a  *)
(* value v, characters s and children c; kind "Freed" is a node whose      *)
(* memory was freed while the program still points to it.                  *)
(***************************************************************************)
EXTENDS Integers, Sequences, SequencesExt

LOCAL NodeOf(kind, type, value) == [k |-> kind, o |-> "", y |-> type, v |-> value, s |-> << >>, c |-> << >>]
EmptyBlock == NodeOf("Block", "", 0)
Freed == NodeOf("Freed", "", 0)
IntegerLiteral(n) == NodeOf("Literal", "INTEGER", n)

IsIntegerLiteral(n) == n.k = "Literal" /\ n.y \in {"INTEGER", "INT8", "INT16", "INT32", "INT64"}
IsBoolLiteral(n) == n.k = "Literal" /\ n.y = "BOOLEAN"

\* Xvr_Opcode: the numbers the parser gives the operators of a binary node.
Opcode == [ADDITION |-> 10, SUBTRACTION |-> 11, MULTIPLICATION |-> 12, DIVISION |-> 13, MODULO |-> 14]

Quotient(a, b) ==
    LET q == (IF a < 0 THEN -a ELSE a) \div (IF b < 0 THEN -b ELSE b)
    IN  IF (a < 0) = (b < 0) THEN q ELSE -q

Folded(n, value) == [node |-> IntegerLiteral(value), changes |-> 1]
Kept(n) == [node |-> n, changes |-> 0]

\* fold_binary_arithmetic, run_constant_folding: it compares the opcode with 1 .. 5, which no operator has.
ConstantFolding(n) ==
    LET code == IF n.o \in DOMAIN Opcode THEN Opcode[n.o] ELSE 99
        a == n.c[1].v
        b == n.c[2].v
    IN  CASE n.k # "Binary" -> Kept(n)
          [] ~(IsIntegerLiteral(n.c[1]) /\ IsIntegerLiteral(n.c[2])) -> Kept(n)
          [] code = 1 -> Folded(n, a + b)
          [] code = 2 -> Folded(n, a - b)
          [] code = 3 -> Folded(n, a * b)
          [] code = 4 /\ b # 0 -> Folded(n, Quotient(a, b))
          [] code = 5 /\ b # 0 -> Folded(n, a - b * Quotient(a, b))
          [] OTHER -> Kept(n)

\* has_side_effects_node; assignments and dots are binary nodes.
BinaryKinds == {"Binary", "Assign", "Dot"}
AlwaysEffects == {"Call", "While", "For", "Break", "Continue", "Prefix", "Postfix"}
RECURSIVE HasSideEffects(_)
HasSideEffects(n) ==
    \/ n.k \in AlwaysEffects
    \/ n.k \in BinaryKinds \union {"Unary", "VarDecl", "Block", "If"} /\ \E i \in DOMAIN n.c : HasSideEffects(n.c[i])

\* Mutant: the branches are mixed up.
DeadCodeMutant(n) ==
    LET keep == IF n.c[1].v # 0 THEN 3 ELSE 2
        discard == IF n.c[1].v # 0 THEN 2 ELSE 3
        drop == n.k = "If" /\ IsBoolLiteral(n.c[1]) /\ discard \in DOMAIN n.c /\ ~HasSideEffects(n.c[discard])
    IN  CASE ~drop -> Kept(n)
          [] keep \in DOMAIN n.c -> [node |-> Freed, changes |-> 1]
          [] OTHER -> [node |-> EmptyBlock, changes |-> 1]

(* run_dead_code_elimination: an if on a constant is replaced by the branch
   taken once the other one is there and has no effects.  The branch is part
   of the node that is freed; without one, an empty block takes its place. *)
DeadCode(n) ==
    LET keep == IF n.c[1].v # 0 THEN 2 ELSE 3
        discard == IF n.c[1].v # 0 THEN 3 ELSE 2
        drop == n.k = "If" /\ IsBoolLiteral(n.c[1]) /\ discard \in DOMAIN n.c /\ ~HasSideEffects(n.c[discard])
    IN  CASE ~drop -> Kept(n)
          [] keep \in DOMAIN n.c -> [node |-> Freed, changes |-> 1]
          [] OTHER -> [node |-> EmptyBlock, changes |-> 1]

\* Xvr_ASTOptimizerAddStandardPasses, sorted by their priority.
StandardPasses == <<"constant_folding", "dead_code_elimination">>

RunPass(pass, n) == IF pass = "constant_folding" THEN ConstantFolding(n) ELSE DeadCode(n)

\* Xvr_ASTOptimizerRun at a level, with the passes main adds when it is not 0: the program after them.
Optimize(level, program) ==
    IF level = 0 THEN program
    ELSE FoldLeft(LAMBDA nodes, pass : [i \in DOMAIN nodes |-> RunPass(pass, nodes[i]).node],
                  program, StandardPasses)
=============================================================================
