---------------------------- MODULE UnusedChecker ----------------------------
(***************************************************************************)
(* The checker for unused declarations (xvr_unused.cpp): a stack of lists  *)
(* of declarations, each with a flag that a use of the name sets.  The     *)
(* walk over the tree that drives it is in module NameResolution.          *)
(***************************************************************************)
EXTENDS Integers, Sequences, SequencesExt

VARIABLES
    scopes,    \* the stack of lists of declarations
    hasError,  \* has_error: some declaration has been reported
    reported   \* history: the declarations reported

checker == <<scopes, hasError, reported>>

(* A declaration: line numbers, unique in a program, are the identities id. *)
Decl(name, id, isFunction) ==
    [name |-> name, id |-> id, isFunction |-> isFunction, used |-> FALSE]

(* Xvr_initUnusedChecker, Xvr_checkUnusedBegin. *)
CheckerInit ==
    /\ scopes = << << >> >>
    /\ hasError = FALSE
    /\ reported = {}

Pushed(stack) == Append(stack, << >>)

Added(stack, decls) ==
    [stack EXCEPT ![Len(stack)] = @ \o decls]

IndexOf(scope, name) == SelectInSeq(scope, LAMBDA d : d.name = name)

\* A search from the outermost scope.
MarkedOuterMutant(stack, name) ==
    LET s == SelectInSeq(stack, LAMBDA scope : IndexOf(scope, name) # 0)
    IN  IF s = 0 THEN stack
        ELSE [stack EXCEPT ![s][IndexOf(stack[s], name)].used = TRUE]

(* markUsed: the innermost scope that has the name, its first declaration. *)
Marked(stack, name) ==
    LET s == SelectLastInSeq(stack, LAMBDA scope : IndexOf(scope, name) # 0)
    IN  IF s = 0 THEN stack
        ELSE [stack EXCEPT ![s][IndexOf(stack[s], name)].used = TRUE]

Unused(scope) == {scope[i].id : i \in {j \in DOMAIN scope : ~scope[j].used}}

(* popScope, n times, reporting what is left unused. *)
PopScopes(n) ==
    LET gone == UNION {Unused(scopes[i]) :
                           i \in Len(scopes) - n + 1 .. Len(scopes)}
    IN  /\ scopes' = SubSeq(scopes, 1, Len(scopes) - n)
        /\ hasError' = (hasError \/ gone # {})
        /\ reported' = reported \union gone

Change(stack) == scopes' = stack /\ UNCHANGED <<hasError, reported>>
=============================================================================
