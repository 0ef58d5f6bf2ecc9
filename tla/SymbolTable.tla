----------------------------- MODULE SymbolTable -----------------------------
(***************************************************************************)
(* The variables of the procedure being emitted                            *)
(* (xvr_llvm_function_emitter.cpp): one array for all scopes, searched     *)
(* from its end, and a stack of the lengths it had when each block was     *)
(* entered.  Both have fixed sizes.  The walk over the tree that drives it *)
(* is in module NameResolution.                                            *)
(***************************************************************************)
EXTENDS Integers, Sequences, SequencesExt

CONSTANTS
    MaxLocals,   \* MAX_LOCAL_VARS, 64 in the code
    MaxScopes    \* the size of scope_stack, 32 in the code

ASSUME TableAssumption == MaxLocals \in Nat \ {0} /\ MaxScopes \in Nat \ {0}

(* Operators whose name ends in Mutant are mistakes a change to this code   *)
(* could make, not used by the specification.                              *)

VARIABLES
    localVars,       \* local_vars up to local_var_count
    scopeStack,      \* scope_stack up to scope_depth
    currentFunction  \* current_function

table == <<localVars, scopeStack, currentFunction>>

NoVar == 0
Main == 0
NoFunction == -1

(* A variable: id stands for its alloca, which belongs to function fn. *)
Variable(name, id, fn) == [name |-> name, id |-> id, fn |-> fn]

TableInit ==
    /\ localVars = << >>
    /\ scopeStack = << >>
    /\ currentFunction = NoFunction

\* The limit tested one too late.
AddLocalVarMutant(vars, v) == IF Len(vars) > MaxLocals THEN vars ELSE Append(vars, v)

(* add_local_var: a variable that does not fit is dropped. *)
AddLocalVar(vars, v) == IF Len(vars) >= MaxLocals THEN vars ELSE Append(vars, v)

\* The table of a procedure once its first n parameters are added.
ParametersAdded(params) ==
    LET added[n \in 0 .. Len(params)] ==
            IF n = 0 THEN << >> ELSE AddLocalVar(added[n - 1], params[n])
    IN  added

\* The search of get_var_type, from the start of the array.
LookupVarForwardMutant(name) ==
    LET i == SelectInSeq(localVars, LAMBDA v : v.name = name)
    IN  IF i = 0 THEN NoVar ELSE localVars[i].id

(* lookup_local_var and the two exported variants of it. *)
LookupVar(name) ==
    LET i == SelectLastInSeq(localVars, LAMBDA v : v.name = name)
    IN  IF i = 0 THEN NoVar ELSE localVars[i].id

\* The count is saved before the emitter's last variable was added.
EnterScopeMutant ==
    /\ scopeStack' = IF Len(scopeStack) < MaxScopes
                     THEN Append(scopeStack, Len(localVars) - 1) ELSE scopeStack
    /\ UNCHANGED localVars

(* Xvr_LLVMFunctionEmitterEnterScope, ...ExitScope. *)
EnterScope ==
    /\ scopeStack' = IF Len(scopeStack) < MaxScopes
                     THEN Append(scopeStack, Len(localVars)) ELSE scopeStack
    /\ UNCHANGED localVars

\* The depth goes back but the count does not.
ExitScopeMutant ==
    IF scopeStack = << >> THEN UNCHANGED <<localVars, scopeStack>>
    ELSE UNCHANGED localVars /\ scopeStack' = Front(scopeStack)

ExitScope ==
    IF scopeStack = << >> THEN UNCHANGED <<localVars, scopeStack>>
    ELSE /\ localVars' = SubSeq(localVars, 1, Last(scopeStack))
         /\ scopeStack' = Front(scopeStack)

(* Xvr_LLVMFunctionEmitterAddLocalVar in the current function. *)
AddVariable(v) ==
    localVars' = AddLocalVar(localVars, v) /\ UNCHANGED scopeStack

(* clear_local_vars and the parameters, in emit_function_body. *)
BeginFunction(fn, params) ==
    /\ localVars' = ParametersAdded(params)[Len(params)]
    /\ currentFunction' = fn
    /\ UNCHANGED scopeStack
=============================================================================
