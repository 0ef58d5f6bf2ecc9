---------------------------- MODULE NameResolution ---------------------------
(***************************************************************************)
(* The two parts of the compiler that resolve names, on the same program:  *)
(* the checker for unused declarations and the symbol table of the code    *)
(* generator.  Both walk the same tree, each keeping its own scopes; here  *)
(* they walk it together, next to the lexical environment env they both    *)
(* stand for.  In the compiler the checker walks the whole program before  *)
(* the emitters do, and stops the compilation if it reports something; the *)
(* two share no state, so the order of their steps does not matter.        *)
(*                                                                         *)
(* The program is not given: at each step the walk enters or leaves a      *)
(* construct, meets a declaration or meets a use of a visible name.  Names *)
(* of variables and of procedures are kept apart: a call looks its         *)
(* procedure up in the LLVM module and not in the table.                   *)
(***************************************************************************)
EXTENDS UnusedChecker, SymbolTable

CONSTANTS
    VarNames, ProcNames,
    MaxDecls,     \* bound: declarations of the program
    MaxNesting,   \* bound: constructs open at a time
    Features      \* what the program may contain, a subset of AllFeatures

AllFeatures ==
    {"redeclare",       \* a name declared twice in one scope
     "shadow",          \* a variable of a for or of a branch of an if
                        \* expression that has the name of a visible one
     "deep",            \* more nested blocks than the table has scopes
     "many",            \* more variables than the table holds
     "procAfterVars",   \* a procedure declared after a variable of main
     "undeclared"}      \* a use of a name no declaration of which is open

ASSUME ProgramAssumption ==
    /\ VarNames \intersect ProcNames = {}
    /\ MaxDecls \in Nat /\ MaxNesting \in Nat
    /\ Features \subseteq AllFeatures

VARIABLES
    env,       \* the lexical scopes: [kind, decls], innermost last
    read,      \* declarations that some use refers to
    loose,     \* declarations in a for or a branch: no scope of the table's
    declared,  \* declarations so far; a declaration's id is its number
    misread,   \* history: uses the table resolved to another declaration
    done

walk == <<env, read, loose, declared, misread, done>>
vars == <<checker, table, walk>>

Scope(kind, decls) == [kind |-> kind, decls |-> decls]
Kinds == {"program", "params", "proc", "block", "for", "branch"}
Loose == {"for", "branch"}

Current == Last(env)
Live == UNION {{s.decls[i].id : i \in DOMAIN s.decls} : s \in ToSet(env)}
InProc == \E s \in ToSet(env) : s.kind = "params"

\* The declaration a name refers to: the last one of the innermost scope
\* that has it; NoVar if there is none.
Refers(name) ==
    LET Has(s) == \E i \in DOMAIN s.decls : s.decls[i].name = name
        k == SelectLastInSeq(env, Has)
        i == SelectLastInSeq(env[k].decls, LAMBDA d : d.name = name)
    IN  IF k = 0 THEN NoVar ELSE env[k].decls[i].id

\* The scopes of the function being emitted, and the variables it can name.
OwnScopes == IF InProc THEN SubSeq(env, 2, Len(env)) ELSE env
Visible == {n \in VarNames : \E s \in ToSet(OwnScopes) :
                                 \E i \in DOMAIN s.decls : s.decls[i].name = n}

(* What the program may contain: names new in a scope that has decls. *)
MayDeclare(names, decls) ==
    /\ ~done /\ declared + Len(names) <= MaxDecls
    /\ \/ "redeclare" \in Features
       \/ IsInjective(names) /\ \A d \in ToSet(decls) : d.name \notin ToSet(names)

MayAddLocal(name, isLoose) ==
    /\ "many" \in Features \/ Len(localVars) < MaxLocals
    /\ isLoose => "shadow" \in Features \/ name \notin Visible

MayOpen == ~done /\ Len(env) < MaxNesting

\* ensure_main_function: a node of the program that is no procedure.
EnsureMain ==
    currentFunction' = IF Len(env) = 1 THEN Main ELSE currentFunction

-----------------------------------------------------------------------------
Init ==
    /\ CheckerInit /\ TableInit
    /\ env = <<Scope("program", << >>)>>
    /\ read = {} /\ loose = {} /\ declared = 0 /\ misread = {} /\ done = FALSE

Open(scope) == env' = Append(env, scope) /\ UNCHANGED <<read, misread, done>>
Close(n) == env' = SubSeq(env, 1, Len(env) - n)
            /\ UNCHANGED <<read, loose, declared, misread, done>>

(* A block: checkBlock and the BLOCK case of the expression emitter. *)
EnterBlock ==
    /\ MayOpen
    /\ "deep" \in Features \/ Len(scopeStack) < MaxScopes
    /\ Open(Scope("block", << >>)) /\ UNCHANGED <<loose, declared>>
    /\ Change(Pushed(scopes))
    /\ EnsureMain /\ EnterScope

ExitBlock ==
    /\ ~done /\ Current.kind = "block"
    /\ Close(1) /\ PopScopes(1)
    /\ ExitScope /\ UNCHANGED currentFunction

(* A branch of an if expression: its statements are emitted one by one,     *)
(* without a scope.                                                        *)
EnterBranch ==
    /\ MayOpen
    /\ Open(Scope("branch", << >>)) /\ UNCHANGED <<loose, declared>>
    /\ Change(Pushed(scopes))
    /\ EnsureMain /\ UNCHANGED <<localVars, scopeStack>>

ExitBranch ==
    /\ ~done /\ Current.kind = "branch"
    /\ Close(1) /\ PopScopes(1)
    /\ UNCHANGED table

(* for (var name = ...; ...): the checker opens a scope for the clauses,    *)
(* the emitter does not.  A body is a block inside.                        *)
EnterFor(name) ==
    LET id == declared + 1 IN
    /\ MayOpen /\ MayDeclare(<<name>>, << >>) /\ MayAddLocal(name, TRUE)
    /\ Open(Scope("for", <<[name |-> name, id |-> id]>>))
    /\ declared' = id /\ loose' = loose \union {id}
    /\ Change(Added(Pushed(scopes), <<Decl(name, id, FALSE)>>))
    /\ EnsureMain
    /\ AddVariable(Variable(name, id, currentFunction'))

ExitFor ==
    /\ ~done /\ Current.kind = "for"
    /\ Close(1) /\ PopScopes(1)
    /\ UNCHANGED table

(* A procedure: declared in the program's scope, a scope for its           *)
(* parameters and one for its body; the table starts afresh with the       *)
(* parameters and has no scope for the body.                               *)
BeginProc(name, params) ==
    LET id == declared + 1 IN
    /\ MayOpen /\ Len(env) = 1
    /\ MayDeclare(<<name>>, Current.decls)
    /\ MayDeclare(<<name>> \o params, << >>)
    /\ \/ "procAfterVars" \in Features
       \/ \A d \in ToSet(Current.decls) : d.name \in ProcNames
    /\ env' = << Scope("program", Append(Current.decls, [name |-> name, id |-> id])),
                 Scope("params", [i \in DOMAIN params |->
                                    [name |-> params[i], id |-> id + i]]),
                 Scope("proc", << >>) >>
    /\ declared' = id + Len(params)
    /\ UNCHANGED <<read, loose, misread, done>>
    /\ Change(Pushed(Added(Pushed(Added(scopes, <<Decl(name, id, TRUE)>>)),
                           [i \in DOMAIN params |-> Decl(params[i], id + i, FALSE)])))
    /\ BeginFunction(id, [i \in DOMAIN params |-> Variable(params[i], id + i, id)])

\* Afterwards the driver returns to main; the table keeps what it holds.
EndProc ==
    /\ ~done /\ Current.kind = "proc"
    /\ Close(2) /\ PopScopes(2)
    /\ currentFunction' = Main
    /\ UNCHANGED <<localVars, scopeStack>>

(* A variable.  Its initial value has been walked before. *)
Declare(name) ==
    LET id == declared + 1 IN
    /\ MayDeclare(<<name>>, Current.decls)
    /\ MayAddLocal(name, Current.kind \in Loose)
    /\ env' = [env EXCEPT ![Len(env)].decls = Append(@, [name |-> name, id |-> id])]
    /\ declared' = id
    /\ loose' = IF Current.kind \in Loose THEN loose \union {id} ELSE loose
    /\ UNCHANGED <<read, misread, done>>
    /\ Change(Added(scopes, <<Decl(name, id, FALSE)>>))
    /\ EnsureMain
    /\ AddVariable(Variable(name, id, currentFunction'))

(* A use of a variable that is visible, or a call of a procedure; a name    *)
(* nobody declared is reported by neither side.                            *)
Use(name) ==
    LET meant == Refers(name)
        found == IF name \in ProcNames THEN meant ELSE LookupVar(name)
    IN
    /\ ~done
    /\ \/ name \in Visible
       \/ name \in ProcNames /\ meant # NoVar
       \/ "undeclared" \in Features /\ name \in VarNames /\ meant = NoVar
    /\ read' = read \union ({meant} \ {NoVar})
    /\ misread' = IF found = meant THEN misread ELSE misread \union {<<meant, found>>}
    /\ UNCHANGED <<env, loose, declared, done>>
    /\ Change(Marked(scopes, name))
    /\ EnsureMain /\ UNCHANGED <<localVars, scopeStack>>

(* Xvr_checkUnusedEnd; Xvr_LLVMCodegenWrite does not touch the table. *)
EndProgram ==
    /\ ~done /\ Len(env) = 1
    /\ env' = << >> /\ done' = TRUE
    /\ UNCHANGED <<read, loose, declared, misread>>
    /\ PopScopes(1) /\ UNCHANGED table

Next ==
    \/ EnterBlock \/ ExitBlock \/ EnterBranch \/ ExitBranch
    \/ \E name \in VarNames : EnterFor(name) \/ Declare(name)
    \/ ExitFor
    \/ \E name \in ProcNames, params \in {<< >>} \union {<<n>> : n \in VarNames} :
           BeginProc(name, params)
    \/ EndProc
    \/ \E name \in VarNames \union ProcNames : Use(name)
    \/ EndProgram

Spec == Init /\ [][Next]_vars

-----------------------------------------------------------------------------
(* The properties.                                                         *)

Ids == 1 .. MaxDecls

\* The two stacks and the table keep their types and stay within their
\* arrays, and the checker has one scope for each lexical scope.
TypeOK ==
    /\ localVars \in Seq([name : VarNames, id : Ids, fn : {Main} \union Ids])
    /\ Len(localVars) <= MaxLocals
    /\ scopeStack \in Seq(0 .. MaxLocals) /\ Len(scopeStack) <= MaxScopes
    /\ currentFunction \in {NoFunction, Main} \union Ids
    /\ hasError \in BOOLEAN /\ done \in BOOLEAN
    /\ reported \subseteq Ids /\ read \subseteq Ids /\ loose \subseteq Ids
    /\ declared \in 0 .. MaxDecls
    /\ \A s \in ToSet(env) : s.kind \in Kinds
    /\ Len(scopes) = Len(env)

\* What a program can name in the function being emitted, the code generator
\* finds: the same declaration as the language's scopes give, whatever blocks,
\* loops and procedures came before (lookup_local_var, EnterScope, ExitScope).
VisibleVariablesAreFound ==
    ~done => \A n \in Visible : LookupVar(n) = Refers(n)

\* Leaving a block removes the variables added in it: what the table holds for
\* the function being emitted was declared in a scope that is still open, or
\* in a for or a branch, which have no scope of the table.
TableHoldsOpenScopes ==
    ~done => \A v \in ToSet(localVars) :
                 v.fn = currentFunction => v.id \in Live \union loose

\* The saved counts are those of the blocks being emitted, each within the
\* next and within the table, so that leaving a block never brings back
\* variables of an earlier one.
ScopeStackMatchesBlocks ==
    /\ Len(scopeStack) = Cardinality({i \in DOMAIN env : env[i].kind = "block"})
    /\ \A k \in DOMAIN scopeStack :
           0 <= scopeStack[k] /\ scopeStack[k] <=
               IF k = Len(scopeStack) THEN Len(localVars) ELSE scopeStack[k + 1]

\* The checker reports a declaration when its scope ends, exactly if no use
\* refers to it, and fails exactly if it has reported one.
ReportedIffUnread ==
    /\ reported = ((1 .. declared) \ Live) \ read
    /\ hasError <=> reported # {}

\* A program the checker lets through has every use compiled as the declaration
\* it refers to, and a name without one as nothing.
UsesResolveLexically == done /\ ~hasError => misread = {}
=============================================================================
