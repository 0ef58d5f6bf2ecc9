--------------------------- MODULE SymbolTableProof ---------------------------
(***************************************************************************)
(* Theorems about the symbol table in NameResolution: it keeps its types   *)
(* and stays in its arrays, the stack of saved counts is that of the       *)
(* blocks being emitted, the table holds open scopes only, and what is     *)
(* visible is found.                                                       *)
(***************************************************************************)
EXTENDS NameResolutionProof, FiniteSetTheorems

USE TableAssumption, ProgramAssumption

(***************************************************************************)
(* The table of variables.                                                 *)
(***************************************************************************)

\* Its variables are in the order of their declarations.
TableTyped ==
    /\ localVars \in Seq(VariableType) /\ Len(localVars) <= MaxLocals
    /\ \A p \in DOMAIN localVars : localVars[p].id <= declared
    /\ \A p, q \in DOMAIN localVars : p < q => localVars[p].id < localVars[q].id

\* Within a procedure they are all the procedure's.
FunctionFits ==
    /\ currentFunction \in {NoFunction, Main} \union Ids
    /\ Len(env) = 1 => \/ currentFunction = Main
                       \/ currentFunction = NoFunction /\ localVars = << >>
    /\ Len(env) > 1 /\ ~Inside => currentFunction = Main
    /\ Inside => /\ currentFunction \in Ids
                 /\ \A p \in DOMAIN localVars : localVars[p].fn = currentFunction

\* The block that entry k of the stack was saved for is the scope block[k].
StackFits(block) ==
    /\ block \in [DOMAIN scopeStack -> DOMAIN env]
    /\ \A k \in DOMAIN scopeStack :
          env[block[k]].kind = "block" /\ scopeStack[k] <= Len(localVars)
    /\ \A j, k \in DOMAIN scopeStack :
          j < k => block[j] < block[k] /\ scopeStack[j] <= scopeStack[k]
    /\ "deep" \notin Features =>
          \A s \in DOMAIN env : env[s].kind = "block" =>
              \E k \in DOMAIN scopeStack : block[k] = s

\* The count saved for a block divides the table into what was declared before
\* the block was entered and what was declared in it.
Divides(block) ==
    \A k \in DOMAIN scopeStack, p \in DOMAIN localVars, s \in DOMAIN env :
        \A i \in DOMAIN env[s].decls :
            env[s].decls[i].id = localVars[p].id =>
                (p <= scopeStack[k] <=> s < block[k])

StackInv ==
    /\ scopeStack \in Seq(0 .. MaxLocals) /\ Len(scopeStack) <= MaxScopes
    /\ \E block : StackFits(block) /\ Divides(block)

TableInv == TableTyped /\ FunctionFits /\ StackInv

LEMMA TableLength ==
    ASSUME TableTyped
    PROVE  /\ Len(localVars) \in Nat /\ DOMAIN localVars = 1 .. Len(localVars)
           /\ Len(localVars) \in 0 .. MaxLocals
           /\ \A p \in DOMAIN localVars : localVars[p] \in VariableType
BY DEF TableTyped

LEMMA StackLength ==
    ASSUME StackInv
    PROVE  /\ Len(scopeStack) \in Nat /\ DOMAIN scopeStack = 1 .. Len(scopeStack)
           /\ \A k \in DOMAIN scopeStack : scopeStack[k] \in 0 .. MaxLocals
BY DEF StackInv

\* While the program itself is the only scope no block is being emitted.
LEMMA NoBlockOpen ==
    ASSUME EnvInv, StackInv, Len(env) = 1
    PROVE  scopeStack = << >>
  <1>1. PICK block : StackFits(block)
    BY DEF StackInv
  <1>2. ASSUME NEW k \in DOMAIN scopeStack PROVE FALSE
    <2>1. block[k] \in DOMAIN env /\ env[block[k]].kind = "block"
      BY <1>1 DEF StackFits
    <2>2. block[k] = 1
      BY <2>1, EnvLength DEF EnvInv
    <2> QED
      BY <2>1, <2>2 DEF EnvInv, KindsInPlace
  <1> QED
    BY <1>2, StackLength DEF StackInv

(* The parameters of a procedure fit: there is room for one at least.       *)
AddedTo(f, vs) ==
    f = [n \in 0 .. Len(vs) |->
            IF n = 0 THEN << >> ELSE AddLocalVar(f[n - 1], vs[n])]

LEMMA ParametersHeld ==
    ASSUME NEW vs \in Seq(VariableType), Len(vs) <= 1
    PROVE  ParametersAdded(vs)[Len(vs)] = vs
  <1>1. \E f : AddedTo(f, vs)
    <2> DEFINE f == [n \in 0 .. Len(vs) |->
                        IF n = 0 THEN << >> ELSE AddLocalVar(<< >>, vs[n])]
    <2>1. \A n \in 0 .. Len(vs) : n = 0 \/ n - 1 = 0
      OBVIOUS
    <2>2. f[0] = << >>
      OBVIOUS
    <2>3. AddedTo(f, vs)
      BY <2>1, <2>2 DEF AddedTo
    <2> QED
      BY <2>3
  <1> DEFINE added == ParametersAdded(vs)
  <1>2. AddedTo(added, vs)
    <2>1. added = CHOOSE f : AddedTo(f, vs)
      BY DEF ParametersAdded, AddedTo
    <2> HIDE DEF added
    <2> QED
      BY <2>1, <1>1
  <1> HIDE DEF added
  <1>3. CASE Len(vs) = 0
    <2>1. added[0] = << >>
      BY <1>2, <1>3 DEF AddedTo
    <2> QED
      BY <2>1, <1>3 DEF added
  <1>4. CASE Len(vs) = 1
    <2>1. added[0] = << >> /\ added[1] = AddLocalVar(added[0], vs[1])
      <3>1. 0 \in 0 .. Len(vs) /\ 1 \in 0 .. Len(vs) /\ 1 - 1 = 0
        BY <1>4
      <3> QED
        BY <1>2, <3>1 DEF AddedTo
    <2>2. added[1] = <<vs[1]>>
      BY <2>1 DEF AddLocalVar
    <2>3. vs = <<vs[1]>>
      BY <1>4
    <2> QED
      BY <2>2, <2>3, <1>4 DEF added
  <1> QED
    BY <1>3, <1>4

(* The function of a node: main at top level, the procedure inside one.     *)
LEMMA MainEnsured ==
    ASSUME EnvInv, FunctionFits, EnsureMain, ~done
    PROVE  /\ currentFunction' \in {Main} \union Ids
           /\ ~Inside => currentFunction' = Main
           /\ Inside => currentFunction' = currentFunction /\ currentFunction \in Ids
  <1>1. Len(env) > 0 /\ Len(env) \in Nat
    BY EnvLength DEF EnvInv, EnvTyped
  <1> QED
    <2>1. CASE Len(env) = 1
      BY <2>1, <1>1 DEF EnsureMain, Inside
    <2>2. CASE Len(env) # 1
      <3>0. \A n \in Nat : n > 0 /\ n # 1 => n > 1
        OBVIOUS
      <3>1. Len(env) > 1 /\ currentFunction' = currentFunction
        BY <3>0, <2>2, <1>1 DEF EnsureMain
      <3> QED
        BY <3>1 DEF FunctionFits
    <2> QED
      BY <2>1, <2>2

(* A variable is added behind the others, or dropped if the table is full.  *)
GrownBy(v) ==
    /\ localVars' \in Seq(VariableType) /\ Len(localVars') <= MaxLocals
    /\ \A p \in DOMAIN localVars : p \in DOMAIN localVars' /\ localVars'[p] = localVars[p]
    /\ \A p \in DOMAIN localVars' :
          \/ p \in DOMAIN localVars
          \/ p = Len(localVars) + 1 /\ localVars'[p] = v
    /\ Len(localVars) < MaxLocals =>
          Len(localVars) + 1 \in DOMAIN localVars' /\ localVars'[Len(localVars) + 1] = v

LEMMA AddingGrows ==
    ASSUME TableTyped, NEW v \in VariableType, AddVariable(v)
    PROVE  GrownBy(v) /\ UNCHANGED scopeStack /\ Len(localVars) <= Len(localVars')
  <1>1. /\ localVars \in Seq(VariableType) /\ Len(localVars) \in 0 .. MaxLocals
        /\ DOMAIN localVars = 1 .. Len(localVars)
    BY TableLength DEF TableTyped
  <1>2. CASE Len(localVars) >= MaxLocals
    <2>1. localVars' = localVars
      BY <1>2 DEF AddVariable, AddLocalVar
    <2>2. ~(Len(localVars) < MaxLocals)
      BY <1>1, <1>2
    <2> QED
      <3>1. /\ localVars' \in Seq(VariableType) /\ Len(localVars') <= MaxLocals
            /\ DOMAIN localVars' = DOMAIN localVars
            /\ Len(localVars) <= Len(localVars')
        BY <1>1, <2>1
      <3>2. GrownBy(v)
        BY <2>1, <2>2, <3>1 DEF GrownBy
      <3> QED
        BY <3>1, <3>2 DEF AddVariable
  <1>3. CASE ~(Len(localVars) >= MaxLocals)
    <2>1. localVars' = Append(localVars, v)
      BY <1>3 DEF AddVariable, AddLocalVar
    <2>2. /\ localVars' \in Seq(VariableType) /\ Len(localVars') = Len(localVars) + 1
          /\ \A p \in 1 .. Len(localVars) : localVars'[p] = localVars[p]
          /\ localVars'[Len(localVars) + 1] = v
          /\ DOMAIN localVars' = 1 .. Len(localVars) + 1
      BY <2>1, <1>1
    <2> QED
      <3> DEFINE n == Len(localVars)
      <3>1. n \in 0 .. MaxLocals - 1 /\ MaxLocals \in Nat
        BY <1>1, <1>3
      <3> HIDE DEF n
      <3>2. GrownBy(v)
        BY <1>1, <2>2, <3>1 DEF GrownBy, n
      <3> QED
        BY <2>2, <3>1, <3>2 DEF AddVariable, n
  <1> QED
    BY <1>2, <1>3

LEMMA GrownIsTyped ==
    ASSUME EnvTyped, TableTyped, NEW v, GrownBy(v),
           declared' = declared + 1, v.id = declared + 1
    PROVE  TableTyped'
  <1>1. /\ DOMAIN localVars = 1 .. Len(localVars) /\ Len(localVars) \in Nat
        /\ DOMAIN localVars' = 1 .. Len(localVars') /\ Len(localVars') \in Nat
        /\ declared \in Nat
        /\ \A p \in DOMAIN localVars : localVars[p].id \in Nat
    BY TableLength DEF GrownBy, EnvTyped, VariableType, Ids
  <1>2. ASSUME NEW p \in DOMAIN localVars' PROVE localVars'[p].id <= declared'
    <2>1. CASE p \in DOMAIN localVars
      BY <2>1, <1>1 DEF GrownBy, TableTyped
    <2>2. CASE p \notin DOMAIN localVars
      BY <2>2, <1>1 DEF GrownBy
    <2> QED
      BY <2>1, <2>2
  <1>3. ASSUME NEW p \in DOMAIN localVars', NEW q \in DOMAIN localVars', p < q
        PROVE  localVars'[p].id < localVars'[q].id
    <2>1. CASE q \in DOMAIN localVars
      <3>1. p \in DOMAIN localVars
        BY <2>1, <1>1, <1>3
      <3> QED
        BY <2>1, <3>1, <1>3 DEF GrownBy, TableTyped
    <2>2. CASE q \notin DOMAIN localVars
      <3>1. q = Len(localVars) + 1 /\ localVars'[q].id = declared + 1
        BY <2>2 DEF GrownBy
      <3>2. p \in DOMAIN localVars
        BY <3>1, <1>1, <1>3
      <3> QED
        BY <3>1, <3>2, <1>1 DEF GrownBy, TableTyped
    <2> QED
      BY <2>1, <2>2
  <1> QED
    BY <1>2, <1>3 DEF GrownBy, TableTyped

(* A block ends: the table goes back to the count saved last.               *)
CutBack ==
    /\ scopeStack # << >>
    /\ localVars' \in Seq(VariableType)
    /\ Len(localVars') = scopeStack[Len(scopeStack)]
    /\ Len(localVars') <= Len(localVars)
    /\ \A p \in DOMAIN localVars' : localVars'[p] = localVars[p]
    /\ scopeStack' \in Seq(0 .. MaxLocals)
    /\ Len(scopeStack') = Len(scopeStack) - 1
    /\ \A k \in DOMAIN scopeStack' : scopeStack'[k] = scopeStack[k]

LEMMA ExitCutsBack ==
    ASSUME TableTyped, StackInv, ExitScope
    PROVE  \/ CutBack
           \/ scopeStack = << >> /\ UNCHANGED <<localVars, scopeStack>>
  <1>1. CASE scopeStack = << >>
    BY <1>1 DEF ExitScope
  <1>2. CASE scopeStack # << >>
    <2> DEFINE last == scopeStack[Len(scopeStack)]
               n == Len(scopeStack)
    <2>1. /\ n \in Nat \ {0} /\ n \in DOMAIN scopeStack
          /\ \A k \in 1 .. n - 1 : scopeStack[k] \in 0 .. MaxLocals
      BY <1>2, StackLength DEF StackInv
    <2>2. last \in 0 .. MaxLocals /\ last <= Len(localVars)
      BY <2>1, StackLength DEF StackInv, StackFits
    <2>3. localVars' = SubSeq(localVars, 1, last) /\ scopeStack' = SubSeq(scopeStack, 1, n - 1)
      BY <1>2 DEF ExitScope, Last, Front
    <2> HIDE DEF last, n
    <2>4. \A p \in 1 .. last : localVars[p] \in VariableType
      BY <2>2, TableLength
    <2>5. /\ localVars' \in Seq(VariableType) /\ Len(localVars') = last
          /\ \A p \in 1 .. last : localVars'[p] = localVars[p]
      BY <2>2, <2>3, <2>4, SubSeqProperties
    <2>6. /\ scopeStack' \in Seq(0 .. MaxLocals) /\ Len(scopeStack') = n - 1
          /\ \A k \in 1 .. n - 1 : scopeStack'[k] = scopeStack[k]
      BY <2>1, <2>3, SubSeqProperties
    <2>7. DOMAIN localVars' = 1 .. last /\ DOMAIN scopeStack' = 1 .. n - 1
      BY <2>5, <2>6
    <2> QED
      BY <1>2, <2>2, <2>5, <2>6, <2>7 DEF CutBack, last, n
  <1> QED
    BY <1>1, <1>2

LEMMA CutIsTyped ==
    ASSUME TableTyped, CutBack, UNCHANGED declared
    PROVE  TableTyped'
  <1>1. /\ DOMAIN localVars' \subseteq DOMAIN localVars
        /\ Len(localVars') <= MaxLocals
    <2>1. /\ Len(localVars') \in Nat /\ DOMAIN localVars' = 1 .. Len(localVars')
          /\ Len(localVars') <= Len(localVars)
      BY DEF CutBack
    <2> QED
      BY <2>1, TableLength
  <1> QED
    BY <1>1 DEF CutBack, TableTyped

(* A procedure begins: its parameters are all there is.                     *)
ParamVar(params, i) == Variable(params[i], declared + 1 + i, declared + 1)

Restarted(params) ==
    /\ localVars' \in Seq(VariableType) /\ Len(localVars') = Len(params)
    /\ \A p \in 1 .. Len(params) : localVars'[p] = ParamVar(params, p)

LEMMA ParamVarFields ==
    ASSUME NEW params, NEW i
    PROVE  /\ ParamVar(params, i).id = declared + 1 + i
           /\ ParamVar(params, i).fn = declared + 1
           /\ ParamVar(params, i).name = params[i]
BY DEF ParamVar, Variable

LEMMA BeginRestarts ==
    ASSUME EnvInv, NEW name \in ProcNames, NEW params \in Parameters,
           BeginProc(name, params)
    PROVE  Restarted(params) /\ currentFunction' = declared + 1
           /\ UNCHANGED scopeStack
  <1> DEFINE vs == [i \in DOMAIN params |-> ParamVar(params, i)]
  <1>1. /\ declared \in Nat /\ declared + 1 \in Ids
        /\ declared + 1 + Len(params) \in Ids /\ Len(params) \in 0 .. 1
        /\ DOMAIN params = 1 .. Len(params)
    BY BeginProcOpens, ParameterFacts DEF EnvInv, EnvTyped
  <1>2. \A i \in 1 .. Len(params) : ParamVar(params, i) \in VariableType
    BY <1>1, ParameterFacts DEF ParamVar, Variable, VariableType, Ids
  <1>3. /\ vs \in Seq(VariableType) /\ Len(vs) = Len(params)
        /\ \A p \in 1 .. Len(params) : vs[p] = ParamVar(params, p)
    BY <1>1, <1>2
  <1>4. /\ localVars' = ParametersAdded(vs)[Len(vs)]
        /\ currentFunction' = declared + 1 /\ UNCHANGED scopeStack
    BY DEF BeginProc, BeginFunction, ParamVar
  <1> HIDE DEF vs
  <1>5. localVars' = vs
    BY <1>1, <1>3, <1>4, ParametersHeld
  <1> QED
    BY <1>3, <1>4, <1>5 DEF Restarted

LEMMA RestartedIsTyped ==
    ASSUME EnvTyped, NEW params \in Parameters, Restarted(params),
           declared' = declared + 1 + Len(params)
    PROVE  TableTyped'
  <1>1. /\ Len(params) \in 0 .. 1 /\ declared \in Nat
        /\ DOMAIN localVars' = 1 .. Len(params) /\ Len(params) <= MaxLocals
    <2>1. Len(params) \in 0 .. 1 /\ MaxLocals \in Nat \ {0} /\ declared \in Nat
      BY ParameterFacts DEF EnvTyped
    <2>2. DOMAIN localVars' = 1 .. Len(params)
      BY DEF Restarted
    <2> QED
      BY <2>1, <2>2
  <1>2. \A p \in 1 .. Len(params) : localVars'[p].id = declared + 1 + p
    <2> SUFFICES ASSUME NEW p \in 1 .. Len(params)
                 PROVE  localVars'[p].id = declared + 1 + p
      OBVIOUS
    <2>1. localVars'[p] = ParamVar(params, p)
      BY DEF Restarted
    <2> QED
      BY <2>1, ParamVarFields
  <1> QED
    BY <1>1, <1>2 DEF Restarted, TableTyped

NewVar(name) == Variable(name, declared + 1, currentFunction')

LEMMA DeclaringGrows ==
    ASSUME EnvInv, TableTyped, FunctionFits, NEW name \in VarNames,
           EnterFor(name) \/ Declare(name)
    PROVE  /\ GrownBy(NewVar(name)) /\ Len(localVars) <= Len(localVars')
           /\ NewVar(name).id = declared + 1 /\ NewVar(name).fn = currentFunction'
           /\ NewVar(name).name = name
           /\ declared' = declared + 1 /\ EnsureMain /\ ~done
           /\ UNCHANGED scopeStack
  <1>1. /\ EnsureMain /\ ~done /\ declared' = declared + 1 /\ declared' \in Ids
    BY EnterForOpens, DeclareExtends DEF EnterFor, Declare, EnvInv
  <1>2. NewVar(name) \in VariableType
    BY <1>1, MainEnsured DEF NewVar, Variable, VariableType
  <1>3. AddVariable(NewVar(name))
    BY DEF EnterFor, Declare, NewVar
  <1> QED
    BY <1>1, <1>2, <1>3, AddingGrows DEF NewVar, Variable

LEMMA TableTypedStep ==
    ASSUME EnvInv, TableInv, [Next]_vars
    PROVE  TableTyped'
  <1>0. EnvTyped /\ TableTyped /\ FunctionFits /\ StackInv
    BY DEF EnvInv, TableInv
  <1>1. CASE UNCHANGED <<localVars, declared>>
    BY <1>0, <1>1 DEF TableTyped
  <1>2. CASE EnterBlock
    BY <1>0, <1>1, <1>2, EnterBlockOpens DEF EnterBlock, EnterScope
  <1>3. CASE EnterBranch
    BY <1>0, <1>1, <1>3, EnterBranchOpens DEF EnterBranch
  <1>4. ASSUME NEW name \in VarNames, EnterFor(name) \/ Declare(name)
        PROVE  TableTyped'
    BY <1>0, <1>4, DeclaringGrows, GrownIsTyped
  <1>5. ASSUME NEW name \in ProcNames, NEW params \in Parameters,
               BeginProc(name, params)
        PROVE  TableTyped'
    BY <1>0, <1>5, BeginProcOpens, BeginRestarts, RestartedIsTyped
  <1>6. CASE ExitBlock
    <2>1. UNCHANGED declared /\ ExitScope
      BY <1>6, ExitCloses DEF ExitBlock
    <2> QED
      BY <2>1, <1>0, <1>1, ExitCutsBack, CutIsTyped
  <1>7. CASE ExitBranch \/ ExitFor
    BY <1>1, <1>7, ExitCloses DEF ExitBranch, ExitFor, table
  <1>8. CASE EndProc
    BY <1>1, <1>8, EndProcCloses DEF EndProc
  <1>9. CASE EndProgram
    BY <1>1, <1>9 DEF EndProgram, table
  <1>10. ASSUME NEW name, Use(name) PROVE TableTyped'
    BY <1>1, <1>10 DEF Use
  <1>11. CASE UNCHANGED vars
    BY <1>1, <1>11 DEF vars, walk, table
  <1> QED
    BY <1>2, <1>3, <1>4, <1>5, <1>6, <1>7, <1>8, <1>9, <1>10, <1>11
       DEF Next, Parameters

(* Opening and closing scopes within the program or a procedure.            *)
LEMMA InsideStays ==
    ASSUME EnvInv
    PROVE  /\ \A kind \in Kinds : \A decls :
                 Opened(kind, decls) /\ kind # "params" => (Inside' <=> Inside)
           /\ \A d : Extended(d) => (Inside' <=> Inside)
           /\ Closed(1) /\ Len(env) > 1 /\ env[Len(env)].kind # "params"
                 => (Inside' <=> Inside)
           /\ \A d, ps : ProcOpened(d, ps) => Inside'
  <1>0. /\ Len(env) \in Nat /\ DOMAIN env = 1 .. Len(env)
    BY EnvLength DEF EnvInv
  <1>1. ASSUME NEW kind \in Kinds, NEW decls, Opened(kind, decls), kind # "params"
        PROVE  Inside' <=> Inside
    <2>1. CASE Len(env) >= 2
      BY <2>1, <1>0, <1>1 DEF Opened, Inside
    <2>2. CASE Len(env) = 1
      BY <2>2, <1>0, <1>1 DEF Opened, Inside
    <2>3. CASE Len(env) = 0
      BY <2>3, <1>0, <1>1 DEF Opened, Inside
    <2> QED
      BY <2>1, <2>2, <2>3, <1>0
  <1>2. ASSUME NEW d, Extended(d) PROVE Inside' <=> Inside
    <2>1. CASE Len(env) >= 2
      <3>1. env'[2].kind = env[2].kind /\ Len(env') >= 2
        BY <2>1, <1>0, <1>2 DEF Extended
      <3> QED
        BY <3>1, <2>1 DEF Inside
    <2>2. CASE ~(Len(env) >= 2)
      BY <2>2, <1>2 DEF Extended, Inside
    <2> QED
      BY <2>1, <2>2
  <1>3. ASSUME Closed(1), Len(env) > 1, env[Len(env)].kind # "params"
        PROVE  Inside' <=> Inside
    <2>1. CASE Len(env) > 2
      <3>1. env'[2] = env[2] /\ Len(env') >= 2
        BY <2>1, <1>0, <1>3 DEF Closed
      <3> QED
        BY <3>1, <2>1, <1>0 DEF Inside
    <2>2. CASE Len(env) = 2
      BY <2>2, <1>3 DEF Closed, Inside
    <2> QED
      BY <2>1, <2>2, <1>0, <1>3
  <1>4. ASSUME NEW d, NEW ps, ProcOpened(d, ps) PROVE Inside'
    BY <1>4 DEF ProcOpened, Inside
  <1> QED
    BY <1>1, <1>2, <1>3, <1>4

LEMMA FunctionStep ==
    ASSUME EnvInv, TableInv, [Next]_vars
    PROVE  FunctionFits'
  <1>0. /\ EnvTyped /\ TableTyped /\ FunctionFits /\ StackInv
        /\ Len(env) \in Nat /\ DOMAIN env = 1 .. Len(env)
    BY EnvLength DEF EnvInv, TableInv
  <1>1. ASSUME Inside' <=> Inside, EnsureMain, ~done,
               Inside => \A p \in DOMAIN localVars' :
                            localVars'[p].fn = currentFunction'
        PROVE  FunctionFits'
    <2>1. /\ currentFunction' \in {Main} \union Ids
          /\ ~Inside => currentFunction' = Main
          /\ Inside => currentFunction' = currentFunction /\ currentFunction \in Ids
      BY <1>0, <1>1, MainEnsured
    <2>2. Inside' => Len(env') >= 2
      BY DEF Inside
    <2>3. Len(env') = 1 => ~Inside
      BY <1>1, <2>2
    <2> QED
      BY <2>1, <2>3, <1>1 DEF FunctionFits
  <1>2. ASSUME Inside' <=> Inside, EnsureMain, ~done, UNCHANGED localVars
        PROVE  FunctionFits'
    <2>1. Inside => currentFunction' = currentFunction
      BY <1>0, <1>2, MainEnsured
    <2>2. Inside => \A p \in DOMAIN localVars' :
                       localVars'[p].fn = currentFunction'
      BY <2>1, <1>0, <1>2 DEF FunctionFits
    <2> QED
      BY <1>1, <1>2, <2>2
  <1>3. CASE EnterBlock
    <2>1. Inside' <=> Inside
      BY <1>0, <1>3, EnterBlockOpens, InsideStays DEF Kinds
    <2> QED
      BY <2>1, <1>2, <1>3 DEF EnterBlock, MayOpen, EnterScope
  <1>4. CASE EnterBranch
    <2>1. Inside' <=> Inside
      BY <1>0, <1>4, EnterBranchOpens, InsideStays DEF Kinds
    <2> QED
      BY <2>1, <1>2, <1>4 DEF EnterBranch, MayOpen
  <1>5. ASSUME NEW name \in VarNames, EnterFor(name) \/ Declare(name)
        PROVE  FunctionFits'
    <2>1. Inside' <=> Inside
      <3>1. CASE EnterFor(name)
        BY <3>1, <1>0, EnterForOpens, InsideStays DEF Kinds
      <3>2. CASE Declare(name)
        BY <3>2, <1>0, DeclareExtends, InsideStays
      <3> QED
        BY <1>5, <3>1, <3>2
    <2>2. /\ GrownBy(NewVar(name)) /\ NewVar(name).fn = currentFunction'
          /\ EnsureMain /\ ~done
      BY <1>0, <1>5, DeclaringGrows
    <2>3. Inside => currentFunction' = currentFunction
      BY <1>0, <2>2, MainEnsured
    <2>4. Inside => \A p \in DOMAIN localVars' :
                       localVars'[p].fn = currentFunction'
      BY <2>2, <2>3, <1>0 DEF GrownBy, FunctionFits
    <2> QED
      BY <2>1, <2>2, <2>4, <1>1
  <1>6. ASSUME NEW name \in ProcNames, NEW params \in Parameters,
               BeginProc(name, params)
        PROVE  FunctionFits'
    <2>1. /\ Inside' /\ Restarted(params) /\ currentFunction' = declared + 1
          /\ declared + 1 \in Ids /\ Len(env') = 3
      BY <1>6, BeginProcOpens, BeginRestarts, InsideStays DEF ProcOpened
    <2>2. ASSUME NEW p \in DOMAIN localVars'
          PROVE  localVars'[p].fn = currentFunction'
      <3>1. p \in 1 .. Len(params)
        BY <2>1, <2>2 DEF Restarted
      <3> QED
        BY <2>1, <3>1, ParamVarFields DEF Restarted
    <2> QED
      BY <2>1, <2>2 DEF FunctionFits
  <1>7. CASE ExitBlock \/ ExitBranch \/ ExitFor
    <2>1. /\ Closed(1) /\ Len(env) > 1 /\ env[Len(env)].kind # "params"
      BY <1>7, ExitCloses DEF Loose
    <2>2. (Inside' <=> Inside) /\ UNCHANGED currentFunction
      BY <1>7, <2>1, InsideStays DEF ExitBlock, ExitBranch, ExitFor, table
    <2>3. \A p \in DOMAIN localVars' :
              p \in DOMAIN localVars /\ localVars'[p] = localVars[p]
      <3>1. CASE UNCHANGED localVars
        BY <3>1
      <3>2. CASE CutBack
        <4>1. /\ Len(localVars') \in Nat /\ DOMAIN localVars' = 1 .. Len(localVars')
              /\ Len(localVars') <= Len(localVars)
          BY <3>2 DEF CutBack
        <4>2. DOMAIN localVars' \subseteq DOMAIN localVars
          BY <4>1, <1>0, TableLength
        <4> QED
          BY <3>2, <4>2 DEF CutBack
      <3> QED
        BY <1>0, <1>7, <3>1, <3>2, ExitCutsBack
           DEF ExitBlock, ExitBranch, ExitFor, table
    <2>4. CASE Inside
      <3>1. Len(env') # 1 /\ Inside'
        BY <2>2, <2>4 DEF Inside
      <3> QED
        BY <2>2, <2>3, <2>4, <3>1, <1>0 DEF FunctionFits
    <2>5. CASE ~Inside
      <3>1. ~Inside' /\ currentFunction = Main
        BY <2>1, <2>2, <2>5, <1>0 DEF FunctionFits
      <3> QED
        BY <2>2, <3>1 DEF FunctionFits
    <2> QED
      BY <2>4, <2>5
  <1>8. CASE EndProc
    <2>1. Len(env') = 1 /\ currentFunction' = Main
      <3>1. Len(env) = 3 /\ Len(env') = Len(env) - 2
        BY <1>8, EndProcCloses DEF Closed
      <3> QED
        BY <3>1, <1>8 DEF EndProc
    <2> QED
      BY <2>1 DEF FunctionFits, Inside
  <1>9. CASE EndProgram
    <2>1. Len(env') = 0 /\ UNCHANGED currentFunction
      BY <1>9, EndProgramCloses DEF EndProgram, table
    <2> QED
      BY <2>1, <1>0 DEF FunctionFits, Inside
  <1>10. ASSUME NEW name, Use(name) PROVE FunctionFits'
    <2>1. Inside' <=> Inside
      BY <1>10 DEF Use, Inside
    <2> QED
      BY <2>1, <1>2, <1>10 DEF Use
  <1>11. CASE UNCHANGED vars
    BY <1>0, <1>11 DEF vars, walk, table, FunctionFits, Inside
  <1> QED
    BY <1>3, <1>4, <1>5, <1>6, <1>7, <1>8, <1>9, <1>10, <1>11
       DEF Next, Parameters

LEMMA EmptyStackFits ==
    ASSUME scopeStack' = << >>,
           \A s \in DOMAIN env' : env'[s].kind # "block"
    PROVE  StackInv'
  <1> DEFINE block == [k \in {} |-> 0]
  <1>1. DOMAIN scopeStack' = {} /\ scopeStack' \in Seq(0 .. MaxLocals)
        /\ Len(scopeStack') <= MaxScopes
    OBVIOUS
  <1>2. block \in [DOMAIN scopeStack' -> DOMAIN env']
    BY <1>1
  <1> HIDE DEF block
  <1>3. StackFits(block)' /\ Divides(block)'
    BY <1>1, <1>2 DEF StackFits, Divides
  <1> QED
    BY <1>1, <1>3 DEF StackInv

(* More declarations and variables, but no block and no entry of the stack. *)
LEMMA GrowingKeepsStack ==
    ASSUME EnvInv, TableTyped, StackInv, Grows, env' \in Seq(ScopeType),
           UNCHANGED scopeStack,
           \A s \in DOMAIN env' : s \in DOMAIN env \/ env'[s].kind # "block",
           Len(localVars) <= Len(localVars'), Len(localVars') \in Nat,
           \A p \in DOMAIN localVars' :
              \/ p \in DOMAIN localVars /\ localVars'[p] = localVars[p]
              \/ p = Len(localVars) + 1 /\ localVars'[p].id = declared + 1
    PROVE  StackInv'
  <1>0. /\ Len(env) \in Nat /\ DOMAIN env = 1 .. Len(env)
        /\ Len(localVars) \in Nat /\ declared \in Nat
        /\ DOMAIN localVars = 1 .. Len(localVars)
        /\ \A p \in DOMAIN localVars : localVars[p].id \in Nat
        /\ \A k \in DOMAIN scopeStack : scopeStack[k] \in Nat
    BY EnvLength, TableLength, StackLength
       DEF EnvInv, EnvTyped, VariableType, Ids
  <1>1. PICK block : StackFits(block) /\ Divides(block)
    BY DEF StackInv
  <1>2. ASSUME NEW k \in DOMAIN scopeStack
        PROVE  /\ block[k] \in DOMAIN env /\ block[k] \in DOMAIN env'
               /\ env'[block[k]].kind = "block" /\ scopeStack[k] <= Len(localVars)
               /\ scopeStack[k] <= Len(localVars')
    <2>1. block[k] \in DOMAIN env /\ scopeStack[k] <= Len(localVars)
          /\ env[block[k]].kind = "block"
      BY <1>1 DEF StackFits
    <2> QED
      BY <2>1, <1>0 DEF Grows, Kept
  <1>3. StackFits(block)'
    <2>1. block \in [DOMAIN scopeStack -> DOMAIN env']
      BY <1>1, <1>2 DEF StackFits
    <2>2. \A s \in DOMAIN env' : env'[s].kind = "block" =>
             s \in DOMAIN env /\ env[s].kind = "block"
      BY DEF Grows, Kept
    <2> QED
      BY <1>1, <1>2, <2>1, <2>2 DEF StackFits
  <1>4. Divides(block)'
    <2> SUFFICES ASSUME NEW k \in DOMAIN scopeStack', NEW p \in DOMAIN localVars',
                        NEW s \in DOMAIN env', NEW i \in DOMAIN env'[s].decls,
                        env'[s].decls[i].id = localVars'[p].id
                 PROVE  p <= scopeStack'[k] <=> s < block[k]
      BY DEF Divides
    <2>0. scopeStack' = scopeStack /\ k \in DOMAIN scopeStack
      OBVIOUS
    <2>1. IsOld(s, i) => env'[s].decls[i].id = env[s].decls[i].id
                         /\ env[s].decls[i].id <= declared
      BY <1>0 DEF IsOld, Grows, Kept, EnvInv, IdsInOrder
    <2>2. ~IsOld(s, i) => env'[s].decls[i].id > declared /\ s >= Len(env)
      BY <1>0 DEF Grows, NewBehind
    <2>3. p \in DOMAIN localVars /\ localVars'[p] = localVars[p] =>
             localVars'[p].id <= declared
      BY DEF TableTyped
    <2>4. CASE p \in DOMAIN localVars /\ localVars'[p] = localVars[p]
      <3>1. IsOld(s, i)
        BY <2>2, <2>3, <2>4, <1>0
      <3>2. env[s].decls[i].id = localVars[p].id
        BY <3>1, <2>1, <2>4
      <3> QED
        BY <3>1, <3>2, <2>0, <2>4, <1>1 DEF Divides, IsOld
    <2>5. CASE p = Len(localVars) + 1 /\ localVars'[p].id = declared + 1
      <3>1. ~IsOld(s, i)
        BY <2>1, <2>5, <1>0
      <3>2. block[k] \in 1 .. Len(env) /\ s >= Len(env)
        BY <3>1, <2>0, <2>2, <1>0, <1>2
      <3>3. scopeStack[k] <= Len(localVars) /\ scopeStack[k] \in Nat
        BY <2>0, <1>0, <1>2
      <3>4. ~(p <= scopeStack[k])
        BY <3>3, <2>5, <1>0
      <3>5. s \in Nat
        OBVIOUS
      <3> QED
        BY <3>2, <3>4, <3>5, <2>0
    <2> QED
      BY <2>4, <2>5
  <1> QED
    BY <1>3, <1>4 DEF StackInv

LEMMA EnteringKeepsStack ==
    ASSUME EnvInv, TableInv, EnterBlock
    PROVE  StackInv'
  <1>0. /\ Len(env) \in Nat /\ DOMAIN env = 1 .. Len(env)
        /\ TableTyped /\ StackInv /\ UNCHANGED localVars
        /\ Len(localVars) \in 0 .. MaxLocals
        /\ DOMAIN localVars = 1 .. Len(localVars)
        /\ Len(scopeStack) \in Nat /\ DOMAIN scopeStack = 1 .. Len(scopeStack)
        /\ \A k \in DOMAIN scopeStack : scopeStack[k] \in 0 .. MaxLocals
    BY EnvLength, TableLength, StackLength
       DEF EnvInv, TableInv, EnterBlock, EnterScope
  <1>1. PICK block : StackFits(block) /\ Divides(block)
    BY <1>0 DEF StackInv
  <1>2. /\ env' \in Seq(ScopeType) /\ Len(env') = Len(env) + 1
        /\ DOMAIN env' = 1 .. Len(env) + 1
        /\ \A s \in 1 .. Len(env) : env'[s] = env[s]
        /\ env'[Len(env) + 1].kind = "block" /\ env'[Len(env) + 1].decls = << >>
    BY <1>0, EnterBlockOpens DEF Opened, EnvInv
  <1>3. \A k \in DOMAIN scopeStack :
           /\ block[k] \in 1 .. Len(env) /\ env'[block[k]].kind = "block"
           /\ scopeStack[k] <= Len(localVars)
    BY <1>0, <1>1, <1>2 DEF StackFits
  <1>4. ASSUME NEW s \in DOMAIN env', NEW i \in DOMAIN env'[s].decls
        PROVE  s \in 1 .. Len(env) /\ env'[s] = env[s]
    BY <1>2
  <1>5. CASE Len(scopeStack) < MaxScopes
    <2> DEFINE n == Len(scopeStack)
               longer == [k \in 1 .. n + 1 |-> IF k = n + 1 THEN Len(env) + 1 ELSE block[k]]
    <2>0. PICK next : next = longer
      OBVIOUS
    <2>1. /\ scopeStack' = Append(scopeStack, Len(localVars))
          /\ scopeStack \in Seq(0 .. MaxLocals)
      BY <1>0, <1>5 DEF EnterBlock, EnterScope, StackInv
    <2>2. /\ scopeStack' \in Seq(0 .. MaxLocals) /\ Len(scopeStack') = n + 1
          /\ DOMAIN scopeStack' = 1 .. n + 1
          /\ \A k \in 1 .. n : scopeStack'[k] = scopeStack[k]
          /\ scopeStack'[n + 1] = Len(localVars)
      BY <2>1, <1>0
    <2>3. /\ n \in Nat /\ n < MaxScopes /\ DOMAIN scopeStack = 1 .. n
      BY <1>0, <1>5
    <2>4. /\ next[n + 1] = Len(env) + 1
          /\ \A k \in 1 .. n : next[k] = block[k]
      BY <2>0, <2>3
    <2>5. next \in [DOMAIN scopeStack' -> DOMAIN env']
      BY <2>0, <2>2, <2>3, <1>2, <1>3
    <2> HIDE DEF longer, n
    <2>6. ASSUME NEW k \in DOMAIN scopeStack'
          PROVE  k \in 1 .. n \/ k = n + 1
      BY <2>2, <2>3
    <2>7. StackFits(next)'
      <3>1. \A k \in DOMAIN scopeStack' : /\ env'[next[k]].kind = "block"
                                          /\ scopeStack'[k] <= Len(localVars)
        <4> SUFFICES ASSUME NEW k \in DOMAIN scopeStack'
                     PROVE  /\ env'[next[k]].kind = "block"
                            /\ scopeStack'[k] <= Len(localVars)
          OBVIOUS
        <4>1. CASE k = n + 1
          BY <4>1, <2>2, <2>4, <1>0, <1>2
        <4>2. CASE k \in 1 .. n
          BY <4>2, <2>2, <2>3, <2>4, <1>3
        <4> QED
          BY <4>1, <4>2, <2>6
      <3>2. \A j, k \in DOMAIN scopeStack' :
               j < k => next[j] < next[k] /\ scopeStack'[j] <= scopeStack'[k]
        <4> SUFFICES ASSUME NEW j \in DOMAIN scopeStack', NEW k \in DOMAIN scopeStack',
                            j < k
                     PROVE  next[j] < next[k] /\ scopeStack'[j] <= scopeStack'[k]
          OBVIOUS
        <4>1. j \in 1 .. n
          BY <2>2, <2>3
        <4>2. CASE k = n + 1
          BY <4>1, <4>2, <2>2, <2>3, <2>4, <1>0, <1>3
        <4>3. CASE k \in 1 .. n
          BY <4>1, <4>3, <2>2, <2>3, <2>4, <1>1 DEF StackFits
        <4> QED
          BY <4>2, <4>3, <2>6
      <3>3. ASSUME "deep" \notin Features, NEW s \in DOMAIN env', env'[s].kind = "block"
            PROVE  \E k \in DOMAIN scopeStack' : next[k] = s
        <4>1. CASE s = Len(env) + 1
          <5>1. n + 1 \in DOMAIN scopeStack'
            BY <2>2, <2>3
          <5> QED
            BY <4>1, <5>1, <2>4
        <4>2. CASE s \in DOMAIN env
          <5>1. PICK k \in DOMAIN scopeStack : block[k] = s
            BY <4>2, <3>3, <1>0, <1>1, <1>2 DEF StackFits
          <5>2. k \in DOMAIN scopeStack' /\ next[k] = s
            BY <5>1, <2>2, <2>3, <2>4
          <5> QED
            BY <5>2
        <4> QED
          BY <4>1, <4>2, <1>0, <1>2
      <3> QED
        BY <3>1, <3>2, <3>3, <2>5, <1>0 DEF StackFits
    <2>8. Divides(next)'
      <3> SUFFICES ASSUME NEW k \in DOMAIN scopeStack', NEW p \in DOMAIN localVars',
                          NEW s \in DOMAIN env', NEW i \in DOMAIN env'[s].decls,
                          env'[s].decls[i].id = localVars'[p].id
                   PROVE  p <= scopeStack'[k] <=> s < next[k]
        BY DEF Divides
      <3>1. /\ s \in 1 .. Len(env) /\ env'[s] = env[s]
            /\ p \in 1 .. Len(localVars) /\ localVars' = localVars
        BY <1>0, <1>4
      <3>2. CASE k = n + 1
        BY <3>1, <3>2, <2>2, <2>4, <1>0
      <3>3. CASE k \in 1 .. n
        <4>1. p <= scopeStack[k] <=> s < block[k]
          BY <3>1, <3>3, <2>3, <1>0, <1>1 DEF Divides
        <4> QED
          BY <4>1, <3>3, <2>2, <2>4
      <3> QED
        BY <3>2, <3>3, <2>6
    <2>9. Len(scopeStack') <= MaxScopes
      BY <2>2, <2>3
    <2> QED
      BY <2>2, <2>7, <2>8, <2>9 DEF StackInv
  <1>6. CASE ~(Len(scopeStack) < MaxScopes)
    <2>1. scopeStack' = scopeStack /\ "deep" \in Features
      BY <1>6 DEF EnterBlock, EnterScope
    <2>2. block \in [DOMAIN scopeStack -> DOMAIN env']
      BY <1>1, <1>2, <1>3 DEF StackFits
    <2>3. StackFits(block)'
      BY <2>1, <2>2, <1>0, <1>1, <1>3 DEF StackFits
    <2>4. Divides(block)'
      BY <2>1, <1>0, <1>1, <1>4 DEF Divides
    <2> QED
      BY <2>1, <2>3, <2>4, <1>0 DEF StackInv
  <1> QED
    BY <1>5, <1>6

LEMMA LeavingKeepsStack ==
    ASSUME EnvInv, TableInv, ExitBlock
    PROVE  StackInv'
  <1>0. /\ Len(env) \in Nat /\ DOMAIN env = 1 .. Len(env)
        /\ TableTyped /\ StackInv
        /\ Len(localVars) \in Nat /\ DOMAIN localVars = 1 .. Len(localVars)
        /\ Len(scopeStack) \in Nat /\ DOMAIN scopeStack = 1 .. Len(scopeStack)
        /\ Len(scopeStack) <= MaxScopes
        /\ \A k \in DOMAIN scopeStack : scopeStack[k] \in 0 .. MaxLocals
    BY EnvLength, TableLength, StackLength DEF EnvInv, TableInv, StackInv
  <1>1. PICK block : StackFits(block) /\ Divides(block)
    BY <1>0 DEF StackInv
  <1>2. /\ Len(env) > 1 /\ DOMAIN env' = 1 .. Len(env) - 1
        /\ \A s \in DOMAIN env' : env'[s] = env[s]
        /\ env[Len(env)].kind = "block"
    <2>1. Closed(1) /\ Len(env) > 1 /\ env[Len(env)].kind = "block"
      BY ExitCloses DEF ExitBlock, Current, Last
    <2> QED
      BY <2>1, <1>0 DEF Closed
  <1>3. CASE scopeStack = << >> /\ UNCHANGED <<localVars, scopeStack>>
    <2>1. "deep" \in Features
      <3>1. DOMAIN scopeStack = {} /\ Len(env) \in DOMAIN env
        BY <1>0, <1>2, <1>3
      <3> QED
        BY <3>1, <1>1, <1>2 DEF StackFits
    <2> DEFINE none == [k \in {} |-> 0]
    <2>2. DOMAIN scopeStack' = {} /\ none \in [DOMAIN scopeStack' -> DOMAIN env']
      BY <1>3
    <2> HIDE DEF none
    <2>3. StackFits(none)' /\ Divides(none)'
      BY <2>1, <2>2 DEF StackFits, Divides
    <2> QED
      BY <1>0, <1>3, <2>3 DEF StackInv
  <1>4. CASE CutBack
    <2> DEFINE n == Len(scopeStack)
               shorter == [k \in 1 .. n - 1 |-> block[k]]
    <2>0. PICK left : left = shorter
      OBVIOUS
    <2>1. /\ n \in Nat \ {0} /\ n \in DOMAIN scopeStack /\ DOMAIN scopeStack = 1 .. n
          /\ n <= MaxScopes
      BY <1>0, <1>4 DEF CutBack, StackInv
    <2>2. /\ scopeStack' \in Seq(0 .. MaxLocals) /\ DOMAIN scopeStack' = 1 .. n - 1
          /\ Len(scopeStack') = n - 1
          /\ \A k \in 1 .. n - 1 : scopeStack'[k] = scopeStack[k]
          /\ Len(localVars') = scopeStack[n] /\ Len(localVars') <= Len(localVars)
          /\ DOMAIN localVars' = 1 .. Len(localVars')
          /\ \A p \in DOMAIN localVars' : localVars'[p] = localVars[p]
      <3>1. /\ scopeStack' \in Seq(0 .. MaxLocals) /\ Len(scopeStack') = n - 1
            /\ localVars' \in Seq(VariableType)
            /\ \A k \in DOMAIN scopeStack' : scopeStack'[k] = scopeStack[k]
            /\ Len(localVars') = scopeStack[n] /\ Len(localVars') <= Len(localVars)
            /\ \A p \in DOMAIN localVars' : localVars'[p] = localVars[p]
        BY <1>4 DEF CutBack
      <3>2. /\ DOMAIN scopeStack' = 1 .. n - 1
            /\ DOMAIN localVars' = 1 .. Len(localVars')
        BY <3>1
      <3> QED
        BY <3>1, <3>2
    <2>3. DOMAIN localVars' \subseteq DOMAIN localVars
      BY <2>1, <2>2, <1>0
    <2>4. \A k \in 1 .. n - 1 : left[k] = block[k]
      BY <2>0
    <2>5. \A k \in 1 .. n - 1 : /\ block[k] \in DOMAIN env'
                                /\ env'[block[k]].kind = "block"
                                /\ scopeStack[k] <= scopeStack[n]
      <3> SUFFICES ASSUME NEW k \in 1 .. n - 1
                   PROVE  /\ block[k] \in DOMAIN env'
                          /\ env'[block[k]].kind = "block"
                          /\ scopeStack[k] <= scopeStack[n]
        OBVIOUS
      <3>1. k \in DOMAIN scopeStack /\ k < n
        BY <2>1
      <3>2. /\ block[k] < block[n] /\ scopeStack[k] <= scopeStack[n]
            /\ block[k] \in 1 .. Len(env) /\ block[n] \in 1 .. Len(env)
            /\ env[block[k]].kind = "block"
        BY <3>1, <2>1, <1>0, <1>1 DEF StackFits
      <3> QED
        BY <3>2, <1>0, <1>2
    <2>6. left \in [DOMAIN scopeStack' -> DOMAIN env']
      BY <2>0, <2>2, <2>5
    <2> HIDE DEF shorter, n
    <2>7. StackFits(left)'
      <3>1. \A k \in DOMAIN scopeStack' : /\ env'[left[k]].kind = "block"
                                          /\ scopeStack'[k] <= Len(localVars')
        BY <2>2, <2>4, <2>5
      <3>2. \A j, k \in DOMAIN scopeStack' :
               j < k => left[j] < left[k] /\ scopeStack'[j] <= scopeStack'[k]
        <4>1. \A k \in 1 .. n - 1 : k \in DOMAIN scopeStack
          BY <2>1
        <4> QED
          BY <4>1, <2>2, <2>4, <1>1 DEF StackFits
      <3>3. ASSUME "deep" \notin Features, NEW s \in DOMAIN env', env'[s].kind = "block"
            PROVE  \E k \in DOMAIN scopeStack' : left[k] = s
        <4>1. s \in DOMAIN env /\ env[s].kind = "block" /\ s # Len(env)
              /\ Len(env) \in DOMAIN env
          BY <3>3, <1>0, <1>2
        <4>2. PICK k \in DOMAIN scopeStack : block[k] = s
          BY <3>3, <4>1, <1>1 DEF StackFits
        <4>3. PICK l \in DOMAIN scopeStack : block[l] = Len(env)
          BY <3>3, <4>1, <1>1, <1>2 DEF StackFits
        <4>4. l = n
          <5>1. ~(l < n)
            <6>1. block[n] \in 1 .. Len(env)
              BY <2>1, <1>0, <1>1 DEF StackFits
            <6>2. l < n => block[l] < block[n]
              BY <2>1, <1>1 DEF StackFits
            <6> QED
              BY <6>1, <6>2, <4>3, <1>0
          <5> QED
            BY <5>1, <2>1
        <4>5. k \in 1 .. n - 1
          BY <4>1, <4>2, <4>3, <4>4, <2>1
        <4> QED
          BY <4>2, <4>5, <2>2, <2>4
      <3> QED
        BY <3>1, <3>2, <3>3, <2>6 DEF StackFits
    <2>8. Divides(left)'
      <3> SUFFICES ASSUME NEW k \in DOMAIN scopeStack', NEW p \in DOMAIN localVars',
                          NEW s \in DOMAIN env', NEW i \in DOMAIN env'[s].decls,
                          env'[s].decls[i].id = localVars'[p].id
                   PROVE  p <= scopeStack'[k] <=> s < left[k]
        BY DEF Divides
      <3>1. /\ k \in 1 .. n - 1 /\ k \in DOMAIN scopeStack
            /\ s \in DOMAIN env /\ env'[s] = env[s]
            /\ p \in DOMAIN localVars /\ localVars'[p] = localVars[p]
        BY <2>1, <2>2, <2>3, <1>0, <1>2
      <3>2. p <= scopeStack[k] <=> s < block[k]
        BY <3>1, <1>1 DEF Divides
      <3> QED
        BY <3>1, <3>2, <2>2, <2>4
    <2>9. Len(scopeStack') <= MaxScopes
      BY <2>1, <2>2
    <2> QED
      BY <2>2, <2>7, <2>8, <2>9 DEF StackInv
  <1>5. ExitScope
    BY DEF ExitBlock
  <1> QED
    BY <1>0, <1>3, <1>4, <1>5, ExitCutsBack

(* Scopes that are no blocks are left, and the table stays as it is.        *)
LEMMA ClosingKeepsStack ==
    ASSUME EnvInv, StackInv, UNCHANGED <<localVars, scopeStack>>,
           DOMAIN env' \subseteq DOMAIN env, \A s \in DOMAIN env' : env'[s] = env[s],
           \A s \in DOMAIN env : s \in DOMAIN env' \/ env[s].kind # "block"
    PROVE  StackInv'
  <1>1. PICK block : StackFits(block) /\ Divides(block)
    BY DEF StackInv
  <1>2. \A k \in DOMAIN scopeStack : /\ block[k] \in DOMAIN env'
                                     /\ env'[block[k]].kind = "block"
    BY <1>1 DEF StackFits
  <1>3. block \in [DOMAIN scopeStack' -> DOMAIN env']
    BY <1>1, <1>2 DEF StackFits
  <1>4. StackFits(block)'
    BY <1>1, <1>2, <1>3 DEF StackFits
  <1>5. Divides(block)'
    BY <1>1 DEF Divides
  <1> QED
    BY <1>4, <1>5 DEF StackInv

LEMMA StackStep ==
    ASSUME EnvInv, TableInv, [Next]_vars
    PROVE  StackInv'
  <1>0. /\ EnvTyped /\ TableTyped /\ FunctionFits /\ StackInv /\ KindsInPlace
        /\ Len(env) \in Nat /\ DOMAIN env = 1 .. Len(env)
        /\ Len(localVars) \in Nat
    BY EnvLength, TableLength DEF EnvInv, TableInv
  <1>1. CASE EnterBlock
    BY <1>1, EnteringKeepsStack
  <1>2. CASE ExitBlock
    BY <1>2, LeavingKeepsStack
  <1>3. CASE EnterBranch
    <2>1. /\ Grows /\ Opened("branch", << >>) /\ UNCHANGED <<localVars, scopeStack>>
      BY <1>0, <1>3, GrowingSteps, EnterBranchOpens DEF EnterBranch
    <2>2. /\ env' \in Seq(ScopeType)
          /\ \A s \in DOMAIN env' : s \in DOMAIN env \/ env'[s].kind # "block"
      BY <2>1, <1>0 DEF Opened
    <2> QED
      BY <2>1, <2>2, <1>0, GrowingKeepsStack
  <1>4. ASSUME NEW name \in VarNames, EnterFor(name) \/ Declare(name)
        PROVE  StackInv'
    <2>1. /\ Grows /\ GrownBy(NewVar(name)) /\ NewVar(name).id = declared + 1
          /\ Len(localVars) <= Len(localVars') /\ UNCHANGED scopeStack
      BY <1>0, <1>4, GrowingSteps, DeclaringGrows
    <2>2. /\ env' \in Seq(ScopeType)
          /\ \A s \in DOMAIN env' : s \in DOMAIN env \/ env'[s].kind # "block"
      <3>1. CASE EnterFor(name)
        BY <3>1, <1>0, EnterForOpens DEF Opened
      <3>2. CASE Declare(name)
        BY <3>2, <1>0, DeclareExtends DEF Extended
      <3> QED
        BY <1>4, <3>1, <3>2
    <2>3. /\ Len(localVars') \in Nat
          /\ \A p \in DOMAIN localVars' :
                \/ p \in DOMAIN localVars /\ localVars'[p] = localVars[p]
                \/ p = Len(localVars) + 1 /\ localVars'[p].id = declared + 1
      BY <2>1 DEF GrownBy
    <2> QED
      BY <2>1, <2>2, <2>3, <1>0, GrowingKeepsStack
  <1>5. ASSUME NEW name \in ProcNames, NEW params \in Parameters,
               BeginProc(name, params)
        PROVE  StackInv'
    <2>1. /\ UNCHANGED scopeStack /\ Len(env) = 1 /\ Len(env') = 3
          /\ env' \in Seq(ScopeType)
          /\ env'[1].kind = "program" /\ env'[2].kind = "params"
          /\ env'[3].kind = "proc"
      BY <1>5, BeginProcOpens, BeginRestarts DEF ProcOpened
    <2>2. DOMAIN env' = 1 .. 3
      BY <2>1
    <2>3. \A s \in DOMAIN env' : env'[s].kind # "block"
      BY <2>1, <2>2
    <2> QED
      BY <2>1, <2>3, <1>0, NoBlockOpen, EmptyStackFits
  <1>6. CASE ExitBranch \/ ExitFor
    <2>1. /\ Closed(1) /\ env[Len(env)].kind # "block"
          /\ UNCHANGED <<localVars, scopeStack>>
      <3>1. env[Len(env)].kind # "block" /\ UNCHANGED <<localVars, scopeStack>>
        BY <1>6 DEF ExitBranch, ExitFor, Current, Last, table
      <3> QED
        BY <3>1, <1>6, ExitCloses
    <2>2. /\ DOMAIN env' = 1 .. Len(env) - 1 /\ Len(env) >= 1
          /\ \A s \in DOMAIN env' : env'[s] = env[s]
      BY <2>1, <1>0 DEF Closed
    <2>3. \A s \in DOMAIN env : s \in DOMAIN env' \/ s = Len(env)
      BY <2>2, <1>0
    <2> QED
      BY <2>1, <2>2, <2>3, <1>0, ClosingKeepsStack
  <1>7. CASE EndProc
    <2>1. /\ Closed(2) /\ Len(env) = 3 /\ Inside
          /\ UNCHANGED <<localVars, scopeStack>>
      BY <1>7, EndProcCloses DEF EndProc
    <2>2. /\ DOMAIN env' = 1 .. 1 /\ DOMAIN env = 1 .. 3
          /\ \A s \in DOMAIN env' : env'[s] = env[s]
      BY <2>1, <1>0 DEF Closed
    <2>3. env[2].kind = "params" /\ env[3].kind = "proc"
      BY <2>1, <1>0 DEF Inside, KindsInPlace
    <2>4. \A s \in DOMAIN env : s \in DOMAIN env' \/ env[s].kind # "block"
      BY <2>2, <2>3
    <2> QED
      BY <2>1, <2>2, <2>4, <1>0, ClosingKeepsStack
  <1>8. CASE EndProgram
    <2>1. env' = << >> /\ Len(env) = 1 /\ UNCHANGED scopeStack
      BY <1>8, EndProgramCloses DEF EndProgram, table
    <2> QED
      BY <2>1, <1>0, NoBlockOpen, EmptyStackFits
  <1>9. CASE UNCHANGED <<env, table>>
    BY <1>0, <1>9, ClosingKeepsStack DEF table
  <1>10. ASSUME NEW name, Use(name) PROVE StackInv'
    BY <1>0, <1>10, ClosingKeepsStack DEF Use
  <1>11. CASE UNCHANGED vars
    BY <1>9, <1>11 DEF vars, walk
  <1> QED
    BY <1>1, <1>2, <1>3, <1>4, <1>5, <1>6, <1>7, <1>8, <1>10, <1>11
       DEF Next, Parameters

(***************************************************************************)
(* The types, and the blocks.                                              *)
(***************************************************************************)
CoreInv == EnvInv /\ CheckerTyped /\ TableInv

LEMMA CoreInit ==
    ASSUME Init
    PROVE  CoreInv
  <1>1. /\ EnvInv /\ CheckerTyped
        /\ localVars = << >> /\ scopeStack = << >> /\ currentFunction = NoFunction
    BY ReportsInit DEF Init, TableInit
  <1>2. /\ env = <<Scope("program", << >>)>>
        /\ Scope("program", << >>).kind = "program"
    BY DEF Init, Scope
  <1>3. Len(env) = 1 /\ DOMAIN env = {1} /\ env[1].kind = "program"
    BY <1>2
  <1>4. TableTyped
    <2>1. DOMAIN localVars = {} /\ localVars \in Seq(VariableType) /\ Len(localVars) = 0
      BY <1>1
    <2> QED
      BY <2>1 DEF TableTyped
  <1>5. FunctionFits
    BY <1>1, <1>3 DEF FunctionFits, Inside
  <1>6. StackInv
    <2> DEFINE block == [k \in {} |-> 0]
    <2>1. /\ DOMAIN scopeStack = {} /\ scopeStack \in Seq(0 .. MaxLocals)
          /\ Len(scopeStack) <= MaxScopes
      BY <1>1
    <2>2. block \in [DOMAIN scopeStack -> DOMAIN env]
      BY <2>1
    <2>3. \A s \in DOMAIN env : env[s].kind # "block"
      BY <1>3
    <2> HIDE DEF block
    <2>4. StackFits(block) /\ Divides(block)
      BY <2>1, <2>2, <2>3 DEF StackFits, Divides
    <2> QED
      BY <2>1, <2>4 DEF StackInv
  <1> QED
    BY <1>1, <1>4, <1>5, <1>6 DEF CoreInv, TableInv

LEMMA CoreStep ==
    ASSUME CoreInv, [Next]_vars
    PROVE  CoreInv'
BY EnvStep, CheckerTypedStep, TableTypedStep, FunctionStep, StackStep
   DEF CoreInv, TableInv

(* The table, the stack of saved counts and the lists of the checker keep   *)
(* their types and stay in their arrays, whatever the program               *)
(* (Xvr_LLVMFunctionEmitterAddLocalVar, EnterScope, ExitScope).             *)
THEOREM TypeCorrect == Spec => []TypeOK
  <1>1. CoreInv => TypeOK
    <2> SUFFICES ASSUME CoreInv PROVE TypeOK
      OBVIOUS
    <2>1. EnvTyped /\ CheckerTyped /\ TableTyped /\ FunctionFits /\ StackInv
      BY DEF CoreInv, EnvInv, TableInv
    <2>2. declared \in 0 .. MaxDecls /\ 1 .. declared \subseteq Ids
      BY <2>1 DEF EnvTyped, Ids
    <2>3. \A s \in ToSet(env) : s.kind \in Kinds
      BY <2>1, EnvLength DEF ToSet, ScopeType
    <2>4. read \subseteq Ids /\ loose \subseteq Ids
      BY <2>1, <2>2 DEF EnvTyped
    <2> QED
      BY <2>1, <2>2, <2>3, <2>4
         DEF TypeOK, EnvTyped, CheckerTyped, TableTyped, FunctionFits, StackInv,
             VariableType
  <1> QED
    BY <1>1, CoreInit, CoreStep, PTL DEF Spec

(* The counts on the stack are those of the blocks being emitted, innermost *)
(* last, each within the next and within the table, so that leaving a block *)
(* never brings back variables of an earlier one (EnterScope, ExitScope),   *)
(* as long as no more blocks are open than scope_stack has entries.         *)
THEOREM ScopeStackCorrect ==
    ASSUME "deep" \notin Features
    PROVE  Spec => []ScopeStackMatchesBlocks
  <1>1. CoreInv => ScopeStackMatchesBlocks
    <2> SUFFICES ASSUME CoreInv PROVE ScopeStackMatchesBlocks
      OBVIOUS
    <2>0. EnvTyped /\ TableTyped /\ StackInv
      BY DEF CoreInv, EnvInv, TableInv
    <2>1. PICK block : StackFits(block)
      BY <2>0 DEF StackInv
    <2> DEFINE n == Len(scopeStack)
               blocks == {i \in DOMAIN env : env[i].kind = "block"}
    <2>2. /\ n \in Nat /\ DOMAIN scopeStack = 1 .. n
          /\ DOMAIN env \subseteq Nat
          /\ \A k \in DOMAIN scopeStack : scopeStack[k] \in Nat
      BY <2>0, StackLength, EnvLength
    <2>3. block \in [1 .. n -> blocks]
      BY <2>1, <2>2 DEF StackFits
    <2>4. \A j, k \in 1 .. n : block[j] = block[k] => j = k
      <3>1. \A k \in 1 .. n : block[k] \in Nat
        BY <2>2, <2>3
      <3>2. \A j, k \in 1 .. n : j < k => block[j] < block[k]
        BY <2>1, <2>2 DEF StackFits
      <3> HIDE DEF n
      <3> QED
        BY <3>1, <3>2, <2>2
    <2>5. \A s \in blocks : \E k \in 1 .. n : block[k] = s
      BY <2>1, <2>2 DEF StackFits
    <2> HIDE DEF blocks, n
    <2>6. ExistsBijection(1 .. n, blocks)
      <3>1. block \in Bijection(1 .. n, blocks)
        BY <2>3, <2>4, <2>5 DEF Bijection, Injection, Surjection, IsInjective
      <3> QED
        BY <3>1 DEF ExistsBijection
    <2>7. n = Cardinality(blocks)
      BY <2>2, <2>6, FS_CountingElements
    <2>8. ASSUME NEW k \in DOMAIN scopeStack
          PROVE  /\ 0 <= scopeStack[k]
                 /\ scopeStack[k] <= IF k = n THEN Len(localVars) ELSE scopeStack[k + 1]
      <3>1. CASE k = n
        BY <3>1, <2>1, <2>2 DEF StackFits
      <3>2. CASE k # n
        <4>1. k + 1 \in DOMAIN scopeStack /\ k < k + 1
          BY <3>2, <2>2
        <4> QED
          BY <4>1, <3>2, <2>1, <2>2 DEF StackFits
      <3> QED
        BY <3>1, <3>2
    <2> QED
      BY <2>7, <2>8 DEF ScopeStackMatchesBlocks, blocks, n
  <1> QED
    BY <1>1, CoreInit, CoreStep, PTL DEF Spec

(***************************************************************************)
(* What the table holds is still open.                                     *)
(***************************************************************************)

\* The block that ends is the innermost one of the stack, and what the table
\* keeps of the open scopes' variables are those of the scopes that stay open.
ExitDivides ==
    /\ DOMAIN env' = 1 .. Len(env) - 1 /\ Len(env) \in Nat
    /\ \A s \in DOMAIN env' : s \in DOMAIN env /\ env'[s] = env[s]
    /\ \A p \in DOMAIN localVars' : p \in DOMAIN localVars /\ localVars'[p] = localVars[p]
    /\ \A p \in DOMAIN localVars, s \in DOMAIN env : \A i \in DOMAIN env[s].decls :
          env[s].decls[i].id = localVars[p].id =>
              (p \in DOMAIN localVars' <=> s \in DOMAIN env')

LEMMA ExitBlockDivides ==
    ASSUME "deep" \notin Features, EnvInv, TableInv, ExitBlock
    PROVE  ExitDivides
  <1>0. /\ Len(env) \in Nat /\ DOMAIN env = 1 .. Len(env)
        /\ TableTyped /\ StackInv
        /\ Len(localVars) \in Nat /\ DOMAIN localVars = 1 .. Len(localVars)
        /\ Len(scopeStack) \in Nat /\ DOMAIN scopeStack = 1 .. Len(scopeStack)
        /\ \A k \in DOMAIN scopeStack : scopeStack[k] \in Nat
    BY EnvLength, TableLength, StackLength DEF EnvInv, TableInv
  <1>1. PICK block : StackFits(block) /\ Divides(block)
    BY <1>0 DEF StackInv
  <1>2. /\ Len(env) > 1 /\ DOMAIN env' = 1 .. Len(env) - 1
        /\ \A s \in DOMAIN env' : env'[s] = env[s]
        /\ env[Len(env)].kind = "block"
    <2>1. Closed(1) /\ Len(env) > 1 /\ env[Len(env)].kind = "block"
      BY ExitCloses DEF ExitBlock, Current, Last
    <2> QED
      BY <2>1, <1>0 DEF Closed
  <1>3. PICK k \in DOMAIN scopeStack : block[k] = Len(env)
    <2>1. Len(env) \in DOMAIN env
      BY <1>0, <1>2
    <2> QED
      BY <2>1, <1>1, <1>2 DEF StackFits
  <1>4. k = Len(scopeStack)
    <2>1. ASSUME NEW l \in DOMAIN scopeStack, k < l PROVE FALSE
      <3>1. block[k] < block[l] /\ block[l] \in 1 .. Len(env)
        BY <2>1, <1>0, <1>1 DEF StackFits
      <3> QED
        BY <3>1, <1>0, <1>3
    <2>2. Len(scopeStack) \in DOMAIN scopeStack /\ (k = Len(scopeStack) \/ k < Len(scopeStack))
      BY <1>0
    <2> QED
      BY <2>1, <2>2
  <1>5. CutBack
    <2>1. scopeStack # << >> /\ ExitScope
      BY <1>0, <1>3 DEF ExitBlock
    <2> QED
      BY <2>1, <1>0, ExitCutsBack
  <1>6. /\ DOMAIN localVars' = 1 .. scopeStack[k] /\ DOMAIN localVars' \subseteq DOMAIN localVars
        /\ \A p \in DOMAIN localVars' : localVars'[p] = localVars[p]
    <2>1. /\ localVars' \in Seq(VariableType) /\ Len(localVars') = scopeStack[k]
          /\ scopeStack[k] <= Len(localVars) /\ scopeStack[k] \in Nat
          /\ \A p \in DOMAIN localVars' : localVars'[p] = localVars[p]
      BY <1>0, <1>4, <1>5 DEF CutBack
    <2>2. DOMAIN localVars' = 1 .. scopeStack[k]
      BY <2>1
    <2> QED
      BY <2>1, <2>2, <1>0
  <1>7. ASSUME NEW p \in DOMAIN localVars, NEW s \in DOMAIN env,
               NEW i \in DOMAIN env[s].decls, env[s].decls[i].id = localVars[p].id
        PROVE  p \in DOMAIN localVars' <=> s \in DOMAIN env'
    <2>1. p <= scopeStack[k] <=> s < Len(env)
      BY <1>1, <1>3, <1>7 DEF Divides
    <2>2. p \in 1 .. Len(localVars) /\ s \in 1 .. Len(env) /\ scopeStack[k] \in Nat
      BY <1>0
    <2> QED
      BY <2>1, <2>2, <1>2, <1>6
  <1> QED
    BY <1>0, <1>2, <1>6, <1>7 DEF ExitDivides

\* Declarations of a for or a branch are known to have no scope of the table.
LooseHeld ==
    \A s \in DOMAIN env : env[s].kind \in Loose =>
        \A i \in DOMAIN env[s].decls : env[s].decls[i].id \in loose

HoldsOpen ==
    \A p \in DOMAIN localVars :
        localVars[p].fn = currentFunction =>
            localVars[p].id \in loose \/ IsLive(localVars[p].id)

LEMMA HoldsOpenIff ==
    /\ TableHoldsOpenScopes <=> done \/ HoldsOpen
    /\ HoldsOpen' => TableHoldsOpenScopes'
  <1>1. TableHoldsOpenScopes <=> done \/ HoldsOpen
    <2>1. \A p \in DOMAIN localVars : localVars[p].id \in Live <=> IsLive(localVars[p].id)
      BY LiveIff
    <2> QED
      BY <2>1 DEF TableHoldsOpenScopes, HoldsOpen, ToSet
  <1>2. HoldsOpen' => TableHoldsOpenScopes'
    <2>1. \A p \in DOMAIN localVars' :
             localVars'[p].id \in Live' <=> IsLive(localVars[p].id)'
      BY LiveIff DEF IsLive
    <2> QED
      BY <2>1 DEF TableHoldsOpenScopes, HoldsOpen, ToSet
  <1> QED
    BY <1>1, <1>2

LEMMA GrowingLooseHeld ==
    ASSUME EnvInv, LooseHeld, Grows, loose \subseteq loose',
           \A s \in DOMAIN env' : \A i \in DOMAIN env'[s].decls :
              IsOld(s, i) \/ env'[s].kind \notin Loose \/ env'[s].decls[i].id \in loose'
    PROVE  LooseHeld'
BY DEF LooseHeld, Grows, Kept, IsOld

LEMMA LooseHeldStep ==
    ASSUME EnvInv, LooseHeld, [Next]_vars
    PROVE  LooseHeld'
  <1>0. EnvTyped /\ declared \in Nat /\ Len(env) \in Nat /\ DOMAIN env = 1 .. Len(env)
    BY EnvLength DEF EnvInv, EnvTyped
  <1>1. CASE EnterBlock \/ EnterBranch
    <2>1. declared' = declared /\ loose' = loose /\ Grows
      BY <1>0, <1>1, EnterBlockOpens, EnterBranchOpens, GrowingSteps
    <2>2. \A s \in DOMAIN env' : \A i \in DOMAIN env'[s].decls : IsOld(s, i)
      BY <2>1, <1>0 DEF Grows, NewBehind
    <2> QED
      BY <2>1, <2>2, GrowingLooseHeld
  <1>2. ASSUME NEW name \in VarNames, EnterFor(name) PROVE LooseHeld'
    <2>1. declared' = declared + 1 /\ loose' = loose \union {declared'} /\ Grows
      BY <1>0, <1>2, EnterForOpens, GrowingSteps
    <2>2. \A s \in DOMAIN env' : \A i \in DOMAIN env'[s].decls :
             IsOld(s, i) \/ env'[s].decls[i].id \in loose'
      BY <2>1, <1>0 DEF Grows, NewBehind
    <2> QED
      BY <2>1, <2>2, GrowingLooseHeld
  <1>3. ASSUME NEW name \in VarNames, Declare(name) PROVE LooseHeld'
    <2>1. /\ declared' = declared + 1 /\ Grows
          /\ loose' = IF Current.kind \in Loose THEN loose \union {declared'} ELSE loose
          /\ Extended(NamedId(name, declared + 1))
      BY <1>0, <1>3, DeclareExtends, GrowingSteps
    <2>2. /\ DOMAIN env' = 1 .. Len(env) /\ env'[Len(env)].kind = Current.kind
      BY <2>1, <1>0 DEF Extended, Current, Last
    <2>3. \A s \in DOMAIN env' : \A i \in DOMAIN env'[s].decls :
             IsOld(s, i) \/ (s = Len(env) /\ env'[s].decls[i].id = declared')
      <3> SUFFICES ASSUME NEW s \in DOMAIN env', NEW i \in DOMAIN env'[s].decls,
                          ~IsOld(s, i)
                   PROVE  s = Len(env) /\ env'[s].decls[i].id = declared'
        OBVIOUS
      <3>1. s >= Len(env) /\ env'[s].decls[i].id \in declared + 1 .. declared'
        BY <2>1 DEF Grows, NewBehind
      <3>2. s \in 1 .. Len(env)
        BY <2>2
      <3> QED
        BY <3>1, <3>2, <2>1, <1>0
    <2> QED
      BY <2>1, <2>2, <2>3, GrowingLooseHeld
  <1>4. ASSUME NEW name \in ProcNames, NEW params \in Parameters,
               BeginProc(name, params)
        PROVE  LooseHeld'
    <2>1. /\ env' \in Seq(ScopeType) /\ Len(env') = 3
          /\ env'[1].kind = "program" /\ env'[2].kind = "params"
          /\ env'[3].kind = "proc"
      BY <1>4, BeginProcOpens DEF ProcOpened
    <2>2. DOMAIN env' = 1 .. 3
      BY <2>1
    <2>3. \A s \in DOMAIN env' : env'[s].kind \notin Loose
      BY <2>1, <2>2 DEF Loose
    <2> QED
      BY <2>3 DEF LooseHeld
  <1>5. ASSUME NEW n, Closed(n), UNCHANGED loose, Len(env) - n \in Nat, n \in Nat
        PROVE  LooseHeld'
    <2>1. \A s \in DOMAIN env' : s \in DOMAIN env /\ env'[s] = env[s]
      BY <1>0, <1>5 DEF Closed
    <2> QED
      BY <2>1, <1>5 DEF LooseHeld
  <1>6. CASE ExitBlock \/ ExitBranch \/ ExitFor
    <2>1. Closed(1) /\ Len(env) - 1 \in Nat /\ UNCHANGED loose
      BY <1>0, <1>6, ExitCloses
    <2> QED
      BY <2>1, <1>5
  <1>7. CASE EndProc
    <2>1. Closed(2) /\ Len(env) - 2 \in Nat /\ UNCHANGED loose
      BY <1>7, EndProcCloses
    <2> QED
      BY <2>1, <1>5
  <1>8. CASE EndProgram
    <2>1. Closed(1) /\ Len(env) - 1 \in Nat /\ UNCHANGED loose
      BY <1>8, EndProgramCloses
    <2> QED
      BY <2>1, <1>5
  <1>9. ASSUME NEW name, Use(name) PROVE LooseHeld'
    BY <1>9 DEF Use, LooseHeld
  <1>10. CASE UNCHANGED vars
    BY <1>10 DEF vars, walk, LooseHeld
  <1> QED
    BY <1>1, <1>2, <1>3, <1>4, <1>6, <1>7, <1>8, <1>9, <1>10 DEF Next, Parameters

(* A node is emitted for the function its variables belong to.              *)
LEMMA FunctionKept ==
    ASSUME EnvInv, FunctionFits, EnsureMain
    PROVE  \A p \in DOMAIN localVars :
               localVars[p].fn = currentFunction' => localVars[p].fn = currentFunction
BY DEF FunctionFits, EnsureMain

LEMMA GrowingHoldsOpen ==
    ASSUME EnvInv, FunctionFits, HoldsOpen, EnsureMain, Grows, loose \subseteq loose',
           \A p \in DOMAIN localVars' :
              \/ p \in DOMAIN localVars /\ localVars'[p] = localVars[p]
              \/ \A x : x = localVars'[p].id => IsLive(x)'
    PROVE  HoldsOpen'
  <1>1. ASSUME NEW x, IsLive(x) PROVE IsLive(x)'
    BY <1>1 DEF IsLive, Grows, Kept
  <1>2. ASSUME NEW p \in DOMAIN localVars', localVars'[p].fn = currentFunction'
        PROVE  localVars'[p].id \in loose' \/ IsLive(localVars[p].id)'
    <2>1. PICK x : x = localVars'[p].id
      OBVIOUS
    <2>2. CASE p \in DOMAIN localVars /\ localVars'[p] = localVars[p]
      <3>1. x \in loose \/ IsLive(x)
        BY <2>1, <2>2, <1>2, FunctionKept DEF HoldsOpen
      <3>2. x \in loose' \/ IsLive(x)'
        BY <3>1, <1>1
      <3> QED
        BY <2>1, <3>2 DEF IsLive
    <2>3. CASE IsLive(x)'
      BY <2>1, <2>3 DEF IsLive
    <2> QED
      BY <2>1, <2>2, <2>3
  <1> QED
    BY <1>2 DEF HoldsOpen

LEMMA HoldsOpenStep ==
    ASSUME "deep" \notin Features, EnvInv, TableInv, LooseHeld, TableHoldsOpenScopes,
           [Next]_vars
    PROVE  TableHoldsOpenScopes'
  <1>0. /\ EnvTyped /\ TableTyped /\ FunctionFits /\ declared \in Nat
        /\ Len(env) \in Nat /\ DOMAIN env = 1 .. Len(env)
    BY EnvLength DEF EnvInv, EnvTyped, TableInv
  <1>1. ASSUME HoldsOpen' PROVE TableHoldsOpenScopes'
    BY <1>1, HoldsOpenIff
  <1>2. CASE EnterBlock \/ EnterBranch
    <2>1. /\ ~done /\ Grows /\ loose' = loose /\ EnsureMain /\ UNCHANGED localVars
      BY <1>0, <1>2, EnterBlockOpens, EnterBranchOpens, GrowingSteps
         DEF EnterBlock, EnterBranch, EnterScope
    <2> QED
      BY <2>1, <1>0, <1>1, HoldsOpenIff, GrowingHoldsOpen
  <1>3. ASSUME NEW name \in VarNames, EnterFor(name) \/ Declare(name)
        PROVE  TableHoldsOpenScopes'
    <2>1. /\ GrownBy(NewVar(name)) /\ NewVar(name).id = declared + 1
          /\ EnsureMain /\ ~done /\ Grows
          /\ \A x : x = declared + 1 => IsLive(x)'
      BY <1>0, <1>3, DeclaringGrows, GrowingSteps, NewIsLive
    <2>2. loose \subseteq loose'
      BY <1>0, <1>3, EnterForOpens, DeclareExtends
    <2>3. \A p \in DOMAIN localVars' :
              \/ p \in DOMAIN localVars /\ localVars'[p] = localVars[p]
              \/ \A x : x = localVars'[p].id => IsLive(x)'
      BY <2>1 DEF GrownBy
    <2> QED
      BY <2>1, <2>2, <2>3, <1>0, <1>1, HoldsOpenIff, GrowingHoldsOpen
  <1>4. ASSUME NEW name \in ProcNames, NEW params \in Parameters,
               BeginProc(name, params)
        PROVE  TableHoldsOpenScopes'
    <2>1. /\ Restarted(params) /\ \A x \in declared + 1 .. declared' : IsLive(x)'
          /\ declared' = declared + 1 + Len(params) /\ Len(params) \in 0 .. 1
      BY <1>4, BeginRestarts, NewIsLive, BeginProcOpens, ParameterFacts
    <2>2. ASSUME NEW p \in DOMAIN localVars' PROVE IsLive(localVars[p].id)'
      <3>1. p \in 1 .. Len(params) /\ localVars'[p].id = declared + 1 + p
        BY <2>1, ParamVarFields DEF Restarted
      <3>2. PICK x : x = localVars'[p].id
        OBVIOUS
      <3>3. x \in declared + 1 .. declared'
        BY <2>1, <3>1, <3>2, <1>0
      <3>4. IsLive(x)'
        BY <2>1, <3>3
      <3> QED
        BY <3>2, <3>4 DEF IsLive
    <2> QED
      BY <2>2, <1>1 DEF HoldsOpen
  <1>5. CASE ExitBlock
    <2>1. /\ ~done /\ UNCHANGED <<loose, currentFunction>> /\ ExitDivides
      BY <1>5, ExitBlockDivides, ExitCloses DEF ExitBlock
    <2>2. ASSUME NEW p \in DOMAIN localVars', localVars'[p].fn = currentFunction'
          PROVE  localVars'[p].id \in loose' \/ IsLive(localVars[p].id)'
      <3>1. /\ p \in DOMAIN localVars /\ localVars'[p] = localVars[p]
            /\ localVars[p].fn = currentFunction
        BY <2>1, <2>2 DEF ExitDivides
      <3>2. localVars[p].id \in loose \/ IsLive(localVars[p].id)
        BY <3>1, <2>1, HoldsOpenIff DEF HoldsOpen
      <3>3. ASSUME IsLive(localVars[p].id) PROVE IsLive(localVars[p].id)'
        <4>1. PICK s \in DOMAIN env :
                     \E i \in DOMAIN env[s].decls : env[s].decls[i].id = localVars[p].id
          BY <3>3 DEF IsLive
        <4>2. s \in DOMAIN env' /\ env'[s] = env[s]
          BY <4>1, <3>1, <2>1, <2>2 DEF ExitDivides
        <4> QED
          BY <4>1, <4>2, <3>1 DEF IsLive
      <3> QED
        BY <3>1, <3>2, <3>3, <2>1
    <2> QED
      BY <2>2, <1>1 DEF HoldsOpen
  <1>6. CASE ExitBranch \/ ExitFor
    <2>1. /\ ~done /\ UNCHANGED <<loose, localVars, currentFunction>>
          /\ Closed(1) /\ Len(env) > 1 /\ env[Len(env)].kind \in Loose
      <3>1. env[Len(env)].kind \in Loose /\ UNCHANGED <<localVars, currentFunction>>
        BY <1>6 DEF ExitBranch, ExitFor, Current, Last, Loose, table
      <3> QED
        BY <3>1, <1>6, ExitCloses
    <2>2. DOMAIN env' = 1 .. Len(env) - 1 /\ \A s \in DOMAIN env' : env'[s] = env[s]
      BY <2>1, <1>0 DEF Closed
    <2>3. ASSUME NEW x, IsLive(x) PROVE x \in loose \/ IsLive(x)'
      <3>1. PICK s \in DOMAIN env : \E i \in DOMAIN env[s].decls : env[s].decls[i].id = x
        BY <2>3 DEF IsLive
      <3>2. CASE s = Len(env)
        BY <3>1, <3>2, <2>1 DEF LooseHeld
      <3>3. CASE s # Len(env)
        <4>1. s \in DOMAIN env'
          BY <3>3, <2>2, <1>0
        <4> QED
          BY <3>1, <4>1, <2>2 DEF IsLive
      <3> QED
        BY <3>2, <3>3
    <2>4. ASSUME NEW p \in DOMAIN localVars', localVars'[p].fn = currentFunction'
          PROVE  localVars'[p].id \in loose' \/ IsLive(localVars[p].id)'
      <3>1. PICK x : x = localVars'[p].id
        OBVIOUS
      <3>2. x \in loose \/ IsLive(x)
        BY <3>1, <2>1, <2>4, HoldsOpenIff DEF HoldsOpen
      <3>3. x \in loose' \/ IsLive(x)'
        BY <3>2, <2>1, <2>3
      <3> QED
        BY <3>1, <3>3 DEF IsLive
    <2> QED
      BY <2>4, <1>1 DEF HoldsOpen
  <1>7. CASE EndProc
    <2>1. Inside /\ UNCHANGED localVars /\ currentFunction' = Main
      BY <1>7, EndProcCloses DEF EndProc
    <2>2. \A p \in DOMAIN localVars' : localVars'[p].fn # currentFunction'
      BY <2>1, <1>0 DEF FunctionFits, Ids, Main
    <2> QED
      BY <2>2, <1>1 DEF HoldsOpen
  <1>8. CASE EndProgram
    BY <1>8 DEF EndProgram, TableHoldsOpenScopes
  <1>9. ASSUME NEW name, Use(name) PROVE TableHoldsOpenScopes'
    <2>1. ~done /\ EnsureMain /\ UNCHANGED <<env, loose, localVars>>
      BY <1>9 DEF Use
    <2>2. HoldsOpen'
      <3>1. \A p \in DOMAIN localVars :
               localVars[p].fn = currentFunction' => localVars[p].fn = currentFunction
        BY <2>1, <1>0, FunctionKept
      <3> QED
        BY <3>1, <2>1, HoldsOpenIff DEF HoldsOpen, IsLive
    <2> QED
      BY <2>2, <1>1
  <1>10. CASE UNCHANGED vars
    BY <1>10 DEF vars, walk, table, TableHoldsOpenScopes, Live
  <1> QED
    BY <1>2, <1>3, <1>4, <1>5, <1>6, <1>7, <1>8, <1>9, <1>10 DEF Next, Parameters

(* Leaving a block removes the variables added in it: what the table holds  *)
(* for the function being emitted was declared in a scope that is still     *)
(* open, or in a for or a branch (ExitScope), as long as no more blocks are *)
(* open than scope_stack has entries.                                       *)
THEOREM OpenScopesCorrect ==
    ASSUME "deep" \notin Features
    PROVE  Spec => []TableHoldsOpenScopes
  <1> DEFINE Inv == CoreInv /\ LooseHeld /\ TableHoldsOpenScopes
  <1>1. Init => Inv
    <2> SUFFICES ASSUME Init PROVE Inv
      OBVIOUS
    <2>1. DOMAIN localVars = {} /\ env = <<Scope("program", << >>)>>
      BY DEF Init, TableInit
    <2>2. \A s \in DOMAIN env : env[s].kind = "program"
      BY <2>1 DEF Scope
    <2>3. LooseHeld
      BY <2>2 DEF LooseHeld, Loose
    <2> QED
      BY <2>1, <2>3, CoreInit DEF TableHoldsOpenScopes, ToSet
  <1>2. Inv /\ [Next]_vars => Inv'
    BY CoreStep, LooseHeldStep, HoldsOpenStep DEF CoreInv
  <1> HIDE DEF Inv
  <1> QED
    <2>1. Inv => TableHoldsOpenScopes
      BY DEF Inv
    <2> QED
      BY <1>1, <1>2, <2>1, PTL DEF Spec

(***************************************************************************)
(* What is visible is found.                                               *)
(***************************************************************************)

\* The scopes of the function being emitted, and its declarations of a name.
Own(s) == s = 1 => ~Inside

OwnPlace(s, i) == s \in DOMAIN env /\ i \in DOMAIN env[s].decls /\ Own(s)

\* Entry p of the table is the variable declared at place s, i.
Holds(p, s, i) ==
    /\ p \in DOMAIN localVars
    /\ localVars[p].id = env[s].decls[i].id /\ localVars[p].name = env[s].decls[i].name

\* A variable that can be named is in the table.
OwnHeld ==
    \A s, i : OwnPlace(s, i) /\ env[s].decls[i].name \in VarNames =>
        \E p : Holds(p, s, i)

\* The table finds none behind it but one that can be named.
LaterAreOwn ==
    \A s, i : OwnPlace(s, i) =>
        \A q \in DOMAIN localVars :
            /\ localVars[q].name = env[s].decls[i].name
            /\ localVars[q].id > env[s].decls[i].id
            => \E t, j : OwnPlace(t, j) /\ Holds(q, t, j)

\* A for or a branch shadows no variable that could be named outside it.
LooseNew ==
    \A s, t : s < t => \A i, j :
        OwnPlace(s, i) /\ OwnPlace(t, j) /\ env[t].kind \in Loose =>
            env[s].decls[i].name # env[t].decls[j].name

\* The procedures come before the variables of main.
OuterAreProcs ==
    Inside => \A i \in DOMAIN env[1].decls : env[1].decls[i].name \in ProcNames

FoundInv == OwnHeld /\ LaterAreOwn /\ LooseNew /\ OuterAreProcs

LEMMA VisibleIff ==
    ASSUME EnvInv
    PROVE  \A n : n \in Visible <=>
              n \in VarNames /\ \E s, i : OwnPlace(s, i) /\ env[s].decls[i].name = n
  <1>0. /\ EnvTyped /\ Len(env) \in Nat /\ DOMAIN env = 1 .. Len(env)
        /\ env \in Seq(ScopeType)
    BY EnvLength DEF EnvInv, EnvTyped
  <1>1. \A r : r \in ToSet(OwnScopes) <=> \E s \in DOMAIN env : Own(s) /\ r = env[s]
    <2>1. CASE Inside
      <3>1. OwnScopes = SubSeq(env, 2, Len(env)) /\ Len(env) >= 2
        BY <2>1, InProcIsInside DEF OwnScopes, Inside
      <3>2. \A s \in 2 .. Len(env) : env[s] \in ScopeType
        BY <1>0
      <3>3. /\ Len(OwnScopes) = Len(env) - 1 /\ OwnScopes \in Seq(ScopeType)
            /\ \A k \in 1 .. Len(env) - 1 : OwnScopes[k] = env[2 + k - 1]
        BY <3>1, <3>2, <1>0, SubSeqProperties
      <3>4. DOMAIN OwnScopes = 1 .. Len(env) - 1
        BY <3>3
      <3>5. ASSUME NEW r, r \in ToSet(OwnScopes)
            PROVE  \E s \in DOMAIN env : Own(s) /\ r = env[s]
        <4>1. PICK k \in 1 .. Len(env) - 1 : r = OwnScopes[k]
          BY <3>4, <3>5 DEF ToSet
        <4>2. r = env[k + 1] /\ k + 1 \in DOMAIN env /\ k + 1 # 1
          BY <4>1, <3>3, <1>0
        <4> QED
          BY <4>2 DEF Own
      <3>6. ASSUME NEW s \in DOMAIN env, Own(s) PROVE env[s] \in ToSet(OwnScopes)
        <4>1. s - 1 \in DOMAIN OwnScopes /\ 2 + (s - 1) - 1 = s
          BY <3>6, <3>4, <2>1, <1>0 DEF Own
        <4>2. OwnScopes[s - 1] = env[s]
          BY <4>1, <3>3, <3>4
        <4> QED
          BY <4>1, <4>2 DEF ToSet
      <3> QED
        BY <3>5, <3>6
    <2>2. CASE ~Inside
      BY <2>2, InProcIsInside DEF OwnScopes, ToSet, Own
    <2> QED
      BY <2>1, <2>2
  <1> QED
    BY <1>1 DEF Visible, OwnPlace

LEMMA LookupFindsLast ==
    ASSUME TableTyped, NEW name, NEW p \in DOMAIN localVars, localVars[p].name = name
    PROVE  \E q \in DOMAIN localVars :
              /\ localVars[q].name = name /\ LookupVar(name) = localVars[q].id
              /\ p <= q
  <1> DEFINE I == {q \in 1 .. Len(localVars) : localVars[q].name = name}
  <1>1. LookupVar(name) = LET q == IF I # {} THEN Max(I) ELSE 0
                          IN  IF q = 0 THEN NoVar ELSE localVars[q].id
    BY DEF LookupVar, SelectLastInSeq
  <1>2. /\ Len(localVars) \in Nat /\ DOMAIN localVars = 1 .. Len(localVars)
        /\ I \subseteq 1 .. Len(localVars) /\ p \in I
    BY TableLength
  <1> HIDE DEF I
  <1>3. I # {} /\ Max(I) \in I /\ \A q \in I : q <= Max(I)
    BY <1>2, LastPosition
  <1>4. PICK q : q = Max(I)
    OBVIOUS
  <1>5. q \in I /\ p <= q /\ q # 0
    BY <1>2, <1>3, <1>4
  <1>6. LookupVar(name) = localVars[q].id
    BY <1>1, <1>3, <1>4, <1>5
  <1> QED
    BY <1>5, <1>6, <1>2 DEF I

LEMMA FoundInvFinds ==
    ASSUME EnvInv, TableTyped, FoundInv, NEW n \in Visible
    PROVE  LookupVar(n) = Refers(n)
  <1>0. EnvTyped /\ DOMAIN env = 1 .. Len(env) /\ Len(env) \in Nat
    BY EnvLength DEF EnvInv
  <1>1. PICK s0, i0 : OwnPlace(s0, i0) /\ env[s0].decls[i0].name = n
    BY VisibleIff
  <1>2. PICK s \in DOMAIN env : \E i \in DOMAIN env[s].decls :
           /\ env[s].decls[i].name = n /\ Refers(n) = env[s].decls[i].id
           /\ \A t \in DOMAIN env : \A j \in DOMAIN env[t].decls :
                 env[t].decls[j].name = n => t < s \/ (t = s /\ j <= i)
    BY <1>0, <1>1, RefersToLast DEF OwnPlace
  <1>3. PICK i \in DOMAIN env[s].decls :
           /\ env[s].decls[i].name = n /\ Refers(n) = env[s].decls[i].id
           /\ \A t \in DOMAIN env : \A j \in DOMAIN env[t].decls :
                 env[t].decls[j].name = n => t < s \/ (t = s /\ j <= i)
    BY <1>2
  <1>4. OwnPlace(s, i)
    <2>1. s0 <= s /\ s0 \in 1 .. Len(env) /\ s \in 1 .. Len(env)
      BY <1>0, <1>1, <1>3 DEF OwnPlace
    <2>2. s = 1 => s0 = 1
      BY <2>1
    <2> QED
      BY <2>2, <1>1, <1>3 DEF OwnPlace, Own
  <1>5. PICK p : Holds(p, s, i)
    BY <1>3, <1>4, VisibleIff DEF FoundInv, OwnHeld
  <1>6. PICK q \in DOMAIN localVars :
           /\ localVars[q].name = n /\ LookupVar(n) = localVars[q].id /\ p <= q
    BY <1>3, <1>5, LookupFindsLast DEF Holds
  <1>7. CASE p = q
    BY <1>3, <1>5, <1>6, <1>7 DEF Holds
  <1>8. CASE p # q
    <2>1. p < q /\ p \in DOMAIN localVars
      BY <1>5, <1>6, <1>8, TableLength DEF Holds
    <2>2. localVars[q].id > env[s].decls[i].id
      BY <2>1, <1>5 DEF TableTyped, Holds
    <2>3. PICK t, j : OwnPlace(t, j) /\ Holds(q, t, j)
      BY <2>2, <1>3, <1>4, <1>6 DEF FoundInv, LaterAreOwn
    <2>4. /\ t \in DOMAIN env /\ j \in DOMAIN env[t].decls
          /\ env[t].decls[j].name = n /\ env[t].decls[j].id > env[s].decls[i].id
      BY <2>2, <2>3, <1>6 DEF OwnPlace, Holds
    <2>5. t < s \/ (t = s /\ j <= i)
      BY <2>4, <1>3
    <2>6. /\ i \in Nat /\ j \in Nat
          /\ env[s].decls[i].id \in Nat /\ env[t].decls[j].id \in Nat
      BY <2>4, <1>0, <1>3, EnvLength DEF EnvInv, IdsInOrder
    <2>7. env[t].decls[j].id <= env[s].decls[i].id
      <3>1. CASE t = s /\ j = i
        BY <3>1, <2>6
      <3>2. CASE t < s \/ (t = s /\ j < i)
        <4>1. env[t].decls[j].id < env[s].decls[i].id
          BY <3>2, <2>4 DEF EnvInv, IdsInOrder
        <4> QED
          BY <4>1, <2>4, <2>6
      <3> QED
        BY <3>1, <3>2, <2>5, <2>6
    <2> QED
      BY <2>4, <2>6, <2>7
  <1> QED
    BY <1>7, <1>8

(* A variable is declared, in a for or elsewhere: it is the last one of the *)
(* scopes and of the table.                                                *)
LEMMA DeclaringFound ==
    ASSUME EnvInv, TableTyped, FoundInv, Grows, Inside' <=> Inside,
           NEW name \in VarNames, NEW t \in DOMAIN env', NEW j \in DOMAIN env'[t].decls,
           ~IsOld(t, j), t # 1 \/ ~Inside, env'[t].decls[j].name = name,
           declared' = declared + 1, env' \in Seq(ScopeType),
           \A s \in DOMAIN env' : \A i \in DOMAIN env'[s].decls :
              IsOld(s, i) \/ (s = t /\ i = j),
           env'[t].kind \in Loose => name \notin Visible,
           NEW v, GrownBy(v), v.id = declared + 1, v.name = name,
           Len(localVars) < MaxLocals
    PROVE  FoundInv'
  <1> DEFINE n == Len(localVars)
  <1>0. /\ DOMAIN env = 1 .. Len(env) /\ Len(env) \in Nat /\ declared \in Nat
        /\ DOMAIN localVars = 1 .. n /\ n \in Nat
        /\ \A s : Own(s)' <=> Own(s)
    BY EnvLength, TableLength DEF EnvInv, EnvTyped, Own
  <1>1. env'[t].decls[j].id = declared + 1 /\ t >= Len(env) /\ t \in Nat
    <2>1. env'[t].decls[j].id \in declared + 1 .. declared' /\ t >= Len(env)
      BY DEF Grows, NewBehind
    <2> QED
      BY <2>1, <1>0
  <1>2. \A s, i : OwnPlace(s, i) =>
           /\ OwnPlace(s, i)' /\ env'[s].decls[i] = env[s].decls[i]
           /\ env'[s].kind = env[s].kind /\ env[s].decls[i].id <= declared
    BY <1>0 DEF OwnPlace, Grows, Kept, EnvInv, IdsInOrder
  <1>3. \A s, i : OwnPlace(s, i)' => OwnPlace(s, i) \/ (s = t /\ i = j)
    BY <1>0 DEF OwnPlace, IsOld
  <1>4. OwnPlace(t, j)'
    BY <1>0 DEF OwnPlace, Own
  <1>5. \A p, s, i : OwnPlace(s, i) /\ Holds(p, s, i) => Holds(p, s, i)'
    BY <1>2 DEF Holds, GrownBy
  <1>6. /\ n + 1 \in DOMAIN localVars' /\ localVars'[n + 1] = v
        /\ \A p \in DOMAIN localVars' :
              p = n + 1 \/ (p \in DOMAIN localVars /\ localVars'[p] = localVars[p])
    BY DEF GrownBy
  <1>7. \A p : p = n + 1 => Holds(p, t, j)'
    BY <1>1, <1>6 DEF Holds
  <1> HIDE DEF n
  <1>8. OwnHeld'
    <2> SUFFICES ASSUME NEW s, NEW i, OwnPlace(s, i)', env'[s].decls[i].name \in VarNames
                 PROVE  \E p : Holds(p, s, i)'
      BY DEF OwnHeld
    <2>1. CASE OwnPlace(s, i)
      <3>1. PICK p : Holds(p, s, i)
        BY <2>1, <1>2 DEF FoundInv, OwnHeld
      <3> QED
        BY <3>1, <2>1, <1>5
    <2>2. CASE s = t /\ i = j
      <3>1. PICK p : p = n + 1
        OBVIOUS
      <3> QED
        BY <3>1, <2>2, <1>7
    <2> QED
      BY <2>1, <2>2, <1>3
  <1>9. LaterAreOwn'
    <2> SUFFICES ASSUME NEW s, NEW i, OwnPlace(s, i)', NEW q \in DOMAIN localVars',
                        localVars'[q].name = env'[s].decls[i].name,
                        localVars'[q].id > env'[s].decls[i].id
                 PROVE  \E u, k : OwnPlace(u, k)' /\ Holds(q, u, k)'
      BY DEF LaterAreOwn
    <2>1. CASE q = n + 1
      BY <2>1, <1>4, <1>7
    <2>2. CASE q \in DOMAIN localVars /\ localVars'[q] = localVars[q]
      <3>1. localVars[q].id <= declared /\ localVars[q].id \in Nat
        BY <2>2, TableLength DEF TableTyped, VariableType, Ids
      <3>2. CASE OwnPlace(s, i)
        <4>1. PICK u, k : OwnPlace(u, k) /\ Holds(q, u, k)
          BY <2>2, <3>2, <1>2 DEF FoundInv, LaterAreOwn
        <4> QED
          BY <4>1, <1>2, <1>5
      <3>3. CASE s = t /\ i = j
        BY <3>1, <3>3, <2>2, <1>0, <1>1
      <3> QED
        BY <3>2, <3>3, <1>3
    <2> QED
      BY <2>1, <2>2, <1>6
  <1>10. LooseNew'
    <2> SUFFICES ASSUME NEW s, NEW u, s < u, NEW i, NEW k,
                        OwnPlace(s, i)', OwnPlace(u, k)', env'[u].kind \in Loose
                 PROVE  env'[s].decls[i].name # env'[u].decls[k].name
      BY DEF LooseNew
    <2>1. CASE OwnPlace(s, i) /\ OwnPlace(u, k)
      <3>1. env[u].kind \in Loose
        BY <2>1, <1>2
      <3>2. env[s].decls[i].name # env[u].decls[k].name
        BY <3>1, <2>1 DEF FoundInv, LooseNew
      <3> QED
        BY <3>2, <2>1, <1>2
    <2>2. CASE OwnPlace(s, i) /\ u = t /\ k = j
      <3>1. env[s].decls[i].name # name
        BY <2>2, VisibleIff
      <3> QED
        BY <3>1, <2>2, <1>2
    <2>3. CASE s = t /\ OwnPlace(u, k)
      <3>1. u \in 1 .. Len(env)
        BY <2>3, <1>0 DEF OwnPlace
      <3> QED
        BY <3>1, <2>3, <1>0, <1>1
    <2>4. CASE s = t /\ u = t
      BY <2>4, <1>1
    <2> QED
      BY <2>1, <2>2, <2>3, <2>4, <1>3
  <1>11. OuterAreProcs'
    <2> SUFFICES ASSUME Inside', NEW i \in DOMAIN env'[1].decls
                 PROVE  env'[1].decls[i].name \in ProcNames
      BY DEF OuterAreProcs
    <2>1. Inside /\ Len(env) >= 2 /\ 1 \in DOMAIN env /\ 1 # t /\ 1 \in DOMAIN env'
      BY <1>0, <1>1 DEF Inside, Grows, Kept
    <2>2. IsOld(1, i)
      BY <2>1
    <2> QED
      BY <2>1, <2>2 DEF FoundInv, OuterAreProcs, Grows, Kept, IsOld
  <1> QED
    BY <1>8, <1>9, <1>10, <1>11 DEF FoundInv

(* Nothing is declared: the table keeps the variables of the scopes that    *)
(* stay open, and no other that would be found for one of them.             *)
LEMMA StayingFound ==
    ASSUME FoundInv, OuterAreProcs',
           \A s, i : OwnPlace(s, i)' =>
              /\ OwnPlace(s, i) /\ env'[s].decls[i] = env[s].decls[i]
              /\ env'[s].kind = env[s].kind,
           \A p \in DOMAIN localVars' : p \in DOMAIN localVars /\ localVars'[p] = localVars[p],
           \A p, s, i : OwnPlace(s, i)' /\ Holds(p, s, i) => p \in DOMAIN localVars',
           \A q \in DOMAIN localVars' : \A s, i, t, j :
              /\ OwnPlace(s, i)' /\ localVars[q].name = env[s].decls[i].name
              /\ localVars[q].id > env[s].decls[i].id
              /\ OwnPlace(t, j) /\ Holds(q, t, j)
              => OwnPlace(t, j)'
    PROVE  FoundInv'
  <1>1. OwnHeld'
    <2> SUFFICES ASSUME NEW s, NEW i, OwnPlace(s, i)', env'[s].decls[i].name \in VarNames
                 PROVE  \E p : Holds(p, s, i)'
      BY DEF OwnHeld
    <2>1. PICK p : Holds(p, s, i)
      BY DEF FoundInv, OwnHeld
    <2> QED
      BY <2>1 DEF Holds
  <1>2. LaterAreOwn'
    <2> SUFFICES ASSUME NEW s, NEW i, OwnPlace(s, i)', NEW q \in DOMAIN localVars',
                        localVars'[q].name = env'[s].decls[i].name,
                        localVars'[q].id > env'[s].decls[i].id
                 PROVE  \E u, k : OwnPlace(u, k)' /\ Holds(q, u, k)'
      BY DEF LaterAreOwn
    <2>1. PICK u, k : OwnPlace(u, k) /\ Holds(q, u, k)
      BY DEF FoundInv, LaterAreOwn
    <2>2. OwnPlace(u, k)'
      BY <2>1
    <2> QED
      BY <2>1, <2>2 DEF Holds
  <1>3. LooseNew'
    <2> SUFFICES ASSUME NEW s, NEW u, s < u, NEW i, NEW k,
                        OwnPlace(s, i)', OwnPlace(u, k)', env'[u].kind \in Loose
                 PROVE  env'[s].decls[i].name # env'[u].decls[k].name
      BY DEF LooseNew
    <2>1. OwnPlace(s, i) /\ OwnPlace(u, k) /\ env[u].kind \in Loose
      OBVIOUS
    <2>2. env[s].decls[i].name # env[u].decls[k].name
      BY <2>1 DEF FoundInv, LooseNew
    <2> QED
      BY <2>2
  <1> QED
    BY <1>1, <1>2, <1>3 DEF FoundInv

Restricted == Features \intersect {"deep", "shadow", "many", "procAfterVars"} = {}

LEMMA DeclareFound ==
    ASSUME Restricted, EnvInv, TableInv, FoundInv, NEW name \in VarNames,
           EnterFor(name) \/ Declare(name)
    PROVE  FoundInv'
  <1>0. /\ EnvTyped /\ TableTyped /\ FunctionFits
        /\ DOMAIN env = 1 .. Len(env) /\ Len(env) \in Nat
    BY EnvLength DEF EnvInv, TableInv
  <1>1. /\ GrownBy(NewVar(name)) /\ NewVar(name).id = declared + 1
        /\ NewVar(name).name = name /\ declared' = declared + 1 /\ Grows
    BY <1>0, DeclaringGrows, GrowingSteps
  <1>2. Len(localVars) < MaxLocals
    BY DEF EnterFor, Declare, MayAddLocal, Restricted
  <1>3. CASE EnterFor(name)
    <2>1. /\ Opened("for", <<NamedId(name, declared + 1)>>) /\ ~done
          /\ name \notin Visible
      BY <1>0, <1>3, EnterForOpens DEF EnterFor, MayAddLocal, Restricted
    <2>2. /\ env' \in Seq(ScopeType) /\ DOMAIN env' = 1 .. Len(env) + 1
          /\ \A s \in DOMAIN env : env'[s] = env[s]
          /\ env'[Len(env) + 1].decls = <<NamedId(name, declared + 1)>>
      BY <2>1, <1>0 DEF Opened
    <2>3. Inside' <=> Inside
      BY <2>1, InsideStays DEF Kinds
    <2>4. PICK t : t = Len(env) + 1
      OBVIOUS
    <2>5. /\ t \in DOMAIN env' /\ t \notin DOMAIN env /\ t # 1
          /\ 1 \in DOMAIN env'[t].decls /\ env'[t].decls[1].name = name
      <3>1. Len(env) > 0
        BY <2>1, <1>0, EnvLength DEF EnvTyped
      <3> QED
        BY <3>1, <2>2, <2>4, <1>0 DEF NamedId
    <2>6. \A s \in DOMAIN env' : \A i \in DOMAIN env'[s].decls :
             IsOld(s, i) \/ (s = t /\ i = 1)
      BY <2>2, <2>4, <1>0 DEF IsOld
    <2>7. ~IsOld(t, 1)
      BY <2>5 DEF IsOld
    <2> QED
      BY <2>1, <2>2, <2>3, <2>5, <2>6, <2>7, <1>0, <1>1, <1>2, DeclaringFound
  <1>4. CASE Declare(name)
    <2>1. /\ Extended(NamedId(name, declared + 1)) /\ ~done
          /\ Current.kind \in Loose => name \notin Visible
      BY <1>0, <1>4, DeclareExtends DEF Declare, MayAddLocal, Restricted
    <2>2. /\ env' \in Seq(ScopeType) /\ DOMAIN env' = 1 .. Len(env) /\ Len(env) > 0
          /\ \A s \in DOMAIN env : s # Len(env) => env'[s] = env[s]
          /\ env'[Len(env)].kind = Current.kind
          /\ OneMore(env'[Len(env)].decls, env[Len(env)].decls,
                     NamedId(name, declared + 1))
          /\ Inside' <=> Inside
      BY <2>1, <1>0, InsideStays DEF Extended, Current, Last
    <2>3. PICK t, j : t = Len(env) /\ j = Len(env[t].decls) + 1
      OBVIOUS
    <2>4. /\ t \in DOMAIN env' /\ t \in DOMAIN env /\ Len(env[t].decls) \in Nat
          /\ DOMAIN env[t].decls = 1 .. Len(env[t].decls)
          /\ env'[t] \in ScopeType
      BY <2>2, <2>3, <1>0, EnvLength
    <2>5. env'[t].decls \in Seq(NameDecl)
      BY <2>4 DEF ScopeType
    <2>6. /\ DOMAIN env'[t].decls = 1 .. Len(env[t].decls) + 1
          /\ env'[t].decls[j].name = name /\ j \in DOMAIN env'[t].decls
          /\ j \notin DOMAIN env[t].decls
      BY <2>2, <2>3, <2>4, <2>5 DEF OneMore, NamedId
    <2>7. ~IsOld(t, j)
      BY <2>6 DEF IsOld
    <2>8. \A s \in DOMAIN env' : \A i \in DOMAIN env'[s].decls :
             IsOld(s, i) \/ (s = t /\ i = j)
      BY <2>2, <2>3, <2>4, <2>6, <1>0 DEF IsOld
    <2>9. t # 1 \/ ~Inside
      BY <2>3 DEF Inside
    <2>10. env'[t].kind \in Loose => name \notin Visible
      BY <2>1, <2>2, <2>3
    <2> QED
      BY <2>2, <2>4, <2>6, <2>7, <2>8, <2>9, <2>10, <1>0, <1>1, <1>2, DeclaringFound
  <1> QED
    BY <1>3, <1>4

LEMMA BeginProcFound ==
    ASSUME Restricted, EnvInv, TableInv, FoundInv, NEW name \in ProcNames,
           NEW params \in Parameters, BeginProc(name, params)
    PROVE  FoundInv'
  <1>1. /\ ProcOpened(NamedId(name, declared + 1), ParamDecls(params))
        /\ Restarted(params) /\ Inside' /\ DOMAIN params = 1 .. Len(params)
        /\ Len(params) \in Nat
    BY BeginProcOpens, BeginRestarts, InsideStays, ParameterFacts
  <1>2. /\ Len(env) = 1 /\ DOMAIN env' = {1, 2, 3} /\ env'[1] \in ScopeType
        /\ OneMore(env'[1].decls, env[1].decls, NamedId(name, declared + 1))
        /\ env'[2].kind = "params" /\ env'[2].decls = ParamDecls(params)
        /\ env'[3].decls = << >>
    <2>1. Len(env') = 3 /\ env' \in Seq(ScopeType)
      BY <1>1 DEF ProcOpened
    <2>2. DOMAIN env' = 1 .. 3 /\ 1 .. 3 = {1, 2, 3}
      BY <2>1
    <2>3. env'[1] \in ScopeType
      BY <2>1, <2>2
    <2> QED
      BY <1>1, <2>2, <2>3 DEF ProcOpened
  <1>3. \A s, i : OwnPlace(s, i)' => s = 2 /\ i \in 1 .. Len(params)
    <2>1. DOMAIN ParamDecls(params) = 1 .. Len(params)
      BY <1>1 DEF ParamDecls
    <2> QED
      BY <2>1, <1>1, <1>2 DEF OwnPlace, Own
  <1>4. ASSUME NEW i \in 1 .. Len(params)
        PROVE  OwnPlace(2, i)' /\ Holds(i, 2, i)'
    <2>1. /\ i \in DOMAIN ParamDecls(params)
          /\ ParamDecls(params)[i].name = params[i]
          /\ ParamDecls(params)[i].id = declared + 1 + i
      BY <1>1 DEF ParamDecls, NamedId
    <2>2. /\ localVars'[i].name = params[i] /\ localVars'[i].id = declared + 1 + i
          /\ i \in DOMAIN localVars'
      <3>1. localVars'[i] = ParamVar(params, i) /\ i \in DOMAIN localVars'
        BY <1>1 DEF Restarted
      <3> QED
        BY <3>1, ParamVarFields
    <2>3. 2 \in DOMAIN env' /\ 2 # 1
      BY <1>2
    <2> QED
      BY <2>1, <2>2, <2>3, <1>2 DEF OwnPlace, Own, Holds
  <1>5. OwnHeld'
    BY <1>3, <1>4 DEF OwnHeld
  <1>6. LaterAreOwn'
    <2>1. \A q \in DOMAIN localVars' : q \in 1 .. Len(params)
      BY <1>1 DEF Restarted
    <2> QED
      BY <2>1, <1>4 DEF LaterAreOwn
  <1>7. LooseNew'
    <2>1. env'[2].kind \notin Loose
      BY <1>2 DEF Loose
    <2> QED
      BY <2>1, <1>3 DEF LooseNew
  <1>8. OuterAreProcs'
    <2>1. /\ env'[1].decls \in Seq(NameDecl) /\ Len(env[1].decls) \in Nat
          /\ DOMAIN env[1].decls = 1 .. Len(env[1].decls)
      BY <1>2, EnvLength DEF EnvInv, ScopeType
    <2>2. \A i \in DOMAIN env[1].decls : env[1].decls[i].name \in ProcNames
      <3>1. \A d \in ToSet(env[1].decls) : d.name \in ProcNames
        BY <1>2 DEF BeginProc, Restricted, Current, Last
      <3> QED
        BY <3>1 DEF ToSet
    <2>3. DOMAIN env'[1].decls = 1 .. Len(env[1].decls) + 1
      BY <1>2, <2>1 DEF OneMore
    <2> QED
      BY <1>2, <2>1, <2>2, <2>3 DEF OneMore, NamedId, OuterAreProcs
  <1> QED
    BY <1>5, <1>6, <1>7, <1>8 DEF FoundInv

LEMMA FoundStep ==
    ASSUME Restricted, EnvInv, TableInv, FoundInv, [Next]_vars
    PROVE  FoundInv'
  <1>0. /\ EnvTyped /\ TableTyped /\ FunctionFits /\ KindsInPlace
        /\ DOMAIN env = 1 .. Len(env) /\ Len(env) \in Nat
    BY EnvLength DEF EnvInv, TableInv
  <1>1. CASE EnterBlock \/ EnterBranch
    <2>1. PICK kind \in {"block", "branch"} : Opened(kind, << >>)
      BY <1>0, <1>1, EnterBlockOpens, EnterBranchOpens
    <2>2. /\ Inside' <=> Inside
          /\ UNCHANGED localVars /\ ~done
      BY <2>1, <1>0, <1>1, InsideStays
         DEF Kinds, EnterBlock, EnterBranch, EnterScope, MayOpen
    <2>3. /\ DOMAIN env' = 1 .. Len(env) + 1 /\ Len(env) > 0
          /\ \A s \in DOMAIN env : env'[s] = env[s]
          /\ env'[Len(env) + 1].decls = << >>
      BY <2>1, <2>2, <1>0, EnvLength DEF Opened, EnvTyped
    <2>4. \A s, i : OwnPlace(s, i)' <=> OwnPlace(s, i)
      <3>1. \A s : Own(s)' <=> Own(s)
        BY <2>2 DEF Own
      <3>2. \A s, i : s \in DOMAIN env' /\ i \in DOMAIN env'[s].decls => s \in DOMAIN env
        BY <2>3, <1>0
      <3> QED
        BY <3>1, <3>2, <2>3, <1>0 DEF OwnPlace
    <2>5. OuterAreProcs'
      <3>1. 1 \in DOMAIN env /\ env'[1] = env[1]
        BY <2>3, <1>0
      <3> QED
        BY <3>1, <2>2 DEF FoundInv, OuterAreProcs
    <2>6. \A s, i : OwnPlace(s, i) =>
             env'[s].decls[i] = env[s].decls[i] /\ env'[s].kind = env[s].kind
      BY <2>3 DEF OwnPlace
    <2> QED
      BY <2>2, <2>4, <2>5, <2>6, StayingFound DEF Holds
  <1>2. ASSUME NEW name \in VarNames, EnterFor(name) \/ Declare(name) PROVE FoundInv'
    BY <1>2, DeclareFound
  <1>3. ASSUME NEW name \in ProcNames, NEW params \in Parameters,
               BeginProc(name, params)
        PROVE  FoundInv'
    BY <1>3, BeginProcFound
  <1>4. CASE ExitBlock \/ ExitBranch \/ ExitFor
    <2>1. /\ Closed(1) /\ Len(env) > 1 /\ env[Len(env)].kind # "params"
      BY <1>4, ExitCloses DEF Loose
    <2>2. /\ Inside' <=> Inside
          /\ DOMAIN env' = 1 .. Len(env) - 1
          /\ \A s \in DOMAIN env' : s \in DOMAIN env /\ env'[s] = env[s]
          /\ 1 \in DOMAIN env'
      BY <2>1, <1>0, InsideStays DEF Closed
    <2>3. \A s, i : OwnPlace(s, i)' <=> OwnPlace(s, i) /\ s \in DOMAIN env'
      BY <2>2 DEF OwnPlace, Own
    <2>4. \A s, i : OwnPlace(s, i)' =>
             env'[s].decls[i] = env[s].decls[i] /\ env'[s].kind = env[s].kind
      BY <2>2 DEF OwnPlace
    <2>5. OuterAreProcs'
      BY <2>2 DEF FoundInv, OuterAreProcs
    <2>6. CASE ExitBlock
      <3>1. ExitDivides
        BY <2>6, ExitBlockDivides DEF Restricted
      <3>2. \A p, s, i : OwnPlace(s, i) /\ Holds(p, s, i) =>
               (p \in DOMAIN localVars' <=> s \in DOMAIN env')
        BY <3>1 DEF ExitDivides, OwnPlace, Holds
      <3>3. \A p \in DOMAIN localVars' : p \in DOMAIN localVars /\ localVars'[p] = localVars[p]
        BY <3>1 DEF ExitDivides
      <3> QED
        BY <3>2, <3>3, <2>3, <2>4, <2>5, StayingFound
    <2>7. CASE ExitBranch \/ ExitFor
      <3>1. env[Len(env)].kind \in Loose /\ UNCHANGED localVars
        BY <2>7 DEF ExitBranch, ExitFor, Current, Last, Loose, table
      <3>2. ASSUME NEW q \in DOMAIN localVars', NEW s, NEW i, NEW t, NEW j,
                   OwnPlace(s, i)', localVars[q].name = env[s].decls[i].name,
                   OwnPlace(t, j), Holds(q, t, j)
            PROVE  t \in DOMAIN env'
        <4>1. SUFFICES ASSUME t \notin DOMAIN env' PROVE FALSE
          OBVIOUS
        <4>2. t = Len(env) /\ s < t
          BY <3>2, <4>1, <2>2, <2>3, <1>0 DEF OwnPlace
        <4>3. env[s].decls[i].name # env[t].decls[j].name
          BY <3>1, <3>2, <4>2, <2>3 DEF FoundInv, LooseNew
        <4> QED
          BY <3>2, <4>3 DEF Holds
      <3>3. \A p, s, i : Holds(p, s, i) => p \in DOMAIN localVars'
        BY <3>1 DEF Holds
      <3> QED
        BY <3>1, <3>2, <3>3, <2>3, <2>4, <2>5, StayingFound
    <2> QED
      BY <1>4, <2>6, <2>7
  <1>5. CASE EndProc
    <2>1. Closed(2) /\ Len(env) = 3 /\ Inside /\ UNCHANGED localVars
      BY <1>5, EndProcCloses DEF EndProc
    <2>2. /\ Len(env') = 1 /\ DOMAIN env' = {1} /\ env'[1] = env[1]
      <3>1. Len(env') = 1 /\ DOMAIN env' = 1 .. 1 /\ 1 .. 1 = {1}
        BY <2>1 DEF Closed
      <3> QED
        BY <3>1, <2>1 DEF Closed
    <2>3. \A s, i : OwnPlace(s, i)' => s = 1 /\ env'[s].decls[i].name \in ProcNames
      BY <2>1, <2>2 DEF OwnPlace, FoundInv, OuterAreProcs
    <2>4. \A q \in DOMAIN localVars' : localVars'[q].name \in VarNames
      BY <2>1, <1>0, TableLength DEF VariableType
    <2>5. OwnHeld' /\ LaterAreOwn' /\ LooseNew'
      BY <2>3, <2>4 DEF OwnHeld, LaterAreOwn, LooseNew
    <2>6. OuterAreProcs'
      BY <2>2 DEF OuterAreProcs, Inside
    <2> QED
      BY <2>5, <2>6 DEF FoundInv
  <1>6. CASE EndProgram
    <2>1. env' = << >>
      BY <1>6, EndProgramCloses
    <2>2. \A s, i : ~OwnPlace(s, i)'
      BY <2>1 DEF OwnPlace
    <2>3. ~Inside'
      BY <2>1 DEF Inside
    <2> QED
      BY <2>2, <2>3 DEF FoundInv, OwnHeld, LaterAreOwn, LooseNew, OuterAreProcs
  <1>7. CASE UNCHANGED <<env, localVars>>
    BY <1>7 DEF FoundInv, OwnHeld, LaterAreOwn, LooseNew, OuterAreProcs,
                OwnPlace, Own, Inside, Holds
  <1>8. ASSUME NEW name, Use(name) PROVE FoundInv'
    BY <1>7, <1>8 DEF Use
  <1>9. CASE UNCHANGED vars
    BY <1>7, <1>9 DEF vars, walk, table
  <1> QED
    BY <1>1, <1>2, <1>3, <1>4, <1>5, <1>6, <1>8, <1>9 DEF Next, Parameters

LEMMA FoundInit ==
    ASSUME Init
    PROVE  FoundInv
  <1>1. env = <<Scope("program", << >>)>>
    BY DEF Init
  <1>2. \A s, i : ~OwnPlace(s, i)
    BY <1>1 DEF OwnPlace, Scope
  <1>3. ~Inside
    BY <1>1 DEF Inside
  <1> QED
    BY <1>2, <1>3 DEF FoundInv, OwnHeld, LaterAreOwn, LooseNew, OuterAreProcs

(* What a program can name in the function being emitted, the code          *)
(* generator finds: the declaration that the language's scopes give,        *)
(* whatever blocks, loops and procedures came before (lookup_local_var,     *)
(* EnterScope, ExitScope).  The program keeps to what the table can tell    *)
(* apart: it nests no more blocks than scope_stack has entries, has no more *)
(* variables than fit, declares its procedures first, and shadows nothing   *)
(* in a for or a branch.                                                   *)
THEOREM VisibleCorrect ==
    ASSUME Features \intersect {"deep", "shadow", "many", "procAfterVars"} = {}
    PROVE  Spec => []VisibleVariablesAreFound
  <1> DEFINE Inv == CoreInv /\ FoundInv
  <1>1. Init => Inv
    BY CoreInit, FoundInit
  <1>2. Inv /\ [Next]_vars => Inv'
    BY CoreStep, FoundStep DEF CoreInv, Restricted
  <1>3. Inv => VisibleVariablesAreFound
    BY FoundInvFinds DEF VisibleVariablesAreFound, CoreInv, TableInv
  <1> HIDE DEF Inv
  <1> QED
    BY <1>1, <1>2, <1>3, PTL DEF Spec

(* Every use is compiled as the declaration it refers to, for the same      *)
(* programs if they name nothing that is not open: the table does not tell  *)
(* a name that nobody declared from one of an earlier procedure or loop.    *)
THEOREM UsesCorrect ==
    ASSUME Features \intersect
               {"deep", "shadow", "many", "procAfterVars", "undeclared"} = {}
    PROVE  Spec => []UsesResolveLexically
  <1> DEFINE Inv == CoreInv /\ FoundInv /\ misread = {}
  <1>0. Restricted /\ "undeclared" \notin Features
    BY DEF Restricted
  <1>1. Init => Inv
    BY CoreInit, FoundInit DEF Init
  <1>2. Inv /\ [Next]_vars => Inv'
    <2> SUFFICES ASSUME Inv, [Next]_vars PROVE Inv'
      OBVIOUS
    <2>1. CoreInv' /\ FoundInv'
      BY <1>0, CoreStep, FoundStep DEF CoreInv
    <2>2. ASSUME NEW name, Use(name) PROVE misread' = {}
      <3>1. CASE name \in ProcNames
        BY <2>2, <3>1 DEF Use
      <3>2. CASE name \notin ProcNames
        <4>1. name \in Visible
          BY <1>0, <2>2, <3>2 DEF Use
        <4>2. LookupVar(name) = Refers(name)
          BY <4>1, FoundInvFinds DEF CoreInv, TableInv
        <4> QED
          BY <2>2, <3>2, <4>2 DEF Use
      <3> QED
        BY <3>1, <3>2
    <2>3. misread' = {}
      BY <2>2 DEF Next, EnterBlock, ExitBlock, EnterBranch, ExitBranch, EnterFor, ExitFor,
                  BeginProc, EndProc, Declare, EndProgram, Open, Close, vars, walk
    <2> QED
      BY <2>1, <2>3
  <1>3. Inv => UsesResolveLexically
    BY DEF UsesResolveLexically
  <1> HIDE DEF Inv
  <1> QED
    BY <1>1, <1>2, <1>3, PTL DEF Spec
=============================================================================
