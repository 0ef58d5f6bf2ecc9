------------------------- MODULE NameResolutionProof -------------------------
(***************************************************************************)
(* Theorems about NameResolution, for any sets of names, sizes of the      *)
(* table and numbers of declarations.  Here: the lexical scopes, and that  *)
(* the unused checker reports exactly what no use refers to.  The symbol   *)
(* table is in SymbolTableProof.                                           *)
(*                                                                         *)
(* The lexical scopes env change in four ways: a scope is opened, scopes   *)
(* are closed, a declaration is added to the innermost scope, a procedure  *)
(* begins.  The first part says what each does to every place in env.      *)
(***************************************************************************)
EXTENDS NameResolution, NaturalFacts, SequenceTheorems

USE TableAssumption, ProgramAssumption

Names == VarNames \union ProcNames
NameDecl == [name : Names, id : Ids]
ScopeType == [kind : Kinds, decls : Seq(NameDecl)]
VariableType == [name : VarNames, id : Ids, fn : {Main} \union Ids]
DeclType == [name : Names, id : Ids, isFunction : BOOLEAN, used : BOOLEAN]

(***************************************************************************)
(* The lexical scopes.                                                     *)
(***************************************************************************)
EnvTyped ==
    /\ env \in Seq(ScopeType) /\ declared \in 0 .. MaxDecls
    /\ done \in BOOLEAN /\ (done <=> env = << >>)
    /\ read \subseteq 1 .. declared /\ loose \subseteq 1 .. declared

\* Declarations are numbered from the outermost scope inwards.
IdsInOrder ==
    /\ \A s \in DOMAIN env : \A i \in DOMAIN env[s].decls :
          env[s].decls[i].id \in 1 .. declared
    /\ \A s, t \in DOMAIN env :
          \A i \in DOMAIN env[s].decls, j \in DOMAIN env[t].decls :
              s < t \/ (s = t /\ i < j) => env[s].decls[i].id < env[t].decls[j].id

\* A procedure is the outermost construct, and has two scopes.
KindsInPlace ==
    /\ \A s \in DOMAIN env :
          /\ env[s].kind = "program" <=> s = 1
          /\ env[s].kind = "params" => s = 2
          /\ env[s].kind = "proc" => s = 3
    /\ Len(env) >= 2 =>
          (env[2].kind = "params" <=> Len(env) >= 3 /\ env[3].kind = "proc")

Inside == Len(env) >= 2 /\ env[2].kind = "params"

EnvInv == EnvTyped /\ IdsInOrder /\ KindsInPlace

(* The ways env changes. *)
Opened(kind, decls) ==
    /\ env' \in Seq(ScopeType) /\ Len(env') = Len(env) + 1
    /\ \A s \in DOMAIN env : env'[s] = env[s]
    /\ env'[Len(env) + 1].kind = kind /\ env'[Len(env) + 1].decls = decls

Closed(n) ==
    /\ env' \in Seq(ScopeType) /\ Len(env') = Len(env) - n /\ Len(env) >= n
    /\ \A s \in DOMAIN env' : env'[s] = env[s]

\* The declarations of a scope, with one more.
OneMore(after, before, d) ==
    /\ Len(after) = Len(before) + 1
    /\ \A i \in DOMAIN before : after[i] = before[i]
    /\ after[Len(before) + 1] = d

Extended(d) ==
    /\ env' \in Seq(ScopeType) /\ Len(env') = Len(env) /\ Len(env) > 0
    /\ \A s \in DOMAIN env : s # Len(env) => env'[s] = env[s]
    /\ env'[Len(env)].kind = env[Len(env)].kind
    /\ OneMore(env'[Len(env)].decls, env[Len(env)].decls, d)

ProcOpened(d, params) ==
    /\ env' \in Seq(ScopeType) /\ Len(env) = 1 /\ Len(env') = 3
    /\ env'[1].kind = "program" /\ OneMore(env'[1].decls, env[1].decls, d)
    /\ env'[2].kind = "params" /\ env'[2].decls = params
    /\ env'[3].kind = "proc" /\ env'[3].decls = << >>

NamedId(name, id) == [name |-> name, id |-> id]

LEMMA EnvLength ==
    ASSUME EnvTyped
    PROVE  /\ Len(env) \in Nat /\ DOMAIN env = 1 .. Len(env)
           /\ env # << >> <=> Len(env) > 0
           /\ \A s \in DOMAIN env : /\ env[s] \in ScopeType
                                    /\ env[s].decls \in Seq(NameDecl)
                                    /\ Len(env[s].decls) \in Nat
                                    /\ DOMAIN env[s].decls = 1 .. Len(env[s].decls)
  <1>1. /\ env \in Seq(ScopeType) /\ Len(env) \in Nat /\ DOMAIN env = 1 .. Len(env)
        /\ env # << >> <=> Len(env) > 0
    BY DEF EnvTyped
  <1>2. \A s \in DOMAIN env : env[s] \in ScopeType
    BY <1>1
  <1>3. \A r \in ScopeType : r.decls \in Seq(NameDecl)
    BY DEF ScopeType
  <1>4. \A r \in Seq(NameDecl) : Len(r) \in Nat /\ DOMAIN r = 1 .. Len(r)
    OBVIOUS
  <1> QED
    BY <1>1, <1>2, <1>3, <1>4

LEMMA OpenOpens ==
    ASSUME EnvTyped, NEW kind \in Kinds, NEW decls \in Seq(NameDecl),
           Open(Scope(kind, decls))
    PROVE  Opened(kind, decls)
BY EnvLength DEF EnvTyped, Open, Opened, Scope, ScopeType

LEMMA CloseCloses ==
    ASSUME EnvTyped, NEW n \in Nat, n <= Len(env), Close(n)
    PROVE  Closed(n)
  <1>1. /\ \A s \in 1 .. Len(env) - n : env[s] \in ScopeType
        /\ Len(env) \in Nat
    BY EnvLength
  <1>2. /\ env' \in Seq(ScopeType) /\ Len(env') = Len(env) - n
        /\ \A s \in 1 .. Len(env) - n : env'[s] = env[s]
    BY <1>1, SubSeqProperties DEF Close
  <1>3. DOMAIN env' = 1 .. Len(env')
    BY <1>2
  <1> QED
    BY <1>1, <1>2, <1>3 DEF Closed

LEMMA OneMoreAppended ==
    ASSUME NEW before \in Seq(NameDecl), NEW d \in NameDecl
    PROVE  /\ Append(before, d) \in Seq(NameDecl)
           /\ OneMore(Append(before, d), before, d)
BY DEF OneMore

(* The id of a new declaration. *)
LEMMA NewDecl ==
    ASSUME EnvTyped, NEW name \in Names, NEW k \in Nat, k > 0,
           declared + k <= MaxDecls
    PROVE  NamedId(name, declared + k) \in NameDecl /\ declared + k \in Ids
BY DEF EnvTyped, NameDecl, NamedId, Ids

LEMMA EnterBlockOpens ==
    ASSUME EnvTyped, EnterBlock
    PROVE  /\ Opened("block", << >>) /\ ~done /\ UNCHANGED done
           /\ UNCHANGED <<read, loose, declared>>
  <1>1. "block" \in Kinds /\ << >> \in Seq(NameDecl)
    BY DEF Kinds
  <1> QED
    BY <1>1, OpenOpens DEF EnterBlock, MayOpen, Open

LEMMA EnterBranchOpens ==
    ASSUME EnvTyped, EnterBranch
    PROVE  /\ Opened("branch", << >>) /\ ~done /\ UNCHANGED done
           /\ UNCHANGED <<read, loose, declared>>
  <1>1. "branch" \in Kinds /\ << >> \in Seq(NameDecl)
    BY DEF Kinds
  <1> QED
    BY <1>1, OpenOpens DEF EnterBranch, MayOpen, Open

LEMMA EnterForOpens ==
    ASSUME EnvTyped, NEW name \in VarNames, EnterFor(name)
    PROVE  /\ Opened("for", <<NamedId(name, declared + 1)>>) /\ ~done /\ UNCHANGED done
           /\ declared' = declared + 1 /\ declared' \in Ids
           /\ loose' = loose \union {declared'} /\ UNCHANGED read
  <1>1. "for" \in Kinds
    BY DEF Kinds
  <1>2. declared + 1 <= MaxDecls
    <2>1. Len(<<name>>) = 1
      OBVIOUS
    <2> QED
      BY <2>1 DEF EnterFor, MayDeclare
  <1>3. /\ NamedId(name, declared + 1) \in NameDecl /\ declared + 1 \in Ids
        /\ <<NamedId(name, declared + 1)>> \in Seq(NameDecl)
    BY <1>2, NewDecl DEF Names
  <1> QED
    BY <1>1, <1>3, OpenOpens DEF EnterFor, MayOpen, Open, NamedId

LEMMA DeclareExtends ==
    ASSUME EnvTyped, NEW name \in VarNames, Declare(name)
    PROVE  /\ Extended(NamedId(name, declared + 1)) /\ ~done /\ UNCHANGED done
           /\ declared' = declared + 1 /\ declared' \in Ids
           /\ loose' = IF Current.kind \in Loose THEN loose \union {declared'}
                       ELSE loose
           /\ UNCHANGED read
  <1> DEFINE d == NamedId(name, declared + 1)
  <1>1. declared + 1 <= MaxDecls
    <2>1. Len(<<name>>) = 1
      OBVIOUS
    <2> QED
      BY <2>1 DEF Declare, MayDeclare
  <1>2. d \in NameDecl /\ declared + 1 \in Ids
    BY <1>1, NewDecl DEF Names
  <1>3. ~done /\ Len(env) > 0 /\ Len(env) \in DOMAIN env
    BY EnvLength DEF Declare, MayDeclare, EnvTyped
  <1>4. env' = [env EXCEPT ![Len(env)].decls = Append(@, d)]
    BY DEF Declare, NamedId
  <1> HIDE DEF d
  <1>5. /\ env[Len(env)].decls \in Seq(NameDecl)
        /\ OneMore(Append(env[Len(env)].decls, d), env[Len(env)].decls, d)
        /\ Append(env[Len(env)].decls, d) \in Seq(NameDecl)
    BY <1>2, <1>3, EnvLength, OneMoreAppended
  <1> DEFINE last == env[Len(env)]
             extended == [last EXCEPT !.decls = Append(@, d)]
  <1>6. /\ env' = [env EXCEPT ![Len(env)] = extended] /\ extended \in ScopeType
        /\ extended.kind = last.kind /\ extended.decls = Append(last.decls, d)
    <2>1. last \in ScopeType
      BY <1>3, EnvLength
    <2> HIDE DEF last
    <2>2. /\ extended \in ScopeType /\ extended.kind = last.kind
          /\ extended.decls = Append(last.decls, d)
      BY <2>1, <1>5 DEF ScopeType, last
    <2> QED
      BY <2>2, <1>4 DEF last
  <1> HIDE DEF extended
  <1>7. /\ env' \in Seq(ScopeType) /\ Len(env') = Len(env)
        /\ \A s \in DOMAIN env : s # Len(env) => env'[s] = env[s]
        /\ env'[Len(env)].kind = env[Len(env)].kind
        /\ env'[Len(env)].decls = Append(env[Len(env)].decls, d)
    BY <1>3, <1>5, <1>6, EnvLength, ExceptSeq DEF EnvTyped, ScopeType
  <1>8. Extended(d)
    BY <1>3, <1>5, <1>7 DEF Extended
  <1> QED
    BY <1>2, <1>3, <1>8 DEF Declare, d

(* A procedure with at most one parameter, as in Next. *)
Parameters == {<< >>} \union {<<n>> : n \in VarNames}
ParamDecls(params) == [i \in DOMAIN params |-> NamedId(params[i], declared + 1 + i)]

LEMMA ParameterFacts ==
    ASSUME NEW params \in Parameters
    PROVE  /\ Len(params) \in 0 .. 1 /\ DOMAIN params = 1 .. Len(params)
           /\ \A i \in DOMAIN params : params[i] \in VarNames
           /\ params \in Seq(VarNames)
  <1>1. CASE params = << >>
    BY <1>1
  <1>2. ASSUME NEW n \in VarNames, params = <<n>>
        PROVE  /\ Len(params) \in 0 .. 1 /\ DOMAIN params = 1 .. Len(params)
               /\ \A i \in DOMAIN params : params[i] \in VarNames
               /\ params \in Seq(VarNames)
    BY <1>2
  <1> QED
    BY <1>1, <1>2 DEF Parameters

LEMMA BeginProcOpens ==
    ASSUME EnvInv, NEW name \in ProcNames, NEW params \in Parameters,
           BeginProc(name, params)
    PROVE  /\ ProcOpened(NamedId(name, declared + 1), ParamDecls(params))
           /\ ParamDecls(params) \in Seq(NameDecl)
           /\ Len(ParamDecls(params)) = Len(params)
           /\ ~done /\ UNCHANGED done /\ declared + 1 \in Ids
           /\ declared' = declared + 1 + Len(params) /\ declared' \in Ids
           /\ UNCHANGED <<read, loose>>
  <1> DEFINE d == NamedId(name, declared + 1)
             ps == ParamDecls(params)
  <1>0. EnvTyped /\ KindsInPlace /\ declared \in Nat
    BY DEF EnvInv, EnvTyped
  <1>1. declared + 1 + Len(params) <= MaxDecls
    <2>1. Len(<<name>> \o params) = 1 + Len(params)
      BY ParameterFacts
    <2> QED
      BY <2>1, <1>0, ParameterFacts DEF BeginProc, MayDeclare
  <1>2. d \in NameDecl /\ declared + 1 \in Ids /\ declared + 1 + Len(params) \in Ids
    BY <1>0, <1>1, NewDecl, ParameterFacts DEF Names, Ids
  <1>3. ps \in Seq(NameDecl) /\ Len(ps) = Len(params)
    <2>1. \A i \in DOMAIN params :
             /\ NamedId(params[i], declared + (1 + i)) \in NameDecl
             /\ declared + (1 + i) = declared + 1 + i
      BY <1>0, <1>1, NewDecl, ParameterFacts DEF Names
    <2>2. \A i \in 1 .. Len(params) : NamedId(params[i], declared + 1 + i) \in NameDecl
      BY <2>1, ParameterFacts
    <2> QED
      BY <2>2, ParameterFacts DEF ParamDecls
  <1>4. /\ ~done /\ Len(env) = 1 /\ DOMAIN env = {1} /\ env[1].kind = "program"
        /\ Current = env[1] /\ env[1].decls \in Seq(NameDecl)
    BY <1>0, EnvLength DEF BeginProc, MayOpen, KindsInPlace, Current, Last
  <1>5. OneMore(Append(env[1].decls, d), env[1].decls, d)
        /\ Append(env[1].decls, d) \in Seq(NameDecl)
    BY <1>2, <1>4, OneMoreAppended
  <1>6. env' = << Scope("program", Append(env[1].decls, d)), Scope("params", ps),
                  Scope("proc", << >>) >>
    BY <1>4 DEF BeginProc, NamedId, ParamDecls
  <1> HIDE DEF d, ps
  <1>7. /\ Scope("program", Append(env[1].decls, d)) \in ScopeType
        /\ Scope("params", ps) \in ScopeType /\ Scope("proc", << >>) \in ScopeType
    BY <1>3, <1>5 DEF Scope, ScopeType, Kinds
  <1>8. /\ env' \in Seq(ScopeType) /\ Len(env') = 3
        /\ env'[1] = Scope("program", Append(env[1].decls, d))
        /\ env'[2] = Scope("params", ps) /\ env'[3] = Scope("proc", << >>)
    BY <1>6, <1>7
  <1>9. ProcOpened(d, ps)
    BY <1>4, <1>5, <1>8 DEF ProcOpened, Scope
  <1> QED
    BY <1>0, <1>2, <1>3, <1>4, <1>9 DEF BeginProc, d, ps

(* Leaving the innermost scope, or the two of a procedure. *)
LEMMA ExitCloses ==
    ASSUME EnvInv, ExitBlock \/ ExitBranch \/ ExitFor
    PROVE  /\ Closed(1) /\ Len(env) > 1 /\ ~done /\ UNCHANGED done
           /\ env[Len(env)].kind \in {"block"} \union Loose
           /\ UNCHANGED <<read, loose, declared>>
  <1>1. /\ ~done /\ env[Len(env)].kind \in {"block"} \union Loose
        /\ Close(1)
    BY DEF ExitBlock, ExitBranch, ExitFor, Current, Last, Loose
  <1>2. EnvTyped /\ KindsInPlace
    BY DEF EnvInv
  <1>3. Len(env) > 0 /\ Len(env) \in DOMAIN env
    BY <1>1, <1>2, EnvLength DEF EnvTyped
  <1>4. env[Len(env)].kind # "program"
    BY <1>1 DEF Loose
  <1>5. Len(env) # 1
    BY <1>3, <1>4, <1>2 DEF KindsInPlace
  <1>6. Closed(1)
    BY <1>1, <1>2, <1>3, CloseCloses, EnvLength
  <1> QED
    BY <1>1, <1>2, <1>3, <1>5, <1>6, EnvLength DEF Close

LEMMA EndProcCloses ==
    ASSUME EnvInv, EndProc
    PROVE  /\ Closed(2) /\ Len(env) = 3 /\ Inside /\ ~done /\ UNCHANGED done
           /\ UNCHANGED <<read, loose, declared>>
  <1>1. ~done /\ env[Len(env)].kind = "proc" /\ Close(2) /\ EnvTyped /\ KindsInPlace
    BY DEF EndProc, Current, Last, EnvInv
  <1>2. Len(env) > 0 /\ Len(env) \in DOMAIN env
    BY <1>1, EnvLength DEF EnvTyped
  <1>3. Len(env) = 3 /\ Inside
    BY <1>1, <1>2, EnvLength DEF KindsInPlace, Inside
  <1>4. Closed(2)
    BY <1>1, <1>3, CloseCloses
  <1> QED
    BY <1>1, <1>3, <1>4 DEF Close

LEMMA EndProgramCloses ==
    ASSUME EnvInv, EndProgram
    PROVE  /\ Closed(1) /\ Len(env) = 1 /\ ~done /\ done' /\ env' = << >>
           /\ UNCHANGED <<read, loose, declared>>
BY EnvLength DEF EndProgram, EnvInv, EnvTyped, Closed

(* Scopes and declarations are only added, behind those there are.          *)
IsOld(s, i) == s \in DOMAIN env /\ i \in DOMAIN env[s].decls

Kept ==
    \A s \in DOMAIN env :
        /\ s \in DOMAIN env' /\ env'[s].kind = env[s].kind
        /\ \A i \in DOMAIN env[s].decls :
              i \in DOMAIN env'[s].decls /\ env'[s].decls[i] = env[s].decls[i]

NewBehind ==
    \A s \in DOMAIN env' : \A i \in DOMAIN env'[s].decls :
        IsOld(s, i) \/ /\ env'[s].decls[i].id \in declared + 1 .. declared'
                       /\ s >= Len(env)
                       /\ s = Len(env) => i > Len(env[s].decls)

NewInOrder ==
    \A s, t \in DOMAIN env' :
        \A i \in DOMAIN env'[s].decls, j \in DOMAIN env'[t].decls :
            /\ ~IsOld(s, i) /\ ~IsOld(t, j)
            /\ s < t \/ (s = t /\ i < j)
            => env'[s].decls[i].id < env'[t].decls[j].id

Grows == declared' \in declared .. MaxDecls /\ Kept /\ NewBehind /\ NewInOrder

LEMMA GrowingKeepsOrder ==
    ASSUME EnvInv, Grows, env' \in Seq(ScopeType)
    PROVE  IdsInOrder'
  <1>0. /\ EnvTyped /\ IdsInOrder /\ declared \in Nat /\ declared' \in Nat
        /\ declared <= declared'
    BY DEF EnvInv, EnvTyped, Grows
  <1>1. ASSUME NEW s \in DOMAIN env', NEW i \in DOMAIN env'[s].decls, IsOld(s, i)
        PROVE  env'[s].decls[i].id = env[s].decls[i].id
               /\ env[s].decls[i].id \in 1 .. declared
    BY <1>0, <1>1 DEF Grows, Kept, IsOld, IdsInOrder
  <1>2. ASSUME NEW s \in DOMAIN env', NEW i \in DOMAIN env'[s].decls, ~IsOld(s, i)
        PROVE  /\ env'[s].decls[i].id \in declared + 1 .. declared'
               /\ s >= Len(env)
               /\ s = Len(env) => i > Len(env[s].decls)
    BY <1>2 DEF Grows, NewBehind
  <1>3. ASSUME NEW s \in DOMAIN env', NEW i \in DOMAIN env'[s].decls
        PROVE  env'[s].decls[i].id \in 1 .. declared'
    <2>1. CASE IsOld(s, i)
      BY <2>1, <1>1, <1>0
    <2>2. CASE ~IsOld(s, i)
      BY <2>2, <1>2, <1>0
    <2> QED
      BY <2>1, <2>2
  <1>4. ASSUME NEW s \in DOMAIN env', NEW i \in DOMAIN env'[s].decls,
               NEW t \in DOMAIN env', NEW j \in DOMAIN env'[t].decls,
               s < t \/ (s = t /\ i < j)
        PROVE  env'[s].decls[i].id < env'[t].decls[j].id
    <2>1. CASE IsOld(s, i) /\ IsOld(t, j)
      <3>1. env[s].decls[i].id < env[t].decls[j].id
        BY <2>1, <1>0, <1>4 DEF IdsInOrder, IsOld
      <3> QED
        BY <3>1, <2>1, <1>1
    <2>2. CASE IsOld(s, i) /\ ~IsOld(t, j)
      BY SMTT(30), <2>2, <1>1, <1>2, <1>0
    <2>3. CASE ~IsOld(s, i) /\ IsOld(t, j)
      <3>1. s >= Len(env) /\ (s = Len(env) => i > Len(env[s].decls))
        BY <2>3, <1>2
      <3>2. t \in 1 .. Len(env) /\ Len(env) \in Nat
        BY <2>3, <1>0, EnvLength DEF IsOld
      <3>3. DOMAIN env' = 1 .. Len(env') /\ Len(env') \in Nat
        OBVIOUS
      <3>4. s = Len(env) /\ s = t /\ i < j
        BY <3>1, <3>2, <3>3, <1>4
      <3>5. j \in 1 .. Len(env[t].decls) /\ Len(env[t].decls) \in Nat
        BY <2>3, <1>0, EnvLength DEF IsOld
      <3>6. i \in Nat
        <4>1. env'[s] \in ScopeType
          BY <3>3
        <4> QED
          BY <4>1 DEF ScopeType
      <3> QED
        BY <3>1, <3>4, <3>5, <3>6
    <2>4. CASE ~IsOld(s, i) /\ ~IsOld(t, j)
      BY <2>4, <1>4 DEF Grows, NewInOrder
    <2> QED
      BY <2>1, <2>2, <2>3, <2>4
  <1> QED
    BY <1>3, <1>4 DEF IdsInOrder

LEMMA ClosingKeepsOrder ==
    ASSUME EnvInv, NEW n \in Nat, Closed(n), UNCHANGED declared
    PROVE  IdsInOrder'
  <1>1. /\ DOMAIN env' \subseteq DOMAIN env
        /\ \A s \in DOMAIN env' : env'[s] = env[s]
    BY EnvLength DEF EnvInv, Closed
  <1> QED
    BY <1>1 DEF EnvInv, IdsInOrder

LEMMA OpenedGrows ==
    ASSUME EnvTyped, NEW kind, NEW decls \in Seq(NameDecl), Opened(kind, decls),
           declared' \in declared .. MaxDecls,
           decls = << >> \/ \E name : decls = <<NamedId(name, declared + 1)>>
                                      /\ declared' = declared + 1
    PROVE  Grows
  <1>1. /\ Len(env) \in Nat /\ DOMAIN env = 1 .. Len(env)
        /\ DOMAIN env' = 1 .. Len(env) + 1 /\ declared \in Nat
    BY EnvLength DEF Opened, EnvTyped
  <1>2. Kept
    BY <1>1 DEF Kept, Opened
  <1>3. ASSUME NEW s \in DOMAIN env', NEW i \in DOMAIN env'[s].decls, ~IsOld(s, i)
        PROVE  s = Len(env) + 1 /\ i = 1 /\ declared' = declared + 1
               /\ env'[s].decls[i].id = declared + 1
    <2>1. s = Len(env) + 1 /\ env'[s].decls = decls
      BY <1>1, <1>3 DEF IsOld, Opened
    <2> QED
      BY <2>1, <1>3 DEF NamedId
  <1>4. NewBehind
    BY <1>1, <1>3 DEF NewBehind
  <1>5. NewInOrder
    BY <1>1, <1>3 DEF NewInOrder
  <1> QED
    BY <1>2, <1>4, <1>5 DEF Grows

LEMMA ExtendedGrows ==
    ASSUME EnvTyped, NEW name, Extended(NamedId(name, declared + 1)),
           declared' = declared + 1, declared' \in Ids
    PROVE  Grows
  <1>1. /\ Len(env) \in Nat /\ Len(env) > 0 /\ DOMAIN env = 1 .. Len(env)
        /\ DOMAIN env' = DOMAIN env /\ declared \in Nat
        /\ declared' \in declared .. MaxDecls
    BY EnvLength DEF Extended, EnvTyped, Ids
  <1> DEFINE n == Len(env[Len(env)].decls)
  <1>2. /\ n \in Nat /\ DOMAIN env[Len(env)].decls = 1 .. n
        /\ env'[Len(env)].decls[n + 1] = NamedId(name, declared + 1)
        /\ \A i \in 1 .. n : env'[Len(env)].decls[i] = env[Len(env)].decls[i]
        /\ DOMAIN env'[Len(env)].decls = 1 .. n + 1
    <2>1. env'[Len(env)] \in ScopeType
      BY <1>1 DEF Extended
    <2>2. env'[Len(env)].decls \in Seq(NameDecl)
      BY <2>1 DEF ScopeType
    <2> QED
      BY <1>1, <2>2, EnvLength DEF Extended, OneMore
  <1> HIDE DEF n
  <1>3. Kept
    BY <1>1, <1>2 DEF Kept, Extended
  <1>4. ASSUME NEW s \in DOMAIN env', NEW i \in DOMAIN env'[s].decls, ~IsOld(s, i)
        PROVE  s = Len(env) /\ i = n + 1 /\ env'[s].decls[i].id = declared + 1
    BY <1>1, <1>2, <1>4 DEF IsOld, Extended, NamedId
  <1>5. NewBehind
    <2> SUFFICES ASSUME NEW s \in DOMAIN env', NEW i \in DOMAIN env'[s].decls,
                        ~IsOld(s, i)
                 PROVE  /\ env'[s].decls[i].id \in declared + 1 .. declared'
                        /\ s >= Len(env)
                        /\ s = Len(env) => i > Len(env[s].decls)
      BY DEF NewBehind
    <2> QED
      BY <1>1, <1>2, <1>4 DEF n
  <1>6. NewInOrder
    BY <1>1, <1>2, <1>4 DEF NewInOrder
  <1> QED
    BY <1>1, <1>3, <1>5, <1>6 DEF Grows

LEMMA ProcOpenedGrows ==
    ASSUME EnvInv, NEW name, NEW params \in Parameters,
           ParamDecls(params) \in Seq(NameDecl),
           Len(ParamDecls(params)) = Len(params),
           ProcOpened(NamedId(name, declared + 1), ParamDecls(params)),
           declared' = declared + 1 + Len(params), declared' \in Ids
    PROVE  Grows
  <1> DEFINE ps == ParamDecls(params)
  <1>1. /\ Len(env) = 1 /\ DOMAIN env = {1} /\ DOMAIN env' = {1, 2, 3}
        /\ declared \in Nat /\ declared' \in declared .. MaxDecls
        /\ Len(params) \in 0 .. 1
    <2>1. /\ EnvTyped /\ declared \in Nat /\ declared' \in 1 .. MaxDecls
          /\ Len(env) = 1 /\ Len(env') = 3 /\ env' \in Seq(ScopeType)
      BY DEF ProcOpened, EnvInv, EnvTyped, Ids
    <2>2. DOMAIN env = 1 .. 1 /\ DOMAIN env' = 1 .. 3
      BY <2>1, EnvLength
    <2>3. 1 .. 1 = {1} /\ 1 .. 3 = {1, 2, 3}
      OBVIOUS
    <2>4. Len(params) \in 0 .. 1 /\ declared' = declared + 1 + Len(params)
      BY ParameterFacts
    <2>5. declared' \in declared .. MaxDecls
      BY <2>1, <2>4
    <2> QED
      BY <2>1, <2>2, <2>3, <2>4, <2>5
  <1> DEFINE n == Len(env[1].decls)
  <1>2. /\ n \in Nat /\ DOMAIN env[1].decls = 1 .. n
        /\ env'[1].decls[n + 1] = NamedId(name, declared + 1)
        /\ \A i \in 1 .. n : env'[1].decls[i] = env[1].decls[i]
        /\ DOMAIN env'[1].decls = 1 .. n + 1
    <2>1. env'[1] \in ScopeType
      <3>1. env' \in Seq(ScopeType) /\ 1 \in DOMAIN env'
        BY <1>1 DEF ProcOpened
      <3> QED
        BY <3>1
    <2>2. env'[1].decls \in Seq(NameDecl)
      BY <2>1 DEF ScopeType
    <2> QED
      BY <1>1, <2>2, EnvLength DEF EnvInv, ProcOpened, OneMore
  <1>3. /\ DOMAIN env'[2].decls = 1 .. Len(params)
        /\ DOMAIN env'[3].decls = {}
        /\ \A i \in 1 .. Len(params) : env'[2].decls[i].id = declared + 1 + i
    <2>1. env'[2].decls = ps /\ DOMAIN ps = 1 .. Len(params) /\ env'[3].decls = << >>
      BY DEF ProcOpened
    <2>2. \A i \in 1 .. Len(params) : ps[i].id = declared + 1 + i
      BY ParameterFacts DEF ParamDecls, NamedId
    <2> HIDE DEF ps
    <2> QED
      BY <2>1, <2>2
  <1> HIDE DEF n, ps
  <1>4. Kept
    <2>1. env'[1].kind = env[1].kind
      BY <1>1 DEF ProcOpened, EnvInv, KindsInPlace
    <2>2. \A i \in DOMAIN env[1].decls :
             i \in DOMAIN env'[1].decls /\ env'[1].decls[i] = env[1].decls[i]
      BY <1>2
    <2>3. 1 \in DOMAIN env' /\ \A s \in DOMAIN env : s = 1
      BY <1>1
    <2> QED
      BY <2>1, <2>2, <2>3 DEF Kept
  <1>5. ASSUME NEW s \in DOMAIN env', NEW i \in DOMAIN env'[s].decls, ~IsOld(s, i)
        PROVE  \/ s = 1 /\ i = n + 1 /\ env'[s].decls[i].id = declared + 1
               \/ s = 2 /\ i = 1 /\ env'[s].decls[i].id = declared + 2
                  /\ Len(params) = 1
    <2>1. CASE s = 1
      BY <2>1, <1>1, <1>2, <1>5 DEF IsOld, NamedId
    <2>2. CASE s = 2
      BY <2>2, <1>1, <1>3
    <2>3. CASE s = 3
      BY <2>3, <1>3
    <2> QED
      BY <1>1, <2>1, <2>2, <2>3
  <1>6. NewBehind
    <2> SUFFICES ASSUME NEW s \in DOMAIN env', NEW i \in DOMAIN env'[s].decls,
                        ~IsOld(s, i)
                 PROVE  /\ env'[s].decls[i].id \in declared + 1 .. declared'
                        /\ s >= Len(env)
                        /\ s = Len(env) => i > Len(env[s].decls)
      BY DEF NewBehind
    <2> QED
      BY <1>1, <1>2, <1>5 DEF n
  <1>7. NewInOrder
    <2> SUFFICES ASSUME NEW s \in DOMAIN env', NEW i \in DOMAIN env'[s].decls,
                        NEW t \in DOMAIN env', NEW j \in DOMAIN env'[t].decls,
                        ~IsOld(s, i), ~IsOld(t, j), s < t \/ (s = t /\ i < j)
                 PROVE  env'[s].decls[i].id < env'[t].decls[j].id
      BY DEF NewInOrder
    <2> QED
      BY <1>1, <1>2, <1>5
  <1> QED
    BY <1>1, <1>4, <1>6, <1>7 DEF Grows

(* The first and the last position of a set of positions. *)
LEMMA FirstPosition ==
    ASSUME NEW n \in Nat, NEW I, I \subseteq 1 .. n, I # {}
    PROVE  Min(I) \in I /\ \A x \in I : Min(I) <= x
  <1>1. PICK m \in I : \A x \in I : m <= x
    BY LeastNatural
  <1> QED
    BY <1>1 DEF Min

LEMMA LastPosition ==
    ASSUME NEW n \in Nat, NEW I, I \subseteq 1 .. n, I # {}
    PROVE  Max(I) \in I /\ \A x \in I : x <= Max(I)
  <1> DEFINE Left == {n - x : x \in I}
  <1>1. Left \in SUBSET Nat /\ Left # {}
    <2>1. PICK x : x \in I
      OBVIOUS
    <2>2. n - x \in Left
      BY <2>1
    <2> QED
      BY <2>2
  <1>2. PICK m \in Left : \A y \in Left : m <= y
    <2> HIDE DEF Left
    <2> QED
      BY <1>1, LeastNatural
  <1>3. PICK x \in I : m = n - x
    OBVIOUS
  <1>4. \A y \in I : x >= y
    BY <1>2, <1>3
  <1> QED
    BY <1>4 DEF Max

(* The declaration a name refers to. *)

LEMMA RefersToLast ==
    ASSUME EnvTyped, NEW name
    PROVE  \/ /\ Refers(name) = NoVar
              /\ \A s \in DOMAIN env : \A i \in DOMAIN env[s].decls :
                    env[s].decls[i].name # name
           \/ \E s \in DOMAIN env : \E i \in DOMAIN env[s].decls :
                 /\ env[s].decls[i].name = name
                 /\ Refers(name) = env[s].decls[i].id
                 /\ \A t \in DOMAIN env : \A j \in DOMAIN env[t].decls :
                       env[t].decls[j].name = name => t < s \/ (t = s /\ j <= i)
  <1> DEFINE K == {k \in 1 .. Len(env) :
                      \E i \in DOMAIN env[k].decls : env[k].decls[i].name = name}
             k == IF K # {} THEN Max(K) ELSE 0
             I(s) == {i \in 1 .. Len(env[s].decls) : env[s].decls[i].name = name}
             i == IF I(k) # {} THEN Max(I(k)) ELSE 0
  <1>1. Refers(name) = IF k = 0 THEN NoVar ELSE env[k].decls[i].id
    BY DEF Refers, SelectLastInSeq
  <1>2. Len(env) \in Nat /\ DOMAIN env = 1 .. Len(env)
    BY EnvLength
  <1>3. CASE K = {}
    <2>1. Refers(name) = NoVar
      BY <1>1, <1>3
    <2>2. \A s \in DOMAIN env : \A j \in DOMAIN env[s].decls :
             env[s].decls[j].name # name
      BY <1>2, <1>3
    <2> QED
      BY <2>1, <2>2
  <1>4. CASE K # {}
    <2>1. k \in K /\ \A s \in K : s <= k
      <3>1. K \subseteq 1 .. Len(env)
        OBVIOUS
      <3> HIDE DEF K
      <3> QED
        BY <3>1, <1>2, <1>4, LastPosition
    <2>2. /\ k \in DOMAIN env /\ k # 0 /\ I(k) # {} /\ Len(env[k].decls) \in Nat
          /\ DOMAIN env[k].decls = 1 .. Len(env[k].decls)
      <3> HIDE DEF k
      <3>1. k \in 1 .. Len(env) /\ \E j \in DOMAIN env[k].decls : env[k].decls[j].name = name
        BY <2>1
      <3>2. /\ k \in DOMAIN env /\ k # 0 /\ Len(env[k].decls) \in Nat
            /\ DOMAIN env[k].decls = 1 .. Len(env[k].decls)
        BY <3>1, <1>2, EnvLength
      <3> QED
        BY <3>1, <3>2
    <2>3. i \in I(k) /\ \A j \in I(k) : j <= i
      <3>1. I(k) \subseteq 1 .. Len(env[k].decls)
        OBVIOUS
      <3> HIDE DEF I, k
      <3> QED
        BY <3>1, <2>2, LastPosition
    <2>4. /\ i \in DOMAIN env[k].decls /\ env[k].decls[i].name = name
          /\ Refers(name) = env[k].decls[i].id
      BY <2>2, <2>3, <1>1
    <2>5. ASSUME NEW t \in DOMAIN env, NEW j \in DOMAIN env[t].decls,
                 env[t].decls[j].name = name
          PROVE  t < k \/ (t = k /\ j <= i)
      <3>1. t \in K /\ t <= k /\ t \in Nat /\ k \in Nat
        <4> HIDE DEF k, i
        <4>1. t \in K
          BY <2>5, <1>2
        <4> HIDE DEF K
        <4> QED
          BY <4>1, <2>1, <2>2, <1>2
      <3>2. t = k => j \in I(k)
        BY <2>5, <2>2
      <3> HIDE DEF I, k, i, K
      <3> QED
        BY <3>1, <3>2, <2>3
    <2> HIDE DEF i, k, I, K
    <2> QED
      BY <2>2, <2>4, <2>5
  <1> QED
    BY <1>3, <1>4

LEMMA RefersToDeclared ==
    ASSUME EnvInv, NEW name
    PROVE  Refers(name) = NoVar \/ Refers(name) \in 1 .. declared
BY RefersToLast DEF EnvInv, IdsInOrder

LEMMA InProcIsInside ==
    ASSUME EnvInv
    PROVE  InProc <=> Inside
  <1>1. EnvTyped /\ KindsInPlace
    BY DEF EnvInv
  <1>2. ASSUME NEW s \in DOMAIN env, env[s].kind = "params" PROVE Inside
    BY <1>1, <1>2, EnvLength DEF KindsInPlace, Inside
  <1>3. Inside => 2 \in DOMAIN env
    BY <1>1, EnvLength DEF Inside
  <1> QED
    BY <1>2, <1>3 DEF InProc, Inside, ToSet

LEMMA EnvTypedStep ==
    ASSUME EnvInv, [Next]_vars
    PROVE  EnvTyped'
  <1>0. /\ EnvTyped /\ declared \in Nat /\ declared <= MaxDecls
        /\ 1 .. declared \subseteq 1 .. declared + 1
    BY DEF EnvInv, EnvTyped
  <1>1. CASE EnterBlock \/ EnterBranch
    <2>1. /\ env' \in Seq(ScopeType) /\ Len(env') = Len(env) + 1 /\ ~done /\ UNCHANGED done
          /\ UNCHANGED <<read, loose, declared>>
      BY <1>0, <1>1, EnterBlockOpens, EnterBranchOpens DEF Opened
    <2> QED
      BY <2>1, <1>0, EnvLength DEF EnvTyped
  <1>2. ASSUME NEW name \in VarNames, EnterFor(name) PROVE EnvTyped'
    <2>1. /\ env' \in Seq(ScopeType) /\ Len(env') = Len(env) + 1 /\ ~done /\ UNCHANGED done
          /\ declared' = declared + 1 /\ declared' \in Ids
          /\ loose' = loose \union {declared'} /\ UNCHANGED read
      BY <1>0, <1>2, EnterForOpens DEF Opened
    <2> QED
      BY <2>1, <1>0, EnvLength DEF EnvTyped, Ids
  <1>3. ASSUME NEW name \in VarNames, Declare(name) PROVE EnvTyped'
    <2>1. /\ env' \in Seq(ScopeType) /\ Len(env') = Len(env) /\ Len(env) > 0
          /\ ~done /\ UNCHANGED done /\ declared' = declared + 1 /\ declared' \in Ids
          /\ loose' \subseteq loose \union {declared'} /\ UNCHANGED read
      BY <1>0, <1>3, DeclareExtends DEF Extended
    <2> QED
      BY <2>1, <1>0, EnvLength DEF EnvTyped, Ids
  <1>4. ASSUME NEW name \in ProcNames, NEW params \in Parameters,
               BeginProc(name, params)
        PROVE  EnvTyped'
    <2>1. /\ env' \in Seq(ScopeType) /\ Len(env') = 3
          /\ ~done /\ UNCHANGED done /\ declared' = declared + 1 + Len(params) /\ declared' \in Ids
          /\ UNCHANGED <<loose, read>>
      BY <1>0, <1>4, BeginProcOpens DEF ProcOpened
    <2>2. declared <= declared'
      BY <2>1, <1>0, ParameterFacts
    <2>3. /\ declared' \in 0 .. MaxDecls /\ env' # << >>
          /\ read' \subseteq 1 .. declared' /\ loose' \subseteq 1 .. declared'
      BY SMTT(30), <2>1, <2>2, <1>0 DEF EnvTyped, Ids
    <2> QED
      BY <2>1, <2>3, <1>0 DEF EnvTyped
  <1>5. CASE ExitBlock \/ ExitBranch \/ ExitFor
    <2>1. /\ env' \in Seq(ScopeType) /\ Len(env') = Len(env) - 1 /\ Len(env) > 1
          /\ ~done /\ UNCHANGED done /\ UNCHANGED <<read, loose, declared>>
      BY <1>5, ExitCloses DEF Closed
    <2> QED
      BY <2>1, <1>0, EnvLength DEF EnvTyped
  <1>6. CASE EndProc
    <2>1. /\ env' \in Seq(ScopeType) /\ Len(env') = Len(env) - 2 /\ Len(env) = 3
          /\ ~done /\ UNCHANGED done /\ UNCHANGED <<read, loose, declared>>
      BY <1>6, EndProcCloses DEF Closed
    <2>2. env' # << >>
      BY <2>1
    <2> QED
      BY <2>1, <2>2, <1>0 DEF EnvTyped
  <1>7. CASE EndProgram
    <2>1. /\ env' \in Seq(ScopeType) /\ env' = << >>
          /\ done' = TRUE /\ UNCHANGED <<read, loose, declared>>
      BY <1>7, EndProgramCloses DEF Closed, EndProgram
    <2> QED
      BY <2>1, <1>0 DEF EnvTyped
  <1>8. ASSUME NEW name, Use(name) PROVE EnvTyped'
    <2>1. /\ read' = read \union ({Refers(name)} \ {NoVar})
          /\ UNCHANGED <<env, loose, declared, done>>
      BY <1>8 DEF Use
    <2>2. read' \subseteq 1 .. declared
      BY <2>1, <1>0, RefersToDeclared DEF EnvTyped
    <2> QED
      BY <2>1, <2>2, <1>0 DEF EnvTyped
  <1>9. CASE UNCHANGED vars
    BY <1>9, <1>0 DEF EnvTyped, vars, walk
  <1> QED
    BY <1>1, <1>2, <1>3, <1>4, <1>5, <1>6, <1>7, <1>8, <1>9 DEF Next, Parameters

LEMMA KindsStep ==
    ASSUME EnvInv, [Next]_vars
    PROVE  KindsInPlace'
  <1>0. /\ EnvTyped /\ KindsInPlace /\ Len(env) \in Nat /\ DOMAIN env = 1 .. Len(env)
    BY EnvLength DEF EnvInv
  <1>1. ASSUME NEW kind \in Kinds \ {"program", "params", "proc"}, NEW decls,
               Opened(kind, decls), ~done
        PROVE  KindsInPlace'
    <2>1. /\ DOMAIN env' = 1 .. Len(env) + 1 /\ Len(env) > 0
          /\ Len(env') = Len(env) + 1
          /\ \A s \in 1 .. Len(env) : env'[s].kind = env[s].kind
          /\ env'[Len(env) + 1].kind = kind
      BY <1>0, <1>1, EnvLength DEF Opened, EnvTyped
    <2> QED
      BY <2>1, <1>0, <1>1 DEF KindsInPlace
  <1>2. ASSUME NEW d, Extended(d) PROVE KindsInPlace'
    <2>1. /\ DOMAIN env' = 1 .. Len(env) /\ Len(env') = Len(env)
          /\ \A s \in 1 .. Len(env) : env'[s].kind = env[s].kind
      BY <1>0, <1>2 DEF Extended
    <2> QED
      BY <2>1, <1>0 DEF KindsInPlace
  <1>3. ASSUME NEW d, NEW ps, ProcOpened(d, ps) PROVE KindsInPlace'
    <2>1. DOMAIN env' = 1 .. 3
      BY <1>3 DEF ProcOpened
    <2> QED
      BY <2>1, <1>3 DEF ProcOpened, KindsInPlace
  <1>4. ASSUME NEW n \in {1, 2}, Closed(n),
               n = 1 => env[Len(env)].kind # "proc", n = 2 => Len(env) = 3
        PROVE  KindsInPlace'
    <2>1. /\ Len(env') = Len(env) - n /\ Len(env) >= n
          /\ DOMAIN env' = 1 .. Len(env) - n
          /\ \A s \in 1 .. Len(env) - n : env'[s].kind = env[s].kind
      BY <1>0, <1>4 DEF Closed
    <2> QED
      BY <2>1, <1>0, <1>4 DEF KindsInPlace
  <1>5. CASE EnterBlock
    BY <1>0, <1>1, <1>5, EnterBlockOpens DEF Kinds
  <1>6. CASE EnterBranch
    BY <1>0, <1>1, <1>6, EnterBranchOpens DEF Kinds
  <1>7. ASSUME NEW name \in VarNames, EnterFor(name) PROVE KindsInPlace'
    BY <1>0, <1>1, <1>7, EnterForOpens DEF Kinds
  <1>8. ASSUME NEW name \in VarNames, Declare(name) PROVE KindsInPlace'
    BY <1>0, <1>2, <1>8, DeclareExtends
  <1>9. ASSUME NEW name \in ProcNames, NEW params \in Parameters,
               BeginProc(name, params)
        PROVE  KindsInPlace'
    BY <1>3, <1>9, BeginProcOpens
  <1>10. CASE ExitBlock \/ ExitBranch \/ ExitFor
    <2>1. Closed(1) /\ env[Len(env)].kind # "proc"
      BY <1>10, ExitCloses DEF Loose
    <2> QED
      BY <2>1, <1>4
  <1>11. CASE EndProc
    BY <1>4, <1>11, EndProcCloses
  <1>12. CASE EndProgram
    <2>1. env' = << >>
      BY <1>12, EndProgramCloses
    <2> QED
      BY <2>1 DEF KindsInPlace
  <1>13. ASSUME NEW name, Use(name) PROVE KindsInPlace'
    BY <1>0, <1>13 DEF Use, KindsInPlace
  <1>14. CASE UNCHANGED vars
    BY <1>14, <1>0 DEF KindsInPlace, vars, walk
  <1> QED
    BY <1>5, <1>6, <1>7, <1>8, <1>9, <1>10, <1>11, <1>12, <1>13, <1>14
       DEF Next, Parameters

(* A step that declares or opens something lets env grow.                   *)
LEMMA GrowingSteps ==
    ASSUME EnvInv
    PROVE  /\ EnterBlock \/ EnterBranch => Grows
           /\ \A name \in VarNames : EnterFor(name) \/ Declare(name) => Grows
           /\ \A name \in ProcNames, params \in Parameters :
                 BeginProc(name, params) => Grows
  <1>0. EnvTyped /\ declared \in 0 .. MaxDecls
    BY DEF EnvInv, EnvTyped
  <1>1. ASSUME EnterBlock \/ EnterBranch PROVE Grows
    <2>1. PICK kind : Opened(kind, << >>) /\ declared' = declared
      BY <1>0, <1>1, EnterBlockOpens, EnterBranchOpens
    <2>2. declared' \in declared .. MaxDecls /\ << >> \in Seq(NameDecl)
      BY <2>1, <1>0
    <2> QED
      BY <2>1, <2>2, <1>0, OpenedGrows
  <1>2. ASSUME NEW name \in VarNames, EnterFor(name) PROVE Grows
    <2> DEFINE decls == <<NamedId(name, declared + 1)>>
    <2>1. /\ Opened("for", decls) /\ declared' = declared + 1
          /\ declared' \in Ids
      BY <1>0, <1>2, EnterForOpens
    <2>2. decls \in Seq(NameDecl)
      BY <2>1, <1>0 DEF NameDecl, Names, NamedId
    <2>3. declared' \in declared .. MaxDecls
      BY <2>1, <1>0 DEF Ids
    <2> QED
      BY <2>1, <2>2, <2>3, <1>0, OpenedGrows
  <1>3. ASSUME NEW name \in VarNames, Declare(name) PROVE Grows
    BY <1>0, <1>3, DeclareExtends, ExtendedGrows
  <1>4. ASSUME NEW name \in ProcNames, NEW params \in Parameters,
               BeginProc(name, params)
        PROVE  Grows
    BY <1>4, BeginProcOpens, ProcOpenedGrows
  <1> QED
    BY <1>1, <1>2, <1>3, <1>4

LEMMA EnvStep ==
    ASSUME EnvInv, [Next]_vars
    PROVE  EnvInv'
  <1>1. EnvTyped' /\ KindsInPlace'
    BY EnvTypedStep, KindsStep
  <1>2. env' \in Seq(ScopeType)
    BY <1>1 DEF EnvTyped
  <1>3. CASE Grows
    BY <1>1, <1>2, <1>3, GrowingKeepsOrder DEF EnvInv
  <1>4. ASSUME NEW n \in Nat, Closed(n), UNCHANGED declared PROVE EnvInv'
    BY <1>1, <1>4, ClosingKeepsOrder DEF EnvInv
  <1>5. CASE UNCHANGED <<env, declared>>
    BY <1>1, <1>5 DEF EnvInv, IdsInOrder
  <1>6. CASE ExitBlock \/ ExitBranch \/ ExitFor
    BY <1>4, <1>6, ExitCloses
  <1>7. CASE EndProc
    BY <1>4, <1>7, EndProcCloses
  <1>8. CASE EndProgram
    BY <1>4, <1>8, EndProgramCloses
  <1>9. ASSUME NEW name, Use(name) PROVE EnvInv'
    BY <1>5, <1>9 DEF Use
  <1>10. CASE UNCHANGED vars
    BY <1>5, <1>10 DEF vars, walk
  <1> QED
    BY <1>3, <1>6, <1>7, <1>8, <1>9, <1>10, GrowingSteps DEF Next, Parameters

(***************************************************************************)
(* The lists of the checker.                                               *)
(***************************************************************************)
CheckerTyped ==
    /\ scopes \in Seq(Seq(DeclType)) /\ Len(scopes) = Len(env)
    /\ hasError \in BOOLEAN /\ reported \subseteq Ids

\* A list has the declarations of the lexical scope, each name once, and marks
\* those that some use refers to.
ListMirrors(list, decls, uses) ==
    /\ Len(list) = Len(decls)
    /\ \A i \in DOMAIN decls :
          /\ list[i].name = decls[i].name
          /\ list[i].id = decls[i].id
          /\ list[i].used <=> decls[i].id \in uses
    /\ \A i, j \in DOMAIN decls : decls[i].name = decls[j].name => i = j

Mirrors == \A s \in DOMAIN env : ListMirrors(scopes[s], env[s].decls, read)

LEMMA ListsLength ==
    ASSUME NEW stack \in Seq(Seq(DeclType))
    PROVE  /\ Len(stack) \in Nat /\ DOMAIN stack = 1 .. Len(stack)
           /\ \A s \in DOMAIN stack : /\ stack[s] \in Seq(DeclType)
                                      /\ Len(stack[s]) \in Nat
                                      /\ DOMAIN stack[s] = 1 .. Len(stack[s])
                                      /\ \A i \in DOMAIN stack[s] : stack[s][i] \in DeclType
  <1>1. \A list \in Seq(DeclType) : /\ Len(list) \in Nat /\ DOMAIN list = 1 .. Len(list)
                                    /\ \A i \in DOMAIN list : list[i] \in DeclType
    OBVIOUS
  <1>2. \A s \in DOMAIN stack : stack[s] \in Seq(DeclType)
    OBVIOUS
  <1> QED
    BY <1>1, <1>2

LEMMA PushedFacts ==
    ASSUME NEW stack \in Seq(Seq(DeclType))
    PROVE  /\ Pushed(stack) \in Seq(Seq(DeclType)) /\ Len(Pushed(stack)) = Len(stack) + 1
           /\ \A s \in DOMAIN stack : Pushed(stack)[s] = stack[s]
           /\ Pushed(stack)[Len(stack) + 1] = << >>
  <1>1. << >> \in Seq(DeclType)
    OBVIOUS
  <1> QED
    BY <1>1 DEF Pushed

LEMMA AddedFacts ==
    ASSUME NEW stack \in Seq(Seq(DeclType)), Len(stack) > 0,
           NEW decls \in Seq(DeclType)
    PROVE  /\ Added(stack, decls) \in Seq(Seq(DeclType))
           /\ Len(Added(stack, decls)) = Len(stack)
           /\ \A s \in DOMAIN stack : s # Len(stack) => Added(stack, decls)[s] = stack[s]
           /\ Added(stack, decls)[Len(stack)] = stack[Len(stack)] \o decls
           /\ stack[Len(stack)] \o decls \in Seq(DeclType)
  <1>1. Len(stack) \in 1 .. Len(stack) /\ DOMAIN stack = 1 .. Len(stack)
    BY ListsLength
  <1>2. stack[Len(stack)] \o decls \in Seq(DeclType)
    BY <1>1, ListsLength, ConcatProperties
  <1>3. Added(stack, decls) = [stack EXCEPT ![Len(stack)] = stack[Len(stack)] \o decls]
    BY DEF Added
  <1> QED
    BY <1>1, <1>2, <1>3, ExceptSeq

LEMMA ListGrows ==
    ASSUME NEW list \in Seq(DeclType), NEW before \in Seq(NameDecl), NEW after, NEW uses,
           NEW name, NEW id, NEW isFunction,
           Decl(name, id, isFunction) \in DeclType,
           ListMirrors(list, before, uses), OneMore(after, before, NamedId(name, id)),
           id \notin uses, \A i \in DOMAIN before : before[i].name # name,
           after \in Seq(NameDecl)
    PROVE  ListMirrors(list \o <<Decl(name, id, isFunction)>>, after, uses)
  <1> DEFINE d == Decl(name, id, isFunction)
             longer == list \o <<d>>
             n == Len(before)
  <1>1. /\ n \in Nat /\ DOMAIN before = 1 .. n /\ Len(list) = n
        /\ DOMAIN after = 1 .. n + 1 /\ Len(after) = n + 1
        /\ after[n + 1] = NamedId(name, id)
        /\ \A i \in 1 .. n : after[i] = before[i]
    BY DEF ListMirrors, OneMore
  <1>2. d.name = name /\ d.id = id /\ d.used = FALSE /\ d \in DeclType
    BY DEF Decl
  <1> HIDE DEF d
  <1>3. /\ <<d>> \in Seq(DeclType) /\ Len(<<d>>) = 1 /\ <<d>>[1] = d
    BY <1>2
  <1>4. /\ Len(longer) = n + 1 /\ longer[n + 1] = d
        /\ \A i \in 1 .. n : longer[i] = list[i]
    <2>1. /\ Len(longer) = Len(list) + Len(<<d>>)
          /\ \A i \in 1 .. Len(list) + Len(<<d>>) :
                longer[i] = IF i <= Len(list) THEN list[i] ELSE <<d>>[i - Len(list)]
      BY <1>3, ConcatProperties
    <2> HIDE DEF longer
    <2>2. /\ Len(longer) = n + 1
          /\ \A i \in 1 .. n + 1 :
                longer[i] = IF i <= n THEN list[i] ELSE <<d>>[i - n]
      BY <2>1, <1>1, <1>3
    <2>3. n + 1 \in 1 .. n + 1 /\ ~(n + 1 <= n) /\ (n + 1) - n = 1
      BY <1>1
    <2> QED
      BY <2>2, <2>3, <1>1, <1>3
  <1> HIDE DEF longer
  <1>5. NamedId(name, id).name = name /\ NamedId(name, id).id = id
    BY DEF NamedId
  <1> HIDE DEF n
  <1>6. ASSUME NEW i \in DOMAIN after
        PROVE  /\ longer[i].name = after[i].name
               /\ longer[i].id = after[i].id
               /\ longer[i].used <=> after[i].id \in uses
    <2>1. CASE i = n + 1
      BY <2>1, <1>1, <1>2, <1>4, <1>5
    <2>2. CASE i \in 1 .. n
      BY <2>2, <1>1, <1>4 DEF ListMirrors
    <2> QED
      BY <2>1, <2>2, <1>1
  <1>7. \A i, j \in DOMAIN after : after[i].name = after[j].name => i = j
    <2> SUFFICES ASSUME NEW i \in DOMAIN after, NEW j \in DOMAIN after,
                        after[i].name = after[j].name
                 PROVE  i = j
      OBVIOUS
    <2>1. \A k \in 1 .. n : after[k].name # name
      BY <1>1
    <2>2. CASE i \in 1 .. n /\ j \in 1 .. n
      BY <2>2, <1>1 DEF ListMirrors
    <2>3. CASE i = n + 1 \/ j = n + 1
      BY <2>1, <2>3, <1>1, <1>5
    <2> QED
      BY <2>2, <2>3, <1>1
  <1> QED
    BY <1>1, <1>4, <1>6, <1>7 DEF ListMirrors, longer, d

(* The place that is marked: the first declaration of the name in the       *)
(* innermost scope that has one.                                            *)
MarkedAt(name, s, i) ==
    /\ s \in DOMAIN scopes /\ i \in DOMAIN scopes[s]
    /\ scopes[s][i].name = name
    /\ \A t \in DOMAIN scopes : \A j \in DOMAIN scopes[t] :
          scopes[t][j].name = name => t < s \/ (t = s /\ i <= j)

LEMMA IndexIsFirst ==
    ASSUME NEW list \in Seq(DeclType), NEW name
    PROVE  LET i == IndexOf(list, name)
           IN  \/ i = 0 /\ \A j \in DOMAIN list : list[j].name # name
               \/ /\ i \in DOMAIN list /\ i # 0 /\ list[i].name = name
                  /\ \A j \in DOMAIN list : list[j].name = name => i <= j
  <1> DEFINE I == {j \in 1 .. Len(list) : list[j].name = name}
  <1>1. IndexOf(list, name) = IF I # {} THEN Min(I) ELSE 0
    BY DEF IndexOf, SelectInSeq
  <1>2. Len(list) \in Nat /\ DOMAIN list = 1 .. Len(list) /\ I \subseteq 1 .. Len(list)
    OBVIOUS
  <1>3. I # {} => Min(I) \in I /\ \A j \in I : Min(I) <= j
    <2> HIDE DEF I
    <2> QED
      BY <1>2, FirstPosition
  <1>4. CASE I = {}
    BY <1>1, <1>2, <1>4
  <1>5. CASE I # {}
    <2>1. PICK i : i = Min(I)
      OBVIOUS
    <2>2. i \in I /\ (\A j \in I : i <= j) /\ IndexOf(list, name) = i
      BY <2>1, <1>1, <1>3, <1>5
    <2> QED
      BY <2>2, <1>2
  <1> QED
    BY <1>4, <1>5

LEMMA MarkedFacts ==
    ASSUME CheckerTyped, NEW name
    PROVE  \/ /\ Marked(scopes, name) = scopes
              /\ \A s \in DOMAIN scopes : \A i \in DOMAIN scopes[s] :
                    scopes[s][i].name # name
           \/ \E s, i : /\ MarkedAt(name, s, i)
                        /\ Marked(scopes, name) = [scopes EXCEPT ![s][i].used = TRUE]
  <1> DEFINE K == {k \in 1 .. Len(scopes) : IndexOf(scopes[k], name) # 0}
  <1>1. Marked(scopes, name) =
           LET s == IF K # {} THEN Max(K) ELSE 0
           IN  IF s = 0 THEN scopes
               ELSE [scopes EXCEPT ![s][IndexOf(scopes[s], name)].used = TRUE]
    BY DEF Marked, SelectLastInSeq
  <1>2. /\ Len(scopes) \in Nat /\ DOMAIN scopes = 1 .. Len(scopes)
        /\ \A s \in DOMAIN scopes : scopes[s] \in Seq(DeclType)
    BY ListsLength DEF CheckerTyped
  <1>3. ASSUME NEW s \in DOMAIN scopes
        PROVE  /\ s \in K => MarkedAt(name, s, IndexOf(scopes[s], name)) \/
                             (\E t \in K : t > s)
               /\ s \notin K => \A j \in DOMAIN scopes[s] : scopes[s][j].name # name
    <2>1. LET i == IndexOf(scopes[s], name)
          IN  \/ i = 0 /\ \A j \in DOMAIN scopes[s] : scopes[s][j].name # name
              \/ /\ i \in DOMAIN scopes[s] /\ i # 0 /\ scopes[s][i].name = name
                 /\ \A j \in DOMAIN scopes[s] : scopes[s][j].name = name => i <= j
      BY <1>2, IndexIsFirst
    <2>2. s \notin K => \A j \in DOMAIN scopes[s] : scopes[s][j].name # name
      BY <2>1, <1>2
    <2>3. ASSUME s \in K, \A t \in K : ~(t > s)
          PROVE  MarkedAt(name, s, IndexOf(scopes[s], name))
      <3>1. \A t \in DOMAIN scopes : \A j \in DOMAIN scopes[t] :
               scopes[t][j].name = name => t \in K
        <4> SUFFICES ASSUME NEW t \in DOMAIN scopes, NEW j \in DOMAIN scopes[t],
                            scopes[t][j].name = name
                     PROVE  t \in K
          OBVIOUS
        <4>1. IndexOf(scopes[t], name) # 0
          BY <1>2, IndexIsFirst
        <4> QED
          BY <4>1, <1>2
      <3>2. IndexOf(scopes[s], name) # 0
        BY <2>3
      <3> HIDE DEF K
      <3> QED
        BY <2>1, <2>3, <3>1, <3>2, <1>2 DEF MarkedAt
    <2> QED
      BY <2>2, <2>3
  <1>4. CASE K = {}
    BY <1>1, <1>3, <1>4
  <1>5. CASE K # {}
    <2>1. PICK s : s = Max(K)
      OBVIOUS
    <2>2. s \in K /\ \A t \in K : t <= s
      <3>1. K \subseteq 1 .. Len(scopes)
        OBVIOUS
      <3> HIDE DEF K
      <3> QED
        BY <2>1, <3>1, <1>2, <1>5, LastPosition
    <2>3. s \in 1 .. Len(scopes) /\ \A t \in K : t \in Nat
      BY <2>2
    <2> HIDE DEF K
    <2>4. \A t \in K : ~(t > s)
      BY <2>2, <2>3
    <2>5. MarkedAt(name, s, IndexOf(scopes[s], name))
      BY <2>2, <2>3, <2>4, <1>2, <1>3
    <2>6. Marked(scopes, name) = [scopes EXCEPT ![s][IndexOf(scopes[s], name)].used = TRUE]
      BY <2>1, <2>3, <1>1, <1>5
    <2> QED
      BY <2>5, <2>6
  <1> QED
    BY <1>4, <1>5

(* Lists that end report what is unused in them.                            *)
GoneUnused(n, x) ==
    \E s \in DOMAIN scopes : s > Len(scopes) - n /\ \E i \in DOMAIN scopes[s] :
        ~scopes[s][i].used /\ scopes[s][i].id = x

LEMMA KeptFront ==
    ASSUME NEW S, NEW stack \in Seq(S), NEW n \in Nat, n <= Len(stack)
    PROVE  LET kept == SubSeq(stack, 1, Len(stack) - n)
           IN  /\ kept \in Seq(S) /\ Len(kept) = Len(stack) - n
               /\ \A s \in 1 .. Len(stack) - n : kept[s] = stack[s]
  <1>1. /\ \A s \in 1 .. Len(stack) - n : stack[s] \in S
        /\ Len(stack) \in Nat
    OBVIOUS
  <1> QED
    BY <1>1, SubSeqProperties

LEMMA PopFacts ==
    ASSUME CheckerTyped, NEW n \in Nat, n <= Len(scopes), PopScopes(n)
    PROVE  /\ scopes' \in Seq(Seq(DeclType)) /\ Len(scopes') = Len(scopes) - n
           /\ \A s \in DOMAIN scopes' : s \in DOMAIN scopes /\ scopes'[s] = scopes[s]
           /\ hasError' \in BOOLEAN /\ reported' \subseteq Ids
           /\ \A x : x \in reported' <=> x \in reported \/ GoneUnused(n, x)
           /\ hasError' <=> hasError \/ \E x : GoneUnused(n, x)
  <1> DEFINE gone == UNION {Unused(scopes[i]) : i \in Len(scopes) - n + 1 .. Len(scopes)}
  <1>1. /\ Len(scopes) \in Nat /\ DOMAIN scopes = 1 .. Len(scopes)
        /\ \A s \in DOMAIN scopes : /\ scopes[s] \in Seq(DeclType)
                                    /\ \A i \in DOMAIN scopes[s] : scopes[s][i] \in DeclType
    BY ListsLength DEF CheckerTyped
  <1>2. /\ scopes' = SubSeq(scopes, 1, Len(scopes) - n)
        /\ hasError' = (hasError \/ gone # {})
        /\ reported' = reported \union gone
    BY DEF PopScopes
  <1>3. ASSUME NEW x PROVE x \in gone <=> GoneUnused(n, x)
    <2>1. ASSUME x \in gone PROVE GoneUnused(n, x)
      <3>1. PICK s \in Len(scopes) - n + 1 .. Len(scopes) : x \in Unused(scopes[s])
        BY <2>1
      <3>2. s \in DOMAIN scopes /\ s > Len(scopes) - n
        BY <3>1, <1>1
      <3> QED
        BY <3>1, <3>2 DEF GoneUnused, Unused
    <2>2. ASSUME GoneUnused(n, x) PROVE x \in gone
      <3>1. PICK s \in DOMAIN scopes : s > Len(scopes) - n /\ \E i \in DOMAIN scopes[s] :
                    ~scopes[s][i].used /\ scopes[s][i].id = x
        BY <2>2 DEF GoneUnused
      <3>2. x \in Unused(scopes[s])
        BY <3>1 DEF Unused
      <3>3. s \in Len(scopes) - n + 1 .. Len(scopes)
        BY <3>1, <1>1
      <3> QED
        BY <3>2, <3>3
    <2> QED
      BY <2>1, <2>2
  <1>4. \A x : GoneUnused(n, x) => x \in Ids
    BY <1>1 DEF GoneUnused, DeclType
  <1> HIDE DEF gone
  <1>5. gone # {} <=> \E x : GoneUnused(n, x)
    BY <1>3
  <1>7. /\ scopes' \in Seq(Seq(DeclType)) /\ Len(scopes') = Len(scopes) - n
        /\ \A s \in 1 .. Len(scopes) - n : scopes'[s] = scopes[s]
    <2>1. scopes \in Seq(Seq(DeclType))
      BY DEF CheckerTyped
    <2> QED
      BY <1>2, <2>1, KeptFront
  <1>8. DOMAIN scopes' = 1 .. Len(scopes) - n /\ DOMAIN scopes' \subseteq DOMAIN scopes
    BY <1>1, <1>7
  <1>9. hasError' \in BOOLEAN /\ (hasError' <=> hasError \/ \E x : GoneUnused(n, x))
    BY <1>2, <1>5 DEF CheckerTyped
  <1>10. \A x : x \in reported' <=> x \in reported \/ GoneUnused(n, x)
    BY <1>2, <1>3
  <1>11. reported' \subseteq Ids
    BY <1>4, <1>10 DEF CheckerTyped
  <1> QED
    BY <1>7, <1>8, <1>9, <1>10, <1>11

LEMMA NewDeclType ==
    ASSUME NEW name \in Names, NEW id \in Ids, NEW isFunction \in BOOLEAN
    PROVE  /\ Decl(name, id, isFunction) \in DeclType
           /\ <<Decl(name, id, isFunction)>> \in Seq(DeclType)
BY DEF Decl, DeclType

ProcLists(name, params) ==
    Pushed(Added(Pushed(Added(scopes, <<Decl(name, declared + 1, TRUE)>>)),
                 [i \in DOMAIN params |-> Decl(params[i], declared + 1 + i, FALSE)]))

LEMMA ProcListsFacts ==
    ASSUME EnvInv, CheckerTyped, NEW name \in ProcNames, NEW params \in Parameters,
           BeginProc(name, params)
    PROVE  LET lists == ProcLists(name, params)
               ps == [i \in DOMAIN params |-> Decl(params[i], declared + 1 + i, FALSE)]
           IN  /\ scopes' = lists
               /\ lists \in Seq(Seq(DeclType)) /\ Len(lists) = 3
               /\ lists[1] = scopes[1] \o <<Decl(name, declared + 1, TRUE)>>
               /\ lists[2] = ps /\ ps \in Seq(DeclType) /\ Len(ps) = Len(params)
               /\ lists[3] = << >>
               /\ Len(scopes) = 1
  <1> DEFINE d == <<Decl(name, declared + 1, TRUE)>>
             ps == [i \in DOMAIN params |-> Decl(params[i], declared + 1 + i, FALSE)]
  <1>1. /\ Len(scopes) = 1 /\ scopes \in Seq(Seq(DeclType)) /\ declared \in Nat
        /\ declared + 1 \in Ids /\ declared + 1 + Len(params) \in Ids
        /\ Len(params) \in 0 .. 1 /\ DOMAIN params = 1 .. Len(params)
        /\ \A i \in DOMAIN params : params[i] \in VarNames
    BY BeginProcOpens, ParameterFacts DEF CheckerTyped, ProcOpened, EnvInv, EnvTyped
  <1>2. d \in Seq(DeclType)
    BY <1>1, NewDeclType DEF Names
  <1>3. ps \in Seq(DeclType) /\ Len(ps) = Len(params)
    <2>1. \A i \in 1 .. Len(params) : declared + 1 + i \in Ids
      BY <1>1 DEF Ids
    <2>2. \A i \in 1 .. Len(params) : Decl(params[i], declared + 1 + i, FALSE) \in DeclType
      BY <2>1, <1>1, NewDeclType DEF Names
    <2>3. ps = [i \in 1 .. Len(params) |-> Decl(params[i], declared + 1 + i, FALSE)]
      BY <1>1
    <2> HIDE DEF ps
    <2>4. Len(params) \in Nat
      BY <1>1
    <2>5. /\ DOMAIN ps = 1 .. Len(params)
          /\ \A i \in 1 .. Len(params) : ps[i] \in DeclType
      BY <2>2, <2>3
    <2>6. ps \in [1 .. Len(params) -> DeclType]
      BY <2>3, <2>5
    <2> QED
      BY <2>4, <2>6
  <1>4. scopes' = Pushed(Added(Pushed(Added(scopes, d)), ps))
    BY DEF BeginProc, Change
  <1> HIDE DEF d, ps
  <1> DEFINE a == Added(scopes, d)
             b == Pushed(a)
             c == Added(b, ps)
             e == Pushed(c)
  <1>5. a \in Seq(Seq(DeclType)) /\ Len(a) = 1 /\ a[1] = scopes[1] \o d
    <2>1. Len(scopes) > 0
      BY <1>1
    <2> QED
      BY <2>1, <1>1, <1>2, AddedFacts
  <1> HIDE DEF a
  <1>6. b \in Seq(Seq(DeclType)) /\ Len(b) = 2 /\ b[1] = a[1] /\ b[2] = << >>
    <2>1. 1 \in DOMAIN a /\ Len(a) + 1 = 2
      BY <1>5
    <2>2. /\ b \in Seq(Seq(DeclType)) /\ Len(b) = Len(a) + 1
          /\ b[1] = a[1] /\ b[Len(a) + 1] = << >>
      BY <2>1, <1>5, PushedFacts
    <2> HIDE DEF b
    <2> QED
      BY <2>1, <2>2
  <1> HIDE DEF b
  <1>7. c \in Seq(Seq(DeclType)) /\ Len(c) = 2 /\ c[1] = a[1] /\ c[2] = ps
    <2>1. 1 \in DOMAIN b /\ 1 # Len(b) /\ Len(b) > 0
      BY <1>6
    <2>2. << >> \o ps = ps
      BY <1>3, ConcatEmptySeq
    <2>3. /\ c \in Seq(Seq(DeclType)) /\ Len(c) = Len(b)
          /\ c[1] = b[1] /\ c[Len(b)] = b[Len(b)] \o ps
      BY <2>1, <1>3, <1>6, AddedFacts
    <2> HIDE DEF c
    <2> QED
      BY <2>2, <2>3, <1>6
  <1> HIDE DEF c
  <1>8. e \in Seq(Seq(DeclType)) /\ Len(e) = 3 /\ e[1] = a[1] /\ e[2] = ps /\ e[3] = << >>
    <2>1. 1 \in DOMAIN c /\ 2 \in DOMAIN c /\ Len(c) + 1 = 3
      BY <1>7
    <2>2. /\ e \in Seq(Seq(DeclType)) /\ Len(e) = Len(c) + 1
          /\ e[1] = c[1] /\ e[2] = c[2] /\ e[Len(c) + 1] = << >>
      BY <2>1, <1>7, PushedFacts
    <2> HIDE DEF e
    <2> QED
      BY <2>1, <2>2, <1>7
  <1>9. e = ProcLists(name, params)
    BY DEF e, c, b, a, d, ps, ProcLists
  <1> QED
    BY <1>1, <1>3, <1>4, <1>5, <1>8, <1>9 DEF e, c, b, a, d, ps

LEMMA CheckerTypedStep ==
    ASSUME EnvInv, CheckerTyped, [Next]_vars
    PROVE  CheckerTyped'
  <1>0. /\ EnvTyped /\ Len(env) \in Nat /\ scopes \in Seq(Seq(DeclType))
        /\ Len(scopes) = Len(env) /\ declared \in Nat
    BY EnvLength DEF EnvInv, EnvTyped, CheckerTyped
  <1>1. ASSUME NEW n \in Nat, n <= Len(env), Closed(n), PopScopes(n) PROVE CheckerTyped'
    BY <1>0, <1>1, PopFacts DEF Closed, CheckerTyped
  <1>2. CASE EnterBlock \/ EnterBranch
    <2>1. /\ Len(env') = Len(env) + 1 /\ scopes' = Pushed(scopes)
          /\ UNCHANGED <<hasError, reported>>
      BY <1>0, <1>2, EnterBlockOpens, EnterBranchOpens
         DEF Opened, EnterBlock, EnterBranch, Change
    <2> QED
      BY <2>1, <1>0, PushedFacts DEF CheckerTyped
  <1>3. ASSUME NEW name \in VarNames, EnterFor(name) PROVE CheckerTyped'
    <2>1. /\ Len(env') = Len(env) + 1 /\ declared + 1 \in Ids
          /\ scopes' = Added(Pushed(scopes), <<Decl(name, declared + 1, FALSE)>>)
          /\ UNCHANGED <<hasError, reported>>
      BY <1>0, <1>3, EnterForOpens DEF Opened, EnterFor, Change
    <2>2. <<Decl(name, declared + 1, FALSE)>> \in Seq(DeclType)
      BY <2>1, NewDeclType DEF Names
    <2>3. PICK stack : stack = Pushed(scopes)
      OBVIOUS
    <2>4. scopes' \in Seq(Seq(DeclType)) /\ Len(scopes') = Len(env) + 1
      <3>1. stack \in Seq(Seq(DeclType)) /\ Len(stack) = Len(env) + 1
        BY <2>3, <1>0, PushedFacts
      <3>2. Len(stack) > 0
        BY <3>1, <1>0
      <3>3. scopes' = Added(stack, <<Decl(name, declared + 1, FALSE)>>)
        BY <2>1, <2>3
      <3> QED
        BY <2>2, <3>1, <3>2, <3>3, AddedFacts
    <2> QED
      BY <2>1, <2>4 DEF CheckerTyped
  <1>4. ASSUME NEW name \in VarNames, Declare(name) PROVE CheckerTyped'
    <2>1. /\ Len(env') = Len(env) /\ Len(env) > 0 /\ declared + 1 \in Ids
          /\ scopes' = Added(scopes, <<Decl(name, declared + 1, FALSE)>>)
          /\ UNCHANGED <<hasError, reported>>
      BY <1>0, <1>4, DeclareExtends DEF Extended, Declare, Change
    <2>2. <<Decl(name, declared + 1, FALSE)>> \in Seq(DeclType)
      BY <2>1, NewDeclType DEF Names
    <2>3. scopes' \in Seq(Seq(DeclType)) /\ Len(scopes') = Len(env)
      BY <2>1, <2>2, <1>0, AddedFacts
    <2> QED
      BY <2>1, <2>3 DEF CheckerTyped
  <1>5. ASSUME NEW name \in ProcNames, NEW params \in Parameters,
               BeginProc(name, params)
        PROVE  CheckerTyped'
    <2>1. Len(env') = 3 /\ UNCHANGED <<hasError, reported>>
      BY <1>5, BeginProcOpens DEF ProcOpened, BeginProc, Change
    <2>2. scopes' \in Seq(Seq(DeclType)) /\ Len(scopes') = 3
      BY <1>5, ProcListsFacts
    <2> QED
      BY <2>1, <2>2 DEF CheckerTyped
  <1>6. CASE ExitBlock \/ ExitBranch \/ ExitFor
    <2>1. Closed(1) /\ 1 <= Len(env) /\ PopScopes(1)
      BY <1>6, <1>0, ExitCloses DEF ExitBlock, ExitBranch, ExitFor
    <2> QED
      BY <2>1, <1>1
  <1>7. CASE EndProc
    <2>1. Closed(2) /\ 2 <= Len(env) /\ PopScopes(2)
      BY <1>7, EndProcCloses DEF EndProc
    <2> QED
      BY <2>1, <1>1
  <1>8. CASE EndProgram
    <2>1. Closed(1) /\ 1 <= Len(env) /\ PopScopes(1)
      BY <1>8, EndProgramCloses DEF EndProgram
    <2> QED
      BY <2>1, <1>1
  <1>9. ASSUME NEW name, Use(name) PROVE CheckerTyped'
    <2>1. /\ scopes' = Marked(scopes, name) /\ UNCHANGED <<env, hasError, reported>>
      BY <1>9 DEF Use, Change
    <2>2. CASE scopes' = scopes
      BY <2>1, <2>2 DEF CheckerTyped
    <2>3. ASSUME NEW s, NEW i, MarkedAt(name, s, i),
                 scopes' = [scopes EXCEPT ![s][i].used = TRUE]
          PROVE  scopes' \in Seq(Seq(DeclType)) /\ Len(scopes') = Len(scopes)
      <3> DEFINE d == [scopes[s][i] EXCEPT !.used = TRUE]
                 list == [scopes[s] EXCEPT ![i] = d]
      <3>1. /\ s \in 1 .. Len(scopes) /\ i \in 1 .. Len(scopes[s])
            /\ scopes[s] \in Seq(DeclType) /\ scopes[s][i] \in DeclType
        BY <2>3, <1>0, ListsLength DEF MarkedAt
      <3>2. d \in DeclType
        BY <3>1 DEF DeclType
      <3>3. scopes' = [scopes EXCEPT ![s] = list]
        BY <2>3
      <3> HIDE DEF d
      <3>4. list \in Seq(DeclType)
        BY <3>1, <3>2, ExceptSeq
      <3> HIDE DEF list
      <3> QED
        BY <3>1, <3>3, <3>4, <1>0, ExceptSeq
    <2>4. scopes' \in Seq(Seq(DeclType)) /\ Len(scopes') = Len(scopes)
      BY <2>1, <2>2, <2>3, <1>0, MarkedFacts
    <2> QED
      BY <2>1, <2>4 DEF CheckerTyped
  <1>10. CASE UNCHANGED vars
    BY <1>10 DEF vars, walk, checker, CheckerTyped
  <1> QED
    BY <1>2, <1>3, <1>4, <1>5, <1>6, <1>7, <1>8, <1>9, <1>10 DEF Next, Parameters

LEMMA UniqueIds ==
    ASSUME EnvInv, NEW s \in DOMAIN env, NEW i \in DOMAIN env[s].decls,
           NEW t \in DOMAIN env, NEW j \in DOMAIN env[t].decls,
           env[s].decls[i].id = env[t].decls[j].id
    PROVE  s = t /\ i = j
  <1>1. /\ s \in Nat /\ t \in Nat /\ i \in Nat /\ j \in Nat
        /\ env[s].decls[i].id \in Nat
    BY EnvLength DEF EnvInv, IdsInOrder
  <1>2. /\ ~(s < t \/ (s = t /\ i < j))
        /\ ~(t < s \/ (t = s /\ j < i))
    BY <1>1 DEF EnvInv, IdsInOrder
  <1> QED
    BY <1>1, <1>2

(* A list that is new: empty, or with one declaration.                      *)
LEMMA EmptyMirrors ==
    ASSUME NEW uses
    PROVE  ListMirrors(<< >>, << >>, uses)
BY DEF ListMirrors

LEMMA OnlyMirrors ==
    ASSUME EnvTyped, NEW name \in Names, declared + 1 \in Ids, NEW isFunction \in BOOLEAN
    PROVE  ListMirrors(<<Decl(name, declared + 1, isFunction)>>,
                       <<NamedId(name, declared + 1)>>, read)
  <1>1. declared + 1 \notin read
    BY DEF EnvTyped
  <1> QED
    BY <1>1 DEF ListMirrors, Decl, NamedId

LEMMA DeclaringMirrors ==
    ASSUME EnvInv, CheckerTyped, Mirrors, NEW name \in Names, NEW isFunction \in BOOLEAN,
           NEW s \in DOMAIN env, NEW after \in Seq(NameDecl), declared + 1 \in Ids,
           OneMore(after, env[s].decls, NamedId(name, declared + 1)),
           \A i \in DOMAIN env[s].decls : env[s].decls[i].name # name
    PROVE  ListMirrors(scopes[s] \o <<Decl(name, declared + 1, isFunction)>>, after, read)
  <1>1. declared + 1 \notin read
    BY DEF EnvInv, EnvTyped
  <1>2. Decl(name, declared + 1, isFunction) \in DeclType
    BY NewDeclType
  <1>3. env[s].decls \in Seq(NameDecl) /\ scopes[s] \in Seq(DeclType)
    BY EnvLength, ListsLength DEF EnvInv, CheckerTyped
  <1>4. ListMirrors(scopes[s], env[s].decls, read)
    BY DEF Mirrors
  <1> QED
    BY <1>1, <1>2, <1>3, <1>4, ListGrows

LEMMA UsingMirrors ==
    ASSUME EnvInv, CheckerTyped, Mirrors, NEW name, Use(name)
    PROVE  Mirrors'
  <1>0. /\ EnvTyped /\ Len(env) \in Nat /\ DOMAIN env = 1 .. Len(env)
        /\ DOMAIN scopes = DOMAIN env
        /\ \A s \in DOMAIN env : DOMAIN scopes[s] = DOMAIN env[s].decls
        /\ \A s \in DOMAIN env : DOMAIN env[s].decls = 1 .. Len(env[s].decls)
        /\ \A s \in DOMAIN env : Len(scopes[s]) = Len(env[s].decls)
    BY EnvLength, ListsLength DEF EnvInv, CheckerTyped, Mirrors, ListMirrors
  <1>1. /\ read' = read \union ({Refers(name)} \ {NoVar})
        /\ scopes' = Marked(scopes, name) /\ env' = env
    BY DEF Use, Change
  <1>2. CASE /\ Marked(scopes, name) = scopes
             /\ \A s \in DOMAIN scopes : \A i \in DOMAIN scopes[s] :
                   scopes[s][i].name # name
    <2>1. \A s \in DOMAIN env : \A i \in DOMAIN env[s].decls :
             env[s].decls[i].name # name
      BY <1>0, <1>2 DEF Mirrors, ListMirrors
    <2>2. Refers(name) = NoVar
      BY <2>1, <1>0, RefersToLast
    <2> QED
      BY <2>2, <1>1, <1>2 DEF Mirrors
  <1>3. ASSUME NEW s, NEW i, MarkedAt(name, s, i),
               scopes' = [scopes EXCEPT ![s][i].used = TRUE]
        PROVE  Mirrors'
    <2>1. /\ s \in DOMAIN env /\ i \in DOMAIN env[s].decls
          /\ env[s].decls[i].name = name
      BY <1>0, <1>3 DEF MarkedAt, Mirrors, ListMirrors
    <2>2. PICK t \in DOMAIN env : \E j \in DOMAIN env[t].decls :
                 /\ env[t].decls[j].name = name
                 /\ Refers(name) = env[t].decls[j].id
                 /\ s < t \/ (s = t /\ i <= j)
      <3>1. \E t \in DOMAIN env : \E j \in DOMAIN env[t].decls :
                 /\ env[t].decls[j].name = name
                 /\ Refers(name) = env[t].decls[j].id
                 /\ \A u \in DOMAIN env : \A k \in DOMAIN env[u].decls :
                       env[u].decls[k].name = name => u < t \/ (u = t /\ k <= j)
        BY SMTT(30), <2>1, <1>0, RefersToLast
      <3> QED
        BY <3>1, <2>1
    <2>3. PICK j \in DOMAIN env[t].decls :
                 /\ env[t].decls[j].name = name
                 /\ Refers(name) = env[t].decls[j].id
                 /\ s < t \/ (s = t /\ i <= j)
      BY <2>2
    <2>4. t < s \/ (t = s /\ i <= j)
      <3>1. scopes[t][j].name = name
        BY <2>3 DEF Mirrors, ListMirrors
      <3> QED
        BY <3>1, <1>0, <1>3 DEF MarkedAt
    <2>5. t = s
      BY <2>1, <2>3, <2>4, <1>0
    <2>6. j = i
      BY <2>1, <2>3, <2>5 DEF Mirrors, ListMirrors
    <2>7. Refers(name) = env[s].decls[i].id /\ Refers(name) # NoVar
          /\ read' = read \union {env[s].decls[i].id}
      <3>1. env[s].decls[i].id \in 1 .. declared /\ NoVar = 0
        BY <2>1 DEF EnvInv, IdsInOrder, NoVar
      <3> QED
        BY <3>1, <2>3, <2>5, <2>6, <1>1
    <2> DEFINE d == [scopes[s][i] EXCEPT !.used = TRUE]
               list == [scopes[s] EXCEPT ![i] = d]
    <2>8. /\ scopes \in Seq(Seq(DeclType)) /\ scopes[s] \in Seq(DeclType)
          /\ scopes[s][i] \in DeclType /\ s \in 1 .. Len(scopes)
          /\ i \in 1 .. Len(scopes[s])
      BY <2>1, <1>0, ListsLength DEF CheckerTyped
    <2>9. /\ d.name = scopes[s][i].name /\ d.id = scopes[s][i].id /\ d.used = TRUE
          /\ d \in DeclType
      BY <2>8 DEF DeclType
    <2>10. scopes' = [scopes EXCEPT ![s] = list]
      BY <1>3
    <2> HIDE DEF d
    <2>11. /\ list \in Seq(DeclType) /\ Len(list) = Len(scopes[s]) /\ list[i] = d
           /\ \A k \in DOMAIN scopes[s] : k # i => list[k] = scopes[s][k]
      BY <2>8, <2>9, ExceptSeq
    <2> HIDE DEF list
    <2>12. /\ scopes'[s] = list
           /\ \A k \in DOMAIN scopes : k # s => scopes'[k] = scopes[k]
      BY <2>8, <2>10, <2>11, ExceptSeq
    <2>13. ASSUME NEW k \in DOMAIN env PROVE ListMirrors(scopes'[k], env[k].decls, read')
      <3>1. ListMirrors(scopes[k], env[k].decls, read)
        BY DEF Mirrors
      <3>2. \A l \in DOMAIN env[k].decls :
               env[k].decls[l].id = env[s].decls[i].id => k = s /\ l = i
        BY <2>1, UniqueIds
      <3>3. CASE k = s
        <4>1. Len(list) = Len(env[k].decls)
          BY <3>3, <2>11, <1>0
        <4>2. ASSUME NEW l \in DOMAIN env[k].decls
              PROVE  /\ list[l].name = env[k].decls[l].name
                     /\ list[l].id = env[k].decls[l].id
                     /\ list[l].used <=> env[k].decls[l].id \in read'
          <5>1. CASE l = i
            BY <5>1, <3>1, <3>3, <2>1, <2>7, <2>9, <2>11 DEF ListMirrors
          <5>2. CASE l # i
            <6>1. list[l] = scopes[k][l]
              BY <5>2, <3>3, <2>11, <1>0
            <6>2. env[k].decls[l].id \in read' <=> env[k].decls[l].id \in read
              BY <5>2, <3>2, <2>7
            <6> QED
              BY <6>1, <6>2, <3>1 DEF ListMirrors
          <5> QED
            BY <5>1, <5>2
        <4>3. scopes'[k] = list
          BY <3>3, <2>12
        <4> QED
          BY <4>1, <4>2, <4>3, <3>1 DEF ListMirrors
      <3>4. CASE k # s
        <4>1. scopes'[k] = scopes[k]
          BY <3>4, <2>12, <1>0
        <4>2. \A l \in DOMAIN env[k].decls :
                 env[k].decls[l].id \in read' <=> env[k].decls[l].id \in read
          BY <3>2, <3>4, <2>7
        <4> QED
          BY <4>1, <4>2, <3>1 DEF ListMirrors
      <3> QED
        BY <3>3, <3>4
    <2> QED
      BY <2>13, <1>1 DEF Mirrors
  <1> QED
    BY <1>1, <1>2, <1>3, MarkedFacts

LEMMA MirrorsStep ==
    ASSUME "redeclare" \notin Features, EnvInv, CheckerTyped, Mirrors, [Next]_vars
    PROVE  Mirrors'
  <1>0. /\ EnvTyped /\ Len(env) \in Nat /\ DOMAIN env = 1 .. Len(env)
        /\ scopes \in Seq(Seq(DeclType)) /\ Len(scopes) = Len(env)
        /\ DOMAIN scopes = DOMAIN env /\ declared \in Nat
        /\ \A s \in DOMAIN env : ListMirrors(scopes[s], env[s].decls, read)
        /\ VarNames \subseteq Names /\ ProcNames \subseteq Names
    BY EnvLength, ListsLength DEF EnvInv, CheckerTyped, Mirrors, EnvTyped, Names
  <1>1. ASSUME NEW kind, NEW decls, Opened(kind, decls), UNCHANGED read,
               \A s \in DOMAIN scopes : scopes'[s] = scopes[s],
               ListMirrors(scopes'[Len(env) + 1], decls, read)
        PROVE  Mirrors'
    <2>1. /\ DOMAIN env' = 1 .. Len(env) + 1
          /\ \A s \in DOMAIN env : env'[s] = env[s]
          /\ env'[Len(env) + 1].decls = decls
      BY <1>0, <1>1 DEF Opened
    <2>2. ASSUME NEW s \in DOMAIN env'
          PROVE  ListMirrors(scopes'[s], env'[s].decls, read')
      <3>1. CASE s \in DOMAIN env
        BY <3>1, <2>1, <1>0, <1>1
      <3>2. CASE s = Len(env) + 1
        BY <3>2, <2>1, <1>1
      <3> QED
        BY <3>1, <3>2, <2>1, <1>0
    <2> QED
      BY <2>2 DEF Mirrors
  <1>2. CASE EnterBlock \/ EnterBranch
    <2>1. PICK kind : Opened(kind, << >>) /\ UNCHANGED read
      BY <1>0, <1>2, EnterBlockOpens, EnterBranchOpens
    <2>2. scopes' = Pushed(scopes)
      BY <1>2 DEF EnterBlock, EnterBranch, Change
    <2>3. /\ \A s \in DOMAIN scopes : scopes'[s] = scopes[s]
          /\ scopes'[Len(env) + 1] = << >>
      BY <2>2, <1>0, PushedFacts
    <2> QED
      BY <2>1, <2>3, <1>1, EmptyMirrors
  <1>3. ASSUME NEW name \in VarNames, EnterFor(name) PROVE Mirrors'
    <2> DEFINE d == <<Decl(name, declared + 1, FALSE)>>
    <2>1. /\ Opened("for", <<NamedId(name, declared + 1)>>) /\ UNCHANGED read
          /\ declared + 1 \in Ids /\ scopes' = Added(Pushed(scopes), d)
      BY <1>0, <1>3, EnterForOpens DEF EnterFor, Change
    <2>2. ListMirrors(d, <<NamedId(name, declared + 1)>>, read)
      BY <2>1, <1>0, OnlyMirrors
    <2>3. d \in Seq(DeclType) /\ << >> \o d = d
      <3>1. d \in Seq(DeclType)
        BY <2>1, <1>0, NewDeclType
      <3> HIDE DEF d
      <3> QED
        BY <3>1, ConcatEmptySeq
    <2> HIDE DEF d
    <2>4. PICK stack : stack = Pushed(scopes)
      OBVIOUS
    <2>5. /\ stack \in Seq(Seq(DeclType)) /\ Len(stack) = Len(env) + 1
          /\ \A s \in DOMAIN scopes : stack[s] = scopes[s]
          /\ stack[Len(env) + 1] = << >>
      BY <2>4, <1>0, PushedFacts
    <2>6. Len(stack) > 0 /\ \A s \in DOMAIN scopes : s \in DOMAIN stack /\ s # Len(stack)
      BY <2>5, <1>0
    <2>7. /\ \A s \in DOMAIN stack : s # Len(stack) => scopes'[s] = stack[s]
          /\ scopes'[Len(stack)] = stack[Len(stack)] \o d
      BY <2>1, <2>3, <2>4, <2>5, <2>6, AddedFacts
    <2>8. /\ \A s \in DOMAIN scopes : scopes'[s] = scopes[s]
          /\ scopes'[Len(env) + 1] = d
      BY <2>3, <2>5, <2>6, <2>7
    <2> QED
      BY <2>1, <2>2, <2>8, <1>1
  <1>4. ASSUME NEW name \in VarNames, Declare(name) PROVE Mirrors'
    <2> DEFINE d == <<Decl(name, declared + 1, FALSE)>>
               n == Len(env)
    <2>1. /\ Extended(NamedId(name, declared + 1)) /\ UNCHANGED read
          /\ declared + 1 \in Ids /\ scopes' = Added(scopes, d)
      BY <1>0, <1>4, DeclareExtends DEF Declare, Change
    <2>2. /\ n \in DOMAIN env /\ n > 0 /\ DOMAIN env' = DOMAIN env
          /\ \A s \in DOMAIN env : s # n => env'[s] = env[s]
          /\ OneMore(env'[n].decls, env[n].decls, NamedId(name, declared + 1))
          /\ env'[n] \in ScopeType
      BY <2>1, <1>0 DEF Extended
    <2>3. env'[n].decls \in Seq(NameDecl)
      BY <2>2 DEF ScopeType
    <2>4. \A i \in DOMAIN env[n].decls : env[n].decls[i].name # name
      <3>1. \A x \in ToSet(env[n].decls) : x.name \notin ToSet(<<name>>)
        BY <1>4 DEF Declare, MayDeclare, Current, Last
      <3>2. name \in ToSet(<<name>>)
        BY DEF ToSet
      <3> QED
        BY <3>1, <3>2 DEF ToSet
    <2>5. d \in Seq(DeclType)
      BY <2>1, <1>0, NewDeclType
    <2>6. /\ \A s \in DOMAIN env : s # n => scopes'[s] = scopes[s]
          /\ scopes'[n] = scopes[n] \o d
      <3> HIDE DEF d
      <3>1. Len(scopes) > 0 /\ Len(scopes) = n
        BY <2>2, <1>0
      <3> HIDE DEF n
      <3>2. /\ \A s \in DOMAIN scopes : s # Len(scopes) => scopes'[s] = scopes[s]
            /\ scopes'[Len(scopes)] = scopes[Len(scopes)] \o d
        BY <2>1, <2>5, <3>1, <1>0, AddedFacts
      <3> QED
        BY <3>1, <3>2, <1>0
    <2>7. ListMirrors(scopes[n] \o d, env'[n].decls, read)
      <3> HIDE DEF n
      <3> QED
        BY <2>1, <2>2, <2>3, <2>4, <1>0, DeclaringMirrors
    <2> HIDE DEF d, n
    <2> QED
      BY <2>1, <2>2, <2>6, <2>7, <1>0 DEF Mirrors
  <1>5. ASSUME NEW name \in ProcNames, NEW params \in Parameters,
               BeginProc(name, params)
        PROVE  Mirrors'
    <2> DEFINE ps == [i \in DOMAIN params |-> Decl(params[i], declared + 1 + i, FALSE)]
    <2>1. /\ ProcOpened(NamedId(name, declared + 1), ParamDecls(params))
          /\ UNCHANGED read /\ declared + 1 \in Ids
          /\ Len(ParamDecls(params)) = Len(params)
          /\ ParamDecls(params) \in Seq(NameDecl)
      BY <1>5, BeginProcOpens
    <2>2. /\ Len(params) \in 0 .. 1 /\ DOMAIN params = 1 .. Len(params)
      BY ParameterFacts
    <2>3. /\ scopes'[1] = scopes[1] \o <<Decl(name, declared + 1, TRUE)>>
          /\ scopes'[2] = ps /\ Len(ps) = Len(params)
          /\ scopes'[3] = << >>
      <3>1. PICK lists : lists = ProcLists(name, params)
        OBVIOUS
      <3>2. /\ scopes' = lists
            /\ lists[1] = scopes[1] \o <<Decl(name, declared + 1, TRUE)>>
            /\ lists[2] = ps /\ Len(ps) = Len(params) /\ lists[3] = << >>
        BY <3>1, <1>5, ProcListsFacts
      <3> HIDE DEF ps
      <3> QED
        BY <3>2
    <2>4. /\ Len(env) = 1 /\ 1 \in DOMAIN env /\ DOMAIN env' = {1, 2, 3}
          /\ OneMore(env'[1].decls, env[1].decls, NamedId(name, declared + 1))
          /\ env'[1] \in ScopeType
          /\ env'[2].decls = ParamDecls(params) /\ env'[3].decls = << >>
      <3>1. /\ Len(env) = 1 /\ Len(env') = 3 /\ env' \in Seq(ScopeType)
            /\ OneMore(env'[1].decls, env[1].decls, NamedId(name, declared + 1))
            /\ env'[2].decls = ParamDecls(params) /\ env'[3].decls = << >>
        BY <2>1 DEF ProcOpened
      <3>2. DOMAIN env' = 1 .. 3 /\ 1 .. 3 = {1, 2, 3} /\ 1 \in DOMAIN env
        BY <3>1, <1>0
      <3> QED
        BY <3>1, <3>2
    <2>5. env'[1].decls \in Seq(NameDecl)
      BY <2>4 DEF ScopeType
    <2>6. \A i \in DOMAIN env[1].decls : env[1].decls[i].name # name
      <3>1. \A x \in ToSet(env[1].decls) : x.name \notin ToSet(<<name>>)
        BY <1>5, <2>4 DEF BeginProc, MayDeclare, Current, Last
      <3>2. name \in ToSet(<<name>>)
        BY DEF ToSet
      <3> QED
        BY <3>1, <3>2 DEF ToSet
    <2>7. ListMirrors(scopes'[1], env'[1].decls, read)
      <3>1. PICK after : after = env'[1].decls
        OBVIOUS
      <3>2. /\ after \in Seq(NameDecl) /\ name \in Names /\ TRUE \in BOOLEAN
            /\ OneMore(after, env[1].decls, NamedId(name, declared + 1))
        BY <3>1, <2>4, <2>5, <1>0
      <3>3. ListMirrors(scopes[1] \o <<Decl(name, declared + 1, TRUE)>>, after, read)
        BY <3>2, <2>1, <2>4, <2>6, DeclaringMirrors
      <3> HIDE DEF ps
      <3> QED
        BY <3>1, <3>3, <2>3
    <2>8. ListMirrors(ps, ParamDecls(params), read)
      <3>1. \A i \in 1 .. Len(params) : declared + 1 + i \notin read
        BY <1>0 DEF EnvTyped
      <3>2. \A i \in DOMAIN ParamDecls(params) :
               /\ ps[i].name = ParamDecls(params)[i].name
               /\ ps[i].id = ParamDecls(params)[i].id
               /\ ps[i].used <=> ParamDecls(params)[i].id \in read
        BY <3>1, <2>2 DEF ParamDecls, NamedId, Decl
      <3>3. \A i, j \in DOMAIN ParamDecls(params) : i = j
        BY <2>2 DEF ParamDecls
      <3> HIDE DEF ps
      <3> QED
        BY <3>2, <3>3, <2>1, <2>3 DEF ListMirrors
    <2> HIDE DEF ps
    <2> QED
      BY <2>1, <2>3, <2>4, <2>7, <2>8, EmptyMirrors DEF Mirrors
  <1>6. ASSUME NEW n \in Nat, n <= Len(env), Closed(n), PopScopes(n), UNCHANGED read
        PROVE  Mirrors'
    <2>1. \A s \in DOMAIN scopes' : s \in DOMAIN scopes /\ scopes'[s] = scopes[s]
      BY <1>0, <1>6, PopFacts
    <2>2. Len(scopes') = Len(env') /\ scopes' \in Seq(Seq(DeclType)) /\ env' \in Seq(ScopeType)
      BY <1>0, <1>6, PopFacts DEF Closed
    <2>3. DOMAIN scopes' = DOMAIN env'
      BY <2>2
    <2>4. \A s \in DOMAIN env' : env'[s] = env[s]
      BY <1>6 DEF Closed
    <2> QED
      BY <2>1, <2>3, <2>4, <1>0, <1>6 DEF Mirrors
  <1>7. CASE ExitBlock \/ ExitBranch \/ ExitFor
    <2>1. Closed(1) /\ 1 <= Len(env) /\ PopScopes(1) /\ UNCHANGED read
      BY <1>7, <1>0, ExitCloses DEF ExitBlock, ExitBranch, ExitFor
    <2> QED
      BY <2>1, <1>6
  <1>8. CASE EndProc
    <2>1. Closed(2) /\ 2 <= Len(env) /\ PopScopes(2) /\ UNCHANGED read
      BY <1>8, EndProcCloses DEF EndProc
    <2> QED
      BY <2>1, <1>6
  <1>9. CASE EndProgram
    <2>1. Closed(1) /\ 1 <= Len(env) /\ PopScopes(1) /\ UNCHANGED read
      BY <1>9, EndProgramCloses DEF EndProgram
    <2> QED
      BY <2>1, <1>6
  <1>10. ASSUME NEW name, Use(name) PROVE Mirrors'
    BY <1>10, UsingMirrors
  <1>11. CASE UNCHANGED vars
    BY <1>11 DEF vars, walk, checker, Mirrors
  <1> QED
    BY <1>2, <1>3, <1>4, <1>5, <1>7, <1>8, <1>9, <1>10, <1>11 DEF Next, Parameters

(* What is reported.                                                       *)
IsLive(x) ==
    \E s \in DOMAIN env : \E i \in DOMAIN env[s].decls : env[s].decls[i].id = x

LEMMA LiveIff ==
    \A x : (x \in Live <=> IsLive(x)) /\ (x \in Live' <=> IsLive(x)')
BY DEF Live, IsLive, ToSet

LEMMA ReportedPointwise ==
    /\ ReportedIffUnread <=>
          /\ \A x : x \in reported <=> x \in 1 .. declared /\ ~IsLive(x) /\ x \notin read
          /\ hasError <=> \E x : x \in reported
    /\ ReportedIffUnread' <=>
          /\ \A x : x \in reported' <=> /\ x \in 1 .. declared' /\ ~IsLive(x)'
                                        /\ x \notin read'
          /\ hasError' <=> \E x : x \in reported'
BY LiveIff DEF ReportedIffUnread

LEMMA GrowingReportsNothing ==
    ASSUME EnvInv, ReportedIffUnread, Grows, UNCHANGED <<read, hasError, reported>>,
           \A x \in declared + 1 .. declared' : IsLive(x)'
    PROVE  ReportedIffUnread'
  <1>0. /\ declared \in Nat /\ declared' \in Nat /\ declared <= declared'
        /\ read \subseteq 1 .. declared
        /\ \A s \in DOMAIN env : \A i \in DOMAIN env[s].decls :
              env[s].decls[i].id \in 1 .. declared
    BY DEF EnvInv, EnvTyped, IdsInOrder, Grows
  <1>1. ASSUME NEW x, IsLive(x) PROVE IsLive(x)'
    BY <1>1 DEF IsLive, Grows, Kept
  <1>2. ASSUME NEW x, IsLive(x)' PROVE IsLive(x) \/ x \in declared + 1 .. declared'
    BY <1>2 DEF IsLive, Grows, NewBehind, IsOld, Kept
  <1>3. \A x : IsLive(x) => x \in 1 .. declared
    BY <1>0 DEF IsLive
  <1>4. \A x : x \in 1 .. declared' <=> x \in 1 .. declared \/ x \in declared + 1 .. declared'
    BY <1>0
  <1>5. \A x : x \in 1 .. declared' /\ ~IsLive(x)' <=> x \in 1 .. declared /\ ~IsLive(x)
    <2>1. \A x : x \in 1 .. declared => x \notin declared + 1 .. declared'
      BY <1>0
    <2> QED
      BY <2>1, <1>1, <1>2, <1>3, <1>4
  <1> QED
    BY <1>5, ReportedPointwise

LEMMA PoppingReports ==
    ASSUME EnvInv, CheckerTyped, Mirrors, ReportedIffUnread,
           NEW n \in Nat, n <= Len(env), Closed(n), PopScopes(n),
           UNCHANGED <<read, declared>>
    PROVE  ReportedIffUnread'
  <1>0. /\ EnvTyped /\ Len(env) \in Nat /\ DOMAIN env = 1 .. Len(env)
        /\ Len(scopes) = Len(env) /\ DOMAIN scopes = DOMAIN env
        /\ \A s \in DOMAIN env : DOMAIN scopes[s] = DOMAIN env[s].decls
    BY EnvLength, ListsLength DEF EnvInv, CheckerTyped, Mirrors, ListMirrors
  <1>1. /\ DOMAIN env' = 1 .. Len(env) - n
        /\ \A s \in DOMAIN env' : env'[s] = env[s]
    BY <1>0 DEF Closed
  <1>2. /\ \A x : x \in reported' <=> x \in reported \/ GoneUnused(n, x)
        /\ hasError' <=> hasError \/ \E x : GoneUnused(n, x)
    BY <1>0, PopFacts
  <1>3. ASSUME NEW x
        PROVE  GoneUnused(n, x) <=> IsLive(x) /\ ~IsLive(x)' /\ x \notin read
    <2>1. ASSUME GoneUnused(n, x) PROVE IsLive(x) /\ ~IsLive(x)' /\ x \notin read
      <3>1. PICK s \in DOMAIN scopes : s > Len(scopes) - n /\ \E i \in DOMAIN scopes[s] :
                    ~scopes[s][i].used /\ scopes[s][i].id = x
        BY <2>1 DEF GoneUnused
      <3>2. PICK i \in DOMAIN scopes[s] : ~scopes[s][i].used /\ scopes[s][i].id = x
        BY <3>1
      <3>3. /\ s \in DOMAIN env /\ i \in DOMAIN env[s].decls
            /\ env[s].decls[i].id = x /\ x \notin read
        BY <3>2, <1>0 DEF Mirrors, ListMirrors
      <3>4. ASSUME IsLive(x)' PROVE FALSE
        <4>1. PICK t \in DOMAIN env' : \E j \in DOMAIN env'[t].decls :
                      env'[t].decls[j].id = x
          BY <3>4 DEF IsLive
        <4>2. /\ t \in DOMAIN env /\ \E j \in DOMAIN env[t].decls : env[t].decls[j].id = x
              /\ t <= Len(env) - n /\ t \in Nat
          BY <4>1, <1>0, <1>1
        <4>3. s = t
          BY <4>2, <3>3, UniqueIds
        <4> QED
          BY <4>2, <4>3, <3>1, <1>0
      <3> QED
        BY <3>3, <3>4 DEF IsLive
    <2>2. ASSUME IsLive(x), ~IsLive(x)', x \notin read PROVE GoneUnused(n, x)
      <3>1. PICK s \in DOMAIN env : \E i \in DOMAIN env[s].decls : env[s].decls[i].id = x
        BY <2>2 DEF IsLive
      <3>2. PICK i \in DOMAIN env[s].decls : env[s].decls[i].id = x
        BY <3>1
      <3>3. s \notin DOMAIN env'
        BY <3>2, <2>2, <1>1 DEF IsLive
      <3>4. s > Len(scopes) - n /\ s \in DOMAIN scopes
        BY <3>3, <1>0, <1>1
      <3>5. i \in DOMAIN scopes[s] /\ ~scopes[s][i].used /\ scopes[s][i].id = x
        BY <3>2, <2>2, <1>0 DEF Mirrors, ListMirrors
      <3> QED
        BY <3>4, <3>5 DEF GoneUnused
    <2> QED
      BY <2>1, <2>2
  <1>4. \A x : IsLive(x)' => IsLive(x)
    BY <1>0, <1>1 DEF IsLive
  <1>5. \A x : IsLive(x) => x \in 1 .. declared
    BY DEF IsLive, EnvInv, IdsInOrder
  <1>6. \A x : x \in reported' <=> x \in 1 .. declared /\ ~IsLive(x)' /\ x \notin read
    BY <1>2, <1>3, <1>4, <1>5, ReportedPointwise
  <1>7. hasError' <=> \E x : x \in reported'
    BY <1>2, ReportedPointwise
  <1> QED
    BY <1>6, <1>7, ReportedPointwise

\* A new declaration is live.
LEMMA NewIsLive ==
    ASSUME EnvInv
    PROVE  /\ EnterBlock \/ EnterBranch => declared' = declared
           /\ \A name \in VarNames :
                 EnterFor(name) \/ Declare(name) =>
                    /\ declared' = declared + 1
                    /\ \A x : x = declared + 1 => IsLive(x)'
           /\ \A name \in ProcNames, params \in Parameters :
                 BeginProc(name, params) =>
                    \A x \in declared + 1 .. declared' : IsLive(x)'
  <1>0. /\ EnvTyped /\ Len(env) \in Nat /\ declared \in Nat
        /\ \A s \in DOMAIN env : Len(env[s].decls) \in Nat
    BY EnvLength DEF EnvInv, EnvTyped
  <1>1. EnterBlock \/ EnterBranch => declared' = declared
    BY <1>0, EnterBlockOpens, EnterBranchOpens
  <1>2. ASSUME NEW name \in VarNames, EnterFor(name)
        PROVE  declared' = declared + 1 /\ \A x : x = declared + 1 => IsLive(x)'
    <2>1. Opened("for", <<NamedId(name, declared + 1)>>) /\ declared' = declared + 1
      BY <1>0, <1>2, EnterForOpens
    <2>2. /\ Len(env) + 1 \in DOMAIN env'
          /\ env'[Len(env) + 1].decls = <<NamedId(name, declared + 1)>>
      BY <2>1, <1>0 DEF Opened
    <2>3. /\ 1 \in DOMAIN <<NamedId(name, declared + 1)>>
          /\ <<NamedId(name, declared + 1)>>[1].id = declared + 1
      BY DEF NamedId
    <2> QED
      BY <2>1, <2>2, <2>3 DEF IsLive
  <1>3. ASSUME NEW name, NEW id, NEW after, NEW before, after \in Seq(NameDecl),
               Len(before) \in Nat, OneMore(after, before, NamedId(name, id))
        PROVE  Len(before) + 1 \in DOMAIN after /\ after[Len(before) + 1].id = id
    BY <1>3 DEF OneMore, NamedId
  <1>4. ASSUME NEW name \in VarNames, Declare(name)
        PROVE  declared' = declared + 1 /\ \A x : x = declared + 1 => IsLive(x)'
    <2>1. Extended(NamedId(name, declared + 1)) /\ declared' = declared + 1
      BY <1>0, <1>4, DeclareExtends
    <2>2. /\ Len(env) \in DOMAIN env' /\ env'[Len(env)] \in ScopeType
          /\ Len(env[Len(env)].decls) \in Nat
          /\ OneMore(env'[Len(env)].decls, env[Len(env)].decls, NamedId(name, declared + 1))
      BY <2>1, <1>0, EnvLength DEF Extended
    <2>3. env'[Len(env)].decls \in Seq(NameDecl)
      BY <2>2 DEF ScopeType
    <2>4. \E i \in DOMAIN env'[Len(env)].decls : env'[Len(env)].decls[i].id = declared + 1
      BY <2>2, <2>3, <1>3
    <2> QED
      BY <2>1, <2>2, <2>4 DEF IsLive
  <1>5. ASSUME NEW name \in ProcNames, NEW params \in Parameters,
               BeginProc(name, params), NEW x \in declared + 1 .. declared'
        PROVE  IsLive(x)'
    <2>1. /\ ProcOpened(NamedId(name, declared + 1), ParamDecls(params))
          /\ declared' = declared + 1 + Len(params)
      BY <1>5, BeginProcOpens
    <2>2. /\ Len(env) = 1 /\ Len(env') = 3 /\ env' \in Seq(ScopeType)
          /\ OneMore(env'[1].decls, env[1].decls, NamedId(name, declared + 1))
          /\ env'[2].decls = ParamDecls(params)
      BY <2>1 DEF ProcOpened
    <2>3. 1 \in DOMAIN env' /\ 2 \in DOMAIN env' /\ Len(env[1].decls) \in Nat
          /\ env'[1] \in ScopeType
      BY <2>2, <1>0, EnvLength
    <2>4. env'[1].decls \in Seq(NameDecl)
      BY <2>3 DEF ScopeType
    <2>5. CASE x = declared + 1
      <3>1. \E i \in DOMAIN env'[1].decls : env'[1].decls[i].id = declared + 1
        BY <2>2, <2>3, <2>4, <1>3
      <3> QED
        BY <3>1, <2>3, <2>5 DEF IsLive
    <2>6. CASE x # declared + 1
      <3>1. Len(params) \in 0 .. 1 /\ DOMAIN params = 1 .. Len(params)
        BY ParameterFacts
      <3>2. 1 \in DOMAIN params /\ x = declared + 1 + 1
        <4> DEFINE n == Len(params)
        <4>1. n \in {0, 1} /\ x \in declared + 1 .. declared + 1 + n
          BY <3>1, <2>1
        <4> HIDE DEF n
        <4>2. n = 1 /\ x = declared + 1 + 1
          BY <4>1, <2>6, <1>0
        <4> QED
          BY <4>2, <3>1 DEF n
      <3>3. 1 \in DOMAIN ParamDecls(params) /\ ParamDecls(params)[1].id = x
        BY <3>2 DEF ParamDecls, NamedId
      <3> QED
        BY <3>3, <2>2, <2>3 DEF IsLive
    <2> QED
      BY <2>5, <2>6
  <1> QED
    BY <1>1, <1>2, <1>4, <1>5

LEMMA ReportedStep ==
    ASSUME EnvInv, CheckerTyped, Mirrors, ReportedIffUnread, [Next]_vars
    PROVE  ReportedIffUnread'
  <1>0. /\ EnvTyped /\ declared \in Nat
        /\ \A x \in declared + 1 .. declared : FALSE
        /\ \A x \in declared + 1 .. declared + 1 : x = declared + 1
    BY DEF EnvInv, EnvTyped
  <1>1. CASE EnterBlock \/ EnterBranch
    <2>1. UNCHANGED <<read, hasError, reported>>
      BY <1>1 DEF EnterBlock, EnterBranch, Open, Change
    <2> QED
      BY <2>1, <1>0, <1>1, GrowingSteps, NewIsLive, GrowingReportsNothing
  <1>2. ASSUME NEW name \in VarNames, EnterFor(name) \/ Declare(name)
        PROVE  ReportedIffUnread'
    <2>1. UNCHANGED <<read, hasError, reported>>
      BY <1>2 DEF EnterFor, Declare, Open, Change
    <2>2. Grows /\ \A x \in declared + 1 .. declared' : IsLive(x)'
      BY <1>0, <1>2, GrowingSteps, NewIsLive
    <2> QED
      BY <2>1, <2>2, GrowingReportsNothing
  <1>3. ASSUME NEW name \in ProcNames, NEW params \in Parameters,
               BeginProc(name, params)
        PROVE  ReportedIffUnread'
    <2>1. UNCHANGED <<read, hasError, reported>>
      BY <1>3 DEF BeginProc, Change
    <2> QED
      BY <2>1, <1>3, GrowingSteps, NewIsLive, GrowingReportsNothing
  <1>4. CASE ExitBlock \/ ExitBranch \/ ExitFor
    <2>1. /\ Closed(1) /\ 1 <= Len(env) /\ PopScopes(1) /\ UNCHANGED <<read, declared>>
      BY <1>0, <1>4, ExitCloses, EnvLength DEF ExitBlock, ExitBranch, ExitFor
    <2> QED
      BY <2>1, PoppingReports
  <1>5. CASE EndProc
    <2>1. Closed(2) /\ 2 <= Len(env) /\ PopScopes(2) /\ UNCHANGED <<read, declared>>
      BY <1>5, EndProcCloses DEF EndProc
    <2> QED
      BY <2>1, PoppingReports
  <1>6. CASE EndProgram
    <2>1. Closed(1) /\ 1 <= Len(env) /\ PopScopes(1) /\ UNCHANGED <<read, declared>>
      BY <1>6, EndProgramCloses DEF EndProgram
    <2> QED
      BY <2>1, PoppingReports
  <1>7. ASSUME NEW name, Use(name) PROVE ReportedIffUnread'
    <2>1. /\ read' = read \union ({Refers(name)} \ {NoVar})
          /\ UNCHANGED <<env, declared, hasError, reported>>
      BY <1>7 DEF Use, Change
    <2>2. Refers(name) = NoVar \/ IsLive(Refers(name))
      BY <1>0, RefersToLast DEF IsLive
    <2>3. \A x : IsLive(x)' <=> IsLive(x)
      BY <2>1 DEF IsLive
    <2>4. \A x : ~IsLive(x) => (x \in read' <=> x \in read)
      BY <2>1, <2>2
    <2> QED
      BY <2>1, <2>3, <2>4, ReportedPointwise
  <1>8. CASE UNCHANGED vars
    BY <1>8 DEF vars, walk, checker, ReportedIffUnread, Live
  <1> QED
    BY <1>1, <1>2, <1>3, <1>4, <1>5, <1>6, <1>7, <1>8 DEF Next, Parameters

LEMMA ReportsInit ==
    ASSUME Init
    PROVE  EnvInv /\ CheckerTyped /\ Mirrors /\ ReportedIffUnread
  <1> DEFINE program == Scope("program", << >>)
  <1>1. /\ program \in ScopeType /\ program.kind = "program" /\ program.decls = << >>
        /\ << >> \in Seq(DeclType)
    BY DEF Scope, ScopeType, Kinds
  <1>2. /\ env = <<program>> /\ scopes = << << >> >> /\ declared = 0 /\ done = FALSE
        /\ read = {} /\ loose = {} /\ hasError = FALSE /\ reported = {}
    BY DEF Init, CheckerInit
  <1> HIDE DEF program
  <1>3. /\ env \in Seq(ScopeType) /\ Len(env) = 1 /\ DOMAIN env = {1}
        /\ env[1].kind = "program" /\ env[1].decls = << >>
        /\ scopes \in Seq(Seq(DeclType)) /\ Len(scopes) = 1 /\ scopes[1] = << >>
    BY <1>1, <1>2
  <1>4. EnvInv
    <2>1. EnvTyped
      <3>1. env # << >> /\ done = FALSE /\ 0 \in 0 .. MaxDecls
        BY <1>2, <1>3
      <3> QED
        BY <3>1, <1>2, <1>3 DEF EnvTyped
    <2>2. IdsInOrder
      BY <1>3 DEF IdsInOrder
    <2>3. KindsInPlace
      BY <1>3 DEF KindsInPlace
    <2> QED
      BY <2>1, <2>2, <2>3 DEF EnvInv
  <1>5. CheckerTyped /\ Mirrors
    BY <1>2, <1>3, EmptyMirrors DEF CheckerTyped, Mirrors
  <1>6. ReportedIffUnread
    BY <1>2, ReportedPointwise
  <1> QED
    BY <1>4, <1>5, <1>6

(* The checker reports a declaration when its scope ends exactly if no use  *)
(* refers to it, and fails exactly if it has reported one (popScope,        *)
(* markUsed), as long as no scope declares a name twice.                    *)
THEOREM ReportsCorrect ==
    ASSUME "redeclare" \notin Features
    PROVE  Spec => []ReportedIffUnread
  <1> DEFINE Inv == EnvInv /\ CheckerTyped /\ Mirrors /\ ReportedIffUnread
  <1>1. Init => Inv
    BY ReportsInit
  <1>2. Inv /\ [Next]_vars => Inv'
    BY EnvStep, CheckerTypedStep, MirrorsStep, ReportedStep
  <1>3. Inv => ReportedIffUnread
    OBVIOUS
  <1> HIDE DEF Inv
  <1> QED
    BY <1>1, <1>2, <1>3, PTL DEF Spec
=============================================================================
