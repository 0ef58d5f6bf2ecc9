---------------------------- MODULE CodegenProof ----------------------------
(***************************************************************************)
(* Theorems about Codegen, for every bound and every set of features: what *)
(* the recursion keeps, the insertion point, the loop contexts and the     *)
(* incoming blocks of the phis, whatever the program contains, and, for    *)
(* the programs the hypotheses name, that errors are reported and that     *)
(* every block is terminated once.                                         *)
(***************************************************************************)
EXTENDS Codegen, SequenceTheorems, TLAPS

USE ConstantAssumption

-----------------------------------------------------------------------------
(* The recursion is a sequence of frames, changed in three ways.           *)

LEMMA TopInRange ==
    ASSUME frames \in Seq(FrameType), frames # << >>
    PROVE  Len(frames) \in Nat \ {0} /\ Top \in FrameType
BY DEF Top

LEMMA PushType ==
    ASSUME frames \in Seq(FrameType), NEW f \in FrameType, Push(f)
    PROVE  /\ frames' \in Seq(FrameType)
           /\ Len(frames') = Len(frames) + 1
           /\ \A i \in DOMAIN frames : frames'[i] = frames[i]
           /\ frames'[Len(frames')] = f
           /\ DOMAIN frames' = DOMAIN frames \union {Len(frames) + 1}
BY DEF Push

LEMMA FrontLength ==
    ASSUME NEW n \in Nat \ {0}, NEW l, l = IF 1 <= n - 1 THEN n - 1 - 1 + 1 ELSE 0
    PROVE  l = n - 1
OBVIOUS

LEMMA FrontFacts ==
    ASSUME NEW S, NEW s \in Seq(S), s # << >>, NEW t, t = SubSeq(s, 1, Len(s) - 1)
    PROVE  /\ t \in Seq(S)
           /\ Len(t) = Len(s) - 1
           /\ \A i \in 1 .. Len(t) : t[i] = s[i]
<1>1. Len(s) \in Nat \ {0} /\ \A i \in 1 .. Len(s) - 1 : s[i] \in S
  OBVIOUS
<1>2. /\ t \in Seq(S)
      /\ Len(t) = IF 1 <= Len(s) - 1 THEN Len(s) - 1 - 1 + 1 ELSE 0
      /\ \A i \in 1 .. Len(s) - 1 - 1 + 1 : t[i] = s[1 + i - 1]
  BY <1>1, SubSeqProperties
<1>3. Len(t) = Len(s) - 1
  BY <1>1, <1>2, FrontLength
<1>4. \A i \in 1 .. Len(t) : t[i] = s[i]
  BY <1>1, <1>2, <1>3
<1> QED
  BY <1>2, <1>3, <1>4

LEMMA PopType ==
    ASSUME frames \in Seq(FrameType), frames # << >>, Pop
    PROVE  /\ frames' \in Seq(FrameType)
           /\ Len(frames') = Len(frames) - 1
           /\ \A i \in DOMAIN frames' : i \in DOMAIN frames /\ frames'[i] = frames[i]
           /\ DOMAIN frames' = DOMAIN frames \ {Len(frames)}
<1>1. /\ frames' \in Seq(FrameType)
      /\ Len(frames') = Len(frames) - 1
      /\ \A i \in 1 .. Len(frames') : frames'[i] = frames[i]
  BY ZenonT(30), FrontFacts DEF Pop
<1>2. Len(frames) \in Nat /\ DOMAIN frames = 1 .. Len(frames)
      /\ DOMAIN frames' = 1 .. Len(frames')
  BY <1>1
<1> QED
  BY <1>1, <1>2

LEMMA BecomeType ==
    ASSUME frames \in Seq(FrameType), frames # << >>, NEW f \in FrameType, Become(f)
    PROVE  /\ frames' \in Seq(FrameType)
           /\ Len(frames') = Len(frames)
           /\ \A i \in DOMAIN frames : i # Len(frames) => frames'[i] = frames[i]
           /\ frames'[Len(frames)] = f
           /\ DOMAIN frames' = DOMAIN frames
BY DEF Become

LEMMA FrameHasType ==
    ASSUME NEW kind \in {"main", "fn", "if", "ifexpr"} \union LoopKinds,
           NEW phase \in {"pre", "cond", "body", "inc", "then", "else", "last"}
    PROVE  Frame(kind, phase) \in FrameType
BY DEF Frame, FrameType, NoBlock
-----------------------------------------------------------------------------
(* What the invariant says of the place a step starts from.                *)

LEMMA InsertIsOwn ==
    ASSUME IndInv, frames # << >>
    PROVE  /\ insert \in OwnBlocks /\ insert \in Blocks
           /\ curFn # NoFunction /\ curFn \in Functions
           /\ Len(frames) \in Nat \ {0} /\ Top \in FrameType
<1>1. Len(frames) \in Nat \ {0} /\ Top \in FrameType
  BY TopInRange DEF IndInv, TypeOK
<1>2. insert \in OwnBlocks
  BY DEF IndInv, Position
<1>3. insert \in Blocks /\ blockFn[insert] = curFn /\ curFn \in Functions
  BY <1>2 DEF OwnBlocks, Blocks, IndInv, TypeOK, ModuleType, EmitterType
<1>4. curFn # NoFunction
  BY <1>2, <1>3 DEF IndInv, ModuleShape, OwnBlocks, TypeOK, ModuleType
<1> QED
  BY <1>1, <1>2, <1>3, <1>4

LEMMA TopShape ==
    ASSUME IndInv, frames # << >>
    PROVE  /\ Top.kind \in {"main", "fn"} <=> Len(frames) = 1
           /\ Top.kind \in {"if", "ifexpr"} /\ Top.phase # "cond" =>
                {Top.body, Top.next, Top.join} \subseteq OwnBlocks
           /\ Top.kind \in {"if", "ifexpr"} /\ Top.phase = "else" =>
                Top.head \in OwnBlocks
           /\ Top.kind \in LoopKinds =>
                {Top.head, Top.body, Top.next, Top.join} \subseteq OwnBlocks
<1>1. Len(frames) \in DOMAIN frames
  BY TopInRange DEF IndInv, TypeOK
<1> QED
  BY <1>1 DEF IndInv, FramesShape, FrameShape, Top

LEMMA OwnAreBlocks ==
    ASSUME IndInv
    PROVE  OwnBlocks \subseteq Blocks /\ OwnBlocks \subseteq 1 .. created
BY DEF IndInv, TypeOK, ModuleType, OwnBlocks, Blocks

\* A break or a continue inside a loop has a target in the current function.
LEMMA JumpTargetIsOwn ==
    ASSUME IndInv, loopDepth > 0
    PROVE  loopEnd[loopDepth] \in OwnBlocks /\ loopCond[loopDepth] \in OwnBlocks
<1>1. loopDepth \in 1 .. loopDepth
  BY DEF IndInv, TypeOK, LoopsType
<1>2. PICK i \in LoopFrames : frames[i].level = loopDepth
  BY <1>1 DEF IndInv, LoopStackMatchesFrames
<1>3. loopEnd[loopDepth] = frames[i].join /\ loopCond[loopDepth] = frames[i].next
  BY <1>2 DEF IndInv, LoopStackMatchesFrames
<1>4. frames[i].join \in OwnBlocks /\ frames[i].next \in OwnBlocks
  BY <1>2 DEF IndInv, FramesShape, FrameShape, LoopFrames
<1> QED
  BY <1>3, <1>4

-----------------------------------------------------------------------------
(* The pieces actions are made of keep the types.                          *)

LEMMA AppendBlocksType ==
    ASSUME IndInv, NEW n \in Nat, NEW fn \in Functions, AppendBlocks(n, fn)
    PROVE  /\ created' = created + n /\ created' \in 0 .. MaxBlocks
           /\ created + 1 .. created + n \subseteq Blocks
           /\ blockFn' \in [Blocks -> Functions]
           /\ \A b \in 1 .. created : blockFn'[b] = blockFn[b]
           /\ \A b \in created + 1 .. created + n : blockFn'[b] = fn
           /\ \A b \in Blocks : b > created + n => blockFn'[b] = NoFunction
<1>1. created \in 0 .. MaxBlocks /\ blockFn \in [Blocks -> Functions]
  BY DEF IndInv, TypeOK, ModuleType
<1>2. \A b \in Blocks : b > created => blockFn[b] = NoFunction
  BY DEF IndInv, ModuleShape
<1> QED
  BY <1>1, <1>2 DEF AppendBlocks, Blocks

LEMMA TailType ==
    ASSUME NEW t \in [Blocks -> {"open", "closed", "broken"}], NEW b
    PROVE  /\ Terminated(t, b) \in [Blocks -> {"open", "closed", "broken"}]
           /\ Appended(t, b) \in [Blocks -> {"open", "closed", "broken"}]
BY DEF Terminated, Appended

LEMMA BranchType ==
    ASSUME IndInv, frames # << >>, NEW to \in Blocks, NEW then, Branch(to, then)
    PROVE  /\ tail' \in [Blocks -> {"open", "closed", "broken"}]
           /\ edges' \in SUBSET (Blocks \X Blocks)
           /\ edges' = edges \union {<<insert, to>>} /\ insert' = then
BY InsertIsOwn, TailType DEF Branch, IndInv, TypeOK, ModuleType

LEMMA CondBranchType ==
    ASSUME IndInv, frames # << >>, NEW yes \in Blocks, NEW no \in Blocks,
           CondBranch(yes, no)
    PROVE  /\ tail' \in [Blocks -> {"open", "closed", "broken"}]
           /\ edges' \in SUBSET (Blocks \X Blocks)
           /\ edges' = edges \union {<<insert, yes>>, <<insert, no>>}
           /\ insert' = yes
BY InsertIsOwn, TailType DEF CondBranch, IndInv, TypeOK, ModuleType

\* The steps that do not touch the module.
ModuleIdle == UNCHANGED <<created, blockFn, tail, edges, phi, insert, mainEntry>>

LEMMA IdleSteps ==
    ASSUME \/ \E kind \in {"if", "ifexpr"} : EmitIf(kind)
           \/ EmitElseIfExpression \/ IfBadCondition \/ LoopTooDeep
           \/ LoopBadCondition \/ JumpOutsideLoop \/ EmitAfterError
           \/ StatementDone \/ EmitProcUnsupported
           \/ \E outcome \in {"none", "null", "value"} : EmitReturn(outcome)
           \/ EmitImplicitReturn \/ ProcFails \/ UNCHANGED vars
    PROVE  ModuleIdle
BY DEF ModuleIdle, EmitIf, EmitElseIfExpression, IfBadCondition, LoopTooDeep,
       LoopBadCondition, JumpOutsideLoop, EmitAfterError, StatementDone,
       EmitProcUnsupported, EmitReturn, EmitImplicitReturn, ProcFails, vars,
       module, driver

LEMMA EnsureMainType ==
    ASSUME IndInv, NEW t \in [Blocks -> {"open", "closed", "broken"}], EnsureMain(t)
    PROVE  /\ created' \in 0 .. MaxBlocks /\ blockFn' \in [Blocks -> Functions]
           /\ tail' = t /\ insert' \in 0 .. created' /\ mainEntry' \in 0 .. created'
           /\ curFn' \in Functions /\ mainCreated' \in BOOLEAN
<1> USE DEF IndInv, TypeOK, ModuleType, EmitterType
<1>1. CASE AppendBlocks(1, Main) /\ tail' = t /\ insert' = created + 1
           /\ mainEntry' = created + 1 /\ curFn' = Main /\ mainCreated' = TRUE
  <2>1. Main \in Functions
    BY DEF Functions
  <2>2. created' = created + 1 /\ created' \in 0 .. MaxBlocks
        /\ blockFn' \in [Blocks -> Functions]
    BY <1>1, <2>1, AppendBlocksType
  <2> QED
    BY <1>1, <2>1, <2>2
<1>2. CASE UNCHANGED <<created, blockFn, mainEntry>> /\ tail' = t
           /\ \/ UNCHANGED <<insert, curFn, mainCreated>>
              \/ insert' = mainEntry /\ curFn' = Main /\ mainCreated' = TRUE
  BY <1>2 DEF Functions
<1> QED
  BY <1>1, <1>2 DEF EnsureMain, CreateMain, StayInMain, ReturnToMain

-----------------------------------------------------------------------------
LEMMA ModuleTypeStep == IndInv /\ [Next]_vars => ModuleType'
<1> SUFFICES ASSUME IndInv, [Next]_vars PROVE ModuleType'
  OBVIOUS
<1> USE DEF ModuleType, driver, module
<1>a. /\ created \in 0 .. MaxBlocks /\ blockFn \in [Blocks -> Functions]
      /\ tail \in [Blocks -> {"open", "closed", "broken"}]
      /\ edges \in SUBSET (Blocks \X Blocks) /\ phi \in [Blocks -> SUBSET Blocks]
      /\ insert \in 0 .. created /\ mainEntry \in 0 .. created
      /\ curFn \in Functions
  BY DEF IndInv, TypeOK, EmitterType
<1>b. \A b \in OwnBlocks : b \in Blocks /\ b \in 0 .. created
  BY OwnAreBlocks
<1>1. ASSUME NEW appends \in BOOLEAN, NEW fails \in BOOLEAN,
             EmitExpression(appends, fails)
      PROVE  ModuleType'
  BY <1>1, <1>a, TailType DEF EmitExpression
<1>2. CASE EmitTernary
  <2>1. frames # << >> /\ AppendBlocks(3, curFn)
    BY <1>2 DEF EmitTernary, AtExpression
  <2>2. /\ created' = created + 3 /\ created' \in 0 .. MaxBlocks
        /\ created + 1 .. created + 3 \subseteq Blocks
        /\ blockFn' \in [Blocks -> Functions]
    BY <2>1, <1>a, AppendBlocksType
  <2>3. {insert, created + 1, created + 2, created + 3} \subseteq Blocks
    BY <2>1, <2>2, <1>a, InsertIsOwn
  <2>4. tail' \in [Blocks -> {"open", "closed", "broken"}]
    BY <1>2, <1>a, TailType DEF EmitTernary
  <2>5. edges' \in SUBSET (Blocks \X Blocks) /\ phi' \in [Blocks -> SUBSET Blocks]
    BY <1>2, <1>a, <2>3 DEF EmitTernary
  <2> QED
    BY <1>2, <1>a, <2>2, <2>4, <2>5 DEF EmitTernary
<1>3. CASE IfCondition
  <2>1. frames # << >> /\ AppendBlocks(3, curFn) /\ CondBranch(created + 1, created + 2)
    BY <1>3 DEF IfCondition, InPhase
  <2>2. /\ created' = created + 3 /\ created' \in 0 .. MaxBlocks
        /\ created + 1 \in Blocks /\ created + 2 \in Blocks
        /\ blockFn' \in [Blocks -> Functions]
    BY <2>1, <1>a, AppendBlocksType
  <2> QED
    BY <1>3, <1>a, <2>1, <2>2, CondBranchType DEF IfCondition
<1>4. CASE IfThenDone
  BY <1>4, <1>a, <1>b, TopShape, BranchType DEF IfThenDone, InPhase
<1>5. CASE IfElseDone
  <2>1. frames # << >> /\ Top.join \in OwnBlocks /\ Branch(Top.join, Top.join)
    BY <1>5, TopShape DEF IfElseDone, InPhase
  <2>2. Top.head \in Blocks /\ insert \in Blocks
    BY <1>5, <2>1, <1>b, InsertIsOwn, TopShape DEF IfElseDone, InPhase
  <2>3. phi' \in [Blocks -> SUBSET Blocks]
    BY <1>5, <1>a, <2>2 DEF IfElseDone
  <2> QED
    BY <1>5, <1>a, <1>b, <2>1, <2>3, BranchType DEF IfElseDone
<1>6. CASE EmitWhile
  <2>1. frames # << >> /\ AppendBlocks(3, curFn) /\ Branch(created + 1, created + 1)
    BY <1>6 DEF EmitWhile, AtStatement
  <2>2. /\ created' = created + 3 /\ created' \in 0 .. MaxBlocks
        /\ created + 1 \in Blocks /\ blockFn' \in [Blocks -> Functions]
    BY <2>1, <1>a, AppendBlocksType
  <2> QED
    BY <1>6, <1>a, <2>1, <2>2, BranchType DEF EmitWhile
<1>7. CASE EmitFor
  <2>1. /\ created' = created + 4 /\ created' \in 0 .. MaxBlocks
        /\ blockFn' \in [Blocks -> Functions]
    BY <1>7, <1>a, AppendBlocksType DEF EmitFor
  <2> QED
    BY <1>7, <1>a, <2>1 DEF EmitFor
<1>8. CASE ForPreDone \/ WhileBodyDone \/ ForBodyDone \/ ForIncDone
  BY <1>8, <1>a, <1>b, TopShape, BranchType
     DEF ForPreDone, WhileBodyDone, ForBodyDone, ForIncDone, InPhase, LoopKinds
<1>9. CASE LoopCondition
  BY <1>9, <1>a, <1>b, TopShape, CondBranchType DEF LoopCondition, InPhase
<1>10. CASE EmitBreak \/ EmitContinue
  BY <1>10, <1>a, <1>b, JumpTargetIsOwn, BranchType
     DEF EmitBreak, EmitContinue, EmitJump, AtStatement
<1>11. CASE EmitStatement
  BY <1>11, <1>a, EnsureMainType DEF EmitStatement
<1>12. ASSUME NEW isVoid \in BOOLEAN, NEW named \in {"main", "other"},
              EmitProc(isVoid, named)
       PROVE  ModuleType'
  <2>1. PICK fn \in Functions : AppendBlocks(1, fn)
    <3>1. procs + 1 \in Functions /\ Main \in Functions
      BY <1>12 DEF EmitProc, IndInv, TypeOK, EmitterType, Functions, Procs
    <3> QED
      BY <1>12, <3>1 DEF EmitProc
  <2>2. created' = created + 1 /\ created' \in 0 .. MaxBlocks
        /\ blockFn' \in [Blocks -> Functions]
    BY <2>1, AppendBlocksType
  <2> QED
    BY <1>12, <1>a, <2>2 DEF EmitProc
<1>13. CASE ProcDone
  <2>1. PICK t \in [Blocks -> {"open", "closed", "broken"}] : EnsureMain(t)
    BY <1>13, <1>a, TailType DEF ProcDone
  <2> QED
    BY <1>13, <1>a, <2>1, EnsureMainType DEF ProcDone
<1>14. CASE Finish
  BY <1>14, <1>a, TailType DEF Finish
<1>15. CASE ModuleIdle
  BY <1>15, <1>a DEF ModuleIdle
<1> QED
  BY <1>1, <1>2, <1>3, <1>4, <1>5, <1>6, <1>7, <1>8, <1>9, <1>10, <1>11,
     <1>12, <1>13, <1>14, <1>15, IdleSteps DEF Next

-----------------------------------------------------------------------------
(* How steps change the recursion and, with it, the loop targets.          *)

\* The blocks of the current function stay its blocks while a node is emitted.
LEMMA OwnBlocksGrow ==
    ASSUME IndInv, curFn' = curFn,
           \/ UNCHANGED <<created, blockFn>>
           \/ \E n \in Nat : AppendBlocks(n, curFn)
    PROVE  OwnBlocks \subseteq OwnBlocks'
<1>1. CASE UNCHANGED <<created, blockFn>>
  BY <1>1 DEF OwnBlocks
<1>2. ASSUME NEW n \in Nat, AppendBlocks(n, curFn)
      PROVE  OwnBlocks \subseteq OwnBlocks'
  BY <1>2, AppendBlocksType DEF OwnBlocks, IndInv, TypeOK, EmitterType, ModuleType
<1> QED
  BY <1>1, <1>2

LEMMA NewBlocksAreOwn ==
    ASSUME IndInv, curFn' = curFn, NEW n \in Nat, AppendBlocks(n, curFn)
    PROVE  created + 1 .. created + n \subseteq OwnBlocks'
BY AppendBlocksType DEF OwnBlocks, IndInv, TypeOK, EmitterType, ModuleType, Blocks

LEMMA FrameShapeStable ==
    ASSUME OwnBlocks \subseteq OwnBlocks', NEW f, NEW i, FrameShape(f, i)
    PROVE  FrameShape(f, i)'
BY DEF FrameShape

SameTarget(f, g) ==
    /\ f.kind = g.kind /\ f.level = g.level
    /\ f.kind \in LoopKinds => f.join = g.join /\ f.next = g.next

FrameStep ==
    \/ UNCHANGED <<frames, loopEnd, loopCond, loopDepth>>
    \/ \E f \in FrameType :
          /\ f.kind \notin LoopKinds /\ Push(f)
          /\ UNCHANGED <<loopEnd, loopCond, loopDepth>>
          /\ \E i : i = Len(frames) + 1 /\ FrameShape(f, i)'
    \/ /\ frames # << >> /\ Top.kind \notin LoopKinds /\ Pop
       /\ UNCHANGED <<loopEnd, loopCond, loopDepth>>
    \/ /\ frames # << >>
       /\ \E f \in FrameType :
             /\ SameTarget(f, Top) /\ Become(f)
             /\ \E i : i = Len(frames) /\ FrameShape(f, i)'
       /\ UNCHANGED <<loopEnd, loopCond, loopDepth>>
    \/ /\ loopDepth < MaxLoopNesting
       /\ \E f \in FrameType :
             /\ f.kind \in LoopKinds /\ Push(f) /\ f.level = loopDepth + 1
             /\ PushLoop(f.join, f.next)
             /\ \E i : i = Len(frames) + 1 /\ FrameShape(f, i)'
    \/ frames # << >> /\ Top.kind \in LoopKinds /\ Pop /\ PopLoop

\* A frame that only moves to its next phase.
LEMMA PhaseStep ==
    ASSUME IndInv, frames # << >>, UNCHANGED <<created, blockFn, curFn>>,
           NEW p \in {"cond", "body", "inc", "last"},
           IF p = "last" THEN Top.kind = "fn" ELSE Top.kind \in LoopKinds,
           Become([Top EXCEPT !.phase = p]),
           UNCHANGED <<loopEnd, loopCond, loopDepth>>
    PROVE  FrameStep
<1>1. /\ Top \in FrameType /\ Len(frames) \in Nat \ {0}
      /\ Top.kind \in {"main", "fn"} <=> Len(frames) = 1
      /\ Top.kind \in LoopKinds =>
           {Top.head, Top.body, Top.next, Top.join} \subseteq OwnBlocks
  BY InsertIsOwn, TopShape
<1>2. OwnBlocks' = OwnBlocks
  BY DEF OwnBlocks
<1>3. PICK t, f : t = Top /\ f = [t EXCEPT !.phase = p]
  OBVIOUS
<1>4. t \in FrameType
  BY <1>1, <1>3
<1>5. f = [kind |-> t.kind, phase |-> p, head |-> t.head, body |-> t.body,
           next |-> t.next, join |-> t.join, level |-> t.level]
  BY <1>3, <1>4 DEF FrameType
<1>6. f \in FrameType
  BY <1>4, <1>5 DEF FrameType
<1>7. SameTarget(f, Top)
  BY <1>3, <1>5 DEF SameTarget
<1>8. PICK i : i = Len(frames)
  OBVIOUS
<1>9. FrameShape(f, i)'
  BY <1>1, <1>2, <1>3, <1>5, <1>8 DEF FrameShape, LoopKinds
<1>10. Become(f)
  BY <1>3
<1> QED
  BY <1>6, <1>7, <1>8, <1>9, <1>10 DEF FrameStep

\* The frame of a loop is pushed together with its targets, which exist.
LEMMA LoopStep ==
    ASSUME IndInv, frames # << >>, loopDepth < MaxLoopNesting, curFn' = curFn,
           NEW n \in Nat, AppendBlocks(n, curFn),
           NEW f, NEW kind \in LoopKinds, NEW p \in {"pre", "cond"},
           NEW h \in created + 1 .. created + n, NEW b \in created + 1 .. created + n,
           NEW c \in created + 1 .. created + n, NEW j \in created + 1 .. created + n,
           f = [kind |-> kind, phase |-> p, head |-> h, body |-> b,
                next |-> c, join |-> j, level |-> loopDepth + 1],
           Push(f), PushLoop(j, c)
    PROVE  FrameStep
<1>1. Len(frames) \in Nat \ {0} /\ curFn \in Functions
  BY InsertIsOwn
<1>2. created + 1 .. created + n \subseteq OwnBlocks'
  BY NewBlocksAreOwn
<1>3. created + 1 .. created + n \subseteq Blocks
  BY <1>1, AppendBlocksType
<1>4. h \in Blocks /\ b \in Blocks /\ c \in Blocks /\ j \in Blocks
  BY <1>3
<1>5. loopDepth + 1 \in 0 .. MaxLoopNesting
  BY DEF IndInv, TypeOK, LoopsType
<1>6. f \in FrameType
  BY <1>4, <1>5 DEF FrameType, Blocks
<1>7. PICK i : i = Len(frames) + 1
  OBVIOUS
<1>8. FrameShape(f, i)'
  BY <1>1, <1>2, <1>7 DEF FrameShape, LoopKinds
<1> QED
  BY <1>6, <1>7, <1>8 DEF FrameStep

\* The frame of a node of the program is the outermost.
LEMMA NodeStep ==
    ASSUME NEW kind \in {"main", "fn"}, frames = << >>, Push(Frame(kind, "body")),
           UNCHANGED loops
    PROVE  FrameStep
<1>1. PICK f : f = Frame(kind, "body")
  OBVIOUS
<1>2. f \in FrameType /\ f.kind = kind /\ f.phase = "body"
  BY <1>1, FrameHasType DEF Frame
<1>3. PICK i : i = Len(frames) + 1
  OBVIOUS
<1>4. i = 1
  BY <1>3
<1>5. FrameShape(f, i)'
  BY <1>2, <1>4 DEF FrameShape, LoopKinds
<1>6. f.kind \notin LoopKinds
  BY <1>2 DEF LoopKinds
<1> QED
  BY <1>1, <1>2, <1>3, <1>5, <1>6 DEF FrameStep, loops

LEMMA FrameSteps ==
    ASSUME IndInv, Next, ModuleType'
    PROVE  FrameStep
<1> USE DEF FrameStep, loops
<1>1. ASSUME NEW appends \in BOOLEAN, NEW fails \in BOOLEAN,
             EmitExpression(appends, fails)
      PROVE  FrameStep
  BY <1>1 DEF EmitExpression
<1>2. CASE EmitTernary
  BY <1>2 DEF EmitTernary
<1>3. ASSUME NEW kind \in {"if", "ifexpr"}, EmitIf(kind)
      PROVE  FrameStep
  <2> DEFINE f == Frame(kind, "cond")
  <2>1. f \in FrameType
    BY FrameHasType
  <2>2. frames # << >> /\ Len(frames) + 1 # 1
    BY <1>3, InsertIsOwn DEF EmitIf, AtStatement
  <2>3. FrameShape(f, Len(frames) + 1)
    BY <2>2 DEF FrameShape, Frame, LoopKinds
  <2>4. OwnBlocks \subseteq OwnBlocks'
    BY <1>3 DEF EmitIf, module, function, OwnBlocks
  <2>5. \E i : i = Len(frames) + 1 /\ FrameShape(f, i)'
    BY <2>3, <2>4, FrameShapeStable
  <2>6. f.kind \notin LoopKinds
    BY DEF Frame, LoopKinds
  <2> QED
    BY <1>3, <2>1, <2>5, <2>6 DEF EmitIf
<1>4. CASE EmitElseIfExpression
  <2> DEFINE f == Frame("ifexpr", "cond")
  <2>1. f \in FrameType /\ f.kind \notin LoopKinds
    BY FrameHasType DEF Frame, LoopKinds
  <2>2. Len(frames) + 1 # 1
    BY <1>4, InsertIsOwn DEF EmitElseIfExpression, InPhase
  <2>3. FrameShape(f, Len(frames) + 1)
    BY <2>2 DEF FrameShape, Frame, LoopKinds
  <2>4. OwnBlocks \subseteq OwnBlocks'
    BY <1>4 DEF EmitElseIfExpression, module, function, OwnBlocks
  <2>5. \E i : i = Len(frames) + 1 /\ FrameShape(f, i)'
    BY <2>3, <2>4, FrameShapeStable
  <2> QED
    BY <1>4, <2>1, <2>5 DEF EmitElseIfExpression
<1>5. CASE IfCondition
  <2>1. /\ frames # << >> /\ Top \in FrameType /\ Len(frames) \in Nat \ {0}
        /\ Top.kind \in {"if", "ifexpr"}
        /\ Top.kind \in {"main", "fn"} <=> Len(frames) = 1
    BY <1>5, InsertIsOwn, TopShape DEF IfCondition, InPhase
  <2>2. AppendBlocks(3, curFn) /\ curFn' = curFn
    BY <1>5 DEF IfCondition, function
  <2>3. /\ {created + 1, created + 2, created + 3} \subseteq OwnBlocks'
        /\ {created + 1, created + 2, created + 3} \subseteq Blocks
    <3>1. created + 1 .. created + 3 \subseteq OwnBlocks'
      BY <2>2, NewBlocksAreOwn
    <3>2. created + 1 .. created + 3 \subseteq Blocks
      BY <2>1, <2>2, AppendBlocksType, InsertIsOwn
    <3>3. /\ created + 1 \in created + 1 .. created + 3
          /\ created + 2 \in created + 1 .. created + 3
          /\ created + 3 \in created + 1 .. created + 3
      BY DEF IndInv, TypeOK, ModuleType
    <3> QED
      BY <3>1, <3>2, <3>3
  <2>4. PICK t, f : /\ t = Top
                    /\ f = [t EXCEPT !.phase = "then", !.body = created + 1,
                                     !.next = created + 2, !.join = created + 3]
    OBVIOUS
  <2>5. /\ f \in FrameType /\ f.kind = Top.kind /\ f.level = Top.level /\ f.phase = "then"
        /\ f.body = created + 1 /\ f.next = created + 2 /\ f.join = created + 3
    <3>1. created + 1 \in Blocks /\ created + 2 \in Blocks /\ created + 3 \in Blocks
      BY <2>3
    <3>2. t \in FrameType
      BY <2>1, <2>4
    <3>3. f = [kind |-> t.kind, phase |-> "then", head |-> t.head, body |-> created + 1,
               next |-> created + 2, join |-> created + 3, level |-> t.level]
      BY <2>4, <3>2 DEF FrameType
    <3>4. f \in FrameType
      BY <3>1, <3>2, <3>3 DEF FrameType, Blocks
    <3> QED
      BY <2>4, <3>3, <3>4
  <2>6. SameTarget(f, Top)
    BY <2>1, <2>5 DEF SameTarget, LoopKinds
  <2>7. PICK i : i = Len(frames)
    OBVIOUS
  <2>8. FrameShape(f, i)'
    BY <2>1, <2>3, <2>5, <2>7 DEF FrameShape, LoopKinds
  <2>9. Become(f)
    BY <1>5, <2>4 DEF IfCondition
  <2> QED
    BY <1>5, <2>1, <2>5, <2>6, <2>7, <2>8, <2>9 DEF IfCondition
<1>6. CASE IfBadCondition
  BY <1>6 DEF IfBadCondition, InPhase, LoopKinds
<1>7. CASE IfThenDone
  <2>1. /\ frames # << >> /\ Top \in FrameType /\ Len(frames) \in Nat \ {0}
        /\ Top.kind \in {"if", "ifexpr"} /\ insert \in OwnBlocks /\ insert \in Blocks
        /\ Top.kind \in {"main", "fn"} <=> Len(frames) = 1
        /\ {Top.body, Top.next, Top.join} \subseteq OwnBlocks
    BY <1>7, InsertIsOwn, TopShape DEF IfThenDone, InPhase
  <2>2. OwnBlocks' = OwnBlocks
    BY <1>7 DEF IfThenDone, function, OwnBlocks
  <2>3. PICK t, f : t = Top /\ f = [t EXCEPT !.phase = "else", !.head = insert]
    OBVIOUS
  <2>4. /\ f \in FrameType /\ f.kind = Top.kind /\ f.level = Top.level /\ f.phase = "else"
        /\ f.head = insert
        /\ f.body = Top.body /\ f.next = Top.next /\ f.join = Top.join
    <3>1. t \in FrameType
      BY <2>1, <2>3
    <3>2. f = [kind |-> t.kind, phase |-> "else", head |-> insert, body |-> t.body,
               next |-> t.next, join |-> t.join, level |-> t.level]
      BY <2>3, <3>1 DEF FrameType
    <3>3. f \in FrameType
      BY <2>1, <3>1, <3>2 DEF FrameType, Blocks
    <3> QED
      BY <2>3, <3>2, <3>3
  <2>5. SameTarget(f, Top)
    BY <2>4 DEF SameTarget
  <2>6. PICK i : i = Len(frames)
    OBVIOUS
  <2>7. FrameShape(f, i)'
    BY <2>1, <2>2, <2>4, <2>6 DEF FrameShape, LoopKinds
  <2>8. Become(f)
    BY <1>7, <2>3 DEF IfThenDone
  <2> QED
    BY <1>7, <2>1, <2>4, <2>5, <2>6, <2>7, <2>8 DEF IfThenDone
<1>8. CASE IfElseDone
  BY <1>8 DEF IfElseDone, InPhase, LoopKinds
<1>9. CASE LoopTooDeep
  BY <1>9 DEF LoopTooDeep
<1>10. CASE EmitWhile
  <2>1. frames # << >> /\ loopDepth < MaxLoopNesting /\ curFn' = curFn
        /\ AppendBlocks(3, curFn) /\ PushLoop(created + 3, created + 1)
    BY <1>10 DEF EmitWhile, AtStatement, function
  <2>2. PICK f : f = [Frame("while", "cond") EXCEPT
                        !.head = created + 1, !.body = created + 2, !.next = created + 1,
                        !.join = created + 3, !.level = loopDepth + 1]
    OBVIOUS
  <2>3. f = [kind |-> "while", phase |-> "cond", head |-> created + 1,
             body |-> created + 2, next |-> created + 1, join |-> created + 3,
             level |-> loopDepth + 1]
    BY <2>2 DEF Frame
  <2>4. Push(f)
    BY <1>10, <2>2 DEF EmitWhile
  <2>5. /\ created + 1 \in created + 1 .. created + 3
        /\ created + 2 \in created + 1 .. created + 3
        /\ created + 3 \in created + 1 .. created + 3
    BY DEF IndInv, TypeOK, ModuleType
  <2> HIDE DEF FrameStep
  <2> QED
    BY <2>1, <2>3, <2>4, <2>5, LoopStep DEF LoopKinds
<1>11. CASE EmitFor
  <2>1. frames # << >> /\ loopDepth < MaxLoopNesting /\ curFn' = curFn
        /\ AppendBlocks(4, curFn) /\ PushLoop(created + 4, created + 3)
    BY <1>11 DEF EmitFor, AtStatement, function
  <2>2. PICK f : f = [Frame("for", "pre") EXCEPT
                        !.head = created + 1, !.body = created + 2, !.next = created + 3,
                        !.join = created + 4, !.level = loopDepth + 1]
    OBVIOUS
  <2>3. f = [kind |-> "for", phase |-> "pre", head |-> created + 1,
             body |-> created + 2, next |-> created + 3, join |-> created + 4,
             level |-> loopDepth + 1]
    BY <2>2 DEF Frame
  <2>4. Push(f)
    BY <1>11, <2>2 DEF EmitFor
  <2>5. /\ created + 1 \in created + 1 .. created + 4
        /\ created + 2 \in created + 1 .. created + 4
        /\ created + 3 \in created + 1 .. created + 4
        /\ created + 4 \in created + 1 .. created + 4
    BY DEF IndInv, TypeOK, ModuleType
  <2> HIDE DEF FrameStep
  <2> QED
    BY <2>1, <2>3, <2>4, <2>5, LoopStep DEF LoopKinds
<1>12. CASE ForPreDone
  <2> HIDE DEF FrameStep
  <2>1. /\ frames # << >> /\ UNCHANGED <<created, blockFn, curFn, loopEnd, loopCond, loopDepth>>
        /\ Top.kind \in LoopKinds /\ Become([Top EXCEPT !.phase = "cond"])
    BY <1>12 DEF ForPreDone, InPhase, function, LoopKinds
  <2> QED
    BY <2>1, PhaseStep, Zenon
<1>13. CASE LoopCondition
  <2> HIDE DEF FrameStep
  <2>1. /\ frames # << >> /\ UNCHANGED <<created, blockFn, curFn, loopEnd, loopCond, loopDepth>>
        /\ Top.kind \in LoopKinds /\ Become([Top EXCEPT !.phase = "body"])
    BY <1>13 DEF LoopCondition, InPhase, function
  <2> QED
    BY <2>1, PhaseStep, Zenon
<1>14. CASE ForBodyDone
  <2> HIDE DEF FrameStep
  <2>1. /\ frames # << >> /\ UNCHANGED <<created, blockFn, curFn, loopEnd, loopCond, loopDepth>>
        /\ Top.kind \in LoopKinds /\ Become([Top EXCEPT !.phase = "inc"])
    BY <1>14 DEF ForBodyDone, InPhase, function, LoopKinds
  <2> QED
    BY <2>1, PhaseStep, Zenon
<1>15. CASE EmitImplicitReturn
  <2> HIDE DEF FrameStep
  <2>1. /\ frames # << >> /\ UNCHANGED <<created, blockFn, curFn, loopEnd, loopCond, loopDepth>>
        /\ Top.kind = "fn" /\ Become([Top EXCEPT !.phase = "last"])
    BY <1>15 DEF EmitImplicitReturn, InPhase, module
  <2> QED
    BY <2>1, PhaseStep, Zenon
<1>16. CASE LoopBadCondition \/ WhileBodyDone \/ ForIncDone
  BY <1>16 DEF LoopBadCondition, WhileBodyDone, ForIncDone, InPhase, LoopKinds
<1>17. CASE EmitBreak \/ EmitContinue \/ JumpOutsideLoop \/ EmitAfterError
            \/ EmitProcUnsupported \/ Finish
  BY <1>17 DEF EmitBreak, EmitContinue, EmitJump, JumpOutsideLoop, EmitAfterError,
               EmitProcUnsupported, Finish
<1>18. ASSUME NEW outcome \in {"none", "null", "value"}, EmitReturn(outcome)
       PROVE  FrameStep
  BY <1>18 DEF EmitReturn
<1>19. CASE EmitStatement
  <2>1. frames = << >> /\ Push(Frame("main", "body")) /\ UNCHANGED loops
    BY <1>19 DEF EmitStatement, AtTopLevel
  <2> QED
    BY <2>1, NodeStep
<1>20. ASSUME NEW isVoid \in BOOLEAN, NEW named \in {"main", "other"},
              EmitProc(isVoid, named)
       PROVE  FrameStep
  <2>1. frames = << >> /\ Push(Frame("fn", "body")) /\ UNCHANGED loops
    BY <1>20 DEF EmitProc, AtTopLevel
  <2> QED
    BY <2>1, NodeStep
<1>21. CASE StatementDone
  BY <1>21 DEF StatementDone, InPhase, LoopKinds
<1>22. CASE ProcDone \/ ProcFails
  <2>1. frames # << >>
    BY <1>22 DEF ProcDone, ProcFails
  <2> QED
    BY <1>22, <2>1 DEF ProcDone, ProcFails, LoopKinds
<1> HIDE DEF FrameStep, loops
<1> QED
  BY <1>1, <1>2, <1>3, <1>4, <1>5, <1>6, <1>7, <1>8, <1>9, <1>10, <1>11, <1>12,
     <1>13, <1>14, <1>15, <1>16, <1>17, <1>18, <1>19, <1>20, <1>21, <1>22 DEF Next

LEMMA SameLoops ==
    ASSUME IndInv, UNCHANGED <<loopEnd, loopCond, loopDepth>>, LoopFrames' = LoopFrames,
           \A i \in LoopFrames : /\ frames'[i].level = frames[i].level
                                 /\ frames'[i].join = frames[i].join
                                 /\ frames'[i].next = frames[i].next
    PROVE  LoopStackMatchesFrames'
BY DEF IndInv, LoopStackMatchesFrames

LEMMA FramesKeepShape ==
    ASSUME IndInv, frames # << >> /\ frames' # << >> => OwnBlocks \subseteq OwnBlocks',
           \A i \in DOMAIN frames' :
              \/ i \in DOMAIN frames /\ frames'[i] = frames[i]
              \/ \E f : frames'[i] = f /\ FrameShape(f, i)'
    PROVE  FramesShape'
<1> SUFFICES ASSUME NEW i \in DOMAIN frames' PROVE FrameShape(frames[i], i)'
  BY DEF FramesShape
<1>1. CASE i \in DOMAIN frames /\ frames'[i] = frames[i]
  <2>1. frames # << >> /\ frames' # << >>
    BY <1>1
  <2>2. FrameShape(frames[i], i)
    BY <1>1 DEF IndInv, FramesShape
  <2> QED
    BY <1>1, <2>1, <2>2 DEF FrameShape
<1>2. CASE \E f : frames'[i] = f /\ FrameShape(f, i)'
  BY <1>2 DEF FrameShape
<1> QED
  BY <1>1, <1>2

LEMMA FrameStepKeeps ==
    ASSUME IndInv, FrameStep,
           frames # << >> /\ frames' # << >> => OwnBlocks \subseteq OwnBlocks'
    PROVE  /\ frames' \in Seq(FrameType) /\ LoopsType' /\ FramesShape'
           /\ LoopStackMatchesFrames'
<1>a. /\ frames \in Seq(FrameType) /\ LoopsType /\ FramesShape /\ LoopStackMatchesFrames
      /\ Len(frames) \in Nat /\ DOMAIN frames = 1 .. Len(frames)
  BY DEF IndInv, TypeOK
<1>1. CASE UNCHANGED <<frames, loopEnd, loopCond, loopDepth>>
  <2>1. FramesShape'
    BY <1>1, FramesKeepShape
  <2>2. LoopStackMatchesFrames'
    BY <1>1, SameLoops DEF LoopFrames
  <2> QED
    BY <1>1, <1>a, <2>1, <2>2 DEF LoopsType
<1>2. ASSUME NEW f \in FrameType, f.kind \notin LoopKinds, Push(f),
             UNCHANGED <<loopEnd, loopCond, loopDepth>>,
             NEW i, i = Len(frames) + 1, FrameShape(f, i)'
      PROVE  /\ frames' \in Seq(FrameType) /\ LoopsType' /\ FramesShape'
             /\ LoopStackMatchesFrames'
  <2>1. /\ frames' \in Seq(FrameType)
        /\ \A k \in DOMAIN frames : frames'[k] = frames[k]
        /\ frames'[i] = f /\ DOMAIN frames' = DOMAIN frames \union {i}
    BY <1>2, <1>a, PushType
  <2>2. FramesShape'
    BY <1>2, <2>1, FramesKeepShape
  <2>3. LoopFrames' = LoopFrames
    BY <1>2, <2>1 DEF LoopFrames
  <2>4. LoopStackMatchesFrames'
    BY <1>2, <2>1, <2>3, SameLoops DEF LoopFrames
  <2> QED
    BY <1>2, <1>a, <2>1, <2>2, <2>4 DEF LoopsType
<1>3. CASE /\ frames # << >> /\ Top.kind \notin LoopKinds /\ Pop
           /\ UNCHANGED <<loopEnd, loopCond, loopDepth>>
  <2>1. /\ frames' \in Seq(FrameType)
        /\ \A k \in DOMAIN frames' : k \in DOMAIN frames /\ frames'[k] = frames[k]
        /\ DOMAIN frames' = DOMAIN frames \ {Len(frames)}
    BY <1>3, <1>a, PopType
  <2>2. FramesShape'
    BY <2>1, FramesKeepShape
  <2>3. LoopFrames' = LoopFrames
    BY <1>3, <2>1 DEF LoopFrames, Top
  <2>4. LoopStackMatchesFrames'
    BY <1>3, <2>1, <2>3, SameLoops DEF LoopFrames
  <2> QED
    BY <1>3, <1>a, <2>1, <2>2, <2>4 DEF LoopsType
<1>4. ASSUME frames # << >>, NEW f \in FrameType, SameTarget(f, Top), Become(f),
             UNCHANGED <<loopEnd, loopCond, loopDepth>>,
             NEW i, i = Len(frames), FrameShape(f, i)'
      PROVE  /\ frames' \in Seq(FrameType) /\ LoopsType' /\ FramesShape'
             /\ LoopStackMatchesFrames'
  <2>1. /\ frames' \in Seq(FrameType)
        /\ \A k \in DOMAIN frames : k # i => frames'[k] = frames[k]
        /\ frames'[i] = f /\ DOMAIN frames' = DOMAIN frames
    BY <1>4, <1>a, BecomeType
  <2>2. FramesShape'
    BY <1>4, <2>1, FramesKeepShape
  <2>3. LoopFrames' = LoopFrames
    BY <1>4, <2>1 DEF LoopFrames, Top, SameTarget
  <2>4. \A k \in LoopFrames : /\ frames'[k].level = frames[k].level
                              /\ frames'[k].join = frames[k].join
                              /\ frames'[k].next = frames[k].next
    BY <1>4, <2>1 DEF LoopFrames, Top, SameTarget
  <2>5. LoopStackMatchesFrames'
    BY <1>4, <2>3, <2>4, SameLoops
  <2> QED
    BY <1>4, <1>a, <2>1, <2>2, <2>5 DEF LoopsType
<1>5. ASSUME loopDepth < MaxLoopNesting,
             NEW f \in FrameType, f.kind \in LoopKinds, Push(f), f.level = loopDepth + 1,
             PushLoop(f.join, f.next),
             NEW i, i = Len(frames) + 1, FrameShape(f, i)'
      PROVE  /\ frames' \in Seq(FrameType) /\ LoopsType' /\ FramesShape'
             /\ LoopStackMatchesFrames'
  <2>1. /\ frames' \in Seq(FrameType)
        /\ \A k \in DOMAIN frames : frames'[k] = frames[k]
        /\ frames'[i] = f /\ DOMAIN frames' = DOMAIN frames \union {i}
    BY <1>5, <1>a, PushType
  <2>2. FramesShape'
    BY <1>5, <2>1, FramesKeepShape
  <2>3. f.join \in 0 .. MaxBlocks /\ f.next \in 0 .. MaxBlocks
    BY DEF FrameType
  <2>4. /\ loopDepth \in 0 .. MaxLoopNesting /\ loopDepth' = loopDepth + 1
        /\ loopDepth + 1 \in 1 .. MaxLoopNesting
        /\ loopEnd'[loopDepth + 1] = f.join /\ loopCond'[loopDepth + 1] = f.next
        /\ \A l \in 1 .. loopDepth :
              loopEnd'[l] = loopEnd[l] /\ loopCond'[l] = loopCond[l]
    <3>1. /\ loopDepth \in 0 .. MaxLoopNesting /\ loopDepth + 1 \in 1 .. MaxLoopNesting
          /\ \A l \in 1 .. loopDepth : l \in 1 .. MaxLoopNesting /\ l # loopDepth + 1
      BY <1>5, <1>a DEF LoopsType
    <3>2. /\ loopEnd' = [loopEnd EXCEPT ![loopDepth + 1] = f.join]
          /\ loopCond' = [loopCond EXCEPT ![loopDepth + 1] = f.next]
          /\ loopDepth' = loopDepth + 1
      BY <1>5 DEF PushLoop
    <3>3. /\ loopEnd \in [1 .. MaxLoopNesting -> 0 .. MaxBlocks]
          /\ loopCond \in [1 .. MaxLoopNesting -> 0 .. MaxBlocks]
      BY <1>a DEF LoopsType
    <3> QED
      BY <3>1, <3>2, <3>3
  <2>5. LoopsType'
    <3>1. /\ loopEnd' = [loopEnd EXCEPT ![loopDepth + 1] = f.join]
          /\ loopCond' = [loopCond EXCEPT ![loopDepth + 1] = f.next]
      BY <1>5 DEF PushLoop
    <3>2. /\ loopEnd' \in [1 .. MaxLoopNesting -> 0 .. MaxBlocks]
          /\ loopCond' \in [1 .. MaxLoopNesting -> 0 .. MaxBlocks]
      BY <1>a, <2>3, <3>1 DEF LoopsType
    <3>3. loopDepth' \in 0 .. MaxLoopNesting
      BY <2>4
    <3> QED
      BY <3>2, <3>3 DEF LoopsType
  <2>6. LoopFrames' = LoopFrames \union {i}
    BY <1>5, <2>1 DEF LoopFrames
  <2>7. LoopFrames \subseteq 1 .. Len(frames)
    BY <1>a DEF LoopFrames
  <2>8. \A k \in LoopFrames : /\ frames'[k] = frames[k]
                              /\ frames[k].level \in 1 .. loopDepth
                              /\ loopEnd[frames[k].level] = frames[k].join
                              /\ loopCond[frames[k].level] = frames[k].next
    BY <1>a, <2>1 DEF LoopFrames, LoopStackMatchesFrames
  <2>9. \A k \in LoopFrames' : /\ frames'[k].level \in 1 .. loopDepth'
                               /\ loopEnd'[frames'[k].level] = frames'[k].join
                               /\ loopCond'[frames'[k].level] = frames'[k].next
    <3>1. ASSUME NEW k \in LoopFrames
          PROVE  /\ frames'[k].level \in 1 .. loopDepth'
                 /\ loopEnd'[frames'[k].level] = frames'[k].join
                 /\ loopCond'[frames'[k].level] = frames'[k].next
      BY <2>4, <2>8
    <3>2. /\ frames'[i].level \in 1 .. loopDepth'
          /\ loopEnd'[frames'[i].level] = frames'[i].join
          /\ loopCond'[frames'[i].level] = frames'[i].next
      BY <1>5, <2>1, <2>4
    <3> QED
      BY <2>6, <3>1, <3>2
  <2>10. \A k, m \in LoopFrames' : k < m => frames'[k].level < frames'[m].level
    <3>1. ASSUME NEW k \in LoopFrames, NEW m \in LoopFrames, k < m
          PROVE  frames'[k].level < frames'[m].level
      BY <1>a, <2>8, <3>1 DEF LoopStackMatchesFrames
    <3>2. \A k \in LoopFrames : frames'[k].level < frames'[i].level
      BY <1>5, <2>1, <2>4, <2>8
    <3>3. \A k \in LoopFrames : ~(i < k)
      BY <1>5, <1>a, <2>7
    <3>4. ~(i < i)
      BY <1>5, <1>a
    <3> QED
      BY <2>6, <3>1, <3>2, <3>3, <3>4
  <2>11. \A l \in 1 .. loopDepth' : \E k \in LoopFrames' : frames'[k].level = l
    <3>1. ASSUME NEW l \in 1 .. loopDepth
          PROVE  \E k \in LoopFrames' : frames'[k].level = l
      BY <1>a, <2>6, <2>8 DEF LoopStackMatchesFrames
    <3>2. frames'[i].level = loopDepth + 1 /\ i \in LoopFrames'
      BY <1>5, <2>1, <2>6
    <3> QED
      BY <2>4, <3>1, <3>2
  <2> QED
    BY <2>1, <2>2, <2>5, <2>9, <2>10, <2>11 DEF LoopStackMatchesFrames
<1>6. CASE frames # << >> /\ Top.kind \in LoopKinds /\ Pop /\ PopLoop
  <2>1. /\ frames' \in Seq(FrameType)
        /\ \A k \in DOMAIN frames' : k \in DOMAIN frames /\ frames'[k] = frames[k]
        /\ DOMAIN frames' = DOMAIN frames \ {Len(frames)}
    BY <1>6, <1>a, PopType
  <2>2. FramesShape'
    BY <2>1, FramesKeepShape
  <2> DEFINE n == Len(frames)
  <2>3. n \in LoopFrames /\ LoopFrames' = LoopFrames \ {n} /\ LoopFrames \subseteq 1 .. n
    BY <1>6, <1>a, <2>1 DEF LoopFrames, Top
  <2>4. /\ loopDepth \in 0 .. MaxLoopNesting
        /\ \A k \in LoopFrames : /\ frames[k].level \in 1 .. loopDepth
                                 /\ loopEnd[frames[k].level] = frames[k].join
                                 /\ loopCond[frames[k].level] = frames[k].next
        /\ \A k, m \in LoopFrames : k < m => frames[k].level < frames[m].level
        /\ \A l \in 1 .. loopDepth : \E k \in LoopFrames : frames[k].level = l
    BY <1>a DEF LoopsType, LoopStackMatchesFrames
  <2>5. frames[n].level = loopDepth /\ loopDepth \in 1 .. loopDepth
    <3>1. frames[n].level \in 1 .. loopDepth
      BY <2>3, <2>4
    <3>2. loopDepth \in 1 .. loopDepth
      BY <2>4, <3>1
    <3>3. PICK k \in LoopFrames : frames[k].level = loopDepth
      BY <2>4, <3>2
    <3>4. k < n => loopDepth < frames[n].level
      BY <2>3, <2>4, <3>3
    <3>5. k \in 1 .. n /\ n \in Nat
      BY <1>a, <2>3
    <3> QED
      BY <2>4, <3>1, <3>2, <3>3, <3>4, <3>5
  <2>6. \A k \in LoopFrames' : /\ k \in LoopFrames /\ frames'[k] = frames[k]
                               /\ frames[k].level \in 1 .. loopDepth - 1
    <3>1. ASSUME NEW k \in LoopFrames, k # n
          PROVE  frames[k].level \in 1 .. loopDepth - 1
      <4>1. k < n
        <5>1. k \in 1 .. n /\ n \in Nat
          BY <1>a, <2>3
        <5> QED
          BY <3>1, <5>1
      <4>2. frames[k].level < loopDepth /\ frames[k].level \in 1 .. loopDepth
        BY <2>3, <2>4, <2>5, <4>1
      <4> QED
        BY <2>4, <4>2
    <3> QED
      BY <2>1, <2>3, <3>1 DEF LoopFrames
  <2>7. loopDepth' = loopDepth - 1 /\ UNCHANGED <<loopEnd, loopCond>> /\ LoopsType'
    BY <1>6, <1>a, <2>5 DEF PopLoop, LoopsType
  <2>8. \A l \in 1 .. loopDepth' : \E k \in LoopFrames' : frames'[k].level = l
    <3>1. ASSUME NEW l \in 1 .. loopDepth - 1
          PROVE  \E k \in LoopFrames' : frames'[k].level = l
      <4>1. l \in 1 .. loopDepth /\ l # loopDepth
        BY <2>4
      <4>2. PICK k \in LoopFrames : frames[k].level = l
        BY <2>4, <4>1
      <4>3. k # n
        BY <2>5, <4>1, <4>2
      <4> QED
        BY <2>3, <2>6, <4>2, <4>3
    <3> QED
      BY <2>7, <3>1
  <2> QED
    BY <2>1, <2>2, <2>4, <2>6, <2>7, <2>8 DEF LoopStackMatchesFrames
<1> QED
  BY <1>1, <1>2, <1>3, <1>4, <1>5, <1>6 DEF FrameStep

-----------------------------------------------------------------------------
(* How steps change the module and the place of the builder in it.         *)

ModuleStep ==
    \* nothing is emitted
    \/ /\ UNCHANGED <<created, blockFn, edges, insert, mainEntry>>
       /\ \/ curFn' = curFn /\ (frames' # << >> => frames # << >>) /\ (ctxError => ctxError')
          \/ frames' = << >> /\ ctxError'
    \* a node emits into its function
    \/ /\ frames # << >> /\ curFn' = curFn /\ mainEntry' = mainEntry
       /\ UNCHANGED <<created, blockFn>> \/ \E n \in Nat : AppendBlocks(n, curFn)
       /\ \E E \in SUBSET (OwnBlocks' \X OwnBlocks') : edges' = edges \union E
       /\ insert' \in OwnBlocks'
    \* the main function is made current, before a node or after a procedure
    \/ /\ \/ frames = << >> /\ ~ctxError
          \/ frames # << >> /\ frames' = << >>
       /\ \E t : EnsureMain(t)
       /\ edges' = edges
    \* a procedure is added
    \/ /\ frames = << >> /\ edges' = edges
       /\ \E fn \in Functions \ {NoFunction} :
             /\ AppendBlocks(1, fn) /\ curFn' = fn /\ insert' = created + 1
             /\ mainEntry' = mainEntry \/ (mainEntry' = created + 1 /\ fn = Main)

ModuleFacts == ModuleShape /\ Position /\ BranchesStayInFunction

LEMMA BlocksStayInPlace ==
    ASSUME IndInv, ModuleType', NEW n \in Nat, NEW fn \in Functions \ {NoFunction},
           AppendBlocks(n, fn)
    PROVE  /\ created' = created + n
           /\ \A b \in Blocks : blockFn'[b] = NoFunction <=> b > created'
           /\ \A b \in 1 .. created : b \in 1 .. created' /\ blockFn'[b] = blockFn[b]
           /\ \A b \in created + 1 .. created + n : b \in 1 .. created' /\ blockFn'[b] = fn
<1>1. created \in 0 .. MaxBlocks
  BY DEF IndInv, TypeOK, ModuleType
<1>2. \A b \in Blocks : blockFn[b] = NoFunction <=> b > created
  BY DEF IndInv, ModuleShape
<1> QED
  BY <1>1, <1>2, AppendBlocksType DEF Blocks

LEMMA EdgesStay ==
    ASSUME IndInv, ModuleType', edges' = edges,
           \A b \in 1 .. created : b \in 1 .. created' /\ blockFn'[b] = blockFn[b]
    PROVE  BranchesStayInFunction' /\ \A e \in edges' : e[1] <= created' /\ e[2] <= created'
<1>1. \A e \in edges : /\ e[1] \in 1 .. created /\ e[2] \in 1 .. created
                       /\ blockFn[e[1]] = blockFn[e[2]] /\ blockFn[e[1]] # NoFunction
  BY DEF IndInv, TypeOK, ModuleType, ModuleShape, BranchesStayInFunction, Blocks
<1> QED
  BY <1>1 DEF BranchesStayInFunction, ModuleType

LEMMA ModuleStepKeeps ==
    ASSUME IndInv, ModuleStep, ModuleType'
    PROVE  /\ ModuleFacts'
           /\ frames # << >> /\ frames' # << >> => OwnBlocks \subseteq OwnBlocks'
<1> USE DEF ModuleFacts
<1>a. /\ created \in 0 .. MaxBlocks /\ created' \in 0 .. MaxBlocks
      /\ insert \in 0 .. created /\ mainEntry \in 0 .. created
      /\ ModuleShape /\ Position /\ BranchesStayInFunction
      /\ edges \in SUBSET (Blocks \X Blocks)
  BY DEF IndInv, TypeOK, ModuleType
<1>1. CASE /\ UNCHANGED <<created, blockFn, edges, insert, mainEntry>>
           /\ \/ curFn' = curFn /\ (frames' # << >> => frames # << >>)
                 /\ (ctxError => ctxError')
              \/ frames' = << >> /\ ctxError'
  BY <1>1, <1>a DEF ModuleShape, Position, BranchesStayInFunction, OwnBlocks
<1>2. CASE /\ frames # << >> /\ curFn' = curFn /\ mainEntry' = mainEntry
           /\ UNCHANGED <<created, blockFn>> \/ \E n \in Nat : AppendBlocks(n, curFn)
           /\ \E E \in SUBSET (OwnBlocks' \X OwnBlocks') : edges' = edges \union E
           /\ insert' \in OwnBlocks'
  <2>1. /\ created <= created'
        /\ \A b \in Blocks : blockFn'[b] = NoFunction <=> b > created'
        /\ \A b \in 1 .. created : b \in 1 .. created' /\ blockFn'[b] = blockFn[b]
    <3>1. CASE UNCHANGED <<created, blockFn>>
      BY <3>1, <1>a DEF ModuleShape
    <3>2. ASSUME NEW n \in Nat, AppendBlocks(n, curFn)
          PROVE  /\ created <= created'
                 /\ \A b \in Blocks : blockFn'[b] = NoFunction <=> b > created'
                 /\ \A b \in 1 .. created : b \in 1 .. created' /\ blockFn'[b] = blockFn[b]
      <4>1. curFn \in Functions \ {NoFunction}
        BY <1>2, InsertIsOwn
      <4>2. /\ created' = created + n
            /\ \A b \in Blocks : blockFn'[b] = NoFunction <=> b > created'
            /\ \A b \in 1 .. created : b \in 1 .. created' /\ blockFn'[b] = blockFn[b]
        BY <3>2, <4>1, BlocksStayInPlace, Zenon
      <4>3. created <= created'
        BY <1>a, <4>2
      <4> QED
        BY <4>2, <4>3, Zenon
    <3> QED
      BY <1>2, <3>1, <3>2
  <2>2. OwnBlocks \subseteq OwnBlocks'
    BY <1>2, <2>1 DEF OwnBlocks
  <2>3. PICK E \in SUBSET (OwnBlocks' \X OwnBlocks') : edges' = edges \union E
    BY <1>2
  <2>4. curFn # NoFunction
    BY <1>2, InsertIsOwn
  <2>5. \A e \in E : /\ e[1] <= created' /\ e[2] <= created'
                     /\ blockFn'[e[1]] = curFn /\ blockFn'[e[2]] = curFn
    BY <1>a, <1>2 DEF OwnBlocks
  <2>6. \A e \in edges : /\ e[1] \in 1 .. created /\ e[2] \in 1 .. created
                         /\ blockFn[e[1]] = blockFn[e[2]] /\ blockFn[e[1]] # NoFunction
    BY <1>a DEF ModuleShape, BranchesStayInFunction, Blocks
  <2>7. \A e \in edges : /\ e[1] <= created' /\ e[2] <= created'
                         /\ blockFn'[e[1]] = blockFn'[e[2]] /\ blockFn'[e[1]] # NoFunction
    BY <1>a, <2>1, <2>6
  <2>8. BranchesStayInFunction' /\ \A e \in edges' : e[1] <= created' /\ e[2] <= created'
    BY <2>3, <2>4, <2>5, <2>7 DEF BranchesStayInFunction
  <2>9. insert' # NoBlock
    BY <1>2, <1>a DEF OwnBlocks, NoBlock
  <2>10. mainEntry' # NoBlock => blockFn'[mainEntry'] = Main
    <3>1. mainEntry # NoBlock => mainEntry \in 1 .. created /\ blockFn[mainEntry] = Main
      BY <1>a DEF ModuleShape, NoBlock
    <3> QED
      BY <1>2, <2>1, <3>1
  <2>11. ModuleShape'
    BY <2>1, <2>8, <2>9, <2>10 DEF ModuleShape
  <2>12. Position'
    BY <1>2, <2>9 DEF Position
  <2> QED
    BY <2>2, <2>8, <2>11, <2>12
<1>3. CASE /\ \/ frames = << >> /\ ~ctxError
              \/ frames # << >> /\ frames' = << >>
           /\ \E t : EnsureMain(t)
           /\ edges' = edges
  <2>1. CASE /\ mainEntry = NoBlock /\ AppendBlocks(1, Main)
             /\ insert' = created + 1 /\ mainEntry' = created + 1 /\ curFn' = Main
    <3>1. Main \in Functions \ {NoFunction}
      BY DEF Functions, Main, NoFunction
    <3>2. created + 1 \in created + 1 .. created + 1
      BY <1>a
    <3>3. /\ created' = created + 1
          /\ \A b \in Blocks : blockFn'[b] = NoFunction <=> b > created'
          /\ \A b \in 1 .. created : b \in 1 .. created' /\ blockFn'[b] = blockFn[b]
          /\ blockFn'[created + 1] = Main /\ created + 1 \in 1 .. created'
      BY <1>a, <2>1, <3>1, <3>2, BlocksStayInPlace
    <3>4. BranchesStayInFunction' /\ \A e \in edges' : e[1] <= created' /\ e[2] <= created'
      BY <1>3, <3>3, EdgesStay
    <3>5. insert' # NoBlock /\ insert' \in OwnBlocks'
      BY <1>a, <2>1, <3>3 DEF OwnBlocks, NoBlock
    <3> QED
      BY <1>3, <2>1, <3>3, <3>4, <3>5 DEF ModuleShape, Position
  <2>2. CASE /\ mainEntry # NoBlock /\ UNCHANGED <<created, blockFn, mainEntry>>
             /\ \/ blockFn[insert] = Main /\ UNCHANGED <<insert, curFn>>
                \/ insert' = mainEntry /\ curFn' = Main
    <3>1. /\ \A b \in Blocks : blockFn'[b] = NoFunction <=> b > created'
          /\ \A b \in 1 .. created : b \in 1 .. created' /\ blockFn'[b] = blockFn[b]
      BY <2>2, <1>a DEF ModuleShape
    <3>2. BranchesStayInFunction' /\ \A e \in edges' : e[1] <= created' /\ e[2] <= created'
      BY <1>3, <3>1, EdgesStay
    <3>3. insert # NoBlock /\ insert \in OwnBlocks
      BY <1>3, <2>2, <1>a DEF ModuleShape, Position
    <3>4. mainEntry \in 1 .. created /\ blockFn[mainEntry] = Main
      BY <2>2, <1>a DEF ModuleShape, NoBlock
    <3>5. insert' # NoBlock /\ insert' \in OwnBlocks'
      BY <2>2, <1>a, <3>3, <3>4 DEF OwnBlocks, NoBlock
    <3> QED
      BY <1>3, <2>2, <3>1, <3>2, <3>4, <3>5 DEF ModuleShape, Position
  <2> QED
    BY <1>3, <2>1, <2>2 DEF EnsureMain, CreateMain, StayInMain, ReturnToMain
<1>4. ASSUME frames = << >>, edges' = edges, NEW fn \in Functions \ {NoFunction},
             AppendBlocks(1, fn), curFn' = fn, insert' = created + 1,
             mainEntry' = mainEntry \/ (mainEntry' = created + 1 /\ fn = Main)
      PROVE  /\ ModuleFacts'
             /\ frames # << >> /\ frames' # << >> => OwnBlocks \subseteq OwnBlocks'
  <2>1. created + 1 \in created + 1 .. created + 1
    BY <1>a
  <2>2. /\ created' = created + 1
        /\ \A b \in Blocks : blockFn'[b] = NoFunction <=> b > created'
        /\ \A b \in 1 .. created : b \in 1 .. created' /\ blockFn'[b] = blockFn[b]
        /\ blockFn'[created + 1] = fn /\ created + 1 \in 1 .. created'
    BY <1>a, <1>4, <2>1, BlocksStayInPlace
  <2>3. BranchesStayInFunction' /\ \A e \in edges' : e[1] <= created' /\ e[2] <= created'
    BY <1>4, <2>2, EdgesStay
  <2>4. insert' # NoBlock /\ insert' \in OwnBlocks'
    BY <1>a, <1>4, <2>2 DEF OwnBlocks, NoBlock
  <2>5. mainEntry # NoBlock => mainEntry \in 1 .. created /\ blockFn[mainEntry] = Main
    BY <1>a DEF ModuleShape, NoBlock
  <2>6. mainEntry' # NoBlock => blockFn'[mainEntry'] = Main
    BY <1>4, <2>2, <2>5
  <2> QED
    BY <1>4, <2>2, <2>3, <2>4, <2>6 DEF ModuleShape, Position
<1> HIDE DEF ModuleFacts
<1> QED
  BY <1>1, <1>2, <1>3, <1>4 DEF ModuleStep

LEMMA LastPop ==
    ASSUME frames \in Seq(FrameType), Len(frames) = 1, Pop
    PROVE  frames # << >> /\ frames' = << >>
<1>1. frames # << >>
  OBVIOUS
<1>2. frames' \in Seq(FrameType) /\ Len(frames') = 0
  BY <1>1, PopType
<1> QED
  BY <1>1, <1>2, EmptySeq

\* A branch between blocks of the current function, and the builder moved there.
LEMMA EmissionStep ==
    ASSUME IndInv, frames # << >>, curFn' = curFn, mainEntry' = mainEntry,
           UNCHANGED <<created, blockFn>> \/ \E n \in Nat : AppendBlocks(n, curFn),
           NEW E, E \in SUBSET (OwnBlocks' \X OwnBlocks'), edges' = edges \union E,
           insert' \in OwnBlocks'
    PROVE  ModuleStep
BY DEF ModuleStep

LEMMA ModuleSteps ==
    ASSUME IndInv, Next
    PROVE  ModuleStep
<1> USE DEF driver, module, function
<1>1. ASSUME NEW appends \in BOOLEAN, NEW fails \in BOOLEAN,
             EmitExpression(appends, fails)
      PROVE  ModuleStep
  BY <1>1 DEF EmitExpression, ModuleStep
<1>2. CASE EmitTernary
  <2>1. frames # << >> /\ AppendBlocks(3, curFn) /\ curFn' = curFn
        /\ mainEntry' = mainEntry /\ insert' = created + 3
        /\ edges' = edges \union {<<insert, created + 1>>, <<insert, created + 2>>,
                                  <<created + 1, created + 3>>, <<created + 2, created + 3>>}
    BY <1>2 DEF EmitTernary, AtExpression
  <2>2. {created + 1, created + 2, created + 3} \subseteq OwnBlocks'
    <3>1. created + 1 .. created + 3 \subseteq OwnBlocks'
      BY <2>1, NewBlocksAreOwn
    <3>2. /\ created + 1 \in created + 1 .. created + 3
          /\ created + 2 \in created + 1 .. created + 3
          /\ created + 3 \in created + 1 .. created + 3
      BY DEF IndInv, TypeOK, ModuleType
    <3> QED
      BY <3>1, <3>2
  <2>3. insert \in OwnBlocks'
    BY <2>1, InsertIsOwn, OwnBlocksGrow
  <2>4. PICK E : E = {<<insert, created + 1>>, <<insert, created + 2>>,
                      <<created + 1, created + 3>>, <<created + 2, created + 3>>}
    OBVIOUS
  <2>5. E \in SUBSET (OwnBlocks' \X OwnBlocks')
    BY <2>2, <2>3, <2>4
  <2> QED
    BY <2>1, <2>2, <2>4, <2>5, EmissionStep
<1>3. CASE IfCondition
  <2>1. frames # << >> /\ AppendBlocks(3, curFn) /\ curFn' = curFn
        /\ mainEntry' = mainEntry /\ insert' = created + 1
        /\ edges' = edges \union {<<insert, created + 1>>, <<insert, created + 2>>}
    BY <1>3 DEF IfCondition, InPhase, CondBranch
  <2>2. {created + 1, created + 2} \subseteq OwnBlocks'
    <3>1. created + 1 .. created + 3 \subseteq OwnBlocks'
      BY <2>1, NewBlocksAreOwn
    <3>2. /\ created + 1 \in created + 1 .. created + 3
          /\ created + 2 \in created + 1 .. created + 3
      BY DEF IndInv, TypeOK, ModuleType
    <3> QED
      BY <3>1, <3>2
  <2>3. insert \in OwnBlocks'
    BY <2>1, InsertIsOwn, OwnBlocksGrow
  <2>4. PICK E : E = {<<insert, created + 1>>, <<insert, created + 2>>}
    OBVIOUS
  <2>5. E \in SUBSET (OwnBlocks' \X OwnBlocks')
    BY <2>2, <2>3, <2>4
  <2> QED
    BY <2>1, <2>2, <2>4, <2>5, EmissionStep
<1>4. CASE EmitWhile
  <2>1. frames # << >> /\ AppendBlocks(3, curFn) /\ curFn' = curFn
        /\ mainEntry' = mainEntry /\ insert' = created + 1
        /\ edges' = edges \union {<<insert, created + 1>>}
    BY <1>4 DEF EmitWhile, AtStatement, Branch
  <2>2. created + 1 \in OwnBlocks'
    <3>1. created + 1 .. created + 3 \subseteq OwnBlocks'
      BY <2>1, NewBlocksAreOwn
    <3>2. created + 1 \in created + 1 .. created + 3
      BY DEF IndInv, TypeOK, ModuleType
    <3> QED
      BY <3>1, <3>2
  <2>3. insert \in OwnBlocks'
    BY <2>1, InsertIsOwn, OwnBlocksGrow
  <2>4. PICK E : E = {<<insert, created + 1>>}
    OBVIOUS
  <2>5. E \in SUBSET (OwnBlocks' \X OwnBlocks')
    BY <2>2, <2>3, <2>4
  <2> QED
    BY <2>1, <2>2, <2>4, <2>5, EmissionStep
<1>5. CASE EmitFor
  <2>1. frames # << >> /\ AppendBlocks(4, curFn) /\ curFn' = curFn
        /\ mainEntry' = mainEntry /\ insert' = insert /\ edges' = edges
    BY <1>5 DEF EmitFor, AtStatement
  <2>2. insert \in OwnBlocks'
    BY <2>1, InsertIsOwn, OwnBlocksGrow
  <2>3. PICK E : E = {}
    OBVIOUS
  <2>4. E \in SUBSET (OwnBlocks' \X OwnBlocks') /\ edges' = edges \union E
    BY <2>1, <2>3
  <2> QED
    BY <2>1, <2>2, <2>4, EmissionStep
<1>6. CASE IfThenDone \/ IfElseDone \/ ForPreDone \/ WhileBodyDone \/ ForBodyDone
           \/ ForIncDone
  <2>1. frames # << >> /\ UNCHANGED <<created, blockFn, curFn, mainEntry>>
    BY <1>6 DEF IfThenDone, IfElseDone, ForPreDone, WhileBodyDone, ForBodyDone,
                ForIncDone, InPhase
  <2>2. PICK to, then : Branch(to, then) /\ to \in OwnBlocks /\ then \in OwnBlocks
    BY <1>6, <2>1, TopShape
       DEF IfThenDone, IfElseDone, ForPreDone, WhileBodyDone, ForBodyDone,
           ForIncDone, InPhase, LoopKinds
  <2>3. PICK E : E = {<<insert, to>>}
    OBVIOUS
  <2>4. OwnBlocks' = OwnBlocks
    BY <2>1 DEF OwnBlocks
  <2>5. E \in SUBSET (OwnBlocks' \X OwnBlocks') /\ edges' = edges \union E
        /\ insert' \in OwnBlocks'
    BY <2>1, <2>2, <2>3, <2>4, InsertIsOwn DEF Branch
  <2> QED
    BY <2>1, <2>5, EmissionStep
<1>7. CASE LoopCondition
  <2>1. /\ frames # << >> /\ UNCHANGED <<created, blockFn, curFn, mainEntry>>
        /\ CondBranch(Top.body, Top.join)
        /\ Top.body \in OwnBlocks /\ Top.join \in OwnBlocks
    BY <1>7, TopShape DEF LoopCondition, InPhase
  <2>2. PICK E : E = {<<insert, Top.body>>, <<insert, Top.join>>}
    OBVIOUS
  <2>3. OwnBlocks' = OwnBlocks
    BY <2>1 DEF OwnBlocks
  <2>4. E \in SUBSET (OwnBlocks' \X OwnBlocks') /\ edges' = edges \union E
        /\ insert' \in OwnBlocks'
    BY <2>1, <2>2, <2>3, InsertIsOwn DEF CondBranch
  <2> QED
    BY <2>1, <2>4, EmissionStep
<1>8. CASE EmitBreak \/ EmitContinue
  <2>1. frames # << >> /\ UNCHANGED <<created, blockFn, curFn, mainEntry>>
    BY <1>8 DEF EmitBreak, EmitContinue, EmitJump, AtStatement
  <2>2. PICK to \in OwnBlocks : Branch(to, insert)
    BY <1>8, JumpTargetIsOwn DEF EmitBreak, EmitContinue, EmitJump
  <2>3. PICK E : E = {<<insert, to>>}
    OBVIOUS
  <2>4. OwnBlocks' = OwnBlocks
    BY <2>1 DEF OwnBlocks
  <2>5. E \in SUBSET (OwnBlocks' \X OwnBlocks') /\ edges' = edges \union E
        /\ insert' \in OwnBlocks'
    BY <2>1, <2>2, <2>3, <2>4, InsertIsOwn DEF Branch
  <2> QED
    BY <2>1, <2>5, EmissionStep
<1>9. ASSUME NEW kind \in {"if", "ifexpr"}, EmitIf(kind)
      PROVE  ModuleStep
  BY <1>9 DEF EmitIf, AtStatement, ClearCf, ModuleStep
<1>10. CASE EmitElseIfExpression
  BY <1>10 DEF EmitElseIfExpression, InPhase, errors, ModuleStep
<1>11. CASE IfBadCondition \/ LoopTooDeep \/ LoopBadCondition \/ JumpOutsideLoop
  BY <1>11 DEF IfBadCondition, LoopTooDeep, LoopBadCondition, JumpOutsideLoop,
               InPhase, AtStatement, RaiseCf, ModuleStep
<1>12. CASE EmitAfterError \/ StatementDone \/ EmitImplicitReturn \/ Finish
  BY <1>12 DEF EmitAfterError, StatementDone, EmitImplicitReturn, Finish,
               InPhase, errors, ModuleStep
<1>13. ASSUME NEW outcome \in {"none", "null", "value"}, EmitReturn(outcome)
       PROVE  ModuleStep
  BY <1>13 DEF EmitReturn, errors, ModuleStep
<1>14. CASE EmitProcUnsupported
  BY <1>14 DEF EmitProcUnsupported, AtTopLevel, ModuleStep
<1>15. CASE ProcFails
  <2>1. Len(frames) = 1 /\ Pop /\ frames \in Seq(FrameType)
    BY <1>15 DEF ProcFails, IndInv, TypeOK
  <2>2. frames' = << >>
    BY <2>1, LastPop
  <2> QED
    BY <1>15, <2>2 DEF ProcFails, ModuleStep
<1>16. CASE ProcDone
  <2>1. Len(frames) = 1 /\ Pop /\ frames \in Seq(FrameType)
    BY <1>16 DEF ProcDone, IndInv, TypeOK
  <2>2. frames # << >> /\ frames' = << >>
    BY <2>1, LastPop
  <2> QED
    BY <1>16, <2>2 DEF ProcDone, ModuleStep
<1>17. CASE EmitStatement
  BY <1>17 DEF EmitStatement, AtTopLevel, ModuleStep
<1>18. ASSUME NEW isVoid \in BOOLEAN, NEW named \in {"main", "other"},
              EmitProc(isVoid, named)
       PROVE  ModuleStep
  <2>1. PICK fn \in Functions \ {NoFunction} :
           /\ AppendBlocks(1, fn) /\ curFn' = fn /\ insert' = created + 1
           /\ mainEntry' = mainEntry \/ (mainEntry' = created + 1 /\ fn = Main)
    <3>1. procs + 1 \in Functions \ {NoFunction} /\ Main \in Functions \ {NoFunction}
      BY <1>18 DEF EmitProc, IndInv, TypeOK, EmitterType, Functions, Procs, Main, NoFunction
    <3> QED
      BY <1>18, <3>1 DEF EmitProc
  <2> QED
    BY <1>18, <2>1 DEF EmitProc, AtTopLevel, ModuleStep
<1> QED
  BY <1>1, <1>2, <1>3, <1>4, <1>5, <1>6, <1>7, <1>8, <1>9, <1>10, <1>11, <1>12,
     <1>13, <1>14, <1>15, <1>16, <1>17, <1>18 DEF Next

LEMMA EmitterTypeStep ==
    ASSUME IndInv, Next
    PROVE  EmitterType'
<1> USE DEF EmitterType, driver, function, errors, RaiseCf, ClearCf
<1>a. EmitterType /\ ModuleType /\ curFn \in Functions
  BY DEF IndInv, TypeOK
<1>1. ASSUME NEW appends \in BOOLEAN, NEW fails \in BOOLEAN,
             EmitExpression(appends, fails)
      PROVE  EmitterType'
  BY <1>1, <1>a DEF EmitExpression
<1>2. CASE EmitTernary
  BY <1>2, <1>a DEF EmitTernary
<1>3. ASSUME NEW kind \in {"if", "ifexpr"}, EmitIf(kind)
      PROVE  EmitterType'
  BY <1>3, <1>a DEF EmitIf
<1>4. CASE EmitElseIfExpression \/ IfCondition \/ IfBadCondition \/ IfThenDone
  BY <1>4, <1>a DEF EmitElseIfExpression, IfCondition, IfBadCondition, IfThenDone
<1>5. CASE IfElseDone
  BY <1>5, <1>a DEF IfElseDone
<1>6. CASE LoopTooDeep \/ EmitWhile \/ EmitFor \/ ForPreDone
  BY <1>6, <1>a DEF LoopTooDeep, EmitWhile, EmitFor, ForPreDone
<1>7. CASE LoopCondition \/ LoopBadCondition \/ WhileBodyDone \/ ForBodyDone \/ ForIncDone
  BY <1>7, <1>a DEF LoopCondition, LoopBadCondition, WhileBodyDone, ForBodyDone, ForIncDone
<1>8. CASE EmitBreak \/ EmitContinue \/ JumpOutsideLoop
  BY <1>8, <1>a DEF EmitBreak, EmitContinue, EmitJump, JumpOutsideLoop
<1>9. CASE EmitAfterError \/ StatementDone
  BY <1>9, <1>a DEF EmitAfterError, StatementDone
<1>10. ASSUME NEW t, EnsureMain(t),
              UNCHANGED <<procs, proc, codegenError, status, errors>>
       PROVE  EmitterType'
  BY <1>10, <1>a DEF EnsureMain, CreateMain, StayInMain, ReturnToMain, Functions
<1>11. CASE EmitStatement \/ ProcDone
  <2>1. \E t : EnsureMain(t)
    BY <1>11 DEF EmitStatement, ProcDone
  <2>2. UNCHANGED <<procs, proc, codegenError, status, errors>>
    BY <1>11 DEF EmitStatement, ProcDone
  <2> QED
    BY <2>1, <2>2, <1>10
<1>12. ASSUME NEW isVoid \in BOOLEAN, NEW named \in {"main", "other"},
              EmitProc(isVoid, named)
       PROVE  EmitterType'
  <2>1. procs + 1 \in Functions /\ Main \in Functions /\ procs + 1 \in 0 .. MaxProcs
    BY <1>12, <1>a DEF EmitProc, Functions, Procs
  <2>2. curFn' \in Functions
    BY <1>12, <2>1 DEF EmitProc
  <2>3. proc' \in [void : BOOLEAN, found : BOOLEAN, value : BOOLEAN]
    BY <1>12 DEF EmitProc
  <2> QED
    BY <1>12, <1>a, <2>1, <2>2, <2>3 DEF EmitProc
<1>13. CASE EmitProcUnsupported
  BY <1>13, <1>a DEF EmitProcUnsupported, Functions
<1>14. ASSUME NEW outcome \in {"none", "null", "value"}, EmitReturn(outcome)
       PROVE  EmitterType'
  <2>1. PICK v \in BOOLEAN : proc' = [proc EXCEPT !.found = TRUE, !.value = v]
    BY <1>14, <1>a DEF EmitReturn
  <2>2. proc' \in [void : BOOLEAN, found : BOOLEAN, value : BOOLEAN]
    BY <1>a, <2>1
  <2> QED
    BY <1>14, <1>a, <2>2 DEF EmitReturn
<1>15. CASE EmitImplicitReturn
  <2>1. proc' \in [void : BOOLEAN, found : BOOLEAN, value : BOOLEAN]
    BY <1>15, <1>a DEF EmitImplicitReturn
  <2> QED
    BY <1>15, <1>a, <2>1 DEF EmitImplicitReturn
<1>16. CASE ProcFails \/ Finish
  BY <1>16, <1>a DEF ProcFails, Finish
<1> QED
  BY <1>1, <1>2, <1>3, <1>4, <1>5, <1>6, <1>7, <1>8, <1>9, <1>11, <1>12,
     <1>13, <1>14, <1>15, <1>16 DEF Next

-----------------------------------------------------------------------------
\* The invariant holds of a compilation that has emitted nothing.
LEMMA InitIndInv == Init => IndInv
<1> SUFFICES ASSUME Init PROVE IndInv
  OBVIOUS
<1> USE DEF Init
<1>1. ModuleType
  <2>1. blockFn \in [Blocks -> Functions]
    BY DEF Functions
  <2>2. phi \in [Blocks -> SUBSET Blocks] /\ edges \in SUBSET (Blocks \X Blocks)
    OBVIOUS
  <2>3. tail \in [Blocks -> {"open", "closed", "broken"}]
    OBVIOUS
  <2>4. created \in 0 .. MaxBlocks /\ insert \in 0 .. created /\ mainEntry \in 0 .. created
    BY DEF NoBlock
  <2> HIDE DEF Init
  <2> QED
    BY <2>1, <2>2, <2>3, <2>4 DEF ModuleType
<1>2. EmitterType
  <2>1. proc \in [void : BOOLEAN, found : BOOLEAN, value : BOOLEAN]
    BY SMT
  <2>2. curFn \in Functions /\ procs \in 0 .. MaxProcs
    BY DEF Functions
  <2>3. /\ mainCreated = FALSE /\ codegenError = FALSE /\ ctxError = FALSE
        /\ cfError = FALSE
        /\ status = "emitting"
    OBVIOUS
  <2> HIDE DEF Init
  <2> QED
    BY <2>1, <2>2, <2>3, Zenon DEF EmitterType
<1>3. LoopsType
  BY DEF LoopsType, NoBlock
<1>4. frames \in Seq(FrameType)
  OBVIOUS
<1>5. ModuleShape
  BY DEF ModuleShape, Blocks, NoBlock
<1>6. FramesShape /\ Position
  BY DEF FramesShape, Position
<1>7. LoopStackMatchesFrames
  BY DEF LoopStackMatchesFrames, LoopFrames
<1>8. BranchesStayInFunction
  BY DEF BranchesStayInFunction
<1> QED
  BY <1>1, <1>2, <1>3, <1>4, <1>5, <1>6, <1>7, <1>8 DEF IndInv, TypeOK

\* Every step of the emitters keeps it.
LEMMA NextIndInv == IndInv /\ [Next]_vars => IndInv'
<1> SUFFICES ASSUME IndInv, [Next]_vars PROVE IndInv'
  OBVIOUS
<1>1. CASE Next
  <2>1. ModuleType'
    BY <1>1, ModuleTypeStep
  <2>2. EmitterType'
    BY <1>1, EmitterTypeStep
  <2>3. /\ ModuleFacts'
        /\ frames # << >> /\ frames' # << >> => OwnBlocks \subseteq OwnBlocks'
    BY <1>1, <2>1, ModuleSteps, ModuleStepKeeps
  <2>4. /\ frames' \in Seq(FrameType) /\ LoopsType' /\ FramesShape'
        /\ LoopStackMatchesFrames'
    BY <1>1, <2>1, <2>3, FrameSteps, FrameStepKeeps
  <2> QED
    BY <2>1, <2>2, <2>3, <2>4 DEF IndInv, TypeOK, ModuleFacts
<1>2. CASE UNCHANGED vars
  <2> USE <1>2 DEF vars, module, function, driver, loops, errors, IndInv
  <2>1. TypeOK'
    BY DEF TypeOK, ModuleType, EmitterType, LoopsType
  <2>2. ModuleShape' /\ Position' /\ BranchesStayInFunction'
    BY DEF ModuleShape, Position, BranchesStayInFunction, OwnBlocks
  <2>3. OwnBlocks' = OwnBlocks
    BY DEF OwnBlocks
  <2>4. FramesShape'
    BY <2>3 DEF FramesShape, FrameShape
  <2>5. LoopStackMatchesFrames'
    BY DEF LoopStackMatchesFrames, LoopFrames
  <2> QED
    BY <2>1, <2>2, <2>4, <2>5
<1> QED
  BY <1>1, <1>2

\* The emitters' state satisfies the inductive invariant in every program.
THEOREM Invariance == Spec => []IndInv
BY InitIndInv, NextIndInv, PTL DEF Spec

\* Whatever program is emitted, within whatever limits, block numbers, the
\* break and continue arrays and their depth stay within their types.
THEOREM TypeCorrect == Spec => []TypeOK
<1>1. IndInv => TypeOK
  BY DEF IndInv
<1> QED
  BY <1>1, Invariance, PTL

\* The arrays loop_end and loop_condition describe exactly the loops being
\* emitted, also after bad conditions and loops that are nested too deep.
THEOREM LoopStackCorrect == Spec => []LoopStackMatchesFrames
<1>1. IndInv => LoopStackMatchesFrames
  BY DEF IndInv
<1> QED
  BY <1>1, Invariance, PTL

\* The builder never stands outside the function the emitters believe in while
\* a node is emitted.
THEOREM InsertPointCorrect == Spec => []InsertPointInCurrentFunction
<1>1. IndInv => InsertPointInCurrentFunction
  BY InsertIsOwn DEF InsertPointInCurrentFunction, OwnBlocks, IndInv, Position
<1> QED
  BY <1>1, Invariance, PTL

\* No branch is ever emitted between blocks of two functions.
THEOREM BranchesCorrect == Spec => []BranchesStayInFunction
<1>1. IndInv => BranchesStayInFunction
  BY DEF IndInv
<1> QED
  BY <1>1, Invariance, PTL

\* Every break and continue has a target in the function it is emitted in.
THEOREM JumpTargetsCorrect ==
    Spec => [](loopDepth > 0 => {loopEnd[loopDepth], loopCond[loopDepth]} \subseteq OwnBlocks)
<1>1. IndInv => (loopDepth > 0 =>
                   {loopEnd[loopDepth], loopCond[loopDepth]} \subseteq OwnBlocks)
  BY JumpTargetIsOwn
<1> QED
  BY <1>1, Invariance, PTL

-----------------------------------------------------------------------------
(* Incoming blocks of phis, errors, and terminators.                       *)

IfKinds == {"if", "ifexpr"}
InProcedure == frames # << >> /\ frames[1].kind = "fn"

(* How a step moves the recursion.                                         *)

LEMMA Pushed ==
    ASSUME IndInv, NEW f \in FrameType, Push(f)
    PROVE  /\ frames' \in Seq(FrameType) /\ frames' # << >>
           /\ DOMAIN frames' = DOMAIN frames \union {Len(frames) + 1}
           /\ Len(frames) + 1 \notin DOMAIN frames
           /\ \A i \in DOMAIN frames : frames'[i] = frames[i]
           /\ frames'[Len(frames) + 1] = f
           /\ frames # << >> => 1 \in DOMAIN frames
           /\ frames = << >> => frames'[1] = f
<1>1. frames \in Seq(FrameType)
  BY DEF IndInv, TypeOK
<1>2. /\ frames' \in Seq(FrameType) /\ Len(frames') = Len(frames) + 1
      /\ \A i \in DOMAIN frames : frames'[i] = frames[i]
      /\ frames'[Len(frames')] = f
      /\ DOMAIN frames' = DOMAIN frames \union {Len(frames) + 1}
  BY <1>1, PushType
<1>3. Len(frames) \in Nat /\ DOMAIN frames = 1 .. Len(frames)
  BY <1>1
<1>4. frames # << >> => Len(frames) # 0
  BY <1>1
<1>5. frames = << >> => Len(frames) = 0
  BY <1>1
<1> QED
  BY <1>2, <1>3, <1>4, <1>5

LEMMA Popped ==
    ASSUME IndInv, frames # << >>, Pop
    PROVE  /\ frames' \in Seq(FrameType)
           /\ \A i \in DOMAIN frames' :
                /\ i \in DOMAIN frames /\ frames'[i] = frames[i]
                /\ i # Len(frames)
           /\ frames' = << >> <=> Len(frames) = 1
           /\ frames' # << >> => frames'[1] = frames[1]
<1>1. frames \in Seq(FrameType)
  BY DEF IndInv, TypeOK
<1>2. /\ frames' \in Seq(FrameType) /\ Len(frames') = Len(frames) - 1
      /\ \A i \in DOMAIN frames' : i \in DOMAIN frames /\ frames'[i] = frames[i]
      /\ DOMAIN frames' = DOMAIN frames \ {Len(frames)}
  BY <1>1, PopType
<1>3. Len(frames) \in Nat \ {0}
  BY <1>1, TopInRange
<1>4. frames' = << >> <=> Len(frames') = 0
  BY <1>2
<1>5. frames' # << >> => 1 \in DOMAIN frames'
  BY <1>2
<1> QED
  BY <1>2, <1>3, <1>4, <1>5

LEMMA Moved ==
    ASSUME IndInv, frames # << >>, NEW f \in FrameType, Become(f)
    PROVE  /\ frames' \in Seq(FrameType) /\ frames' # << >>
           /\ DOMAIN frames' = DOMAIN frames
           /\ Len(frames) \in DOMAIN frames
           /\ \A i \in DOMAIN frames : i # Len(frames) => frames'[i] = frames[i]
           /\ frames'[Len(frames)] = f
           /\ f.kind = Top.kind => frames'[1].kind = frames[1].kind
<1>1. frames \in Seq(FrameType)
  BY DEF IndInv, TypeOK
<1>2. /\ frames' \in Seq(FrameType) /\ Len(frames') = Len(frames)
      /\ \A i \in DOMAIN frames : i # Len(frames) => frames'[i] = frames[i]
      /\ frames'[Len(frames)] = f
      /\ DOMAIN frames' = DOMAIN frames
  BY <1>1, BecomeType
<1>3. Len(frames) \in Nat \ {0} /\ DOMAIN frames = 1 .. Len(frames)
  BY <1>1, TopInRange
<1>4. frames' # << >>
  BY <1>2, <1>3
<1> QED
  BY <1>2, <1>3, <1>4 DEF Top

\* The frame on top only moves to another phase.
OnlyPhase(f, p) ==
    /\ f.kind = Top.kind /\ f.phase = p /\ f.head = Top.head /\ f.body = Top.body
    /\ f.next = Top.next /\ f.join = Top.join

LEMMA NewPhase ==
    ASSUME IndInv, frames # << >>,
           NEW p \in {"pre", "cond", "body", "inc", "then", "else", "last"},
           Become([Top EXCEPT !.phase = p])
    PROVE  \E f \in FrameType : Become(f) /\ OnlyPhase(f, p)
<1>1. Top \in FrameType
  BY TopInRange DEF IndInv, TypeOK
<1>2. PICK t, f : t = Top /\ f = [t EXCEPT !.phase = p]
  OBVIOUS
<1>3. f = [kind |-> t.kind, phase |-> p, head |-> t.head, body |-> t.body,
           next |-> t.next, join |-> t.join, level |-> t.level]
  BY <1>1, <1>2 DEF FrameType
<1>4. f \in FrameType
  BY <1>1, <1>2, <1>3 DEF FrameType
<1>5. Become(f)
  BY <1>2
<1>6. OnlyPhase(f, p)
  BY <1>2, <1>3 DEF OnlyPhase
<1> QED
  BY <1>4, <1>5, <1>6

LEMMA PhaseSteps ==
    ASSUME IndInv
    PROVE  /\ ForPreDone => \E f \in FrameType : Become(f) /\ OnlyPhase(f, "cond")
           /\ LoopCondition => \E f \in FrameType : Become(f) /\ OnlyPhase(f, "body")
           /\ ForBodyDone => \E f \in FrameType : Become(f) /\ OnlyPhase(f, "inc")
           /\ EmitImplicitReturn =>
                \E f \in FrameType : Become(f) /\ OnlyPhase(f, "last")
BY NewPhase DEF ForPreDone, LoopCondition, ForBodyDone, EmitImplicitReturn, InPhase

\* What the frame of an if becomes when its condition, or its then path, ends.
ThenFrame(f) ==
    /\ f.kind = Top.kind /\ f.phase = "then"
    /\ f.body = created + 1 /\ f.next = created + 2 /\ f.join = created + 3

ElseFrame(f) ==
    /\ f.kind = Top.kind /\ f.phase = "else" /\ f.head = insert
    /\ f.body = Top.body /\ f.next = Top.next /\ f.join = Top.join

LEMMA IfSteps ==
    ASSUME IndInv
    PROVE  /\ IfCondition => \E f \in FrameType : Become(f) /\ ThenFrame(f)
           /\ IfThenDone => \E f \in FrameType : Become(f) /\ ElseFrame(f)
<1>a. created \in Nat
  BY DEF IndInv, TypeOK, ModuleType
<1>1. ASSUME IfCondition
      PROVE  \E f \in FrameType : Become(f) /\ ThenFrame(f)
  <2>1. Top \in FrameType /\ frames # << >> /\ curFn \in Functions
    BY <1>1, InsertIsOwn DEF IfCondition, InPhase
  <2>2. created + 1 .. created + 3 \subseteq Blocks
    BY <1>1, <2>1, AppendBlocksType DEF IfCondition
  <2>3. PICK t, f : t = Top /\ f = [t EXCEPT !.phase = "then", !.body = created + 1,
                                      !.next = created + 2, !.join = created + 3]
    OBVIOUS
  <2>4. f = [kind |-> t.kind, phase |-> "then", head |-> t.head, body |-> created + 1,
             next |-> created + 2, join |-> created + 3, level |-> t.level]
    BY <2>1, <2>3 DEF FrameType
  <2>6. f \in FrameType
    BY SMTT(30), <1>a, <2>1, <2>2, <2>3, <2>4 DEF FrameType, Blocks
  <2>5. Become(f)
    BY <1>1, <2>3 DEF IfCondition
  <2>7. ThenFrame(f)
    BY <2>3, <2>4 DEF ThenFrame
  <2> QED
    BY <2>5, <2>6, <2>7
<1>2. ASSUME IfThenDone
      PROVE  \E f \in FrameType : Become(f) /\ ElseFrame(f)
  <2>1. Top \in FrameType /\ frames # << >> /\ insert \in Blocks
    BY <1>2, InsertIsOwn DEF IfThenDone, InPhase
  <2>2. PICK t, f : t = Top /\ f = [t EXCEPT !.phase = "else", !.head = insert]
    OBVIOUS
  <2>3. f = [kind |-> t.kind, phase |-> "else", head |-> insert, body |-> t.body,
             next |-> t.next, join |-> t.join, level |-> t.level]
    BY <2>1, <2>2 DEF FrameType
  <2>4. f \in FrameType
    BY <2>1, <2>2, <2>3 DEF FrameType, Blocks
  <2>5. Become(f)
    BY <1>2, <2>2 DEF IfThenDone
  <2>6. ElseFrame(f)
    BY <2>2, <2>3 DEF ElseFrame
  <2> QED
    BY <2>4, <2>5, <2>6
<1> QED
  BY <1>1, <1>2

\* The frames that statements, nodes of the program and loops push.
WhileFrame(f) ==
    /\ f.kind = "while" /\ f.phase = "cond" /\ f.head = created + 1
    /\ f.body = created + 2 /\ f.next = created + 1 /\ f.join = created + 3

ForFrame(f) ==
    /\ f.kind = "for" /\ f.phase = "pre" /\ f.head = created + 1
    /\ f.body = created + 2 /\ f.next = created + 3 /\ f.join = created + 4

LEMMA PlainPush ==
    ASSUME IndInv, NEW kind \in {"main", "fn"} \union IfKinds,
           NEW p \in {"cond", "body"}, Push(Frame(kind, p))
    PROVE  \E f \in FrameType : Push(f) /\ f.kind = kind /\ f.phase = p
<1>1. Frame(kind, p) \in FrameType
  BY FrameHasType DEF IfKinds
<1>2. Frame(kind, p).kind = kind /\ Frame(kind, p).phase = p
  BY DEF Frame
<1> QED
  BY <1>1, <1>2

LEMMA LoopPushes ==
    ASSUME IndInv
    PROVE  /\ EmitWhile => \E f \in FrameType : Push(f) /\ WhileFrame(f)
           /\ EmitFor => \E f \in FrameType : Push(f) /\ ForFrame(f)
<1>a. /\ created \in Nat /\ curFn \in Functions /\ loopDepth \in 0 .. MaxLoopNesting
      /\ NoBlock \in 0 .. MaxBlocks
  BY DEF IndInv, TypeOK, ModuleType, EmitterType, LoopsType, NoBlock
<1>1. ASSUME EmitWhile
      PROVE  \E f \in FrameType : Push(f) /\ WhileFrame(f)
  <2>1. created + 1 .. created + 3 \subseteq Blocks
    BY <1>1, <1>a, AppendBlocksType DEF EmitWhile
  <2>2. PICK f : f = [Frame("while", "cond") EXCEPT
                        !.head = created + 1, !.body = created + 2,
                        !.next = created + 1, !.join = created + 3,
                        !.level = loopDepth + 1]
    OBVIOUS
  <2>3. f = [kind |-> "while", phase |-> "cond", head |-> created + 1,
             body |-> created + 2, next |-> created + 1, join |-> created + 3,
             level |-> loopDepth + 1]
    BY <2>2 DEF Frame
  <2>4. loopDepth + 1 \in 0 .. MaxLoopNesting
    BY <1>1, <1>a DEF EmitWhile
  <2>5. f \in FrameType
    BY <1>a, <2>1, <2>3, <2>4 DEF FrameType, Blocks, LoopKinds
  <2>6. Push(f)
    BY <1>1, <2>2 DEF EmitWhile
  <2>7. WhileFrame(f)
    BY <2>3 DEF WhileFrame
  <2> QED
    BY <2>5, <2>6, <2>7
<1>2. ASSUME EmitFor
      PROVE  \E f \in FrameType : Push(f) /\ ForFrame(f)
  <2>1. created + 1 .. created + 4 \subseteq Blocks
    BY <1>2, <1>a, AppendBlocksType DEF EmitFor
  <2>2. PICK f : f = [Frame("for", "pre") EXCEPT
                        !.head = created + 1, !.body = created + 2,
                        !.next = created + 3, !.join = created + 4,
                        !.level = loopDepth + 1]
    OBVIOUS
  <2>3. f = [kind |-> "for", phase |-> "pre", head |-> created + 1,
             body |-> created + 2, next |-> created + 3, join |-> created + 4,
             level |-> loopDepth + 1]
    BY <2>2 DEF Frame
  <2>4. loopDepth + 1 \in 0 .. MaxLoopNesting
    BY <1>2, <1>a DEF EmitFor
  <2>5. f \in FrameType
    BY <1>a, <2>1, <2>3, <2>4 DEF FrameType, Blocks, LoopKinds
  <2>6. Push(f)
    BY <1>2, <2>2 DEF EmitFor
  <2>7. ForFrame(f)
    BY <2>3 DEF ForFrame
  <2> QED
    BY <2>5, <2>6, <2>7
<1> QED
  BY <1>1, <1>2

LEMMA PlainPushes ==
    ASSUME IndInv
    PROVE  /\ \A kind \in IfKinds : EmitIf(kind) =>
                \E f \in FrameType : Push(f) /\ f.kind = kind /\ f.phase = "cond"
           /\ EmitElseIfExpression =>
                \E f \in FrameType : Push(f) /\ f.kind = "ifexpr" /\ f.phase = "cond"
           /\ EmitStatement =>
                \E f \in FrameType : Push(f) /\ f.kind = "main" /\ f.phase = "body"
           /\ \A isVoid, named : EmitProc(isVoid, named) =>
                \E f \in FrameType : Push(f) /\ f.kind = "fn" /\ f.phase = "body"
<1>1. \A kind \in IfKinds : EmitIf(kind) => Push(Frame(kind, "cond"))
  BY DEF EmitIf
<1>2. EmitElseIfExpression => Push(Frame("ifexpr", "cond"))
  BY DEF EmitElseIfExpression
<1>3. EmitStatement => Push(Frame("main", "body"))
  BY DEF EmitStatement
<1>4. \A isVoid, named : EmitProc(isVoid, named) => Push(Frame("fn", "body"))
  BY DEF EmitProc
<1> QED
  BY <1>1, <1>2, <1>3, <1>4, PlainPush DEF IfKinds

-----------------------------------------------------------------------------
(* Errors.  At the end of every node of the program EmitAST looks at the   *)
(* context; a procedure is emitted only while it has no error and, in the  *)
(* programs this is about, ends without one.                               *)

ErrorsKept ==
    /\ InProcedure => ~ctxError
    /\ frames = << >> /\ ctxError => codegenError
    /\ status # "emitting" => frames = << >>
    /\ status = "written" => ~ctxError

LEMMA ErrorsStep ==
    ASSUME IndInv, ErrorsKept, [Next]_vars, "procError" \notin Features
    PROVE  ErrorsKept'
<1> USE DEF ErrorsKept, InProcedure
<1>a. frames \in Seq(FrameType) /\ (frames # << >> => Len(frames) \in Nat \ {0})
  BY TopInRange DEF IndInv, TypeOK
<1>b. ASSUME frames' # << >>, frames # << >>, frames'[1].kind = frames[1].kind,
             UNCHANGED <<ctxError, status>>
      PROVE  ErrorsKept'
  BY <1>b
<1>c. ASSUME frames # << >>, Pop, Top.kind \notin {"main", "fn"},
             UNCHANGED <<ctxError, status>>
      PROVE  ErrorsKept'
  BY <1>b, <1>c, TopShape, Popped
<1>d. ASSUME frames # << >>, NEW f \in FrameType, Become(f), f.kind = Top.kind,
             UNCHANGED <<ctxError, status>>
      PROVE  ErrorsKept'
  BY <1>b, <1>d, Moved
<1>e. ASSUME frames # << >>, NEW f \in FrameType, Push(f),
             UNCHANGED <<ctxError, status>>
      PROVE  ErrorsKept'
  <2>1. frames' # << >> /\ frames'[1] = frames[1]
    BY <1>e, Pushed
  <2> QED
    BY <1>b, <1>e, <2>1
<1>f. ASSUME UNCHANGED <<frames, ctxError, codegenError, status>>
      PROVE  ErrorsKept'
  BY <1>f
<1>g. ASSUME frames = << >>, NEW f \in FrameType, Push(f), ~ctxError,
             UNCHANGED ctxError, status = "emitting", UNCHANGED status
      PROVE  ErrorsKept'
  BY <1>g, Pushed
<1>1. ASSUME NEW appends \in BOOLEAN, NEW fails \in BOOLEAN,
             EmitExpression(appends, fails)
      PROVE  ErrorsKept'
  BY <1>1 DEF EmitExpression, AtExpression, InProc, driver
<1>2. CASE \/ EmitTernary \/ EmitBreak \/ EmitContinue \/ LoopTooDeep
           \/ JumpOutsideLoop
           \/ \E outcome \in {"none", "null", "value"} : EmitReturn(outcome)
  <2>1. frames # << >> /\ UNCHANGED <<frames, ctxError, status>>
    BY <1>2 DEF EmitTernary, EmitBreak, EmitContinue, EmitJump, LoopTooDeep,
       JumpOutsideLoop, EmitReturn, RaiseCf, ClearCf, AtExpression, AtStatement,
       InPhase, driver, errors
  <2> QED
    BY <1>b, <2>1
<1>3. CASE \/ \E kind \in IfKinds : EmitIf(kind)
           \/ EmitElseIfExpression \/ EmitWhile \/ EmitFor
  <2>1. frames # << >> /\ UNCHANGED <<ctxError, status>>
    BY <1>3 DEF EmitIf, EmitElseIfExpression, EmitWhile, EmitFor, ClearCf,
       AtStatement, InPhase, driver, errors
  <2>2. \E f \in FrameType : Push(f)
    BY <1>3, PlainPushes, LoopPushes
  <2> QED
    BY <1>e, <2>1, <2>2
<1>4. CASE \/ IfCondition \/ IfThenDone \/ ForPreDone \/ LoopCondition \/ ForBodyDone
           \/ EmitImplicitReturn
  <2>1. frames # << >> /\ UNCHANGED <<ctxError, status>>
    BY <1>4 DEF IfCondition, IfThenDone, ForPreDone, LoopCondition, ForBodyDone,
       EmitImplicitReturn, InPhase, driver, errors
  <2>2. \E f \in FrameType : Become(f) /\ f.kind = Top.kind
    BY <1>4, IfSteps, PhaseSteps DEF ThenFrame, ElseFrame, OnlyPhase
  <2> QED
    BY <1>d, <2>1, <2>2
<1>5. CASE IfBadCondition \/ IfElseDone \/ LoopBadCondition \/ WhileBodyDone \/ ForIncDone
  <2>1. frames # << >> /\ Pop /\ UNCHANGED <<ctxError, status>>
    BY <1>5 DEF IfBadCondition, IfElseDone, LoopBadCondition, WhileBodyDone,
       ForIncDone, RaiseCf, InPhase, driver, errors
  <2>2. Top.kind \notin {"main", "fn"}
    BY <1>5 DEF IfBadCondition, IfElseDone, LoopBadCondition, WhileBodyDone,
       ForIncDone, InPhase, LoopKinds
  <2> QED
    BY <1>c, <2>1, <2>2
<1>6. CASE EmitAfterError
  BY <1>6 DEF EmitAfterError, AtTopLevel, errors
<1>7. CASE EmitStatement
  BY <1>7, <1>g, PlainPushes DEF EmitStatement, AtTopLevel, errors
<1>8. ASSUME NEW isVoid \in BOOLEAN, NEW named \in {"main", "other"},
             EmitProc(isVoid, named)
      PROVE  ErrorsKept'
  BY <1>8, <1>g, PlainPushes DEF EmitProc, AtTopLevel, errors
<1>9. CASE StatementDone
  <2>1. frames # << >> /\ Len(frames) = 1 /\ Pop
    BY <1>9, TopShape DEF StatementDone, InPhase
  <2>2. frames' = << >>
    BY <2>1, Popped
  <2> QED
    BY <1>9, <2>1, <2>2 DEF StatementDone, errors
<1>10. CASE ProcDone
  <2>1. frames # << >> /\ Len(frames) = 1 /\ Pop
    BY <1>10, <1>a DEF ProcDone
  <2>2. frames' = << >>
    BY <2>1, Popped
  <2> QED
    BY <1>10, <2>1, <2>2 DEF ProcDone, errors
<1>11. CASE EmitProcUnsupported \/ ProcFails
  BY <1>11 DEF EmitProcUnsupported, ProcFails
<1>12. CASE Finish
  BY <1>12 DEF Finish, AtTopLevel, errors
<1>13. CASE UNCHANGED vars
  BY <1>13 DEF vars, errors, driver
<1> QED
  BY <1>1, <1>2, <1>3, <1>4, <1>5, <1>6, <1>7, <1>8, <1>9, <1>10, <1>11, <1>12,
     <1>13 DEF Next, IfKinds

(* The errors of the context.  A procedure that is not main's own leaves    *)
(* another function current, so that an error it ends with is told from one *)
(* that EmitAST has seen at the end of a node.                              *)

ErrorsFollowed ==
    /\ mainCreated => mainEntry # NoBlock
    /\ InProcedure => curFn # Main \/ ~mainCreated
    /\ ctxError => codegenError \/ frames # << >> \/ curFn # Main \/ ~mainCreated
    /\ status # "emitting" => frames = << >>
    /\ status = "written" => ~codegenError

LEMMA ErrorsFollowedStep ==
    ASSUME IndInv, ErrorsFollowed, [Next]_vars
    PROVE  ErrorsFollowed'
<1> USE DEF ErrorsFollowed, InProcedure
<1>a. /\ frames \in Seq(FrameType) /\ (frames # << >> => Len(frames) \in Nat \ {0})
      /\ procs \in Nat /\ created \in Nat
  BY TopInRange DEF IndInv, TypeOK, ModuleType, EmitterType
<1>b. ASSUME frames' # << >>, frames # << >>, frames'[1].kind = frames[1].kind,
             UNCHANGED <<curFn, driver>>
      PROVE  ErrorsFollowed'
  BY <1>b DEF driver
<1>c. ASSUME frames # << >>, Pop, Top.kind \notin {"main", "fn"},
             UNCHANGED <<curFn, driver>>
      PROVE  ErrorsFollowed'
  BY <1>b, <1>c, TopShape, Popped
<1>d. ASSUME frames # << >>, NEW f \in FrameType, Become(f), f.kind = Top.kind,
             UNCHANGED <<curFn, driver>>
      PROVE  ErrorsFollowed'
  BY <1>b, <1>d, Moved
<1>e. ASSUME frames # << >>, NEW f \in FrameType, Push(f),
             UNCHANGED <<curFn, driver>>
      PROVE  ErrorsFollowed'
  <2>1. frames' # << >> /\ frames'[1] = frames[1]
    BY <1>e, Pushed
  <2> QED
    BY <1>b, <1>e, <2>1
<1>m. ASSUME EmitStatement \/ ProcDone
      PROVE  mainCreated' => mainEntry' # NoBlock
  <2>1. \/ mainEntry' = created + 1
        \/ mainEntry # NoBlock /\ mainEntry' = mainEntry
    BY <1>m DEF EmitStatement, ProcDone, EnsureMain, CreateMain, StayInMain, ReturnToMain
  <2>2. created + 1 # NoBlock
    BY <1>a DEF NoBlock
  <2> QED
    BY <2>1, <2>2
<1>1. CASE \/ \E appends, fails \in BOOLEAN : EmitExpression(appends, fails)
           \/ EmitTernary \/ EmitBreak \/ EmitContinue \/ LoopTooDeep
           \/ JumpOutsideLoop
           \/ \E outcome \in {"none", "null", "value"} : EmitReturn(outcome)
  <2>1. frames # << >> /\ UNCHANGED <<frames, curFn, driver>>
    BY <1>1 DEF EmitExpression, EmitTernary, EmitBreak, EmitContinue, EmitJump, LoopTooDeep,
       JumpOutsideLoop, EmitReturn, AtExpression, AtStatement, InPhase, function
  <2> QED
    BY <1>b, <2>1
<1>2. CASE \/ \E kind \in IfKinds : EmitIf(kind)
           \/ EmitElseIfExpression \/ EmitWhile \/ EmitFor
  <2>1. frames # << >> /\ UNCHANGED <<curFn, driver>>
    BY <1>2 DEF EmitIf, EmitElseIfExpression, EmitWhile, EmitFor, AtStatement, InPhase, function
  <2>2. \E f \in FrameType : Push(f)
    BY <1>2, PlainPushes, LoopPushes
  <2> QED
    BY <1>e, <2>1, <2>2
<1>3. CASE \/ IfCondition \/ IfThenDone \/ ForPreDone \/ LoopCondition \/ ForBodyDone
           \/ EmitImplicitReturn
  <2>1. frames # << >> /\ UNCHANGED <<curFn, driver>>
    BY <1>3 DEF IfCondition, IfThenDone, ForPreDone, LoopCondition, ForBodyDone,
       EmitImplicitReturn, InPhase, function
  <2>2. \E f \in FrameType : Become(f) /\ f.kind = Top.kind
    BY <1>3, IfSteps, PhaseSteps DEF ThenFrame, ElseFrame, OnlyPhase
  <2> QED
    BY <1>d, <2>1, <2>2
<1>4. CASE IfBadCondition \/ IfElseDone \/ LoopBadCondition \/ WhileBodyDone \/ ForIncDone
  <2>1. frames # << >> /\ Pop /\ UNCHANGED <<curFn, driver>>
    BY <1>4 DEF IfBadCondition, IfElseDone, LoopBadCondition, WhileBodyDone,
       ForIncDone, InPhase, function
  <2>2. Top.kind \notin {"main", "fn"}
    BY <1>4 DEF IfBadCondition, IfElseDone, LoopBadCondition, WhileBodyDone,
       ForIncDone, InPhase, LoopKinds
  <2> QED
    BY <1>c, <2>1, <2>2
<1>5. CASE EmitAfterError
  BY <1>5 DEF EmitAfterError, AtTopLevel, function
<1>6. CASE EmitStatement
  <2>1. frames' # << >> /\ frames'[1].kind = "main"
    BY <1>6, PlainPushes, Pushed DEF EmitStatement, AtTopLevel
  <2>2. mainCreated' => mainEntry' # NoBlock
    BY <1>6, <1>m
  <2> QED
    BY <1>6, <2>1, <2>2 DEF EmitStatement, AtTopLevel
<1>7. ASSUME NEW isVoid \in BOOLEAN, NEW named \in {"main", "other"},
             EmitProc(isVoid, named)
      PROVE  ErrorsFollowed'
  <2>1. frames' # << >>
    BY <1>7, PlainPushes, Pushed DEF EmitProc, AtTopLevel
  <2>2. /\ mainEntry = NoBlock \/ (curFn' = procs + 1 /\ mainEntry' = mainEntry)
            \/ mainEntry' # NoBlock
        /\ mainEntry # NoBlock => curFn' = procs + 1 /\ mainEntry' = mainEntry
        /\ UNCHANGED <<mainCreated, status>> /\ status = "emitting"
    BY <1>7 DEF EmitProc, AtTopLevel
  <2>3. procs + 1 # Main
    BY <1>a DEF Main
  <2> QED
    BY <2>1, <2>2, <2>3
<1>8. CASE StatementDone
  <2>1. frames # << >> /\ Len(frames) = 1 /\ Pop
    BY <1>8, TopShape DEF StatementDone, InPhase
  <2>2. frames' = << >>
    BY <2>1, Popped
  <2> QED
    BY <1>8, <2>1, <2>2 DEF StatementDone, errors, function
<1>9. CASE ProcDone
  <2>1. frames # << >> /\ Len(frames) = 1 /\ Pop
    BY <1>9, <1>a DEF ProcDone
  <2>2. frames' = << >>
    BY <2>1, Popped
  <2>3. mainCreated' => mainEntry' # NoBlock
    BY <1>9, <1>m
  <2> QED
    BY <1>9, <2>1, <2>2, <2>3 DEF ProcDone, errors
<1>10. CASE EmitProcUnsupported
  BY <1>10 DEF EmitProcUnsupported, AtTopLevel, NoFunction, Main, driver
<1>11. CASE ProcFails
  <2>0. Len(frames) = 1 /\ Pop
    BY <1>11 DEF ProcFails
  <2>1. frames # << >> /\ Len(frames) = 1 /\ Pop
    BY <2>0
  <2>2. frames' = << >>
    BY <2>1, Popped
  <2>3. frames[1].kind = "fn"
    BY <1>11, <2>1 DEF ProcFails, Top
  <2> QED
    BY <1>11, <2>1, <2>2, <2>3 DEF ProcFails, function, driver
<1>12. CASE Finish
  BY <1>12 DEF Finish, AtTopLevel, errors, function
<1>13. CASE UNCHANGED vars
  BY <1>13 DEF vars, errors, driver, function
<1> QED
  BY <1>1, <1>2, <1>3, <1>4, <1>5, <1>6, <1>7, <1>8, <1>9, <1>10, <1>11, <1>12,
     <1>13 DEF Next, IfKinds

\* Whatever program is emitted and whatever fails in it, a module is written after an error of the
\* context only if the last node, a procedure that failed, recorded it.
THEOREM ContextErrorsKept == Spec => []ContextErrorsReported
<1>1. Init => ErrorsFollowed
  BY DEF Init, ErrorsFollowed, InProcedure
<1>2. IndInv /\ ErrorsFollowed /\ [Next]_vars => ErrorsFollowed'
  BY ErrorsFollowedStep
<1>3. ErrorsFollowed => ContextErrorsReported
  BY DEF ErrorsFollowed, ContextErrorsReported
<1> QED
  BY <1>1, <1>2, <1>3, Invariance, PTL DEF Spec

-----------------------------------------------------------------------------
(* Phis.  The block of a phi gets no further branch: the construct that     *)
(* made it has ended, or is a ternary, and nothing else branches to it.     *)
(* For that, a block after an if that is being emitted has, so far, only    *)
(* the branches of the paths that ended, and no other construct, and no     *)
(* break or continue, has it for a target.                                  *)

\* The block after an if that is emitted, and the blocks that a construct
\* may still branch to; those of a loop are also targets of jumps.
Joins(f) == IF f.kind \in IfKinds /\ f.phase # "cond" THEN {f.join} ELSE {}

Targets(f) ==
    IF f.kind \in LoopKinds THEN {f.head, f.body, f.next, f.join} ELSE Joins(f)

PhisComplete ==
    \A b \in Blocks : phi[b] # {} =>
        /\ b <= created
        /\ \A x \in Blocks : x \in phi[b] <=> <<x, b>> \in edges
        /\ \A i \in DOMAIN frames : b \notin Targets(frames[i])

JoinsAwaitPaths ==
    \A i \in DOMAIN frames : \A b \in Joins(frames[i]), x \in Blocks :
        <<x, b>> \in edges <=> frames[i].phase = "else" /\ x = frames[i].head

JoinsApart ==
    \A i, j \in DOMAIN frames : i # j =>
        \A b \in Joins(frames[i]) : b \notin Targets(frames[j])

PhiInv == PhisComplete /\ JoinsAwaitPaths /\ JoinsApart

LEMMA TargetsExist ==
    ASSUME IndInv, NEW i \in DOMAIN frames
    PROVE  /\ \A b \in Targets(frames[i]) : b \in Blocks /\ b <= created
           /\ Joins(frames[i]) \subseteq Targets(frames[i])
<1>1. FrameShape(frames[i], i) /\ OwnBlocks \subseteq Blocks
      /\ OwnBlocks \subseteq 1 .. created /\ created \in Nat
  BY OwnAreBlocks DEF IndInv, FramesShape, TypeOK, ModuleType
<1>2. Targets(frames[i]) \subseteq OwnBlocks
  <2>1. CASE frames[i].kind \in LoopKinds
    BY <1>1, <2>1 DEF FrameShape, Targets
  <2>2. CASE frames[i].kind \notin LoopKinds
    BY <1>1, <2>2 DEF FrameShape, Targets, Joins, IfKinds
  <2> QED
    BY <2>1, <2>2
<1>3. Joins(frames[i]) \subseteq Targets(frames[i])
  BY DEF Targets, Joins, IfKinds, LoopKinds
<1>4. \A b \in OwnBlocks : b \in Blocks /\ b <= created
  BY <1>1
<1> QED
  BY <1>2, <1>3, <1>4

\* A branch to a new block, or to a target of a loop that is being emitted.
Harmless(b) == b > created \/ \E i \in LoopFrames : b \in Targets(frames[i])

LEMMA HarmlessApart ==
    ASSUME IndInv, PhiInv, NEW b \in Blocks, Harmless(b)
    PROVE  /\ phi[b] = {}
           /\ \A i \in DOMAIN frames : b \notin Joins(frames[i])
<1>1. phi[b] = {}
  BY DEF PhiInv, PhisComplete, Harmless, LoopFrames, IndInv, TypeOK, ModuleType, Blocks
<1>2. ASSUME NEW i \in DOMAIN frames, b \in Joins(frames[i])
      PROVE  FALSE
  <2>1. b <= created /\ created \in Nat /\ b \in Nat
    BY <1>2, TargetsExist DEF IndInv, TypeOK, ModuleType, Blocks
  <2>2. PICK j \in LoopFrames : b \in Targets(frames[j])
    BY <2>1 DEF Harmless
  <2>3. i # j /\ j \in DOMAIN frames
    BY <1>2, <2>2 DEF Joins, LoopFrames, IfKinds, LoopKinds
  <2> QED
    BY <1>2, <2>2, <2>3 DEF PhiInv, JoinsApart
<1> QED
  BY <1>1, <1>2

\* The step of a construct that ends no path of an if: frame k is the only
\* one that changes.
LEMMA PlainStepKeepsPhis ==
    ASSUME IndInv, PhiInv, phi' = phi, created <= created', created' \in Nat,
           \A x, b \in Blocks : <<x, b>> \in edges => <<x, b>> \in edges',
           \A x, b \in Blocks :
              <<x, b>> \in edges' => <<x, b>> \in edges \/ Harmless(b),
           NEW k,
           \A i \in DOMAIN frames' :
              i = k \/ (i \in DOMAIN frames /\ frames'[i] = frames[i]),
           k \in DOMAIN frames' =>
              \/ \A b \in Targets(frames'[k]) : b \in Blocks /\ b > created
              \/ /\ k \in LoopFrames /\ frames'[k].kind \in LoopKinds
                 /\ Targets(frames'[k]) = Targets(frames[k]),
           k \in DOMAIN frames' =>
              \A b \in Joins(frames'[k]), x \in Blocks :
                 frames'[k].phase # "else" /\ <<x, b>> \notin edges'
    PROVE  PhiInv'
<1>a. created \in Nat /\ phi \in [Blocks -> SUBSET Blocks]
      /\ \A b \in Blocks : b \in Nat
  BY DEF IndInv, TypeOK, ModuleType, Blocks
<1>b. \A i \in DOMAIN frames' : Joins(frames'[i]) \subseteq Targets(frames'[i])
  BY DEF Joins, Targets, IfKinds, LoopKinds
<1>c. \A i \in DOMAIN frames : \A b \in Targets(frames[i]) : b \in Blocks /\ b <= created
  BY TargetsExist
<1>d. LoopFrames \subseteq DOMAIN frames
  BY DEF LoopFrames
<1>1. PhisComplete'
  <2> SUFFICES ASSUME NEW b \in Blocks, phi[b] # {}
               PROVE  /\ b <= created'
                      /\ \A x \in Blocks : x \in phi[b] <=> <<x, b>> \in edges'
                      /\ \A i \in DOMAIN frames' : b \notin Targets(frames'[i])
    BY DEF PhisComplete
  <2>1. /\ b <= created
        /\ \A x \in Blocks : x \in phi[b] <=> <<x, b>> \in edges
        /\ \A i \in DOMAIN frames : b \notin Targets(frames[i])
    BY DEF PhiInv, PhisComplete
  <2>2. ~Harmless(b)
    BY HarmlessApart
  <2>3. b <= created' /\ ~(b > created)
    BY <1>a, <2>1
  <2>4. \A x \in Blocks : x \in phi[b] <=> <<x, b>> \in edges'
    BY <2>1, <2>2
  <2>5. \A i \in DOMAIN frames' : b \notin Targets(frames'[i])
    BY <1>d, <2>1, <2>3
  <2> QED
    BY <2>3, <2>4, <2>5
<1>2. JoinsAwaitPaths'
  <2> SUFFICES ASSUME NEW i \in DOMAIN frames', NEW b \in Joins(frames'[i]), NEW x \in Blocks
               PROVE  <<x, b>> \in edges' <=>
                        frames'[i].phase = "else" /\ x = frames'[i].head
    BY DEF JoinsAwaitPaths
  <2>1. CASE i = k
    BY <2>1
  <2>2. CASE i \in DOMAIN frames /\ frames'[i] = frames[i]
    <3>1. b \in Blocks /\ ~Harmless(b)
      BY <1>b, <1>c, <2>2, HarmlessApart
    <3>2. <<x, b>> \in edges <=> frames[i].phase = "else" /\ x = frames[i].head
      BY <2>2 DEF PhiInv, JoinsAwaitPaths
    <3> QED
      BY <2>2, <3>1, <3>2
  <2> QED
    BY <2>1, <2>2
<1>3. JoinsApart'
  <2> SUFFICES ASSUME NEW i \in DOMAIN frames', NEW j \in DOMAIN frames', i # j,
                      NEW b \in Joins(frames'[i]), b \in Targets(frames'[j])
               PROVE  FALSE
    BY DEF JoinsApart
  <2>1. CASE i # k /\ j # k
    BY <2>1 DEF PhiInv, JoinsApart
  <2>2. CASE i = k /\ j # k
    <3>1. frames'[i].kind \notin LoopKinds
      BY DEF Joins, IfKinds, LoopKinds
    <3>2. b > created
      BY <1>b, <2>2, <3>1
    <3>3. b <= created /\ b \in Blocks
      BY <1>c, <2>2
    <3> QED
      BY <1>a, <3>2, <3>3
  <2>3. CASE i # k /\ j = k
    <3>1. i \in DOMAIN frames /\ frames'[i] = frames[i]
      BY <2>3
    <3>2. b <= created /\ b \in Blocks /\ ~(b > created)
      BY <1>a, <1>b, <1>c, <3>1
    <3>3. k \in LoopFrames /\ b \in Targets(frames[k])
      BY <2>3, <3>2
    <3> QED
      BY <1>d, <2>3, <3>1, <3>3 DEF PhiInv, JoinsApart
  <2> QED
    BY <2>1, <2>2, <2>3
<1> QED
  BY <1>1, <1>2, <1>3 DEF PhiInv

\* The block after the if on top is a target of no other construct and has
\* no phi.
LEMMA TopJoin ==
    ASSUME IndInv, PhiInv, frames # << >>, Top.kind \in IfKinds, Top.phase # "cond"
    PROVE  /\ Len(frames) \in DOMAIN frames /\ Top = frames[Len(frames)]
           /\ Joins(Top) = {Top.join} /\ Targets(Top) = {Top.join}
           /\ Top.join \in Blocks /\ Top.join <= created /\ phi[Top.join] = {}
           /\ \A i \in DOMAIN frames : i # Len(frames) =>
                 /\ Top.join \notin Targets(frames[i])
                 /\ Top.join \notin Joins(frames[i])
           /\ \A x \in Blocks : <<x, Top.join>> \in edges <=>
                                 Top.phase = "else" /\ x = Top.head
<1>1. Len(frames) \in DOMAIN frames /\ Top = frames[Len(frames)]
  BY TopInRange DEF IndInv, TypeOK, Top
<1>2. Joins(Top) = {Top.join} /\ Targets(Top) = {Top.join}
  BY DEF Joins, Targets, IfKinds, LoopKinds
<1>3. Top.join \in Blocks /\ Top.join <= created
  BY <1>1, <1>2, TargetsExist
<1>4. phi[Top.join] = {}
  BY <1>1, <1>2, <1>3 DEF PhiInv, PhisComplete
<1>5. ASSUME NEW i \in DOMAIN frames, i # Len(frames)
      PROVE  Top.join \notin Targets(frames[i]) /\ Top.join \notin Joins(frames[i])
  <2>1. Top.join \notin Targets(frames[i])
    BY <1>1, <1>2, <1>5 DEF PhiInv, JoinsApart
  <2> QED
    BY <1>5, <2>1, TargetsExist
<1>6. \A x \in Blocks : <<x, Top.join>> \in edges <=>
                          Top.phase = "else" /\ x = Top.head
  BY <1>1, <1>2 DEF PhiInv, JoinsAwaitPaths
<1> QED
  BY <1>1, <1>2, <1>3, <1>4, <1>5, <1>6

LEMMA ThenDoneKeepsPhis ==
    ASSUME IndInv, PhiInv, IfThenDone
    PROVE  PhiInv'
<1>1. /\ frames # << >> /\ Top.kind \in IfKinds /\ Top.phase = "then"
      /\ edges' = edges \union {<<insert, Top.join>>}
      /\ UNCHANGED <<created, phi>>
  BY DEF IfThenDone, InPhase, IfKinds, Branch
<1>2. PICK f \in FrameType : Become(f) /\ ElseFrame(f)
  BY IfSteps
<1>3. /\ DOMAIN frames' = DOMAIN frames
      /\ \A i \in DOMAIN frames : i # Len(frames) => frames'[i] = frames[i]
      /\ frames'[Len(frames)] = f
  BY <1>1, <1>2, Moved
<1>4. /\ Len(frames) \in DOMAIN frames /\ Top = frames[Len(frames)]
      /\ Joins(Top) = {Top.join} /\ Targets(Top) = {Top.join}
      /\ Top.join \in Blocks /\ phi[Top.join] = {}
      /\ \A i \in DOMAIN frames : i # Len(frames) =>
            Top.join \notin Targets(frames[i]) /\ Top.join \notin Joins(frames[i])
      /\ \A x \in Blocks : <<x, Top.join>> \notin edges
  BY <1>1, TopJoin
<1>5. Joins(f) = {Top.join} /\ Targets(f) = {Top.join} /\ f.phase = "else" /\ f.head = insert
  BY <1>1, <1>2 DEF ElseFrame, Joins, Targets, IfKinds, LoopKinds
<1>6. \A i \in DOMAIN frames : /\ Joins(frames'[i]) = Joins(frames[i])
                               /\ Targets(frames'[i]) = Targets(frames[i])
  BY <1>3, <1>4, <1>5
<1>7. \A x, b : b # Top.join => (<<x, b>> \in edges' <=> <<x, b>> \in edges)
  BY <1>1
<1>8. \A x : <<x, Top.join>> \in edges' <=> <<x, Top.join>> \in edges \/ x = insert
  BY <1>1
<1>9. PhisComplete'
  BY <1>1, <1>3, <1>4, <1>6, <1>7 DEF PhiInv, PhisComplete
<1>10. JoinsAwaitPaths'
  <2> SUFFICES ASSUME NEW i \in DOMAIN frames, NEW b \in Joins(frames'[i]), NEW x \in Blocks
               PROVE  <<x, b>> \in edges' <=>
                        frames'[i].phase = "else" /\ x = frames'[i].head
    BY <1>3 DEF JoinsAwaitPaths
  <2>1. CASE i = Len(frames)
    <3>1. b = Top.join /\ frames'[i] = f
      BY <1>3, <1>4, <1>5, <2>1
    <3> QED
      BY <1>4, <1>5, <1>8, <3>1
  <2>2. CASE i # Len(frames)
    <3>1. b \in Joins(frames[i]) /\ frames'[i] = frames[i] /\ b # Top.join
      BY <1>3, <1>4, <1>6, <2>2
    <3> QED
      BY <1>7, <3>1 DEF PhiInv, JoinsAwaitPaths
  <2> QED
    BY <2>1, <2>2
<1>11. JoinsApart'
  BY <1>3, <1>6 DEF PhiInv, JoinsApart
<1> QED
  BY <1>9, <1>10, <1>11 DEF PhiInv

LEMMA ElseDoneKeepsPhis ==
    ASSUME IndInv, PhiInv, IfElseDone
    PROVE  PhiInv'
<1>1. /\ frames # << >> /\ Top.kind \in IfKinds /\ Top.phase = "else" /\ Pop
      /\ edges' = edges \union {<<insert, Top.join>>}
      /\ UNCHANGED created
      /\ \/ phi' = phi
         \/ phi' = [phi EXCEPT ![Top.join] = {Top.head, insert}]
  BY DEF IfElseDone, InPhase, IfKinds, Branch
<1>2. \A i \in DOMAIN frames' :
         i \in DOMAIN frames /\ frames'[i] = frames[i] /\ i # Len(frames)
  BY <1>1, Popped
<1>3. /\ Top.join \in Blocks /\ Top.join <= created /\ phi[Top.join] = {}
      /\ \A i \in DOMAIN frames : i # Len(frames) =>
            Top.join \notin Targets(frames[i]) /\ Top.join \notin Joins(frames[i])
      /\ \A x \in Blocks : <<x, Top.join>> \in edges <=> x = Top.head
  BY <1>1, TopJoin
<1>4. \A x, b : b # Top.join => (<<x, b>> \in edges' <=> <<x, b>> \in edges)
  BY <1>1
<1>5. \A x : <<x, Top.join>> \in edges' <=> <<x, Top.join>> \in edges \/ x = insert
  BY <1>1
<1>6. phi \in [Blocks -> SUBSET Blocks]
  BY DEF IndInv, TypeOK, ModuleType
<1>7. /\ \A b \in Blocks : b # Top.join => phi'[b] = phi[b]
      /\ phi'[Top.join] = {} \/ phi'[Top.join] = {Top.head, insert}
  BY <1>1, <1>3, <1>6
<1>8. PhisComplete'
  <2> SUFFICES ASSUME NEW b \in Blocks, phi'[b] # {}
               PROVE  /\ b <= created
                      /\ \A x \in Blocks : x \in phi'[b] <=> <<x, b>> \in edges'
                      /\ \A i \in DOMAIN frames' : b \notin Targets(frames'[i])
    BY <1>1 DEF PhisComplete
  <2>1. CASE b = Top.join
    <3>1. phi'[b] = {Top.head, insert}
      BY <1>7, <2>1
    <3> QED
      BY <1>2, <1>3, <1>5, <2>1, <3>1
  <2>2. CASE b # Top.join
    BY <1>2, <1>4, <1>7, <2>2 DEF PhiInv, PhisComplete
  <2> QED
    BY <2>1, <2>2
<1>9. JoinsAwaitPaths'
  <2> SUFFICES ASSUME NEW i \in DOMAIN frames', NEW b \in Joins(frames'[i]), NEW x \in Blocks
               PROVE  <<x, b>> \in edges' <=>
                        frames'[i].phase = "else" /\ x = frames'[i].head
    BY DEF JoinsAwaitPaths
  <2>1. i \in DOMAIN frames /\ frames'[i] = frames[i] /\ b # Top.join
    BY <1>2, <1>3
  <2>2. <<x, b>> \in edges <=> frames[i].phase = "else" /\ x = frames[i].head
    BY <2>1 DEF PhiInv, JoinsAwaitPaths
  <2> QED
    BY <1>4, <2>1, <2>2
<1>10. JoinsApart'
  BY <1>2 DEF PhiInv, JoinsApart
<1> QED
  BY <1>8, <1>9, <1>10 DEF PhiInv

LEMMA TernaryKeepsPhis ==
    ASSUME IndInv, PhiInv, EmitTernary
    PROVE  PhiInv'
<1>1. PICK yes, no, cont :
        /\ yes = created + 1 /\ no = created + 2 /\ cont = created + 3
        /\ edges' = edges \union {<<insert, yes>>, <<insert, no>>,
                                  <<yes, cont>>, <<no, cont>>}
        /\ phi' = [phi EXCEPT ![cont] = {yes, no}]
        /\ created' = created + 3 /\ UNCHANGED frames
  BY DEF EmitTernary, AppendBlocks
<1>2. /\ created \in Nat /\ phi \in [Blocks -> SUBSET Blocks]
      /\ \A b \in Blocks : b \in Nat
      /\ \A x, b : <<x, b>> \in edges => b <= created
  BY DEF IndInv, TypeOK, ModuleType, Blocks, ModuleShape
<1>3. /\ \A x : <<x, cont>> \in edges' <=> x \in {yes, no}
      /\ \A x, b : b <= created => (<<x, b>> \in edges' <=> <<x, b>> \in edges)
  BY <1>1, <1>2
<1>4. \A b \in Blocks : phi'[b] = IF b = cont THEN {yes, no} ELSE phi[b]
  BY <1>1, <1>2
<1>5. \A i \in DOMAIN frames : \A b \in Targets(frames[i]) : b <= created /\ b # cont
  BY <1>1, <1>2, TargetsExist
<1>6. \A i \in DOMAIN frames : Joins(frames[i]) \subseteq Targets(frames[i])
  BY TargetsExist
<1>7. PhisComplete'
  <2> SUFFICES ASSUME NEW b \in Blocks, phi'[b] # {}
               PROVE  /\ b <= created'
                      /\ \A x \in Blocks : x \in phi'[b] <=> <<x, b>> \in edges'
                      /\ \A i \in DOMAIN frames : b \notin Targets(frames[i])
    BY <1>1 DEF PhisComplete
  <2>1. CASE b = cont
    BY <1>1, <1>2, <1>3, <1>4, <1>5, <2>1
  <2>2. CASE b # cont
    <3>1. /\ phi'[b] = phi[b] /\ b <= created
          /\ \A x \in Blocks : x \in phi[b] <=> <<x, b>> \in edges
          /\ \A i \in DOMAIN frames : b \notin Targets(frames[i])
      BY <1>4, <2>2 DEF PhiInv, PhisComplete
    <3> QED
      BY <1>1, <1>2, <1>3, <3>1
  <2> QED
    BY <2>1, <2>2
<1>8. JoinsAwaitPaths'
  <2> SUFFICES ASSUME NEW i \in DOMAIN frames', NEW b \in Joins(frames'[i]), NEW x \in Blocks
               PROVE  <<x, b>> \in edges' <=>
                        frames'[i].phase = "else" /\ x = frames'[i].head
    BY DEF JoinsAwaitPaths
  <2>0. frames' = frames
    BY <1>1
  <2>1. i \in DOMAIN frames /\ b \in Joins(frames[i]) /\ b <= created
    BY <1>5, <1>6, <2>0
  <2>2. <<x, b>> \in edges <=> frames[i].phase = "else" /\ x = frames[i].head
    BY <2>1 DEF PhiInv, JoinsAwaitPaths
  <2> QED
    BY <1>3, <2>0, <2>1, <2>2
<1>9. JoinsApart'
  BY <1>1 DEF PhiInv, JoinsApart
<1> QED
  BY <1>7, <1>8, <1>9 DEF PhiInv

LEMMA PhiStep ==
    ASSUME IndInv, PhiInv, [Next]_vars
    PROVE  PhiInv'
<1> USE DEF module, function, driver, loops, errors
<1>a. /\ created \in Nat
      /\ \A b \in Blocks : b \in Nat
      /\ frames \in Seq(FrameType)
      /\ frames # << >> => Len(frames) \in DOMAIN frames /\ Top = frames[Len(frames)]
      /\ 0 \notin DOMAIN frames
  BY TopInRange DEF IndInv, TypeOK, ModuleType, Blocks, Top
\* Nothing that matters changes in frames, or the top one is dropped.
<1>b. ASSUME UNCHANGED <<created, edges, phi>>,
             \A i \in DOMAIN frames' : i \in DOMAIN frames /\ frames'[i] = frames[i]
      PROVE  PhiInv'
  BY <1>a, <1>b, PlainStepKeepsPhis
<1>c. ASSUME UNCHANGED <<edges, phi>>, created <= created', created' \in Nat, UNCHANGED frames
      PROVE  PhiInv'
  BY <1>a, <1>c, PlainStepKeepsPhis
<1>1. CASE \/ \E appends, fails \in BOOLEAN : EmitExpression(appends, fails)
           \/ LoopTooDeep \/ JumpOutsideLoop \/ EmitAfterError \/ EmitProcUnsupported
           \/ \E outcome \in {"none", "null", "value"} : EmitReturn(outcome)
           \/ Finish \/ UNCHANGED vars
  <2>1. UNCHANGED <<created, edges, phi, frames>>
    BY <1>1 DEF EmitExpression, LoopTooDeep, JumpOutsideLoop, EmitAfterError,
       EmitProcUnsupported, EmitReturn, Finish, vars
  <2> QED
    BY <1>b, <2>1
<1>2. CASE IfBadCondition \/ LoopBadCondition \/ StatementDone \/ ProcFails
  <2>1. frames # << >> /\ Pop /\ UNCHANGED <<created, edges, phi>>
    BY <1>a, <1>2 DEF IfBadCondition, LoopBadCondition, StatementDone, ProcFails, InPhase
  <2> QED
    BY <1>b, <2>1, Popped
<1>d. ASSUME UNCHANGED <<edges, phi>>, created <= created', created' \in Nat,
             NEW f \in FrameType, Push(f), Targets(f) = {}
      PROVE  PhiInv'
  <2>1. /\ \A i \in DOMAIN frames' : i = Len(frames) + 1
                                    \/ (i \in DOMAIN frames /\ frames'[i] = frames[i])
        /\ frames'[Len(frames) + 1] = f
    BY <1>d, Pushed
  <2>2. Joins(f) = {}
    BY <1>d DEF Joins, Targets, IfKinds, LoopKinds
  <2> QED
    BY <1>d, <2>1, <2>2, PlainStepKeepsPhis
<1>3. CASE (\E kind \in IfKinds : EmitIf(kind)) \/ EmitElseIfExpression
  <2>1. UNCHANGED <<created, edges, phi>>
    BY <1>3 DEF EmitIf, EmitElseIfExpression
  <2>2. \E f \in FrameType : Push(f) /\ f.kind \in IfKinds /\ f.phase = "cond"
    BY <1>3, PlainPushes DEF IfKinds
  <2>3. \E f \in FrameType : Push(f) /\ Targets(f) = {}
    BY <2>2 DEF Targets, Joins, IfKinds, LoopKinds
  <2> QED
    BY <1>a, <1>d, <2>1, <2>3
<1>e. ASSUME NEW t, EnsureMain(t)
      PROVE  created <= created' /\ created' \in Nat
  BY <1>a, <1>e DEF EnsureMain, CreateMain, StayInMain, ReturnToMain, AppendBlocks
<1>4. CASE EmitStatement
  <2>1. UNCHANGED <<edges, phi>> /\ created <= created' /\ created' \in Nat
    BY <1>4, <1>e DEF EmitStatement
  <2>2. \E f \in FrameType : Push(f) /\ Targets(f) = {}
    BY <1>4, PlainPushes DEF Targets, Joins, IfKinds, LoopKinds
  <2> QED
    BY <1>d, <2>1, <2>2
<1>5. ASSUME NEW isVoid \in BOOLEAN, NEW named \in {"main", "other"},
             EmitProc(isVoid, named)
      PROVE  PhiInv'
  <2>1. UNCHANGED <<edges, phi>> /\ created <= created' /\ created' \in Nat
    BY <1>a, <1>5 DEF EmitProc, AppendBlocks
  <2>2. \E f \in FrameType : Push(f) /\ Targets(f) = {}
    BY <1>5, PlainPushes DEF Targets, Joins, IfKinds, LoopKinds
  <2> QED
    BY <1>d, <2>1, <2>2
<1>6. CASE ProcDone
  <2>1. /\ frames # << >> /\ Pop /\ UNCHANGED <<edges, phi>>
        /\ \E t : EnsureMain(t)
    BY <1>a, <1>6 DEF ProcDone
  <2>2. created <= created' /\ created' \in Nat
    BY <1>e, <2>1
  <2>3. \A i \in DOMAIN frames' : i \in DOMAIN frames /\ frames'[i] = frames[i]
    BY <2>1, Popped
  <2>4. 0 \notin DOMAIN frames'
    BY <1>a, <2>3
  <2> QED
    BY <1>a, <2>1, <2>2, <2>3, <2>4, PlainStepKeepsPhis
<1>7. CASE EmitImplicitReturn
  <2>1. frames # << >> /\ UNCHANGED <<created, edges, phi>> /\ Top.kind = "fn"
    BY <1>7 DEF EmitImplicitReturn, InPhase
  <2>2. PICK f \in FrameType : Become(f) /\ OnlyPhase(f, "last")
    BY <1>7, PhaseSteps
  <2>3. /\ \A i \in DOMAIN frames' : i = Len(frames)
                                    \/ (i \in DOMAIN frames /\ frames'[i] = frames[i])
        /\ frames'[Len(frames)] = f
    BY <2>1, <2>2, Moved
  <2>4. Targets(f) = {} /\ Joins(f) = {}
    BY <2>1, <2>2 DEF OnlyPhase, Targets, Joins, IfKinds, LoopKinds
  <2> QED
    BY <1>a, <2>1, <2>3, <2>4, PlainStepKeepsPhis
<1>8. CASE IfCondition
  <2>1. /\ frames # << >> /\ Top.kind \in IfKinds /\ UNCHANGED phi
        /\ created' = created + 3
        /\ edges' = edges \union {<<insert, created + 1>>, <<insert, created + 2>>}
        /\ created + 3 \in Blocks
    BY <1>a, <1>8 DEF IfCondition, InPhase, IfKinds, AppendBlocks, CondBranch, Blocks
  <2>2. PICK f \in FrameType : Become(f) /\ ThenFrame(f)
    BY <1>8, IfSteps
  <2>3. /\ \A i \in DOMAIN frames' : i = Len(frames)
                                    \/ (i \in DOMAIN frames /\ frames'[i] = frames[i])
        /\ frames'[Len(frames)] = f
    BY <2>1, <2>2, Moved
  <2>4. /\ Targets(f) = {created + 3} /\ Joins(f) = {created + 3}
        /\ f.phase # "else"
    BY <2>1, <2>2 DEF ThenFrame, Targets, Joins, IfKinds, LoopKinds
  <2>5. \A x, b \in Blocks : <<x, b>> \in edges' => <<x, b>> \in edges \/ b > created
    BY <1>a, <2>1
  <2>6. \A x \in Blocks : <<x, created + 3>> \notin edges'
    BY <1>a, <2>1 DEF IndInv, ModuleShape
  <2> QED
    BY <1>a, <2>1, <2>3, <2>4, <2>5, <2>6, PlainStepKeepsPhis DEF Harmless
\* The pushes of the two loops.
<1>f. ASSUME NEW n \in Nat, created' = created + n, UNCHANGED phi,
             \A b \in created + 1 .. created + n : b \in Blocks,
             \/ edges' = edges
             \/ n >= 1 /\ edges' = edges \union {<<insert, created + 1>>},
             NEW f \in FrameType, Push(f), f.kind \in LoopKinds,
             Targets(f) \subseteq created + 1 .. created + n
      PROVE  PhiInv'
  <2>1. /\ \A i \in DOMAIN frames' : i = Len(frames) + 1
                                    \/ (i \in DOMAIN frames /\ frames'[i] = frames[i])
        /\ frames'[Len(frames) + 1] = f
    BY <1>f, Pushed
  <2>2. Joins(f) = {}
    BY <1>f DEF Joins, IfKinds, LoopKinds
  <2>3. \A b \in Targets(f) : b \in Blocks /\ b > created
    BY <1>a, <1>f
  <2>4. \A x, b \in Blocks : <<x, b>> \in edges' => <<x, b>> \in edges \/ b > created
    BY <1>a, <1>f
  <2>5. created <= created' /\ created' \in Nat
    BY <1>a, <1>f
  <2> QED
    BY <1>a, <1>f, <2>1, <2>2, <2>3, <2>4, <2>5, PlainStepKeepsPhis DEF Harmless
<1>9. CASE EmitWhile
  <2>1. /\ created' = created + 3 /\ UNCHANGED phi
        /\ \A b \in created + 1 .. created + 3 : b \in Blocks
        /\ edges' = edges \union {<<insert, created + 1>>}
    BY <1>a, <1>9 DEF EmitWhile, AppendBlocks, Branch, Blocks
  <2>2. PICK f \in FrameType : Push(f) /\ WhileFrame(f)
    BY <1>9, LoopPushes
  <2>3. f.kind \in LoopKinds /\ Targets(f) \subseteq created + 1 .. created + 3
    BY <1>a, <2>2 DEF WhileFrame, Targets, LoopKinds
  <2> QED
    BY <1>f, <2>1, <2>2, <2>3
<1>10. CASE EmitFor
  <2>1. /\ created' = created + 4 /\ UNCHANGED <<phi, edges>>
        /\ \A b \in created + 1 .. created + 4 : b \in Blocks
    BY <1>a, <1>10 DEF EmitFor, AppendBlocks, Blocks
  <2>2. PICK f \in FrameType : Push(f) /\ ForFrame(f)
    BY <1>10, LoopPushes
  <2>3. f.kind \in LoopKinds /\ Targets(f) \subseteq created + 1 .. created + 4
    BY <1>a, <2>2 DEF ForFrame, Targets, LoopKinds
  <2> QED
    BY <1>f, <2>1, <2>2, <2>3
\* The further branches of a loop go to its own blocks.
<1>g. ASSUME UNCHANGED <<created, phi>>, frames # << >>, Top.kind \in LoopKinds
      PROVE  Len(frames) \in LoopFrames /\ \A b \in Targets(Top) : Harmless(b)
  BY <1>a, <1>g DEF LoopFrames, Harmless
<1>11. CASE ForPreDone \/ LoopCondition \/ ForBodyDone
  <2>1. /\ frames # << >> /\ Top.kind \in LoopKinds /\ UNCHANGED <<created, phi>>
        /\ \/ edges' = edges \union {<<insert, Top.head>>}
           \/ edges' = edges \union {<<insert, Top.body>>, <<insert, Top.join>>}
           \/ edges' = edges \union {<<insert, Top.next>>}
    BY <1>11 DEF ForPreDone, LoopCondition, ForBodyDone, InPhase, LoopKinds, Branch,
       CondBranch
  <2>2. PICK f, p : f \in FrameType /\ Become(f) /\ OnlyPhase(f, p)
    BY <1>11, PhaseSteps
  <2>3. /\ \A i \in DOMAIN frames' : i = Len(frames)
                                    \/ (i \in DOMAIN frames /\ frames'[i] = frames[i])
        /\ frames'[Len(frames)] = f
    BY <2>1, <2>2, Moved
  <2>4. Targets(f) = Targets(Top) /\ Joins(f) = {} /\ f.kind \in LoopKinds
    BY <2>1, <2>2 DEF OnlyPhase, Targets, Joins, LoopKinds, IfKinds
  <2>5. {Top.head, Top.body, Top.next, Top.join} = Targets(Top)
    BY <2>1 DEF Targets
  <2>6. \A x, b \in Blocks : <<x, b>> \in edges' => <<x, b>> \in edges \/ Harmless(b)
    BY <1>g, <2>1, <2>5
  <2>7. \A x, b \in Blocks : <<x, b>> \in edges => <<x, b>> \in edges'
    BY <2>1
  <2>8. Len(frames) \in LoopFrames /\ created <= created' /\ created' \in Nat
    BY <1>a, <1>g, <2>1
  <2> QED
    BY <1>a, <2>1, <2>3, <2>4, <2>6, <2>7, <2>8, PlainStepKeepsPhis
<1>12. CASE WhileBodyDone \/ ForIncDone
  <2>1. /\ frames # << >> /\ Top.kind \in LoopKinds /\ UNCHANGED <<created, phi>>
        /\ edges' = edges \union {<<insert, Top.head>>} /\ Pop
    BY <1>12 DEF WhileBodyDone, ForIncDone, InPhase, LoopKinds, Branch
  <2>2. \A i \in DOMAIN frames' : i \in DOMAIN frames /\ frames'[i] = frames[i]
    BY <2>1, Popped
  <2>3. 0 \notin DOMAIN frames'
    BY <1>a, <2>2
  <2>4. Harmless(Top.head)
    BY <1>g, <2>1 DEF Targets
  <2>5. created <= created' /\ created' \in Nat
    BY <1>a, <2>1
  <2> QED
    BY <2>1, <2>2, <2>3, <2>4, <2>5, PlainStepKeepsPhis
<1>13. CASE EmitBreak \/ EmitContinue
  <2>1. PICK b : /\ b \in {loopEnd[loopDepth], loopCond[loopDepth]} /\ loopDepth > 0
                 /\ edges' = edges \union {<<insert, b>>}
                 /\ UNCHANGED <<created, phi, frames>>
    BY <1>13 DEF EmitBreak, EmitContinue, EmitJump, Branch
  <2>2. loopDepth \in 1 .. loopDepth
    BY <2>1 DEF IndInv, TypeOK, LoopsType
  <2>3. PICK i \in LoopFrames : frames[i].level = loopDepth
    BY <2>2 DEF IndInv, LoopStackMatchesFrames
  <2>4. loopEnd[loopDepth] = frames[i].join /\ loopCond[loopDepth] = frames[i].next
    BY <2>3 DEF IndInv, LoopStackMatchesFrames
  <2>5. Harmless(b)
    BY <2>1, <2>3, <2>4 DEF Harmless, Targets, LoopFrames
  <2>6. created <= created' /\ created' \in Nat
    BY <1>a, <2>1
  <2> QED
    BY <1>a, <2>1, <2>5, <2>6, PlainStepKeepsPhis
<1>14. CASE EmitTernary \/ IfThenDone \/ IfElseDone
  BY <1>14, TernaryKeepsPhis, ThenDoneKeepsPhis, ElseDoneKeepsPhis
<1> QED
  BY <1>1, <1>2, <1>3, <1>4, <1>5, <1>6, <1>7, <1>8, <1>9, <1>10, <1>11, <1>12,
     <1>13, <1>14 DEF Next, IfKinds

\* In every program, whatever paths its ifs and ternaries take through other
\* constructs, and with any errors, the phi of a block has one incoming value
\* for each block that branches to it.
THEOREM PhisMatch == Spec => []PhiMatchesPredecessors
<1>1. Init => PhiInv
  BY DEF Init, PhiInv, PhisComplete, JoinsAwaitPaths, JoinsApart
<1>2. IndInv /\ PhiInv /\ [Next]_vars => PhiInv'
  BY PhiStep
<1>3. ASSUME IndInv, PhiInv
      PROVE  PhiMatchesPredecessors
  <2> SUFFICES ASSUME NEW b \in 1 .. created, phi[b] # {}
               PROVE  phi[b] = {e[1] : e \in {e \in edges : e[2] = b}}
    BY DEF PhiMatchesPredecessors
  <2>1. /\ b \in Blocks /\ phi[b] \subseteq Blocks
        /\ \A e \in edges : e = <<e[1], e[2]>> /\ e[1] \in Blocks
    BY <1>3 DEF IndInv, TypeOK, ModuleType, Blocks
  <2>2. \A x \in Blocks : x \in phi[b] <=> <<x, b>> \in edges
    BY <1>3, <2>1 DEF PhiInv, PhisComplete
  <2>3. ASSUME NEW x \in phi[b]
        PROVE  x \in {e[1] : e \in {e \in edges : e[2] = b}}
    <3>1. <<x, b>> \in edges /\ <<x, b>>[1] = x /\ <<x, b>>[2] = b
      BY <2>1, <2>2
    <3> QED
      BY <3>1
  <2>4. ASSUME NEW e \in edges, e[2] = b
        PROVE  e[1] \in phi[b]
    BY <2>1, <2>2, <2>4
  <2> QED
    BY <2>3, <2>4
<1> QED
  BY <1>1, <1>2, <1>3, Invariance, PTL DEF Spec

-----------------------------------------------------------------------------
(* Terminators.  Without jumps, bad conditions, returns that leave no value *)
(* and procedures that fail, follow control flow or are named main, the     *)
(* blocks that are still open are the one the builder stands in, those a    *)
(* construct has yet to enter and, in a procedure, the entry of main.       *)

\* The blocks that the construct of a frame has not entered yet.
Pending(f) ==
    {b \in Blocks :
       \/ b = f.join /\ (f.kind \in LoopKinds \/ f.phase \in {"then", "else"})
       \/ b = f.next /\ (f.phase = "then" \/ (f.kind = "for" /\ f.phase # "inc"))
       \/ b = f.body /\ f.kind \in LoopKinds /\ f.phase \in {"pre", "cond"}
       \/ b = f.head /\ f.phase = "pre"}

Distinct(f) ==
    /\ f.kind \in IfKinds /\ f.phase = "then" => f.next # f.join
    /\ f.kind \in LoopKinds => f.body # f.join /\ f.head # f.body /\ f.head # f.join
    /\ f.kind = "for" => f.next \notin {f.head, f.body, f.join}

PendingApart ==
    /\ \A i \in DOMAIN frames : Distinct(frames[i])
    /\ \A i, j \in DOMAIN frames : i # j =>
          \A b \in Pending(frames[i]) : b \notin Pending(frames[j])

Open(b) == tail[b] = "open"

OpenBlocks ==
    /\ \A b \in Blocks : tail[b] # "broken" /\ (b > created => Open(b))
    /\ \A i \in DOMAIN frames : \A b \in Pending(frames[i]) : Open(b) /\ b # insert
    /\ status = "emitting" =>
        /\ insert # NoBlock => Open(insert)
        /\ \A b \in 1 .. created : Open(b) =>
           \/ b = insert
           \/ InProcedure /\ b = mainEntry
           \/ \E i \in DOMAIN frames : b \in Pending(frames[i])
    /\ status = "written" => \A b \in 1 .. created : ~Open(b)

\* Between two nodes of the program the builder is in main, which exists then.
Places ==
    /\ mainCreated <=> mainEntry # NoBlock
    /\ InProcedure =>
         /\ curFn # Main
         /\ mainEntry # NoBlock => Open(mainEntry)
         /\ proc.found => proc.void \/ proc.value
    /\ ~InProcedure => curFn = Main \/ created = 0
    /\ created > 0 => insert # NoBlock
    /\ ~InProcedure /\ created > 0 => mainCreated

FlowInv == PendingApart /\ OpenBlocks /\ Places

LEMMA PendingExist ==
    ASSUME IndInv, NEW i \in DOMAIN frames, NEW b \in Pending(frames[i])
    PROVE  b \in Blocks /\ b <= created
<1>1. FrameShape(frames[i], i) /\ \A x \in OwnBlocks : x \in Blocks /\ x <= created
  BY OwnAreBlocks DEF IndInv, FramesShape, TypeOK, ModuleType
<1>2. \A x \in {"if", "ifexpr", "main", "fn"} : x \notin LoopKinds
  BY DEF LoopKinds
<1>3. frames[i].kind \in {"main", "fn", "if", "ifexpr"} \union LoopKinds
  <2>1. frames[i] \in FrameType
    BY DEF IndInv, TypeOK
  <2> QED
    BY <2>1 DEF FrameType
<1>4. b \in OwnBlocks
  <2>1. CASE frames[i].kind \in LoopKinds
    BY <1>1, <2>1 DEF FrameShape, Pending, LoopKinds
  <2>2. CASE frames[i].kind \notin LoopKinds
    BY <1>1, <1>3, <2>2 DEF FrameShape, Pending, LoopKinds
  <2> QED
    BY <2>1, <2>2
<1> QED
  BY <1>1, <1>4

LEMMA TerminatedOpen ==
    ASSUME NEW t \in [Blocks -> {"open", "closed", "broken"}], NEW b \in Blocks,
           t[b] = "open"
    PROVE  \A x \in Blocks : Terminated(t, b)[x] = IF x = b THEN "closed" ELSE t[x]
BY DEF Terminated

\* Where the builder stands while a node is emitted.
LEMMA InsertIsOpen ==
    ASSUME IndInv, ErrorsKept, FlowInv, frames # << >>
    PROVE  /\ status = "emitting" /\ insert \in Blocks /\ insert <= created
           /\ created \in Nat /\ created > 0 /\ Open(insert)
           /\ insert \in OwnBlocks /\ blockFn[insert] = curFn
           /\ InProcedure => mainEntry # insert
           /\ tail \in [Blocks -> {"open", "closed", "broken"}]
           /\ Len(frames) \in DOMAIN frames /\ Top = frames[Len(frames)]
<1>1. insert \in OwnBlocks /\ insert \in Blocks /\ Len(frames) \in Nat \ {0}
  BY InsertIsOwn
<1>2. insert # NoBlock
  BY DEF IndInv, Position
<1>3. status = "emitting"
  BY DEF ErrorsKept, IndInv, TypeOK, EmitterType
<1>4. blockFn[insert] = curFn /\ created \in Nat /\ insert <= created /\ created > 0
  BY <1>1 DEF OwnBlocks, IndInv, TypeOK, ModuleType
<1>5. InProcedure => mainEntry # insert
  BY <1>2, <1>4 DEF FlowInv, Places, IndInv, ModuleShape
<1> QED
  BY <1>1, <1>2, <1>3, <1>4, <1>5
     DEF FlowInv, OpenBlocks, IndInv, TypeOK, ModuleType, Top

\* A step inside a node closes the blocks C, which are the builder's or new,
\* and moves the builder; frame k is the only one that changes.
Closes(C) ==
    /\ \A b \in Blocks : tail'[b] = IF b \in C THEN "closed" ELSE tail[b]
    /\ \A b \in C : b = insert \/ b > created
    /\ \A b \in C : b <= created' /\ b # insert'

MovesBuilder(k) ==
    /\ insert' \in Blocks /\ insert' <= created'
    /\ \/ insert' = insert
       \/ insert' > created
       \/ k = Len(frames) /\ insert' \in Pending(Top)

ChangesFrame(k) ==
    /\ k \in {Len(frames), Len(frames) + 1}
    /\ \A i \in DOMAIN frames' : i # k => i \in DOMAIN frames /\ frames'[i] = frames[i]
    /\ \A i \in DOMAIN frames : i # k => i \in DOMAIN frames' /\ frames'[i] = frames[i]

\* What the changed frame still has to enter is new, or was the top frame's.
NewPending(k, C) ==
    k \in DOMAIN frames' =>
      /\ Distinct(frames'[k])
      /\ \A b \in Pending(frames'[k]) :
           /\ b \notin C /\ b # insert'
           /\ b > created \/ (k = Len(frames) /\ b \in Pending(Top))

\* No block is lost.
Accounted(k, C) ==
    /\ insert \in C \/ insert' = insert
    /\ \A b \in Blocks :
         (b > created /\ b <= created') \/ (k = Len(frames) /\ b \in Pending(Top))
           => \/ b \in C \/ b = insert'
              \/ k \in DOMAIN frames' /\ b \in Pending(frames'[k])

\* The node goes on.
SameNode ==
    /\ frames # << >> /\ frames' # << >> /\ frames'[1].kind = frames[1].kind
    /\ UNCHANGED <<curFn, mainEntry, mainCreated, status>>
    /\ created <= created' /\ created' \in 0 .. MaxBlocks
    /\ UNCHANGED proc \/ (proc'.found => proc'.void \/ proc'.value)

LEMMA NodeKeepsFlow ==
    ASSUME IndInv, ErrorsKept, FlowInv, SameNode,
           NEW C, Closes(C), NEW k, MovesBuilder(k), ChangesFrame(k),
           NewPending(k, C), Accounted(k, C)
    PROVE  FlowInv'
<1>a. /\ status = "emitting" /\ insert \in Blocks /\ insert <= created
      /\ created \in Nat /\ created > 0 /\ Open(insert)
      /\ InProcedure => mainEntry # insert
      /\ Len(frames) \in DOMAIN frames /\ Top = frames[Len(frames)]
  BY InsertIsOpen DEF SameNode
<1>b. \A b \in Blocks : b \in Nat
  BY DEF Blocks
<1>c. \A i \in DOMAIN frames : \A b \in Pending(frames[i]) :
         b \in Blocks /\ b <= created /\ Open(b) /\ b # insert
  BY PendingExist DEF FlowInv, OpenBlocks
<1>d. \A i : Pending(frames'[i]) \subseteq Blocks
  BY DEF Pending
<1>e. created <= created' /\ created' \in Nat /\ created' <= MaxBlocks
  BY DEF SameNode
<1>f. k # Len(frames) => k \notin DOMAIN frames
  <2>1. Len(frames) \in Nat /\ DOMAIN frames = 1 .. Len(frames)
    BY DEF IndInv, TypeOK
  <2> QED
    BY <2>1 DEF ChangesFrame
\* The pending blocks of the other frames are old and stay open.
<1>1. ASSUME NEW i \in DOMAIN frames', i # k
      PROVE  /\ i \in DOMAIN frames /\ frames'[i] = frames[i]
             /\ \A b \in Pending(frames'[i]) :
                  b \in Blocks /\ b <= created /\ b \notin C /\ b # insert' /\ Open(b)
  <2>1. i \in DOMAIN frames /\ frames'[i] = frames[i]
    BY <1>1 DEF ChangesFrame
  <2> SUFFICES ASSUME NEW b \in Pending(frames[i])
               PROVE  b \in Blocks /\ b <= created /\ b \notin C /\ b # insert' /\ Open(b)
    BY <2>1
  <2>2. b \in Blocks /\ b <= created /\ Open(b) /\ b # insert
    BY <1>c, <2>1
  <2>3. b \notin C
    BY <1>a, <1>b, <2>2 DEF Closes
  <2>4. ASSUME b = insert'
        PROVE  FALSE
    <3>1. k = Len(frames) /\ b \in Pending(Top)
      BY <1>a, <1>b, <2>2, <2>4 DEF MovesBuilder
    <3> QED
      BY <1>a, <1>1, <2>1, <3>1 DEF FlowInv, PendingApart
  <2> QED
    BY <2>2, <2>3, <2>4
<1>2. PendingApart'
  <2>1. ASSUME NEW i \in DOMAIN frames'
        PROVE  Distinct(frames'[i])
    BY <1>1, <2>1 DEF NewPending, FlowInv, PendingApart
  <2>2. ASSUME NEW i \in DOMAIN frames', NEW b \in Pending(frames'[i]), i # k,
               k \in DOMAIN frames', b \in Pending(frames'[k])
        PROVE  FALSE
    <3>1. b \in Blocks /\ b <= created /\ i \in DOMAIN frames /\ b \in Pending(frames[i])
      BY <1>1, <2>2
    <3>2. k = Len(frames) /\ b \in Pending(Top)
      BY <1>a, <1>b, <2>2, <3>1 DEF NewPending
    <3> QED
      BY <1>a, <2>2, <3>1, <3>2 DEF FlowInv, PendingApart
  <2>3. ASSUME NEW i \in DOMAIN frames', NEW j \in DOMAIN frames', i # j, i # k, j # k,
               NEW b \in Pending(frames'[i]), b \in Pending(frames'[j])
        PROVE  FALSE
    BY <1>1, <2>3 DEF FlowInv, PendingApart
  <2> QED
    BY <2>1, <2>2, <2>3 DEF PendingApart
<1>3. \A b \in Blocks : tail'[b] # "broken" /\ (b > created' => tail'[b] = "open")
  BY <1>a, <1>b, <1>e DEF Closes, FlowInv, OpenBlocks, Open
<1>4. ASSUME NEW i \in DOMAIN frames', NEW b \in Pending(frames'[i])
      PROVE  tail'[b] = "open" /\ b # insert'
  <2>1. CASE i # k
    <3>1. b \in Blocks /\ b \notin C /\ b # insert' /\ tail[b] = "open"
      BY <1>1, <2>1 DEF Open
    <3> QED
      BY <3>1 DEF Closes
  <2>2. CASE i = k
    <3>1. b \in Blocks /\ b \notin C /\ b # insert'
      BY <1>d, <2>2 DEF NewPending
    <3>2. tail[b] = "open"
      <4>1. CASE b > created
        BY <3>1, <4>1 DEF FlowInv, OpenBlocks, Open
      <4>2. CASE k = Len(frames) /\ b \in Pending(Top)
        BY <1>a, <1>c, <4>2 DEF Open
      <4> QED
        BY <2>2, <4>1, <4>2 DEF NewPending
    <3> QED
      BY <3>1, <3>2 DEF Closes
  <2> QED
    BY <2>1, <2>2
<1>5. tail'[insert'] = "open" /\ insert' # NoBlock
  <2>1. insert' \in Blocks /\ insert' \notin C
    BY DEF MovesBuilder, Closes
  <2>2. tail[insert'] = "open"
    <3>1. CASE insert' = insert
      BY <1>a, <3>1 DEF Open
    <3>2. CASE insert' > created
      BY <2>1, <3>2 DEF FlowInv, OpenBlocks, Open
    <3>3. CASE insert' \in Pending(Top)
      BY <1>a, <1>c, <3>3 DEF Open
    <3> QED
      BY <3>1, <3>2, <3>3 DEF MovesBuilder
  <2> QED
    BY <2>1, <2>2 DEF Closes, Blocks, NoBlock
<1>6. ASSUME NEW b \in 1 .. created', tail'[b] = "open", b \in Blocks
      PROVE  \/ b = insert'
             \/ InProcedure /\ b = mainEntry
             \/ \E i \in DOMAIN frames' : b \in Pending(frames'[i])
  <2>1. b \notin C /\ tail[b] = "open"
    BY <1>6 DEF Closes
  <2>2. CASE b > created \/ (k = Len(frames) /\ b \in Pending(Top))
    BY <1>6, <2>1, <2>2 DEF Accounted
  <2>3. CASE b = insert
    BY <2>1, <2>3 DEF Accounted
  <2>4. CASE b <= created /\ b # insert /\ ~(k = Len(frames) /\ b \in Pending(Top))
    <3>1. b \in 1 .. created
      BY <1>a, <1>6, <2>4
    <3>2. CASE \E i \in DOMAIN frames : b \in Pending(frames[i])
      <4>1. PICK i \in DOMAIN frames : b \in Pending(frames[i])
        BY <3>2
      <4>2. i # k
        BY <1>a, <1>f, <2>4, <4>1
      <4> QED
        BY <4>1, <4>2 DEF ChangesFrame
    <3>3. CASE InProcedure /\ b = mainEntry
      BY <3>3
    <3> QED
      BY <1>a, <2>1, <2>4, <3>1, <3>2, <3>3 DEF FlowInv, OpenBlocks, Open
  <2> QED
    BY <1>a, <1>b, <1>6, <2>2, <2>3, <2>4
<1>7. InProcedure' <=> InProcedure
  BY DEF InProcedure, SameNode
<1>8. \A b \in 1 .. created' : tail'[b] = "open" => b \in Blocks
  BY <1>e DEF Blocks
<1>9. OpenBlocks'
  BY <1>a, <1>3, <1>4, <1>5, <1>6, <1>7, <1>8 DEF OpenBlocks, Open, SameNode
<1>10. InProcedure /\ mainEntry # NoBlock => tail'[mainEntry] = "open"
  <2> SUFFICES ASSUME InProcedure, mainEntry # NoBlock
               PROVE  tail'[mainEntry] = "open"
    OBVIOUS
  <2>1. mainEntry \in Blocks /\ mainEntry <= created /\ tail[mainEntry] = "open"
    BY DEF FlowInv, Places, Open, IndInv, TypeOK, ModuleType, Blocks, NoBlock
  <2>2. mainEntry \notin C
    BY <1>a, <1>b, <2>1 DEF Closes
  <2> QED
    BY <2>1, <2>2 DEF Closes
<1>11. Places'
  BY <1>a, <1>5, <1>7, <1>10 DEF FlowInv, Places, Open, SameNode
<1> QED
  BY <1>2, <1>9, <1>11 DEF FlowInv

LEMMA NextFrame ==
    ASSUME IndInv
    PROVE  Len(frames) + 1 \notin DOMAIN frames /\ Len(frames) + 1 # Len(frames)
<1>1. PICK n : n = Len(frames)
  OBVIOUS
<1>2. n \in Nat /\ DOMAIN frames = 1 .. n
  BY <1>1 DEF IndInv, TypeOK
<1>3. n + 1 \notin 1 .. n /\ n + 1 # n
  BY <1>2
<1> QED
  BY <1>1, <1>2, <1>3

\* The steps inside a node that move neither the builder nor what is pending.
LEMMA QuietStepKeepsFlow ==
    ASSUME IndInv, ErrorsKept, FlowInv, SameNode, UNCHANGED <<created, insert>>,
           \A b \in Blocks : tail'[b] = tail[b],
           \/ UNCHANGED frames
           \/ \E f \in FrameType : Push(f) /\ Pending(f) = {} /\ Distinct(f)
           \/ /\ Pending(Top) = {}
              /\ \E f \in FrameType : Become(f) /\ Pending(f) = {} /\ Distinct(f)
    PROVE  FlowInv'
<1>a. /\ insert \in Blocks /\ insert <= created /\ created \in Nat /\ frames # << >>
      /\ Len(frames) \in DOMAIN frames /\ Top = frames[Len(frames)]
      /\ Len(frames) \in Nat /\ DOMAIN frames = 1 .. Len(frames)
      /\ \A b \in Blocks : b \in Nat
  BY InsertIsOpen DEF SameNode, IndInv, TypeOK, Blocks
<1>1. Closes({})
  BY DEF Closes
<1>2. ASSUME NEW k, k \in {Len(frames), Len(frames) + 1}, ChangesFrame(k),
             k \in DOMAIN frames' => Distinct(frames'[k]) /\ Pending(frames'[k]) = {},
             k = Len(frames) => Pending(Top) = {}
      PROVE  FlowInv'
  <2>1. MovesBuilder(k)
    BY <1>a DEF MovesBuilder
  <2>2. NewPending(k, {})
    BY <1>2 DEF NewPending
  <2>3. Accounted(k, {})
    <3>1. \A b \in Blocks : ~((b > created /\ b <= created') \/ (k = Len(frames) /\ b \in Pending(Top)))
      BY <1>a, <1>2
    <3> QED
      BY <3>1 DEF Accounted
  <2> QED
    BY <1>1, <1>2, <2>1, <2>2, <2>3, NodeKeepsFlow
<1>3. CASE UNCHANGED frames
  <2>1. ChangesFrame(Len(frames) + 1)
    BY <1>a, <1>3 DEF ChangesFrame
  <2>2. Len(frames) + 1 \notin DOMAIN frames' /\ Len(frames) + 1 # Len(frames)
    BY <1>3, NextFrame
  <2> QED
    BY <1>2, <2>1, <2>2
<1>4. CASE \E f \in FrameType : Push(f) /\ Pending(f) = {} /\ Distinct(f)
  <2>1. PICK f \in FrameType : Push(f) /\ Pending(f) = {} /\ Distinct(f)
    BY <1>4
  <2>2. ChangesFrame(Len(frames) + 1) /\ frames'[Len(frames) + 1] = f
    BY <1>a, <2>1, Pushed DEF ChangesFrame
  <2>3. Len(frames) + 1 # Len(frames)
    BY NextFrame
  <2> QED
    BY <1>2, <2>1, <2>2, <2>3
<1>5. CASE /\ Pending(Top) = {}
           /\ \E f \in FrameType : Become(f) /\ Pending(f) = {} /\ Distinct(f)
  <2>1. PICK f \in FrameType : Become(f) /\ Pending(f) = {} /\ Distinct(f)
    BY <1>5
  <2>2. ChangesFrame(Len(frames)) /\ frames'[Len(frames)] = f
    BY <1>a, <2>1, Moved DEF ChangesFrame
  <2> QED
    BY <1>2, <1>5, <2>1, <2>2
<1> QED
  BY <1>3, <1>4, <1>5

\* The steps that branch from the builder's block to another and go there or
\* to the first of two: the end of a path, of a clause or of a condition.
LEMMA BranchStepKeepsFlow ==
    ASSUME IndInv, ErrorsKept, FlowInv, SameNode,
           tail' = Terminated(tail, insert), insert' \in Blocks,
           NEW k, MovesBuilder(k), ChangesFrame(k), insert' # insert,
           NewPending(k, {insert}),
           \A b \in Blocks :
             (b > created /\ b <= created') \/ (k = Len(frames) /\ b \in Pending(Top))
               => b = insert' \/ (k \in DOMAIN frames' /\ b \in Pending(frames'[k]))
    PROVE  FlowInv'
<1>1. insert \in Blocks /\ insert <= created /\ Open(insert) /\ created \in Nat
      /\ created' \in Nat
      /\ created <= created' /\ tail \in [Blocks -> {"open", "closed", "broken"}]
  BY InsertIsOpen DEF SameNode
<1>2. \A b \in Blocks : tail'[b] = IF b = insert THEN "closed" ELSE tail[b]
  BY <1>1, TerminatedOpen DEF Open
<1>3. Closes({insert})
  BY <1>1, <1>2 DEF Closes, Blocks
<1>4. Accounted(k, {insert})
  BY DEF Accounted
<1> QED
  BY <1>3, <1>4, NodeKeepsFlow

LEMMA TernaryKeepsFlow ==
    ASSUME IndInv, ErrorsKept, FlowInv, EmitTernary, created' \in 0 .. MaxBlocks
    PROVE  FlowInv'
<1>a. /\ insert \in Blocks /\ insert <= created /\ created \in Nat /\ frames # << >>
      /\ Open(insert) /\ tail \in [Blocks -> {"open", "closed", "broken"}]
      /\ Len(frames) \in Nat /\ DOMAIN frames = 1 .. Len(frames)
      /\ \A b \in Blocks : b \in Nat
  BY InsertIsOpen DEF EmitTernary, AtExpression, IndInv, TypeOK, Blocks
<1>1. PICK yes, no, cont, C :
        /\ yes = created + 1 /\ no = created + 2 /\ cont = created + 3
        /\ tail' = Terminated(Terminated(Terminated(tail, insert), yes), no)
        /\ insert' = cont /\ created' = created + 3 /\ UNCHANGED frames
        /\ C = {insert, yes, no}
  BY DEF EmitTernary, AppendBlocks
<1>2. /\ yes \in Blocks /\ no \in Blocks /\ cont \in Blocks
      /\ insert < yes /\ yes < no /\ no < cont
      /\ yes > created /\ no > created /\ cont <= created'
  BY <1>a, <1>1 DEF Blocks
<1>3. Open(yes) /\ Open(no)
  BY <1>2 DEF FlowInv, OpenBlocks
<1>4. Closes(C)
  <2>1. /\ Terminated(tail, insert) \in [Blocks -> {"open", "closed", "broken"}]
        /\ \A x \in Blocks : Terminated(tail, insert)[x] =
                               IF x = insert THEN "closed" ELSE tail[x]
    BY <1>a, TerminatedOpen, TailType DEF Open
  <2>2. PICK t : t = Terminated(tail, insert)
    OBVIOUS
  <2>3. /\ t \in [Blocks -> {"open", "closed", "broken"}] /\ t[yes] = "open"
        /\ \A x \in Blocks : t[x] = IF x = insert THEN "closed" ELSE tail[x]
    BY <1>2, <1>3, <1>a, <2>1, <2>2 DEF Open
  <2>4. /\ Terminated(t, yes) \in [Blocks -> {"open", "closed", "broken"}]
        /\ \A x \in Blocks : Terminated(t, yes)[x] = IF x = yes THEN "closed" ELSE t[x]
    BY <1>2, <2>3, TerminatedOpen, TailType
  <2>5. PICK u : u = Terminated(t, yes)
    OBVIOUS
  <2>6. /\ u \in [Blocks -> {"open", "closed", "broken"}] /\ u[no] = "open"
        /\ \A x \in Blocks : u[x] = IF x = yes THEN "closed" ELSE t[x]
    BY <1>2, <1>3, <1>a, <2>3, <2>4, <2>5 DEF Open
  <2>7. \A x \in Blocks : Terminated(u, no)[x] = IF x = no THEN "closed" ELSE u[x]
    BY <1>2, <2>6, TerminatedOpen
  <2>8. \A b \in Blocks : tail'[b] = IF b \in C THEN "closed" ELSE tail[b]
    BY <1>1, <2>2, <2>3, <2>5, <2>6, <2>7
  <2> QED
    BY <1>a, <1>1, <1>2, <2>8 DEF Closes
<1>5. SameNode
  BY <1>a, <1>1 DEF SameNode, EmitTernary, function, driver
<1>6. PICK k : k = Len(frames) + 1
  OBVIOUS
<1>7. k \notin DOMAIN frames' /\ k # Len(frames)
  BY <1>1, <1>6, NextFrame
<1>8. ChangesFrame(k) /\ MovesBuilder(k) /\ NewPending(k, C)
  <2>1. MovesBuilder(k)
    BY <1>a, <1>1, <1>2 DEF MovesBuilder
  <2> QED
    BY <1>1, <1>6, <1>7, <2>1 DEF ChangesFrame, NewPending
<1>9. Accounted(k, C)
  <2>1. \A b \in Blocks : b > created /\ b <= created' => b \in {yes, no, cont}
    BY <1>a, <1>1
  <2> QED
    BY <1>1, <1>7, <2>1 DEF Accounted
<1> QED
  BY <1>4, <1>5, <1>8, <1>9, NodeKeepsFlow

\* The steps that end a construct: the builder goes on behind it.
LEMMA EndKeepsFlow ==
    ASSUME IndInv, ErrorsKept, FlowInv, frames # << >>, Top.kind \notin {"main", "fn"}, Pop,
           tail' = Terminated(tail, insert), insert' = Top.join,
           Top.join \in Blocks, Pending(Top) = {Top.join},
           UNCHANGED <<created, curFn, mainEntry, mainCreated, status, proc>>
    PROVE  FlowInv'
<1>a. /\ insert \in Blocks /\ insert <= created /\ created \in Nat
      /\ Len(frames) \in DOMAIN frames /\ Top = frames[Len(frames)]
  BY InsertIsOpen
<1>b. created \in 0 .. MaxBlocks
  BY DEF IndInv, TypeOK, ModuleType
<1>c. Top.join <= created /\ Top.join # insert
  BY <1>a, PendingExist DEF FlowInv, OpenBlocks
<1>1. frames \in Seq(FrameType) /\ Len(frames) # 1
  BY TopShape DEF IndInv, TypeOK
<1>2. /\ frames' # << >> /\ frames'[1] = frames[1]
      /\ \A i \in DOMAIN frames' : i \in DOMAIN frames /\ frames'[i] = frames[i]
      /\ DOMAIN frames' = DOMAIN frames \ {Len(frames)}
  BY <1>1, Popped, PopType
<1>3. ChangesFrame(Len(frames)) /\ Len(frames) \notin DOMAIN frames'
  BY <1>2 DEF ChangesFrame
<1>4. SameNode
  BY <1>a, <1>b, <1>2 DEF SameNode
<1>5. MovesBuilder(Len(frames)) /\ insert' # insert
  BY <1>a, <1>c DEF MovesBuilder
<1>6. NewPending(Len(frames), {insert})
  BY <1>3 DEF NewPending
<1>7. \A b \in Pending(Top) : b = insert'
  OBVIOUS
<1>8. \A b \in Blocks : ~(b > created /\ b <= created')
  BY <1>a DEF Blocks
<1> QED
  BY <1>3, <1>4, <1>5, <1>6, <1>7, <1>8, BranchStepKeepsFlow

\* The ifs.
LEMMA IfKeepsFlow ==
    ASSUME IndInv, ErrorsKept, FlowInv, IfCondition \/ IfThenDone \/ IfElseDone,
           created' \in 0 .. MaxBlocks
    PROVE  FlowInv'
<1> USE DEF module, function, driver
<1>a. /\ frames # << >> /\ Top.kind \in IfKinds
      /\ tail' = Terminated(tail, insert)
      /\ UNCHANGED <<curFn, mainEntry, mainCreated, status, proc>>
  BY DEF IfCondition, IfThenDone, IfElseDone, InPhase, IfKinds, Branch, CondBranch
<1>b. /\ insert \in Blocks /\ insert <= created /\ created \in Nat
      /\ Len(frames) \in DOMAIN frames /\ Top = frames[Len(frames)]
      /\ \A b \in Blocks : b \in Nat
  BY <1>a, InsertIsOpen DEF Blocks
<1>c. \A b \in Pending(Top) : b \in Blocks /\ b <= created /\ b # insert
  BY <1>a, <1>b, PendingExist DEF FlowInv, OpenBlocks
<1>d. Top.kind \notin LoopKinds /\ Top.kind # "for"
  BY <1>a DEF IfKinds, LoopKinds
<1>1. CASE IfCondition
  <2>1. PICK f \in FrameType : Become(f) /\ ThenFrame(f)
    BY <1>1, IfSteps
  <2>2. /\ ChangesFrame(Len(frames)) /\ frames'[Len(frames)] = f
        /\ frames' # << >> /\ frames'[1].kind = frames[1].kind
    BY <1>a, <2>1, Moved DEF ChangesFrame, ThenFrame
  <2>3. created' = created + 3 /\ insert' = created + 1 /\ insert' \in Blocks
        /\ created + 2 \in Blocks /\ created + 3 \in Blocks
    BY <1>b, <1>1 DEF IfCondition, AppendBlocks, CondBranch, Blocks
  <2>4. Pending(f) = {created + 2, created + 3} /\ Distinct(f)
    BY <1>b, <1>d, <2>1, <2>3 DEF ThenFrame, Pending, Distinct
  <2>5. Pending(Top) = {}
    BY <1>1, <1>d DEF IfCondition, InPhase, Pending
  <2>6. SameNode
    BY <1>a, <1>b, <2>2, <2>3 DEF SameNode
  <2>7. MovesBuilder(Len(frames)) /\ insert' # insert
    BY <1>b, <2>3 DEF MovesBuilder
  <2>8. NewPending(Len(frames), {insert})
    BY <1>b, <2>2, <2>3, <2>4 DEF NewPending
  <2>9. \A b \in Blocks : b > created /\ b <= created' =>
           b = insert' \/ (Len(frames) \in DOMAIN frames' /\ b \in Pending(frames'[Len(frames)]))
    BY <1>b, <2>1, <2>2, <2>3, <2>4, Moved, <1>a
  <2> QED
    BY <1>a, <2>2, <2>3, <2>5, <2>6, <2>7, <2>8, <2>9, BranchStepKeepsFlow
<1>2. CASE IfThenDone
  <2>1. PICK f \in FrameType : Become(f) /\ ElseFrame(f)
    BY <1>2, IfSteps
  <2>2. /\ ChangesFrame(Len(frames)) /\ frames'[Len(frames)] = f
        /\ frames' # << >> /\ frames'[1].kind = frames[1].kind
        /\ Len(frames) \in DOMAIN frames'
    BY <1>a, <2>1, Moved DEF ChangesFrame, ElseFrame
  <2>3. Top.phase = "then" /\ insert' = Top.next /\ UNCHANGED created
    BY <1>2 DEF IfThenDone, InPhase, Branch
  <2>4. Distinct(Top) /\ Top.next # Top.join
    BY <1>a, <1>b, <2>3 DEF FlowInv, PendingApart, Distinct
  <2>5. Top.next \in Blocks /\ Top.join \in Blocks
    BY <1>a, <2>3, TopShape, OwnAreBlocks DEF IfKinds
  <2>6. Pending(Top) = {Top.next, Top.join} /\ Pending(f) = {Top.join} /\ Distinct(f)
    BY <1>d, <2>1, <2>3, <2>5 DEF ElseFrame, Pending, Distinct
  <2>7. SameNode
    BY <1>a, <1>b, <2>2, <2>3 DEF SameNode
  <2>8. MovesBuilder(Len(frames)) /\ insert' # insert
    BY <1>b, <1>c, <2>3, <2>5, <2>6 DEF MovesBuilder
  <2>9. NewPending(Len(frames), {insert})
    BY <1>c, <2>2, <2>3, <2>4, <2>6 DEF NewPending
  <2>10. \A b \in Pending(Top) : b = insert' \/ b \in Pending(frames'[Len(frames)])
    BY <2>2, <2>3, <2>6
  <2>11. \A b \in Blocks : ~(b > created /\ b <= created')
    BY <1>b, <2>3
  <2> QED
    BY <1>a, <2>2, <2>3, <2>5, <2>7, <2>8, <2>9, <2>10, <2>11, BranchStepKeepsFlow
<1>3. CASE IfElseDone
  <2>1. Top.phase = "else" /\ Pop /\ insert' = Top.join /\ UNCHANGED created
    BY <1>3 DEF IfElseDone, InPhase, Branch
  <2>2. Top.join \in Blocks
    BY <1>a, <2>1, TopShape, OwnAreBlocks DEF IfKinds
  <2>3. Pending(Top) = {Top.join}
    BY <1>d, <2>1, <2>2 DEF Pending
  <2>4. Top.kind \notin {"main", "fn"}
    BY <1>a DEF IfKinds
  <2> QED
    BY <1>a, <2>1, <2>2, <2>3, <2>4, EndKeepsFlow
<1> QED
  BY <1>1, <1>2, <1>3

\* The loops.
LEMMA LoopKeepsFlow ==
    ASSUME IndInv, ErrorsKept, FlowInv, created' \in 0 .. MaxBlocks,
           \/ EmitWhile \/ EmitFor \/ ForPreDone \/ LoopCondition
           \/ WhileBodyDone \/ ForBodyDone \/ ForIncDone
    PROVE  FlowInv'
<1> USE DEF module, function, driver
<1>a. /\ frames # << >>
      /\ UNCHANGED <<curFn, mainEntry, mainCreated, status, proc>>
  BY DEF EmitWhile, EmitFor, ForPreDone, LoopCondition, WhileBodyDone, ForBodyDone,
     ForIncDone, InPhase, AtStatement
<1>b. /\ insert \in Blocks /\ insert <= created /\ created \in Nat
      /\ Len(frames) \in DOMAIN frames /\ Top = frames[Len(frames)]
      /\ \A b \in Blocks : b \in Nat
  BY <1>a, InsertIsOpen DEF Blocks
<1>c. \A b \in Pending(Top) : b \in Blocks /\ b <= created /\ b # insert
  BY <1>a, <1>b, PendingExist DEF FlowInv, OpenBlocks
<1>d. Distinct(Top)
  BY <1>b DEF FlowInv, PendingApart
<1>e. Top.kind \in LoopKinds =>
         /\ Top.head \in Blocks /\ Top.body \in Blocks /\ Top.next \in Blocks
         /\ Top.join \in Blocks /\ Top.kind \notin IfKinds
  BY <1>a, TopShape, OwnAreBlocks DEF LoopKinds, IfKinds
<1>1. CASE EmitWhile
  <2>1. PICK f \in FrameType : Push(f) /\ WhileFrame(f)
    BY <1>1, LoopPushes
  <2>2. PICK k : k = Len(frames) + 1
    OBVIOUS
  <2>3. /\ ChangesFrame(k) /\ frames'[k] = f /\ k \in DOMAIN frames' /\ k # Len(frames)
        /\ frames' # << >> /\ frames'[1].kind = frames[1].kind
    BY <1>a, <2>1, <2>2, Pushed, NextFrame DEF ChangesFrame
  <2>4. /\ created' = created + 3 /\ insert' = created + 1
        /\ created + 1 \in Blocks /\ created + 2 \in Blocks /\ created + 3 \in Blocks
        /\ tail' = Terminated(tail, insert)
    BY <1>b, <1>1 DEF EmitWhile, AppendBlocks, Branch, Blocks
  <2>5. Pending(f) = {created + 2, created + 3} /\ Distinct(f)
    BY <1>b, <2>1, <2>4 DEF WhileFrame, Pending, Distinct, LoopKinds, IfKinds
  <2>6. SameNode
    BY <1>a, <1>b, <2>3, <2>4 DEF SameNode
  <2>7. MovesBuilder(k) /\ insert' # insert
    BY <1>b, <2>4 DEF MovesBuilder
  <2>8. NewPending(k, {insert})
    BY <1>b, <2>3, <2>4, <2>5 DEF NewPending
  <2>9. \A b \in Blocks : b > created /\ b <= created' => b = insert' \/ b \in Pending(frames'[k])
    BY <1>b, <2>3, <2>4, <2>5
  <2> QED
    BY <2>3, <2>4, <2>6, <2>7, <2>8, <2>9, BranchStepKeepsFlow
<1>2. CASE EmitFor
  <2>1. PICK f \in FrameType : Push(f) /\ ForFrame(f)
    BY <1>2, LoopPushes
  <2>2. PICK k : k = Len(frames) + 1
    OBVIOUS
  <2>3. /\ ChangesFrame(k) /\ frames'[k] = f /\ k \in DOMAIN frames' /\ k # Len(frames)
        /\ frames' # << >> /\ frames'[1].kind = frames[1].kind
    BY <1>a, <2>1, <2>2, Pushed, NextFrame DEF ChangesFrame
  <2>4. /\ created' = created + 4 /\ UNCHANGED <<insert, tail>>
        /\ created + 1 \in Blocks /\ created + 2 \in Blocks
        /\ created + 3 \in Blocks /\ created + 4 \in Blocks
    BY SMTT(30), <1>b, <1>2 DEF EmitFor, AppendBlocks, Blocks
  <2>5. Pending(f) = {created + 1, created + 2, created + 3, created + 4} /\ Distinct(f)
    BY <1>b, <2>1, <2>4 DEF ForFrame, Pending, Distinct, LoopKinds, IfKinds
  <2>6. SameNode
    BY <1>a, <1>b, <2>3, <2>4 DEF SameNode
  <2>7. MovesBuilder(k) /\ Closes({})
    BY <1>b, <2>4 DEF MovesBuilder, Closes
  <2>8. NewPending(k, {})
    BY <1>b, <2>3, <2>4, <2>5 DEF NewPending
  <2>9. \A b \in Blocks : b > created /\ b <= created' => b \in Pending(frames'[k])
    BY <1>b, <2>3, <2>4, <2>5
  <2>10. Accounted(k, {})
    BY <2>3, <2>4, <2>9 DEF Accounted
  <2> QED
    BY <2>3, <2>6, <2>7, <2>8, <2>10, NodeKeepsFlow
\* A loop that goes on: the builder enters one of its pending blocks.
<1>f. ASSUME NEW f \in FrameType, NEW p, Become(f), OnlyPhase(f, p), UNCHANGED created,
             Top.kind \in LoopKinds, tail' = Terminated(tail, insert),
             insert' \in Pending(Top), Pending(f) = Pending(Top) \ {insert'}
      PROVE  FlowInv'
  <2>1. /\ ChangesFrame(Len(frames)) /\ frames'[Len(frames)] = f
        /\ frames' # << >> /\ frames'[1].kind = frames[1].kind
        /\ Len(frames) \in DOMAIN frames'
    BY <1>a, <1>f, Moved DEF ChangesFrame, OnlyPhase
  <2>2. Distinct(f)
    BY <1>d, <1>e, <1>f DEF OnlyPhase, Distinct
  <2>3. SameNode
    BY <1>a, <1>b, <1>f, <2>1 DEF SameNode
  <2>4. insert' \in Blocks /\ insert' <= created /\ insert' # insert
    BY <1>c, <1>f
  <2>5. MovesBuilder(Len(frames))
    BY <1>f, <2>4 DEF MovesBuilder
  <2>6. NewPending(Len(frames), {insert})
    BY <1>c, <1>f, <2>1, <2>2 DEF NewPending
  <2>7. \A b \in Pending(Top) : b = insert' \/ b \in Pending(frames'[Len(frames)])
    BY <1>f, <2>1
  <2>8. \A b \in Blocks : ~(b > created /\ b <= created')
    BY <1>b, <1>f
  <2> QED
    BY <1>f, <2>1, <2>3, <2>4, <2>5, <2>6, <2>7, <2>8, BranchStepKeepsFlow
<1>3. CASE ForPreDone
  <2>1. /\ Top.kind = "for" /\ Top.phase = "pre" /\ UNCHANGED created
        /\ tail' = Terminated(tail, insert) /\ insert' = Top.head
    BY <1>3 DEF ForPreDone, InPhase, Branch
  <2>2. PICK f \in FrameType : Become(f) /\ OnlyPhase(f, "cond")
    BY <1>3, PhaseSteps
  <2>3. /\ Pending(Top) = {Top.head, Top.body, Top.next, Top.join}
        /\ Pending(f) = {Top.body, Top.next, Top.join}
    BY <1>e, <2>1, <2>2 DEF OnlyPhase, Pending, LoopKinds
  <2>4. Top.head \notin {Top.body, Top.next, Top.join}
    BY <1>d, <2>1 DEF Distinct, LoopKinds
  <2> QED
    BY <1>f, <2>1, <2>2, <2>3, <2>4 DEF LoopKinds
<1>4. CASE LoopCondition
  <2>1. /\ Top.kind \in LoopKinds /\ Top.phase = "cond" /\ UNCHANGED created
        /\ tail' = Terminated(tail, insert) /\ insert' = Top.body
    BY <1>4 DEF LoopCondition, InPhase, CondBranch
  <2>2. PICK f \in FrameType : Become(f) /\ OnlyPhase(f, "body")
    BY <1>4, PhaseSteps
  <2>3. CASE Top.kind = "for"
    <3>1. /\ Pending(Top) = {Top.body, Top.next, Top.join}
          /\ Pending(f) = {Top.next, Top.join}
      BY <1>e, <2>1, <2>2, <2>3 DEF OnlyPhase, Pending
    <3>2. Top.body \notin {Top.next, Top.join}
      BY <1>d, <2>1, <2>3 DEF Distinct
    <3> QED
      BY <1>f, <2>1, <2>2, <3>1, <3>2
  <2>4. CASE Top.kind # "for"
    <3>1. Pending(Top) = {Top.body, Top.join} /\ Pending(f) = {Top.join}
      BY <1>e, <2>1, <2>2, <2>4 DEF OnlyPhase, Pending
    <3>2. Top.body # Top.join
      BY <1>d, <2>1 DEF Distinct
    <3> QED
      BY <1>f, <2>1, <2>2, <3>1, <3>2
  <2> QED
    BY <2>3, <2>4
<1>5. CASE ForBodyDone
  <2>1. /\ Top.kind = "for" /\ Top.phase = "body" /\ UNCHANGED created
        /\ tail' = Terminated(tail, insert) /\ insert' = Top.next
    BY <1>5 DEF ForBodyDone, InPhase, Branch
  <2>2. PICK f \in FrameType : Become(f) /\ OnlyPhase(f, "inc")
    BY <1>5, PhaseSteps
  <2>3. Pending(Top) = {Top.next, Top.join} /\ Pending(f) = {Top.join}
    BY <1>e, <2>1, <2>2 DEF OnlyPhase, Pending, LoopKinds
  <2>4. Top.next # Top.join
    BY <1>d, <2>1 DEF Distinct
  <2> QED
    BY <1>f, <2>1, <2>2, <2>3, <2>4 DEF LoopKinds
<1>6. CASE WhileBodyDone \/ ForIncDone
  <2>1. /\ \/ Top.kind = "while" /\ Top.phase = "body"
           \/ Top.kind = "for" /\ Top.phase = "inc"
        /\ tail' = Terminated(tail, insert) /\ insert' = Top.join /\ Pop
        /\ UNCHANGED created
    BY <1>6 DEF WhileBodyDone, ForIncDone, InPhase, Branch
  <2>2. Pending(Top) = {Top.join}
    BY <1>e, <2>1 DEF Pending, LoopKinds
  <2>3. Top.join \in Blocks /\ Top.kind \notin {"main", "fn"}
    BY <1>e, <2>1 DEF LoopKinds
  <2> QED
    BY <1>a, <2>1, <2>2, <2>3, EndKeepsFlow
<1> QED
  BY <1>1, <1>2, <1>3, <1>4, <1>5, <1>6

\* The steps inside a node that create no block.
LEMMA QuietActionsKeepFlow ==
    ASSUME IndInv, ErrorsKept, FlowInv,
           \/ \E appends, fails \in BOOLEAN : EmitExpression(appends, fails)
           \/ \E kind \in IfKinds : EmitIf(kind)
           \/ EmitElseIfExpression \/ LoopTooDeep \/ JumpOutsideLoop
           \/ \E outcome \in {"none", "null", "value"} : EmitReturn(outcome)
           \/ EmitImplicitReturn,
           "bareReturn" \notin Features
    PROVE  FlowInv'
<1> USE DEF module, function, driver
<1>a. frames # << >>
  BY DEF EmitExpression, EmitIf, EmitElseIfExpression, LoopTooDeep, JumpOutsideLoop,
     EmitReturn, EmitImplicitReturn, AtExpression, AtStatement, InPhase
<1>b. /\ insert \in Blocks /\ created \in 0 .. MaxBlocks /\ Open(insert)
      /\ tail \in [Blocks -> {"open", "closed", "broken"}]
      /\ proc \in [void : BOOLEAN, found : BOOLEAN, value : BOOLEAN]
  BY <1>a, InsertIsOpen DEF IndInv, TypeOK, ModuleType, EmitterType
<1>c. ASSUME UNCHANGED <<created, insert, curFn, mainEntry, mainCreated, status>>,
             frames' # << >>, frames'[1].kind = frames[1].kind,
             UNCHANGED proc \/ (proc'.found => proc'.void \/ proc'.value)
      PROVE  SameNode
  BY <1>a, <1>b, <1>c DEF SameNode
<1>1. CASE \E appends, fails \in BOOLEAN : EmitExpression(appends, fails)
  <2>1. /\ UNCHANGED <<created, insert, frames, curFn, mainEntry, mainCreated, status, proc>>
        /\ tail' = tail \/ tail' = Appended(tail, insert)
    BY <1>1 DEF EmitExpression
  <2>2. \A b \in Blocks : tail'[b] = tail[b]
    BY <1>b, <2>1 DEF Appended, Open
  <2>3. SameNode
    BY <1>a, <1>c, <2>1
  <2> QED
    BY <2>1, <2>2, <2>3, QuietStepKeepsFlow
<1>2. CASE (\E kind \in IfKinds : EmitIf(kind)) \/ EmitElseIfExpression
  <2>1. UNCHANGED <<created, insert, tail, curFn, mainEntry, mainCreated, status, proc>>
    BY <1>2 DEF EmitIf, EmitElseIfExpression
  <2>2. PICK f \in FrameType : Push(f) /\ f.kind \in IfKinds /\ f.phase = "cond"
    BY <1>2, PlainPushes DEF IfKinds
  <2>3. Pending(f) = {} /\ Distinct(f)
    BY <2>2 DEF Pending, Distinct, IfKinds, LoopKinds
  <2>4. frames' # << >> /\ frames'[1].kind = frames[1].kind
    BY <1>a, <2>2, Pushed
  <2>5. SameNode
    BY <1>c, <2>1, <2>4
  <2> QED
    BY <2>1, <2>2, <2>3, <2>5, QuietStepKeepsFlow
<1>3. CASE LoopTooDeep \/ JumpOutsideLoop
  <2>1. UNCHANGED <<created, insert, tail, frames, curFn, mainEntry, mainCreated, status, proc>>
    BY <1>3 DEF LoopTooDeep, JumpOutsideLoop
  <2>2. SameNode
    BY <1>a, <1>c, <2>1
  <2> QED
    BY <2>1, <2>2, QuietStepKeepsFlow
<1>4. ASSUME NEW outcome \in {"none", "null", "value"}, EmitReturn(outcome)
      PROVE  FlowInv'
  <2>1. /\ UNCHANGED <<created, insert, tail, frames, curFn, mainEntry, mainCreated, status>>
        /\ outcome \in {"none", "null"} => proc.void
    BY <1>4 DEF EmitReturn
  <2>2. PICK v : /\ proc' = [proc EXCEPT !.found = TRUE, !.value = v]
                 /\ outcome = "value" => v = TRUE
    BY <1>4 DEF EmitReturn
  <2>3. proc'.void = proc.void /\ proc'.value = v
    BY <1>b, <2>2
  <2>4. proc'.void \/ proc'.value
    BY <1>4, <2>1, <2>2, <2>3
  <2>5. SameNode
    BY <1>a, <1>c, <2>1, <2>4
  <2> QED
    BY <2>1, <2>5, QuietStepKeepsFlow
<1>5. CASE EmitImplicitReturn
  <2>1. /\ UNCHANGED <<created, insert, tail, curFn, mainEntry, mainCreated, status>>
        /\ Top.kind = "fn" /\ Top.phase = "body"
        /\ proc' = [proc EXCEPT !.value = TRUE]
    BY <1>5 DEF EmitImplicitReturn, InPhase
  <2>2. proc'.value = TRUE
    BY <1>b, <2>1
  <2>3. PICK f \in FrameType : Become(f) /\ OnlyPhase(f, "last")
    BY <1>5, PhaseSteps
  <2>4. Pending(Top) = {} /\ Pending(f) = {} /\ Distinct(f)
    BY <2>1, <2>3 DEF OnlyPhase, Pending, Distinct, IfKinds, LoopKinds
  <2>5. frames' # << >> /\ frames'[1].kind = frames[1].kind
    BY <1>a, <2>3, Moved DEF OnlyPhase
  <2>6. SameNode
    BY <1>c, <2>1, <2>2, <2>5
  <2> QED
    BY <2>1, <2>3, <2>4, <2>6, QuietStepKeepsFlow
<1> QED
  BY <1>1, <1>2, <1>3, <1>4, <1>5

\* Between the nodes of the program.
LEMMA MainInPlace ==
    ASSUME IndInv, FlowInv, frames = << >>, status = "emitting"
    PROVE  /\ ~InProcedure /\ created \in Nat
           /\ created > 0 =>
                /\ insert \in 1 .. created /\ Open(insert) /\ curFn = Main
                /\ mainCreated /\ mainEntry \in 1 .. created
           /\ created = 0 => mainEntry = NoBlock /\ ~mainCreated
           /\ \A b \in 1 .. created : Open(b) => b = insert
<1>1. ~InProcedure /\ DOMAIN frames = {}
  BY DEF InProcedure
<1>2. created \in Nat /\ insert \in 0 .. created /\ mainEntry \in 0 .. created
  BY DEF IndInv, TypeOK, ModuleType
<1> QED
  BY <1>1, <1>2 DEF FlowInv, Places, OpenBlocks, NoBlock

LEMMA NodeStartKeepsFlow ==
    ASSUME IndInv, FlowInv, EmitStatement
    PROVE  FlowInv'
<1>1. frames = << >> /\ status = "emitting" /\ ~ctxError /\ EnsureMain(tail)
      /\ UNCHANGED status
  BY DEF EmitStatement, AtTopLevel
<1>2. /\ ~InProcedure /\ created \in Nat
      /\ created > 0 =>
           /\ insert \in 1 .. created /\ Open(insert) /\ curFn = Main
           /\ mainCreated /\ mainEntry \in 1 .. created
      /\ created = 0 => mainEntry = NoBlock /\ ~mainCreated
      /\ \A b \in 1 .. created : Open(b) => b = insert
  BY <1>1, MainInPlace
<1>3. PICK f \in FrameType : Push(f) /\ f.kind = "main" /\ f.phase = "body"
  BY PlainPushes
<1>4. /\ frames' # << >> /\ frames'[1] = f /\ \A i \in DOMAIN frames' : frames'[i] = f
      /\ ~InProcedure'
  <2>1. DOMAIN frames = {} /\ Len(frames) = 0
    BY <1>1
  <2>2. DOMAIN frames' = {1} /\ frames'[1] = f /\ frames' # << >>
    BY <1>1, <1>3, <2>1, Pushed
  <2> QED
    BY <1>3, <2>2 DEF InProcedure
<1>5. Pending(f) = {} /\ Distinct(f)
  BY <1>3 DEF Pending, Distinct, IfKinds, LoopKinds
<1>6. PendingApart'
  <2>1. \A i, j \in DOMAIN frames' : Pending(frames'[i]) = {} /\ Distinct(frames'[i])
    BY <1>4, <1>5
  <2> QED
    BY <2>1 DEF PendingApart
<1>7. \A b \in Blocks : tail[b] # "broken" /\ (b > created => tail[b] = "open")
  BY DEF FlowInv, OpenBlocks, Open
<1>8. CASE CreateMain(tail)
  <2>1. /\ created = 0 /\ created' = 1 /\ 1 \in Blocks /\ insert' = 1 /\ mainEntry' = 1
        /\ curFn' = Main /\ mainCreated' = TRUE /\ tail' = tail
    BY <1>2, <1>8 DEF CreateMain, AppendBlocks, Blocks, NoBlock
  <2>2. OpenBlocks'
    BY <1>1, <1>4, <1>5, <1>7, <2>1 DEF OpenBlocks, Open, Blocks
  <2>3. Places'
    BY <1>4, <2>1 DEF Places, NoBlock
  <2> QED
    BY <1>6, <2>2, <2>3 DEF FlowInv
<1>9. CASE StayInMain(tail)
  <2>1. /\ UNCHANGED <<created, insert, mainEntry, curFn, mainCreated, tail>>
        /\ created > 0
    BY <1>2, <1>9 DEF StayInMain
  <2>2. OpenBlocks'
    BY <1>1, <1>2, <1>4, <1>5, <1>7, <2>1 DEF OpenBlocks, Open, NoBlock
  <2>3. Places'
    BY <1>2, <1>4, <2>1 DEF FlowInv, Places
  <2> QED
    BY <1>6, <2>2, <2>3 DEF FlowInv
<1>10. CASE ReturnToMain(tail)
  <2>1. mainEntry # NoBlock /\ blockFn[insert] # Main
    BY <1>10 DEF ReturnToMain
  <2>2. insert # NoBlock /\ curFn = Main
    BY <1>2, <2>1 DEF NoBlock
  <2>3. insert \in OwnBlocks
    BY <1>1, <2>2 DEF IndInv, Position
  <2> QED
    BY <2>1, <2>2, <2>3 DEF OwnBlocks
<1> QED
  BY <1>1, <1>8, <1>9, <1>10 DEF EnsureMain

LEMMA NodeEndKeepsFlow ==
    ASSUME IndInv, ErrorsKept, FlowInv, StatementDone
    PROVE  FlowInv'
<1>1. /\ frames # << >> /\ Top.kind = "main" /\ Top.phase = "body" /\ Pop
      /\ UNCHANGED <<created, tail, insert, curFn, mainEntry, mainCreated, proc, status>>
  BY DEF StatementDone, InPhase, module, function
<1>2. Len(frames) = 1 /\ frames' = << >>
  BY <1>1, TopShape, Popped
<1>3. DOMAIN frames = {1} /\ Top = frames[1] /\ DOMAIN frames' = {}
  BY <1>2 DEF Top, IndInv, TypeOK
<1>4. ~InProcedure /\ ~InProcedure' /\ Pending(Top) = {}
  BY <1>1, <1>2, <1>3 DEF InProcedure, Pending, LoopKinds
<1>5. PendingApart'
  BY <1>3 DEF PendingApart
<1>6. OpenBlocks'
  BY <1>1, <1>3, <1>4 DEF FlowInv, OpenBlocks, Open
<1>7. Places'
  BY <1>1, <1>4 DEF FlowInv, Places
<1> QED
  BY <1>5, <1>6, <1>7 DEF FlowInv

LEMMA ProcStartKeepsFlow ==
    ASSUME IndInv, FlowInv, NEW isVoid \in BOOLEAN, NEW named \in {"main", "other"},
           EmitProc(isVoid, named), Features \subseteq {"ifExpression"}
    PROVE  FlowInv'
<1>0. "procMain" \notin Features /\ "procAfterFlow" \notin Features
  OBVIOUS
<1>1. /\ frames = << >> /\ status = "emitting" /\ UNCHANGED <<status, tail, mainCreated>>
      /\ mainEntry \notin {b \in Blocks : tail[b] # "open"}
      /\ mainEntry' = mainEntry /\ curFn' = procs + 1
      /\ insert' = created + 1
      /\ created' = created + 1 /\ created + 1 <= MaxBlocks
      /\ proc' = [void |-> isVoid, found |-> FALSE, value |-> FALSE]
  BY <1>0 DEF EmitProc, AtTopLevel, AppendBlocks
<1>2. /\ ~InProcedure /\ created \in Nat
      /\ created > 0 =>
           /\ insert \in 1 .. created /\ Open(insert) /\ curFn = Main
           /\ mainCreated /\ mainEntry \in 1 .. created
      /\ created = 0 => mainEntry = NoBlock /\ ~mainCreated
      /\ \A b \in 1 .. created : Open(b) => b = insert
  BY <1>1, MainInPlace
<1>3. PICK f \in FrameType : Push(f) /\ f.kind = "fn" /\ f.phase = "body"
  BY PlainPushes
<1>4. /\ frames' # << >> /\ frames'[1] = f /\ \A i \in DOMAIN frames' : frames'[i] = f
      /\ InProcedure'
  <2>1. DOMAIN frames = {} /\ Len(frames) = 0
    BY <1>1
  <2>2. DOMAIN frames' = {1} /\ frames'[1] = f /\ frames' # << >>
    BY <1>3, <2>1, Pushed, <1>1 DEF EmitProc
  <2> QED
    BY <1>3, <2>2 DEF InProcedure
<1>5. Pending(f) = {} /\ Distinct(f)
  BY <1>3 DEF Pending, Distinct, IfKinds, LoopKinds
<1>6. PendingApart'
  <2>1. \A i, j \in DOMAIN frames' : Pending(frames'[i]) = {} /\ Distinct(frames'[i])
    BY <1>4, <1>5
  <2> QED
    BY <2>1 DEF PendingApart
<1>7. /\ \A b \in Blocks : tail[b] # "broken" /\ (b > created => tail[b] = "open")
      /\ \A b \in Blocks : b \in Nat
  BY DEF FlowInv, OpenBlocks, Open, Blocks
<1>8. created + 1 \in Blocks
  BY <1>1, <1>2 DEF Blocks
\* The builder was in the entry of main, which stays open.
<1>9. created > 0 => insert = mainEntry /\ mainEntry \in Blocks /\ tail[mainEntry] = "open"
  <2>1. created > 0 => mainEntry \in Blocks
    BY <1>1, <1>2 DEF Blocks
  <2> QED
    BY <1>1, <1>2, <2>1 DEF Open
<1>10. \A b \in 1 .. created' : tail[b] = "open" => b = insert' \/ b = mainEntry
  <2> SUFFICES ASSUME NEW b \in 1 .. created', tail[b] = "open", b # created + 1
               PROVE  b = mainEntry
    BY <1>1
  <2>1. b \in 1 .. created /\ created > 0
    BY <1>1, <1>2
  <2> QED
    BY <1>2, <1>9, <2>1 DEF Open
<1>11. OpenBlocks'
  <2>1. tail'[insert'] = "open"
    BY <1>1, <1>2, <1>7, <1>8
  <2>2. \A b \in Blocks : b > created' => b > created
    BY <1>1, <1>2, <1>7
  <2>3. \A i \in DOMAIN frames' : Pending(frames'[i]) = {}
    BY <1>4, <1>5
  <2>4. status' = "emitting" /\ tail' = tail
    BY <1>1
  <2> QED
    BY <1>1, <1>4, <1>7, <1>10, <2>1, <2>2, <2>3, <2>4 DEF OpenBlocks, Open
<1>12. Places'
  <2>1. curFn' # Main
    BY <1>1 DEF Main, IndInv, TypeOK, EmitterType
  <2>2. mainEntry # NoBlock => tail[mainEntry] = "open"
    BY <1>2, <1>9
  <2>3. proc'.found = FALSE
    BY <1>1
  <2>4. mainCreated <=> mainEntry # NoBlock
    BY DEF FlowInv, Places
  <2>5. created' > 0 => insert' # NoBlock
    BY <1>1, <1>2 DEF NoBlock
  <2> QED
    BY <1>1, <1>4, <2>1, <2>2, <2>3, <2>4, <2>5 DEF Places, Open
<1> QED
  BY <1>6, <1>11, <1>12 DEF FlowInv

LEMMA ProcEndKeepsFlow ==
    ASSUME IndInv, ErrorsKept, FlowInv, ProcDone
    PROVE  FlowInv'
<1>1. /\ Len(frames) = 1 /\ Top.kind = "fn" /\ Pop /\ UNCHANGED status
      /\ proc.void \/ proc.value \/ proc.found
  BY DEF ProcDone
<1>2. frames # << >> /\ DOMAIN frames = {1} /\ Top = frames[1]
  BY <1>1 DEF Top, IndInv, TypeOK
<1>3. frames' = << >> /\ ~InProcedure' /\ InProcedure /\ DOMAIN frames' = {}
  BY <1>1, <1>2, Popped DEF InProcedure
<1>4. /\ curFn # Main
      /\ proc.found => proc.void \/ proc.value
      /\ mainEntry # NoBlock => tail[mainEntry] = "open"
      /\ mainCreated <=> mainEntry # NoBlock
  BY <1>3 DEF FlowInv, Places, Open
<1>5. EnsureMain(Terminated(tail, insert))
  BY <1>1, <1>4 DEF ProcDone
<1>6. /\ status = "emitting" /\ insert \in Blocks /\ insert <= created
      /\ created \in Nat /\ tail[insert] = "open" /\ blockFn[insert] = curFn
      /\ mainEntry # insert
      /\ tail \in [Blocks -> {"open", "closed", "broken"}]
  BY <1>2, <1>3, InsertIsOpen DEF Open
<1>7. \A b \in Blocks : Terminated(tail, insert)[b] = IF b = insert THEN "closed" ELSE tail[b]
  BY <1>6, TerminatedOpen
<1>8. Pending(Top) = {}
  <2>1. Top.phase \in {"body", "last"}
    BY <1>1, <1>2 DEF IndInv, FramesShape, FrameShape
  <2> QED
    BY <1>1, <2>1 DEF Pending, LoopKinds
<1>9. \A b \in 1 .. created : tail[b] = "open" => b = insert \/ b = mainEntry
  BY <1>2, <1>6, <1>8 DEF FlowInv, OpenBlocks, Open
<1>10. /\ \A b \in Blocks : tail[b] # "broken" /\ (b > created => tail[b] = "open")
       /\ \A b \in Blocks : b \in Nat
  BY DEF FlowInv, OpenBlocks, Open, Blocks
<1>11. \A b \in 1 .. created : b \in Blocks
  BY DEF IndInv, TypeOK, ModuleType, Blocks
<1>12. PendingApart'
  BY <1>3 DEF PendingApart
<1>13. CASE CreateMain(Terminated(tail, insert))
  <2>1. /\ mainEntry = NoBlock /\ created' = created + 1 /\ created + 1 \in Blocks
        /\ insert' = created + 1 /\ mainEntry' = created + 1
        /\ curFn' = Main /\ mainCreated' = TRUE /\ tail' = Terminated(tail, insert)
    BY <1>6, <1>13 DEF CreateMain, AppendBlocks, Blocks
  <2>2. tail'[insert'] = "open" /\ insert' # NoBlock
    BY <1>6, <1>7, <1>10, <2>1 DEF NoBlock
  <2>3. \A b \in Blocks : tail'[b] # "broken" /\ (b > created' => tail'[b] = "open")
    BY <1>6, <1>7, <1>10, <2>1
  <2>4. \A b \in 1 .. created' : tail'[b] = "open" => b = insert'
    <3> SUFFICES ASSUME NEW b \in 1 .. created', tail'[b] = "open", b # created + 1
                 PROVE  FALSE
      BY <2>1
    <3>1. b \in 1 .. created /\ b \in Blocks /\ b # NoBlock
      BY <1>6, <1>11, <2>1 DEF NoBlock
    <3> QED
      BY <1>7, <1>9, <2>1, <3>1
  <2>5. OpenBlocks'
    BY <1>1, <1>3, <1>6, <2>2, <2>3, <2>4 DEF OpenBlocks, Open
  <2>6. Places'
    BY <1>3, <2>1, <2>2 DEF Places
  <2> QED
    BY <1>12, <2>5, <2>6 DEF FlowInv
<1>14. CASE ReturnToMain(Terminated(tail, insert))
  <2>1. /\ mainEntry # NoBlock /\ UNCHANGED <<created, mainEntry>> /\ insert' = mainEntry
        /\ curFn' = Main /\ mainCreated' = TRUE /\ tail' = Terminated(tail, insert)
    BY <1>14 DEF ReturnToMain
  <2>2. mainEntry \in Blocks
    BY <2>1 DEF IndInv, TypeOK, ModuleType, Blocks, NoBlock
  <2>3. tail'[insert'] = "open"
    BY <1>4, <1>6, <1>7, <2>1, <2>2
  <2>4. \A b \in Blocks : tail'[b] # "broken" /\ (b > created' => tail'[b] = "open")
    BY <1>6, <1>7, <1>10, <2>1
  <2>5. \A b \in 1 .. created' : tail'[b] = "open" => b = insert'
    BY <1>7, <1>9, <1>11, <2>1
  <2>6. OpenBlocks'
    BY <1>1, <1>3, <1>6, <2>3, <2>4, <2>5 DEF OpenBlocks, Open
  <2>7. Places'
    BY <1>3, <2>1 DEF Places
  <2> QED
    BY <1>12, <2>6, <2>7 DEF FlowInv
<1>15. CASE StayInMain(Terminated(tail, insert))
  BY <1>4, <1>6, <1>15 DEF StayInMain
<1> QED
  BY <1>5, <1>13, <1>14, <1>15 DEF EnsureMain

LEMMA FinishKeepsFlow ==
    ASSUME IndInv, FlowInv, Finish
    PROVE  FlowInv'
<1>1. /\ frames = << >> /\ status = "emitting"
      /\ \/ status' = "failed" /\ UNCHANGED tail
         \/ /\ status' = "written"
            /\ tail' = IF mainCreated THEN Terminated(tail, insert) ELSE tail
      /\ UNCHANGED <<created, insert, curFn, mainEntry, mainCreated, proc, frames>>
  BY DEF Finish, AtTopLevel, function
<1>2. /\ ~InProcedure /\ created \in Nat
      /\ created > 0 => insert \in 1 .. created /\ Open(insert) /\ mainCreated
      /\ created = 0 => ~mainCreated
      /\ \A b \in 1 .. created : Open(b) => b = insert
  BY <1>1, MainInPlace
<1>3. ~InProcedure' /\ DOMAIN frames = {} /\ DOMAIN frames' = {}
  BY <1>1 DEF InProcedure
<1>4. /\ \A b \in Blocks : tail[b] # "broken" /\ (b > created => tail[b] = "open")
      /\ \A b \in Blocks : b \in Nat
      /\ \A b \in 1 .. created : b \in Blocks
      /\ tail \in [Blocks -> {"open", "closed", "broken"}]
  BY DEF FlowInv, OpenBlocks, Open, IndInv, TypeOK, ModuleType, Blocks
<1>5. PendingApart'
  BY <1>3 DEF PendingApart
<1>6. Places'
  BY <1>1, <1>2, <1>3 DEF FlowInv, Places
<1>7. CASE status' = "failed" /\ UNCHANGED tail
  <2>1. OpenBlocks'
    BY <1>1, <1>3, <1>4, <1>7 DEF OpenBlocks, Open
  <2> QED
    BY <1>5, <1>6, <2>1 DEF FlowInv
<1>8. CASE /\ status' = "written"
           /\ tail' = IF mainCreated THEN Terminated(tail, insert) ELSE tail
  <2>1. CASE created = 0
    <3>1. tail' = tail /\ 1 .. created = {}
      BY <1>2, <1>8, <2>1
    <3>2. OpenBlocks'
      BY <1>1, <1>3, <1>4, <1>8, <3>1 DEF OpenBlocks, Open
    <3> QED
      BY <1>5, <1>6, <3>2 DEF FlowInv
  <2>2. CASE created > 0
    <3>1. insert \in Blocks /\ insert <= created /\ tail[insert] = "open"
          /\ tail' = Terminated(tail, insert)
      BY <1>2, <1>4, <1>8, <2>2 DEF Open
    <3>2. \A b \in Blocks : tail'[b] = IF b = insert THEN "closed" ELSE tail[b]
      BY <1>4, <3>1, TerminatedOpen
    <3>3. \A b \in Blocks : tail'[b] # "broken" /\ (b > created => tail'[b] = "open")
      BY <1>2, <1>4, <3>1, <3>2
    <3>4. \A b \in 1 .. created : tail'[b] # "open"
      BY <1>2, <1>4, <3>2 DEF Open
    <3>5. OpenBlocks'
      BY <1>1, <1>3, <1>8, <3>3, <3>4 DEF OpenBlocks, Open
    <3> QED
      BY <1>5, <1>6, <3>5 DEF FlowInv
  <2> QED
    BY <1>2, <2>1, <2>2
<1> QED
  BY <1>1, <1>7, <1>8

LEMMA FlowStep ==
    ASSUME IndInv, ErrorsKept, FlowInv, [Next]_vars, Features \subseteq {"ifExpression"}
    PROVE  FlowInv'
<1>a. created' \in 0 .. MaxBlocks
  BY ModuleTypeStep DEF ModuleType
<1>b. /\ "jump" \notin Features /\ "badCondition" \notin Features
      /\ "procError" \notin Features /\ "bareReturn" \notin Features
  OBVIOUS
<1>1. CASE \/ \E appends, fails \in BOOLEAN : EmitExpression(appends, fails)
           \/ \E kind \in IfKinds : EmitIf(kind)
           \/ EmitElseIfExpression \/ LoopTooDeep \/ JumpOutsideLoop
           \/ \E outcome \in {"none", "null", "value"} : EmitReturn(outcome)
           \/ EmitImplicitReturn
  BY <1>b, <1>1, QuietActionsKeepFlow
<1>2. CASE EmitTernary
  BY <1>a, <1>2, TernaryKeepsFlow
<1>3. CASE IfCondition \/ IfThenDone \/ IfElseDone
  BY <1>a, <1>3, IfKeepsFlow
<1>4. CASE \/ EmitWhile \/ EmitFor \/ ForPreDone \/ LoopCondition
           \/ WhileBodyDone \/ ForBodyDone \/ ForIncDone
  BY <1>a, <1>4, LoopKeepsFlow
<1>5. CASE \/ IfBadCondition \/ LoopBadCondition \/ EmitBreak \/ EmitContinue
           \/ EmitProcUnsupported \/ ProcFails
  BY <1>b, <1>5 DEF IfBadCondition, LoopBadCondition, EmitBreak, EmitContinue, EmitJump,
     EmitProcUnsupported, ProcFails
<1>6. CASE EmitAfterError \/ UNCHANGED vars
  <2>1. UNCHANGED <<created, tail, insert, frames, status, curFn, mainEntry,
                    mainCreated, proc>>
    BY <1>6 DEF EmitAfterError, vars, module, function, driver
  <2>2. PendingApart'
    BY <2>1 DEF FlowInv, PendingApart
  <2>3. OpenBlocks'
    BY <2>1 DEF FlowInv, OpenBlocks, Open, InProcedure
  <2>4. Places'
    BY <2>1 DEF FlowInv, Places, Open, InProcedure
  <2> QED
    BY <2>2, <2>3, <2>4 DEF FlowInv
<1>7. CASE EmitStatement \/ StatementDone
  BY <1>7, NodeStartKeepsFlow, NodeEndKeepsFlow
<1>8. ASSUME NEW isVoid \in BOOLEAN, NEW named \in {"main", "other"},
             EmitProc(isVoid, named)
      PROVE  FlowInv'
  BY <1>8, ProcStartKeepsFlow
<1>9. CASE ProcDone \/ Finish
  BY <1>9, ProcEndKeepsFlow, FinishKeepsFlow
<1> QED
  BY <1>1, <1>2, <1>3, <1>4, <1>5, <1>6, <1>7, <1>8, <1>9 DEF Next, IfKinds

\* However ifs, if expressions, ternaries and loops are nested in statements
\* and procedures, every block of a written module has one terminator, as its
\* last instruction.
THEOREM BlocksTerminated ==
    ASSUME Features \subseteq {"ifExpression"}
    PROVE  Spec => []EveryBlockTerminatedOnce
<1>1. Init => ErrorsKept /\ FlowInv
  <2> SUFFICES ASSUME Init PROVE ErrorsKept /\ FlowInv
    OBVIOUS
  <2>1. ErrorsKept
    BY DEF Init, ErrorsKept, InProcedure
  <2>2. PendingApart /\ OpenBlocks /\ Places
    BY DEF Init, PendingApart, OpenBlocks, Places, InProcedure, Open, NoBlock
  <2> QED
    BY <2>1, <2>2 DEF FlowInv
<1>2. IndInv /\ ErrorsKept /\ FlowInv /\ [Next]_vars => (ErrorsKept /\ FlowInv)'
  BY ErrorsStep, FlowStep
<1>3. ASSUME IndInv, FlowInv
      PROVE  EveryBlockTerminatedOnce
  <2> SUFFICES ASSUME status = "written", NEW b \in 1 .. created
               PROVE  tail[b] = "closed"
    BY DEF EveryBlockTerminatedOnce
  <2>1. b \in Blocks /\ tail[b] \in {"open", "closed", "broken"}
    BY <1>3 DEF IndInv, TypeOK, ModuleType, Blocks
  <2> QED
    BY <1>3, <2>1 DEF FlowInv, OpenBlocks, Open
<1> QED
  BY <1>1, <1>2, <1>3, Invariance, PTL DEF Spec
=============================================================================
