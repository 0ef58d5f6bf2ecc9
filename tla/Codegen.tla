------------------------------- MODULE Codegen -------------------------------
(***************************************************************************)
(* Lowering of a program to LLVM basic blocks: the code generator's driver *)
(* (xvr_llvm_codegen.cpp), the procedure emitter, the control-flow emitter *)
(* and the part of the expression emitter that creates blocks.             *)
(*                                                                         *)
(* The emitters recurse over the syntax tree while one LLVM builder holds  *)
(* the insertion point, and the control-flow emitter keeps the targets of  *)
(* break and continue in two arrays indexed by a depth.  The recursion is  *)
(* the sequence frames; the tree is not given in advance, its next node is *)
(* chosen at every step, so a behaviour is the emission of any program     *)
(* within the bounds.                                                      *)
(*                                                                         *)
(* An import is the sequence of the nodes of the module it names: a node   *)
(* that fails leaves the context error set, and nothing of the import      *)
(* after it is emitted, exactly as nothing of the program is.              *)
(***************************************************************************)
EXTENDS Integers, Sequences

CONSTANTS
    MaxLoopNesting,  \* MAX_LOOP_NESTING, 64 in the code
    MaxBlocks,       \* bound: basic blocks of the module
    MaxProcs,        \* bound: procedures of the program
    MaxDepth,        \* bound: nesting of statements
    Features         \* what the program may contain, a subset of AllFeatures

AllFeatures ==
    {"jump",            \* break and continue inside a loop
     "badCondition",    \* a condition that is not boolean, or has no value
     "ifExpression",    \* var x: T = if (...) {...} else {...};
     "procError",       \* an error while a procedure is emitted
     "procAfterFlow",   \* a procedure declared after top-level control flow
     "procMain",        \* a procedure named main
     "bareReturn"}      \* return without a value where one is declared

ASSUME ConstantAssumption ==
    /\ MaxLoopNesting \in Nat \ {0} /\ MaxBlocks \in Nat
    /\ MaxProcs \in Nat /\ MaxDepth \in Nat
    /\ Features \subseteq AllFeatures

Blocks == 1 .. MaxBlocks
NoBlock == 0
Main == 0                  \* the LLVM function named main
Procs == 1 .. MaxProcs
NoFunction == -1
Functions == {Main, NoFunction} \union Procs

VARIABLES
    (* the LLVM module *)
    created,       \* blocks 1 .. created exist
    blockFn,       \* the function a block belongs to
    tail,          \* "open": no terminator; "closed": it ends with its only
                   \* terminator; "broken": something follows a terminator
    edges,         \* branches <<from, to>> emitted
    phi,           \* incoming blocks of the phi node of a block, {} if none
    insert,        \* the builder's insertion block
    (* Xvr_LLVMFunctionEmitter and Xvr_LLVMCodegen *)
    curFn,         \* current_function
    procs,         \* procedures added to the module
    proc,          \* locals of emit_function_body
    mainEntry,     \* entry block of the function named main
    mainCreated,
    codegenError,  \* has_error of the code generator
    ctxError,      \* has_error of the context; nothing clears it
    (* Xvr_LLVMControlFlow *)
    loopEnd, loopCond, loopDepth,
    cfError,       \* has_error of the control-flow emitter
    (* the recursion, and the compiler's outcome *)
    frames,
    status         \* "emitting", then "failed" (exit 1) or "written"

module == <<created, blockFn, tail, edges, phi>>
function == <<curFn, procs, proc>>
driver == <<mainEntry, mainCreated, codegenError, status>>
loops == <<loopEnd, loopCond, loopDepth>>
errors == <<ctxError, cfError>>
vars == <<module, insert, function, driver, loops, errors, frames>>

Frame(kind, phase) ==
    [kind |-> kind, phase |-> phase, head |-> NoBlock, body |-> NoBlock,
     next |-> NoBlock, join |-> NoBlock, level |-> 0]

(***************************************************************************)
(* The fields of a frame: for an if, body and next are the then and else   *)
(* blocks, head the block the then path ended in and join the block after  *)
(* both; for a loop, head tests the condition, next is the target of       *)
(* continue, join the block after the loop and level its place in the      *)
(* arrays of targets.                                                      *)
(***************************************************************************)
Top == frames[Len(frames)]
LoopKinds == {"while", "for"}

InPhase(kinds, phase) ==
    frames # << >> /\ Top.kind \in kinds /\ Top.phase = phase

\* Where a statement may be emitted, and where an expression may.
AtStatement == frames # << >> /\ Top.phase \in {"pre", "body", "then", "else"}
AtExpression == frames # << >> /\ Top.phase # "last"

Push(frame) == Len(frames) < MaxDepth /\ frames' = Append(frames, frame)
Pop == frames' = SubSeq(frames, 1, Len(frames) - 1)
Become(frame) == frames' = [frames EXCEPT ![Len(frames)] = frame]

(* Operators whose name ends in Mutant are mistakes a change to this code   *)
(* could make.  The specification does not use them: put in the place of    *)
(* the operator they precede, they must break the properties.               *)

-----------------------------------------------------------------------------
(* The IR builder: it appends where it stands and checks no terminator.    *)

Appended(t, b) == [t EXCEPT ![b] = IF @ = "open" THEN "open" ELSE "broken"]
Terminated(t, b) == [t EXCEPT ![b] = IF @ = "open" THEN "closed" ELSE "broken"]

\* LLVMAppendBasicBlockInContext, n times.
AppendBlocks(n, fn) ==
    /\ created + n <= MaxBlocks
    /\ created' = created + n
    /\ blockFn' = [b \in Blocks |->
                     IF b \in created + 1 .. created + n THEN fn ELSE blockFn[b]]

\* Xvr_LLVMIRBuilderCreateBr, then SetInsertPoint.
Branch(to, then) ==
    /\ tail' = Terminated(tail, insert)
    /\ edges' = edges \union {<<insert, to>>}
    /\ insert' = then

\* Xvr_LLVMIRBuilderCreateCondBr, then SetInsertPoint on the first target.
CondBranch(yes, no) ==
    /\ tail' = Terminated(tail, insert)
    /\ edges' = edges \union {<<insert, yes>>, <<insert, no>>}
    /\ insert' = yes

\* set_error and set_error_hint of the control-flow emitter.
RaiseCf == cfError' = TRUE /\ UNCHANGED ctxError
ClearCf == cfError' = FALSE /\ UNCHANGED ctxError

-----------------------------------------------------------------------------
(* Expressions.                                                            *)

InProc == frames # << >> /\ frames[1].kind = "fn"

\* An expression appends instructions (a constant appends none) and may
\* report an error to the context.
EmitExpression(appends, fails) ==
    /\ AtExpression
    /\ fails /\ InProc => "procError" \in Features
    /\ tail' = IF appends THEN Appended(tail, insert) ELSE tail
    /\ ctxError' = (ctxError \/ fails)
    /\ UNCHANGED <<created, blockFn, edges, phi, insert, function, driver,
                   loops, cfError, frames>>

\* condition ? thenPath : elsePath.  Both values were emitted before.
EmitTernary ==
    /\ AtExpression
    /\ AppendBlocks(3, curFn)
    /\ LET yes == created + 1  no == created + 2  cont == created + 3
       IN  /\ tail' = Terminated(Terminated(Terminated(tail, insert), yes), no)
           /\ edges' = edges \union {<<insert, yes>>, <<insert, no>>,
                                     <<yes, cont>>, <<no, cont>>}
           /\ phi' = [phi EXCEPT ![cont] = {yes, no}]
           /\ insert' = cont
    /\ UNCHANGED <<function, driver, loops, errors, frames>>

-----------------------------------------------------------------------------
(* Xvr_LLVMControlFlow.                                                    *)

EmitIf(kind) ==
    /\ AtStatement
    /\ kind = "ifexpr" => "ifExpression" \in Features
    /\ Push(Frame(kind, "cond"))
    /\ ClearCf
    /\ UNCHANGED <<module, insert, function, driver, loops>>

\* The else-if of an if expression: emit_if_expression calls itself.
EmitElseIfExpression ==
    /\ InPhase({"ifexpr"}, "else")
    /\ Push(Frame("ifexpr", "cond"))
    /\ UNCHANGED <<module, insert, function, driver, loops, errors>>

IfCondition ==
    /\ InPhase({"if", "ifexpr"}, "cond")
    /\ AppendBlocks(3, curFn)
    /\ LET then == created + 1  else == created + 2  ifcont == created + 3
       IN  /\ CondBranch(then, else)
           /\ Become([Top EXCEPT !.phase = "then", !.body = then,
                                 !.next = else, !.join = ifcont])
    /\ UNCHANGED <<phi, function, driver, loops, errors>>

\* The condition has no value or is not an i1: the statement is dropped.
IfBadCondition ==
    /\ InPhase({"if", "ifexpr"}, "cond") /\ "badCondition" \in Features
    /\ RaiseCf /\ Pop
    /\ UNCHANGED <<module, insert, function, driver, loops>>

\* Takes the block the then path began in for the one it ended in.
IfThenDoneMutant ==
    /\ InPhase({"if", "ifexpr"}, "then")
    /\ Branch(Top.join, Top.next)
    /\ Become([Top EXCEPT !.phase = "else", !.head = Top.body])
    /\ UNCHANGED <<created, blockFn, phi, function, driver, loops, errors>>

IfThenDone ==
    /\ InPhase({"if", "ifexpr"}, "then")
    /\ Branch(Top.join, Top.next)
    /\ Become([Top EXCEPT !.phase = "else", !.head = insert])
    /\ UNCHANGED <<created, blockFn, phi, function, driver, loops, errors>>

\* The phi of an if expression goes to last_expression_result.
IfElseDone ==
    /\ InPhase({"if", "ifexpr"}, "else")
    /\ Branch(Top.join, Top.join)
    /\ IF Top.kind = "ifexpr"
       THEN phi' = [phi EXCEPT ![Top.join] = {Top.head, insert}]
       ELSE UNCHANGED phi
    /\ Pop
    /\ UNCHANGED <<created, blockFn, function, driver, loops, errors>>

PushLoop(end, cond) ==
    /\ loopEnd' = [loopEnd EXCEPT ![loopDepth + 1] = end]
    /\ loopCond' = [loopCond EXCEPT ![loopDepth + 1] = cond]
    /\ loopDepth' = loopDepth + 1

PopLoop == loopDepth' = loopDepth - 1 /\ UNCHANGED <<loopEnd, loopCond>>

LoopTooDeep ==
    /\ AtStatement /\ loopDepth >= MaxLoopNesting
    /\ RaiseCf
    /\ UNCHANGED <<module, insert, function, driver, loops, frames>>

EmitWhile ==
    /\ AtStatement /\ loopDepth < MaxLoopNesting
    /\ AppendBlocks(3, curFn)
    /\ LET cond == created + 1  body == created + 2  end == created + 3
       IN  /\ PushLoop(end, cond)
           /\ Branch(cond, cond)
           /\ Push([Frame("while", "cond") EXCEPT
                      !.head = cond, !.body = body, !.next = cond,
                      !.join = end, !.level = loopDepth + 1])
    /\ ClearCf
    /\ UNCHANGED <<phi, function, driver>>

\* The targets are pushed before the pre clause is emitted.
EmitFor ==
    /\ AtStatement /\ loopDepth < MaxLoopNesting
    /\ AppendBlocks(4, curFn)
    /\ LET cond == created + 1  body == created + 2
           inc == created + 3   end == created + 4
       IN  /\ PushLoop(end, inc)
           /\ Push([Frame("for", "pre") EXCEPT
                      !.head = cond, !.body = body, !.next = inc,
                      !.join = end, !.level = loopDepth + 1])
    /\ ClearCf
    /\ UNCHANGED <<tail, edges, phi, insert, function, driver>>

ForPreDone ==
    /\ InPhase({"for"}, "pre")
    /\ Branch(Top.head, Top.head)
    /\ Become([Top EXCEPT !.phase = "cond"])
    /\ UNCHANGED <<created, blockFn, phi, function, driver, loops, errors>>

\* A boolean condition, or, for a for, one without a value.
LoopCondition ==
    /\ InPhase(LoopKinds, "cond")
    /\ CondBranch(Top.body, Top.join)
    /\ Become([Top EXCEPT !.phase = "body"])
    /\ UNCHANGED <<created, blockFn, phi, function, driver, loops, errors>>

\* The error path forgets the targets it pushed, or drops two.
LoopBadConditionMutant ==
    /\ InPhase(LoopKinds, "cond") /\ "badCondition" \in Features
    /\ RaiseCf /\ Pop
    /\ UNCHANGED <<module, insert, function, driver, loops>>

LoopBadConditionTwiceMutant ==
    /\ InPhase(LoopKinds, "cond") /\ "badCondition" \in Features
    /\ RaiseCf /\ Pop
    /\ loopDepth' = loopDepth - 2 /\ UNCHANGED <<loopEnd, loopCond>>
    /\ UNCHANGED <<module, insert, function, driver>>

\* The blocks of the loop stay behind without a terminator.
LoopBadCondition ==
    /\ InPhase(LoopKinds, "cond") /\ "badCondition" \in Features
    /\ RaiseCf /\ PopLoop /\ Pop
    /\ UNCHANGED <<module, insert, function, driver>>

WhileBodyDone ==
    /\ InPhase({"while"}, "body")
    /\ Branch(Top.head, Top.join)
    /\ PopLoop /\ Pop
    /\ UNCHANGED <<created, blockFn, phi, function, driver, errors>>

ForBodyDone ==
    /\ InPhase({"for"}, "body")
    /\ Branch(Top.next, Top.next)
    /\ Become([Top EXCEPT !.phase = "inc"])
    /\ UNCHANGED <<created, blockFn, phi, function, driver, loops, errors>>

ForIncDone ==
    /\ InPhase({"for"}, "inc")
    /\ Branch(Top.head, Top.join)
    /\ PopLoop /\ Pop
    /\ UNCHANGED <<created, blockFn, phi, function, driver, errors>>

\* Appends a branch and leaves the insertion point behind it.
EmitJump(target) ==
    /\ AtStatement /\ loopDepth > 0 /\ "jump" \in Features
    /\ Branch(target[loopDepth], insert)
    /\ ClearCf
    /\ UNCHANGED <<created, blockFn, phi, function, driver, loops, frames>>

EmitBreak == EmitJump(loopEnd)
EmitContinue == EmitJump(loopCond)

JumpOutsideLoop ==
    /\ AtStatement /\ loopDepth = 0
    /\ RaiseCf
    /\ UNCHANGED <<module, insert, function, driver, loops, frames>>

-----------------------------------------------------------------------------
(* Xvr_LLVMCodegen and Xvr_LLVMFunctionEmitter: the nodes of the program.  *)

AtTopLevel == status = "emitting" /\ frames = << >>

\* ensure_main_function, where t is tail after what was emitted before it: it
\* adds main, finds the builder in main, or returns to main from a procedure.
CreateMain(t) ==
    /\ mainEntry = NoBlock
    /\ AppendBlocks(1, Main)
    /\ tail' = t
    /\ insert' = created + 1 /\ mainEntry' = created + 1
    /\ curFn' = Main /\ mainCreated' = TRUE

\* Returns to the entry of main from within main.
StayInMainMutant(t) ==
    /\ mainEntry # NoBlock /\ blockFn[insert] = Main
    /\ tail' = t /\ insert' = mainEntry
    /\ UNCHANGED <<created, blockFn, mainEntry, curFn, mainCreated>>

StayInMain(t) ==
    /\ mainEntry # NoBlock /\ blockFn[insert] = Main
    /\ tail' = t
    /\ UNCHANGED <<created, blockFn, insert, mainEntry, curFn, mainCreated>>

\* Forgets to make main the current function, or to move the builder.
ReturnToMainFunctionMutant(t) ==
    /\ mainEntry # NoBlock /\ blockFn[insert] # Main
    /\ tail' = t
    /\ insert' = mainEntry /\ mainCreated' = TRUE
    /\ UNCHANGED <<created, blockFn, mainEntry, curFn>>

ReturnToMainBuilderMutant(t) ==
    /\ mainEntry # NoBlock /\ blockFn[insert] # Main
    /\ tail' = t
    /\ curFn' = Main /\ mainCreated' = TRUE
    /\ UNCHANGED <<created, blockFn, insert, mainEntry>>

ReturnToMain(t) ==
    /\ mainEntry # NoBlock /\ blockFn[insert] # Main
    /\ tail' = t
    /\ insert' = mainEntry /\ curFn' = Main /\ mainCreated' = TRUE
    /\ UNCHANGED <<created, blockFn, mainEntry>>

EnsureMain(t) == CreateMain(t) \/ StayInMain(t) \/ ReturnToMain(t)

\* Xvr_LLVMCodegenEmitAST on any node once the context has an error.
EmitAfterError ==
    /\ AtTopLevel /\ ctxError
    /\ codegenError' = TRUE
    /\ UNCHANGED <<module, insert, function, mainEntry, mainCreated, status,
                   loops, errors, frames>>

EmitStatement ==
    /\ AtTopLevel /\ ~ctxError
    /\ EnsureMain(tail)
    /\ Push(Frame("main", "body"))
    /\ UNCHANGED <<edges, phi, procs, proc, codegenError, status, loops,
                   errors>>

\* Does not look at the context after it.
StatementDoneMutant ==
    /\ InPhase({"main"}, "body")
    /\ Pop
    /\ UNCHANGED <<module, insert, function, driver, loops, errors>>

StatementDone ==
    /\ InPhase({"main"}, "body")
    /\ codegenError' = (codegenError \/ ctxError)
    /\ Pop
    /\ UNCHANGED <<module, insert, function, mainEntry, mainCreated, status,
                   loops, errors>>

\* emit_function_body up to the first statement.  LLVM renames a second main.
EmitProc(isVoid, named) ==
    /\ AtTopLevel /\ ~ctxError /\ procs < MaxProcs
    /\ named = "main" => "procMain" \in Features
    /\ mainEntry \in {b \in Blocks : tail[b] # "open"} => "procAfterFlow" \in Features
    /\ LET isMain == named = "main" /\ mainEntry = NoBlock
           fn == IF isMain THEN Main ELSE procs + 1
       IN  /\ AppendBlocks(1, fn)
           /\ curFn' = fn
           /\ mainEntry' = IF isMain THEN created + 1 ELSE mainEntry
    /\ procs' = procs + 1
    /\ proc' = [void |-> isVoid, found |-> FALSE, value |-> FALSE]
    /\ insert' = created + 1
    /\ Push(Frame("fn", "body"))
    /\ UNCHANGED <<tail, edges, phi, mainCreated, codegenError, status, loops,
                   errors>>

\* The declared return type has no LLVM type: clear_local_vars was called, the
\* function was not added, and EmitAST returns false without set_error.
EmitProcUnsupported ==
    /\ AtTopLevel /\ ~ctxError /\ "procError" \in Features
    /\ curFn' = NoFunction /\ ctxError' = TRUE
    /\ UNCHANGED <<module, insert, procs, proc, driver, loops, cfError,
                   frames>>

\* A return statement of the body itself: its value, if it has one, is kept
\* for the end of the body and emission goes on with the next statement.
\* "none": no value was written; "null": it was, and emitted nothing.
EmitReturn(outcome) ==
    /\ InPhase({"fn"}, "body") /\ Len(frames) = 1 /\ ~ctxError
    /\ outcome \in {"none", "null"} /\ ~proc.void => "bareReturn" \in Features
    /\ outcome = "value" => ~proc.void
    /\ proc' = [proc EXCEPT !.found = TRUE,
                            !.value = CASE outcome = "none" -> @
                                        [] outcome = "null" -> FALSE
                                        [] outcome = "value" -> TRUE]
    /\ UNCHANGED <<module, insert, curFn, procs, driver, loops, errors, frames>>

\* The last statement is an expression of the return type and no return was
\* met: its value is returned.
EmitImplicitReturn ==
    /\ InPhase({"fn"}, "body") /\ Len(frames) = 1 /\ ~ctxError
    /\ ~proc.found /\ ~proc.void
    /\ proc' = [proc EXCEPT !.value = TRUE]
    /\ Become([Top EXCEPT !.phase = "last"])
    /\ UNCHANGED <<module, insert, curFn, procs, driver, loops, errors>>

\* The end of a body that succeeds: ret, or nothing when a return was met that
\* left no value; then main is made current again.
ProcDone ==
    /\ Len(frames) = 1 /\ Top.kind = "fn" /\ ~ctxError
    /\ proc.void \/ proc.value \/ proc.found
    /\ EnsureMain(IF proc.void \/ proc.value THEN Terminated(tail, insert) ELSE tail)
    /\ Pop
    /\ UNCHANGED <<edges, phi, procs, proc, codegenError, status, loops,
                   errors>>

\* emit_function_body returns false after a statement that left an error, a
\* value returned from a void procedure, a value of another kind than declared,
\* or a body that returns nothing.  EmitAST does not call set_error.
ProcFails ==
    /\ Len(frames) = 1 /\ Top.kind = "fn" /\ "procError" \in Features
    /\ ctxError' = TRUE
    /\ Pop
    /\ UNCHANGED <<module, insert, function, driver, loops, cfError>>

\* main_compiler.c after the last node: HasError, or the object is written,
\* which first appends ret to main at the insertion point.
Finish ==
    /\ AtTopLevel /\ (created > 0 \/ ctxError)
    /\ \/ codegenError /\ status' = "failed" /\ UNCHANGED tail
       \/ /\ ~codegenError /\ status' = "written"
          /\ tail' = IF mainCreated THEN Terminated(tail, insert) ELSE tail
    /\ UNCHANGED <<created, blockFn, edges, phi, insert, function, mainEntry,
                   mainCreated, codegenError, loops, errors, frames>>

-----------------------------------------------------------------------------
Init ==
    /\ created = 0 /\ insert = NoBlock /\ edges = {}
    /\ blockFn = [b \in Blocks |-> NoFunction]
    /\ tail = [b \in Blocks |-> "open"]
    /\ phi = [b \in Blocks |-> {}]
    /\ curFn = NoFunction /\ procs = 0
    /\ proc = [void |-> FALSE, found |-> FALSE, value |-> FALSE]
    /\ mainEntry = NoBlock /\ mainCreated = FALSE
    /\ codegenError = FALSE /\ ctxError = FALSE
    /\ loopEnd = [l \in 1 .. MaxLoopNesting |-> NoBlock]
    /\ loopCond = [l \in 1 .. MaxLoopNesting |-> NoBlock]
    /\ loopDepth = 0 /\ cfError = FALSE
    /\ frames = << >> /\ status = "emitting"

Next ==
    \/ \E appends, fails \in BOOLEAN : EmitExpression(appends, fails)
    \/ EmitTernary
    \/ \E kind \in {"if", "ifexpr"} : EmitIf(kind)
    \/ EmitElseIfExpression
    \/ IfCondition \/ IfBadCondition \/ IfThenDone \/ IfElseDone
    \/ LoopTooDeep \/ EmitWhile \/ EmitFor \/ ForPreDone
    \/ LoopCondition \/ LoopBadCondition
    \/ WhileBodyDone \/ ForBodyDone \/ ForIncDone
    \/ EmitBreak \/ EmitContinue \/ JumpOutsideLoop
    \/ EmitAfterError \/ EmitStatement \/ StatementDone
    \/ \E isVoid \in BOOLEAN, named \in {"main", "other"} : EmitProc(isVoid, named)
    \/ EmitProcUnsupported
    \/ \E outcome \in {"none", "null", "value"} : EmitReturn(outcome)
    \/ EmitImplicitReturn \/ ProcDone \/ ProcFails
    \/ Finish

Spec == Init /\ [][Next]_vars

-----------------------------------------------------------------------------
FrameType ==
    [kind : {"main", "fn", "if", "ifexpr"} \union LoopKinds,
     phase : {"pre", "cond", "body", "inc", "then", "else", "last"},
     head : 0 .. MaxBlocks, body : 0 .. MaxBlocks, next : 0 .. MaxBlocks,
     join : 0 .. MaxBlocks, level : 0 .. MaxLoopNesting]

ModuleType ==
    /\ created \in 0 .. MaxBlocks /\ blockFn \in [Blocks -> Functions]
    /\ tail \in [Blocks -> {"open", "closed", "broken"}]
    /\ edges \in SUBSET (Blocks \X Blocks) /\ phi \in [Blocks -> SUBSET Blocks]
    /\ insert \in 0 .. created /\ mainEntry \in 0 .. created

EmitterType ==
    /\ curFn \in Functions /\ procs \in 0 .. MaxProcs
    /\ proc \in [void : BOOLEAN, found : BOOLEAN, value : BOOLEAN]
    /\ mainCreated \in BOOLEAN /\ codegenError \in BOOLEAN
    /\ ctxError \in BOOLEAN /\ cfError \in BOOLEAN
    /\ status \in {"emitting", "failed", "written"}

LoopsType ==
    /\ loopEnd \in [1 .. MaxLoopNesting -> 0 .. MaxBlocks]
    /\ loopCond \in [1 .. MaxLoopNesting -> 0 .. MaxBlocks]
    /\ loopDepth \in 0 .. MaxLoopNesting

\* The types of the state: module, emitters, loop targets and the recursion.
TypeOK == ModuleType /\ EmitterType /\ LoopsType /\ frames \in Seq(FrameType)

LoopFrames == {i \in DOMAIN frames : frames[i].kind \in LoopKinds}

\* The arrays of break and continue targets always describe exactly the loops
\* being emitted, outermost first, whatever errors their conditions had: a
\* break or continue goes to the innermost loop around it, and after the last
\* statement of a program or procedure no loop is left over.
LoopStackMatchesFrames ==
    /\ \A i \in LoopFrames :
          /\ frames[i].level \in 1 .. loopDepth
          /\ loopEnd[frames[i].level] = frames[i].join
          /\ loopCond[frames[i].level] = frames[i].next
    /\ \A i, j \in LoopFrames : i < j => frames[i].level < frames[j].level
    /\ \A l \in 1 .. loopDepth : \E i \in LoopFrames : frames[i].level = l

\* While a statement or a body is emitted, the builder stands in a block of
\* the function the emitters believe they are in.  They are told apart: the
\* builder is moved by ensure_main_function and by every construct, the current
\* function only by the function emitter.
InsertPointInCurrentFunction ==
    frames # << >> => insert # NoBlock /\ blockFn[insert] = curFn

\* No branch leaves its function, also when conditions are bad, jumps follow
\* jumps, or procedures follow top-level control flow.
BranchesStayInFunction ==
    \A e \in edges : blockFn[e[1]] = blockFn[e[2]] /\ blockFn[e[1]] # NoFunction

(* The strengthening of the two invariants above, and of BranchesStayIn-   *)
(* Function, that is inductive.                                            *)

OwnBlocks == {b \in 1 .. created : blockFn[b] = curFn}

\* Blocks are created in order, each in a function, and main's entry is its own.
ModuleShape ==
    /\ \A b \in Blocks : blockFn[b] = NoFunction <=> b > created
    /\ mainEntry # NoBlock => blockFn[mainEntry] = Main /\ insert # NoBlock
    /\ \A e \in edges : e[1] <= created /\ e[2] <= created

\* The frame of a node of the program is the outermost, and the blocks a
\* construct will still branch to exist, in the current function.
FrameShape(f, i) ==
    /\ f.kind \in {"main", "fn"} <=> i = 1
    /\ f.kind \in {"main", "fn"} => f.phase \in {"body", "last"}
    /\ f.kind \in {"if", "ifexpr"} =>
         /\ f.phase \in {"cond", "then", "else"}
         /\ f.phase # "cond" => {f.body, f.next, f.join} \subseteq OwnBlocks
         /\ f.phase = "else" => f.head \in OwnBlocks
    /\ f.kind \in LoopKinds =>
         /\ f.phase \in {"pre", "cond", "body", "inc"}
         /\ {f.head, f.body, f.next, f.join} \subseteq OwnBlocks

FramesShape == \A i \in DOMAIN frames : FrameShape(frames[i], i)

\* The builder stands in the current function, also between two nodes of the
\* program, unless the context has an error there.
Position ==
    /\ frames # << >> => insert # NoBlock
    /\ (frames # << >> \/ ~ctxError) /\ insert # NoBlock => insert \in OwnBlocks

IndInv ==
    /\ TypeOK /\ ModuleShape /\ FramesShape /\ Position
    /\ LoopStackMatchesFrames /\ BranchesStayInFunction

\* The phi of an if expression or a ternary has one incoming value for each
\* predecessor of its block, however many blocks the two paths created.
PhiMatchesPredecessors ==
    \A b \in 1 .. created :
        phi[b] # {} => phi[b] = {e[1] : e \in {e \in edges : e[2] = b}}

\* A written module has no block without a terminator and none with anything
\* after its terminator.  (It needs a program without break and continue, bad
\* conditions, returns without a value, procedures that fail, follow top-level
\* control flow or are named main: each of them breaks it.)
EveryBlockTerminatedOnce ==
    status = "written" => \A b \in 1 .. created : tail[b] = "closed"

(* An error the context has recorded keeps the module from being written,
   unless the last node of the program recorded it, a procedure that failed:
   for the others EmitAST looks at the context, at their end or when the next
   node comes (codegen.cpp:426, :486), for a failed procedure only then.  A
   failed procedure leaves its own function current, or is named main and then
   main was not created for a statement.  This is not all the errors
   of docs/LLVM.md: those of lines 636 to 672 that the control-flow emitter
   finds, a condition that is not boolean, a jump outside a loop, too many
   loops, go to cfError, which no action reads, so that the module is written
   after every one of them. *)
ContextErrorsReported ==
    status = "written" /\ ctxError => curFn # Main \/ ~mainCreated
=============================================================================
