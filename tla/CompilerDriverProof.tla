------------------------- MODULE CompilerDriverProof -------------------------
(***************************************************************************)
(* Compilations that do not overlap do not disturb each other, however     *)
(* many there are and wherever they fail: each runs its own program.  In    *)
(* any overlap, the state keeps its types and the objects that are left     *)
(* behind are those of compilations that failed.                            *)
(***************************************************************************)
EXTENDS CompilerDriver, FiniteSetTheorems, TLAPS

Linking == {"link", "linking"}

(* While one compilation is running, the object it links is its own, and so *)
(* is the executable it then runs.                                          *)
OneAtATime == \A c, d \in Running : c = d

ObjectIsOwn == \A c \in Compilers : pc[c] \in Linking => files[TempObject] = c

ExecutableIsOwn == \A c \in Compilers : pc[c] = "run" => files[Out[c]] = c

Functions ==
    /\ pc \in [Compilers -> Steps]
    /\ DOMAIN files = Paths /\ files = [p \in Paths |-> files[p]]
    /\ DOMAIN ran = Compilers /\ ran = [c \in Compilers |-> ran[c]]

Isolated ==
    /\ Functions
    /\ OneAtATime
    /\ ObjectIsOwn
    /\ ExecutableIsOwn
    /\ RunsItsOwnProgram

(* A step that moves c alone, from a place where it was running, keeps      *)
(* compilations from overlapping; so does one that starts c when none was   *)
(* running.                                                                 *)
LEMMA MovesKeepOneAtATime ==
    ASSUME pc \in [Compilers -> Steps], OneAtATime,
           NEW c \in Compilers, NEW step \in Steps,
           Running \subseteq {c},
           pc' = [pc EXCEPT ![c] = step]
    PROVE  /\ pc' \in [Compilers -> Steps]
           /\ Running' \subseteq {c}
           /\ OneAtATime'
  <1>1. pc' \in [Compilers -> Steps]
    OBVIOUS
  <1>2. \A d \in Compilers : d # c => pc'[d] = pc[d]
    OBVIOUS
  <1>3. Running' \subseteq {c}
    BY <1>2 DEF Running
  <1> QED
    BY <1>1, <1>3 DEF OneAtATime

(* Nothing else is running when one starts: the bound is one.               *)
LEMMA StartsAlone ==
    ASSUME IsFiniteSet(Compilers), MaxRunning = 1,
           Cardinality(Running) < MaxRunning
    PROVE  Running = {}
  <1>1. IsFiniteSet(Running)
    BY FS_Subset DEF Running
  <1>2. Cardinality(Running) \in Nat
    BY <1>1, FS_CardinalityType
  <1>3. Cardinality(Running) = 0
    BY <1>2
  <1> QED
    BY <1>1, <1>3, FS_EmptySet

(* Every step is a step of one compilation c, the only one running by then, *)
(* that moves it or ends it.                                                *)
LEMMA StepsOfOne ==
    ASSUME IsFiniteSet(Compilers), MaxRunning = 1, Isolated,
           NEW c \in Compilers, Start(c) \/ Process(c)
    PROVE  /\ Running \subseteq {c}
           /\ \E step \in Steps : pc' = [pc EXCEPT ![c] = step]
  <1>1. CASE Start(c)
    <2>1. Running = {}
      BY <1>1, StartsAlone DEF Start
    <2>2. \E step \in Steps : pc' = [pc EXCEPT ![c] = step]
      BY <1>1 DEF Start, Goto, Exit, Steps
    <2> QED
      BY <2>1, <2>2
  <1>2. CASE Process(c)
    <2>1. c \in Running
      BY <1>2 DEF Process, Parse, CheckUnused, Emit, OpenOutput, FinishWrite,
                  ForkLinker, LinkerExits, RunProgram, Cleanup, Running
    <2>2. \E step \in Steps : pc' = [pc EXCEPT ![c] = step]
      BY <1>2 DEF Process, Parse, CheckUnused, Emit, OpenOutput, FinishWrite,
                  ForkLinker, LinkerExits, RunProgram, Cleanup, Goto, Exit, Steps
    <2> QED
      BY <2>1, <2>2 DEF Isolated, OneAtATime
  <1> QED
    BY <1>1, <1>2

(* The invariant is kept by each action of a compilation.                   *)
LEMMA StepsKeepIsolation ==
    ASSUME IsFiniteSet(Compilers), MaxRunning = 1, Isolated,
           NEW c \in Compilers, Start(c) \/ Process(c)
    PROVE  Isolated'
  <1>1. Running \subseteq {c}
    BY StepsOfOne
  <1>2. PICK step \in Steps : pc' = [pc EXCEPT ![c] = step]
    BY StepsOfOne
  <1>3. pc \in [Compilers -> Steps] /\ OneAtATime
    BY DEF Isolated, Functions
  <1>4. pc' \in [Compilers -> Steps] /\ Running' \subseteq {c} /\ OneAtATime'
    BY <1>1, <1>2, <1>3, MovesKeepOneAtATime
  <1>5. pc[c] \in Steps /\ pc'[c] = step
    BY <1>2, <1>3
  <1>6. \A d \in Compilers : pc'[d] \in Linking \union {"run"} => d = c
    BY <1>4 DEF Running, Linking
  <1>7. TempObject \in Paths /\ Out[c] \in Paths /\ Out[c] # TempObject
    BY DriverAssumption DEF Paths
  <1>8. /\ DOMAIN files' = Paths /\ files' = [p \in Paths |-> files'[p]]
        /\ DOMAIN ran' = Compilers /\ ran' = [d \in Compilers |-> ran'[d]]
        /\ pc'[c] \in Linking => files'[TempObject] = c
        /\ pc'[c] = "run" => files'[Out[c]] = c
        /\ ran' = ran \/ ran' = [ran EXCEPT ![c] = c]
    <2>0. /\ DOMAIN files = Paths /\ files = [p \in Paths |-> files[p]]
          /\ DOMAIN ran = Compilers /\ ran = [d \in Compilers |-> ran[d]]
          /\ pc[c] \in Linking => files[TempObject] = c
          /\ pc[c] = "run" => files[Out[c]] = c
      BY DEF Isolated, Functions, ObjectIsOwn, ExecutableIsOwn
    <2>1. CASE Start(c) \/ Parse(c) \/ CheckUnused(c) \/ Emit(c)
      BY <1>3, <1>5, <2>0, <2>1
         DEF Start, Parse, CheckUnused, Emit, Goto, Exit, Linking
    <2>2. CASE OpenOutput(c)
      BY <1>3, <1>5, <2>0, <2>2 DEF OpenOutput, Goto, Exit, WriteFile, Linking
    <2>3. CASE FinishWrite(c)
      BY <1>3, <1>5, <1>7, <2>0, <2>3
         DEF FinishWrite, Goto, Exit, WriteFile, ObjFile, Linking
    <2>4. CASE ForkLinker(c)
      BY <1>3, <1>5, <2>0, <2>4 DEF ForkLinker, Goto, Exit, Linking
    <2>5. CASE LinkerExits(c)
      BY <1>3, <1>5, <1>7, <2>0, <2>5
         DEF LinkerExits, Goto, Exit, WriteFile, Linking
    <2>6. CASE RunProgram(c)
      BY <1>3, <1>5, <2>0, <2>6 DEF RunProgram, Goto, Linking
    <2>7. CASE Cleanup(c)
      BY <1>3, <1>5, <2>0, <2>7 DEF Cleanup, Exit, WriteFile, Linking
    <2> QED
      BY <2>1, <2>2, <2>3, <2>4, <2>5, <2>6, <2>7 DEF Process
  <1>9. RunsItsOwnProgram'
    <2>1. \A d \in Compilers : ran[d] \in {d, Nothing}
      BY DEF Isolated, RunsItsOwnProgram
    <2>2. DOMAIN ran = Compilers
      BY DEF Isolated, Functions
    <2> QED
      BY <1>8, <2>1, <2>2 DEF RunsItsOwnProgram
  <1>10. Functions'
    BY <1>4, <1>8 DEF Functions
  <1>11. ObjectIsOwn' /\ ExecutableIsOwn'
    BY <1>6, <1>8 DEF ObjectIsOwn, ExecutableIsOwn, Linking
  <1> QED
    BY <1>4, <1>9, <1>10, <1>11 DEF Isolated

(* Compilations that follow one another: as many as one likes, linking or   *)
(* not, failing wherever a step can fail and leaving objects behind, never  *)
(* run a program other than their own (main_compiler.c, from writing the    *)
(* object to running the executable).                                       *)
THEOREM IsolationCorrect ==
    ASSUME IsFiniteSet(Compilers), MaxRunning = 1
    PROVE  Spec => []RunsItsOwnProgram
  <1>1. Init => Isolated
    BY DEF Init, Isolated, Functions, OneAtATime, ObjectIsOwn, ExecutableIsOwn,
           RunsItsOwnProgram, Running, Linking, Steps
  <1>2. Isolated /\ [Next]_vars => Isolated'
    <2> SUFFICES ASSUME Isolated, [Next]_vars PROVE Isolated'
      OBVIOUS
    <2>1. CASE Next
      BY <2>1, StepsKeepIsolation DEF Next
    <2>2. CASE UNCHANGED vars
      BY <2>2 DEF vars, Isolated, Functions, OneAtATime, ObjectIsOwn,
                  ExecutableIsOwn, RunsItsOwnProgram, Running
    <2> QED
      BY <2>1, <2>2
  <1>3. Isolated => RunsItsOwnProgram
    BY DEF Isolated
  <1> QED
    BY <1>1, <1>2, <1>3, PTL DEF Spec

(***************************************************************************)
(* Types and left-over objects: for compilations that overlap, too.        *)
(***************************************************************************)

(* An executable is run once the linker has written it; no other compilation *)
(* writes there.                                                            *)
ExecutableIsThere == \A c \in Compilers : pc[c] = "run" => files[Out[c]] \in Compilers

(* Programs run late.                                                       *)
NotRunYet ==
    \A c \in Compilers : pc[c] \notin {"cleanup", "exited"} => ran[c] = Nothing

Typed ==
    /\ TypeOK
    /\ status \in [Compilers -> Int]
    /\ ExecutableIsThere
    /\ NotRunYet

(* What every step of c does to the place and the status of compilations.   *)
LEMMA Moves ==
    ASSUME Typed, NEW c \in Compilers, Start(c) \/ Process(c)
    PROVE  \E step \in Steps :
              /\ pc[c] # "exited" /\ pc' = [pc EXCEPT ![c] = step]
              /\ step \in {"link", "linking", "run", "cleanup"} => Mode[c] = "run"
              /\ \/ step # "exited" /\ status' = status
                 \/ /\ step = "exited"
                    /\ \E code \in {0, 1, 255, Aborted} :
                          status' = [status EXCEPT ![c] = code]
  <1>1. pc[c] \in {"link", "linking", "run", "cleanup"} => Mode[c] = "run"
    BY DEF Typed, TypeOK
  <1>2. CASE Start(c) \/ Parse(c) \/ CheckUnused(c) \/ Emit(c)
    BY <1>2 DEF Start, Parse, CheckUnused, Emit, Goto, Exit, Steps
  <1>3. CASE OpenOutput(c) \/ FinishWrite(c)
    BY <1>3 DEF OpenOutput, FinishWrite, Goto, Exit, Steps
  <1>4. CASE ForkLinker(c) \/ LinkerExits(c) \/ RunProgram(c) \/ Cleanup(c)
    BY <1>1, <1>4 DEF ForkLinker, LinkerExits, RunProgram, Cleanup, Goto, Exit, Steps
  <1> QED
    BY <1>2, <1>3, <1>4 DEF Process

(* What it does to the files and to what was run.                           *)
LEMMA Effects ==
    ASSUME Typed, NEW c \in Compilers, Start(c) \/ Process(c)
    PROVE  /\ files' = files \/ \E path \in {TempObject, Out[c]},
                                   content \in Compilers \union {Absent, Partial} :
                                   WriteFile(path, content)
           /\ ran' = ran \/ /\ pc[c] = "run" /\ pc'[c] = "cleanup"
                            /\ ran' = [ran EXCEPT ![c] = files[Out[c]]]
           /\ pc'[c] = "run" => files'[Out[c]] \in Compilers
           /\ pc[c] \in {"cleanup", "exited"} => pc'[c] = "exited"
  <1>1. /\ pc \in [Compilers -> Steps] /\ DOMAIN files = Paths /\ Out[c] \in Paths
    BY DEF Typed, TypeOK, Paths
  <1>2. CASE Start(c) \/ Parse(c) \/ CheckUnused(c) \/ Emit(c)
    BY <1>1, <1>2 DEF Start, Parse, CheckUnused, Emit, Goto, Exit
  <1>3. CASE OpenOutput(c)
    BY <1>1, <1>3 DEF OpenOutput, Goto, Exit, ObjFile
  <1>4. CASE FinishWrite(c)
    BY <1>1, <1>4 DEF FinishWrite, Goto, Exit, ObjFile
  <1>5. CASE ForkLinker(c)
    BY <1>1, <1>5 DEF ForkLinker, Goto, Exit
  <1>6. CASE LinkerExits(c)
    BY <1>1, <1>6 DEF LinkerExits, Goto, Exit, WriteFile
  <1>7. CASE RunProgram(c) \/ Cleanup(c)
    BY <1>1, <1>7 DEF RunProgram, Cleanup, Goto, Exit
  <1> QED
    BY <1>2, <1>3, <1>4, <1>5, <1>6, <1>7 DEF Process

LEMMA StepsKeepTypes ==
    ASSUME Typed, NEW c \in Compilers, Start(c) \/ Process(c)
    PROVE  Typed'
  <1>0. /\ pc \in [Compilers -> Steps]
        /\ files \in [Paths -> Compilers \union {Absent, Partial}]
        /\ ran \in [Compilers -> Compilers \union {Nothing}]
        /\ status \in [Compilers -> Int]
    BY DEF Typed, TypeOK
  <1>1. PICK step \in Steps :
              /\ pc[c] # "exited" /\ pc' = [pc EXCEPT ![c] = step]
              /\ step \in {"link", "linking", "run", "cleanup"} => Mode[c] = "run"
              /\ \/ step # "exited" /\ status' = status
                 \/ /\ step = "exited"
                    /\ \E code \in {0, 1, 255, Aborted} :
                          status' = [status EXCEPT ![c] = code]
    BY Moves
  <1>2. /\ files' = files \/ \E path \in {TempObject, Out[c]},
                                content \in Compilers \union {Absent, Partial} :
                                files' = [files EXCEPT ![path] = content]
        /\ ran' = ran \/ /\ pc[c] = "run" /\ pc'[c] = "cleanup"
                         /\ ran' = [ran EXCEPT ![c] = files[Out[c]]]
        /\ pc'[c] = "run" => files'[Out[c]] \in Compilers
        /\ pc[c] \in {"cleanup", "exited"} => pc'[c] = "exited"
    BY Effects DEF WriteFile
  <1>3. pc' \in [Compilers -> Steps] /\ status' \in [Compilers -> Int]
    BY <1>0, <1>1 DEF Aborted
  <1>4. files' \in [Paths -> Compilers \union {Absent, Partial}]
    BY <1>0, <1>2
  <1>5. ran' \in [Compilers -> Compilers \union {Nothing}]
    <2>1. pc[c] = "run" => files[Out[c]] \in Compilers
      BY DEF Typed, ExecutableIsThere
    <2> QED
      BY <1>0, <1>2, <2>1
  <1>6. \A d \in Compilers :
           /\ status'[d] \in IF pc'[d] = "exited" THEN {0, 1, 255, Aborted} ELSE {NoStatus}
           /\ pc'[d] \in {"link", "linking", "run", "cleanup"} => Mode[d] = "run"
    <2>1. \A d \in Compilers :
             /\ status[d] \in IF pc[d] = "exited" THEN {0, 1, 255, Aborted} ELSE {NoStatus}
             /\ pc[d] \in {"link", "linking", "run", "cleanup"} => Mode[d] = "run"
      BY DEF Typed, TypeOK
    <2> QED
      BY <1>0, <1>1, <2>1
  <1>7. ExecutableIsThere'
    <2> SUFFICES ASSUME NEW d \in Compilers, pc'[d] = "run"
                 PROVE  files'[Out[d]] \in Compilers
      BY DEF ExecutableIsThere
    <2>1. CASE d = c
      BY <1>2, <2>1
    <2>2. CASE d # c
      <3>1. pc[d] = "run" /\ files[Out[d]] \in Compilers
        BY <1>0, <1>1, <2>2 DEF Typed, ExecutableIsThere
      <3>2. Out[d] # Out[c] /\ Out[d] # TempObject /\ Out[d] \in Paths
        BY <2>2, DriverAssumption DEF Paths
      <3> QED
        BY <1>0, <1>2, <3>1, <3>2
    <2> QED
      BY <2>1, <2>2
  <1>8. NotRunYet'
    BY <1>0, <1>1, <1>2 DEF Typed, NotRunYet
  <1> QED
    BY <1>3, <1>4, <1>5, <1>6, <1>7, <1>8 DEF Typed, TypeOK

LEMMA TypedInvariant == Spec => []Typed
  <1>1. Init => Typed
    BY DEF Init, Typed, TypeOK, ExecutableIsThere, NotRunYet, Steps, NoStatus
  <1>2. Typed /\ [Next]_vars => Typed'
    <2> SUFFICES ASSUME Typed, [Next]_vars PROVE Typed'
      OBVIOUS
    <2>1. CASE Next
      BY <2>1, StepsKeepTypes DEF Next
    <2>2. CASE UNCHANGED vars
      BY <2>2 DEF vars, Typed, TypeOK, ExecutableIsThere, NotRunYet
    <2> QED
      BY <2>1, <2>2
  <1> QED
    BY <1>1, <1>2, PTL DEF Spec

(* Whatever is at the shared path was put there by a compilation that has   *)
(* yet to remove it, or ended without running a program.                    *)
Failed(c) == pc[c] = "exited" /\ ran[c] = Nothing

LeftBy(c) ==
    /\ Mode[c] = "run"
    /\ \/ files[TempObject] = Partial /\ (pc[c] = "writing" \/ Failed(c))
       \/ /\ files[TempObject] = c
          /\ pc[c] \in {"link", "linking", "run", "cleanup"} \/ Failed(c)

ObjectIsAccountedFor ==
    files[TempObject] # Absent => \E c \in Compilers : LeftBy(c)

LEMMA StepsKeepAccount ==
    ASSUME Typed, ObjectIsAccountedFor,
           NEW c \in Compilers, Start(c) \/ Process(c)
    PROVE  ObjectIsAccountedFor'
  <1>0. /\ pc \in [Compilers -> Steps] /\ DOMAIN files = Paths
        /\ ran \in [Compilers -> Compilers \union {Nothing}]
        /\ TempObject \in Paths /\ Out[c] # TempObject
        /\ pc[c] \notin {"cleanup", "exited"} => ran[c] = Nothing
        /\ pc[c] \in {"link", "linking", "run", "cleanup"} => Mode[c] = "run"
    BY DriverAssumption DEF Typed, TypeOK, NotRunYet, Paths
  <1>1. \A d \in Compilers : d # c => pc'[d] = pc[d] /\ ran'[d] = ran[d]
    <2>1. \E step \in Steps : pc' = [pc EXCEPT ![c] = step]
      BY Moves
    <2>2. ran' = ran \/ ran' = [ran EXCEPT ![c] = files[Out[c]]]
      BY Effects
    <2> QED
      BY <1>0, <2>1, <2>2
  <1>2. CASE files'[TempObject] = files[TempObject] /\ \A d \in Compilers : LeftBy(d) => LeftBy(d)'
    BY <1>2 DEF ObjectIsAccountedFor
  <1>3. CASE files'[TempObject] = Absent
    BY <1>3 DEF ObjectIsAccountedFor
  <1>4. CASE LeftBy(c)'
    BY <1>4 DEF ObjectIsAccountedFor
  <1>5. \/ files'[TempObject] = files[TempObject] /\ (LeftBy(c) => LeftBy(c)')
        \/ files'[TempObject] = Absent
        \/ LeftBy(c)'
    <2>1. CASE Start(c) \/ Parse(c) \/ CheckUnused(c) \/ Emit(c)
      BY <1>0, <2>1
         DEF Start, Parse, CheckUnused, Emit, Goto, Exit, LeftBy, Failed
    <2>2. CASE OpenOutput(c)
      BY <1>0, <2>2 DEF OpenOutput, Goto, Exit, WriteFile, ObjFile, LeftBy, Failed
    <2>3. CASE FinishWrite(c)
      BY <1>0, <2>3 DEF FinishWrite, Goto, Exit, WriteFile, ObjFile, LeftBy, Failed
    <2>4. CASE ForkLinker(c)
      BY <1>0, <2>4 DEF ForkLinker, Goto, Exit, LeftBy, Failed
    <2>5. CASE LinkerExits(c)
      BY <1>0, <2>5 DEF LinkerExits, Goto, Exit, WriteFile, LeftBy, Failed
    <2>6. CASE RunProgram(c)
      BY <1>0, <2>6 DEF RunProgram, Goto, LeftBy, Failed
    <2>7. CASE Cleanup(c)
      BY <1>0, <2>7 DEF Cleanup, Exit, WriteFile
    <2> QED
      BY <2>1, <2>2, <2>3, <2>4, <2>5, <2>6, <2>7 DEF Process
  <1>6. \A d \in Compilers : d # c /\ files'[TempObject] = files[TempObject] /\ LeftBy(d)
                               => LeftBy(d)'
    BY <1>1 DEF LeftBy, Failed
  <1> QED
    BY <1>2, <1>3, <1>4, <1>5, <1>6

(* pc, status, files and ran keep their types; a status is there exactly at *)
(* the end of main, and only xvr without -o or a listing reaches the linker. *)
THEOREM TypeCorrect == Spec => []TypeOK
  <1>1. Typed => TypeOK
    BY DEF Typed
  <1> QED
    BY <1>1, TypedInvariant, PTL

(* However compilations overlap and wherever they fail, an object that is   *)
(* left at /tmp/xvr_compile.o when none is running belongs to one that ran  *)
(* no program: every compilation that ran one removed the object.           *)
THEOREM ObjectsAreRemoved == Spec => []ObjectOnlyAfterFailure
  <1>1. Init => ObjectIsAccountedFor
    BY DEF Init, ObjectIsAccountedFor, Paths
  <1>2. Typed /\ ObjectIsAccountedFor /\ [Next]_vars => ObjectIsAccountedFor'
    <2> SUFFICES ASSUME Typed, ObjectIsAccountedFor, [Next]_vars
                 PROVE  ObjectIsAccountedFor'
      OBVIOUS
    <2>1. CASE Next
      BY <2>1, StepsKeepAccount DEF Next
    <2>2. CASE UNCHANGED vars
      BY <2>2 DEF vars, ObjectIsAccountedFor, LeftBy, Failed
    <2> QED
      BY <2>1, <2>2
  <1>3. Typed /\ ObjectIsAccountedFor => ObjectOnlyAfterFailure
    <2> SUFFICES ASSUME Typed, ObjectIsAccountedFor, Running = {},
                        files[TempObject] # Absent
                 PROVE  \E c \in Compilers : /\ Mode[c] = "run" /\ pc[c] = "exited"
                                             /\ ran[c] = Nothing
                                             /\ files[TempObject] \in {c, Partial}
      BY DEF ObjectOnlyAfterFailure
    <2>1. PICK c \in Compilers : LeftBy(c)
      BY DEF ObjectIsAccountedFor
    <2>2. pc[c] \in {"idle", "exited"}
      BY DEF Running
    <2> QED
      BY <2>1, <2>2 DEF LeftBy, Failed
  <1> QED
    BY <1>1, <1>2, <1>3, TypedInvariant, PTL DEF Spec
=============================================================================
