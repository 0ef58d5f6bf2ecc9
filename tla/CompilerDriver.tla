---------------------------- MODULE CompilerDriver ----------------------------
(***************************************************************************)
(* The command xvr (main_compiler.c): one process per compilation that     *)
(* parses, checks, emits, writes a file and, unless it was asked for a     *)
(* file only, links it, runs the program and removes the object.           *)
(*                                                                         *)
(* Compilations run next to each other and after each other on one file    *)
(* system; every one that links goes through the same path, TempObject.    *)
(* A file that is being written is Partial.  Lexing to emitting, modelled  *)
(* in other modules, is here only its outcome.                             *)
(***************************************************************************)
EXTENDS Integers, FiniteSets

CONSTANTS
    Compilers,    \* the compilations
    Mode,         \* what each was asked for, a function to Modes
    Out,          \* its outFile, a function to paths
    Inline,       \* those whose source is an argument (-i)
    TempObject,   \* the path /tmp/xvr_compile.o
    Absent, Partial,   \* contents of a path: no file, a file being written
    Nothing,      \* no program
    MaxRunning    \* compilations started while others are running

Modes == {"run", "object", "ir", "print"}
Paths == {TempObject} \union {Out[c] : c \in Compilers}

ASSUME DriverAssumption ==
    /\ Mode \in [Compilers -> Modes]
    /\ \A c \in Compilers : Out[c] # TempObject
    /\ \A c, d \in Compilers : Out[c] = Out[d] => c = d
    /\ Inline \subseteq Compilers
    /\ MaxRunning \in Nat \ {0}

VARIABLES
    pc,       \* where main stands
    status,   \* its exit status
    files,    \* the contents of the paths: Absent, Partial, or whose file
    ran       \* the program each compilation ran

vars == <<pc, status, files, ran>>

Steps == {"idle", "parse", "check", "emit", "write", "writing",
          "link", "linking", "run", "cleanup", "exited"}
NoStatus == -1
Aborted == 134    \* 128 + SIGABRT

Running == {c \in Compilers : pc[c] \notin {"idle", "exited"}}

\* objFile: the temporary object, or the output file itself.
ObjFile(c) == IF Mode[c] = "run" THEN TempObject ELSE Out[c]

Goto(c, step) == pc' = [pc EXCEPT ![c] = step] /\ UNCHANGED status
Exit(c, code) == /\ pc' = [pc EXCEPT ![c] = "exited"]
                 /\ status' = [status EXCEPT ![c] = code]
WriteFile(path, content) == files' = [files EXCEPT ![path] = content]

-----------------------------------------------------------------------------
Init ==
    /\ pc = [c \in Compilers |-> "idle"]
    /\ status = [c \in Compilers |-> NoStatus]
    /\ files = [p \in Paths |-> Absent]
    /\ ran = [c \in Compilers |-> Nothing]

\* A source file may be missing or have another extension (exit -1, seen as 255).
Start(c) ==
    /\ pc[c] = "idle" /\ Cardinality(Running) < MaxRunning
    /\ \/ Goto(c, "parse")
       \/ c \notin Inline /\ \E code \in {1, 255} : Exit(c, code)
    /\ UNCHANGED <<files, ran>>

\* A syntax error, or a program without a node, frees the source: of an inline
\* one, an argument, which is undefined.
Parse(c) ==
    /\ pc[c] = "parse"
    /\ \/ Goto(c, "check")
       \/ Exit(c, 1)
       \/ c \in Inline /\ Exit(c, Aborted)
    /\ UNCHANGED <<files, ran>>

\* The unused declarations; then the generator's errors.
CheckUnused(c) ==
    /\ pc[c] = "check"
    /\ Goto(c, "emit") \/ Exit(c, 1)
    /\ UNCHANGED <<files, ran>>

Emit(c) ==
    /\ pc[c] = "emit"
    /\ Goto(c, "write") \/ Exit(c, 1)
    /\ UNCHANGED <<files, ran>>

\* A file that cannot be created is noticed by nobody.
OpenOutputMutant(c) ==
    /\ pc[c] = "write"
    /\ \/ Mode[c] = "print" /\ Exit(c, 0) /\ UNCHANGED files
       \/ Mode[c] # "print" /\ UNCHANGED files
          /\ IF Mode[c] = "run" THEN Goto(c, "link") ELSE Exit(c, 0)
       \/ Mode[c] # "print" /\ Goto(c, "writing") /\ WriteFile(ObjFile(c), Partial)
    /\ UNCHANGED ran

\* The file is created or truncated; a failure to do so is exit 1.
OpenOutput(c) ==
    /\ pc[c] = "write"
    /\ \/ Mode[c] = "print" /\ Exit(c, 0) /\ UNCHANGED files
       \/ Mode[c] # "print" /\ Exit(c, 1) /\ UNCHANGED files
       \/ Mode[c] # "print" /\ Goto(c, "writing") /\ WriteFile(ObjFile(c), Partial)
    /\ UNCHANGED ran

\* shouldRun is not asked.
FinishWriteMutant(c) ==
    /\ pc[c] = "writing"
    /\ \/ WriteFile(ObjFile(c), c) /\ Goto(c, "link")
       \/ Mode[c] # "ir" /\ Exit(c, 1) /\ UNCHANGED files
    /\ UNCHANGED ran

FinishWrite(c) ==
    /\ pc[c] = "writing"
    /\ \/ /\ WriteFile(ObjFile(c), c)
          /\ IF Mode[c] = "run" THEN Goto(c, "link") ELSE Exit(c, 0)
       \/ Mode[c] # "ir" /\ Exit(c, 1) /\ UNCHANGED files   \* LLVM refuses
    /\ UNCHANGED ran

\* If fork fails nothing is said.
ForkLinker(c) ==
    /\ pc[c] = "link"
    /\ Goto(c, "linking") \/ Exit(c, 0)
    /\ UNCHANGED <<files, ran>>

\* A linker that fails is asked again.
LinkerExitsMutant(c) ==
    /\ pc[c] = "linking"
    /\ \/ /\ files[TempObject] \in Compilers
          /\ WriteFile(Out[c], files[TempObject])
          /\ Goto(c, "run")
       \/ Goto(c, "link") /\ UNCHANGED files
    /\ UNCHANGED ran

\* gcc reads whatever the path holds by then.  When it fails, or is killed,
\* main goes on to return 0, and the object stays.
LinkerExits(c) ==
    /\ pc[c] = "linking"
    /\ \/ /\ files[TempObject] \in Compilers
          /\ WriteFile(Out[c], files[TempObject])
          /\ Goto(c, "run")
       \/ Exit(c, 0) /\ UNCHANGED files
    /\ UNCHANGED ran

\* The executable is run by its path; fork or execve may fail.
RunProgram(c) ==
    /\ pc[c] = "run" /\ Goto(c, "cleanup")
    /\ ran' = ran \/ ran' = [ran EXCEPT ![c] = files[Out[c]]]
    /\ UNCHANGED files

\* The object is left for the next compilation to overwrite.
CleanupMutant(c) ==
    /\ pc[c] = "cleanup" /\ Exit(c, 0)
    /\ UNCHANGED <<files, ran>>

Cleanup(c) ==
    /\ pc[c] = "cleanup" /\ Exit(c, 0)
    /\ WriteFile(TempObject, Absent)
    /\ UNCHANGED ran

\* main of one compilation, its linker and its program.
Process(c) ==
    \/ Parse(c) \/ CheckUnused(c) \/ Emit(c) \/ OpenOutput(c) \/ FinishWrite(c)
    \/ ForkLinker(c) \/ LinkerExits(c) \/ RunProgram(c) \/ Cleanup(c)

Next == \E c \in Compilers : Start(c) \/ Process(c)

\* A process that can go on does, the linker and the program included: they are
\* waited for without a limit, so a program that ends is assumed.
Fairness == \A c \in Compilers : WF_vars(Process(c))

Spec == Init /\ [][Next]_vars /\ Fairness

-----------------------------------------------------------------------------
(* The properties.  In their comments, a compilation is one that runs its  *)
(* program unless it says otherwise.                                       *)

\* The state keeps its types, an exit status is there exactly at the end, and
\* only a compilation that was asked for a program gets to the linker.
TypeOK ==
    /\ pc \in [Compilers -> Steps]
    /\ files \in [Paths -> Compilers \union {Absent, Partial}]
    /\ ran \in [Compilers -> Compilers \union {Nothing}]
    /\ \A c \in Compilers :
          /\ status[c] \in IF pc[c] = "exited" THEN {0, 1, 255, Aborted} ELSE {NoStatus}
          /\ pc[c] \in {"link", "linking", "run", "cleanup"} => Mode[c] = "run"

\* A compilation runs the program of its own source, whatever objects of other
\* compilations, failed ones included, have been at the path they share.
RunsItsOwnProgram == \A c \in Compilers : ran[c] \in {c, Nothing}

\* Once nothing is being compiled an object that is left over at the shared path
\* belongs to a compilation that ran no program.
ObjectOnlyAfterFailure ==
    Running = {} /\ files[TempObject] # Absent =>
        \E c \in Compilers : /\ Mode[c] = "run" /\ pc[c] = "exited"
                             /\ ran[c] = Nothing
                             /\ files[TempObject] \in {c, Partial}

\* Every compilation that starts ends: no failure of a step, of the linker or of
\* the program makes main wait or repeat for ever.
EveryCompilationEnds ==
    \A c \in Compilers : (pc[c] # "idle") ~> (pc[c] = "exited")
=============================================================================
