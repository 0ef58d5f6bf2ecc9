---------------------------- MODULE Expressions ----------------------------
(***************************************************************************)
(* From the syntax tree of a straight-line program to what the executable  *)
(* does: the tree is optimized (AstOptimizer), each statement is emitted   *)
(* (ExpressionEmitter), and the instructions run (EmittedCode).  The       *)
(* compiler does not verify what it emitted; the step that does stands for *)
(* LLVM, which gives no meaning to ill-typed instructions.                 *)
(***************************************************************************)
EXTENDS Meaning, AstOptimizer

CONSTANTS
    Families,    \* the programs, sequences of statements, in families
    Tails,       \* what may lie in memory after the characters of a string
    OptLevel     \* the -O level of the compilation

VARIABLES
    program,     \* the source
    nodes,       \* the syntax tree, once optimized
    next,        \* the statement to emit
    emitter,     \* the expression emitter, its code and its table of variables
    machine,     \* the executable
    phase        \* "optimize", "emit", "verify", "run"; at the end "done", "failed" (an error
                 \* was reported), "rejected" (ill-typed), "undefined" (freed memory was read)
                 \* or "branches" (left to the control-flow emitter)

vars == <<program, nodes, next, emitter, machine, phase>>

RECURSIVE Subtrees(_)
Subtrees(n) == {n} \union UNION {Subtrees(n.c[i]) : i \in DOMAIN n.c}
NodesOf(p) == UNION {Subtrees(p[i]) : i \in DOMAIN p}

\* Whether the scan of some format steps over its terminator.
ReadsPastEnd(p) == \E n \in NodesOf(p) : IsText(n) /\ Count(n.s, 1, << >>).past

Init ==
    /\ \E family \in Families : program \in family
    /\ \E tail \in IF ReadsPastEnd(program) THEN Tails ELSE {<< >>} :
           emitter = [code |-> << >>, vars |-> << >>, err |-> FALSE, memory |-> tail]
    /\ nodes = program /\ next = 1 /\ machine = Machine /\ phase = "optimize"

Run ==
    /\ phase = "optimize"
    /\ nodes' = Optimize(OptLevel, program)
    /\ phase' = "emit"
    /\ UNCHANGED <<program, next, emitter, machine>>

\* One top-level statement; after an error the rest are passed over.
EmitStatement ==
    /\ phase = "emit" /\ next <= Len(nodes)
    /\ nodes[next].k \notin {"Freed", "If"}
    /\ emitter' = Emit(nodes[next], emitter).e
    /\ next' = next + 1
    /\ phase' = IF emitter'.err THEN "failed" ELSE IF next = Len(nodes) THEN "verify" ELSE "emit"
    /\ UNCHANGED <<program, nodes, machine>>

\* A node that is no longer there, or one that belongs to Codegen.
LeaveStatement ==
    /\ phase = "emit" /\ next <= Len(nodes)
    /\ nodes[next].k \in {"Freed", "If"}
    /\ phase' = IF nodes[next].k = "Freed" THEN "undefined" ELSE "branches"
    /\ UNCHANGED <<program, nodes, next, emitter, machine>>

\* The parameter types of the functions the emitter declares; printf takes any after the first.
Parameters(i) ==
    CASE i.f = "xvr_string_concat" -> <<"ptr", "ptr">>
      [] i.f = "xvr_array_create_int" -> << >>
      [] i.f = "xvr_array_insert_int" -> <<"ptr", "i32">>
      [] i.f = "xvr_array_len" -> <<"ptr">>
      [] i.f = "xvr_str_len" -> <<"i8">>
      [] i.f = "xvr_array_get_int" -> <<"ptr", "i32">>
      [] i.f = "xvr_array_set_int" -> <<"ptr", "i32", "i32">>
      [] i.f \in DOMAIN Procedures -> Procedures[i.f].params
      [] OTHER -> [k \in DOMAIN i.a |-> i.ty]

Valued(t) == t \in IntegerLLVM \union RealLLVM \union {"ptr", "array"}

\* LLVM's rules for the operands of an instruction.
WellTyped(i) ==
    LET ts == [k \in DOMAIN i.a |-> i.a[k].t]
        alike == \A k \in DOMAIN ts : ts[k] = ts[1]
    IN  CASE i.op = "alloca" -> Valued(i.ty)
          [] i.op = "load" -> ts = <<"ptr">> /\ Valued(i.ty)
          [] i.op = "store" -> Valued(ts[1]) /\ ts[2] = "ptr"
          [] i.op \in {"add", "sub", "mul", "sdiv", "srem", "and", "or"} -> alike /\ i.ty = ts[1] /\ ts[1] \in IntegerLLVM
          [] i.op \in {"fadd", "fsub", "fmul", "fdiv", "frem"} -> alike /\ i.ty = ts[1] /\ ts[1] \in RealLLVM
          [] i.op = "icmp" -> alike /\ ts[1] \in IntegerLLVM \union {"ptr"}
          [] i.op = "fcmp" -> alike /\ ts[1] \in RealLLVM
          [] i.op = "select" -> ts[1] = "i1" /\ ts[2] = ts[3] /\ Valued(ts[2])
          [] i.op = "constarray" -> alike /\ \A k \in DOMAIN i.a : i.a[k].r = 0
          [] i.op = "gep" -> i.ty = "ptr" /\ ts[1] = "ptr" /\ ts[2] \in IntegerLLVM
          [] i.op = "call" /\ i.f = "printf" -> ts[1] = "ptr" /\ \A k \in DOMAIN ts : Valued(ts[k])
          [] i.op = "call" -> ts = Parameters(i) /\ i.ty # "null"
          [] OTHER -> ts[1] \in IntegerLLVM \union RealLLVM

Verify ==
    /\ phase = "verify"
    /\ phase' = IF ~ \A k \in DOMAIN emitter.code : WellTyped(emitter.code[k]) THEN "rejected"
                ELSE IF emitter.code = << >> THEN "done" ELSE "run"
    /\ UNCHANGED <<program, nodes, next, emitter, machine>>

Execute ==
    /\ phase = "run"
    /\ machine' = Step(machine, emitter.code[Len(machine.regs) + 1])
    /\ phase' = IF machine'.stop # "no" \/ Len(machine'.regs) = Len(emitter.code) THEN "done" ELSE "run"
    /\ UNCHANGED <<program, nodes, next, emitter>>

Next == Run \/ EmitStatement \/ LeaveStatement \/ Verify \/ Execute

Spec == Init /\ [][Next]_vars

-----------------------------------------------------------------------------
(* The properties.                                                         *)

Proper == "bad" \notin ToSet(Typing(program).ts)

(* Programs of the language whose code LLVM would not accept, or that the
   emitter refuses: negated, compared or updated reals, which are taken for
   integers; operands of two types; an element updated through an address of
   no type; an array literal of computed elements; len of a string, whose
   function takes a byte; more arguments of max than its table holds; an
   integer given to a function on reals, which docs/math_module.md:186 casts. *)
NotCompiled ==
    {"real negated", "reals compared", "mixed types", "real updated", "element updated",
     "computed element", "len of string", "max of nine", "integer to real"}

(* Programs whose executable does something else: unsigned values divided,
   extended or converted as signed; ! that changes nothing; a variable read in
   its declared type and written in its initialiser's; a copy of an array that
   is none; an array's address printed for its elements; operands and branches
   evaluated although they are not taken; a boolean cast to one; half floats
   kept as bits; braces and percent signs of a format; an array that is neither
   a variable nor a literal, indexed to nothing; len of an array as its
   declaration counted it. *)
Miscompiled ==
    {"unsigned", "inverted", "declared otherwise", "array copied", "array printed", "effect skipped",
     "bool cast to bool", "half", "format", "computed array indexed"}

(* Programs that compute what they mean but do not show it: every integer goes
   to %d as it is, so a boolean is a number and not text (against
   docs/print_handler.md:40), of 64 bits only those of an int are read, and a
   negative one of 8 or 16 bits has lost its sign; an index outside of an array
   literal is not checked. *)
Misshown == {"boolean printed", "wide printed", "narrow negative printed", "unchecked index"}
Deviates(tags) == tags \intersect Miscompiled # {} \/ {"insert", "counted", "len"} \subseteq tags

\* Every other program of the language compiles, without an error, to well-typed instructions.
ProperProgramsCompile ==
    phase \in {"failed", "rejected"} /\ Proper =>
      Typing(program).tags \intersect (NotCompiled \union Miscompiled) # {}

\* The executable prints what the documentation says the program prints, and stops as it should.
RunMeansProgram ==
    phase = "done" /\ Proper /\ ~Deviates(Typing(program).tags)
      => LET meant == Meaning(program)
         IN  \/ meant.stop = "wild"
             \/ (Typing(program).tags \union meant.tags) \intersect Misshown # {}
             \/ machine.stop = meant.stop /\ machine.out = meant.out

\* Unless it leaves a node that was freed, the optimizer leaves a program with the same meaning.
OptimizedMeansProgram ==
    phase = "emit" /\ next = 1 /\ Proper /\ ~Deviates(Typing(program).tags) /\ Freed \notin ToSet(nodes) =>
      LET meant == Meaning(program)
          got == Meaning(nodes)
      IN  got.out = meant.out /\ got.stop = meant.stop

\* The classes of the arguments a printf format takes, and of a value by its type.
RECURSIVE Classes(_, _)
Classes(f, i) ==
    LET c == CharAt(f, i + 1)
    IN  CASE i > Len(f) -> << >>
          [] f[i] # "%" -> Classes(f, i + 1)
          [] c = "%" -> Classes(f, i + 2)
          [] c = "l" -> <<Takes(CharAt(f, i + 2), TRUE)>> \o Classes(f, i + 3)
          [] OTHER -> <<Takes(c, FALSE)>> \o Classes(f, i + 2)
StaticClass(t) == IF t = "ptr" THEN "str" ELSE NumberClass(t)

\* A conversion and the type of its argument; of 64 bits an int conversion reads a part.
Suits(class, t) == class = StaticClass(t) \/ (class = "int" /\ t = "i64")

(* printf is called with an argument for each conversion, of its class,
   whatever the program is, except that an integer of 64 bits is given to the
   %d of an int.  The formats with more than placeholders are left out
   (a doubled brace is a placeholder or reads past the string, a specifier
   takes the rest of the string with it, a percent sign is a conversion), and so
   is print with too few or too many arguments, or without a format. *)
PrintfArgumentsMatch ==
    phase = "verify" =>
      \/ Typing(program).tags \intersect {"format", "missing arguments", "no format"} # {}
      \/ \A k \in DOMAIN emitter.code :
            LET i == emitter.code[k]
                taken == Classes(i.a[1].s, 1)
            IN  i.op = "call" /\ i.f = "printf" =>
                  /\ Len(taken) = Len(i.a) - 1
                  /\ \A j \in DOMAIN taken : Suits(taken[j], i.a[j + 1].t)

\* Parsing a format reads past its end only if it ends in a doubled brace.
ScanEndsInString ==
    phase = "optimize" => \A n \in NodesOf(program) :
        IsText(n) /\ Count(n.s, 1, << >>).past => Len(n.s) > 1 /\ n.s[Len(n.s)] \in {"{", "}"} /\ n.s[Len(n.s) - 1] = n.s[Len(n.s)]

\* The runtime's arrays never hold more than they have room for.
ArraysWithinCapacity ==
    \A i \in DOMAIN machine.arrays : Len(machine.arrays[i].data) <= machine.arrays[i].capacity

\* README.md:232: no undefined behavior introduced by optimizations.
NoFreedNodeIsEmitted == phase # "undefined"
=============================================================================
