------------------------- MODULE ExpressionEmitter -------------------------
(***************************************************************************)
(* The expression emitter (adapters/llvm/xvr_llvm_expression_emitter.cpp). *)
(*                                                                         *)
(* A node of the syntax tree has a kind k, an opcode or name o, a literal  *)
(* type y, a number v, characters s and children c.  An emitter state e    *)
(* has the instructions appended so far (code), the variables in scope     *)
(* (vars) and the error flag of the context (err).  Every emit operator    *)
(* returns the new state e and the value x, NoValue for NULL.  A value is  *)
(* the result of instruction r, or a constant (r = 0) with number n and    *)
(* characters s; all values have their LLVM type t.  Statements that       *)
(* branch, and the blocks of a ternary, are those of Codegen.              *)
(***************************************************************************)
EXTENDS ValueTypes, FormatString, SequencesExt

CONSTANT Procedures    \* the functions of the module: name -> [params, ret]

Tree(kind, o, type, kids) == [k |-> kind, o |-> o, y |-> type, v |-> 0, s |-> << >>, c |-> kids]

Constant(type, n) == [t |-> type, n |-> n, s |-> << >>, r |-> 0]
Text(chars) == [t |-> "ptr", n |-> 1, s |-> chars, r |-> 0]
NoValue == Constant("none", 0)
Zero == Constant("i32", 0)
OrZero(x) == IF x = NoValue THEN Zero ELSE x

Return(e, x) == [e |-> e, x |-> x]
Nothing(e) == Return(e, NoValue)

\* Xvr_LLVMContextSetError
Fail(e) == Nothing([e EXCEPT !.err = TRUE])

\* Appends an instruction with operands a and detail f (function, predicate or variable).
Do(e, op, type, a, f) ==
    Return([e EXCEPT !.code = Append(@, [op |-> op, ty |-> type, a |-> a, f |-> f])],
           [t |-> type, n |-> 0, s |-> << >>, r |-> Len(e.code) + 1])

Call(e, f, type, a) == Do(e, "call", type, a, f)

\* lookup_var, lookup_var_with_type: the last declaration of the name, or none.
Found(e, name) == \E i \in DOMAIN e.vars : e.vars[i].name = name
Var(e, name) == e.vars[CHOOSE i \in DOMAIN e.vars :
                          /\ e.vars[i].name = name
                          /\ \A j \in DOMAIN e.vars : e.vars[j].name = name => j <= i]
IsArrayVar(e, name) == Found(e, name) /\ Var(e, name).lit = "ARRAY"

IsName(n) == n.k = "Name"
IsText(n) == n.k = "Literal" /\ n.y = "STRING"

\* Xvr_LLVMExpressionEmitterEmitIdentifier: the type to load is the declared one, not the allocated one.
EmitIdentifier(name, e) ==
    LET var == Var(e, name)
        type == IF var.lit \in {"ANY", "ARRAY"} THEN var.ty ELSE GetType(var.lit)
    IN  IF ~Found(e, name) THEN Nothing(e) ELSE Do(e, "load", type, <<var.p>>, name)

\* emit_literal_value
EmitLiteral(n, e) ==
    CASE IsName(n) -> EmitIdentifier(n.o, e)
      [] IsText(n) -> Return(e, Text(n.s))
      [] OTHER -> Return(e, Constant(GetType(n.y), n.v))

LoadArray(e, name) == Do(e, "load", "ptr", <<Var(e, name).p>>, name)

IsReal(x) == x.t \in RealLLVM
IntegerOps == [ADDITION |-> "add", SUBTRACTION |-> "sub", MULTIPLICATION |-> "mul",
               DIVISION |-> "sdiv", MODULO |-> "srem"]
RealOps == [ADDITION |-> "fadd", SUBTRACTION |-> "fsub", MULTIPLICATION |-> "fmul",
            DIVISION |-> "fdiv", MODULO |-> "frem"]
Logical == [AND |-> "and", OR |-> "or"]
Comparisons == {"LESS", "LESS_EQUAL", "GREATER", "GREATER_EQUAL", "EQUAL", "NOT_EQUAL"}

\* emit_string_concat: a literal is a global, never the array its two constant cases ask for.
EmitStringConcat(e, x, y) == Call(e, "xvr_string_concat", "ptr", <<x, y>>)

\* emit_binary_op: comparisons compare integers whatever the operands are.
EmitBinaryOp(e, op, x, y) ==
    CASE op \in DOMAIN RealOps /\ (IsReal(x) \/ IsReal(y)) -> Do(e, RealOps[op], x.t, <<x, y>>, "")
      [] op = "ADDITION" /\ x.t = "ptr" /\ y.t = "ptr" -> EmitStringConcat(e, x, y)
      [] op \in DOMAIN IntegerOps -> Do(e, IntegerOps[op], x.t, <<x, y>>, "")
      [] op \in DOMAIN Logical -> Do(e, Logical[op], x.t, <<x, y>>, "")
      [] op \in Comparisons -> Do(e, "icmp", "i1", <<x, y>>, op)
      [] OTHER -> Nothing(e)

\* emit_unary_op: negation starts from an i32 zero, inversion compares with an i1 zero.
EmitUnaryOp(e, op, x) ==
    CASE op = "INVERT" -> Do(e, "icmp", "i1", <<x, Constant("i1", 0)>>, "NOT_EQUAL")
      [] op = "NEGATE" -> Do(e, "sub", "i32", <<Zero, x>>, "")
      [] OTHER -> Nothing(e)

\* XVR_AST_NODE_CAST: an invalid cast has a message but no error.
EmitCastOf(e, x, to) ==
    LET cast == EmitCast(SourceLiteral(x.t), to)
    IN  CASE x = NoValue \/ cast.op = "invalid" -> Nothing(e)
          [] cast.op = "none" -> Return(e, x)
          [] OTHER -> Do(e, cast.op, cast.ty, <<x>>, "")

\* The greater of two: the kind of the first argument of std::max decides for all.
Greater(e, kind, x, y) ==
    LET cond == Do(e, IF kind \in IntegerLLVM THEN "icmp" ELSE "fcmp", "i1", <<x, y>>, "GREATER")
    IN  Do(cond.e, "select", x.t, <<cond.x, x, y>>, "")

\* abs of an integer, only of 32 or 64 bits.
EmitIntegerAbs(e, x) ==
    LET neg == Do(e, "icmp", "i1", <<x, Constant(x.t, 0)>>, "LESS")
        minus == Do(neg.e, "sub", x.t, <<Constant(x.t, 0), x>>, "")
    IN  Do(minus.e, "select", x.t, <<neg.x, minus.x, x>>, "")

\* The functions of math:: by the code they share: an intrinsic or a C function per real type.
Roots == {"sqrt"}
Circular == {"sin", "cos"}
Rounding == {"floor", "ceil", "round"}
Exponentials == {"log", "exp"}
Tangents == {"tan", "atan"}
Arcs == {"asin", "acos"}
Logarithms == {"log10", "log2"}
Hyperbolic == {"sinh", "cosh"}
HyperbolicTangents == {"tanh", "asinh"}
HyperbolicArcs == {"acosh", "atanh"}
Truncation == {"trunc"}
OneArgument == UNION {Roots, Circular, Rounding, Exponentials, Tangents, Arcs, Logarithms,
                      Hyperbolic, HyperbolicTangents, HyperbolicArcs, Truncation}
Powers == {"pow"}
Quadrants == {"atan2"}
Remainders == {"fmod"}
TwoArguments == UNION {Powers, Quadrants, Remainders}

\* Mutant: abs of 64 bits is forgotten.
EmitMathCallMutant(e, name, xs) ==
    CASE \E i \in DOMAIN xs : xs[i] = NoValue -> Fail(e)
      [] name = "abs" /\ xs[1].t = "i32" -> EmitIntegerAbs(e, xs[1])
      [] IsReal(xs[1]) -> Call(e, name, xs[1].t, xs)
      [] OTHER -> Fail(e)

\* The call of a function on reals whose parameters all have the first argument's type.
EmitMathCall(e, name, xs) ==
    CASE \E i \in DOMAIN xs : xs[i] = NoValue -> Fail(e)
      [] name = "abs" /\ xs[1].t \in {"i32", "i64"} -> EmitIntegerAbs(e, xs[1])
      [] IsReal(xs[1]) -> Call(e, name, xs[1].t, xs)
      [] OTHER -> Fail(e)

\* Mutant: floats are passed as they are.
PromotedMutant(e, xs) == [e |-> e, xs |-> xs]

\* Floats go to printf as doubles.
Promoted(e, xs) ==
    FoldLeft(LAMBDA r, x : IF x.t # "float" THEN [r EXCEPT !.xs = Append(@, x)]
                           ELSE LET d == Do(r.e, "fpcast", "double", <<x>>, "")
                                IN  [e |-> d.e, xs |-> Append(r.xs, d.x)],
             [e |-> e, xs |-> << >>], xs)

\* A call of printf; it has no value for the program.
EmitPrint(e, format, xs) ==
    LET r == Promoted(e, xs) IN Nothing(Call(r.e, "printf", "i32", <<Text(format)>> \o r.xs).e)

FormatType(x) ==
    CASE x.t \in IntegerLLVM -> "INT" [] x.t = "float" -> "FLOAT" [] x.t = "double" -> "DOUBLE"
      [] OTHER -> "STRING"

ArrayLiteral(n) == n.k = "Compound" /\ n.y = "ARRAY"

\* emit_printf and emit_printfln with a single argument that is no string literal: x is its value.
EmitPrintOne(e, x, end) ==
    CASE x = NoValue -> Nothing(e)
      [] x.t \in {"ptr", "null"} -> EmitPrint(e, <<"%", "s">> \o end, <<x>>)
      [] OTHER -> Fail(e)

\* Their case of a string literal and arguments: e has memory, the bytes that follow the string.
EmitFormatted(e, format, xs, end) ==
    LET parsed == Parse(format, e.memory, Len(xs))
        types == [i \in DOMAIN xs |-> FormatType(xs[i])]
    IN  CASE ~parsed.valid -> IF end = << >> THEN EmitPrint(e, <<"%", "s">>, << >>) ELSE Fail(e)
          [] \E i \in DOMAIN xs : xs[i].t = "array" -> Fail(e)
          [] OTHER -> EmitPrint(e, Build(parsed.format, 1, 1, types) \o end, xs)

RECURSIVE Emit(_, _)

\* The values of several nodes, in order, NoValue for those without one.
EmitAll(e, nodes) ==
    FoldLeft(LAMBDA r, n : LET q == Emit(n, r.e) IN [e |-> q.e, xs |-> Append(r.xs, q.x)],
             [e |-> e, xs |-> << >>], nodes)

\* The same, giving up at the first without a value.
EmitStrict(e, nodes) ==
    FoldLeft(LAMBDA r, n : IF ~r.ok THEN r
                           ELSE LET q == Emit(n, r.e)
                                IN  [e |-> q.e, xs |-> Append(r.xs, q.x), ok |-> q.x # NoValue],
             [e |-> e, xs |-> << >>, ok |-> TRUE], nodes)

\* emit_printf (end = << >>) and emit_printfln (end is the newline).
EmitPrintCall(e, args, end) ==
    LET first == args[1]
        value == Emit(first, e)
        rest == EmitAll(e, Tail(args))
        xs == [i \in DOMAIN rest.xs |-> OrZero(rest.xs[i])]
    IN  CASE args = << >> -> IF end = << >> THEN Nothing(e) ELSE Fail(e)
          [] IsText(first) /\ Len(args) = 1 -> EmitPrint(e, first.s \o end, << >>)
          [] IsText(first) -> EmitFormatted(rest.e, first.s, xs, end)
          [] Len(args) = 1 /\ ArrayLiteral(first) -> Fail(e)
          [] Len(args) = 1 -> EmitPrintOne(value.e, value.x, end)
          [] end = << >> -> EmitPrint(rest.e, <<"%", "s">>, xs)
          [] OTHER -> Fail(rest.e)

\* emit_max
EmitMax(e, args) ==
    LET r == EmitStrict(e, args)
        kind == r.xs[1].t
        fold == FoldLeft(LAMBDA m, x : Greater(m.e, kind, m.x, x), Return(r.e, r.xs[1]), Tail(r.xs))
    IN  CASE Len(args) \notin 1 .. 8 -> Fail(e)
          [] ~r.ok -> Fail(r.e)
          [] kind \notin IntegerLLVM \union RealLLVM -> Fail(r.e)
          [] OTHER -> fold

EmitMath(e, name, args) ==
    LET arity == IF name \in TwoArguments THEN 2 ELSE 1
        r == EmitAll(e, SubSeq(args, 1, arity))
    IN  IF Len(args) < arity THEN Fail(e) ELSE EmitMathCall(r.e, name, r.xs)

\* len: what the declaration counted, if it counted any, else what the runtime says.
EmitLen(e, args) ==
    LET target == args[1]
        array == LoadArray(e, target.o)
        r == Emit(target, e)
    IN  CASE args = << >> -> Fail(e)
          [] IsName(target) /\ IsArrayVar(e, target.o) ->
                IF Var(e, target.o).count > 0 THEN Return(e, Constant("i32", Var(e, target.o).count))
                ELSE Call(array.e, "xvr_array_len", "i32", <<array.x>>)
          [] r.x = NoValue -> r
          [] r.x.t = "ptr" -> Call(r.e, "xvr_str_len", "i32", <<r.x>>)
          [] r.x.t = "array" -> Return(r.e, Constant("i32", r.x.n))
          [] OTHER -> Fail(r.e)

\* A call by name: print and max want their namespace, sizeof a type.
EmitCallByName(e, name, args) ==
    LET r == EmitAll(e, args)
    IN  CASE name \in {"print", "max"} -> Fail(e)
          [] name = "sizeof" -> IF Len(args) = 1 /\ args[1].k = "Type"
                                THEN Return(e, Constant("i32", SizeOf(args[1].y))) ELSE Fail(e)
          [] name = "len" -> EmitLen(e, args)
          [] name \notin DOMAIN Procedures -> Nothing(e)
          [] OTHER -> Call(r.e, name, Procedures[name].ret, [i \in DOMAIN r.xs |-> OrZero(r.xs[i])])

\* std::name(args) and math::name(args); other names are looked up as methods of a variable.
Namespaces == [std |-> {"print", "println", "max"}, math |-> {"abs"} \union OneArgument \union TwoArguments]
EmitNamespaced(e, name, args) ==
    CASE name = "print" -> EmitPrintCall(e, args, << >>)
      [] name = "println" -> EmitPrintCall(e, args, <<"\n">>)
      [] name = "max" -> EmitMax(e, args)
      [] OTHER -> EmitMath(e, name, args)

\* A method of a variable: only insert; all else ends in looking the method up as a variable.
EmitMethod(e, name, method, args) ==
    LET r == Emit(args[1], e)
        array == LoadArray(r.e, name)
    IN  CASE ~Found(e, name) -> Nothing(e)
          [] method # "insert" \/ args = << >> -> Nothing(EmitIdentifier(name, e).e)
          [] r.x = NoValue -> Nothing(EmitIdentifier(name, r.e).e)
          [] OTHER -> Return(Call(array.e, "xvr_array_insert_int", "void", <<array.x, r.x>>).e, r.x)

\* n is left.right, its right a call dottified to the name and its arguments.
EmitDot(n, e) ==
    LET left == n.c[1].o
        name == n.c[2].o
        args == n.c[2].c
    IN  IF left \in DOMAIN Namespaces /\ name \in Namespaces[left] THEN EmitNamespaced(e, name, args)
        ELSE EmitMethod(e, left, name, args)

\* array[index] = value
EmitElementAssign(e, name, index, value) ==
    LET r == EmitStrict(e, <<index, value>>)
        array == LoadArray(r.e, name)
    IN  CASE ~IsArrayVar(e, name) -> Nothing(e)
          [] ~r.ok -> Nothing(r.e)
          [] OTHER -> Return(Call(array.e, "xvr_array_set_int", "void", <<array.x>> \o r.xs).e, r.xs[2])

\* array[index] += value: an address computed with the null type of an opaque pointer.
EmitElementUpdate(e, name, index, value) ==
    LET r == EmitStrict(e, <<value, index>>)
        address == Do(r.e, "gep", "null", <<Var(e, name).p, OrZero(r.xs[2])>>, name)
    IN  CASE ~Found(e, name) -> Nothing(e)
          [] Len(r.xs) = 1 -> Nothing(r.e)
          [] OTHER -> Return(Do(address.e, "store", "void", <<r.xs[1], address.x>>, name).e, r.xs[1])

\* name = value, or an operation on the i32 that name is taken for.
EmitAssign(e, name, op, value) ==
    LET r == Emit(value, e)
        current == Do(r.e, "load", "i32", <<Var(e, name).p>>, name)
        new == IF op = "ASSIGN" THEN r ELSE Do(current.e, IntegerOps[op], "i32", <<current.x, r.x>>, "")
    IN  CASE ~Found(e, name) -> Nothing(e)
          [] r.x = NoValue -> Nothing(r.e)
          [] OTHER -> Return(Do(new.e, "store", "void", <<new.x, Var(e, name).p>>, name).e, new.x)

\* The rest of EmitBinary: operands, left then right.
EmitOperation(n, e) ==
    LET r == EmitStrict(e, n.c) IN IF r.ok THEN EmitBinaryOp(r.e, n.o, r.xs[1], r.xs[2]) ELSE Nothing(r.e)

\* An assignment n is [op] left right, its left a name or an element.
EmitAssignment(n, e) ==
    CASE IsName(n.c[1]) -> EmitAssign(e, n.c[1].o, n.o, n.c[2])
      [] n.c[1].k = "Index" /\ IsName(n.c[1].c[1]) ->
            IF n.o = "ASSIGN" THEN EmitElementAssign(e, n.c[1].c[1].o, n.c[1].c[2], n.c[2])
            ELSE EmitElementUpdate(e, n.c[1].c[1].o, n.c[1].c[2], n.c[2])
      [] OTHER -> Nothing(e)

(* XVR_AST_NODE_COMPOUND: an LLVM constant of the elements, constants or not;
   t is "array", n its length and s the type of its elements. *)
EmitCompound(n, e) ==
    LET r == EmitStrict(e, n.c)
        array == Do(r.e, "constarray", "array", r.xs, "")
    IN  CASE n.c = << >> \/ ~ArrayLiteral(n) -> Nothing(e)
          [] ~r.ok -> Nothing(r.e)
          [] OTHER -> Return(array.e, [array.x EXCEPT !.n = Len(n.c), !.s = <<r.xs[1].t>>])

\* The array of a declaration: created, then each element emitted once more and inserted.
EmitArray(e, elements) ==
    LET array == Call(e, "xvr_array_create_int", "ptr", << >>)
        insert(f, m) == LET r == Emit(m, f)
                        IN  IF r.x = NoValue THEN r.e
                            ELSE Call(r.e, "xvr_array_insert_int", "void", <<array.x, r.x>>).e
    IN  Return(FoldLeft(insert, array.e, elements), array.x)

\* XVR_AST_NODE_VAR_DECL: the slot has the initialiser's type, the table the declared one.
EmitVarDecl(n, e) ==
    LET init == Emit(n.c[1], e)
        counted == init.x # NoValue /\ ArrayLiteral(n.c[1])
        lit == IF counted THEN "ARRAY" ELSE n.y
        value == IF lit = "ARRAY" THEN EmitArray(init.e, IF counted THEN n.c[1].c ELSE << >>) ELSE init
        type == IF value.x = NoValue THEN "i32" ELSE value.x.t
        alloca == Do(value.e, "alloca", type, << >>, n.o)
        slot == [alloca EXCEPT !.x.t = "ptr"]
        stored == IF value.x = NoValue THEN slot.e
                  ELSE Do(slot.e, "store", "void", <<value.x, slot.x>>, n.o).e
    IN  Nothing([stored EXCEPT !.vars = Append(@, [name |-> n.o, lit |-> lit, ty |-> type, p |-> slot.x,
                     count |-> IF counted THEN Len(n.c[1].c) ELSE 0])])

\* XVR_AST_NODE_TERNARY: both values come before the branch, the phi has the first one's type.
EmitTernary(n, e) ==
    LET cond == Emit(n.c[1], e)
        r == EmitAll(cond.e, Tail(n.c))
        phi == Do(r.e, "select", r.xs[1].t, <<cond.x>> \o r.xs, "")
    IN  CASE cond.x.t # "i1" -> Nothing(cond.e)
          [] NoValue \in ToSet(r.xs) -> Nothing(r.e)
          [] OTHER -> Return(phi.e, [r.xs[1] EXCEPT !.r = phi.x.r])

\* array[i], and array[i][j] whose second call has the null type of an opaque pointer.
EmitElement(e, name, indices) ==
    LET r == Emit(indices[1], e)
        array == LoadArray(r.e, name)
        element == Call(array.e, "xvr_array_get_int", "i32", <<array.x, r.x>>)
        second == Emit(indices[2], element.e)
    IN  CASE ~IsArrayVar(e, name) -> Nothing(e)
          [] r.x = NoValue -> Nothing(r.e)
          [] Len(indices) = 1 -> element
          [] second.x = NoValue -> Nothing(second.e)
          [] OTHER -> Call(second.e, "xvr_array_get_int", "null", <<element.x, second.x>>)

\* The element of an array value: stored on the stack, addressed and loaded, its index unchecked.
EmitElementOf(e, array, index) ==
    LET type == array.s[1]
        alloca == Do(e, "alloca", "array", << >>, "")
        slot == [alloca.x EXCEPT !.t = "ptr"]
        store == Do(alloca.e, "store", "void", <<array, slot>>, "")
        address == Do(store.e, "gep", "ptr", <<slot, index>>, type)
    IN  Do(address.e, "load", type, <<address.x>>, "")

(* XVR_AST_NODE_INDEX: an element of a variable, or of an array value.  A
   pointer, or a number, has no element type and gives no value; the third
   part is only for a variable. *)
EmitIndex(n, e) ==
    LET r == EmitStrict(e, SubSeq(n.c, 1, 2))
    IN  CASE IsName(n.c[1]) -> EmitElement(e, n.c[1].o, Tail(n.c))
          [] ~r.ok \/ r.xs[1].t # "array" -> Nothing(r.e)
          [] OTHER -> EmitElementOf(r.e, r.xs[1], r.xs[2])

\* Mutant: postfix gives the new value too.
EmitIncrementMutant(n, e) ==
    LET var == Var(e, n.o)
        old == Do(e, "load", var.ty, <<var.p>>, n.o)
        new == Do(old.e, IF n.y = "INC" THEN "add" ELSE "sub", var.ty, <<old.x, Constant("i32", 1)>>, "")
    IN  IF ~Found(e, n.o) THEN Nothing(e)
        ELSE Return(Do(new.e, "store", "void", <<new.x, var.p>>, n.o).e, new.x)

\* x++, x--, ++x, --x: one is added to the slot's type as an i32.
EmitIncrement(n, e) ==
    LET var == Var(e, n.o)
        old == Do(e, "load", var.ty, <<var.p>>, n.o)
        new == Do(old.e, IF n.y = "INC" THEN "add" ELSE "sub", var.ty, <<old.x, Constant("i32", 1)>>, "")
        stored == Do(new.e, "store", "void", <<new.x, var.p>>, n.o)
    IN  IF ~Found(e, n.o) THEN Nothing(e)
        ELSE Return(stored.e, IF n.k = "Prefix" THEN new.x ELSE old.x)

\* XVR_AST_NODE_BLOCK: the variables of the block leave the table with it.
EmitBlock(n, e) ==
    LET r == EmitAll(e, n.c) IN Nothing([r.e EXCEPT !.vars = e.vars])

Emit(n, e) ==
    LET child == Emit(n.c[1], e)
    IN  CASE n.k \in {"Literal", "Name"} -> EmitLiteral(n, e)
          [] n.k = "Unary" -> IF child.x = NoValue THEN child ELSE EmitUnaryOp(child.e, n.o, child.x)
          [] n.k = "Binary" -> EmitOperation(n, e)
          [] n.k = "Assign" -> EmitAssignment(n, e)
          [] n.k = "Call" -> EmitCallByName(e, n.o, n.c)
          [] n.k = "Dot" -> EmitDot(n, e)
          [] n.k = "Cast" -> EmitCastOf(child.e, child.x, n.y)
          [] n.k = "Grouping" -> child
          [] n.k = "Ternary" -> EmitTernary(n, e)
          [] n.k = "Compound" -> EmitCompound(n, e)
          [] n.k = "Index" -> EmitIndex(n, e)
          [] n.k \in {"Prefix", "Postfix"} -> EmitIncrement(n, e)
          [] n.k = "VarDecl" -> EmitVarDecl(n, e)
          [] n.k = "Block" -> EmitBlock(n, e)
          [] OTHER -> Nothing(e)
=============================================================================
