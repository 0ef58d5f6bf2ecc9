------------------------------ MODULE Meaning ------------------------------
(***************************************************************************)
(* What a program means: the reference the emitted code is compared with,  *)
(* after docs/stdlib.md, docs/math_module.md and docs/print_handler.md.    *)
(* Typing(program) gives the types of its variables ("bad" somewhere: not  *)
(* a program of the language) and the tags of the constructs it uses whose *)
(* code is known to be wrong; Meaning(program) runs it on variables and    *)
(* arrays, and adds the tags of what only a run shows.  Nothing here asks  *)
(* what the emitter or printf do.                                          *)
(***************************************************************************)
EXTENDS ExpressionEmitter, EmittedCode

Numeric == (IntegerLLVM \ {"i1"}) \union RealLLVM
TypeName(lit) ==
    CASE lit = "STRING" -> "str" [] lit = "ARRAY" -> "arr" [] lit \in {"NULL", "ANY"} -> "bad"
      [] OTHER -> GetType(lit)

\* The real type an argument of a function on reals is cast to (docs/math_module.md:184-187).
RealOf(t) == CASE t = "i32" -> "float" [] t = "i64" -> "double" [] OTHER -> t

\* The types a value can have.
ValueNames == Numeric \union {"i1", "str", "arr"}

\* The result of typing: the type, the tags, and the variables from there on.
Typed(t, tags, vars) == [t |-> t, tags |-> tags, vars |-> vars]
When(cond, tag) == IF cond THEN {tag} ELSE {}
Good(cond, t) == IF cond THEN t ELSE "bad"

(* A format whose braces are placeholders: each { has its }, none is doubled,
   has a specifier or contains another, and there is no percent sign. *)
Openers(f) == {i \in DOMAIN f : f[i] = "{"}
PlainFormat(f) ==
    /\ "%" \notin ToSet(f)
    /\ \A i \in DOMAIN f : f[i] \in {"{", "}"} => CharAt(f, i + 1) # f[i]
    /\ \A i \in Openers(f) :
          /\ CharAt(f, i + 1) # ":"
          /\ Closing(f, i) # 0 /\ \A j \in Openers(f) : j > i => Closing(f, i) < j

\* Whether it shows that a node was evaluated.
Effects == {"Assign", "Prefix", "Postfix", "Call", "Index"}
RECURSIVE HasEffect(_)
HasEffect(n) ==
    \/ n.k \in Effects /\ n.o \notin {"len", "sizeof"}
    \/ n.k = "Binary" /\ n.o \in {"DIVISION", "MODULO"}
    \/ \E i \in DOMAIN n.c : HasEffect(n.c[i])

RECURSIVE Check(_, _)

CheckAll(nodes, vars) ==
    FoldLeft(LAMBDA r, n : LET q == Check(n, r.vars)
                           IN  [ts |-> Append(r.ts, q.t), tags |-> r.tags \union q.tags, vars |-> q.vars],
             [ts |-> << >>, tags |-> {}, vars |-> vars], nodes)

CheckBinary(op, t, u) ==
    LET both == {t, u} \subseteq Numeric
    IN  CASE op \in DOMAIN RealOps -> Good(both \/ (op = "ADDITION" /\ {t, u} = {"str"}), IF t = "i32" THEN u ELSE t)
          [] op \in DOMAIN Logical -> Good({t, u} = {"i1"}, "i1")
          [] OTHER -> Good(both \/ (t = u /\ t = "i1" /\ op \in {"EQUAL", "NOT_EQUAL"}), "i1")

CheckDecl(n, r, vars) ==
    LET init == r.ts[1]
        type == IF n.y = "ANY" THEN init ELSE TypeName(n.y)
        empty == n.c[1].k = "Literal" /\ n.c[1].y = "NULL"
        fits == init = type \/ {init, type} \subseteq Numeric \/ (empty /\ type \in Numeric \union {"arr"})
    IN  Typed(Good(fits /\ type # "bad", "void"),
              r.tags \union When(init # type /\ ~empty, "declared otherwise")
                     \union When(type = "arr" /\ n.c[1].k \notin {"Compound", "Literal"}, "array copied")
                     \union When(n.y \in UnsignedTypes, "unsigned"),
              [name \in DOMAIN vars \union {n.o} |-> IF name = n.o THEN type ELSE vars[name]])

CheckNamed(n, r) ==
    LET args == n.c[2].c
        name == n.c[2].o
        same == \A t \in ToSet(r.ts) : t = r.ts[1]
        text == args # << >> /\ IsText(args[1])
        plain == text /\ PlainFormat(args[1].s)
        counted == plain => Cardinality(Openers(args[1].s)) = Len(args) - 1
    IN  CASE name \notin Namespaces[n.c[1].o] -> [t |-> "bad", tags |-> {}]
          [] name \in {"print", "println"} /\ text ->
               [t |-> Good(counted /\ ToSet(r.ts) \subseteq ValueNames, "void"),
                tags |-> When(~plain, "format") \union When("arr" \in ToSet(r.ts), "array printed")
                           \union When("i1" \in ToSet(r.ts), "boolean printed")
                           \union When("i64" \in ToSet(r.ts), "wide printed")
                           \union When(~counted /\ (Len(args) = 1 \/ name = "print"), "missing arguments")]
          [] name \in {"print", "println"} ->
               [t |-> Good(r.ts = <<"str">>, "void"), tags |-> When(Len(args) > 1, "no format")]
          [] name = "max" -> [t |-> Good(r.ts # << >> /\ same /\ r.ts[1] \in Numeric, r.ts[1]),
                              tags |-> When(Len(r.ts) > 8, "max of nine")]
          [] name = "abs" -> [t |-> Good(Len(args) = 1 /\ r.ts[1] \in {"i32", "i64"} \union RealLLVM, r.ts[1]), tags |-> {}]
          [] name \in OneArgument \union TwoArguments ->
               [t |-> Good(Len(args) = (IF name \in TwoArguments THEN 2 ELSE 1) /\ same /\ RealOf(r.ts[1]) \in RealLLVM,
                           RealOf(r.ts[1])),
                tags |-> When(r.ts # << >> /\ r.ts[1] \in {"i32", "i64"}, "integer to real")]

CheckCall(n, r, vars) ==
    CASE n.o = "sizeof" -> Typed(Good(Len(n.c) = 1 /\ n.c[1].k = "Type", "i32"), {}, vars)
      [] n.o = "len" -> Typed(Good(r.ts = <<"arr">> \/ r.ts = <<"str">>, "i32"),
                              r.tags \union {"len"} \union When(r.ts = <<"str">>, "len of string"), vars)
      [] OTHER -> Typed(Good(n.o \in DOMAIN Procedures /\ r.ts = Procedures[n.o].params, "i32"), r.tags, vars)

CheckAssign(n, r, vars) ==
    LET t == r.ts[1]
    IN  Typed(Good(t = r.ts[2] /\ t # "bad" /\ (n.o = "ASSIGN" \/ t \in Numeric)
                     /\ (IsName(n.c[1]) \/ (n.c[1].k = "Index" /\ IsName(n.c[1].c[1]))), t),
              r.tags \union When(n.o # "ASSIGN" /\ t # "i32", "real updated")
                     \union When(n.o # "ASSIGN" /\ n.c[1].k = "Index", "element updated")
                     \union When(t = "arr", "array copied"), vars)

Check(n, vars) ==
    LET r == CheckAll(n.c, vars)
        args == CheckAll(n.c[2].c, vars)
        named == CheckNamed(n, args)
        t == r.ts[1]
        is(type, tags) == Typed(type, r.tags \union tags, vars)
    IN  CASE n.k = "Literal" -> Typed(TypeName(n.y), When(n.y \in UnsignedTypes, "unsigned"), vars)
          [] n.k = "Name" -> Typed(IF n.o \in DOMAIN vars THEN vars[n.o] ELSE "bad", {}, vars)
          [] n.k = "Unary" /\ n.o = "NEGATE" -> is(Good(t \in Numeric, t), When(t # "i32", "real negated"))
          [] n.k = "Unary" -> is(Good(t = "i1", "i1"), {"inverted"})
          [] n.k = "Binary" -> is(CheckBinary(n.o, t, r.ts[2]),
                                  When(n.o \in Comparisons /\ ({t, r.ts[2]} \intersect RealLLVM) # {}, "reals compared")
                                  \union When(t # r.ts[2], "mixed types")
                                  \union When(n.o \in DOMAIN Logical /\ HasEffect(n.c[2]), "effect skipped"))
          [] n.k = "Assign" -> CheckAssign(n, r, vars)
          [] n.k = "Call" -> CheckCall(n, r, vars)
          [] n.k = "Dot" /\ n.c[1].o \in DOMAIN Namespaces -> Typed(named.t, args.tags \union named.tags, vars)
          [] n.k = "Dot" -> Typed(Good(t = "arr" /\ n.c[2].o = "insert" /\ args.ts = <<"i32">>, "i32"),
                                  args.tags \union {"insert"}, vars)
          [] n.k = "Cast" -> is(Good(t \in Numeric \union {"i1"} /\ Kind(n.y) \in {"int", "float", "bool"}, TypeName(n.y)),
                                When(t = "i1" /\ n.y = "BOOLEAN", "bool cast to bool") \union When(n.y = "FLOAT16", "half")
                                \union When(n.y \in UnsignedTypes, "unsigned"))
          [] n.k = "Grouping" -> is(t, {})
          [] n.k = "Ternary" -> is(Good(t = "i1" /\ r.ts[2] = r.ts[3] /\ r.ts[2] \in ValueNames, r.ts[2]),
                                   When(HasEffect(n.c[2]) \/ HasEffect(n.c[3]), "effect skipped"))
          [] n.k = "Compound" -> is(Good(ArrayLiteral(n) /\ ToSet(r.ts) \subseteq {"i32"}, "arr"),
                                    When(\E m \in ToSet(n.c) : m.k # "Literal", "computed element")
                                    \union When(n.c # << >>, "counted"))
          [] n.k = "Index" -> is(Good(r.ts = <<"arr", "i32">>, "i32"), When(~(IsName(n.c[1]) \/ ArrayLiteral(n.c[1])), "computed array indexed"))
          [] n.k \in {"Prefix", "Postfix"} ->
                LET u == IF n.o \in DOMAIN vars THEN vars[n.o] ELSE "bad"
                IN  is(Good(u \in Numeric, u), When(u # "i32", "real updated"))
          [] n.k = "VarDecl" -> CheckDecl(n, r, vars)
          [] n.k = "If" -> is(Good(t = "i1" /\ "bad" \notin ToSet(r.ts), "void"), {})
          [] n.k = "Block" -> Typed(Good("bad" \notin ToSet(r.ts), "void"), r.tags, vars)
          [] OTHER -> is("bad", {})

NoVariables == [name \in {} |-> ""]
Typing(program) == CheckAll(program, NoVariables)

(* The meaning.  A store has the cell of each variable in scope (vars), the
   cells' values, the arrays' elements, what was printed, whether an index
   was out of bounds and the tags of this run. *)
Start == [vars |-> NoVariables, cells |-> << >>, arrays |-> << >>, out |-> << >>, stop |-> "no", tags |-> {}]
Tagged(s, cond, tag) == [s EXCEPT !.tags = @ \union When(cond, tag)]
Gives(s, v) == [s |-> s, v |-> v]
Unit == Num("void", 0)

RECURSIVE Ev(_, _)

EvAll(nodes, s) ==
    FoldLeft(LAMBDA r, n : IF r.s.stop # "no" THEN [r EXCEPT !.vs = Append(@, Unit)]
                           ELSE LET q == Ev(n, r.s) IN [s |-> q.s, vs |-> Append(r.vs, q.v)],
             [s |-> s, vs |-> << >>], nodes)

ValueOf(s, name) == s.cells[s.vars[name]]
Set(s, name, v) == [s EXCEPT !.cells[s.vars[name]] = v]
New(s, name, v) ==
    [s EXCEPT !.cells = Append(@, v),
              !.vars = [x \in DOMAIN @ \union {name} |-> IF x = name THEN Len(s.cells) + 1 ELSE @[x]]]

\* Arithmetic on numbers of one type, and on strings.
Operate(op, x, y) ==
    CASE x.h = "str" -> Str(x.s \o y.s)
      [] op \in Comparisons -> Num("i1", Compare(op, x.n, y.n))
      [] x.t \in RealLLVM -> Num(x.t, Compute(RealOps[op], x.n, y.n))
      [] OTHER -> Num(x.t, Wrap(x.t, Compute(IntegerOps[op], x.n, y.n)))
Undefined(op, y) == op \in {"DIVISION", "MODULO"} /\ y.n = 0

\* A cast keeps the value as far as the type has it.
CastTo(lit, v) ==
    LET real == v.t \in RealLLVM
        type == GetType(lit)
    IN  CASE lit = "BOOLEAN" -> Num("i1", Truth(v.n # 0))
          [] type \in RealLLVM -> Num(type, IF real THEN v.n ELSE 16 * v.n)
          [] OTHER -> Num(type, Wrap(type, IF real THEN TruncatedDiv(v.n, 16) ELSE v.n))

(* The text of a value (docs/stdlib.md:119-124, 151-156, docs/print_handler.md:35-40):
   an integer of any type is its decimal value, a boolean is text, the elements
   of an array are separated by spaces. *)
Written(chars) == [i \in DOMAIN chars |-> Char(chars[i])]
Spaced(ns) ==
    FoldLeft(LAMBDA text, n : text \o Written(IF text = << >> THEN << >> ELSE <<" ">>) \o <<Number("int", n)>>, << >>, ns)
TextOf(s, v) ==
    CASE v.h = "str" -> Written(v.s)
      [] v.h = "array" -> Spaced(s.arrays[v.n])
      [] v.t = "i1" -> Written(IF v.n = 0 THEN <<"f", "a", "l", "s", "e">> ELSE <<"t", "r", "u", "e">>)
      [] v.t \in RealLLVM -> <<Number("real", v.n)>>
      [] OTHER -> <<Number("int", v.n)>>

\* The text a format and its arguments give.
RECURSIVE Fill(_, _, _)
Fill(s, f, vs) ==
    CASE f = << >> -> << >>
      [] Head(f) = "{" -> TextOf(s, vs[1]) \o Fill(s, SubSeq(f, Closing(f, 1) + 1, Len(f)), Tail(vs))
      [] OTHER -> Written(<<Head(f)>>) \o Fill(s, Tail(f), vs)

EvPrint(s, vs, end) ==
    LET text == IF Len(vs) = 1 THEN TextOf(s, vs[1]) ELSE Fill(s, vs[1].s, Tail(vs))
        narrow == \E v \in ToSet(vs) : v.t \in {"i8", "i16"} /\ v.n < 0
    IN  Gives(Tagged([s EXCEPT !.out = @ \o text \o Written(end)], narrow, "narrow negative printed"), Unit)

EvNamed(name, r) ==
    LET v == r.vs[1]
        greater(x, y) == IF x.n > y.n THEN x ELSE y
        real(x) == IF name # "abs" /\ x.t \in IntegerLLVM THEN 16 * x.n ELSE x.n
    IN  CASE name = "print" -> EvPrint(r.s, r.vs, << >>)
          [] name = "println" -> EvPrint(r.s, r.vs, <<"\n">>)
          [] name = "max" -> Gives(r.s, FoldLeft(greater, v, Tail(r.vs)))
          [] name = "fmod" /\ r.vs[2].n = 0 -> Gives([r.s EXCEPT !.stop = "wild"], Unit)
          [] OTHER -> Gives(r.s, Num(IF name = "abs" THEN v.t ELSE RealOf(v.t),
                                     MathValue(name, [i \in DOMAIN r.vs |-> real(r.vs[i])])))

Outside(s, a, i) == i.n \notin 0 .. Len(s.arrays[a.n]) - 1
EvElement(s, a, i, put) ==
    LET data == s.arrays[a.n]
    IN  CASE Outside(s, a, i) -> Gives([s EXCEPT !.stop = "abort"], Unit)
          [] put = << >> -> Gives(s, Num("i32", data[i.n + 1]))
          [] OTHER -> Gives([s EXCEPT !.arrays[a.n][i.n + 1] = put[1].n], put[1])

EvAssign(n, s) ==
    LET target == n.c[1]
        r == EvAll(<<n.c[2]>>, s)
        e == EvAll(<<target.c[1], target.c[2], n.c[2]>>, s)
        v == IF n.o = "ASSIGN" THEN r.vs[1] ELSE Operate(n.o, ValueOf(r.s, target.o), r.vs[1])
    IN  CASE target.k = "Index" -> IF e.s.stop # "no" THEN Gives(e.s, Unit)
                                   ELSE EvElement(e.s, e.vs[1], e.vs[2], <<e.vs[3]>>)
          [] r.s.stop # "no" -> Gives(r.s, Unit)
          [] n.o # "ASSIGN" /\ Undefined(n.o, r.vs[1]) -> Gives([r.s EXCEPT !.stop = "wild"], Unit)
          [] OTHER -> Gives(Set(r.s, target.o, v), v)

NewArray(s, data) == Gives([s EXCEPT !.arrays = Append(@, data)], Pointer("array", Len(s.arrays) + 1))

EvDecl(n, s) ==
    LET r == EvAll(<<n.c[1]>>, s)
        array == NewArray(s, << >>)
        empty == n.c[1].k = "Literal" /\ n.c[1].y = "NULL"
    IN  CASE empty /\ n.y = "ARRAY" -> New(array.s, n.o, array.v)
          [] empty -> New(s, n.o, Num(GetType(n.y), 0))
          [] OTHER -> New(r.s, n.o, r.vs[1])

\* Leaving a block brings back the variables it hid and drops its own.
EvBlock(n, s) == [EvAll(n.c, s).s EXCEPT !.vars = s.vars]

EvIncrement(n, s) ==
    LET old == ValueOf(s, n.o)
        new == [old EXCEPT !.n = @ + (IF n.y = "INC" THEN 1 ELSE -1)]
    IN  Gives(Set(s, n.o, new), IF n.k = "Prefix" THEN new ELSE old)

EvCall(n, r) ==
    CASE n.o = "len" -> Gives(r.s, Num("i32", Len(IF r.vs[1].h = "str" THEN r.vs[1].s ELSE r.s.arrays[r.vs[1].n])))
      [] OTHER -> Gives([r.s EXCEPT !.out = @ \o TextOf(r.s, r.vs[1])], r.vs[1])

Ev(n, s) ==
    LET r == EvAll(n.c, s)
        v == r.vs[1]
        args == EvAll(n.c[2].c, s)
        cond == EvAll(<<n.c[1]>>, s)
        branch(i) == IF cond.s.stop = "no" /\ i \in DOMAIN n.c THEN Ev(n.c[i], cond.s) ELSE Gives(cond.s, Unit)
        chosen == IF cond.vs[1].n # 0 THEN 2 ELSE 3
        or(done, gives) == IF done.s.stop # "no" THEN Gives(done.s, Unit) ELSE gives
    IN  CASE n.k = "Literal" -> Gives(s, IF n.y = "STRING" THEN Str(n.s) ELSE Num(GetType(n.y), n.v))
          [] n.k = "Name" -> Gives(s, ValueOf(s, n.o))
          [] n.k = "Grouping" -> Gives(r.s, v)
          [] n.k = "Unary" -> or(r, Gives(r.s, Num(v.t, IF n.o = "NEGATE" THEN -v.n ELSE 1 - v.n)))
          [] n.k = "Binary" /\ n.o \in DOMAIN Logical ->
                IF cond.vs[1].n = Truth(n.o = "OR") THEN Gives(cond.s, cond.vs[1]) ELSE branch(2)
          [] n.k = "Binary" /\ r.s.stop = "no" /\ Undefined(n.o, r.vs[2]) -> Gives([r.s EXCEPT !.stop = "wild"], Unit)
          [] n.k = "Binary" -> or(r, Gives(r.s, Operate(n.o, v, r.vs[2])))
          [] n.k = "Assign" -> EvAssign(n, s)
          [] n.k = "Call" /\ n.o = "sizeof" -> Gives(s, Num("i32", SizeOf(n.c[1].y)))
          [] n.k = "Call" -> or(r, EvCall(n, r))
          [] n.k = "Dot" /\ n.c[1].o \in DOMAIN Namespaces -> or(args, EvNamed(n.c[2].o, args))
          [] n.k = "Dot" -> or(args, Gives([args.s EXCEPT !.arrays[ValueOf(args.s, n.c[1].o).n] = Append(@, args.vs[1].n)], args.vs[1]))
          [] n.k = "Cast" -> or(r, Gives(r.s, CastTo(n.y, v)))
          [] n.k \in {"Ternary", "If"} -> branch(chosen)
          [] n.k = "Compound" -> or(r, NewArray(r.s, [i \in DOMAIN r.vs |-> r.vs[i].n]))
          [] n.k = "Index" -> or(r, EvElement(Tagged(r.s, ~IsName(n.c[1]) /\ Outside(r.s, v, r.vs[2]), "unchecked index"),
                                              v, r.vs[2], << >>))
          [] n.k \in {"Prefix", "Postfix"} -> EvIncrement(n, s)
          [] n.k = "VarDecl" -> Gives(EvDecl(n, s), Unit)
          [] n.k = "Block" -> Gives(EvBlock(n, s), Unit)

Meaning(program) == EvAll(program, Start).s
=============================================================================
