--------------------------- MODULE MCExpressions ---------------------------
(***************************************************************************)
(* Small programs for Expressions, a family for each part of the emitter.  *)
(***************************************************************************)
EXTENDS Expressions

Lit(type, n) == [Tree("Literal", "", type, << >>) EXCEPT !.v = n]
Chars(s) == [Tree("Literal", "", "STRING", << >>) EXCEPT !.s = s]
None == Lit("NULL", 0)
Ident(x) == Tree("Name", x, "", << >>)
Bin(op, a, b) == Tree("Binary", op, "", <<a, b>>)
Un(op, a) == Tree("Unary", op, "", <<a>>)
Decl(x, type, a) == Tree("VarDecl", x, type, <<a>>)
Assigned(op, a, b) == Tree("Assign", op, "", <<a, b>>)
CallOf(f, args) == Tree("Call", f, "", args)
DotOf(left, f, args) == Tree("Dot", "", "", <<Ident(left), CallOf(f, args)>>)
Println(f, args) == DotOf("std", "println", <<Chars(f)>> \o args)
Show(a) == Println(<<"{", "}">>, <<a>>)
Cast(type, a) == Tree("Cast", "", type, <<a>>)
Cond(c, a, b) == Tree("Ternary", "", "", <<c, a, b>>)
ListOf(xs) == Tree("Compound", "", "ARRAY", xs)
At(a, i) == Tree("Index", "", "", <<a, i>>)
Block(xs) == Tree("Block", "", "", xs)
IfOf(kids) == Tree("If", "", "", kids)
I(n) == Lit("INTEGER", n)
X == Ident("x")
Y == Ident("y")

MCProcedures == [f |-> [params |-> <<"i32">>, ret |-> "i32"]]
F(a) == CallOf("f", <<a>>)

Lits == {I(7), I(-3), I(0), Lit("INT8", 100), Lit("INT16", 300), Lit("INT64", 5), Lit("UINT8", 200), Lit("FLOAT32", 24),
         Lit("FLOAT64", 40), Lit("FLOAT64", -40), Lit("BOOLEAN", 1), Chars(<<"a">>)}
AllOps == DOMAIN IntegerOps \union Comparisons \union DOMAIN Logical
\* What a boolean, or an integer of another width, shows as an int.
Told(c) == Show(Cond(c, I(1), I(2)))
ShowInt(a) == Show(Cast("INTEGER", a))
Sized == {Lit("INT8", 100), Lit("INT8", -3), Lit("INT16", 300), Lit("INT64", 5), Lit("INT64", -9)}
Operations ==
    {<<Show(Bin(op, a, b))>> : op \in DOMAIN IntegerOps, a, b \in Lits}
      \union {<<Told(Bin(op, a, b))>> : op \in AllOps \ DOMAIN IntegerOps, a, b \in Lits}
      \union {<<ShowInt(Bin(op, a, b))>> : op \in DOMAIN IntegerOps, a, b \in Sized}
      \union {<<Told(Bin(op, a, b))>> : op \in Comparisons, a, b \in Sized}
      \union {<<Show(Bin(op, a, I(3)))>> : op \in {"EQUAL", "LESS"}, a \in {I(3)} \union Sized}
      \union {<<Show(a)>> : a \in Sized}
      \union {<<Show(Un(op, a))>> : op \in {"NEGATE", "INVERT"}, a \in Lits}
Ints == {I(0), I(2), I(-7)}
Nested ==
    {<<Show(Bin(op, Bin(q, a, b), c))>> : op, q \in DOMAIN IntegerOps, a, b, c \in Ints}
      \union {<<Show(Bin(op, F(a), Bin(q, F(b), c)))>> : op, q \in DOMAIN IntegerOps, a, b, c \in Ints}
Types == {"ANY", "INTEGER", "INT8", "INT64", "UINT8", "FLOAT32", "FLOAT64", "BOOLEAN", "STRING", "ARRAY"}
Declarations ==
    {<<Decl("x", t, a), Show(X)>> : t \in Types, a \in Lits \union {None}}
      \union {<<Decl("x", t, a), ShowInt(X)>> : t \in {"ANY", "INT8", "INT64", "BOOLEAN"}, a \in Lits \union Sized \union {None}}
Updates ==
    {<<Decl("x", "ANY", a), Assigned(op, X, b), Show(X)>> : op \in DOMAIN IntegerOps \union {"ASSIGN"}, a, b \in Lits}
      \union {<<Decl("x", "ANY", a), Decl("y", "ANY", Tree(k, "x", i, << >>)), Println(<<"{", "}", "{", "}">>, <<X, Y>>)>> :
                k \in {"Prefix", "Postfix"}, i \in {"INC", "DEC"}, a \in Lits}
      \union {<<Decl("x", "ANY", a), Assigned("ASSIGN", X, b), ShowInt(X)>> : a, b \in Sized}
      \union {<<Decl("x", "ANY", I(1)), Assigned("ASSIGN", X, Bin(op, X, F(X))), Assigned(op, Y, X), Show(X)>> :
                op \in DOMAIN IntegerOps}
Conditions == {Lit("BOOLEAN", 1), Lit("BOOLEAN", 0), Bin("LESS", I(1), I(2)), F(I(1)), Y}
Ternaries ==
    {<<Show(Cond(c, a, b))>> : c \in Conditions, a, b \in Lits}
      \union {<<Show(Cond(c, a, b))>> : c \in Conditions, a, b \in {I(1), F(I(2)), Bin("DIVISION", I(1), I(0))}}
      \union {<<Told(Bin(op, Bin("EQUAL", F(a), I(2)), Bin("LESS", F(b), I(0))))>> : op \in DOMAIN Logical, a, b \in Ints}
      \union {<<Told(Bin(op, a, Bin("LESS", I(1), I(2))))>> : op \in DOMAIN Logical, a \in Conditions}
Casts ==
    {<<Show(Cast(t, a))>> : t \in LiteralTypes, a \in Lits}
      \union {<<Show(Cast("INT32", Cast(t, Cast(u, a))))>> : t, u \in LiteralTypes, a \in {I(7), I(-300), Lit("FLOAT64", -40)}}
Element(i) == At(X, I(i))
ArraySteps ==
    {DotOf("x", "insert", <<I(5)>>), Show(CallOf("len", <<X>>)), Decl("y", "ANY", X), DotOf("y", "insert", <<I(6)>>), Show(At(Y, I(0)))}
      \union {Assigned("ASSIGN", Element(i), I(9)) : i \in {0, 2}}
      \union {Show(Element(i)) : i \in {-1, 0, 2}}
      \union {Assigned("ADDITION", Element(0), I(1)), Show(At(Element(0), I(0))), Println(<<"{", "}">>, <<X>>)}
ArrayRuns(init) == {<<init>> \o s : s \in [1 .. 3 -> ArraySteps]}
Arrays ==
    ArrayRuns(Decl("x", "ARRAY", None)) \union ArrayRuns(Decl("x", "ANY", ListOf(<<I(1), I(2)>>)))
      \union {<<Decl("x", "ANY", ListOf(xs)), Show(Element(0))>> : xs \in [1 .. 2 -> {I(1), F(I(2)), Lit("FLOAT64", 8), Y}]}
      \union {<<Show(At(a, i))>> : a \in {ListOf(<<I(4), I(5)>>), ListOf(<<F(I(2))>>), I(1), Chars(<<"a">>), None}, i \in {I(-1), I(0), I(1), F(I(1)), Y}}
      \union {<<Decl("x", "ANY", ListOf(<<I(1), I(2)>>)), Show(At(Tree("Grouping", "", "", <<a>>), I(1)))>> :
                a \in {X, ListOf(<<I(4), I(5)>>)}}
      \union {<<Show(At(Cond(c, ListOf(<<I(4)>>), ListOf(<<I(6)>>)), I(0)))>> : c \in Conditions}
      \union {<<Decl("x", "ARRAY", None)>> \o [i \in 1 .. n |-> DotOf("x", "insert", <<I(i)>>)]
                 \o <<Show(CallOf("len", <<X>>)), Show(Element(n - 1))>> : n \in 1 .. 9}
Glyphs == {"{", "}", "%", "d", ":", "a"}
FormatArgs == {<< >>, <<I(1)>>, <<Lit("FLOAT32", 24)>>, <<Chars(<<"b">>)>>, <<I(1), I(2)>>}
Formats ==
    {<<Println(f, args)>> : f \in UNION {[1 .. k -> Glyphs] : k \in 0 .. 4}, args \in FormatArgs}
      \union {<<DotOf("std", "print", <<Chars(f)>> \o args)>> :
                f \in UNION {[1 .. k -> Glyphs] : k \in 0 .. 3}, args \in FormatArgs \ {<<I(1)>>}}
      \union {<<DotOf("std", p, args)>> : p \in {"print", "println"},
                 args \in {<< >>} \union {<<a>> : a \in Lits} \union {<<a, b>> : a, b \in {I(1), Chars(<<"{", "}">>), ListOf(<<I(1)>>), Y}}}
Named ==
    {<<Show(DotOf("std", "max", args))>> : args \in UNION {[1 .. k -> {I(1), I(3), Lit("FLOAT64", 40)}] : k \in 0 .. 3}}
      \union {<<Show(DotOf("std", "max", [i \in 1 .. k |-> F(I(i))]))>> : k \in {8, 9}}
      \union {<<Show(DotOf("math", g, <<a>>))>> : g \in {"abs"} \union OneArgument \union TwoArguments, a \in Lits}
      \union {<<ShowInt(DotOf(m, g, <<a>>))>> : m \in {"std", "math"}, g \in {"max", "abs"}, a \in Sized}
      \union {<<ShowInt(DotOf("std", "max", <<a, b>>))>> : a, b \in Sized}
      \union {<<Show(DotOf("math", g, <<a, b>>))>> : g \in TwoArguments, a, b \in Lits}
      \union {<<Show(CallOf(g, <<a>>))>> : g \in {"f", "g", "len", "max"}, a \in Lits}
      \union {<<Show(CallOf("sizeof", <<Tree("Type", "", t, << >>)>>))>> : t \in LiteralTypes}
      \union {<<Show(DotOf("x", m, <<I(1)>>))>> : m \in {"insert", "length"}}
BlockSteps ==
    {Decl("x", "ANY", I(1)), Decl("x", "ANY", Lit("FLOAT64", 8)), Assigned("ASSIGN", X, I(2)), Show(X),
     Decl("y", "ANY", X), Show(Tree("Grouping", "", "", <<Y>>)), Assigned("ADDITION", X, I(3))}
Blocks ==
    {<<Decl("x", "ANY", I(4)), Block(s), Show(X)>> : s \in UNION {[1 .. k -> BlockSteps] : k \in 0 .. 2}}
      \union {<<Decl("x", "ANY", I(4)), Block(<<a, Block(<<b, c>>), Show(X)>>)>> : a, b, c \in BlockSteps}
Branches == {Block(<< >>), Block(<<Assigned("ASSIGN", X, I(2))>>), Block(<<Show(X)>>)}
Ifs ==
    {<<Decl("x", "ANY", I(4)), i, Show(X)>> :
        i \in {IfOf(<<c, a>>) : c \in Conditions, a \in Branches} \union {IfOf(<<c, a, b>>) : c \in Conditions, a, b \in Branches}}

MCFamilies ==
    {Operations, Nested, Declarations, Updates, Ternaries, Casts, Arrays, Formats, Named, Blocks, Ifs}
MCTails == {<< >>, <<"{", "}">>}
=============================================================================
