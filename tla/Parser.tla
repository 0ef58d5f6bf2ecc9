------------------------------- MODULE Parser -------------------------------
(***************************************************************************)
(* The parser (xvr_parser.cpp): recursive descent with a Pratt table for   *)
(* expressions, constant folding while the tree is built, and panic mode.  *)
(* Tokens are classes: tokens the parser treats alike have one name.  Each *)
(* function of the code is an operator from a parser state p to the state  *)
(* after it (field p) and the node it leaves in its handle (field h).      *)
(***************************************************************************)
EXTENDS ParseTree, FiniteSets

CONSTANTS Inputs    \* the token sequences to parse

VARIABLES
    input,      \* the tokens the lexer returns, without the end of file
    parser,     \* at: the index of current; panic, error; live: nodes allocated and not freed;
                \* wild: a handle that holds no node was freed or followed; third: the third parts
                \* of indexes, which nothing points to any more; junk, folding: see below
    from,       \* the parser before the last call of Xvr_scanParser
    tree,       \* what that call returned
    parsing     \* "on", "done" when the call returned NULL

front == <<input, parser, from, tree, parsing>>

Ids == {"id", "math", "sqrt"}
Numbers == {"0", "2", "2.0"}
Starters == {"assert", "break", "class", "continue", "else", "for", "if", "import", "print",
             "return", "var", "while"}

Tok(i) == CASE i = 0 -> "null" [] i \in DOMAIN input -> input[i] [] OTHER -> "eof"
Cur(p) == Tok(p.at)
Prev(p) == Tok(p.at - 1)

R(p, h) == [p |-> p, h |-> h]
WithoutError(r) == [p |-> r.p, h |-> r.h, ok |-> TRUE]
Op(p, h, op) == [p |-> p, h |-> h, op |-> op]
New(p, n) == R([p EXCEPT !.live = @ + 1], n)
Freed(p, n) == [p EXCEPT !.live = @ - Size(n), !.wild = @ \/ ReachesWild(n)]
FreedAll(p, ns) == FoldLeft(LAMBDA q, n : Freed(q, n), p, ns)
Followed(p, n) == [p EXCEPT !.wild = @ \/ ~IsNode(n)]

(* error: the first of a panic is printed, all of them are recorded.       *)
Fail(p) == [p EXCEPT !.panic = TRUE, !.error = TRUE]

\* At the end the lexer goes on returning the end of file.
Reported(p) == IF Cur(p) = "error" THEN Fail(p) ELSE p
Advance(p) == Reported([p EXCEPT !.at = IF @ > Len(input) + 1 THEN @ ELSE @ + 1])

Match(p, t) == IF Cur(p) = t THEN Advance(p) ELSE p
ConsumeIn(p, T) == IF Cur(p) \in T THEN Advance(p) ELSE Fail(p)
Consume(p, t) == ConsumeIn(p, {t})
ConsumeSemicolon(p) ==
    IF Cur(p) = ";" THEN Advance(p) ELSE IF Cur(p) \in {"}", "eof"} THEN p ELSE Fail(p)
Terminated(r) == R(ConsumeSemicolon(r.p), r.h)

(* synchronize: to a token that can start a line; the end leaves the panic on. *)
RECURSIVE Synchronize(_)
Synchronize(p) ==
    CASE Cur(p) = "eof" -> p
      [] Cur(p) \in Starters -> [p EXCEPT !.panic = FALSE]
      [] OTHER -> Synchronize(Advance(p))

-----------------------------------------------------------------------------
(* parseRules: the precedences, and the tokens with a prefix rule.         *)
NONE == 0
ASSIGNMENT == 1
TERNARY == 2
OR == 3
AND == 4
COMPARISON == 5
TERM == 6
FACTOR == 7
CALL == 9
PRIMARY == 10

Types == {"int"}                                  \* the types a cast may name
Atoms == {"null", "void", "true", "type", "2i8"} \union Numbers

HasPrefix(t) ==
    t \in Atoms \union Types \union Ids \union
          {"str", "badstr", "if", "print", "astype", "typeof", "-", "!", "++", "(", "["}

Precedence(t) ==
    CASE t \in Atoms \union Ids \union {"str", "badstr"} -> PRIMARY
      [] t \in Types \union {"print", "astype", "typeof", "++", "(", "[", "!", "."} -> CALL
      [] t \in {"*", "/", "%"} -> FACTOR
      [] t \in {"+", "-"} -> TERM
      [] t \in {"==", "<"} -> COMPARISON
      [] t = "&&" -> AND
      [] t = "||" -> OR
      [] t = "?" -> TERNARY
      [] t \in {"=", "+=", "if"} -> ASSIGNMENT
      [] OTHER -> NONE

HasInfix(t) ==
    Precedence(t) # NONE /\ t \notin {"null", "void", "type", "if", "astype", "typeof", "!"} \union Types

BinaryTokens == {"+", "-", "*", "/", "%", "=", "+=", "==", "<", "&&", "||"}

\* Mutant: a product reads its right operand at the level of a sum.
RightRuleMutant(t) == IF t \in {"*", "/", "%"} THEN TERM ELSE Precedence(t)

\* binary: the right operand is read at the operator's own precedence.
RightRule(t) == Precedence(t)

RECURSIVE Declaration(_), ParsePrecedence(_, _, _), Infixes(_, _), Prefix(_, _), Infix(_),
          ReadType(_), IfChain(_), Statements(_, _), Elements(_, _, _, _), Arguments(_, _),
          ReturnValues(_, _), Params(_, _), ReturnTypes(_, _)

(* readTypeToLiteral: h is "type", "ident" or, after an error, "null".     *)
\* const may follow a type.
Const(p) == R(Match(p, "const"), "type")
ArrayTail(p) == Const(Consume(IF Cur(p) = ":" THEN ReadType(Advance(p)).p ELSE p, "]"))
ReadType(p0) ==
    LET p == Advance(p0)
        t == Prev(p)
    IN  CASE t \in {"null", "void", "proc", "any", "type"} \union Types -> Const(p)
          [] t = "[" -> ArrayTail(ReadType(p).p)
          [] t \in Ids -> R(Match(p, "const"), "ident")
          [] OTHER -> R(Fail(p), "null")

-----------------------------------------------------------------------------
(* Constant folding.  A float counts sixteenths, exact on the inputs here. *)
TruncDiv(a, b) ==
    LET q == (IF a < 0 THEN -a ELSE a) \div (IF b < 0 THEN -b ELSE b)
    IN  IF (a < 0) = (b < 0) THEN q ELSE -q

Boolean(b) == Literal("bool", IF b THEN 1 ELSE 0)
Arithmetic == {"+", "-", "*", "/", "%"}
Comparisons == {"==", "<"}

\* The result of an operation of two ints, or two floats, whose divisor is not zero.
Result(type, op, a, b) ==
    CASE op = "+" -> Literal(type, a + b)
      [] op = "-" -> Literal(type, a - b)
      [] op = "*" -> Literal(type, IF type = "int" THEN a * b ELSE TruncDiv(a * b, 16))
      [] op = "/" -> Literal(type, TruncDiv(IF type = "int" THEN a ELSE a * 16, b))
      [] op = "%" -> Literal(type, a - b * TruncDiv(a, b))
      [] op = "==" -> Boolean(a = b)
      [] op = "<" -> Boolean(a < b)

\* The type of the int is changed, its value is not converted.
CoercedMutant(a, other) == IF a.o = "int" /\ other.o = "float" THEN Literal("float", a.v) ELSE a

\* The operands after the coercion of an int beside a float.
Coerced(a, other) ==
    IF a.o = "int" /\ other.o = "float" THEN Literal("float", 16 * a.v) ELSE a

(* calcStaticBinaryArithmetic: ok is its return value.                     *)
RECURSIVE Fold(_, _)
FoldOperand(p, n) == IF n.k = "Binary" THEN Fold(p, n) ELSE WithoutError(R(p, n))
Folded(p, n, lit) == WithoutError(R(FreedAll(p, n.c), lit))

\* The node n with its folded operands; lhs and rhs are the operands coerced.
FoldNode(p, n, lhs, rhs) ==
    LET numeric == lhs.o = rhs.o /\ lhs.o \in {"int", "float"}
    IN  CASE \E i \in {1, 2} : n.c[i].k # "Literal" -> WithoutError(R(p, n))
          [] lhs.o = "str" /\ rhs.o = "str" /\ n.o = "+" -> Folded(p, n, Literal("str", 0))
          [] \/ n.o = "%" /\ "float" \in {lhs.o, rhs.o}
             \/ numeric /\ n.o \in {"/", "%"} /\ rhs.v = 0 -> [p |-> Fail(p), h |-> n, ok |-> FALSE]
          [] OTHER -> IF numeric THEN Folded(p, n, Result(lhs.o, n.o, lhs.v, rhs.v))
                      ELSE WithoutError(R(p, n))

FoldOperands(n, l, r) == FoldNode(r.p, [n EXCEPT !.c = <<l.h, r.h>>], Coerced(l.h, r.h), Coerced(r.h, l.h))
FoldSecond(n, l) == FoldOperands(n, l, FoldOperand(l.p, n.c[2]))

Fold(p, n) ==
    IF n.o \notin Arithmetic \union Comparisons THEN WithoutError(R(p, n))
    ELSE FoldSecond(n, FoldOperand(p, n.c[1]))

NumericTypes == {"int", "float", "fixed"}
MathFunctions == {"sqrt"}    \* sqrt, sin, ... fmod: 26 names with a domain each

\* The argument is in the domain the function is folded on.
InMathDomain(fn, args) == fn = "sqrt" => args[1].v >= 0

(* calcStaticMathFn: the left operand of the right operand is read through *)
(* the binary view of a call, whose first pointer is the arguments.        *)
MathFold(r) ==
    LET n == r.h
        call == n.c[2]
    IN  IF /\ n.k = "Binary" /\ n.o = "DOT"
           /\ n.c[1].k = "Literal" /\ n.c[1].o = "math"
           /\ call.k = "FnCall"
           /\ Len(call.c[1].c) \in {1, 2}
           /\ call.c[1].k = "Literal" /\ call.c[1].o \in MathFunctions
           /\ \A i \in DOMAIN call.c[1].c : call.c[1].c[i].o \in NumericTypes
           /\ InMathDomain(call.c[1].o, call.c[1].c)
        THEN R(Freed(Freed(r.p, n.c[1]), call), Literal("float", 0))
        ELSE r

\* dottify: calls chained below become dot calls; a binary node's operands are followed.
RECURSIVE Dottified(_), BadDots(_)
Dottified(n) ==
    IF n.k # "Binary" THEN n
    ELSE [n EXCEPT !.o = IF @ = "FN_CALL" THEN "DOT" ELSE @,
                   !.c = <<Dottified(@[1]), Dottified(@[2])>>]
BadDots(n) == ~IsNode(n) \/ (n.k = "Binary" /\ (BadDots(n.c[1]) \/ BadDots(n.c[2])))

-----------------------------------------------------------------------------
(* The prefix rules.  h0 is what the handle holds before: a rule that      *)
(* fails without setting it leaves it as it was.                           *)
Value(t) == CASE t = "0" -> 0 [] t = "2" -> 2 [] t = "2.0" -> 32 [] OTHER -> 1
LiteralType(t) ==
    CASE t \in {"0", "2"} -> "int" [] t = "2.0" -> "float" [] t = "2i8" -> "fixed"
      [] t = "true" -> "bool" [] t = "void" -> "void" [] OTHER -> t

Atomic(p, h0) ==
    CASE Prev(p) = "type" -> New(Match(p, "const"), Literal("type", 1))
      [] Prev(p) \in Atoms \ {"void", "type"} ->
             New(p, Literal(LiteralType(Prev(p)), Value(Prev(p))))
      [] OTHER -> R(Fail(p), h0)

TypeLiteral(t, h0) == IF t.h = "type" THEN New(t.p, Literal("type", 1)) ELSE R(Fail(t.p), h0)
AsType(p, h0) == TypeLiteral(ReadType(p), h0)

TypeOf(p) ==
    LET rhs == ParsePrecedence(p, Null, TERNARY) IN New(rhs.p, Node("Unary", "typeof", <<rhs.h>>))

\* string: a bad escape is reported and the rest of the string kept.
StringRule(p) == New(IF Prev(p) = "badstr" THEN Fail(p) ELSE p, Literal("str", 0))

Grouping(p, h0) ==
    LET e == ParsePrecedence(p, h0, TERNARY)
    IN  New(Consume(e.p, ")"), Node("Grouping", "", <<e.h>>))

\* unary: a negated number literal and an inverted boolean literal are folded.
Unary(p, h0) ==
    LET minus == Prev(p) = "-"
        e == ParsePrecedence(p, Null, IF minus THEN TERM ELSE CALL)
        lit == e.h.k = "Literal"
    IN  CASE minus /\ lit /\ e.h.o \in {"int", "float"} -> R(e.p, [e.h EXCEPT !.v = -@])
          [] minus /\ lit /\ e.h.o = "bool" -> R(Fail(e.p), h0)
          [] ~minus /\ lit /\ e.h.o = "bool" -> R(e.p, [e.h EXCEPT !.v = 1 - @])
          [] OTHER -> New(e.p, Node("Unary", IF minus THEN "-" ELSE "!", <<e.h>>))

\* castingPrefix: type(expression), or the type alone.
CastingPrefix(p, h0) ==
    LET e == ParsePrecedence(Advance(p), Null, ASSIGNMENT)
    IN  CASE Cur(p) # "(" -> New(p, Literal("type", 1))
          [] e.p.panic \/ e.h = Null -> R(Freed(e.p, e.h), h0)
          [] OTHER -> New(Consume(e.p, ")"), Node("Cast", "", <<e.h>>))

\* incrementPrefix, decrementPrefix: the identifier's own node is freed again.
IncrementPrefix(p, h0) ==
    LET q == Advance(p)
    IN  CASE Prev(q) \notin Ids -> R(Fail(q), h0)
          [] q.panic -> R(q, h0)
          [] OTHER -> New(q, Leaf("PrefixInc", Prev(q)))

Kept(e, h0) == IF e.h = Null THEN R(e.p, h0) ELSE e
IfExpression(p, h0) == Kept(IfChain(p), h0)

\* compound: the elements of an array or dictionary up to the bracket.
Elements(p, kind, kids, h0) ==
    LET q == IF kids # << >> THEN Consume(p, ",") ELSE p
        left == ParsePrecedence(q, Null, PRIMARY)
        right == ParsePrecedence(Advance(left.p), Null, PRIMARY)
    IN  CASE Cur(p) = "]" ->
                 New(Advance(p), Node("Compound", IF kind = "none" THEN "array" ELSE kind, kids))
          [] Cur(p) # "]" /\ kids = << >> /\ Cur(p) = ":" ->
                 New(Consume(Advance(p), "]"), Node("Compound", "dictionary", << >>))
          [] left.h = Null -> R(left.p, h0)    \* what was read so far is lost
          [] Cur(left.p) = ":" /\ right.h = Null -> R(Freed(right.p, left.h), h0)
          [] Cur(left.p) = ":" /\ kind = "array" ->
                 R(FreedAll(Fail(right.p), Append(kids, left.h) \o <<right.h>>), h0)
          [] Cur(left.p) = ":" ->
                 Elements([right.p EXCEPT !.live = @ + 1], "dictionary",
                          Append(kids, Node("Pair", "", <<left.h, right.h>>)), h0)
          [] kind = "dictionary" -> R(FreedAll(Fail(left.p), Append(kids, left.h)), h0)
          [] OTHER -> Elements(left.p, "array", Append(kids, left.h), h0)

Prefix(p, h0) ==
    LET t == Prev(p)
    IN  CASE t \in Atoms -> Atomic(p, h0)
          [] t \in Types -> CastingPrefix(p, h0)
          [] t \in Ids \union {"print"} -> New(p, Name(t))
          [] t \in {"str", "badstr"} -> StringRule(p)
          [] t \in {"-", "!"} -> Unary(p, h0)
          [] t = "++" -> IncrementPrefix(p, h0)
          [] t = "(" -> Grouping(p, h0)
          [] t = "[" -> Elements(p, "none", << >>, h0)
          [] t = "if" -> IfExpression(p, h0)
          [] t = "astype" -> AsType(p, h0)
          [] t = "typeof" -> TypeOf(p)

-----------------------------------------------------------------------------
(* The infix rules: the right-hand side and the opcode; EOF ends the       *)
(* expression and replaces what was read of it.                            *)
Binary(p) ==
    LET rhs == ParsePrecedence(Advance(p), Null, RightRule(Cur(p))) IN Op(rhs.p, rhs.h, Cur(p))

\* castingInfix: two operands side by side are a type cast.
CastingInfix(p) ==
    LET q == Advance(p)
        t == Cur(p)
        cast(lit) == Op(lit.p, lit.h, "TYPE_CAST")
    IN  CASE t \in Ids -> cast(New(q, Name(t)))
          [] t \in {"true", "str", "badstr"} \union Numbers -> cast(Atomic(q, Null))
          [] OTHER -> Op(Fail(q), Null, "EOF")

\* incrementInfix, decrementInfix: the operand is the token before.
IncrementInfix(p) ==
    CASE Prev(p) \notin Ids -> Op(Fail(p), Null, "EOF")
      [] p.panic -> Op(p, Null, "EOF")
      [] OTHER -> LET q == New(Advance(p), Leaf("PostfixInc", Prev(p))) IN Op(q.p, q.h, "EOF")

(* fnCall: the arguments after a left parenthesis, h.k = "Null" after an   *)
(* error.                                                                  *)
MoreArguments(e, kids) ==
    CASE e.h = Null -> R(Fail(e.p), Null)
      [] Cur(e.p) = "," -> Arguments(Advance(e.p), Append(kids, e.h))
      [] OTHER -> R(Consume(e.p, ")"), Node("FnCollection", "", Append(kids, e.h)))

Arguments(p, kids) == MoreArguments(ParsePrecedence(p, Null, TERNARY), kids)

Called(args) ==
    IF args.h = Null THEN Op(args.p, Null, "EOF")
    ELSE Op([args.p EXCEPT !.live = @ + 2], Node("FnCall", "", <<args.h>>), "FN_CALL")

FnCall(p) ==
    LET q == Advance(p)
    IN  Called(CASE Prev(q) # "(" -> R(Fail(q), Null)
                 [] Cur(q) = ")" -> R(Advance(q), Node("FnCollection", "", << >>))
                 [] OTHER -> Arguments(q, << >>))

\* The separating colon is always eaten.
Bound(p, h0) == LET e == ParsePrecedence(p, h0, TERNARY) IN R(Match(e.p, ":"), e.h)

(* indexAccess: up to three parts, each a blank literal to begin with that *)
(* is freed before the part is read into the same handle.                  *)
BlankPart == Literal("blank", 0)
Index(p, parts) == Op(p, Node("Index", "", parts), "INDEX")

IndexThird(first, second) ==
    LET third == ParsePrecedence(Freed(second.p, BlankPart), Wild, TERNARY)
    IN  IF Cur(second.p) = "]"
        THEN Index(Freed(Advance(second.p), BlankPart), <<first.h, second.h, Null>>)
        ELSE Index(Consume(third.p, "]"), <<first.h, second.h, third.h>>)

IndexSecond(read, first) ==
    LET p == first.p
        end == Freed(Advance(p), BlankPart)
    IN  CASE Cur(p) = "]" /\ read -> Index(Freed(end, BlankPart), <<first.h, Null, Null>>)
          [] Cur(p) = "]" /\ ~read -> Index(end, <<first.h, BlankPart, Null>>)
          [] Cur(p) = ":" -> IndexThird(first, R(Advance(p), BlankPart))
          [] OTHER -> IndexThird(first, Bound(Freed(p, BlankPart), Wild))

IndexAccess(p0) ==
    LET p == [Advance(p0) EXCEPT !.live = @ + 4]     \* the three blanks and the index
    IN  IF Cur(p) # ":" THEN IndexSecond(TRUE, Bound(Freed(p, BlankPart), Wild))
        ELSE IndexSecond(FALSE, R(Advance(p), BlankPart))

Question(p) ==
    LET then == ParsePrecedence(Advance(p), Null, TERNARY)
        else == ParsePrecedence(Consume(then.p, ":"), Null, TERNARY)
        node == New(else.p, Node("Ternary", "", <<Null, then.h, else.h>>))
    IN  Op(node.p, node.h, "TERNARY")

\* The second pointer of a node read as a binary one: its right operand, the second part of an index,
\* the then path of an if; of any other node, whatever is stored there (junk).
RightWordIsNull(p, n) ==
    IF n.k \in {"Binary", "Index", "If"} THEN n.c[2] = Null ELSE p.junk

Dot(p) ==
    LET e == ParsePrecedence(Advance(p), Null, CALL)
    IN  IF e.h = Null \/ RightWordIsNull(e.p, e.h) THEN Op(Fail(e.p), Null, "EOF")
        ELSE Op(e.p, e.h, "DOT")

Infix(p) ==
    LET t == Cur(p)
    IN  CASE t \in BinaryTokens -> Binary(p)
          [] t = "++" -> IncrementInfix(p)
          [] t \in {"(", "print"} -> FnCall(p)
          [] t = "[" -> IndexAccess(p)
          [] t = "?" -> Question(p)
          [] t = "." -> Dot(p)
          [] OTHER -> CastingInfix(p)

\* The left operand is folded in one node at a time.
AfterFold(fold) == IF fold.ok THEN WithoutError(MathFold(R(fold.p, fold.h))) ELSE fold
Joined(p, left, right, op) ==
    LET node == New(p, Node("Binary", op, <<left, right>>))
    IN  CASE p.panic -> WithoutError(node)
          [] p.folding -> AfterFold(Fold(node.p, node.h))
          [] OTHER -> AfterFold(WithoutError(node))

\* The loop of parsePrecedence goes on unless the folding failed.
GoOn(joined, rule) ==
    IF joined.ok THEN Infixes(R(joined.p, joined.h), rule) ELSE R(joined.p, joined.h)

\* What an infix rule read (i) is attached to what was read before (r).
Attached(r, i, rule) ==
    CASE i.op = "EOF" -> R(Freed(i.p, r.h), i.h)
      [] i.op = "TERNARY" -> Infixes(R(i.p, [i.h EXCEPT !.c[1] = r.h]), rule)
      [] i.op = "INDEX" ->
             Infixes(R([i.p EXCEPT !.third = Append(@, i.h.c[3])],
                       [i.h EXCEPT !.c = <<r.h, i.h.c[1], i.h.c[2]>>]), rule)
      [] OTHER ->
             LET dot == i.op = "DOT"
             IN  GoOn(Joined([i.p EXCEPT !.wild = @ \/ (dot /\ BadDots(i.h))], r.h,
                             IF dot THEN Dottified(i.h) ELSE i.h, i.op), rule)

Infixes(r, rule) ==
    LET p == r.p
    IN  CASE rule > Precedence(Cur(p)) ->
                 IF rule <= ASSIGNMENT /\ Cur(p) = "=" THEN R(Fail(Advance(p)), r.h) ELSE r
          [] ~HasInfix(Cur(p)) -> R(Fail(p), Null)
          [] OTHER -> Attached(r, Infix(p), rule)

\* A token without a prefix rule is not consumed.
ParsePrecedenceMutant(p, h0, rule) ==
    IF HasPrefix(Cur(p)) THEN Infixes(Prefix(Advance(p), h0), rule) ELSE R(Fail(p), Null)

ParsePrecedence(p, h0, rule) ==
    LET q == Advance(p)
    IN  IF HasPrefix(Prev(q)) THEN Infixes(Prefix(q, h0), rule) ELSE R(Fail(q), Null)

Expression(p) == ParsePrecedence(p, Null, ASSIGNMENT)

-----------------------------------------------------------------------------
(* The statements.                                                         *)

\* Declarations up to the brace; a panic ends them with what there is, ok FALSE.
Statements(p, kids) ==
    LET d == Declaration(p)
    IN  CASE Cur(p) = "}" -> [p |-> Advance(p), h |-> Node("Block", "", kids), ok |-> TRUE]
          [] d.p.panic -> [p |-> d.p, h |-> Node("Block", "", kids), ok |-> FALSE]
          [] OTHER -> Statements(Followed(d.p, d.h), Append(kids, d.h))

\* The block is allocated twice.
BlockStmtMutant(p) == LET b == Statements(p, << >>) IN R([b.p EXCEPT !.live = @ + 2], b.h)

\* blockStmt: after the left brace.
BlockStmt(p) == LET b == Statements(p, << >>) IN New(b.p, b.h)

\* assertStmt: the two operands are read into a node allocated before, never set to null.
AssertMessage(l) ==
    LET r == ParsePrecedence(Consume(l.p, ","), Wild, TERNARY)
    IN  R(ConsumeSemicolon(r.p), Node("Binary", "ASSERT", <<l.h, r.h>>))
AssertStmt(p) == AssertMessage(ParsePrecedence([p EXCEPT !.live = @ + 1], Wild, TERNARY))

\* A branch of an if: a block in braces or one declaration.
Branch(p) ==
    IF Cur(p) = "{" THEN [Statements(Advance(p), << >>) EXCEPT !.p.live = @ + 1]
    ELSE WithoutError(Declaration(p))

(* parseIfChain: after a panic in a braced branch it returns null and      *)
(* leaves its nodes behind.                                                *)
IfNode(cond, then, else) ==
    CASE ~then.ok -> R(then.p, Null)
      [] ~else.ok -> R(else.p, Null)
      [] OTHER -> New(else.p, Node("If", "statement", <<cond.h, then.h, else.h>>))

Else(p) ==
    LET q == Advance(p)
    IN  CASE Cur(p) # "else" -> WithoutError(R(p, Null))
          [] Cur(q) = "if" -> WithoutError(IfChain(Advance(q)))
          [] OTHER -> Branch(q)

Then(cond, then) == IfNode(cond, then, Else(then.p))
Condition(cond) == Then(cond, Branch(Consume(cond.p, ")")))

IfChain(p) == Condition(ParsePrecedence(Consume(p, "("), Null, TERNARY))

\* whileStmt.
WhileBody(cond) ==
    LET then == Declaration(Consume(cond.p, ")"))
    IN  New(then.p, Node("While", "", <<cond.h, then.h>>))
WhileStmt(p) == WhileBody(ParsePrecedence(Consume(p, "("), Null, TERNARY))

\* forStmt, from its last part to its first.
ForBody(pre, cond, post) ==
    LET then == Declaration(Consume(post.p, ")"))
    IN  New(then.p, Node("For", "", <<pre.h, cond.h, post.h, then.h>>))

ForPost(pre, cond) ==
    LET q == Consume(cond.p, ";")
    IN  ForBody(pre, cond, IF Cur(q) # ")" THEN ParsePrecedence(q, Null, ASSIGNMENT)
                           ELSE New(q, Leaf("Pass", "")))

ForCond(pre) ==
    ForPost(pre, IF Cur(pre.p) # ";" THEN ParsePrecedence(pre.p, Null, TERNARY)
                 ELSE New(pre.p, Boolean(TRUE)))

ForStmt(p) ==
    LET q == Consume(p, "(")
    IN  ForCond(IF Cur(q) # ";" THEN Declaration(q) ELSE New(Advance(q), Leaf("Pass", "")))

\* breakStmt, continueStmt.
JumpStmt(p, kind) == Terminated(New(p, Leaf(kind, "")))

\* returnStmt: what follows one value.
MoreValues(e, kids) ==
    CASE e.h = Null -> R(Fail(e.p), Null)
      [] Cur(e.p) = "," -> ReturnValues(Advance(e.p), Append(kids, e.h))
      [] OTHER -> R(ConsumeSemicolon(e.p), Node("FnCollection", "", Append(kids, e.h)))

\* The values before a comma are dropped.
ReturnValuesMutant(p, kids) == MoreValues(ParsePrecedence(p, Null, TERNARY), << >>)

ReturnValues(p, kids) == MoreValues(ParsePrecedence(p, Null, TERNARY), kids)

Returned(values) ==
    IF values.h = Null THEN values
    ELSE R([values.p EXCEPT !.live = @ + 2], Node("FnReturn", "", <<values.h>>))

ReturnStmt(p) ==
    IF Cur(p) = ";" THEN Returned(R(Advance(p), Node("FnCollection", "", << >>)))
    ELSE Returned(ReturnValues(p, << >>))

(* importStmt: the alias is read through the identifier's node unchecked.  *)
ImportStmt(p0) ==
    LET p == Advance(p0)
        q == Advance(Advance(p))
        aliased == Cur(p) = "as"
        bad == [Fail(q) EXCEPT !.wild = TRUE]
    IN  CASE Prev(p) \notin Ids -> R(Fail(p), Null)
          [] aliased /\ Prev(q) \notin Ids -> R(bad, Null)
          [] OTHER -> Terminated(New(IF aliased THEN q ELSE p,
                                     Leaf("Import", IF aliased THEN "as" ELSE "")))

ExpressionStmt(p) ==
    IF Cur(p) = ";" THEN New(Advance(p), Literal("null", 1)) ELSE Terminated(Expression(p))

Statement(p) ==
    LET q == Advance(p)
        t == Cur(p)
    IN  CASE t = "{" -> BlockStmt(q)
          [] t = "assert" -> AssertStmt(q)
          [] t = "if" -> IfChain(q)
          [] t = "while" -> WhileStmt(q)
          [] t = "for" -> ForStmt(q)
          [] t = "break" -> JumpStmt(q, "Break")
          [] t = "continue" -> JumpStmt(q, "Continue")
          [] t = "return" -> ReturnStmt(q)
          [] t = "import" -> ImportStmt(q)
          [] OTHER -> ExpressionStmt(p)

\* An optional type after a colon.
TypeOrAny(p) == IF Cur(p) = ":" THEN ReadType(Advance(p)) ELSE R(p, "type")

\* The declaration of a variable with the value e.
VarNode(type, e) ==
    LET value == IF e.h.k = "If" THEN [e.h EXCEPT !.o = "expression"] ELSE e.h
    IN  Terminated(New(e.p, Node("VarDecl", type, <<value>>)))

\* Without an initialiser the expression stays null.
VarDeclMutant(p) ==
    LET type == TypeOrAny(ConsumeIn(p, Ids))
    IN  VarNode(type.h, IF Cur(type.p) = "=" THEN Expression(Advance(type.p)) ELSE R(type.p, Null))

(* varDecl: an if that initialises a variable is marked as an expression.  *)
VarDecl(p) ==
    LET type == TypeOrAny(ConsumeIn(p, Ids))
    IN  VarNode(type.h, IF Cur(type.p) = "=" THEN Expression(Advance(type.p))
                        ELSE New(type.p, Literal("null", 1)))

\* The parameters after the left parenthesis; a rest parameter is the last.
NewParam(type) == New(type.p, Node("Param", type.h, <<Null>>))
MoreParams(param, kids) ==
    IF Cur(param.p) = "," THEN Params(Advance(param.p), Append(kids, param.h))
    ELSE R(Consume(param.p, ")"), Append(kids, param.h))

Params(p, kids) ==
    LET name == ConsumeIn(Match(p, "..."), Ids)
        last == NewParam(R(name, "type"))
    IN  IF Cur(p) = "..." THEN R(Consume(last.p, ")"), Append(kids, last.h))
        ELSE MoreParams(NewParam(TypeOrAny(name)), kids)

MoreTypes(type, kids) ==
    IF Cur(type.p) = "," THEN ReturnTypes(Advance(type.p), Append(kids, type.h))
    ELSE R(type.p, Append(kids, type.h))
TypeNode(type) == New(type.p, Literal(type.h, 1))

ReturnTypes(p, kids) == MoreTypes(TypeNode(ReadType(p)), kids)

\* fnDecl, from its last part to its first.
FnBody(params, returns) ==
    LET body == BlockStmt(Consume(returns.p, "{"))
    IN  R([body.p EXCEPT !.live = @ + 3],
          Node("FnDecl", "", <<Node("FnCollection", "", params.h),
                               Node("FnCollection", "", returns.h), body.h>>))

FnReturns(params) ==
    FnBody(params, IF Cur(params.p) = ":" THEN ReturnTypes(Advance(params.p), << >>)
                   ELSE R(params.p, << >>))

FnDecl(p) ==
    LET open == Consume(ConsumeIn(p, Ids), "(")
    IN  FnReturns(IF Cur(open) = ")" THEN R(Advance(open), << >>) ELSE Params(open, << >>))

Declaration(p) ==
    CASE Cur(p) = "var" -> VarDecl(Advance(p))
      [] Cur(p) = "proc" -> FnDecl(Advance(p))
      [] OTHER -> Statement(p)

-----------------------------------------------------------------------------
Initial(junk) == [at |-> 0, panic |-> FALSE, error |-> FALSE, live |-> 0, wild |-> FALSE,
                  third |-> << >>, junk |-> junk, folding |-> TRUE]

(* Xvr_initParser; junk is what a pointer read from a node of another kind *)
(* happens to be (TRUE: null), one choice for a run.                       *)
ParserInit ==
    /\ input \in Inputs
    /\ \E junk \in BOOLEAN : parser = Advance(Initial(junk))
    /\ from = parser /\ tree = Null /\ parsing = "on"

\* A tree that held an error is freed, the error node put in its place.
Recovered(d) ==
    IF d.p.panic THEN New(Freed(Synchronize(d.p), d.h), Leaf("Error", "")) ELSE d
Scanned(p) == Recovered(Declaration(p))

(* Xvr_scanParser; its caller owns the tree and frees it before the next.  *)
ScanParser ==
    /\ parsing = "on"
    /\ Cur(parser) # "eof"
    /\ from' = [parser EXCEPT !.live = 0, !.third = << >>]
    /\ \E r \in {Scanned(from')} : parser' = r.p /\ tree' = r.h
    /\ UNCHANGED <<input, parsing>>

EndOfInput ==
    /\ parsing = "on"
    /\ Cur(parser) = "eof"
    /\ parsing' = "done"
    /\ UNCHANGED <<input, parser, from, tree>>

ParserNext == ScanParser \/ EndOfInput

-----------------------------------------------------------------------------
(* The properties, on the last tree and the tokens it was made of.         *)

ScannedTree == tree # Null /\ parsing = "on"
Clean == ScannedTree /\ ~parser.error
Consumed == SubSeq(input, from.at, parser.at - 1)

\* A tree returned without an error has every child that the code generator follows without a test,
\* and no handle without a node was freed or followed on the way (the handles of parsePrecedence).
CompleteUnlessError == Clean => Complete(tree) /\ ~parser.wild

\* Every node allocated for a tree without an error is reached from it, so that its caller frees all
\* of them; the exception is the third part of an index (parsePrecedence).
NothingLostUnlessError ==
    Clean => parser.live = Size(tree) + FoldLeft(LAMBDA s, n : s + Size(n), 0, parser.third)

Names(n) ==
    CASE n.k = "Literal" /\ n.o \in Ids \union {"ident"} -> 1
      [] n.k \in {"VarDecl", "Param"} -> IF n.o = "ident" THEN 2 ELSE 1
      [] n.k = "Import" -> IF n.o = "as" THEN 2 ELSE 1
      [] n.k \in {"FnDecl", "PrefixInc", "PostfixInc"} -> 1
      [] OTHER -> 0

RECURSIVE AllNames(_)
AllNames(n) == FoldLeft(LAMBDA s, m : s + AllNames(m), Names(n), n.c)

\* A type of arrays, whose element types are in a literal and not in the tree.
ArrayType ==
    \E i \in 2 .. Len(Consumed) : Consumed[i] = "[" /\ Consumed[i - 1] \in {":", ",", "astype"}

\* An increment after two operands side by side: their cast is freed with the first of them.
IncrementedCast ==
    \E i \in 2 .. Len(Consumed) - 1 :
        /\ Consumed[i - 1] \in Atoms \union Ids \union {"str", ")", "]"}
        /\ Consumed[i] \in Ids /\ Consumed[i + 1] = "++"

\* Every identifier of a statement parsed without an error is in its tree: no operand is dropped or
\* read twice by the Pratt loop (parsePrecedence), the declarations or the statements.
OperandsAreKept ==
    Clean /\ ~ArrayType /\ ~IncrementedCast =>
        AllNames(Node("", "", <<tree>> \o parser.third)) =
            Len(SelectSeq(Consumed, LAMBDA t : t \in Ids))

RECURSIVE Subtrees(_)
Subtrees(n) == {n} \union UNION {Subtrees(n.c[i]) : i \in DOMAIN n.c}

IsBinary(m) == m.k = "Binary" /\ m.o \in BinaryTokens

\* The level of a node's operator, and the one the operand of a unary operator is read at.
Level(m) == CASE IsBinary(m) -> Precedence(m.o) [] m.k = "Ternary" -> TERNARY [] OTHER -> PRIMARY
OperandLevel(o) == CASE o = "-" -> TERM [] o = "!" -> CALL [] o = "typeof" -> TERNARY

\* The levels of the operators whose last operand ends the node, each of which could take what follows.
RECURSIVE Ending(_)
Ending(m) ==
    CASE IsBinary(m) \/ m.k = "Ternary" -> {Level(m)} \union Ending(m.c[Len(m.c)])
      [] m.k = "Unary" -> {OperandLevel(m.o)} \union Ending(m.c[1])
      [] OTHER -> {PRIMARY}

(* The grouping of operators without parentheses is the one their levels
   decide (the loop of parsePrecedence, the table of rules, binary, unary,
   question): an operator binds less tightly than every operator its left
   operand ends in, and no more tightly than its right one.  It is not that of
   arithmetic: operators of one level group to the right, a - b - c as
   a - (b - c), although a comment of the loop calls the rules left-recursive
   (xvr_parser.cpp:2036); a minus takes a whole sum, -a + b as -(a + b) and
   a * -b + c as a * (-(b + c)) (xvr_parser.cpp:496); typeof takes a whole
   comparison.  Calls, indexes and casts are operands here. *)
GroupedByLevel ==
    Clean => \A m \in Subtrees(tree) :
        /\ IsBinary(m) \/ m.k = "Ternary" => \A l \in Ending(m.c[1]) : l > Level(m)
        /\ IsBinary(m) => Level(m.c[2]) >= Level(m)
        /\ m.k = "Unary" => Level(m.c[1]) >= OperandLevel(m.o)

(* What a tree of numbers computes, in sixteenths, read from the operators' meaning alone.          *)
Meaning(type, n) == [type |-> type, n |-> n]
Operate(op, a, b) ==
    LET type == IF "float" \in {a.type, b.type} THEN "float" ELSE "int"
    IN  CASE op = "+" -> Meaning(type, a.n + b.n)
          [] op = "-" -> Meaning(type, a.n - b.n)
          [] op = "*" -> Meaning(type, TruncDiv(a.n * b.n, 16))
          [] op = "/" -> Meaning(type, IF type = "int" THEN 16 * TruncDiv(a.n, b.n)
                                       ELSE TruncDiv(16 * a.n, b.n))
          [] op = "%" -> Meaning(type, a.n - b.n * TruncDiv(a.n, b.n))
          [] op = "==" -> Meaning("bool", IF a.n = b.n THEN 1 ELSE 0)
          [] op = "<" -> Meaning("bool", IF a.n < b.n THEN 1 ELSE 0)

Undefined == Meaning("none", 0)
RECURSIVE Evaluate(_)
Evaluate(n) ==
    LET kid(i) == Evaluate(n.c[i])
        numeric(m) == m.type \in {"int", "float"}
    IN  CASE n.k = "Literal" /\ n.o \in {"int", "float", "bool"} ->
                 Meaning(n.o, IF n.o = "int" THEN 16 * n.v ELSE n.v)
          [] n.k = "Grouping" -> kid(1)
          [] n.k = "Unary" /\ n.o = "-" /\ numeric(kid(1)) -> Operate("-", Meaning("int", 0), kid(1))
          [] n.k = "Unary" /\ n.o = "!" /\ kid(1).type = "bool" -> Meaning("bool", 1 - kid(1).n)
          [] n.k = "Binary" /\ n.o \in Arithmetic \union Comparisons ->
                 IF numeric(kid(1)) /\ numeric(kid(2)) /\ (n.o \in {"/", "%"} => kid(2).n # 0)
                 THEN Operate(n.o, kid(1), kid(2)) ELSE Undefined
          [] OTHER -> Undefined

\* An expression of numbers means the same after the folding of its constants as the tree that is
\* built without any folding (calcStaticBinaryArithmetic, unary).
FoldingKeepsTheValue ==
    Clean => LET plain == Evaluate(Scanned([from EXCEPT !.folding = FALSE]).h)
             IN  plain # Undefined => Evaluate(tree) = plain

\* Every call of Xvr_scanParser consumes a token, whatever is wrong with it: the compiler, which calls
\* until the end of the file, always comes to it.
ScansAdvance == [][parser'.at > parser.at]_<<parser, from, tree>>
=============================================================================
