---------------------------- MODULE EmittedCode ----------------------------
(***************************************************************************)
(* What the emitted instructions do: LLVM's own semantics, printf's, and   *)
(* the functions of xvr_runtime.cpp they call.  A machine has the results  *)
(* of the instructions so far (regs), the stack slots, the heap's arrays,  *)
(* what was printed (out) and why it stopped (stop: "no", "abort", or      *)
(* "wild" once the behaviour is undefined).  A run-time value has its LLVM *)
(* type t, a number n (reals in sixteenths), characters or elements s and, *)
(* for a pointer, what it points to (h).                                   *)
(***************************************************************************)
EXTENDS Integers, Sequences, SequencesExt

Num(type, n) == [t |-> type, n |-> n, s |-> << >>, h |-> "num"]
Pointer(to, n) == [t |-> "ptr", n |-> n, s |-> << >>, h |-> to]
Elements(ns) == [t |-> "array", n |-> 0, s |-> ns, h |-> "elements"]
NullPointer == Pointer("null", 0)
Str(chars) == [t |-> "ptr", n |-> 1, s |-> chars, h |-> "str"]

Machine == [regs |-> << >>, slots |-> << >>, arrays |-> << >>, out |-> << >>, stop |-> "no"]

Result(m, v) == [m EXCEPT !.regs = Append(@, v)]
NoResult(m) == Result(m, Num("void", 0))
Stop(m, why) == [NoResult(m) EXCEPT !.stop = why]

Bits(type) ==
    CASE type = "i1" -> 1 [] type = "i8" -> 8 [] type = "i16" -> 16
      [] type \in {"i32", "float"} -> 32 [] OTHER -> 64

Integral(type) == type \in {"i1", "i8", "i16", "i32", "i64"}

\* Two's complement in the widths that the model's numbers can leave.
Wrap(type, n) ==
    CASE type = "i1" -> n % 2
      [] type \in {"i8", "i16"} -> ((n + 2^(Bits(type) - 1)) % 2^Bits(type)) - 2^(Bits(type) - 1)
      [] OTHER -> n

\* An operand: a constant of the instruction or the result of an earlier one.
Operand(m, x) ==
    CASE x.r # 0 -> m.regs[x.r]
      [] x.t # "ptr" -> Num(x.t, Wrap(x.t, x.n))
      [] x.n = 0 -> NullPointer
      [] OTHER -> Str(x.s)

Abs(n) == IF n < 0 THEN -n ELSE n
TruncatedDiv(a, b) == IF (a < 0) = (b < 0) THEN Abs(a) \div Abs(b) ELSE -(Abs(a) \div Abs(b))

Compute(op, a, b) ==
    CASE op \in {"add", "fadd"} -> a + b
      [] op \in {"sub", "fsub"} -> a - b
      [] op = "mul" -> a * b
      [] op = "fmul" -> TruncatedDiv(a * b, 16)
      [] op = "sdiv" -> TruncatedDiv(a, b)
      [] op = "fdiv" -> TruncatedDiv(16 * a, b)
      [] op \in {"srem", "frem"} -> a - b * TruncatedDiv(a, b)
      [] op = "and" -> IF a # 0 /\ b # 0 THEN 1 ELSE 0
      [] op = "or" -> IF a # 0 \/ b # 0 THEN 1 ELSE 0
Divides == {"sdiv", "srem", "fdiv", "frem"}

Truth(b) == IF b THEN 1 ELSE 0
Compare(pred, a, b) ==
    Truth(CASE pred = "LESS" -> a < b [] pred = "LESS_EQUAL" -> a <= b
            [] pred = "GREATER" -> a > b [] pred = "GREATER_EQUAL" -> a >= b
            [] pred = "EQUAL" -> a = b [] pred = "NOT_EQUAL" -> a # b)

\* The bits of an integer of that type, read without its sign.
UnsignedValue(v) == IF v.n < 0 /\ v.t \in {"i8", "i16"} THEN v.n + 2^Bits(v.t) ELSE v.n

Convert(op, type, v) ==
    CASE op = "zext" -> UnsignedValue(v)
      [] op \in {"sext", "fpcast"} -> v.n
      [] op = "trunc" -> Wrap(type, v.n)
      [] op = "sitofp" -> 16 * v.n
      [] op = "uitofp" -> 16 * UnsignedValue(v)
      [] op \in {"fptosi", "fptoui"} -> Wrap(type, TruncatedDiv(v.n, 16))
      [] op \in {"nonzero", "fnonzero"} -> Truth(v.n # 0)
Conversions == {"zext", "sext", "fpcast", "trunc", "sitofp", "uitofp", "fptosi", "fptoui", "nonzero", "fnonzero"}

\* The address of an element of the array in a slot.
Address(m, p, i) == IF p.h = "slot" THEN Result(m, [Pointer("element", p.n) EXCEPT !.s = <<i.n>>]) ELSE Stop(m, "wild")

(* A load in another type than what the slot holds: a narrower integer reads
   the low bytes.  A load outside of the array in the slot reads what is
   beside it. *)
Load(m, type, p) ==
    LET v == m.slots[p.n]
        i == p.s[1] + 1
    IN  CASE p.h = "element" -> IF i \in DOMAIN v.s THEN Result(m, Num(type, v.s[i])) ELSE Stop(m, "wild")
          [] p.h # "slot" -> Stop(m, "wild")
          [] v.t = type -> Result(m, v)
          [] v = NullPointer -> Result(m, Num(type, 0))
          [] Integral(type) /\ Integral(v.t) /\ Bits(type) <= Bits(v.t) -> Result(m, Num(type, Wrap(type, v.n)))
          [] OTHER -> Stop(m, "wild")

\* A store of a wider value than the slot overwrites what is beside it.
Store(m, v, p) ==
    CASE p.h # "slot" -> Stop(m, "wild")
      [] Bits(v.t) > Bits(m.slots[p.n].t) -> Stop(m, "wild")
      [] OTHER -> [NoResult(m) EXCEPT !.slots[p.n] = v]

IntConversions == {"d", "i", "u", "o", "x", "X", "c"}
RealConversions == {"f", "F", "e", "E", "g", "G"}

\* What a conversion, long after a letter l, takes its argument for.
Takes(c, long) ==
    CASE c \in IntConversions -> IF long THEN "long" ELSE "int"
      [] c \in RealConversions -> "real" [] c = "s" -> "str" [] c = "p" -> "ptr" [] OTHER -> "none"

\* An integer of up to 32 bits is passed as an int.
NumberClass(type) ==
    CASE type \in {"i1", "i8", "i16", "i32"} -> "int" [] type = "i64" -> "long" [] type = "double" -> "real" [] OTHER -> "none"
ArgumentClass(v) == IF v.t = "ptr" THEN (IF v.h = "str" THEN "str" ELSE "ptr") ELSE NumberClass(v.t)

(* What printf prints of an argument: characters, or a number.  A narrow
   integer is passed without being extended: printf reads its own bits with
   zeroes above them. *)
Char(c) == [t |-> "char", n |-> 0, s |-> <<c>>]
Number(class, n) == [t |-> class, n |-> n, s |-> << >>]
Shown(v) ==
    CASE v.h = "str" -> [i \in DOMAIN v.s |-> Char(v.s[i])]
      [] v.t \in {"i1", "i8", "i16"} -> <<Number("int", v.n % 2^Bits(v.t))>>
      [] OTHER -> <<Number(ArgumentClass(v), v.n)>>

(* printf: what it prints, and false when a conversion is not one, has no
   argument or one of another class.  Letters l may precede a conversion. *)
RECURSIVE Format(_, _, _)
Format(f, i, args) ==
    LET long == i + 2 <= Len(f) /\ f[i + 1] = "l"
        next == IF long THEN i + 3 ELSE i + 2
        c == IF i + 1 > Len(f) THEN "0" ELSE f[next - 1]
        class == Takes(c, long)
        bad == [out |-> << >>, ok |-> FALSE]
        with(items, rest) == [rest EXCEPT !.out = items \o @]
    IN  CASE i > Len(f) -> [out |-> << >>, ok |-> TRUE]
          [] f[i] # "%" -> with(<<Char(f[i])>>, Format(f, i + 1, args))
          [] c = "%" -> with(<<Char("%")>>, Format(f, i + 2, args))
          [] args = << >> -> bad
          [] class # ArgumentClass(args[1]) /\ ~(class = "ptr" /\ args[1].t = "ptr") -> bad
          [] OTHER -> with(Shown(args[1]), Format(f, next, Tail(args)))

Printf(m, args) ==
    LET printed == Format(args[1].s, 1, Tail(args))
    IN  IF args[1].h = "str" /\ printed.ok THEN [Result(m, Num("i32", 0)) EXCEPT !.out = @ \o printed.out]
        ELSE Stop(m, "wild")

\* xvr_string_concat: a null pointer counts as an empty string.
Concat(m, x, y) == IF {x.h, y.h} \subseteq {"str", "null"} THEN Result(m, Str(x.s \o y.s)) ELSE Stop(m, "wild")

\* xvr_array_create_int
CreateInt(m) ==
    [Result(m, Pointer("array", Len(m.arrays) + 1)) EXCEPT
        !.arrays = Append(@, [data |-> << >>, capacity |-> 0])]

\* xvr_array_insert_int: a full array is doubled first, an empty one gets room for four.
GrownMutant(capacity) == IF capacity = 0 THEN 4 ELSE capacity
Grown(capacity) == IF capacity = 0 THEN 4 ELSE 2 * capacity
InsertInt(m, p, v) ==
    LET a == m.arrays[p.n]
        room == IF Len(a.data) >= a.capacity THEN Grown(a.capacity) ELSE a.capacity
    IN  CASE p.h = "array" ->
               [NoResult(m) EXCEPT !.arrays[p.n] = [data |-> Append(a.data, v.n), capacity |-> room]]
          [] p.h = "null" -> NoResult(m)
          [] OTHER -> Stop(m, "wild")

\* xvr_array_len, xvr_array_get_int, xvr_array_set_int: they abort outside of the array.
LenInt(m, p) ==
    CASE p.h = "array" -> Result(m, Num("i32", Len(m.arrays[p.n].data)))
      [] p.h = "null" -> Result(m, Num("i32", 0))
      [] OTHER -> Stop(m, "wild")
OutOfBounds(a, i) == a.data = << >> \/ i < 0 \/ i >= Len(a.data)
GetInt(m, p, i) ==
    CASE p.h = "null" -> Result(m, Num("i32", 0))
      [] p.h # "array" -> Stop(m, "wild")
      [] OutOfBounds(m.arrays[p.n], i.n) -> Stop(m, "abort")
      [] OTHER -> Result(m, Num("i32", m.arrays[p.n].data[i.n + 1]))
SetInt(m, p, i, v) ==
    CASE p.h = "null" -> NoResult(m)
      [] p.h # "array" -> Stop(m, "wild")
      [] OutOfBounds(m.arrays[p.n], i.n) -> Stop(m, "abort")
      [] OTHER -> [NoResult(m) EXCEPT !.arrays[p.n].data[i.n + 1] = v.n]

\* Functions on reals: the rounding ones, the remainder, any fixed function for the others.
Floor(n) == 16 * (n \div 16)
MathValue(name, ns) ==
    CASE name = "floor" -> Floor(ns[1])
      [] name = "ceil" -> -Floor(-ns[1])
      [] name = "trunc" -> 16 * TruncatedDiv(ns[1], 16)
      [] name = "round" -> 16 * TruncatedDiv(ns[1] + (IF ns[1] < 0 THEN -8 ELSE 8), 16)
      [] name = "abs" -> Abs(ns[1])
      [] name = "fmod" -> Compute("frem", ns[1], ns[2])
      [] name = "pow" -> ns[1] + 3 * ns[2]
      [] OTHER -> ns[1] + 1

\* A call of function f; a procedure of the program prints its argument and gives it back.
CallFunction(m, i, args) ==
    CASE i.f = "printf" -> Printf(m, args)
      [] i.f = "xvr_string_concat" -> Concat(m, args[1], args[2])
      [] i.f = "xvr_array_create_int" -> CreateInt(m)
      [] i.f = "xvr_array_insert_int" -> InsertInt(m, args[1], args[2])
      [] i.f = "xvr_array_len" -> LenInt(m, args[1])
      [] i.f = "xvr_array_get_int" -> GetInt(m, args[1], args[2])
      [] i.f = "xvr_array_set_int" -> SetInt(m, args[1], args[2], args[3])
      [] i.f = "f" -> [Result(m, args[1]) EXCEPT !.out = @ \o Shown(args[1])]
      [] OTHER -> Result(m, Num(i.ty, MathValue(i.f, [k \in DOMAIN args |-> args[k].n])))

\* The machine after instruction i.
Step(m, i) ==
    LET a == [k \in DOMAIN i.a |-> Operand(m, i.a[k])]
    IN  CASE i.op = "alloca" -> [Result(m, Pointer("slot", Len(m.slots) + 1)) EXCEPT
                                    !.slots = Append(@, Num(i.ty, 0))]
          [] i.op = "load" -> Load(m, i.ty, a[1])
          [] i.op = "store" -> Store(m, a[1], a[2])
          [] i.op = "call" -> CallFunction(m, i, a)
          [] i.op \in {"icmp", "fcmp"} -> Result(m, Num("i1", Compare(i.f, a[1].n, a[2].n)))
          [] i.op = "select" -> Result(m, IF a[1].n # 0 THEN a[2] ELSE a[3])
          [] i.op = "constarray" -> Result(m, Elements([k \in DOMAIN a |-> a[k].n]))
          [] i.op = "gep" -> Address(m, a[1], a[2])
          [] i.op \in Conversions -> Result(m, Num(i.ty, Convert(i.op, i.ty, a[1])))
          [] i.op \in Divides /\ a[2].n = 0 -> Stop(m, "wild")
          [] OTHER -> Result(m, Num(i.ty, Wrap(i.ty, Compute(i.op, a[1].n, a[2].n))))
=============================================================================
