----------------------------- MODULE ValueTypes -----------------------------
(***************************************************************************)
(* The types of literals (XVR_LITERAL), the types of the compiler          *)
(* (core/types/xvr_type), the LLVM types they are mapped to                *)
(* (xvr_llvm_type_mapper) and the instructions a cast becomes              *)
(* (xvr_cast_emit).  A literal type is its name without the prefix; an     *)
(* LLVM type is its name, "array" for all array types and "null" for the   *)
(* null type LLVMGetElementType gives for an opaque pointer.               *)
(***************************************************************************)
EXTENDS Integers

SignedTypes == {"INTEGER", "INT8", "INT16", "INT32", "INT64"}
UnsignedTypes == {"UINT8", "UINT16", "UINT32", "UINT64"}
FloatTypes == {"FLOAT", "FLOAT16", "FLOAT32", "FLOAT64"}
LiteralTypes == SignedTypes \union UnsignedTypes \union FloatTypes
                  \union {"BOOLEAN", "STRING", "ARRAY", "NULL", "ANY", "VOID"}

\* Xvr_TypeGetFromLiteral and the kind of the type it makes.
Kind(lit) ==
    CASE lit \in SignedTypes \union UnsignedTypes -> "int"
      [] lit \in FloatTypes -> "float"
      [] lit = "BOOLEAN" -> "bool"
      [] lit = "STRING" -> "string"
      [] OTHER -> "none"

\* Xvr_TypeGetSizeBits of that type.
SizeBits(lit) ==
    CASE lit \in {"BOOLEAN", "INT8", "UINT8"} -> 8
      [] lit \in {"INT16", "UINT16", "FLOAT16"} -> 16
      [] lit \in {"INTEGER", "INT32", "UINT32", "FLOAT", "FLOAT32"} -> 32
      [] lit \in {"INT64", "UINT64", "FLOAT64"} -> 64
      [] OTHER -> 0

\* What sizeof(type) is replaced by.
SizeOf(lit) == SizeBits(lit)

IntType(bits) ==
    CASE bits = 8 -> "i8" [] bits = 16 -> "i16" [] bits = 32 -> "i32" [] OTHER -> "i64"
RealType(bits) == IF bits = 64 THEN "double" ELSE "float"

\* Xvr_LLVMTypeMapperGetType: half floats are stored as their 16 bits.
GetType(lit) ==
    CASE Kind(lit) = "int" \/ lit = "FLOAT16" -> IntType(SizeBits(lit))
      [] Kind(lit) = "float" -> RealType(SizeBits(lit))
      [] lit = "BOOLEAN" -> "i1"
      [] lit = "VOID" -> "void"
      [] OTHER -> "ptr"

IntegerLLVM == {"i1", "i8", "i16", "i32", "i64"}
RealLLVM == {"float", "double"}

\* The literal type the cast of a value is from: all that is left is its LLVM type.
SourceLiteral(ty) ==
    CASE ty = "i1" -> "BOOLEAN" [] ty = "i8" -> "INT8" [] ty = "i16" -> "INT16"
      [] ty = "i32" -> "INT32" [] ty = "i64" -> "INT64" [] ty = "float" -> "FLOAT32"
      [] ty = "double" -> "FLOAT64" [] ty = "ptr" -> "STRING" [] OTHER -> "INTEGER"

\* Xvr_CastEmitterClassify on the types literals have: no pointers among them.
Classify(from, to) ==
    LET kinds == {Kind(from), Kind(to)}
    IN  kinds \subseteq {"bool", "int", "float"} /\ kinds # {"bool"}

Instruction(op, ty) == [op |-> op, ty |-> ty]
AsIs(ty) == Instruction("none", ty)

EmitIntToInt(from, to) ==
    CASE SizeBits(from) = SizeBits(to) -> AsIs(IntType(SizeBits(to)))
      [] SizeBits(to) < SizeBits(from) -> Instruction("trunc", IntType(SizeBits(to)))
      [] OTHER -> Instruction(IF from \in UnsignedTypes THEN "zext" ELSE "sext", IntType(SizeBits(to)))

EmitIntToFloat(from, to) ==
    Instruction(IF from \in UnsignedTypes THEN "uitofp" ELSE "sitofp", RealType(SizeBits(to)))

EmitFloatToInt(from, to) ==
    Instruction(IF to \in UnsignedTypes THEN "fptoui" ELSE "fptosi", IntType(SizeBits(to)))

EmitFloatToFloat(from, to) ==
    IF SizeBits(from) = SizeBits(to) THEN AsIs(RealType(SizeBits(to)))
    ELSE Instruction("fpcast", RealType(SizeBits(to)))

EmitBoolCast(from, to) ==
    CASE Kind(to) = "int" -> Instruction("zext", IntType(SizeBits(to)))
      [] Kind(to) = "float" -> Instruction("uitofp", RealType(SizeBits(to)))
      [] OTHER -> Instruction(IF Kind(from) = "int" THEN "nonzero" ELSE "fnonzero", "i1")

\* Xvr_EmitCast: the instruction for a cast, "invalid" when it is none.
EmitCast(from, to) ==
    CASE ~Classify(from, to) -> Instruction("invalid", "null")
      [] "BOOLEAN" \in {from, to} -> EmitBoolCast(from, to)
      [] Kind(from) = "int" /\ Kind(to) = "int" -> EmitIntToInt(from, to)
      [] Kind(from) = "int" -> EmitIntToFloat(from, to)
      [] Kind(to) = "int" -> EmitFloatToInt(from, to)
      [] OTHER -> EmitFloatToFloat(from, to)
=============================================================================
