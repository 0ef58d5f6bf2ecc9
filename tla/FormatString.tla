---------------------------- MODULE FormatString ----------------------------
(***************************************************************************)
(* Format strings (xvr_format_string.cpp): a string with {} placeholders   *)
(* is parsed against the number of arguments, turned into a printf format  *)
(* and its conversions are then adjusted to the types of the arguments.    *)
(* A string is a sequence of characters, its end reads as "0"; beyond the  *)
(* end lies Memory, whatever follows the string's buffer.                  *)
(***************************************************************************)
EXTENDS Integers, Sequences

\* MAX_PLACEHOLDERS: the table Parse fills, without ever comparing with it.
CONSTANT MaxPlaceholders

ASSUME MaxPlaceholdersAssumption == MaxPlaceholders \in Nat \ {0}

CharAt(f, i) == IF i \in DOMAIN f THEN f[i] ELSE "0"

\* The first position from i on whose character is in S, or 0.
FirstFrom(f, i, S) ==
    LET hits == {j \in i .. Len(f) : f[j] \in S}
    IN  IF hits = {} THEN 0 ELSE CHOOSE j \in hits : \A k \in hits : j <= k

Closing(f, i) == FirstFrom(f, i, {"}"})

\* Mutant: any brace is taken for a pair.
SkipEscapedMutant(f, i) == IF CharAt(f, i) \in {"{", "}"} THEN i + 2 ELSE i

\* skip_escaped_brace: one pair is skipped, and what follows is not looked at again.
SkipEscaped(f, i) ==
    IF CharAt(f, i) \in {"{", "}"} /\ CharAt(f, i + 1) = CharAt(f, i) THEN i + 2 ELSE i

\* The type of a placeholder: only one with a specifier has another than INT.
PlaceholderType(f, i) ==
    CASE CharAt(f, i + 1) # ":" -> "INT"
      [] CharAt(f, i + 2) \in {"f", "F", "e", "E", "g", "G"} -> "DOUBLE"
      [] CharAt(f, i + 2) = "s" -> "STRING"
      [] CharAt(f, i + 2) = "p" -> "POINTER"
      [] CharAt(f, i + 2) = "b" -> "BOOL"
      [] OTHER -> "INT"

(* The first pass of XvrFormatStringParse from position i on: the types of
   the placeholders; ok is false for a placeholder without an end; past is
   true when a pair at the very end makes the scan step over the terminator. *)
RECURSIVE Count(_, _, _)
Count(f, i, types) ==
    LET p == SkipEscaped(f, i)
        more == Append(types, PlaceholderType(f, p))
    IN  CASE CharAt(f, i) = "0" -> [types |-> types, ok |-> TRUE, past |-> i > Len(f) + 1]
          [] CharAt(f, p) # "{" -> Count(f, p + 1, types)
          [] Closing(f, p + 1) = 0 -> [types |-> types, ok |-> FALSE, past |-> p > Len(f)]
          [] OTHER -> Count(f, Closing(f, p + 1) + 1, more)

\* format_type_to_printf
Conversion(type) ==
    CASE type = "INT" -> <<"%", "d">>
      [] type \in {"FLOAT", "DOUBLE"} -> <<"%", "l", "f">>
      [] type \in {"STRING", "BOOL"} -> <<"%", "s">>
      [] OTHER -> <<"%", "p">>

(* The second pass: the printf format.  A doubled brace becomes a pair of
   braces; a specifier is copied with all that follows it in the string,
   unless that is 32 characters long or the buffer (room) is too small. *)
RECURSIVE Rewrite(_, _, _, _, _)
Rewrite(f, i, n, types, out) ==
    LET room == 2 * Len(f) + 1 - Len(out)
        end == Closing(f, i + 1)
        spec == SubSeq(f, i + 2, Len(f))
        copied == IF Len(spec) < 32 /\ room > Len(spec) + 2 THEN <<"%">> \o spec ELSE << >>
        type == IF n \in DOMAIN types THEN types[n] ELSE "INT"
    IN  CASE i > Len(f) -> out
          [] f[i] = "{" /\ CharAt(f, i + 1) = "{" -> Rewrite(f, i + 2, n, types, out \o <<"{", "}">>)
          [] f[i] = "}" /\ CharAt(f, i + 1) = "}" -> Rewrite(f, i + 2, n, types, out \o <<"}", "}">>)
          [] f[i] # "{" \/ end = 0 -> Rewrite(f, i + 1, n, types, Append(out, f[i]))
          [] OTHER -> Rewrite(f, end + 1, n + 1, types,
                              out \o IF CharAt(f, i + 1) = ":" THEN copied ELSE Conversion(type))

\* XvrFormatStringParse with the bytes after the string's end.
Parse(f, memory, argCount) ==
    LET inside == Count(f, 1, << >>)
        counted == IF inside.past THEN Count(f \o <<"0">> \o memory, Len(f) + 2, inside.types) ELSE inside
    IN  [valid |-> counted.ok /\ Len(counted.types) = argCount,
         count |-> Len(counted.types),
         overrun |-> Len(counted.types) > MaxPlaceholders,
         past |-> inside.past,
         format |-> Rewrite(f, 1, 1, counted.types, << >>)]

ConversionChars == {"d", "i", "u", "o", "x", "X", "f", "F", "e", "E", "g", "G", "c", "s", "p", "n"}

(* XvrFormatStringBuildPrintfFormat: every % up to the next conversion
   character is taken for a placeholder, a literal one too, and replaced
   unless its argument is an INT. *)
RECURSIVE Build(_, _, _, _)
Build(f, i, n, types) ==
    LET end == FirstFrom(f, i, ConversionChars)
        kept == SubSeq(f, i, end)
        type == IF n \in DOMAIN types THEN types[n] ELSE "INT"
    IN  CASE i > Len(f) -> << >>
          [] f[i] # "%" \/ i = Len(f) -> <<f[i]>> \o Build(f, i + 1, n, types)
          [] f[i + 1] = "%" -> <<"%", "%">> \o Build(f, i + 2, n, types)
          [] end = 0 -> <<"%">>
          [] OTHER -> (IF type = "INT" THEN kept ELSE Conversion(type)) \o Build(f, end + 1, n + 1, types)
=============================================================================
