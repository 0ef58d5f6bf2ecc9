------------------------------- MODULE Lexer -------------------------------
(***************************************************************************)
(* The lexer (xvr_lexer.cpp): a cursor over the source that skips blanks   *)
(* and comments and returns one token a call.  A source is a sequence of   *)
(* one-character strings; positions count from 1.                          *)
(***************************************************************************)
EXTENDS Integers, Sequences, FiniteSetsExt, SequencesExt

CONSTANTS
    Sources,    \* the sources to scan
    Keywords    \* Xvr_keywordTypes: the spellings that are not identifiers

VARIABLES
    source,     \* lexer->source
    current,    \* lexer->current: the next character
    start,      \* lexer->start: where the last token began
    tokens,     \* the tokens returned so far
    scanning    \* "on", "done" after the end of file, "hung" in a comment

lexer == <<source, current, start, tokens, scanning>>

ASSUME SourcesAssumption == \A s \in Sources : s \in Seq(STRING)

Quote == "\""
Blank == {" ", "\r", "\n", "\t"}
Digit == {"0", "1", "2", "3", "4", "5", "6", "7", "8", "9"}
Alpha == {"a", "b", "f", "i", "n", "r", "t", "u", "x", "_"}

\* peek, peekNext: past the end there is the terminating zero.
Ch(i) == IF i \in DOMAIN source THEN source[i] ELSE "\\0"

AtEnd(i) == i > Len(source)

\* advance: it stays at the end.
Next1(i) == IF AtEnd(i) THEN i ELSE i + 1

Text(from, to) == SubSeq(source, from, to - 1)

\* The first position from i on whose character is not in S.
Past(i, S) == Min({j \in i .. Len(source) + 1 : Ch(j) \notin S})

\* The position of a loop that does not end.
Never == Len(source) + 2

\* Without a newline the comment never ends.
AfterLineMutant(i) ==
    LET ends == {j \in i .. Len(source) : source[j] = "\n"} IN IF ends = {} THEN Never ELSE Min(ends) + 1

\* Past the end of the line of i, its newline included.
AfterLine(i) ==
    Min({j + 1 : j \in {k \in i .. Len(source) : source[k] = "\n"}} \union {Len(source) + 1})

\* Past the first close of a block comment opened at i.
AfterBlock(i) ==
    LET closes == {j \in i + 2 .. Len(source) : Ch(j) = "*" /\ Ch(j + 1) = "/"}
    IN  IF closes = {} THEN Never ELSE Min(closes) + 2

\* Where a step that is repeated until it stays leads from each position.
Reached(step) ==
    LET end[i \in DOMAIN step] == IF step[i] = i THEN i ELSE end[step[i]] IN end

\* Past the blank or the comment at i, if there is one.
SkipOne(i) ==
    CASE Ch(i) \in Blank -> i + 1
      [] Ch(i) = "#" /\ start = 1 /\ Ch(i + 1) = "!" -> AfterLine(i)
      [] Ch(i) = "/" /\ Ch(i + 1) = "/" -> AfterLine(i)
      [] Ch(i) = "/" /\ Ch(i + 1) = "*" -> AfterBlock(i)
      [] OTHER -> i

(* eatWhitespace: the position of the next token. *)
EatWhitespace(i) == Reached([j \in 1 .. Never |-> SkipOne(j)])[i]

Token(type, end) == [type |-> type, end |-> end]
Error(end) == Token("error", end)

DigitValue(c) == CHOOSE v \in 0 .. 9 : c = <<"0","1","2","3","4","5","6","7","8","9">>[v + 1]

(* makeIntegerOrFloat: digits, an optional fraction, an optional suffix i, *)
(* u or f with a width; f needs the fraction, and is left in the source    *)
(* without it.                                                             *)
IntegerOrFloat(i) ==
    LET body == Digit \union {"_"}
        whole == Past(i, body)
        isFloat == Ch(whole) = "." /\ Ch(whole + 1) \in Digit
        suffixAt == IF isFloat THEN Past(whole + 1, body) ELSE whole
        suffix == Ch(suffixAt)
        end == Past(suffixAt + 1, Digit)
        width == FoldLeft(LAMBDA v, c : 10 * v + DigitValue(c), 0, Text(suffixAt + 1, end))
    IN  CASE suffix \notin {"i", "u", "f"} ->
                 Token(IF isFloat THEN "float" ELSE "integer", suffixAt)
          [] suffix = "f" /\ ~isFloat -> Error(suffixAt)
          [] OTHER -> IF width \in {8, 16, 32, 64} /\ ~(suffix = "f" /\ width = 8)
                      THEN Token("sized", end) ELSE Error(end)

\* Escapes are not looked at.
StringEndMutant(i) ==
    IF \E j \in i .. Len(source) : Ch(j) = Quote
    THEN 1 + Min({j \in i .. Len(source) : Ch(j) = Quote})
    ELSE Len(source) + 1

IsEscape(i) == Ch(i) = "\\" /\ Ch(i + 1) \in {"n", "t", "\\", Quote}

\* Past the character or the escape at i, if it is not the terminator.
InString(i) ==
    CASE AtEnd(i) \/ Ch(i) = Quote -> i
      [] IsEscape(i) -> i + 2
      [] OTHER -> i + 1

\* The position after the terminator of a string whose text goes on at i.
StringEnd(i) == Next1(Reached([j \in 1 .. Len(source) + 1 |-> InString(j)])[i])

(* makeString: a string that ends with the source counts as unterminated. *)
MakeString(i) ==
    LET end == StringEnd(i + 1)
    IN  IF AtEnd(end) THEN Error(end) ELSE Token("string", end)

KeywordOrIdentifier(i) ==
    LET end == Past(i + 1, Alpha \union Digit)
    IN  Token(IF Text(i, end) \in Keywords THEN "keyword" ELSE "identifier", end)

Doubles == {<<"+", "=">>, <<"+", "+">>, <<"-", "=">>, <<"-", "-">>, <<"*", "=">>,
            <<"/", "=">>, <<"%", "=">>, <<"!", "=">>, <<"=", "=">>, <<"<", "=">>,
            <<">", "=">>, <<"|", "|">>, <<":", ":">>}
Singles == {"(", ")", "{", "}", "[", "]", "+", "-", "*", "/", "%", "!", "=", "<", ">",
            "|", "?", ":", ";", ",", "."}

(* The punctuation of Xvr_private_scanLexer: the text is the type; a lone  *)
(* ampersand takes the next character along.                               *)
Punctuation(i) ==
    LET length == CASE Ch(i) = "." /\ Ch(i + 1) = "." /\ Ch(i + 2) = "." -> 3
                    [] <<Ch(i), Ch(i + 1)>> \in Doubles -> 2
                    [] OTHER -> 1
    IN  CASE Ch(i) = "&" -> IF Ch(i + 1) = "&" THEN Token("mark", i + 2)
                            ELSE Error(Next1(i + 1))
          [] Ch(i) \in Singles -> Token("mark", i + length)
          [] OTHER -> Error(i + 1)

TokenAt(i) ==
    CASE AtEnd(i) -> Token("eof", i)
      [] Ch(i) \in Digit -> IntegerOrFloat(i)
      [] Ch(i) \in Alpha -> KeywordOrIdentifier(i)
      [] Ch(i) = Quote -> MakeString(i)
      [] OTHER -> Punctuation(i)

LexerInit ==
    /\ source \in Sources
    /\ current = 1 /\ start = 1
    /\ tokens = << >> /\ scanning = "on"

(* Xvr_private_scanLexer, until the end of file has been returned. *)
ScanLexer ==
    /\ scanning = "on"
    /\ LET at == EatWhitespace(current)
           token == TokenAt(at)
       IN  /\ at # Never
           /\ start' = at
           /\ current' = token.end
           /\ tokens' = Append(tokens, [type |-> token.type, start |-> at, end |-> token.end])
           /\ scanning' = IF token.type = "eof" THEN "done" ELSE "on"
    /\ UNCHANGED source

(* The loop of eatWhitespace runs on the spot at the end of the source. *)
HangInComment ==
    /\ scanning = "on"
    /\ EatWhitespace(current) = Never
    /\ scanning' = "hung"
    /\ UNCHANGED <<source, current, start, tokens>>

LexerNext == ScanLexer \/ HangInComment

\* The lexer alone.
LexerSpec == LexerInit /\ [][LexerNext]_lexer

-----------------------------------------------------------------------------
(* A second reading of a source, character by character: what each one is  *)
(* part of.  Kind[i] follows from Kind[i-1] and the characters around i.   *)
Fresh(i) ==
    CASE Ch(i) = "/" /\ Ch(i + 1) = "/" -> "line"
      [] i = 1 /\ Ch(i) = "#" /\ Ch(i + 1) = "!" -> "line"
      [] Ch(i) = "/" /\ Ch(i + 1) = "*" -> "open"
      [] Ch(i) = Quote -> "quote"
      [] Ch(i) \in Blank -> "blank"
      [] OTHER -> "code"

KindAfter(before, i) ==
    LET inString == CASE Ch(i) = Quote -> "endquote"
                      [] IsEscape(i) -> "escape"
                      [] OTHER -> "string"
    IN  CASE before = "line" -> IF Ch(i - 1) = "\n" THEN Fresh(i) ELSE "line"
          [] before = "open" -> "opened"
          [] before \in {"opened", "block"} ->
                 IF Ch(i) = "*" /\ Ch(i + 1) = "/" THEN "close" ELSE "block"
          [] before = "close" -> "closed"
          [] before \in {"quote", "string", "escaped"} -> inString
          [] before = "escape" -> "escaped"
          [] OTHER -> Fresh(i)

Kind[i \in 0 .. Len(source)] == IF i = 0 THEN "blank" ELSE KindAfter(Kind[i - 1], i)

CodeKinds == {"code", "quote", "string", "escape", "escaped", "endquote"}

InToken(i) == \E t \in ToSet(tokens) : t.start <= i /\ i < t.end

\* A "#!" past the start: eatWhitespace takes it for a comment if the last token began at the start.
LateShebang == \E i \in 2 .. Len(source) : Ch(i) = "#" /\ Ch(i + 1) = "!"

\* Once a source has been scanned without an error, a character is in a token exactly when it is
\* neither blank nor in a comment: no text is skipped and no comment is read as code (eatWhitespace,
\* makeString).
TokensAreTheCode ==
    scanning = "done" /\ ~LateShebang /\ (\A t \in ToSet(tokens) : t.type # "error") =>
        \A i \in DOMAIN source :
            InToken(i) <=> Kind[i] \in CodeKinds

UnclosedComment ==
    \E i \in DOMAIN source :
        /\ Ch(i) = "/" /\ Ch(i + 1) = "*"
        /\ \A j \in i + 2 .. Len(source) : ~(Ch(j) = "*" /\ Ch(j + 1) = "/")

\* Every source is scanned to its end, but one with a comment that is never closed: eatWhitespace has
\* no test for the end of the source there.
LexingEnds == UnclosedComment \/ scanning = "idle" \/ <>(scanning = "done")
=============================================================================
