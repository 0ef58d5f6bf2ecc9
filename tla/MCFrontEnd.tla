----------------------------- MODULE MCFrontEnd -----------------------------
(***************************************************************************)
(* The lexer and the parser on small inputs.  A behaviour runs one of the  *)
(* two; the other is idle, its variables fixed.                            *)
(***************************************************************************)
EXTENDS Lexer, Parser

SeqsUpTo(n, S) == UNION {[1 .. k -> S] : k \in 0 .. n}

MCSources ==
    SeqsUpTo(4, {" ", "\n", "/", "*", "\"", "\\", "a", "1", "=", "&"})
        \union SeqsUpTo(6, {"/", "*", "\"", "a"})
        \union SeqsUpTo(4, {"1", "6", "8", "i", "u", "f", ".", "_"})
        \union SeqsUpTo(4, {"#", "!", "\n", "i", "f", "|", ":", "+"})
MCKeywords == {<<"i", "f">>}

Operand == {"0","2","2.0","id"}
Ops == {"+","-","*","/","%","<","&&","=","=="}
Arithmetical == {<<a, o, b, q, c, ";">> : a, b, c \in Operand, o, q \in Ops}
Signed == {<<s, "(", a, o, b, ")", q, c, ";">> : s \in {"-", "!"}, a, b, c \in {"0","2","2.0"}, o, q \in {"+","*","/","<"}}
Prefixed ==
    UNION {{<<u, a, o, b, q, "id", ";">>, <<a, o, u, b, q, "id", ";">>} :
              u \in {"-", "!", "typeof"}, a, b \in {"2", "id"}, o, q \in {"+", "*", "<", "&&", "=", "?"}}
Ternaries ==
    {<<"id", o, "id", "?", "id", p, "2", ":", "id", q, "id", ";">> : o, p, q \in {"+", "*", "<", "&&", "="}}
Programs == {
  <<"var","id",":","int","=","2","+","id",";">>,
  <<"var","id",":","[","int","]","=","[","2",",","id","]",";">>,
  <<"var","id",":","id","=","[","id",":","2","]",";">>,
  <<"var","id",";">>,
  <<"var","id","=","if","(","true",")","{","2",";","}","else","{","id",";","}",";">>,
  <<"if","(","id",")","id","++",";","else","if","(","id",")","{","}","else","{","}">>,
  <<"while","(","id","<","2",")","{","id","=","2",";","break",";","}">>,
  <<"for","(","var","id","=","0",";","id","<","2",";","id","++",")","continue",";">>,
  <<"for","(",";",";",")","{","}">>,
  <<"proc","id","(","id",":","int",",","id",",","...","id",")",":","int",",","id","{","return","id",",","2",";","}">>,
  <<"proc","id","(",")","{","}">>,
  <<"import","id","as","math",";">>,
  <<"assert","id","==","2",",","str",";">>,
  <<"return",";">>,
  <<"id","(","id",",","2","+","2",")",".","id","(",")",";">>,
  <<"math",".","sqrt","(","2",")",";">>,
  <<"id","[","id",":","2",":","id","]",";">>,
  <<"id","[","id","]","+","id","[",":","2","]",";">>,
  <<"id","?","2",":","id","?","0",":","2",";">>,
  <<"int","(","2.0",")","+","-","id",";">>,
  <<"++","id",";","id","+","id","++",";">>,
  <<"typeof","id","==","int",";">>,
  <<"astype","[","int",":","id","]",";">>,
  <<"id","id",";","id","2",";">>,
  <<"{","id",";","{","2",";","}","}","id",";">>
}
Edits == {"id","2",";","(",")","]","}","+","++",",",":","else","error","[",".","void","if"}
Edited(s) == {s} \union {[s EXCEPT ![i] = t] : i \in DOMAIN s, t \in Edits}
   \union {SubSeq(s, 1, i - 1) \o SubSeq(s, i + 1, Len(s)) : i \in DOMAIN s}
   \union {SubSeq(s, 1, i) : i \in DOMAIN s}
MCInputs ==
    Arithmetical \union Signed \union Prefixed \union Ternaries \union UNION {Edited(s) : s \in Programs}

\* The lexer alone, or the parser alone.
Init ==
    \/ /\ LexerInit
       /\ input = << >> /\ parser = Initial(FALSE) /\ from = parser /\ tree = Null /\ parsing = "idle"
    \/ /\ ParserInit
       /\ source = << >> /\ current = 1 /\ start = 1 /\ tokens = << >> /\ scanning = "idle"

Next == (LexerNext /\ UNCHANGED front) \/ (ParserNext /\ UNCHANGED lexer)

\* parse_to_ast calls each until it returns the end of the file.
Spec == Init /\ [][Next]_<<lexer, front>> /\ WF_lexer(LexerNext)
=============================================================================
