------------------------------ MODULE MCLexer ------------------------------
(***************************************************************************)
(* Instances of Lexer for TLC: every text over a few characters of every   *)
(* sort, and longer texts written from lists of tokens.                    *)
(***************************************************************************)
EXTENDS Lexer

MCLetters == {"a", "b", "c", "d", "e", "f", "h", "i", "k", "l", "m", "n", "o", "r", "s", "t",
              "u", "v", "w"}
MCDigits  == {"0", "1", "2", "3"}

Sorts == {"i", "f", "1", ".", "\"", "'", "\\", "/", "<", "=", "&", " ", "\n"}
ShortTexts == UNION {[1..n -> Sorts] : n \in 0..4}

\* Tokens as [type, value], spelled with every separator between them.
Chars(type, cs) == [type |-> type, cs |-> cs]
Samples ==
  {Chars("KEYWORD", <<"i", "f">>), Chars("IDENTIFIER", <<"i", "f", "1">>),
   Chars("BOOL_LIT", <<"t", "r", "u", "e">>), Chars("IDENTIFIER", <<"_">>),
   Chars("NUMBER", <<"1", "0">>), Chars("FLOAT_LIT", <<"1", ".", "0", "1">>),
   Chars("STRING_LIT", <<"i", "\\", "\"", "/", "/">>), Chars("STRING_LIT", <<"\n">>),
   Chars("CHAR_LIT", <<"'">>), Chars("CHAR_LIT", <<"\\">>),
   Chars("SYMBOL", <<"=">>), Chars("SYMBOL", <<"=", "=">>), Chars("SYMBOL", <<"/">>)}
Separators == {<<" ">>, <<"\n">>, <<" ", "/", "/", "\"", "\n">>}

Spelled(s) ==
  CASE s.type = "STRING_LIT" -> <<"\"">> \o s.cs \o <<"\"">>
    [] s.type = "CHAR_LIT" -> <<"'", "\\">> \o s.cs \o <<"'">>
    [] OTHER -> s.cs
WrittenTexts ==
  {Spelled(a) \o x \o Spelled(b) \o y \o Spelled(d) :
     a \in Samples, b \in Samples, d \in Samples, x \in Separators, y \in Separators}

MCTexts == ShortTexts \cup WrittenTexts

=============================================================================
