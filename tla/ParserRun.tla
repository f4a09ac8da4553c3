----------------------------- MODULE ParserRun -----------------------------
(***************************************************************************)
(* What the parser must do with a program as it is written, and with one   *)
(* in which a token is missing, superfluous or another, or which is cut    *)
(* off.                                                                    *)
(*                                                                         *)
(* An origin is [program, how, first, last, braces]: the functions that    *)
(* were written, what happened to the text ("none", "drop", "insert",      *)
(* "replace" or "cut"), the place of the damaged function in it, and       *)
(* whether its braces are as they were.                                    *)
(***************************************************************************)
EXTENDS Parser

-----------------------------------------------------------------------------
(***************************************************************************)
(* What a tree of each sort is made of.                                    *)
(***************************************************************************)
LOCAL BinaryNames == {"ADD", "SUB", "MUL", "DIV", "MOD", "LT", "LE", "GT", "GE", "EQ", "NE", "AND", "OR"}
LOCAL UnaryNames  == {"NOT", "NEG", "INC", "DEC"}

RECURSIVE IsExpr(_), IsStmt(_)

IsExpr(e) ==
  \/ e[1] \in Literals \cup {"var"} /\ Len(e) = 2
  \/ e[1] = "idx" /\ IsExpr(e[2]) /\ IsExpr(e[3])
  \/ e[1] = "=" /\ e[2][1] \in {"var", "idx"} /\ IsExpr(e[2]) /\ IsExpr(e[3])
  \/ e[1] = "bin" /\ e[2] \in BinaryNames /\ IsExpr(e[3]) /\ IsExpr(e[4])
  \/ e[1] = "un" /\ e[2] \in UnaryNames /\ IsExpr(e[3]) /\ e[4] \in BOOLEAN
  \/ e[1] = "call" /\ IsExpr(e[2]) /\ \A k \in DOMAIN e[3] : IsExpr(e[3][k])

IsExprOrNone(e) == e = Absent \/ IsExpr(e)

IsDecl(d) == d[2] \in Nat /\ IsExprOrNone(d[3]) /\ d[5] \in BOOLEAN

IsCase(c) == IsExprOrNone(c[1]) /\ \A k \in DOMAIN c[2] : IsStmt(c[2][k])

IsStmt(s) ==
  \/ s[1] \in {"expr", "return"} /\ IsExprOrNone(s[2])
  \/ s[1] \in {"break", "continue"}
  \/ s[1] = "if" /\ IsExpr(s[2]) /\ IsStmt(s[3]) /\ (s[4] = Absent \/ IsStmt(s[4]))
  \/ s[1] = "while" /\ IsExpr(s[2]) /\ IsStmt(s[3])
  \/ s[1] = "for" /\ (\A k \in 2..4 : IsExprOrNone(s[k])) /\ IsStmt(s[5])
  \/ s[1] = "switch" /\ IsExpr(s[2]) /\ \A k \in DOMAIN s[3] : IsCase(s[3][k])
  \/ s[1] = "block" /\ (\A k \in DOMAIN s[2] : IsDecl(s[2][k])) /\ \A k \in DOMAIN s[3] : IsStmt(s[3][k])

IsFunction(f) == Len(f.params) = Len(f.ptypes) /\ f.body[1] = "block" /\ IsStmt(f.body)

-----------------------------------------------------------------------------
(***************************************************************************)
(* The tokens of a syntax tree, written as a C programmer would: with as   *)
(* few parentheses as C's precedence and associativity allow.  This is the *)
(* reference for the parser, and stands for no code of the repository.     *)
(***************************************************************************)
RECURSIVE JoinAll(_)
JoinAll(ss) == IF ss = <<>> THEN <<>> ELSE Head(ss) \o JoinAll(Tail(ss))

\* Items separated by commas.
Commas(ss) ==
  JoinAll([k \in DOMAIN ss |-> IF k = 1 THEN ss[k] ELSE <<Sym(",")>> \o ss[k]])

\* C's table: how tightly each operator binds, and its spelling.
Tightness(op) ==
  CASE op = "OR" -> 1 [] op = "AND" -> 2 [] op \in {"EQ", "NE"} -> 3
    [] op \in {"LT", "GT", "LE", "GE"} -> 4 [] op \in {"ADD", "SUB"} -> 5
    [] op \in {"MUL", "DIV", "MOD"} -> 6
Spelling(op) ==
  CASE op = "OR" -> "||" [] op = "AND" -> "&&" [] op = "EQ" -> "==" [] op = "NE" -> "!="
    [] op = "LT" -> "<" [] op = "GT" -> ">" [] op = "LE" -> "<=" [] op = "GE" -> ">="
    [] op \in {"ADD"} -> "+" [] op \in {"SUB", "NEG"} -> "-" [] op = "MUL" -> "*"
    [] op = "DIV" -> "/" [] op = "MOD" -> "%" [] op = "NOT" -> "!" [] op = "INC" -> "++"
    [] op = "DEC" -> "--"
Class(kind) ==
  CASE kind = "int" -> "NUMBER" [] kind = "float" -> "FLOAT_LIT" [] kind = "bool" -> "BOOL_LIT"
    [] kind = "char" -> "CHAR_LIT" [] kind = "string" -> "STRING_LIT"

\* 0 an assignment, 1..6 the binary operators, 7 a prefix, 8 anything tighter.
Bind(e) ==
  CASE e[1] = "=" -> 0 [] e[1] = "bin" -> Tightness(e[2])
    [] e[1] = "un" -> IF e[4] THEN 8 ELSE 7
    [] OTHER -> 8

RECURSIVE Written(_), InParens(_, _), StmtText(_), DeclText(_), CaseText(_)

\* e where at least the given tightness is called for.
InParens(e, least) ==
  IF Bind(e) >= least THEN Written(e) ELSE <<Sym("(")>> \o Written(e) \o <<Sym(")")>>

Written(e) ==
  CASE e[1] = "var" -> <<<<"IDENTIFIER", e[2]>>>>
    [] e[1] = "=" -> InParens(e[2], 8) \o <<Sym("=")>> \o InParens(e[3], 0)
    [] e[1] = "bin" ->
         InParens(e[3], Tightness(e[2])) \o <<Sym(Spelling(e[2]))>>
           \o InParens(e[4], Tightness(e[2]) + 1)
    [] e[1] = "un" -> IF e[4] THEN InParens(e[3], 8) \o <<Sym(Spelling(e[2]))>>
                      ELSE <<Sym(Spelling(e[2]))>> \o InParens(e[3], 7)
    [] e[1] = "idx" -> InParens(e[2], 8) \o <<Sym("[")>> \o Written(e[3]) \o <<Sym("]")>>
    [] e[1] = "call" ->
         InParens(e[2], 8) \o <<Sym("(")>> \o Commas([k \in DOMAIN e[3] |-> Written(e[3][k])])
           \o <<Sym(")")>>
    [] OTHER -> <<<<Class(e[1]), e[2]>>>>

Maybe(e) == IF e = Absent THEN <<>> ELSE Written(e)
LOCAL Semi == <<Sym(";")>>
LOCAL Paren(ts) == <<Sym("(")>> \o ts \o <<Sym(")")>>
LOCAL Braced(ts) == <<Sym("{")>> \o ts \o <<Sym("}")>>

CaseText(c) ==
  (IF c[1] = Absent THEN <<Kw("default")>> ELSE <<Kw("case"), <<"NUMBER", c[1][2]>>>>)
    \o <<Sym(":")>> \o JoinAll([k \in DOMAIN c[2] |-> StmtText(c[2][k])])

DeclText(d) ==
  (IF d[5] THEN <<Kw("const")>> ELSE <<>>) \o <<Kw(d[4]), <<"IDENTIFIER", d[1]>>>>
    \o (IF d[2] = 0 THEN <<>> ELSE <<Sym("["), <<"NUMBER", d[2]>>, Sym("]")>>)
    \o (IF d[3] = Absent THEN <<>> ELSE <<Sym("=")>> \o Written(d[3])) \o Semi

StmtText(s) ==
  CASE s[1] = "expr" -> Maybe(s[2]) \o Semi
    [] s[1] = "if" ->
         <<Kw("if")>> \o Paren(Written(s[2])) \o StmtText(s[3])
           \o (IF s[4] = Absent THEN <<>> ELSE <<Kw("else")>> \o StmtText(s[4]))
    [] s[1] = "while" -> <<Kw("while")>> \o Paren(Written(s[2])) \o StmtText(s[3])
    [] s[1] = "for" ->
         <<Kw("for")>> \o Paren(Maybe(s[2]) \o Semi \o Maybe(s[3]) \o Semi \o Maybe(s[4]))
           \o StmtText(s[5])
    [] s[1] = "switch" ->
         <<Kw("switch")>> \o Paren(Written(s[2]))
           \o Braced(JoinAll([k \in DOMAIN s[3] |-> CaseText(s[3][k])]))
    [] s[1] = "return" -> <<Kw("return")>> \o Maybe(s[2]) \o Semi
    [] s[1] \in {"break", "continue"} -> <<Kw(s[1])>> \o Semi
    [] s[1] = "block" ->
         Braced(JoinAll([k \in DOMAIN s[2] |-> DeclText(s[2][k])])
                  \o JoinAll([k \in DOMAIN s[3] |-> StmtText(s[3][k])]))

FunctionText(f) ==
  <<Kw(f.ret), <<"IDENTIFIER", f.name>>>>
    \o Paren(Commas([k \in DOMAIN f.params |->
                       <<Kw(f.ptypes[k]), <<"IDENTIFIER", f.params[k]>>>>]))
    \o StmtText(f.body)

ProgramText(fs) == JoinAll([k \in DOMAIN fs |-> FunctionText(fs[k])])

-----------------------------------------------------------------------------

Braces == {Sym("{"), Sym("}")}

\* A program that is written is read: operators bind as in C, an else belongs
\* to the nearest if, and every statement is the one that was meant
\* (parser.py:269-586).
RoundTrip == Done /\ origin.how = "none" => errors = <<>> /\ Functions = origin.program

\* What is accepted is what stands there: no token is skipped or made up
\* without an error, whatever is damaged.  Parentheses that are not needed leave
\* no trace in a tree, and a block has its declarations before its statements,
\* wherever they are written (parser.py:225-239).  Only the closing braces may
\* be missing where a text is cut off (see UnbalancedRejected).
AcceptedIsWritten ==
  Done /\ errors = <<>> =>
    LET text == ProgramText(Functions)
        count(ts, t) == Len(SelectSeq(ts, LAMBDA u : u = t))
        bare == ({text[k] : k \in DOMAIN text} \cup {tokens[k] : k \in DOMAIN tokens})
                  \ {Sym("("), Sym(")")}
        cut  == IF origin.how = "cut" THEN {Sym("}")} ELSE {}
    IN  \A t \in bare \ cut : count(text, t) = count(tokens, t)

\* Damage stays where it is: every function found is a whole tree, and as long
\* as the braces are whole, the functions before and after the damaged one are
\* found, each with its own tree, and nothing outside the damaged one is
\* complained of (parser.py:173-181).
FunctionsKept ==
  Done =>
    LET n == Len(origin.program)
        fs == Functions
    IN  /\ \A k \in DOMAIN fs : IsFunction(fs[k])
        /\ origin.how # "none" /\ origin.braces =>
             /\ Len(fs) >= 2
             /\ fs[1] = origin.program[1] /\ fs[Len(fs)] = origin.program[n]
             /\ \A k \in DOMAIN errors : errors[k] \in origin.first..origin.last

\* "ill-formed programs surface ParseError": where braces do not pair up there
\* is an error.
UnbalancedRejected ==
  LET count(b) == Len(SelectSeq(tokens, LAMBDA t : t = Sym(b)))
  IN  Done /\ errors = <<>> => count("{") = count("}")

\* The text is in the language.
Accepted == Done => errors = <<>>

\* Every text is read to its end.
Terminates == <>Done

=============================================================================
