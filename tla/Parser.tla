------------------------------- MODULE Parser -------------------------------
(***************************************************************************)
(* The recursive-descent parser (src/parser/parser.py) on a list of        *)
(* tokens <<type, value>>, with its recovery from syntax errors.           *)
(*                                                                         *)
(* The calls in progress are a list of things to do, the next one first:   *)
(* <<"need", type, value>> is expect(type, value), <<"take", type>> the    *)
(* same keeping the value, <<"type">> parse_type, the others the methods   *)
(* and what is left of them.  values holds the nodes built and not yet     *)
(* used, the last one first.  An exception unwinds to the innermost of the *)
(* three loops that catch it; such a loop is an item that carries how many *)
(* values there are below the one it is building.                          *)
(*                                                                         *)
(* Nodes are those of Tree.                                                *)
(***************************************************************************)
EXTENDS Tree

CONSTANTS Inputs        \* [tokens, origin]: lists of tokens, and where they are from

\* Tokens are pairs.  The lexer's EOF is not in the lists: it is what there is
\* after their end.
IsTokens(ts) ==
  /\ ts \in Seq({ts[k] : k \in DOMAIN ts})
  /\ \A k \in DOMAIN ts : ts[k] = <<ts[k][1], ts[k][2]>> /\ ts[k][1] # "EOF"

ASSUME InputsAssumption == \A i \in Inputs : IsTokens(i.tokens)

VARIABLES tokens,
          origin,       \* for the properties only
          index,        \* of the current token
          todo, values,
          errors,       \* the places of the errors, in the order reported
          mode          \* "parse", "statement" or "function" (looking for the
                        \* beginning of one), "done"

vars == <<tokens, origin, index, todo, values, errors, mode>>

Sym(s) == <<"SYMBOL", s>>
Kw(s)  == <<"KEYWORD", s>>
EOF    == <<"EOF", "">>

\* The punctuation of lists and blocks.
LBrace == "{"
RBrace == "}"
Comma  == ","
Semicolon == ";"

TypeKeywords == {"uint32", "int", "float", "bool", "char", "void"}
StatementKeywords == {"if", "while", "for", "return", "break", "continue", "switch"}
Typed(t) == t[1] = "KEYWORD" /\ t[2] \in TypeKeywords

TokenAt(i) == IF i <= Len(tokens) THEN tokens[i] ELSE EOF
Current    == TokenAt(index)

-----------------------------------------------------------------------------
(***************************************************************************)
(* What one item does: [ok, used, todo, values], the tokens it consumes,   *)
(* what comes before the rest of the work and the values after it; or      *)
(* Fail(place).                                                            *)
(***************************************************************************)
Do(used, items, vals) == [ok |-> TRUE, used |-> used, todo |-> items, values |-> vals]
Fail(place)  == [ok |-> FALSE, place |-> place]
Go(items)    == Do(0, items, values)
Shift(items) == Do(1, items, values)
Push(used, items, v) == Do(used, items, <<v>> \o values)

\* The n values on top replaced by v.
Reduce(n, v) == Do(0, <<>>, <<v>> \o SubSeq(values, n + 1, Len(values)))

Need(s)   == <<"need", "SYMBOL", s>>

\* The binary operators of parse_or .. parse_term, loosest first, by name.
Binary == << [s \in {"||"} |-> "OR"], [s \in {"&&"} |-> "AND"],
             [s \in {"==", "!="} |-> IF s = "==" THEN "EQ" ELSE "NE"],
             [s \in {"<", ">", "<=", ">="} |->
                CASE s = "<" -> "LT" [] s = ">" -> "GT" [] s = "<=" -> "LE" [] s = ">=" -> "GE"],
             [s \in {"+", "-"} |-> IF s = "+" THEN "ADD" ELSE "SUB"],
             [s \in {"*", "/", "%"} |->
                CASE s = "*" -> "MUL" [] s = "/" -> "DIV" [] s = "%" -> "MOD"] >>
Prefixes  == [s \in {"!", "-", "++", "--"} |->
                CASE s = "!" -> "NOT" [] s = "-" -> "NEG" [] s = "++" -> "INC" [] s = "--" -> "DEC"]
Postfixes == [s \in {"++", "--"} |-> Prefixes[s]]

Symbol(t, set) == t[1] = "SYMBOL" /\ t[2] \in set

LiteralKind == [c \in {"NUMBER", "FLOAT_LIT", "BOOL_LIT", "CHAR_LIT", "STRING_LIT"} |->
  CASE c = "NUMBER" -> "int" [] c = "FLOAT_LIT" -> "float" [] c = "BOOL_LIT" -> "bool"
    [] c = "CHAR_LIT" -> "char" [] c = "STRING_LIT" -> "string"]

Primary(t) ==
  CASE t[1] \in DOMAIN LiteralKind -> Push(1, <<>>, <<LiteralKind[t[1]], t[2]>>)
    [] t[1] = "IDENTIFIER" -> Push(1, <<>>, <<"var", t[2]>>)
    [] t = Sym("(") -> Shift(<<<<"assign">>, Need(")")>>)
    [] OTHER -> Fail(index)

\* Mutant: the right operand takes all operators of the level.
RightTail(k, t) ==
  IF Symbol(t, DOMAIN Binary[k])
  THEN Shift(<<<<"level", k>>, <<"binary", Binary[k][t[2]]>>>>)
  ELSE Go(<<>>)

\* The loop of one level: the operand on top is the left one.
Tail1(k, t) ==
  IF Symbol(t, DOMAIN Binary[k])
  THEN Shift(<<<<"level", k + 1>>, <<"binary", Binary[k][t[2]]>>, <<"tail", k>>>>)
  ELSE Go(<<>>)

Postfix(t) ==
  CASE t = Sym("(") -> Push(1, <<<<"call">>>>, <<>>)
    [] t = Sym("[") -> Shift(<<<<"assign">>, Need("]"), <<"element">>, <<"postfix">>>>)
    [] Symbol(t, DOMAIN Postfixes) ->
         Do(1, <<<<"postfix">>>>, <<<<"un", Postfixes[t[2]], values[1], TRUE>>>> \o Tail(values))
    [] OTHER -> Go(<<>>)

ExpressionWork(h, t) ==
  LET v == values
  IN CASE h[1] = "assign" -> Go(<<<<"level", 1>>, <<"equals">>>>)
       [] h[1] = "equals" ->
            IF t = Sym("=") THEN Shift(<<<<"assign">>, <<"assigned", index>>>>) ELSE Go(<<>>)
       [] h[1] = "assigned" ->
            IF v[2][1] \in {"var", "idx"} THEN Reduce(2, <<"=", v[2], v[1]>>) ELSE Fail(h[2])
       [] h[1] = "level" ->
            IF h[2] <= Len(Binary) THEN Go(<<<<"level", h[2] + 1>>, <<"tail", h[2]>>>>)
            ELSE IF Symbol(t, DOMAIN Prefixes)
                 THEN Shift(<<<<"level", h[2]>>, <<"unary", Prefixes[t[2]]>>>>)
                 ELSE Go(<<<<"primary">>, <<"postfix">>>>)
       [] h[1] = "tail"    -> Tail1(h[2], t)
       [] h[1] = "binary"  -> Reduce(2, <<"bin", h[2], v[2], v[1]>>)
       [] h[1] = "unary"   -> Reduce(1, <<"un", h[2], v[1], FALSE>>)
       [] h[1] = "primary" -> Primary(t)
       [] h[1] = "postfix" -> Postfix(t)
       [] h[1] = "element" -> Reduce(2, <<"idx", v[2], v[1]>>)
       [] h[1] = "call" -> \* the list of arguments is on top
            IF t = Sym(")") THEN Shift(<<<<"called">>, <<"postfix">>>>)
            ELSE Go(<<<<"assign">>, <<"argument">>>>)
       [] h[1] = "argument" ->
            LET longer == <<Append(v[2], v[1])>> \o SubSeq(v, 3, Len(v))
            IN  IF t = Sym(")") THEN Do(1, <<<<"called">>, <<"postfix">>>>, longer)
                ELSE Do(0, <<Need(Comma), <<"assign">>, <<"argument">>>>, longer)
       [] h[1] = "called"  -> Reduce(2, <<"call", v[2], v[1]>>)

-----------------------------------------------------------------------------
Statement(t) ==
  CASE t = EOF -> Fail(index)
    [] t = Sym(LBrace) -> Go(<<<<"block">>>>)
    [] t = Sym(Semicolon) -> Push(1, <<>>, <<"expr", Absent>>)
    [] t = Kw("if") -> Shift(<<Need("("), <<"assign">>, Need(")"), <<"statement">>, <<"else">>>>)
    [] t = Kw("while") -> Shift(<<Need("("), <<"assign">>, Need(")"), <<"statement">>, <<"while">>>>)
    [] t = Kw("for") ->
         Shift(<<Need("("), <<"optional", Semicolon>>, Need(Semicolon), <<"optional", Semicolon>>, Need(Semicolon),
                 <<"optional", ")">>, Need(")"), <<"statement">>, <<"for">>>>)
    [] t = Kw("switch") ->
         Push(1, <<Need("("), <<"assign">>, Need(")"), Need(LBrace), <<"cases">>>>, <<>>)
    [] t \in {Kw("break"), Kw("continue")} -> Push(1, <<Need(Semicolon)>>, <<t[2]>>)
    [] t = Kw("return") -> Shift(<<<<"result">>>>)
    [] OTHER -> Go(<<<<"assign">>, Need(Semicolon), <<"expression">>>>)

StatementWork(h, t) ==
  LET v == values
      with(stmt) == <<stmt>> \o SubSeq(v, 2, Len(v))
  IN CASE h[1] = "statement"  -> Statement(t)
       [] h[1] = "expression" -> Reduce(1, <<"expr", v[1]>>)
       [] h[1] = "result" ->
            IF t = Sym(Semicolon) THEN Push(1, <<>>, <<"return", Absent>>)
            ELSE Go(<<<<"assign">>, Need(Semicolon), <<"returned">>>>)
       [] h[1] = "returned" -> Reduce(1, <<"return", v[1]>>)
       [] h[1] = "else" ->
            IF t = Kw("else") THEN Shift(<<<<"statement">>, <<"both">>>>)
            ELSE Reduce(2, <<"if", v[2], v[1], Absent>>)
       [] h[1] = "both"  -> Reduce(3, <<"if", v[3], v[2], v[1]>>)
       [] h[1] = "while" -> Reduce(2, <<"while", v[2], v[1]>>)
       [] h[1] = "optional" ->
            IF t = Sym(h[2]) THEN Push(0, <<>>, Absent) ELSE Go(<<<<"assign">>>>)
       [] h[1] = "for"   -> Reduce(4, <<"for", v[4], v[3], v[2], v[1]>>)
       [] h[1] = "cases" -> \* the subject is on top, the cases under it
            CASE t = Sym(RBrace) ->
                   Do(1, <<>>, <<<<"switch", v[1], v[2]>>>> \o SubSeq(v, 3, Len(v)))
              [] t = Kw("case") ->
                   Shift(<<<<"take", "NUMBER">>, Need(":"), <<"arm">>, <<"case">>, <<"cases">>>>)
              [] t = Kw("default") ->
                   Push(1, <<Need(":"), <<"arm">>, <<"case">>, <<"cases">>>>, Absent)
              [] OTHER -> Fail(index)
       [] h[1] = "arm"  -> Push(0, <<<<"body", Len(v) + 1>>>>, <<>>)
       [] h[1] = "body" ->
            IF t \in {EOF, Sym(RBrace), Kw("case"), Kw("default")} THEN Go(<<>>)
            ELSE Go(<<<<"statement">>, <<"more">>, h>>)
       [] h[1] = "more" -> Reduce(2, Append(v[2], v[1]))
       [] h[1] = "case" -> \* body, value, subject, cases
            LET value == IF v[2] = Absent THEN Absent ELSE <<"int", v[2][2]>>
            IN  Do(0, <<>>, <<v[3], Append(v[4], <<value, v[1]>>)>> \o SubSeq(v, 5, Len(v)))

-----------------------------------------------------------------------------
\* Mutant: a declaration in a block may lack its semicolon.
OptionalSemicolon(t) == IF t = Sym(Semicolon) THEN Shift(<<>>) ELSE Go(<<>>)
EndDeclaration(t)    == IF t = Sym(Semicolon) THEN Shift(<<>>) ELSE Fail(index)

BlockWork(h, t) ==
  LET v == values
      block == v[1]
  IN CASE h[1] = "block" ->
            IF t = Sym(LBrace) THEN Push(1, <<<<"items", Len(v) + 1>>>>, <<"block", <<>>, <<>>>>)
            ELSE Fail(index)
       [] h[1] = "items" ->
            IF t = Sym(RBrace) THEN Shift(<<>>)
            ELSE IF t = EOF THEN Go(<<>>)
            ELSE IF t = Kw("const") \/ Typed(t)
                 THEN Go(<<<<"declaration">>, <<"declared">>, h>>)
                 ELSE Go(<<<<"statement">>, <<"stated">>, h>>)
       [] h[1] = "declared" -> Reduce(2, <<"block", Append(v[2][2], v[1]), v[2][3]>>)
       [] h[1] = "stated"   -> Reduce(2, <<"block", v[2][2], Append(v[2][3], v[1])>>)
       [] h[1] = "declaration" ->
            Do(IF t = Kw("const") THEN 1 ELSE 0,
               <<<<"type">>, <<"take", "IDENTIFIER">>, <<"size">>, <<"initial">>, <<"end">>,
                 <<"variable">>>>,
               <<t = Kw("const")>> \o v)
       [] h[1] = "size" ->
            IF t = Sym("[") THEN Shift(<<<<"take", "NUMBER">>, Need("]")>>)
            ELSE Push(0, <<>>, <<"NUMBER", 0>>)
       [] h[1] = "initial" ->
            IF t = Sym("=") THEN Shift(<<<<"assign">>>>) ELSE Push(0, <<>>, Absent)
       [] h[1] = "end" -> EndDeclaration(t)
       [] h[1] = "variable" -> \* initialiser, size, name, type, const
            Reduce(5, <<v[3][2], v[2][2], v[1], v[4], v[5]>>)

FunctionWork(h, t) ==
  LET v == values
      pair == <<v[2], v[1][2]>>
  IN CASE h[1] = "program" ->
            IF t = EOF THEN Go(<<>>) ELSE Go(<<<<"function">>, <<"parsed">>, h>>)
       [] h[1] = "parsed" -> Reduce(2, Append(v[2], v[1]))
       [] h[1] = "function" ->
            Go(<<<<"type">>, <<"take", "IDENTIFIER">>, Need("("), <<"params">>, <<"block">>, <<"whole">>>>)
       [] h[1] = "params" ->
            IF t = Sym(")") THEN Push(1, <<>>, <<>>) ELSE Push(0, <<<<"param">>>>, <<>>)
       [] h[1] = "param" -> Go(<<<<"type">>, <<"take", "IDENTIFIER">>, <<"named">>>>)
       [] h[1] = "named" -> \* name, type, the parameters before
            LET longer == <<Append(v[3], pair)>> \o SubSeq(v, 4, Len(v))
            IN  IF t = Sym(")") THEN Do(1, <<>>, longer)
                ELSE Do(0, <<Need(Comma), <<"param">>>>, longer)
       [] h[1] = "whole" -> \* body, parameters, name, type
            Reduce(4, [name |-> v[3][2], ret |-> v[4], body |-> v[1],
                       params |-> [k \in DOMAIN v[2] |-> v[2][k][2]],
                       ptypes |-> [k \in DOMAIN v[2] |-> v[2][k][1]]])
       [] h[1] = "type" -> IF Typed(t) THEN Push(1, <<>>, t[2]) ELSE Fail(index)
       [] h[1] = "take" -> IF t[1] = h[2] THEN Push(1, <<>>, t) ELSE Fail(index)
       [] h[1] = "need" -> IF t = <<h[2], h[3]>> THEN Shift(<<>>) ELSE Fail(index)

Expressions == {"assign", "equals", "assigned", "level", "tail", "binary", "unary", "primary",
                "postfix", "element", "call", "argument", "called"}
Statements  == {"statement", "expression", "result", "returned", "else", "both", "while",
                "optional", "for", "cases", "arm", "body", "more", "case"}
Blocks      == {"block", "items", "declared", "stated", "declaration", "size", "initial",
                "end", "variable"}

Work(h, t) ==
  CASE h[1] \in Expressions -> ExpressionWork(h, t)
    [] h[1] \in Statements  -> StatementWork(h, t)
    [] h[1] \in Blocks      -> BlockWork(h, t)
    [] OTHER                -> FunctionWork(h, t)

-----------------------------------------------------------------------------
\* The loops that catch a ParseError.
Catches(h) == h[1] \in {"program", "items", "body"}

Init ==
  /\ \E i \in Inputs : tokens = i.tokens /\ origin = i.origin
  /\ index = 1
  /\ todo = <<<<"program", 1>>>>
  /\ values = <<<<>>>>
  /\ errors = <<>>
  /\ mode = "parse"

Parse ==
  /\ mode = "parse" /\ todo # <<>>
  /\ LET w == Work(Head(todo), Current)
     IN  /\ w.ok
         /\ index' = index + w.used
         /\ todo' = w.todo \o Tail(todo)
         /\ values' = w.values
  /\ UNCHANGED <<tokens, origin, errors, mode>>

\* An exception: to the innermost loop, which reports it and looks for a place
\* to go on from.
Raise ==
  /\ mode = "parse" /\ todo # <<>>
  /\ LET w == Work(Head(todo), Current)
         loops == {k \in DOMAIN todo : Catches(todo[k])}
         inner == CHOOSE k \in loops : \A n \in loops : k <= n
         extra == Len(values) - todo[inner][2]
     IN  /\ ~w.ok
         /\ errors' = Append(errors, w.place)
         /\ todo' = SubSeq(todo, inner, Len(todo))
         /\ values' = SubSeq(values, extra + 1, Len(values))
         /\ mode' = IF todo[inner][1] = "program" THEN "function" ELSE "statement"
  /\ UNCHANGED <<tokens, origin, index>>

\* Mutant: any keyword will do to go on from.
AnyKeyword(t) == t[1] = "EOF" \/ t = Sym(RBrace) \/ t[1] = "KEYWORD"

\* Mutant: the end of the text is not looked for.
AnyBeginning(t) == t = Sym(RBrace) \/ (t[1] = "KEYWORD" /\ t[2] \in StatementKeywords)

\* _sync_to_next_statement stops before these.
BeginsStatement(t) ==
  \/ t \in {EOF, Sym(RBrace)}
  \/ t[1] = "KEYWORD" /\ t[2] \in StatementKeywords

\* Mutant: a semicolon is left for the loop to see, again and again.
StuckAtSemicolon ==
  /\ mode = "statement"
  /\ index' = IF BeginsStatement(Current) \/ Current = Sym(Semicolon) THEN index ELSE index + 1
  /\ mode' = IF BeginsStatement(Current) THEN "parse" ELSE mode
  /\ UNCHANGED <<tokens, origin, todo, values, errors>>

SkipToStatement ==
  /\ mode = "statement"
  /\ index' = IF BeginsStatement(Current) THEN index ELSE index + 1
  /\ mode' = IF BeginsStatement(Current) \/ Current = Sym(Semicolon) THEN "parse" ELSE mode
  /\ UNCHANGED <<tokens, origin, todo, values, errors>>

\* Mutant: only int begins a function.
BeginsWithInt(t) == t \in {EOF, Kw("int")}
BeginsFunction(t) == t = EOF \/ Typed(t)

SkipToFunction ==
  /\ mode = "function"
  /\ index' = IF BeginsFunction(Current) THEN index ELSE index + 1
  /\ mode' = IF BeginsFunction(Current) THEN "parse" ELSE mode
  /\ UNCHANGED <<tokens, origin, todo, values, errors>>

Finish ==
  /\ mode = "parse" /\ todo = <<>>
  /\ mode' = "done"
  /\ UNCHANGED <<tokens, origin, index, todo, values, errors>>

Step == Parse \/ Raise \/ SkipToStatement \/ SkipToFunction \/ Finish
Next == Step \/ (mode = "done" /\ UNCHANGED vars)

\* The parser is a loop that nothing else interrupts.
Spec == Init /\ [][Next]_vars /\ WF_vars(Step)

\* parse(): the functions of the program, and the errors.
Functions == values[1]

-----------------------------------------------------------------------------
Done == mode = "done"

TypeOK ==
  /\ index \in 1..(Len(tokens) + 1)
  /\ mode \in {"parse", "statement", "function", "done"}
  /\ \A k \in DOMAIN errors : errors[k] \in 1..(Len(tokens) + 1)

\* No node is taken that was not built and none is left over: the loop that
\* catches an error finds the nodes it had, and when nothing is left to do there
\* is one, the list of functions.
NodesKept ==
  /\ mode \in {"statement", "function"} => Len(values) = Head(todo)[2]
  /\ todo = <<>> => Len(values) = 1

\* Errors are reported from left to right, and never twice at one place but at
\* the end of the text: recovery always gets further (parser.py:113-130).
ErrorsInOrder ==
  \A k \in 1..(Len(errors) - 1) :
    errors[k] < errors[k + 1] \/ errors[k] = Len(tokens) + 1

\* After any error the parser goes on further right, with the nodes it had
\* before the part it gives up, and it ends with the program.
RecoveryAdvances == TypeOK /\ NodesKept /\ ErrorsInOrder

=============================================================================
