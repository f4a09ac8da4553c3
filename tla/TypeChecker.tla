---------------------------- MODULE TypeChecker ----------------------------
(***************************************************************************)
(* The type checker (src/type_checker.py) and its scopes                   *)
(* (src/symbol_table.py).                                                  *)
(*                                                                         *)
(* The calls in progress are a list of things to do, the next one first:   *)
(* <<"expr", e>> is check_expression(e), <<"stmt", s>> check_statement(s), *)
(* <<"is", S, why>> refuses a type outside S, the others are what is left  *)
(* of a method.  types holds the types found and not yet used, the last    *)
(* one first.  scopes is the chain of symbol tables, the global one first. *)
(* A symbol is [type, is, params].                                         *)
(***************************************************************************)
EXTENDS Tree, FiniteSets

CONSTANTS Programs,                 \* what the parser may hand over
          Statements, Expressions   \* the trees in it, and all parts of theirs

VARIABLES program,      \* a list of functions
          work, types, scopes,
          loopDepth, switchDepth,
          expected,     \* the return type of the function being checked
          verdict       \* <<"checking">>, <<"ok">>, <<"error", why>>, or <<"crash">>
                        \* where a Python exception escapes

checker == <<program, work, types, scopes, loopDepth, switchDepth, expected, verdict>>

-----------------------------------------------------------------------------
(***************************************************************************)
(* Trees as the parser builds them (src/parser/ast.py).                    *)
(***************************************************************************)
ListOf(S, s) == Len(s) \in Nat /\ DOMAIN s = 1..Len(s) /\ \A k \in DOMAIN s : s[k] \in S
IsList(s)    == ListOf({s[k] : k \in DOMAIN s}, s)

\* e, where the parts of an expression are in es.
IsExpression(e, es) ==
  /\ e[1] \in Literals \cup {"var", "=", "bin", "un", "call", "idx"}
  /\ e[1] = "="    => e[2][1] \in {"var", "idx"} /\ {e[2], e[3]} \subseteq es
  /\ e[1] = "bin"  => {e[3], e[4]} \subseteq es
  /\ e[1] = "un"   => e[3] \in es
  /\ e[1] = "call" => ListOf(es, e[3])
  /\ e[1] = "idx"  => e[3] \in es

\* s, where the parts of a statement are in ss and es.
IsStatement(s, ss, es) ==
  /\ s[1] \in {"if", "while", "for", "break", "continue", "switch", "return", "expr", "block"}
  /\ s[1] = "if"     => s[2] \in es /\ s[3] \in ss /\ (s[4] = Absent \/ s[4] \in ss)
  /\ s[1] = "while"  => s[2] \in es /\ s[3] \in ss
  /\ s[1] = "for"    => {s[2], s[3], s[4]} \subseteq es \cup {Absent} /\ s[5] \in ss
  /\ s[1] = "switch" => /\ s[2] \in es /\ IsList(s[3])
                        /\ \A k \in DOMAIN s[3] : /\ s[3][k][1] \in es \cup {Absent}
                                                 /\ ListOf(ss, s[3][k][2])
  /\ s[1] \in {"return", "expr"} => s[2] \in es \cup {Absent}
  /\ s[1] = "block"  => /\ IsList(s[2]) /\ ListOf(ss, s[3])
                        /\ \A k \in DOMAIN s[2] : s[2][k][3] \in es \cup {Absent}

AreTrees(ss, es) == /\ \A e \in es : IsExpression(e, es)
                    /\ \A s \in ss : IsStatement(s, ss, es)

ArePrograms(ps, ss) ==
  \A p \in ps : IsList(p) /\ \A k \in DOMAIN p : IsList(p[k].params) /\ p[k].body \in ss

\* What the parser returns are trees, and their parts are trees.
ASSUME TreesAssumption == AreTrees(Statements, Expressions) /\ ArePrograms(Programs, Statements)

-----------------------------------------------------------------------------
SupportedTypes == {"int", "uint32", "float", "bool", "char", "void"}
Integral       == {"int", "uint32"}
NoSymbol       == [type |-> "void", is |-> "nothing", params |-> <<>>]

Function(type, params) == [type |-> type, is |-> "function", params |-> params]
Variable(type)         == [type |-> type, is |-> "variable", params |-> <<>>]
Array(type)            == [type |-> type, is |-> "array", params |-> <<>>]

\* Mutant: a type that is none.
BuiltinTypo == [readInt |-> Function("integer", <<>>), print |-> Function("void", <<>>),
                exit |-> Function("void", <<"int">>)]

Builtin == [readInt |-> Function("int", <<>>), print |-> Function("void", <<>>),
            exit |-> Function("void", <<"int">>)]

\* A table with one more name in it.
WithName(name, symbol, table) ==
  [x \in DOMAIN table \cup {name} |-> IF x = name THEN symbol ELSE table[x]]

\* Mutant: the outermost table that knows the name.
OutermostFirst(x) ==
  LET at == {k \in DOMAIN scopes : x \in DOMAIN scopes[k]}
  IN  IF at = {} THEN NoSymbol ELSE scopes[CHOOSE k \in at : \A n \in at : n >= k][x]
Lookup(x) ==
  LET at == {k \in DOMAIN scopes : x \in DOMAIN scopes[k]}
  IN  IF at = {} THEN NoSymbol ELSE scopes[CHOOSE k \in at : \A n \in at : n <= k][x]

-----------------------------------------------------------------------------
(***************************************************************************)
(* What one item does to the work and the types, or why it is refused.     *)
(***************************************************************************)
Then(items, ts) == [verdict |-> <<"checking">>, work |-> items, types |-> ts]
Refuse(why)     == [verdict |-> <<"error", why>>]
Crash           == [verdict |-> <<"crash">>]
Finds(type)     == Then(<<>>, <<type>> \o types)

ExprItem(e)      == <<"expr", e>>
Is(set, why)     == <<"is", set, why>>
Index(e)         == <<ExprItem(e), Is(Integral, "Invalid index type")>>
Gives(type)      == <<"gives", type>>
MaybeExpr(e)     == IF e = Absent THEN <<>> ELSE <<ExprItem(e), <<"drop">>>>

CheckAssign(target, value) ==
  LET name   == IF target[1] = "var" THEN target[2] ELSE target[2][2]
      symbol == Lookup(name)
      stored == <<ExprItem(value), Is({symbol.type}, "Assignment type mismatch"), Gives(symbol.type)>>
  IN CASE target[1] = "idx" /\ target[2][1] # "var" -> Crash
       [] symbol.is = "nothing" -> Refuse("not declared")
       [] target[1] = "idx" /\ symbol.is # "array" -> Refuse("Array not declared")
       [] OTHER -> Then((IF target[1] = "idx" THEN Index(target[3]) ELSE <<>>) \o stored, types)

\* The loop over the arguments, at the k-th.
Printed(args, k) ==
  IF k > Len(args) THEN Then(<<>>, types)
  ELSE Then(<<ExprItem(args[k]), <<"drop">>, <<"printed", args, k + 1>>>>, types)

\* Mutant: the arguments are counted only.
CountedOnly(args, expects, k) ==
  IF k > Len(args) THEN Then(<<>>, types)
  ELSE Then(<<ExprItem(args[k]), <<"drop">>, <<"arguments", args, expects, k + 1>>>>, types)

Argument(args, expects, k) ==
  IF k > Len(args) THEN Then(<<>>, types)
  ELSE Then(<<ExprItem(args[k]), Is({expects[k]}, "Argument type mismatch"),
              <<"arguments", args, expects, k + 1>>>>, types)

CheckCall(callee, args) ==
  LET f == callee[2]
  IN CASE callee[1] # "var" -> Crash
       [] callee[1] = "var" /\ f \notin DOMAIN scopes[1] -> Refuse("Function not declared")
       [] callee[1] = "var" /\ f = "print" -> Then(<<<<"printed", args, 1>>, Gives("void")>>, types)
       [] callee[1] = "var" /\ f = "exit" ->
            IF Len(args) # 1 THEN Refuse("exit requires exactly one argument")
            ELSE Then(<<ExprItem(args[1]), Is(Integral, "exit code"), Gives("void")>>, types)
       [] OTHER ->
            IF Len(args) # Len(scopes[1][f].params) THEN Refuse("Wrong number of arguments")
            ELSE Then(<<<<"arguments", args, scopes[1][f].params, 1>>, Gives(scopes[1][f].type)>>, types)

CheckExpression(e) ==
  CASE e[1] \in Literals -> Finds(e[1])
    [] e[1] = "var" ->
         IF Lookup(e[2]).is \in {"nothing", "function"} THEN Refuse("Variable not declared")
         ELSE Finds(Lookup(e[2]).type)
    [] e[1] = "="   -> CheckAssign(e[2], e[3])
    [] e[1] = "bin" -> Then(<<ExprItem(e[3]), ExprItem(e[4]), <<"operands", e[2]>>>>, types)
    [] e[1] = "un"  -> Then(<<ExprItem(e[3]), <<"operand", e[2]>>>>, types)
    [] e[1] = "call" -> CheckCall(e[2], e[3])
    [] e[1] = "idx" -> \* a scalar will do
         IF e[2][1] # "var" THEN Crash
         ELSE IF Lookup(e[2][2]).is = "nothing" THEN Refuse("Array not declared")
         ELSE Then(Index(e[3]) \o <<Gives(Lookup(e[2][2]).type)>>, types)

CheckBinary(op) ==
  LET result == IF op \in {"ADD", "SUB", "MUL", "DIV", "MOD"} THEN types[2] ELSE "bool"
  IN CASE types[1] # types[2] -> Refuse("Type mismatch in binary op")
       [] types[1] = types[2] /\ op \in {"AND", "OR"} /\ types[2] # "bool" ->
            Refuse("Logical op needs bool")
       [] OTHER -> Then(<<>>, <<result>> \o SubSeq(types, 3, Len(types)))

CheckUnary(op) ==
  IF op # "NOT" THEN Then(<<>>, types)
  ELSE IF types[1] = "bool" THEN Then(<<>>, types) ELSE Refuse("! needs bool")

-----------------------------------------------------------------------------
Bool(why) == Is({"bool"}, why)
StmtItem(s) == <<"stmt", s>>
Each(ss) == [n \in DOMAIN ss |-> StmtItem(ss[n])]
Framed(kind, items) == <<<<"enter", kind>>>> \o items \o <<<<"leave", kind>>>>

\* The loop over the clauses, at the k-th.
Clause(cases, k) ==
  LET again == \E n \in 1..(k - 1) : cases[n][1] = Absent
      head == CASE cases[k][1] # Absent -> <<ExprItem(cases[k][1]), <<"case">>>>
                [] cases[k][1] = Absent /\ again -> <<<<"refuse", "duplicate default in switch">>>>
                [] OTHER -> <<>>
  IN  IF k > Len(cases) THEN Then(<<>>, types)
      ELSE Then(head \o Each(cases[k][2]) \o <<<<"clauses", cases, k + 1>>>>, types)

CheckStatement(s) ==
  CASE s[1] = "if" ->
         Then(<<ExprItem(s[2]), Bool("If condition must be bool"), StmtItem(s[3])>>
                \o (IF s[4] = Absent THEN <<>> ELSE <<StmtItem(s[4])>>), types)
    [] s[1] = "while" ->
         Then(<<ExprItem(s[2]), Bool("While condition must be bool")>>
                \o Framed("loop", <<StmtItem(s[3])>>), types)
    [] s[1] = "for" ->
         Then(MaybeExpr(s[2])
                \o (IF s[3] = Absent THEN <<>>
                    ELSE <<ExprItem(s[3]), Bool("For condition must be bool")>>)
                \o MaybeExpr(s[4]) \o Framed("loop", <<StmtItem(s[5])>>), types)
    [] s[1] = "break" ->
         IF loopDepth <= 0 /\ switchDepth <= 0 THEN Refuse("break outside loop or switch")
         ELSE Then(<<>>, types)
    [] s[1] = "continue" ->
         IF loopDepth <= 0 THEN Refuse("continue outside loop") ELSE Then(<<>>, types)
    [] s[1] = "switch" ->
         Then(<<ExprItem(s[2]), <<"subject">>>> \o Framed("switch", <<<<"clauses", s[3], 1>>>>)
                \o <<<<"drop">>>>, types)
    [] s[1] = "return" ->
         IF s[2] # Absent
         THEN Then(<<ExprItem(s[2]), Is({expected}, "Return type mismatch")>>, types)
         ELSE IF expected # "void" THEN Refuse("Return value required") ELSE Then(<<>>, types)
    [] s[1] = "expr"  -> Then(MaybeExpr(s[2]), types)
    [] s[1] = "block" -> Then(<<<<"open">>>> \o [k \in DOMAIN s[2] |-> <<"declare", s[2][k]>>]
                                \o Each(s[3]) \o <<<<"close">>>>, types)

Judge(item) ==
  CASE item[1] = "expr"     -> CheckExpression(item[2])
    [] item[1] = "stmt"     -> CheckStatement(item[2])
    [] item[1] = "printed"  -> Printed(item[2], item[3])
    [] item[1] = "arguments" -> Argument(item[2], item[3], item[4])
    [] item[1] = "clauses"  -> Clause(item[2], item[3])
    [] item[1] = "gives"    -> Finds(item[2])
    [] item[1] = "operands" -> CheckBinary(item[2])
    [] item[1] = "operand"  -> CheckUnary(item[2])
    [] item[1] = "is"       -> IF types[1] \in item[2] THEN Then(<<>>, Tail(types)) ELSE Refuse(item[3])
    [] item[1] = "drop"     -> Then(<<>>, Tail(types))
    [] item[1] = "subject"  -> \* it stays, for the cases
         IF types[1] \in Integral \cup {"char"} THEN Then(<<>>, types) ELSE Refuse("switch expression")
    [] item[1] = "case"     ->
         IF types[1] = types[2] THEN Then(<<>>, Tail(types)) ELSE Refuse("case value type")
    [] item[1] = "refuse"   -> Refuse(item[2])
    [] item[1] = "main"     ->
         IF "main" \in DOMAIN scopes[1] THEN Then(<<>>, types) ELSE Refuse("main function missing")

Judged == {"expr", "stmt", "printed", "arguments", "clauses", "gives", "operands", "operand",
           "is", "drop", "subject", "case", "refuse", "main"}

-----------------------------------------------------------------------------
Checking == verdict = <<"checking">>
Doing(kind) == Checking /\ work # <<>> /\ Head(work)[1] = kind
Arg == Head(work)[2]

InitChecker ==
  /\ work = [k \in DOMAIN program |-> <<"define", k>>] \o <<<<"main">>>>
              \o [k \in DOMAIN program |-> <<"function", k>>]
  /\ types = <<>> /\ scopes = <<Builtin>>
  /\ loopDepth = 0 /\ switchDepth = 0
  /\ expected = "void"
  /\ verdict = <<"checking">>

Infer ==
  /\ Checking /\ work # <<>> /\ Head(work)[1] \in Judged
  /\ LET j == Judge(Head(work))
     IN  /\ j.verdict = <<"checking">>
         /\ work' = j.work \o Tail(work)
         /\ types' = j.types
  /\ UNCHANGED <<program, scopes, loopDepth, switchDepth, expected, verdict>>

\* Mutant: no finally clauses.
NotUnwound(kind) == 0

Frames(s, does, kind) == Cardinality({k \in DOMAIN s : s[k] = <<does, kind>>})
Unwound(kind) == Frames(work, "leave", kind) - Frames(work, "enter", kind)

\* Nothing more is checked; the finally clauses still run.
Abandon(v) ==
  /\ verdict' = v
  /\ loopDepth' = loopDepth - Unwound("loop")
  /\ switchDepth' = switchDepth - Unwound("switch")
  /\ work' = <<>>
  /\ UNCHANGED <<program, types, scopes, expected>>

Err ==
  /\ Checking /\ work # <<>> /\ Head(work)[1] \in Judged
  /\ LET j == Judge(Head(work)) IN j.verdict # <<"checking">> /\ Abandon(j.verdict)

\* Mutant: in the outermost table.
DefineOutermost(name, symbol) ==
  IF name \in DOMAIN scopes[1] THEN Abandon(<<"error", "Redefinition">>)
  ELSE /\ scopes' = [scopes EXCEPT ![1] = WithName(name, symbol, @)]
       /\ work' = Tail(work)
       /\ UNCHANGED <<program, types, loopDepth, switchDepth, expected, verdict>>

\* SymbolTable.define, in the innermost table.
DefineOrFail(name, symbol) ==
  IF name \in DOMAIN scopes[Len(scopes)] THEN Abandon(<<"error", "Redefinition">>)
  ELSE /\ scopes' = [scopes EXCEPT ![Len(scopes)] = WithName(name, symbol, @)]
       /\ work' = Tail(work)
       /\ UNCHANGED <<program, types, loopDepth, switchDepth, expected, verdict>>

Supported(ts) == ts \subseteq SupportedTypes

DefineFunction ==
  /\ Doing("define")
  /\ LET f == program[Arg]
     IN  IF Supported({f.ret} \cup {f.ptypes[k] : k \in DOMAIN f.ptypes})
         THEN DefineOrFail(f.name, Function(f.ret, f.ptypes))
         ELSE Abandon(<<"error", "Invalid type">>)

\* Each function in a fresh table above the global one.
CheckFunction ==
  /\ Doing("function")
  /\ scopes' = <<scopes[1], [x \in {} |-> NoSymbol]>>
  /\ expected' = program[Arg].ret
  /\ LET f == program[Arg]
     IN  work' = [k \in DOMAIN f.params |-> <<"param", <<f.params[k], f.ptypes[k]>>>>]
                   \o <<StmtItem(f.body)>> \o Tail(work)
  /\ UNCHANGED <<program, types, loopDepth, switchDepth, verdict>>

DefineParam == Doing("param") /\ DefineOrFail(Arg[1], Variable(Arg[2]))

OpenBlock ==
  /\ Doing("open")
  /\ scopes' = Append(scopes, [x \in {} |-> NoSymbol])
  /\ work' = Tail(work)
  /\ UNCHANGED <<program, types, loopDepth, switchDepth, expected, verdict>>

CloseBlock ==
  /\ Doing("close")
  /\ scopes' = SubSeq(scopes, 1, Len(scopes) - 1)
  /\ work' = Tail(work)
  /\ UNCHANGED <<program, types, loopDepth, switchDepth, expected, verdict>>

\* A declaration, its initialiser next: the name is known there.
CheckDeclaration ==
  /\ Doing("declare")
  /\ LET d == Arg
         init == IF d[3] = Absent THEN <<>>
                 ELSE <<ExprItem(d[3]), Is({d[4]}, "Type mismatch in initialization")>>
         inner == scopes[Len(scopes)]
     IN  IF ~Supported({d[4]}) \/ d[1] \in DOMAIN inner
         THEN Abandon(<<"error", IF Supported({d[4]}) THEN "Redefinition" ELSE "Invalid type">>)
         ELSE /\ scopes' = [scopes EXCEPT ![Len(scopes)] =
                              WithName(d[1], IF d[2] = 0 THEN Variable(d[4]) ELSE Array(d[4]), @)]
              /\ work' = init \o Tail(work)
              /\ UNCHANGED <<program, types, loopDepth, switchDepth, expected, verdict>>

\* Mutant: leaving a loop does not lower the depth.
NeverLower(by) ==
  /\ loopDepth' = IF Arg = "loop" /\ by = 1 THEN loopDepth + by ELSE loopDepth
  /\ switchDepth' = IF Arg = "switch" THEN switchDepth + by ELSE switchDepth
  /\ work' = Tail(work)
  /\ UNCHANGED <<program, types, scopes, expected, verdict>>

Deepen(by) ==
  /\ loopDepth' = IF Arg = "loop" THEN loopDepth + by ELSE loopDepth
  /\ switchDepth' = IF Arg = "switch" THEN switchDepth + by ELSE switchDepth
  /\ work' = Tail(work)
  /\ UNCHANGED <<program, types, scopes, expected, verdict>>

EnterFrame == Doing("enter") /\ Deepen(1)
LeaveFrame == Doing("leave") /\ Deepen(-1)

Accept ==
  /\ Checking /\ work = <<>>
  /\ verdict' = <<"ok">>
  /\ UNCHANGED <<program, work, types, scopes, loopDepth, switchDepth, expected>>

StepChecker ==
  \/ Infer \/ Err \/ DefineFunction \/ CheckFunction \/ DefineParam \/ OpenBlock \/ CloseBlock
  \/ CheckDeclaration \/ EnterFrame \/ LeaveFrame \/ Accept

\* The checker by itself.
CheckerSpec == program \in Programs /\ InitChecker /\ [][StepChecker]_checker

-----------------------------------------------------------------------------
Decided  == ~Checking

\* Depths are what they were, whichever way the checker leaves a statement: the
\* next function starts outside of loops (type_checker.py:96-149).
DepthsRestored ==
  /\ Decided => loopDepth = 0 /\ switchDepth = 0
  /\ Doing("function") => loopDepth = 0 /\ switchDepth = 0 /\ types = <<>>

\* A call is judged by the global table, and only functions get into that: no
\* parameter or local, however scopes were opened and closed before it
\* (type_checker.py:24-54, 243).
GlobalsAreFunctions == \A f \in DOMAIN scopes[1] : scopes[1][f].is = "function"

=============================================================================
