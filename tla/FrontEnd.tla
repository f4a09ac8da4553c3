------------------------------ MODULE FrontEnd ------------------------------
(***************************************************************************)
(* main from the parser's result to validated IR (src/main.py:204-250):    *)
(* the checker, the warnings, the lowering and the validation, one after   *)
(* the other, and what each may rely on after the one before.              *)
(*                                                                         *)
(* A source is [functions, broken, typed]: the parser's result, whether it *)
(* reported errors, and, for the properties only, whether the program was  *)
(* written to be well typed: "yes", "no" or "maybe".                       *)
(***************************************************************************)
EXTENDS TypeChecker, Unused, ASTtoIR, IRValidator, TLC

CONSTANT Sources

VARIABLES source,
          warnings, prog, valid,
          stage         \* "check", "lower", "validate", "done", or how main ends
                        \* early: "errors", "traceback"

vars == <<checker, source, warnings, prog, valid, stage>>

Init ==
  /\ source \in Sources
  /\ program = source.functions
  /\ InitChecker
  /\ warnings = <<>> /\ prog = <<>> /\ valid = Valid
  /\ stage = "check"

Analyze == stage = "check" /\ Checking /\ StepChecker /\ UNCHANGED <<source, warnings, prog, valid, stage>>

\* A SemanticError is reported with the syntax errors; anything else escapes.
Report ==
  /\ stage = "check" /\ verdict[1] \in {"error", "crash"}
  /\ stage' = IF verdict[1] = "error" THEN "errors" ELSE "traceback"
  /\ UNCHANGED <<checker, source, warnings, prog, valid>>

Warn ==
  /\ stage = "check" /\ verdict = <<"ok">>
  /\ warnings' = UnusedVariableWarnings(program)
  /\ stage' = IF source.broken THEN "errors" ELSE "lower"
  /\ UNCHANGED <<checker, source, prog, valid>>

LowerAll ==
  /\ stage = "lower"
  /\ IF Raises(program) THEN stage' = "traceback" /\ UNCHANGED prog
     ELSE stage' = "validate" /\ prog' = Lower(program)
  /\ UNCHANGED <<checker, source, warnings, valid>>

ValidateAll ==
  /\ stage = "validate"
  /\ valid' = Validate(prog)
  /\ stage' = "done"
  /\ UNCHANGED <<checker, source, warnings, prog>>

Ended == stage \in {"done", "errors", "traceback"}

Next == Analyze \/ Report \/ Warn \/ LowerAll \/ ValidateAll \/ (Ended /\ UNCHANGED vars)
Spec == Init /\ [][Next]_vars

-----------------------------------------------------------------------------
Accepted == verdict = <<"ok">>

TypeOK ==
  /\ verdict[1] \in {"checking", "ok", "error", "crash"}
  /\ \A k \in DOMAIN types : types[k] \in SupportedTypes \cup {"string"}
  /\ Len(scopes) >= 1
  /\ Accepted => types = <<>> /\ work = <<>>
  /\ stage \in {"check", "lower", "validate", "done", "errors", "traceback"}

\* A program is accepted exactly when it was written to the rules: every
\* operator, call, assignment, condition, switch, return and index with
\* operands of the right types, every name declared in a scope around its use
\* (type_checker.py:24-281).
TypedIffAccepted ==
  Decided /\ source.typed # "maybe" => (Accepted <=> source.typed = "yes")

RECURSIVE Stray(_, _, _)

\* A break outside of loops and switches, or a continue outside of loops.
Stray(s, inLoop, inSwitch) ==
  \/ s[1] = "break" /\ ~inLoop /\ ~inSwitch
  \/ s[1] = "continue" /\ ~inLoop
  \/ s[1] = "if" /\ (Stray(s[3], inLoop, inSwitch) \/ (s[4] # Absent /\ Stray(s[4], inLoop, inSwitch)))
  \/ s[1] = "while" /\ Stray(s[3], TRUE, inSwitch)
  \/ s[1] = "for" /\ Stray(s[5], TRUE, inSwitch)
  \/ s[1] = "block" /\ \E k \in DOMAIN s[3] : Stray(s[3][k], inLoop, inSwitch)
  \/ s[1] = "switch" /\ \E k \in DOMAIN s[3] : \E n \in DOMAIN s[3][k][2] :
                          Stray(s[3][k][2][n], inLoop, TRUE)

\* A break or continue is refused exactly where there is nothing to leave, also
\* behind a loop or a switch that has ended: an accepted continue is never
\* forgotten by the lowering, nor a break without a target.
JumpsEnclosed ==
  LET stray == \E k \in DOMAIN program : Stray(program[k].body, FALSE, FALSE)
  IN  /\ Accepted => ~stray
      /\ verdict \in {<<"error", "continue outside loop">>, <<"error", "break outside loop or switch">>}
           => stray

\* The checker refuses a program by a SemanticError and by nothing else.
RefusedByError == Decided => verdict[1] # "crash"

\* "Requires semantic analysis to have run first": once it has, lowering goes
\* through (ast_to_ir.py:69-239).
AcceptedLowers == Accepted => stage # "traceback"

\* The code of a program the checker accepts keeps the validator's rules: it may
\* only object to a variable no instruction above assigns.
AcceptedValidates ==
  stage = "done" => valid = Valid \/ (valid[1] = "undefined" /\ valid[2][1] = "v")

\* What the checker lets through, the stages behind it can work on: it has
\* visited all of it with its types and tables in order, its jumps have somewhere
\* to go, lowering goes through and the code keeps the validator's rules
\* (type_checker.py:82-239, ast_to_ir.py:69-239).
AcceptedCompiles == TypeOK /\ JumpsEnclosed /\ AcceptedLowers /\ AcceptedValidates

-----------------------------------------------------------------------------
(***************************************************************************)
(* A reference for scopes: the program with every parameter and local      *)
(* under a name of its own, <<x, n>> for the n-th declaration of the       *)
(* function. What no declaration in scope stands for is <<x, 0>>.  It      *)
(* stands for no code of the repository.  An environment maps the names in *)
(* scope to their declarations' numbers.                                   *)
(***************************************************************************)
LOCAL Named(env, x) == <<x, IF x \in DOMAIN env THEN env[x] ELSE 0>>

RECURSIVE NewExpr(_, _), NewStmt(_, _, _), NewStmts(_, _, _), NewDecls(_, _, _), NewCases(_, _, _)

NewExpr(env, e) ==
  CASE e[1] = "var"  -> <<"var", Named(env, e[2])>>
    [] e[1] = "idx"  -> <<"idx", NewExpr(env, e[2]), NewExpr(env, e[3])>>
    [] e[1] = "="    -> <<"=", NewExpr(env, e[2]), NewExpr(env, e[3])>>
    [] e[1] = "bin"  -> <<"bin", e[2], NewExpr(env, e[3]), NewExpr(env, e[4])>>
    [] e[1] = "un"   -> <<"un", e[2], NewExpr(env, e[3]), e[4]>>
    [] e[1] = "call" -> <<"call", e[2], [k \in DOMAIN e[3] |-> NewExpr(env, e[3][k])]>>
    [] OTHER -> e

\* The new statement and the number of declarations met, n to begin with.
NewStmt(env, s, n) ==
  LET one(e) == NewExpr(env, e)
      done(t, k) == [t |-> t, n |-> k]
      a == NewStmt(env, s[3], n)
      b == NewStmt(env, s[5], n)
      c == NewCases(env, s[3], n)
      d == NewDecls(env, s[2], n)
      body == NewStmts(d.env, s[3], d.n)
      e == NewStmt(env, s[4], a.n)
  IN CASE s[1] = "if" ->
            IF s[4] = Absent THEN done(<<"if", one(s[2]), a.t, Absent>>, a.n)
            ELSE done(<<"if", one(s[2]), a.t, e.t>>, e.n)
       [] s[1] = "while"  -> done(<<"while", one(s[2]), a.t>>, a.n)
       [] s[1] = "for"    -> done(<<"for", one(s[2]), one(s[3]), one(s[4]), b.t>>, b.n)
       [] s[1] = "switch" -> done(<<"switch", one(s[2]), c.t>>, c.n)
       [] s[1] = "block"  -> done(<<"block", d.t, body.t>>, body.n)
       [] s[1] \in {"expr", "return"}    -> done(<<s[1], one(s[2])>>, n)
       [] s[1] \in {"break", "continue"} -> done(s, n)

NewStmts(env, ss, n) ==
  IF ss = <<>> THEN [t |-> <<>>, n |-> n]
  ELSE LET h == NewStmt(env, Head(ss), n)
           r == NewStmts(env, Tail(ss), h.n)
       IN  [t |-> <<h.t>> \o r.t, n |-> r.n]

NewCases(env, cs, n) ==
  IF cs = <<>> THEN [t |-> <<>>, n |-> n]
  ELSE LET h == NewStmts(env, Head(cs)[2], n)
           r == NewCases(env, Tail(cs), h.n)
       IN  [t |-> <<<<NewExpr(env, Head(cs)[1]), h.t>>>> \o r.t, n |-> r.n]

NewDecls(env, ds, n) ==
  IF ds = <<>> THEN [t |-> <<>>, n |-> n, env |-> env]
  ELSE LET d == Head(ds)
           inner == (d[1] :> n + 1) @@ env
           r == NewDecls(inner, Tail(ds), n + 1)
       IN  [r EXCEPT !.t = <<<<<<d[1], n + 1>>, d[2], NewExpr(inner, d[3]), d[4], d[5]>>>> \o @]

Renamed(f) ==
  LET env == [x \in {f.params[k] : k \in DOMAIN f.params} |->
                CHOOSE k \in DOMAIN f.params : f.params[k] = x]
  IN  [f EXCEPT !.params = [k \in DOMAIN f.params |-> <<f.params[k], k>>],
                !.body = NewStmt(env, f.body, Len(f.params)).t]

RECURSIVE DeclsIn(_)

\* The declarations of a statement, in order.
DeclsIn(s) ==
  LET each[k \in 0..Len(s[3])] == IF k = 0 THEN <<>> ELSE each[k - 1] \o DeclsIn(s[3][k])
      arms[k \in 0..Len(s[3])] ==
        IF k = 0 THEN <<>> ELSE arms[k - 1] \o DeclsIn(<<"block", <<>>, s[3][k][2]>>)
  IN CASE s[1] = "block" -> s[2] \o each[Len(s[3])]
       [] s[1] = "if" -> DeclsIn(s[3]) \o (IF s[4] = Absent THEN <<>> ELSE DeclsIn(s[4]))
       [] s[1] = "while"  -> DeclsIn(s[3])
       [] s[1] = "for"    -> DeclsIn(s[5])
       [] s[1] = "switch" -> arms[Len(s[3])]
       [] OTHER -> <<>>

\* The type of each declaration, by its number.
DeclaredTypes(f) ==
  LET locals == DeclsIn(f.body)
  IN  f.ptypes \o [k \in DOMAIN locals |-> locals[k][4]]

Alone(k) == Built(Renamed(program[k]), ReturnTypes(program)).ins
Arithmetic  == {"ADD", "SUB", "MUL", "DIV", "MOD", "NEG", "INC", "DEC"}
Comparisons == {"LT", "LE", "GT", "GE", "EQ", "NE"}

\* The types of the temps of code whose declarations have types var.
TempTypes(code, var) ==
  LET of(m, t) == IF t \in DOMAIN m THEN m[t] ELSE "void"
      result(m, i) ==
        LET o == i.op  a == i.args
        IN CASE o = "CONST" -> a[2][1]
             [] o \in {"LOAD", "LOAD_ARR"} -> var[a[2][2][2]]
             [] o = "READ_INT" -> "int"
             [] o = "CALL" -> scopes[1][a[2][2]].type
             [] o \in Arithmetic -> of(m, a[2])
             [] OTHER -> "bool"
      upto[n \in 0..Len(code)] ==
        IF n = 0 THEN EmptyDict
        ELSE LET new == {t \in Defined(code[n]) : IsTemp(t)}
             IN  [t \in new |-> result(upto[n - 1], code[n])] @@ upto[n - 1]
  IN  upto[Len(code)]

\* Operands have the types the meaning of their instruction calls for; type is
\* that of the temps, var that of the declarations, ret the result's.
OperandsTyped(code, type, var, ret) ==
  LET passed(n, m) == type[code[n - m].args[1]]   \* the m-th PARAM before n
  IN  \A n \in DOMAIN code :
        LET o == code[n].op  a == code[n].args
        IN  /\ o \in BinOps => type[a[2]] = type[a[3]]
            /\ o \in {"AND", "OR", "NOT"} => type[a[2]] = "bool"
            /\ o \in {"JMP_IF", "JMP_IF_NOT"} => type[a[1]] = "bool"
            /\ o = "STORE" => type[a[2]] = var[a[1][2][2]]
            /\ o = "STORE_ARR" => type[a[2]] \in Integral /\ type[a[3]] = var[a[1][2][2]]
            /\ o = "LOAD_ARR" => type[a[3]] \in Integral
            /\ o = "RET" /\ a[1] # None => type[a[1]] = ret
            /\ o = "CALL" => LET f == scopes[1][a[2][2]]
                             IN  \A m \in 1..a[3][2] : passed(n, m) = f.params[a[3][2] + 1 - m]

\* In the code of an accepted program a variable, an element, a parameter and a
\* result only ever get values of the type they are declared with, whatever
\* scopes their names come from, and only Booleans decide.
TypedCode ==
  stage = "validate" => \A k \in DOMAIN program :
    \A code \in {Alone(k)}, var \in {DeclaredTypes(program[k])} :
      OperandsTyped(code, TempTypes(code, var), var, program[k].ret)

\* The declarations of a function that its code, under names of their own, reads:
\* itself or, of an array, an element.
ReadIn(k) ==
  UNION {{i.args[2][2][2] : i \in {j \in {code[n] : n \in DOMAIN code} : j.op \in {"LOAD", "LOAD_ARR"}}} : code \in {Alone(k)}}
NeverRead(k) == DOMAIN DeclaredTypes(program[k]) \ ReadIn(k)
Warned(k)    == {warnings[k][n].line : n \in DOMAIN warnings[k]}
Arrays(k) ==
  LET locals == DeclsIn(program[k].body)
  IN  {Len(program[k].params) + n : n \in {n \in DOMAIN locals : locals[n][2] > 0}}

\* "Warn on locals and parameters that are never read" (unused_warnings.py:1).
NeverReadWarned == stage = "validate" => \A k \in DOMAIN program : NeverRead(k) \subseteq Warned(k)

\* Nobody is warned of what is read, and of every parameter and scalar that is
\* never read somebody is, whatever inner or outer scopes use its name: a read
\* counts for the declaration it means and for no other
\* (unused_warnings.py:57-70, 116-158).  Of arrays see NeverReadWarned.
ReadsMeetTheirScope ==
  stage = "validate" => \A k \in DOMAIN program : \A unread \in {NeverRead(k)} :
    Warned(k) \subseteq unread /\ unread \ Arrays(k) \subseteq Warned(k)

=============================================================================
