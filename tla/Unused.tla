------------------------------- MODULE Unused -------------------------------
(***************************************************************************)
(* The warnings about parameters and locals that are never read            *)
(* (src/unused_warnings.py).                                               *)
(*                                                                         *)
(* A walk u is [scopes, lines, warnings]: the tables of bindings, the      *)
(* innermost last, how many declarations were met, and the warnings given. *)
(* A binding is [name, line, kind, used]; its line is the number of its    *)
(* declaration in the function.                                            *)
(***************************************************************************)
EXTENDS Tree

LOCAL Last(s)  == s[Len(s)]
LOCAL Front(s) == SubSeq(s, 1, Len(s) - 1)

DeclareName(u, name, kind) ==
  LET b == [name |-> name, line |-> u.lines + 1, kind |-> kind, used |-> FALSE]
  IN  [u EXCEPT !.lines = @ + 1, !.scopes[Len(u.scopes)] = Append(@, b)]

\* Mutant: in every scope.
MarkAllRead(u, name) ==
  [u EXCEPT !.scopes = [k \in DOMAIN @ |->
     [n \in DOMAIN @[k] |-> IF @[k][n].name = name THEN [@[k][n] EXCEPT !.used = TRUE] ELSE @[k][n]]]]

\* In the innermost scope that has the name.
MarkRead(u, name) ==
  LET has(k) == \E n \in DOMAIN u.scopes[k] : u.scopes[k][n].name = name
      at == {k \in DOMAIN u.scopes : has(k)}
      inner == CHOOSE k \in at : \A n \in at : n <= k
      marked(b) == IF b.name = name THEN [b EXCEPT !.used = TRUE] ELSE b
  IN  IF at = {} THEN u
      ELSE [u EXCEPT !.scopes[inner] = [n \in DOMAIN @ |-> marked(@[n])]]

PopScope(u) ==
  [u EXCEPT !.scopes = Front(@),
            !.warnings = @ \o SelectSeq(Last(u.scopes), LAMBDA b : ~b.used)]

RECURSIVE VisitExpr(_, _), VisitExprs(_, _), VisitStmt(_, _), VisitStmts(_, _), VisitCases(_, _),
          VisitDecls(_, _)

VisitMaybe(u, e) == IF e = Absent THEN u ELSE VisitExpr(u, e)

\* The target variable is not read; the array of a target element is.
VisitAssign(u, target, value) ==
  IF target[1] = "var" THEN VisitExpr(u, value)
  ELSE VisitExpr(VisitExpr(MarkRead(u, target[2][2]), target[3]), value)

VisitExpr(u, e) ==
  CASE e[1] \in Literals -> u
    [] e[1] = "var"  -> MarkRead(u, e[2])
    [] e[1] = "idx"  -> VisitExpr(MarkRead(u, e[2][2]), e[3])
    [] e[1] = "bin"  -> VisitExpr(VisitExpr(u, e[3]), e[4])
    [] e[1] = "un"   -> VisitExpr(u, e[3])
    [] e[1] = "="    -> VisitAssign(u, e[2], e[3])
    [] e[1] = "call" -> VisitExprs(IF e[2][1] = "var" THEN MarkRead(u, e[2][2]) ELSE u, e[3])

VisitExprs(u, es) == IF es = <<>> THEN u ELSE VisitExprs(VisitExpr(u, Head(es)), Tail(es))

VisitStmt(u, s) ==
  CASE s[1] = "block"  -> PopScope(VisitStmts(VisitDecls([u EXCEPT !.scopes = Append(@, <<>>)], s[2]), s[3]))
    [] s[1] = "if"     -> LET then == VisitStmt(VisitExpr(u, s[2]), s[3])
                          IN  IF s[4] = Absent THEN then ELSE VisitStmt(then, s[4])
    [] s[1] = "while"  -> VisitStmt(VisitExpr(u, s[2]), s[3])
    [] s[1] = "for"    -> VisitStmt(VisitMaybe(VisitMaybe(VisitMaybe(u, s[2]), s[3]), s[4]), s[5])
    [] s[1] = "switch" -> VisitCases(VisitExpr(u, s[2]), s[3])
    [] s[1] \in {"return", "expr"}    -> VisitMaybe(u, s[2])
    [] s[1] \in {"break", "continue"} -> u

VisitStmts(u, ss) == IF ss = <<>> THEN u ELSE VisitStmts(VisitStmt(u, Head(ss)), Tail(ss))

VisitCases(u, cs) ==
  IF cs = <<>> THEN u
  ELSE VisitCases(VisitStmts(VisitMaybe(u, Head(cs)[1]), Head(cs)[2]), Tail(cs))

VisitDecls(u, ds) ==
  IF ds = <<>> THEN u
  ELSE VisitDecls(VisitMaybe(DeclareName(u, Head(ds)[1], "variable"), Head(ds)[3]), Tail(ds))

UnusedInFunction(f) ==
  LET params[k \in 0..Len(f.params)] ==
        IF k = 0 THEN [scopes |-> <<<<>>>>, lines |-> 0, warnings |-> <<>>]
        ELSE DeclareName(params[k - 1], f.params[k], "parameter")
  IN  PopScope(VisitStmt(params[Len(f.params)], f.body)).warnings

UnusedVariableWarnings(fs) == [k \in DOMAIN fs |-> UnusedInFunction(fs[k])]

=============================================================================
