------------------------------ MODULE ASTtoIR ------------------------------
(***************************************************************************)
(* Lowering of a checked syntax tree to IR (src/ir/ast_to_ir.py).          *)
(*                                                                         *)
(* The type and const of a declaration and the types of parameters are     *)
(* read by nothing here and may be missing.  A builder b is                *)
(* [t, l, ins, loops, rets, raised]: the next temp and label, the code so  *)
(* far, the stack of (break, continue) labels, the return type of every    *)
(* function, and whether an exception was raised, after which the rest is  *)
(* of no interest.                                                         *)
(***************************************************************************)
EXTENDS IR, Tree

Emits(b, op, args) == [b EXCEPT !.ins = Append(@, I(op, args))]
FreshTmp(b)        == [b EXCEPT !.t = @ + 1]
\* Mutant: one label too few is taken.
FewerLbls(b, n)    == [b EXCEPT !.l = @ + n - 1]
FreshLbls(b, n)    == [b EXCEPT !.l = @ + n]
Push(b, brk, cont) == [b EXCEPT !.loops = Append(@, <<brk, cont>>)]
Raise(b)           == [b EXCEPT !.raised = TRUE]
PopLoop(b)         == [b EXCEPT !.loops = SubSeq(@, 1, Len(@) - 1)]

\* The result of lowering an expression: the builder and the temp.
Give(b, t) == [b |-> b, t |-> t]

\* op d, args into a fresh temp d.
Compute(b, op, args) ==
  Give(FreshTmp(Emits(b, op, <<Tmp(b.t)>> \o args)), Tmp(b.t))

RECURSIVE Expr(_, _), Exprs(_, _), Stmt(_, _), Stmts(_, _), Decls(_, _)

\* Mutant: a variable is not stored.
StoreCellsOnly(b, target, t) ==
  IF target[1] # "idx" THEN b
  ELSE LET i == Expr(b, target[3])
       IN  Emits(i.b, "STORE_ARR", <<Var(target[2][2]), i.t, t>>)

\* _post_store, and the store of an assignment: ++ on what is no variable and
\* no element stores nothing.
StoreTo(b, target, t) ==
  CASE target[1] = "var" -> Emits(b, "STORE", <<Var(target[2]), t>>)
    [] target[1] = "idx" -> LET i == Expr(b, target[3])
                            IN  Emits(i.b, "STORE_ARR", <<Var(target[2][2]), i.t, t>>)
    [] OTHER -> b

CallExpr(b, f, args) ==
  LET v == Exprs(b, args)
      params[n \in 0..Len(v.ts)] ==
        IF n = 0 THEN v.b ELSE Emits(params[n - 1], "PARAM", <<v.ts[n]>>)
      c == params[Len(v.ts)]
      void == f \in DOMAIN b.rets /\ b.rets[f] = "void"
      call(d) == Emits(c, "CALL", <<d, <<"f", f>>, <<"n", Len(args)>>>>)
  IN CASE f = "print"   -> Give(FreshTmp(Emits(v.b, "PRINT", v.ts)), Tmp(v.b.t))
       [] f = "readInt" -> Compute(b, "READ_INT", <<>>)
       [] f = "exit"    -> Give(FreshTmp(Emits(v.b, "EXIT", <<v.ts[1]>>)), Tmp(v.b.t))
       [] OTHER -> Give(FreshTmp(call(IF void THEN None ELSE Tmp(c.t))), Tmp(c.t))

Expr(b, e) ==
  CASE e[1] \in Literals -> Compute(b, "CONST", <<e>>)
    [] e[1] = "var" -> Compute(b, "LOAD", <<Var(e[2])>>)
    [] e[1] = "idx" -> \* the destination is numbered before the index
         LET i == Expr(FreshTmp(b), e[3])
         IN  Give(Emits(i.b, "LOAD_ARR", <<Tmp(b.t), Var(e[2][2]), i.t>>), Tmp(b.t))
    [] e[1] = "=" -> LET v == Expr(b, e[3]) IN Give(StoreTo(v.b, e[2], v.t), v.t)
    [] e[1] = "bin" ->
         LET l == Expr(b, e[3])  r == Expr(l.b, e[4])
         IN  Compute(r.b, e[2], <<l.t, r.t>>)
    [] e[1] = "un" ->
         LET s == Expr(b, e[3])  d == Compute(s.b, e[2], <<s.t>>)
         IN  IF e[2] \in {"INC", "DEC"}
             THEN Give(StoreTo(d.b, e[3], d.t), IF e[4] THEN s.t ELSE d.t)
             ELSE d
    [] e[1] = "call" -> CallExpr(b, e[2][2], e[3])

Exprs(b, es) ==
  IF es = <<>> THEN [b |-> b, ts |-> <<>>]
  ELSE LET h == Expr(b, Head(es))  r == Exprs(h.b, Tail(es))
       IN  [b |-> r.b, ts |-> <<h.t>> \o r.ts]

IfStmt(b, s) ==
  LET c    == Expr(b, s[2])
      le   == Lbl(c.b.l)  en == Lbl(c.b.l + 1)
      then == Stmt(Emits(FreshLbls(c.b, 2), "JMP_IF_NOT", <<c.t, le>>), s[3])
      else == Emits(Emits(then, "JMP", <<en>>), "LABEL", <<le>>)
  IN  Emits(IF s[4] = Absent THEN else ELSE Stmt(else, s[4]), "LABEL", <<en>>)

\* while and for: continue goes to the header h, so a for's increment is
\* part of the body's fall-through only.
Loop(b, cond, body, inc) ==
  LET h == Lbl(b.l)  x == Lbl(b.l + 1)
      head == Emits(Push(FreshLbls(b, 2), x, h), "LABEL", <<h>>)
      c    == Expr(head, cond)
      test == IF cond = Absent THEN head
              ELSE Emits(c.b, "JMP_IF_NOT", <<c.t, x>>)
      once == Stmt(test, body)
      last == IF inc = Absent THEN once ELSE Expr(once, inc).b
  IN  PopLoop(Emits(Emits(last, "JMP", <<h>>), "LABEL", <<x>>))

\* Mutant: the outermost.
OuterContinue(b) ==
  LET loops == {k \in DOMAIN b.loops : b.loops[k][2] # None}
  IN  b.loops[CHOOSE k \in loops : \A n \in loops : n >= k][2]

\* The innermost enclosing frame with a continue label: not a switch's.
ContinueLabel(b) ==
  LET loops == {k \in DOMAIN b.loops : b.loops[k][2] # None}
  IN  b.loops[CHOOSE k \in loops : \A n \in loops : n <= k][2]

\* Outside of any loop a break raises an IndexError; a continue is forgotten.
Jump(b, s) ==
  CASE s[1] = "break" ->
         IF b.loops = <<>> THEN Raise(b) ELSE Emits(b, "JMP", <<b.loops[Len(b.loops)][1]>>)
    [] s[1] = "continue" ->
         IF \A k \in DOMAIN b.loops : b.loops[k][2] = None THEN b
         ELSE Emits(b, "JMP", <<ContinueLabel(b)>>)

SwitchStmt(b, s) ==
  LET subj == Expr(b, s[2])
      n    == Len(s[3])
      end  == Lbl(subj.b.l)
      arm(i) == Lbl(subj.b.l + i)
      defaults == {i \in 1..n : s[3][i][1] = Absent}
      test(c, i) ==
        LET v == Expr(c, s[3][i][1])
            q == Compute(v.b, "EQ", <<subj.t, v.t>>)
        IN  Emits(q.b, "JMP_IF", <<q.t, arm(i)>>)
      tests[i \in 0..n] ==
        IF i = 0 THEN FreshLbls(subj.b, n + 1)
        ELSE IF i \in defaults THEN tests[i - 1] ELSE test(tests[i - 1], i)
      first == CHOOSE i \in defaults : \A k \in defaults : i <= k
      go    == Emits(tests[n], "JMP", <<IF defaults = {} THEN end ELSE arm(first)>>)
      arms[i \in 0..n] ==
        IF i = 0 THEN Push(go, end, None)
        ELSE Stmts(Emits(arms[i - 1], "LABEL", <<arm(i)>>), s[3][i][2])
  IN  Emits(PopLoop(arms[n]), "LABEL", <<end>>)

Stmt(b, s) ==
  CASE s[1] = "expr" -> \* an empty statement is an unknown one
         IF s[2] = Absent THEN Raise(b) ELSE Expr(b, s[2]).b
    [] s[1] = "if" -> IfStmt(b, s)
    [] s[1] = "while" -> Loop(b, s[2], s[3], Absent)
    [] s[1] = "for" -> Loop(IF s[2] = Absent THEN b ELSE Expr(b, s[2]).b,
                            s[3], s[5], s[4])
    [] s[1] \in {"break", "continue"} -> Jump(b, s)
    [] s[1] = "switch" -> SwitchStmt(b, s)
    [] s[1] = "return" ->
         IF s[2] = Absent THEN Emits(b, "RET", <<None>>)
         ELSE LET v == Expr(b, s[2]) IN Emits(v.b, "RET", <<v.t>>)
    [] s[1] = "block" -> LET body(x) == Stmts(x, s[3]) IN Once(body, Decls(b, s[2]))

Stmts(b, ss) ==
  LET rest(x) == Stmts(x, Tail(ss))
  IN  IF ss = <<>> THEN b ELSE Once(rest, Stmt(b, Head(ss)))

\* Mutant: the initialiser is computed and not stored.
DeclsUnstored(b, ds) ==
  IF ds = <<>> THEN b ELSE
  LET d == Head(ds)
      a == IF d[2] = 0 THEN b
           ELSE Emits(b, "ALLOC_ARRAY", <<Var(d[1]), <<"n", d[2]>>>>)
  IN  Decls(IF d[3] = Absent THEN a ELSE Expr(a, d[3]).b, Tail(ds))

Decls(b, ds) ==
  IF ds = <<>> THEN b ELSE
  LET d == Head(ds)
      a == IF d[2] = 0 THEN b
           ELSE Emits(b, "ALLOC_ARRAY", <<Var(d[1]), <<"n", d[2]>>>>)
      v == Expr(a, d[3])
  IN  Decls(IF d[3] = Absent THEN a ELSE Emits(v.b, "STORE", <<Var(d[1]), v.t>>),
            Tail(ds))

(***************************************************************************)
(* A declared function is [name, ret, params, body], its body a block.     *)
(* Its IR keeps the parameters as a list, formals, and as a set, params.   *)
(***************************************************************************)
Built(f, rets) ==
  LET empty == [t |-> 0, l |-> 0, ins |-> <<>>, loops |-> <<>>, rets |-> rets, raised |-> FALSE]
  IN  Stmt(Emits(empty, "FUNC_ENTRY", <<<<"f", f.name>>>>), f.body)

LowerFunction(f, rets) ==
  [name |-> <<"f", f.name>>, ret |-> f.ret,
   formals |-> [k \in DOMAIN f.params |-> Var(f.params[k])],
   params  |-> {Var(f.params[k]) : k \in DOMAIN f.params},
   code    |-> Built(f, rets).ins]

ReturnTypes(decls) ==
  [n \in {decls[i].name : i \in DOMAIN decls} |->
     decls[CHOOSE i \in DOMAIN decls : decls[i].name = n].ret]

Lower(decls)  == [i \in DOMAIN decls |-> LowerFunction(decls[i], ReturnTypes(decls))]
Raises(decls) == \E i \in DOMAIN decls : Built(decls[i], ReturnTypes(decls)).raised

=============================================================================
