----------------------------- MODULE SourceRun -----------------------------
(***************************************************************************)
(* What a compiled function promises: it shows the events its syntax tree  *)
(* means, in order, one after the other, and all of them.                  *)
(***************************************************************************)
EXTENDS IRMachine

-----------------------------------------------------------------------------
(***************************************************************************)
(* The reference: what a function of the source language shows to the      *)
(* outside, read off its syntax tree (the trees of ASTtoIR).  It knows no  *)
(* temp, no label and no jump.                                             *)
(*                                                                         *)
(* A state s is [env, used, out, flow]: the variables, the inputs          *)
(* consumed, the events shown, and how the last statement ended: "go",     *)
(* "break", "continue", "ret" or "exit".  Both operands of an operator are *)
(* evaluated, left to right; the value of an assignment before the index   *)
(* of its target; a case falls into the next.  Names are unique in a       *)
(* function: an inner declaration that hides an outer one is left out.     *)
(***************************************************************************)
LOCAL Nothing == <<"absent">>

Yields(s, v)   == [s |-> s, v |-> v]
Show(s, event) == [s EXCEPT !.out = Append(@, event)]
Bind(s, n, v)  == [s EXCEPT !.env = Put(@, n, v)]
Look(s, n)     == IF n \in DOMAIN s.env THEN s.env[n] ELSE Undef
Ends(s, flow)  == [s EXCEPT !.flow = flow]

\* The next answer of the environment.
Answer(s, in) == Yields([s EXCEPT !.used = @ + 1], in[1 + (s.used % Len(in))])

RECURSIVE Value(_, _, _), Values(_, _, _), Exec(_, _, _), ExecAll(_, _, _),
          Looped(_, _, _, _, _)

Assign(s, target, v, in) ==
  IF target[1] = "var" THEN Bind(s, Var(target[2]), v)
  ELSE LET i == Value(s, target[3], in) IN Bind(i.s, Cell(Var(target[2][2]), i.v), v)

ShowAll(s, op, vs) ==
  [s EXCEPT !.out = @ \o [k \in DOMAIN vs |-> <<op, <<vs[k]>>>>]]

Called(s, e, in) ==
  LET r == Values(s, e[3], in)
      f == e[2][2]
      call == Show(ShowAll(r.s, "PARAM", r.v), <<"CALL", <<<<"f", f>>, <<"n", Len(e[3])>>>>>>)
  IN CASE f = "print"   -> Yields(Show(r.s, <<"PRINT", r.v>>), 0)
       [] f = "readInt" -> Answer(Show(s, <<"READ_INT", <<>>>>), in)
       [] f = "exit"    -> Yields(Ends(Show(r.s, <<"EXIT", r.v>>), "exit"), 0)
       [] OTHER -> Answer(call, in)

Value(s, e, in) ==
  CASE e[1] \in {"int", "bool", "char"} -> Yields(s, Wrap(e[2]))
    [] e[1] = "var" -> Yields(s, Look(s, Var(e[2])))
    [] e[1] = "idx" -> LET i == Value(s, e[3], in)
                       IN  Yields(i.s, Look(i.s, Cell(Var(e[2][2]), i.v)))
    [] e[1] = "=" -> LET r == Value(s, e[3], in)
                     IN  Yields(Assign(r.s, e[2], r.v, in), r.v)
    [] e[1] = "bin" -> LET l == Value(s, e[3], in)  r == Value(l.s, e[4], in)
                       IN  Yields(r.s, Arith(e[2], l.v, r.v))
    [] e[1] = "un" -> LET o == Value(s, e[3], in)  v == Unary(e[2], o.v)
                      IN  IF e[2] \in {"NEG", "NOT"} THEN Yields(o.s, v)
                          ELSE Yields(Assign(o.s, e[3], v, in),
                                      IF e[4] THEN o.v ELSE v)
    [] e[1] = "call" -> Called(s, e, in)

Values(s, es, in) ==
  IF es = <<>> THEN Yields(s, <<>>)
  ELSE LET h == Value(s, Head(es), in)  r == Values(h.s, Tail(es), in)
       IN  Yields(r.s, <<h.v>> \o r.v)

\* A loop: inc runs after the body, after a continue too.
Looped(s, cond, body, inc, in) ==
  LET c == IF cond = Nothing THEN Yields(s, 1) ELSE Value(s, cond, in)
      b == Exec(c.s, body, in)
      g == Ends(b, "go")
      n == IF inc = Nothing THEN g ELSE Value(g, inc, in).s
  IN CASE c.v = 0 -> c.s
       [] c.v # 0 /\ b.flow = "break" -> g
       [] c.v # 0 /\ b.flow \in {"ret", "exit"} -> b
       [] OTHER -> LET again(x) == Looped(x, cond, body, inc, in) IN Once(again, n)

\* The first arm whose value is the subject's, else the default, else none;
\* then every arm from there on until a break.
Switched(s, t, in) ==
  LET subj == Value(s, t[2], in)
      arms == t[3]
      hits == {k \in DOMAIN arms : arms[k][1] # Nothing
                                   /\ Value(subj.s, arms[k][1], in).v = subj.v}
      rest == {k \in DOMAIN arms : arms[k][1] = Nothing}
      least(S) == CHOOSE k \in S : \A n \in S : k <= n
      from == IF hits # {} THEN least(hits)
              ELSE IF rest # {} THEN least(rest) ELSE Len(arms) + 1
      run[k \in 0..Len(arms)] ==
        IF k < from THEN subj.s ELSE ExecAll(run[k - 1], arms[k][2], in)
      end == run[Len(arms)]
  IN  IF end.flow = "break" THEN Ends(end, "go") ELSE end

Declare(s, d, in) ==
  IF d[3] = Nothing THEN s
  ELSE LET v == Value(s, d[3], in) IN Bind(v.s, Var(d[1]), v.v)

Exec(s, t, in) ==
  CASE s.flow # "go" -> s
    [] s.flow = "go" /\ t[1] = "expr" -> Value(s, t[2], in).s
    [] s.flow = "go" /\ t[1] = "if" ->
         LET c == Value(s, t[2], in)
         IN  IF c.v # 0 THEN Exec(c.s, t[3], in)
             ELSE IF t[4] = Nothing THEN c.s ELSE Exec(c.s, t[4], in)
    [] s.flow = "go" /\ t[1] = "while" -> Looped(s, t[2], t[3], Nothing, in)
    [] s.flow = "go" /\ t[1] = "for" ->
         Looped(IF t[2] = Nothing THEN s ELSE Value(s, t[2], in).s,
               t[3], t[5], t[4], in)
    [] s.flow = "go" /\ t[1] = "switch" -> Switched(s, t, in)
    [] s.flow = "go" /\ t[1] \in {"break", "continue"} -> Ends(s, t[1])
    [] s.flow = "go" /\ t[1] = "return" ->
         IF t[2] = Nothing THEN Ends(Show(s, <<"RET", <<>>>>), "ret")
         ELSE LET v == Value(s, t[2], in)
              IN  Ends(Show(v.s, <<"RET", <<v.v>>>>), "ret")
    [] s.flow = "go" /\ t[1] = "block" ->
         LET ds == t[2]
             dec[k \in 0..Len(ds)] == IF k = 0 THEN s ELSE Declare(dec[k - 1], ds[k], in)
         IN  ExecAll(dec[Len(ds)], t[3], in)

ExecAll(s, ts, in) ==
  LET rest(x) == ExecAll(x, Tail(ts), in)
  IN  IF ts = <<>> THEN s ELSE Once(rest, Exec(s, Head(ts), in))

(***************************************************************************)
(* The events a call of function f shows: every parameter is the first     *)
(* input, as in the machine's Start.                                       *)
(***************************************************************************)
Events(f, in) ==
  LET start == [env |-> [n \in {Var(f.params[k]) : k \in DOMAIN f.params} |-> in[1]],
                used |-> 0, out |-> <<>>, flow |-> "go"]
  IN  Exec(start, f.body, in).out

-----------------------------------------------------------------------------

CONSTANTS Trees,        \* functions, as syntax trees
          InputLists    \* lists of answers of the environment

VARIABLES tree, inputs, script, shown

vars == <<tree, inputs, script, shown>>

Init ==
  /\ tree \in Trees
  /\ inputs \in InputLists
  /\ script = Events(tree, inputs)
  /\ shown = <<>>

ShowNext ==
  /\ Len(shown) < Len(script)
  /\ shown' = Append(shown, script[Len(shown) + 1])
  /\ UNCHANGED <<tree, inputs, script>>

Spec == Init /\ [][ShowNext]_vars /\ WF_vars(ShowNext)

=============================================================================
