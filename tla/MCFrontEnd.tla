----------------------------- MODULE MCFrontEnd -----------------------------
(***************************************************************************)
(* Small programs, well typed and ill typed, around                        *)
(*   int h(int p, bool q) { return p; }   void w(char p) { }               *)
(*   int main(int x, bool b, char c, uint32 u) {                           *)
(*     int a[2]; int y = x; <statements> return y; }                       *)
(***************************************************************************)
EXTENDS FrontEnd

N(n) == <<"int", n>>
V(x) == <<"var", x>>
X == V("x")
B == V("b")
Op(o, l, r) == <<"bin", o, l, r>>
Un(o, e)    == <<"un", o, e, FALSE>>
Let(l, r)   == <<"=", l, r>>
Call(f, es) == <<"call", V(f), es>>
Elem(i)  == <<"idx", V("a"), i>>
E(e)     == <<"expr", e>>
Local(t, x, e) == <<x, 0, e, t, FALSE>>
Pair(x)  == <<x, 2, Absent, "int", FALSE>>
Blk(ds, ss) == <<"block", ds, ss>>
Do(ss)   == Blk(<<>>, ss)
If(c, s) == <<"if", c, s, Absent>>
While(c, s) == <<"while", c, s>>
For(i, c, n, s) == <<"for", i, c, n, s>>
Switch(e, cs) == <<"switch", e, cs>>
Ret(e)   == <<"return", e>>
True     == <<"bool", 1>>
Brk  == <<"break">>
Cont == <<"continue">>

Fn(name, ret, params, ptypes, body) ==
  [name |-> name, ret |-> ret, params |-> params, ptypes |-> ptypes, body |-> body]
H == Fn("h", "int", <<"p", "q">>, <<"int", "bool">>, Do(<<Ret(V("p"))>>))
W == Fn("w", "void", <<"p">>, <<"char">>, Do(<<>>))
MainIs(ds, ss) ==
  Fn("main", "int", <<"x", "b", "c", "u">>, <<"int", "bool", "char", "uint32">>,
     Blk(<<Pair("a"), Local("int", "y", X)>> \o ds,
         ss \o <<Ret(V("y"))>>))

Source(fs, typed) == [functions |-> fs, broken |-> FALSE, typed |-> typed]
Prog(ds, ss, typed) == Source(<<H, MainIs(ds, ss), W>>, typed)

-----------------------------------------------------------------------------
\* Expressions by the type they are written to have, and ill-typed ones.
Ints  == {N(1), X, Elem(N(0)), Elem(V("u")), Call("h", <<X, B>>), Call("readInt", <<>>),
          Let(V("y"), Op("ADD", X, N(1))), Let(Elem(X), N(2)), Un("NEG", X), <<"un", "INC", Elem(X), TRUE>>,
          Op("MOD", Call("h", <<N(1), Op("LT", X, N(2))>>), X), <<"un", "DEC", N(4), FALSE>>}
Bools == {B, True, Op("LE", X, N(1)), Op("EQ", V("c"), <<"char", 65>>), Op("OR", B, Op("NE", V("u"), V("u"))),
          Un("NOT", B), Let(B, Op("GT", X, X)), Op("EQ", B, True)}
Chars == {V("c"), <<"char", 65>>, Let(V("c"), <<"char", 66>>), Op("ADD", V("c"), V("c"))}
Words == {V("u"), Op("MUL", V("u"), V("u"))}
Voids == {Call("w", <<V("c")>>), Call("print", <<X, B, <<"string", 100>>>>), Call("exit", <<V("u")>>)}
Wrongs ==
  {V("z"), V("h"), Op("ADD", X, B), Op("LT", V("u"), N(1)), Op("AND", X, X), Un("NOT", X),
   Let(X, B), Let(V("z"), N(1)), Let(Elem(B), N(1)), Let(<<"idx", X, N(0)>>, N(1)), Let(Elem(X), V("c")),
   Elem(V("c")), <<"idx", V("z"), N(0)>>, Call("z", <<>>), Call("h", <<X>>), Call("h", <<B, X>>),
   Call("h", <<X, B, X>>), Call("w", <<X>>), Call("exit", <<>>), Call("exit", <<B>>),
   Call("readInt", <<X>>), Call("print", <<V("z")>>), Op("EQ", Call("h", <<X, Op("AND", B, X)>>), X)}
All == Ints \cup Bools \cup Chars \cup Words \cup Voids \cup Wrongs

\* Places for an expression, and those of each type that fit.
Places(e) ==
  {<<Prog(<<Local("int", "k", e)>>, <<>>, "?"), Ints>>,
   <<Prog(<<Local("bool", "k", e)>>, <<E(Let(V("k"), V("k")))>>, "?"), Bools>>,
   <<Prog(<<>>, <<If(e, E(X))>>, "?"), Bools>>,
   <<Prog(<<>>, <<While(e, Brk)>>, "?"), Bools>>,
   <<Prog(<<>>, <<For(e, e, e, Cont)>>, "?"), Bools>>,
   <<Prog(<<>>, <<Switch(e, <<<<N(3), <<Brk>>>>>>)>>, "?"), Ints>>,
   <<Prog(<<>>, <<Switch(V("c"), <<<<Absent, <<>>>>, <<e, <<>>>>>>)>>, "?"), Chars>>,
   <<Prog(<<>>, <<If(B, Ret(e))>>, "?"), Ints>>,
   <<Prog(<<>>, <<E(Let(V("c"), e))>>, "?"), Chars>>,
   <<Prog(<<>>, <<E(Elem(e))>>, "?"), Ints \cup Words>>,
   <<Prog(<<>>, <<E(Call("h", <<X, e>>))>>, "?"), Bools>>,
   <<Prog(<<>>, <<E(e)>>, "?"), All \ Wrongs>>}

ExprSources ==
  UNION {{[p[1] EXCEPT !.typed = IF e \in p[2] THEN "yes" ELSE "no"] : p \in Places(e)} : e \in All}

-----------------------------------------------------------------------------
\* Jumps in, and behind, loops and switches.
In(s) == {s, Do(<<s>>), If(B, s), While(B, s), For(Absent, Absent, Absent, s),
          Switch(X, <<<<N(1), <<s>>>>, <<Absent, <<Brk>>>>>>)}
JumpSources ==
  {Prog(<<>>, <<t, s>>, IF Stray(Do(<<t, s>>), FALSE, FALSE) THEN "no" ELSE "yes") :
     t \in UNION {In(s) : s \in UNION {In(j) : j \in {Brk, Cont}}},
     s \in {Ret(X), Brk, Cont, If(B, Cont)}}

\* A name declared again: beside, inside, behind; as another type.
Use == E(Let(V("y"), V("k")))
ScopeSources ==
  {Prog(<<Local("int", "k", N(1))>>, <<Blk(<<Local("bool", "k", True)>>, <<E(Let(V("k"), B))>>), Use>>, "yes"),
   Prog(<<Local("bool", "k", True)>>, <<Blk(<<Local("int", "k", N(1))>>, <<Use>>)>>, "yes"),
   Prog(<<Local("bool", "k", True)>>, <<Blk(<<Local("int", "k", N(1))>>, <<>>), Use>>, "no"),
   Prog(<<>>, <<Blk(<<Local("int", "k", N(1))>>, <<>>), Use>>, "no"),
   Prog(<<>>, <<Blk(<<Local("int", "k", N(1))>>, <<Use>>), Blk(<<Local("bool", "k", B)>>, <<If(V("k"), Use)>>)>>, "no"),
   Prog(<<>>, <<Blk(<<Local("int", "k", N(1))>>, <<Use>>), Blk(<<Local("bool", "k", B)>>, <<If(V("k"), Do(<<>>))>>)>>, "yes"),
   Prog(<<Local("bool", "x", B)>>, <<If(X, Do(<<>>))>>, "yes"),
   Prog(<<Local("int", "k", N(1)), Local("int", "k", N(2))>>, <<>>, "no"),
   Prog(<<Local("int", "k", V("k"))>>, <<>>, "yes"),
   Prog(<<Local("int", "k", V("m")), Local("int", "m", N(1))>>, <<>>, "no"),
   Prog(<<Local("int", "k", N(1))>>, <<While(B, Blk(<<Local("int", "k", V("k"))>>, <<Use>>))>>, "yes"),
   Prog(<<Local("int", "k", N(1))>>, <<Switch(X, <<<<N(1), <<Blk(<<Local("int", "k", X)>>, <<>>)>>>>, <<Absent, <<Use>>>>>>)>>, "yes"),
   Prog(<<Local("int", "k", N(1))>>, <<If(B, Blk(<<Local("int", "j", N(1))>>, <<Use>>))>>, "yes"),
   Prog(<<Local("int", "k", N(1))>>, <<Blk(<<Pair("k")>>, <<E(Let(V("y"), <<"idx", V("k"), X>>))>>)>>, "yes"),
   Prog(<<Local("int", "k", N(1))>>, <<Blk(<<Pair("k")>>, <<E(Let(<<"idx", V("k"), X>>, N(2)))>>)>>, "yes"),
   Prog(<<Pair("k")>>, <<Blk(<<Local("int", "k", N(1))>>, <<Use>>)>>, "yes"),
   Prog(<<>>, <<Switch(X, <<<<Absent, <<>>>>, <<Absent, <<>>>>>>)>>, "no"),
   Prog(<<>>, <<Ret(Absent)>>, "no"),
   Source(<<H, W>>, "no"), Source(<<H, MainIs(<<>>, <<>>), H, W>>, "no"),
   Source(<<[H EXCEPT !.name = "print"], MainIs(<<>>, <<>>)>>, "no"),
   Source(<<[H EXCEPT !.params = <<"p", "p">>], MainIs(<<>>, <<>>)>>, "no"),
   Source(<<[W EXCEPT !.body = Do(<<Ret(N(1))>>)], MainIs(<<>>, <<>>)>>, "no"),
   Source(<<[W EXCEPT !.body = Do(<<While(True, Do(<<Brk>>)), Ret(Absent)>>)], MainIs(<<>>, <<>>)>>, "yes"),
   Source(<<[W EXCEPT !.body = Do(<<Cont>>)], [H EXCEPT !.body = Do(<<While(True, Do(<<>>)), Ret(N(1))>>)], MainIs(<<>>, <<>>)>>, "no"),
   [Prog(<<>>, <<>>, "yes") EXCEPT !.broken = TRUE],
   Prog(<<>>, <<E(<<"call", Elem(X), <<>>>>)>>, "no"), Prog(<<>>, <<E(<<"idx", Elem(X), X>>)>>, "no")}

MCSources == ExprSources \cup JumpSources \cup ScopeSources

-----------------------------------------------------------------------------
\* Their trees, and all parts of them: none lies deeper than Deepest.
Deepest == 8
Members(xs) == {xs[k] : k \in DOMAIN xs}

SubStatements(s) ==
  CASE s[1] = "if"     -> {s[3], s[4]} \ {Absent}
    [] s[1] = "while"  -> {s[3]}
    [] s[1] = "for"    -> {s[5]}
    [] s[1] = "switch" -> UNION {Members(s[3][k][2]) : k \in DOMAIN s[3]}
    [] s[1] = "block"  -> Members(s[3])
    [] OTHER -> {}

ExpressionsOf(s) ==
  CASE s[1] \in {"if", "while", "return", "expr"} -> {s[2]}
    [] s[1] = "for"    -> {s[2], s[3], s[4]}
    [] s[1] = "switch" -> {s[2]} \cup {s[3][k][1] : k \in DOMAIN s[3]}
    [] s[1] = "block"  -> {s[2][k][3] : k \in DOMAIN s[2]}
    [] OTHER -> {}

SubExpressions(e) ==
  CASE e[1] \in {"=", "idx"} -> {e[2], e[3]}
    [] e[1] = "bin"  -> {e[3], e[4]}
    [] e[1] = "un"   -> {e[3]}
    [] e[1] = "call" -> Members(e[3])
    [] OTHER -> {}

MCPrograms   == {s.functions : s \in MCSources}
MCStatements ==
  LET down[n \in 0..Deepest] ==
        IF n = 0 THEN UNION {{p[k].body : k \in DOMAIN p} : p \in MCPrograms}
        ELSE LET above == down[n - 1] IN above \cup UNION {SubStatements(s) : s \in above}
  IN  down[Deepest]
MCExpressions ==
  LET down[n \in 0..Deepest] ==
        IF n = 0 THEN UNION {ExpressionsOf(s) : s \in MCStatements} \ {Absent}
        ELSE LET above == down[n - 1] IN above \cup UNION {SubExpressions(e) : e \in above}
  IN  down[Deepest]

\* ";"
EmptySources == {Prog(<<>>, <<E(Absent)>>, "yes")}

\* int h = 1; y = h(x, b);
NamesakeSources == {Prog(<<Local("int", "h", N(1))>>, <<E(Let(V("y"), Call("h", <<X, B>>)))>>, "yes")}

=============================================================================
