-------------------------- MODULE BackendPrograms --------------------------
(***************************************************************************)
(* Programs for the backends, as lowered and as optimised.                 *)
(***************************************************************************)
EXTENDS SmallPrograms, ConstantPasses, Renaming, Sweeps, BasicBlock

\* The passes of main, each once over every function.
Passed(prog) ==
  LET done(code) == BBFunc(CopyFunc(CSEFunc(DCEOnce(SRFunc(PropFunc(FoldFunc(code)))))))
  IN  [f \in DOMAIN prog |-> [prog[f] EXCEPT !.code = done(@)]]

Call(f, es) == <<"call", V(f), es>>
Fn(name, ret, params, decls, ss) ==
  [name |-> name, ret |-> ret, params |-> params, body |-> <<"block", decls, ss>>]
Local(x, e) == <<x, 0, e>>
Array(x, n) == <<x, n, Absent>>
Elem(x, i) == <<"idx", V(x), i>>
Put1(x, i, e) == Do(<<"=", Elem(x, i), e>>)
Plus(l, r) == Op("ADD", l, r)
Post(x) == <<"un", "INC", V(x), TRUE>>
Un(o, e) == <<"un", o, e, FALSE>>
Start0(decls, ss) == Fn("main", "int", <<>>, decls, ss \o <<Return(N(0))>>)

\* f(a, b, ...) with n parameters: a sum that tells their order.
Letters == <<"a", "b", "c", "d", "e", "f", "g", "h", "i">>
Weigh(n) ==
  LET sum[k \in 1..n] == IF k = 1 THEN V("a") ELSE Plus(Op("MUL", N(2), sum[k - 1]), V(Letters[k]))
  IN  Fn("weigh", "int", [k \in 1..n |-> Letters[k]], <<>>,
         <<Return(IF n = 0 THEN N(7) ELSE sum[n])>>)
CallsWeigh(n) ==
  <<Weigh(n), Start0(<<Local("x", N(3))>>,
      <<Say(<<Call("weigh", [k \in 1..n |-> IF k = 2 THEN Post("x") ELSE Plus(X, N(k))])>>), Say(<<X>>)>>)>>

Recursion ==
  <<Fn("fact", "int", <<"n">>, <<Local("k", V("n"))>>,
       <<If(Op("LT", V("k"), N(2)), <<Return(N(1))>>),
         Return(Op("MUL", Call("fact", <<Op("SUB", V("k"), N(1))>>), V("k")))>>),
    Start0(<<>>, <<Say(<<Call("fact", <<Op("MOD", Read, N(4))>>)>>)>>)>>

Sorting ==
  <<Start0(<<Array("a", 3), Local("k", N(0)), Array("b", 2), Local("s", N(0))>>,
     <<Put1("b", N(0), N(5)), Put1("b", N(1), Read),
       While(Op("LT", V("k"), N(3)),
             <<Put1("a", V("k"), Op("MUL", V("k"), Read)), Let("k", Plus(V("k"), N(1)))>>),
       For(<<"=", V("k"), N(2)>>, Op("GE", V("k"), N(0)), <<"un", "DEC", V("k"), TRUE>>,
           <<If(Op("NE", Elem("a", V("k")), Elem("b", N(1))),
                <<Let("s", Plus(V("s"), Elem("a", V("k"))))>>)>>),
       Say(<<V("s"), Elem("b", N(1)), Elem("a", Op("SUB", N(2), N(1)))>>)>>)>>

\* Every operator on two inputs.
Operators ==
  <<Start0(<<Local("x", Read), Local("y", Read)>>,
     <<Say(<<Op("ADD", X, Y), Op("SUB", X, Y), Op("MUL", X, Y), Op("DIV", X, Y), Op("MOD", X, Y)>>),
       Say(<<Op("LT", X, Y), Op("LE", X, Y), Op("GT", X, Y), Op("GE", X, Y), Op("EQ", X, Y), Op("NE", X, Y)>>),
       Say(<<Op("AND", X, Y), Op("OR", X, Y), Un("NOT", X), Un("NEG", X), Un("INC", X), Post("y"), Y>>)>>)>>

\* Characters and strings, a function without a result, an early exit.
Devices ==
  <<Fn("show", "void", <<"n">>, <<Local("c", <<"char", 65>>)>>,
       <<Say(<<<<"string", 1000>>, V("c"), V("n")>>), <<"return", Absent>>>>),
    Start0(<<Local("d", <<"char", 90>>), Local("e", <<"bool", 1>>), Local("f", <<"float", 0>>)>>,
       <<Do(Call("show", <<Read>>)),
         If(Op("GT", Read, N(0)), <<Say(<<V("d")>>), Do(Call("exit", <<V("e")>>))>>),
         Let("d", V("e")), Say(<<V("d"), V("f"), Un("NOT", V("e"))>>)>>)>>

\* What is in a register before a branch and after the paths meet.
Joins ==
  <<Fn("pick", "int", <<"p", "q">>, <<>>,
       <<IfElse(V("p"), <<Let("q", V("p"))>>, <<Let("p", V("q"))>>),
         Switch(V("q"), <<<<N(1), <<Let("p", N(4))>>>>, <<Absent, <<Break>>>>, <<N(2), <<>>>>>>),
         Return(Op("SUB", V("p"), Op("MUL", V("q"), N(3))))>>),
    Start0(<<Local("x", Read), Local("y", N(2))>>,
       <<While(Op("AND", X, Op("LT", Y, N(4))), <<Let("y", Plus(Y, N(1))), Let("x", Y)>>),
         Say(<<Call("pick", <<Call("pick", <<X, Y>>), Call("pick", <<Y, Read>>)>>)>>)>>)>>

Sources == [n \in 1..9 |-> CallsWeigh(n - 1)] \o <<Recursion, Sorting, Operators, Devices, Joins>>
MCPrograms == [k \in DOMAIN Sources |-> Lower(Sources[k])]
                \o [k \in DOMAIN Sources |-> Passed(Lower(Sources[k]))]

\* The ninth argument.
NinePrograms == <<Lower(CallsWeigh(9))>>

\* { int t[2]; ... } { int t[2]; ... }
TwinBlocks ==
  LET blk(n) == <<"block", <<Array("t", 2), Local("k", N(0))>>,
                  <<While(Op("LT", V("k"), N(2)), <<Put1("t", V("k"), N(n)), Do(Post("k"))>>),
                    Say(<<Elem("t", N(0)), Elem("t", N(1))>>)>>>>
  IN  <<Lower(<<Start0(<<>>, <<blk(3), blk(4)>>)>>)>>

\* void f(int a, int b) { print(a); }   int main() { f(1, 2); return 0; }
OpenEnded ==
  <<Lower(<<Fn("f", "void", <<"a", "b">>, <<>>, <<Say(<<V("a")>>)>>),
            Start0(<<>>, <<Do(Call("f", <<N(1), N(2)>>))>>)>>)>>

\* char c(char p) { print(p); return p; }   print(c('A'));
CharPrograms ==
  <<Lower(<<Fn("c", "char", <<"p">>, <<>>, <<Say(<<V("p")>>), Return(V("p"))>>),
            Start0(<<>>, <<Say(<<Call("c", <<<<"char", 65>>>>)>>)>>)>>)>>

=============================================================================
