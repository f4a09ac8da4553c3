------------------------------- MODULE MCCpp -------------------------------
(***************************************************************************)
(* Instances of CppRun for TLC.                                            *)
(***************************************************************************)
EXTENDS CppRun, BackendPrograms

MCInputLists == {<<0, 3>>, <<1>>, <<5, -2, 2>>, <<7, 0>>, <<3, -8191, 4>>}

\* int f(int new) { int goto; int and[2]; and[1] = new; goto = and[1]; return goto; }
\* int main() { int x; x = 3; while (x < 0) x = x; print(f(x)); return 0; }
Reserved ==
  Lower(<<Fn("f", "int", <<"new">>, <<<<"goto", 0, Absent>>, Array("and", 2)>>,
             <<Put1("and", N(1), V("new")), Let("goto", Elem("and", N(1))), Return(V("goto"))>>),
          Start0(<<Local("x", N(3))>>,
             <<While(Op("LT", X, N(0)), <<Let("x", X)>>), Say(<<Call("f", <<X>>)>>)>>)>>)

CppPrograms == MCPrograms \o <<Reserved>>

\* void f(int a) { if (a > 0) print(a); }   int main() { f(1); return 0; }
EndsInLabel ==
  <<Lower(<<Fn("f", "void", <<"a">>, <<>>, <<If(Op("GT", V("a"), N(0)), <<Say(<<V("a")>>)>>)>>),
            Start0(<<>>, <<Do(Call("f", <<N(1)>>))>>)>>)>>

\* int main() { int _t0; _t0 = 7; print(_t0); return 0; }
NamedAsTemp == <<Lower(<<Start0(<<Local("_t0", N(7))>>, <<Say(<<V("_t0")>>)>>)>>)>>

\* print("hello");
OneString == <<Lower(<<Start0(<<>>, <<Say(<<<<"string", 1000>>>>)>>)>>)>>

=============================================================================
