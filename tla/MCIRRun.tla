------------------------------ MODULE MCIRRun ------------------------------
(***************************************************************************)
(* Small functions with every statement and expression of the language.    *)
(***************************************************************************)
EXTENDS IRRun, SmallPrograms

Low  == Op("LT", X, N(3))
Grow == Let("x", Op("ADD", X, N(1)))
A(i) == <<"idx", V("a"), i>>
Post(v) == <<"un", "INC", v, TRUE>>
Pre(v)  == <<"un", "INC", v, FALSE>>

Expressions == {
  Op("SUB", Post(X), Pre(X)),
  <<"=", A(Op("NE", Post(Y), Y)), Op("MOD", X, N(2))>>,
  <<"un", "NEG", <<"=", X, Op("ADD", Y, N(1))>>, FALSE>>,
  Post(A(Op("NE", X, X))),
  <<"call", V("g"), <<Op("MUL", X, A(N(1)))>>>>,
  Op("AND", Op("GE", Read, Y), <<"un", "NOT", Read, FALSE>>) }

\* What a loop or an arm may do.
Acts == {Break, Say(<<X, Y>>), Return(Y)}

Nested ==
  {While(Low, <<Grow, If(Op("EQ", X, N(2)), <<Continue>>), a>>) : a \in Acts} \cup
  {While(Low, <<Grow, Switch(X, <<<<N(2), <<a>>>>, <<Absent, <<Continue>>>>>>), Say(<<X>>)>>)
     : a \in Acts} \cup
  {For(<<"=", X, N(0)>>, Low, Post(X),
       <<Say(<<Y>>), While(Op("LT", Y, N(3)), <<Do(Post(Y)), a>>)>>)
     : a \in Acts \cup {Continue}} \cup
  {For(Absent, Absent, Absent, <<Grow, IfElse(Op("GT", X, N(3)), <<Break>>, <<>>)>>)}

Switches ==
  {Switch(X, <<<<N(1), s>>, <<Absent, t>>, <<N(3), <<Say(<<N(3)>>)>>>>>>)
     : s \in {<<>>, <<Let("y", N(5))>>, <<Break>>}, t \in {<<>>, <<Say(<<Y>>), Break>>}}
  \cup {Switch(Read, <<>>), IfElse(Low, <<Do(<<"call", V("exit"), <<X>>>>)>>, <<Grow>>)}

Firsts  == {Let("y", e) : e \in Expressions}
Seconds == Nested \cup Switches \cup {Say(<<e>>) : e \in Expressions}

MCTrees  == {Main(N(1), <<s, t>>) : s \in Firsts, t \in Seconds} \cup
            {Main(Read, <<s, t>>) : s \in Nested, t \in Nested \cup Switches}
MCOthers == <<G>>
MCInputLists == {<<0>>, <<1, 3>>, <<3, 0, 1>>}

\* control_flow.prog:14-16 and backend_dual_backend_smoke.prog:58-60, the for
\* loop that continues.
SampleTrees ==
  {Main(N(0), <<For(<<"=", X, N(0)>>, Op("LT", X, N(5)), <<"=", X, Op("ADD", X, N(1))>>,
                    <<If(Op("EQ", X, N(2)), <<Continue>>),
                      Let("y", Op("ADD", Y, X)),
                      If(Op("EQ", X, N(4)), <<Break>>)>>)>>)}

\* int z; if (x < 3) { z = 1; } y = z;
OneArmTrees == {Main(N(0), <<If(Low, <<Let("z", N(1))>>), Let("y", V("z"))>>)}

=============================================================================
