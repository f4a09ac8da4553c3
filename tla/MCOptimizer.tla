---------------------------- MODULE MCOptimizer ----------------------------
(***************************************************************************)
(* The whole pipeline on every pair of the statements below, and any set   *)
(* of passes on programs that give each of them work.                      *)
(***************************************************************************)
EXTENDS Optimizer, SmallPrograms

Simple == {
  Let("y", Op("ADD", X, N(2))),
  Let("x", Op("MUL", Y, N(4))),
  Let("x", Op("ADD", X, N(2))),
  Let("y", Op("SUB", Op("MUL", X, N(1)), Op("DIV", N(7), N(2)))),
  Let("y", <<"call", V("g"), <<Op("ADD", X, N(2))>>>>),
  Let("x", Read),
  Do(<<"=", <<"idx", V("a"), N(1)>>, Op("ADD", X, N(2))>>),
  Do(<<"=", Y, <<"idx", V("a"), N(0)>>>>),
  Do(Op("MUL", Op("ADD", <<"un", "INC", X, TRUE>>, Y), N(3))),
  Say(<<X, Op("EQ", Y, Y)>>) }

Test == {Op("LT", X, N(3)), Op("GT", Y, N(1)), <<"bool", 0>>, Op("NE", X, X)}

Compound ==
  {If(c, <<Let("x", N(1))>>) : c \in Test} \cup
  {IfElse(c, <<Let("y", N(0))>>, <<Return(Y)>>) : c \in Test} \cup
  {While(Op("LT", v, N(3)), <<s, Do(<<"=", v, Op("ADD", v, N(1))>>)>>) :
     v \in {X, Y}, s \in {If(Op("EQ", X, Y), <<Break>>), Say(<<X>>)}}

Statements == Simple \cup Compound

MCPrograms == {Source(i, <<s, t>>) : i \in {N(1), Read}, s \in Statements, t \in Statements}

\* Products and sums with 100 do not fit a word of 8 bits.
MCInputLists == {<<0>>, <<1, 3>>, <<4, 2, 5>>, <<100>>}

\* Programs that give each pass work.
Grow == Let("x", Op("ADD", X, N(1)))
Loops == {
  While(Op("LT", X, N(3)), <<Grow, Say(<<X>>), Switch(X, <<<<N(1), <<Continue>>>>, <<Absent, <<Return(X)>>>>>>)>>),
  For(<<"=", X, N(0)>>, Op("LT", X, N(2)), <<"un", "INC", X, TRUE>>,
      <<Let("y", Op("MUL", Op("ADD", X, N(2)), N(4))),
        Say(<<Op("ADD", X, N(2)), Op("MUL", N(1), X), Op("MUL", N(2), X)>>)>>),
  IfElse(Op("AND", Op("EQ", X, X), N(1)),
         <<Let("y", Op("MOD", N(7), N(2))), Let("y", Op("DIV", Y, N(1)))>>, <<Return(X)>>),
  Do(<<"=", <<"idx", V("a"), N(1)>>, <<"call", V("g"), <<Op("ADD", X, Op("MUL", X, N(0)))>>>>>>) }

MixedPrograms == {Source(N(1), <<s>>) : s \in Loops}

\* The passes --optim can ask for.
Selections == SUBSET ToSet(Passes)
MCJobs == (MCPrograms \X {ToSet(Passes)}) \cup (MixedPrograms \X Selections)

(***************************************************************************)
(* y = -7 % 5;  and, in words of 8 bits as 2147483647 + 1 is in 32,        *)
(* y = (127 + 1) / 2;  With one of them for Jobs, PassPreserves fails.     *)
(***************************************************************************)
ModJobs == {<<Source(N(1), <<Let("y", Op("MOD", <<"un", "NEG", N(7), FALSE>>, N(5)))>>), {"cf"}>>}
OverflowJobs == {<<Source(N(1), <<Let("y", Op("DIV", Op("ADD", N(127), N(1)), N(2)))>>), {"cf"}>>}

\* if (false) { y = 1; } with nothing stored in y before.  With it for Jobs,
\* NeverRejected fails.
UnsetJobs == {<<Source(Absent, <<If(<<"bool", 0>>, <<Let("y", N(1))>>)>>), {"cf", "bb"}>>}

=============================================================================
