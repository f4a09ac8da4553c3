---------------------------- MODULE MCBlockPass ----------------------------
(***************************************************************************)
(* The basic-block pass on control flow only: pairs of conditionals, loops *)
(* and switches whose arms print, assign, break, continue or return.       *)
(***************************************************************************)
EXTENDS BlockPass, SmallPrograms

Low == Op("LT", X, N(2))
Grow == Let("x", Op("ADD", X, N(1)))

Arms == {<<>>, <<Say(<<Y>>)>>, <<Return(X)>>}
LoopArms == {<<Break>>, <<Continue>>, <<Say(<<X>>)>>}

Flows ==
  {IfElse(Low, s, t) : s \in Arms, t \in Arms} \cup
  {While(Op("LT", X, N(4)), <<Grow, IfElse(Low, s, t), Say(<<X, Y>>)>>) :
     s \in LoopArms, t \in LoopArms \cup {<<Return(Y)>>}} \cup
  {Switch(X, <<<<N(1), s>>, <<Absent, t>>>>) : s \in Arms, t \in {<<Break>>, <<Let("y", X)>>}}

MCFunctions ==
  {LET f == Source(N(1), <<s, t>>)[2] IN [code |-> f.code, params |-> f.params] :
     s \in Flows, t \in Flows}

MCInputLists == {<<0>>, <<1>>, <<3>>}

=============================================================================
