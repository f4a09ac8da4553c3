------------------------------- MODULE MCX86 -------------------------------
(***************************************************************************)
(* Instances of X86Run for TLC.                                            *)
(***************************************************************************)
EXTENDS X86Run, BackendPrograms

\* Least and greatest words, division by zero and division without room.
MCInputLists == {<<0, 3>>, <<1>>, <<5, -2, 2>>, <<7, 0>>, <<-16384, -1>>, <<16383, -16384, 4>>}

\* while (x < 0) x = x;
NeverLoops ==
  Lower(<<Start0(<<Local("x", N(3))>>,
                 <<While(Op("LT", X, N(0)), <<Let("x", X)>>), Say(<<X>>)>>)>>)

\* Up to nine arguments: three on the stack.
X86Programs == MCPrograms \o NinePrograms \o <<NeverLoops>>

\* print(readInt()); print(readInt());
TwoReads == <<Lower(<<Start0(<<>>, <<Say(<<Read>>), Say(<<Read>>)>>)>>)>>
TwoNumbers == {<<12, -34>>}

=============================================================================
