----------------------------- MODULE MCLockstep -----------------------------
(***************************************************************************)
(* The runs tried: every pass on three of the statements below.            *)
(***************************************************************************)
EXTENDS Lockstep, SmallPrograms

Low  == Op("LT", X, N(2))
Grow == Let("x", Op("ADD", X, N(1)))

\* The same expressions twice, in either order.
Twice == LET minus == <<"un", "NEG", Y, FALSE>>
         IN  Let("x", Op("LT", Op("ADD", minus, Y), Op("ADD", Y, minus)))

Straight == {
  Let("y", N(2)), Let("x", Y), Let("y", Op("MUL", Y, X)), Twice, Say(<<X, Y>>),
  Let("x", Read), Do(<<"un", "INC", Y, TRUE>>), Let("y", <<"call", V("g"), <<Y>>>>),
  Do(<<"=", <<"idx", V("a"), N(1)>>, <<"=", X, N(1)>>>>) }

Forked == {
  If(Low, <<Let("y", N(1)), Let("x", Y)>>),
  IfElse(Low, <<Let("y", N(0)), Say(<<Y>>)>>, <<Return(Y)>>),
  While(Low, <<Let("y", X), Twice, Grow>>),
  Switch(X, <<<<N(1), <<Let("y", N(3))>>>>, <<Absent, <<Let("y", Y)>>>>>>) }

Bodies == {<<r, s, t>> : r \in Straight, s \in Forked, t \in Straight \cup Forked}
Codes  == {Source(N(1), b)[2].code : b \in Bodies}
MainParams == {Var("x")}

MCInputLists == {<<0, 1>>, <<2>>}

\* Code as lowered for the passes that find work in it; for dead code, what
\* folding leaves behind; for expressions in common, reads of a variable brought
\* together.
Before(pass) ==
  CASE pass = "cprop" -> Codes
    [] pass = "cp"    -> Codes
    [] pass = "dce"   -> {FoldFunc(PropFunc(p)) : p \in Codes}
    [] pass = "cse"   -> {CopyFunc(p) : p \in Codes}

Made(pass, p) ==
  CASE pass = "cprop" -> PropFunc(p)
    [] pass = "dce"   -> DCEOnce(p)
    [] pass = "cp"    -> CopyFunc(p)
    [] pass = "cse"   -> CSEFunc(p)

\* What the pass knew before each instruction, and after the last; and where its
\* list had got to.
Scanned(pass, p) ==
  LET turn(s) == Append(s, KnownNext(pass, s[Len(s)], p[Len(s)]))
  IN  Iterate(turn, <<KnownFirst(pass, p)>>, Len(p))

Placed(pass, p, maps) ==
  LET turn(s) == Append(s, s[Len(s)] + Len(Emitted(pass, maps[Len(s)], p[Len(s)])))
  IN  Iterate(turn, <<1>>, Len(p))

RunsOf(pass) ==
  {LET maps == Scanned(pass, p)
   IN  [pass |-> pass, code |-> p, target |-> Made(pass, p), maps |-> maps,
        place |-> Placed(pass, p, maps), params |-> MainParams, inputs |-> in]
     : p \in Before(pass), in \in MCInputLists}

MCRuns == UNION {RunsOf(pass) : pass \in LockstepPasses}

=============================================================================
