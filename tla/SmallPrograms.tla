--------------------------- MODULE SmallPrograms ---------------------------
(***************************************************************************)
(* Syntax trees of the small programs the checks run on.  Every one is     *)
(*   int g(int p) { return p; }                                            *)
(*   int main(int x) { int y = <init>; int a[2]; a[0] = 1; a[1] = 1;       *)
(*                     <statements> return y; }                            *)
(***************************************************************************)
EXTENDS ASTtoIR

N(n)      == <<"int", n>>
V(x)      == <<"var", x>>
X == V("x")
Y == V("y")
Let(x, e) == <<"expr", <<"=", V(x), e>>>>
Op(o, l, r) == <<"bin", o, l, r>>
Do(e)     == <<"expr", e>>
Say(es) == <<"expr", <<"call", V("print"), es>>>>
Read      == <<"call", V("readInt"), <<>>>>
Blk(ss)   == <<"block", <<>>, ss>>
If(c, s)      == <<"if", c, Blk(s), Absent>>
IfElse(c, s, t) == <<"if", c, Blk(s), Blk(t)>>
While(c, s)   == <<"while", c, Blk(s)>>
Break    == <<"break">>
Return(e) == <<"return", e>>
For(i, c, inc, s) == <<"for", i, c, inc, Blk(s)>>
Switch(e, cases)  == <<"switch", e, cases>>
Continue == <<"continue">>

G == [name |-> "g", ret |-> "int", params |-> <<"p">>, body |-> Blk(<<Return(V("p"))>>)]

Main(init, ss) ==
  [name |-> "main", ret |-> "int", params |-> <<"x">>,
   body |-> <<"block", <<<<"y", 0, init>>, <<"a", 2, Absent>>>>,
              <<Do(<<"=", <<"idx", V("a"), N(0)>>, N(1)>>), Do(<<"=", <<"idx", V("a"), N(1)>>, N(1)>>)>>
              \o ss \o <<Return(Y)>>>>]

Source(init, ss) == Lower(<<G, Main(init, ss)>>)

=============================================================================
