------------------------------ MODULE MCParser ------------------------------
(***************************************************************************)
(* Programs of three functions, the second with the statement of interest, *)
(* as written, with one token of the second damaged, or cut off in it.     *)
(***************************************************************************)
EXTENDS ParserRun

N(n) == <<"int", n>>
V(x) == <<"var", x>>
X == V("x")
Op(o, l, r) == <<"bin", o, l, r>>
Un(o, e)    == <<"un", o, e, FALSE>>
Post(o, e)  == <<"un", o, e, TRUE>>
Let(l, r)   == <<"=", l, r>>
Call(f, es) == <<"call", V(f), es>>
E(e)     == <<"expr", e>>
Blk(ss)  == <<"block", <<>>, ss>>
If(c, s, t) == <<"if", c, s, t>>
Ret      == <<"return", Absent>>

Before == [name |-> "a", ret |-> "int", params |-> <<>>, ptypes |-> <<>>, body |-> Blk(<<>>)]
After  == [name |-> "z", ret |-> "void", params |-> <<"p">>, ptypes |-> <<"bool">>,
           body |-> Blk(<<Ret>>)]
With(ds, ss) ==
  <<Before, [name |-> "f", ret |-> "int", params |-> <<"x">>, ptypes |-> <<"int">>,
             body |-> <<"block", ds, ss>>], After>>

\* Precedence and associativity: every operator beside every other, under
\* every other, on either side.
Ops == {"OR", "AND", "EQ", "NE", "LT", "GE", "ADD", "SUB", "MUL", "MOD"}
Pairs ==
  {Op(o, Op(p, X, N(1)), N(2)) : o \in Ops, p \in Ops} \cup
  {Op(o, N(2), Op(p, N(1), X)) : o \in Ops, p \in Ops} \cup
  {Un(u, Op(o, X, Un("NEG", N(1)))) : u \in {"NOT", "NEG"}, o \in Ops} \cup
  {Op(o, Un("NOT", X), Post("INC", X)) : o \in Ops} \cup
  {Let(X, Let(<<"idx", V("b"), Op(o, X, N(1))>>, Op(o, Let(X, N(3)), X))) : o \in Ops} \cup
  {Call("g", <<Op("ADD", X, N(1)), Call("h", <<>>), Post("DEC", <<"idx", V("b"), X>>), Un("INC", X)>>),
   Un("DEC", Post("INC", X)), Post("INC", Post("DEC", X)), Un("NEG", Un("NEG", X))}

Statements1 == {
  If(X, If(Op("LT", X, N(1)), E(Let(X, N(2))), Ret), Absent),
  If(X, Blk(<<If(X, <<"break">>, Absent)>>), E(Absent)),
  <<"while", Op("OR", X, <<"bool", "true">>), Blk(<<<<"continue">>>>)>>,
  <<"for", Absent, Absent, Absent, <<"break">>>>,
  <<"for", Let(X, N(0)), Op("LT", X, N(9)), Post("INC", X),
    <<"block", <<<<"y", 0, X, "char", FALSE>>>>, <<E(Call("print", <<V("y")>>))>>>>>>,
  <<"switch", X, <<<<N(1), <<E(Let(X, N(2))), <<"break">>>>>>, <<Absent, <<>>>>, <<N(3), <<Ret>>>>>>>>,
  <<"switch", X, <<>>>>,
  <<"return", Op("SUB", Call("g", <<X, N(1)>>), <<"char", "c">>)>> }

Decls == <<<<"y", 4, N(1), "int", TRUE>>>>

ExprPrograms == {With(<<>>, <<E(e)>>) : e \in Pairs}
StmtPrograms == {With(Decls, <<s>>) : s \in Statements1}

\* What may be put into the text.
Noise == {Sym(";"), Sym("("), Sym(")"), Sym("}"), Sym("{"), Kw("int"), Kw("else"), Kw("case"),
          <<"IDENTIFIER", "x">>}

Start(p) == Len(FunctionText(p[1])) + 1
Stop(p)  == Len(FunctionText(p[1])) + Len(FunctionText(p[2]))

Origin(p, how, longer, braces) ==
  [program |-> p, how |-> how, first |-> Start(p), last |-> Stop(p) + longer, braces |-> braces]

Whole(p) == [tokens |-> ProgramText(p), origin |-> Origin(p, "none", 0, TRUE)]

Drop(p, text, k) ==
  [tokens |-> SubSeq(text, 1, k - 1) \o SubSeq(text, k + 1, Len(text)),
   origin |-> Origin(p, "drop", -1, text[k] \notin Braces)]
Insert(p, text, k, t) ==
  [tokens |-> SubSeq(text, 1, k - 1) \o <<t>> \o SubSeq(text, k, Len(text)),
   origin |-> Origin(p, "insert", 1, t \notin Braces)]
Replace(p, text, k, t) ==
  [tokens |-> [text EXCEPT ![k] = t],
   origin |-> Origin(p, "replace", 0, t \notin Braces /\ text[k] \notin Braces)]
\* The text ends after token k.
Cut(p, text, k) ==
  [tokens |-> SubSeq(text, 1, k), origin |-> Origin(p, "cut", 0, FALSE)]

Damages(p) ==
  LET text == ProgramText(p)
      places == Start(p)..Stop(p)
  IN  {Drop(p, text, k) : k \in places} \cup {Cut(p, text, k) : k \in places} \cup
      {Insert(p, text, k, t) : k \in places, t \in Noise} \cup
      {Replace(p, text, k, t) : k \in places, t \in Noise}

WholeInputs   == {Whole(p) : p \in ExprPrograms \cup StmtPrograms}
DamagedInputs == UNION {Damages(p) : p \in StmtPrograms}
MCInputs == WholeInputs \cup DamagedInputs

\* int main() { return 0;
OpenInputs ==
  LET p == <<[Before EXCEPT !.name = "main", !.body = Blk(<<<<"return", N(0)>>>>)]>>
      text == ProgramText(p)
  IN  {[tokens |-> SubSeq(text, 1, Len(text) - 1),
        origin |-> [program |-> p, how |-> "drop", first |-> 1, last |-> Len(text) - 1,
                    braces |-> FALSE]]}

\* arrays_io.prog:4-12, in short: int sum_array(int arr[5], int n) { return arr[n]; }
ArrayInputs ==
  LET f == [name |-> "sum_array", ret |-> "int", params |-> <<"n">>, ptypes |-> <<"int">>,
            body |-> Blk(<<<<"return", <<"idx", V("arr"), V("n")>>>>>>)]
      text == FunctionText(f)
      arr  == <<Kw("int"), <<"IDENTIFIER", "arr">>, Sym("["), <<"NUMBER", 5>>, Sym("]"), Sym(",")>>
  IN  {[tokens |-> SubSeq(text, 1, 3) \o arr \o SubSeq(text, 4, Len(text)),
        origin |-> [program |-> <<f>>, how |-> "none", first |-> 1, last |-> 1, braces |-> TRUE]]}

=============================================================================
