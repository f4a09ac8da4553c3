-------------------------------- MODULE IR --------------------------------
(***************************************************************************)
(* The linear three-address IR (src/ir/ir.py) and what its readers share.  *)
(*                                                                         *)
(* An operand is a pair <<tag, payload>>.  The source tells operands apart *)
(* by the first character of a string or by being a Python tuple; the tag  *)
(* plays that part:                                                        *)
(*   <<"%", 3>> temp   <<"v", "x">> variable or array   <<"L", 0>> label   *)
(*   <<"int", 5>> <<"bool", 1>> <<"char", 65>>  constant (kind, value)     *)
(*   <<"f", "g">> function   <<"n", 2>> a bare count   None  the empty ""  *)
(* An instruction is [op, args], args the list the source keeps.           *)
(***************************************************************************)
EXTENDS Integers, Sequences

Tmp(n) == <<"%", n>>
Var(x) == <<"v", x>>
Lbl(n) == <<"L", n>>
None   == <<"", 0>>

IsTemp(a) == a[1] = "%"

I(op, args) == [op |-> op, args |-> args]
CONST(d, kind, val) == I("CONST", <<d, <<kind, val>>>>)

BinOps == {"ADD", "SUB", "MUL", "DIV", "MOD", "LT", "LE", "GT", "GE",
           "EQ", "NE", "AND", "OR"}
UnaryOps == {"NEG", "NOT", "INC", "DEC"}
Branches == {"JMP", "JMP_IF", "JMP_IF_NOT"}

\* int(bool), and int(x / y): division rounding toward zero.
Bit(b) == IF b THEN 1 ELSE 0
Abs(x) == IF x < 0 THEN -x ELSE x
TruncDiv(x, y) == IF (x < 0) = (y < 0) THEN Abs(x) \div Abs(y)
                  ELSE -(Abs(x) \div Abs(y))

(***************************************************************************)
(* Operands an instruction reads and the name it defines.                  *)
(***************************************************************************)
Used(ins) ==
  LET o == ins.op  a == ins.args
  IN CASE o \in {"LOAD", "STORE"} \cup UnaryOps -> {a[2]}
       [] o \in {"LOAD_ARR"} \cup BinOps -> {a[2], a[3]}
       [] o = "STORE_ARR" -> {a[1], a[2], a[3]}
       [] o \in {"JMP_IF", "JMP_IF_NOT", "PARAM", "EXIT"} -> {a[1]}
       [] o = "RET" -> {a[1]} \ {None}
       [] o = "PRINT" -> {a[k] : k \in DOMAIN a}
       [] OTHER -> {}

Defined(ins) ==
  LET o == ins.op  a == ins.args
  IN CASE o \in {"CONST", "LOAD", "LOAD_ARR", "READ_INT", "STORE",
                 "ALLOC_ARRAY"} \cup BinOps \cup UnaryOps -> {a[1]}
       [] o = "CALL" -> {a[1]} \ {None}
       [] OTHER -> {}

Operands(ins) == {ins.args[k] : k \in DOMAIN ins.args}
TempsOf(p)    == {a \in UNION {Operands(p[i]) : i \in DOMAIN p} : IsTemp(a)}

(***************************************************************************)
(* Python dictionaries: d[k] = v, d.pop(k, None), {}.                      *)
(***************************************************************************)
Put(d, k, v) == [x \in DOMAIN d \cup {k} |-> IF x = k THEN v ELSE d[x]]
Pop(d, k)    == [x \in DOMAIN d \ {k} |-> d[x]]
EmptyDict    == [x \in {} |-> x]

(***************************************************************************)
(* _resolve(r, k): follow the renaming r from k until a name it does not   *)
(* rename, or one already seen.  Walk is the loop; Resolve is the same     *)
(* with its first two rounds unrolled, which is all a renaming whose       *)
(* values are never renamed themselves can take.                           *)
(***************************************************************************)
Walk(r, k) ==
  LET at[seen \in SUBSET DOMAIN r, x \in DOMAIN r \cup {r[y] : y \in DOMAIN r}] ==
        IF x \in DOMAIN r /\ x \notin seen THEN at[seen \cup {x}, r[x]] ELSE x
  IN  at[{}, k]

Resolve(r, k) ==
  CASE k \notin DOMAIN r -> k
    [] k \in DOMAIN r /\ r[k] \notin DOMAIN r -> r[k]
    [] OTHER -> Walk(r, k)

(***************************************************************************)
(* _apply(args, r): rename every temp of an argument list.                 *)
(***************************************************************************)
Apply(r, ins) ==
  [ins EXCEPT !.args =
     [k \in DOMAIN ins.args |->
        IF IsTemp(ins.args[k]) THEN Resolve(r, ins.args[k]) ELSE ins.args[k]]]

(***************************************************************************)
(* Loops.  The CHOOSE from a singleton, whose predicate compares the value *)
(* with itself, makes TLC compute each value once and in full.  (Folding   *)
(* with the library's operators is cubic.)                                 *)
(***************************************************************************)
Only(S) == CHOOSE d \in S : d = d
Once(F(_), c) == Only({F(x) : x \in {c}})

Times4(F(_), c) == Once(F, Once(F, Once(F, Once(F, c))))

\* F applied n times, in parts of sixteen: TLC's evaluation stays shallow.
Part(F(_), c, n) ==
  LET at[k \in 0..n] == IF k = 0 THEN c ELSE Only({F(x) : x \in {at[k - 1]}})
  IN  at[n]

Iterate(F(_), c, n) ==
  LET upto[j \in 0..(n \div 16 + 1)] ==
        IF j = 0 THEN c
        ELSE Only({Part(F, x, IF j = 1 THEN n % 16 ELSE 16) : x \in {upto[j - 1]}})
  IN  upto[n \div 16 + 1]

\* The loop of every forward pass: carry a state m over the list, appending
\* what Emit returns.
Scan(Emit(_, _), NextState(_, _), init, p) ==
  LET turn(q) == [m    |-> NextState(q.m, p[q.next]),
                  out  |-> q.out \o Emit(q.m, p[q.next]),
                  next |-> q.next + 1]
  IN  Iterate(turn, [m |-> init, out |-> <<>>, next |-> 1], Len(p)).out

-----------------------------------------------------------------------------
(***************************************************************************)
(* The form of the instructions lowering emits and the passes keep: which  *)
(* operands each operation takes (the constructors), and the two facts     *)
(* about a function's list that the passes rely on.                        *)
(***************************************************************************)

Temps  == {"%"} \X Nat
Vars   == {"v"} \X STRING
Labels == {"L"} \X Nat
Funs   == {"f"} \X STRING
Counts == {"n"} \X Nat
Consts == {"int", "bool", "char"} \X Int

ArgsFit(op, args) ==
  /\ op = "CONST"       => args \in Temps \X Consts
  /\ op = "LOAD"        => args \in Temps \X Vars
  /\ op = "STORE"       => args \in Vars \X Temps
  /\ op = "LOAD_ARR"    => args \in Temps \X Vars \X Temps
  /\ op = "STORE_ARR"   => args \in Vars \X Temps \X Temps
  /\ op = "ALLOC_ARRAY" => args \in Vars \X Counts
  /\ op \in BinOps      => args \in Temps \X Temps \X Temps
  /\ op \in UnaryOps    => args \in Temps \X Temps
  /\ op = "CALL"        => args \in (Temps \cup {None}) \X Funs \X Counts
  /\ op = "RET"         => args \in [1..1 -> Temps \cup {None}]
  /\ op = "PRINT"       => args \in Seq(Temps)
  /\ op = "FUNC_ENTRY"  => args \in [1..1 -> Funs]
  /\ op \in {"READ_INT", "PARAM", "EXIT"} => args \in [1..1 -> Temps]
  /\ op \in {"LABEL", "JMP"}              => args \in [1..1 -> Labels]
  /\ op \in {"JMP_IF", "JMP_IF_NOT"}      => args \in Temps \X Labels

Ops == {"CONST", "LOAD", "STORE", "LOAD_ARR", "STORE_ARR", "ALLOC_ARRAY",
        "CALL", "RET", "PRINT", "FUNC_ENTRY", "READ_INT", "PARAM", "EXIT",
        "LABEL", "JMP", "JMP_IF", "JMP_IF_NOT"} \cup BinOps \cup UnaryOps

WellShaped(ins) ==
  /\ ins = [op |-> ins.op, args |-> ins.args]
  /\ ins.op \in Ops
  /\ ArgsFit(ins.op, ins.args)

BranchTarget(ins) == IF ins.op = "JMP" THEN ins.args[1] ELSE ins.args[2]

\* Every branch goes to a label of the list.
Lands(p) ==
  \A i \in DOMAIN p : p[i].op \in Branches =>
    \E k \in DOMAIN p : p[k].op = "LABEL" /\ p[k].args[1] = BranchTarget(p[i])

WellFormed(p) == /\ p \in Seq({p[i] : i \in DOMAIN p})
                 /\ \A i \in DOMAIN p : WellShaped(p[i])
                 /\ Lands(p)

DefinedTemps(ins) == {t \in Defined(ins) : IsTemp(t)}
UsedOf(ins)       == {t \in Used(ins) : IsTemp(t)}

\* Temp t has its definition before i, with no label from there to i: whoever
\* comes to i comes from there.
DefinedNear(p, t, i) ==
  \E j \in 1..(i - 1) : /\ t \in DefinedTemps(p[j])
                       /\ \A k \in j..(i - 1) : p[k].op # "LABEL"

\* Every temp has at most one defining instruction, and an instruction that
\* reads it comes after that one with no label between them.
DisciplinedTemps(p) ==
  \A i \in DOMAIN p :
    /\ \A t \in DefinedTemps(p[i]) : \A j \in 1..(i - 1) : t \notin DefinedTemps(p[j])
    /\ \A t \in UsedOf(p[i]) : DefinedNear(p, t, i)

=============================================================================
