------------------------------ MODULE Renaming ------------------------------
(***************************************************************************)
(* The two passes that drop an instruction and rename its destination to a *)
(* temp that holds the same value: m.red maps the one to the other, and is *)
(* never forgotten.                                                        *)
(*                                                                         *)
(* Copy propagation (src/optimizer/copy_propagation.py) drops the LOAD of  *)
(* a variable whose value a temp still holds.                              *)
(*   m.v2t    variable -> the temp last stored into it; forgotten at every *)
(*            barrier.                                                     *)
(*                                                                         *)
(* Common subexpression elimination within a block (src/optimizer/cse.py)  *)
(* drops the computation of an expression that a temp still holds.         *)
(*   m.avail  key of a computed expression -> the temp that holds it;      *)
(*            forgotten at every barrier.                                  *)
(***************************************************************************)
EXTENDS IR

CopyBarriers == Branches \cup {"LABEL", "FUNC_ENTRY", "CALL"}

CopyStart == [v2t |-> EmptyDict, red |-> EmptyDict]

Dropped(m, ins) == ins.op = "LOAD" /\ ins.args[2] \in DOMAIN m.v2t

CopyEmit(m, ins) == IF Dropped(m, ins) THEN <<>> ELSE <<Apply(m.red, ins)>>

CopyNext(m, ins) ==
  LET a == Apply(m.red, ins).args
  IN CASE ins.op \in CopyBarriers -> [m EXCEPT !.v2t = EmptyDict]
       [] ins.op = "STORE" ->
            [m EXCEPT !.v2t = IF IsTemp(a[2])
                              THEN Put(@, a[1], Resolve(m.red, a[2]))
                              ELSE Pop(@, a[1])]
       [] Dropped(m, ins) -> [m EXCEPT !.red = Put(@, a[1], m.v2t[a[2]])]
       [] OTHER -> m

CopyFunc(p) == Scan(CopyEmit, CopyNext, CopyStart, p)

-----------------------------------------------------------------------------
Commutative == {"ADD", "MUL", "EQ", "NE", "AND", "OR"}
CSEBarriers == Branches \cup {"LABEL", "FUNC_ENTRY", "CALL", "STORE_ARR"}

CSEStart == [avail |-> EmptyDict, red |-> EmptyDict]

\* _key: the operands of a commutative operator in one order.  The source
\* orders names as strings; any fixed order identifies the same pairs.
ExprKey(op, x, y) ==
  IF op \in Commutative /\ x[2] > y[2] THEN <<op, y, x>> ELSE <<op, x, y>>

KeyOf(m, ins) ==
  LET a == Apply(m.red, ins).args
  IN  IF ins.op \in BinOps THEN ExprKey(ins.op, a[2], a[3]) ELSE <<ins.op, a[2]>>

Computes(ins) == ins.op \in BinOps \cup UnaryOps

Redundant(m, ins) == Computes(ins) /\ KeyOf(m, ins) \in DOMAIN m.avail

CSEEmit(m, ins) == IF Redundant(m, ins) THEN <<>> ELSE <<Apply(m.red, ins)>>

CSENext(m, ins) ==
  LET d == Apply(m.red, ins).args[1]
  IN CASE ins.op \in CSEBarriers -> [m EXCEPT !.avail = EmptyDict]
       [] Computes(ins) ->
            IF Redundant(m, ins)
            THEN [m EXCEPT !.red = Put(@, d, m.avail[KeyOf(m, ins)])]
            ELSE [m EXCEPT !.avail = Put(@, KeyOf(m, ins), d)]
       [] OTHER -> m

CSEFunc(p) == Scan(CSEEmit, CSENext, CSEStart, p)

=============================================================================
