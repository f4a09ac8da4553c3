--------------------------- MODULE ConstantPasses ---------------------------
(***************************************************************************)
(* The passes about constants: folding and propagation, which main()       *)
(* repeats in turn, and strength reduction.                                *)
(*                                                                         *)
(* Constant folding (src/optimizer/constant_folding.py): cm maps a temp to *)
(* the (kind, value) of the CONST that last defined it.  It is never       *)
(* cleared, at labels neither: what makes that sound is that lowering gives*)
(* every temp exactly one defining instruction.  Values are Python integers:*)
(* they do not wrap.  Floats are left out.                                 *)
(*                                                                         *)
(* Constant propagation (src/optimizer/constant_propagation.py): m.tmp maps*)
(* temps, m.var scalar variables, to a known (kind, value).  Both are      *)
(* forgotten where control may come from elsewhere or a call may intervene.*)
(*                                                                         *)
(* Strength reduction (src/optimizer/strength_reduction.py):               *)
(* multiplications, divisions and remainders by a known 0, 1 or power of   *)
(* two become additions, computed in temps the function does not use yet.  *)
(* m.cm is as in folding, m.tid the number of the next fresh temp.         *)
(* Constants are below 2^30, so that TLC can compute their exponent.       *)
(***************************************************************************)
EXTENDS IR

BoolOps == {"LT", "LE", "GT", "GE", "EQ", "NE", "AND", "OR"}

Fold(op, x, y) ==
  CASE op = "ADD" -> x + y
    [] op = "SUB" -> x - y
    [] op = "MUL" -> x * y
    [] op = "DIV" -> TruncDiv(x, y)
    [] op = "MOD" -> IF y < 0 THEN -((-x) % (-y)) ELSE x % y   \* Python's %
    [] op = "LT"  -> Bit(x < y)
    [] op = "LE"  -> Bit(x <= y)
    [] op = "GT"  -> Bit(x > y)
    [] op = "GE"  -> Bit(x >= y)
    [] op = "EQ"  -> Bit(x = y)
    [] op = "NE"  -> Bit(x # y)
    [] op = "AND" -> Bit(x # 0 /\ y # 0)
    [] op = "OR"  -> Bit(x # 0 \/ y # 0)

FoldUnary(op, x) ==
  CASE op = "NEG" -> -x
    [] op = "NOT" -> Bit(x = 0)
    [] op = "INC" -> x + 1
    [] op = "DEC" -> x - 1

\* The kind of a folded constant.
FoldKind(op, kind) == IF op \in BoolOps \cup {"NOT"} THEN "bool" ELSE kind

Foldable(cm, ins) ==
  LET o == ins.op  a == ins.args
  IN \/ /\ o \in BinOps
        /\ {a[2], a[3]} \subseteq DOMAIN cm
        /\ o \in {"DIV", "MOD"} => cm[a[3]][2] # 0
     \/ o \in UnaryOps /\ a[2] \in DOMAIN cm
     \/ o \in {"JMP_IF", "JMP_IF_NOT"} /\ a[1] \in DOMAIN cm

\* What the loop appends for one instruction: nothing for a branch that is
\* known not to be taken.
FoldEmit(cm, ins) ==
  LET o == ins.op  a == ins.args
      kind(k) == cm[a[k]][1]
      val(k)  == cm[a[k]][2]
  IN IF ~Foldable(cm, ins) THEN <<ins>> ELSE
     CASE o \in BinOps ->
            <<CONST(a[1], FoldKind(o, kind(2)), Fold(o, val(2), val(3)))>>
       [] o \in UnaryOps ->
            <<CONST(a[1], FoldKind(o, kind(2)), FoldUnary(o, val(2)))>>
       [] o = "JMP_IF" -> IF val(1) # 0 THEN <<I("JMP", <<a[2]>>)>> ELSE <<>>
       [] o = "JMP_IF_NOT" -> IF val(1) = 0 THEN <<I("JMP", <<a[2]>>)>> ELSE <<>>

\* cm after the instruction: every CONST appended is remembered.
FoldNext(cm, ins) ==
  LET out == FoldEmit(cm, ins)
  IN  IF out # <<>> /\ out[1].op = "CONST"
      THEN Put(cm, out[1].args[1], out[1].args[2]) ELSE cm

FoldFunc(p) == Scan(FoldEmit, FoldNext, EmptyDict, p)

-----------------------------------------------------------------------------
\* Mutant: a label is no barrier.
NoLabelBarrier == Branches \cup {"FUNC_ENTRY", "CALL"}
PropBarriers == Branches \cup {"LABEL", "FUNC_ENTRY", "CALL"}
\* The other operations that define a temp (_DEFS_TEMP).
PropDefines  == BinOps \cup UnaryOps \cup {"LOAD_ARR", "READ_INT"}

Facts(tmp, var) == [tmp |-> tmp, var |-> var]
PropStart == Facts(EmptyDict, EmptyDict)

Propagates(m, ins) == ins.op = "LOAD" /\ ins.args[2] \in DOMAIN m.var

PropEmit(m, ins) ==
  IF Propagates(m, ins)
  THEN LET c == m.var[ins.args[2]] IN <<CONST(ins.args[1], c[1], c[2])>>
  ELSE <<ins>>

\* Mutant: what was known of x survives a STORE of something unknown.
StoreKeeps(m, x, t) ==
  IF t \in DOMAIN m.tmp THEN Put(m.var, x, m.tmp[t]) ELSE m.var

\* The variable table after a STORE of temp t into x.
AfterStore(m, x, t) ==
  IF t \in DOMAIN m.tmp THEN Put(m.var, x, m.tmp[t]) ELSE Pop(m.var, x)

PropNext(m, ins) ==
  LET o == ins.op  a == ins.args
  IN CASE o \in PropBarriers -> PropStart
       [] o = "CONST" -> Facts(Put(m.tmp, a[1], a[2]), m.var)
       [] o = "STORE" -> Facts(m.tmp, AfterStore(m, a[1], a[2]))
       [] o = "LOAD" -> Facts(IF Propagates(m, ins)
                              THEN Put(m.tmp, a[1], m.var[a[2]])
                              ELSE Pop(m.tmp, a[1]), m.var)
       [] o \in PropDefines -> Facts(Pop(m.tmp, a[1]), m.var)
       [] OTHER -> m

PropFunc(p) == Scan(PropEmit, PropNext, PropStart, p)

-----------------------------------------------------------------------------
\* Mutant: the largest temp itself.
LargestTid(p) ==
  LET nums == {0} \cup {t[2] : t \in TempsOf(p)}
  IN  CHOOSE n \in nums : \A x \in nums : x <= n

\* _next_tid: one more than the largest temp in the function.
NextTid(p) ==
  LET nums == {0} \cup {t[2] : t \in TempsOf(p)}
  IN  1 + CHOOSE n \in nums : \A x \in nums : x <= n

\* _int_val(cm, t) = n
IntIs(cm, t, n) == t \in DOMAIN cm /\ cm[t][1] \in {"int", "uint32"} /\ cm[t][2] = n

Powers == {<<k, 2^k>> : k \in 1..29}
IsPow2(cm, t) == \E e \in Powers : IntIs(cm, t, e[2])
Log2(cm, t)   == (CHOOSE e \in Powers : IntIs(cm, t, e[2]))[1]

\* _pow2_add_chain: d = x * 2^k as k additions, the first k - 1 into fresh temps.
AddChain(d, x, k, tid) ==
  LET at(i) == IF i = 0 THEN x ELSE IF i = k THEN d ELSE Tmp(tid + i - 1)
  IN  [i \in 1..k |-> I("ADD", <<at(i), at(i - 1), at(i - 1)>>)]

PlusZero(d, x, tid) ==
  <<CONST(Tmp(tid), "int", 0), I("ADD", <<d, x, Tmp(tid)>>)>>

\* What replaces a MUL, DIV or MOD; <<>> when no rule applies.
Replaced(m, ins) ==
  LET d == ins.args[1]  l == ins.args[2]  r == ins.args[3]
      lis(n) == IntIs(m.cm, l, n)
      ris(n) == IntIs(m.cm, r, n)
  IN CASE ins.op = "MUL" ->
            IF lis(0) \/ ris(0) THEN <<CONST(d, "int", 0)>>
            ELSE IF lis(1) THEN PlusZero(d, r, m.tid)
            ELSE IF ris(1) THEN PlusZero(d, l, m.tid)
            ELSE IF IsPow2(m.cm, r) THEN AddChain(d, l, Log2(m.cm, r), m.tid)
            ELSE IF IsPow2(m.cm, l) THEN AddChain(d, r, Log2(m.cm, l), m.tid)
            ELSE <<>>
       [] ins.op = "DIV" /\ ris(1) -> PlusZero(d, l, m.tid)
       [] ins.op = "MOD" /\ ris(1) -> <<CONST(d, "int", 0)>>
       [] OTHER -> <<>>

Reducible(m, ins) == ins.op \in {"MUL", "DIV", "MOD"} /\ Replaced(m, ins) # <<>>

SREmit(m, ins) == IF Reducible(m, ins) THEN Replaced(m, ins) ELSE <<ins>>

\* invalidate, or the recording of a CONST.
Note(cm, ins) ==
  IF ins.op = "CONST" THEN Put(cm, ins.args[1], ins.args[2])
  ELSE [x \in DOMAIN cm \ Defined(ins) |-> cm[x]]

SRNext(m, ins) ==
  LET out == SREmit(m, ins)
      cm[k \in 0..Len(out)] == IF k = 0 THEN m.cm ELSE Note(cm[k - 1], out[k])
      \* every instruction of a replacement but the last fills a fresh temp
  IN  [cm  |-> cm[Len(out)], tid |-> m.tid + Len(out) - 1]

SRFunc(p) == Scan(SREmit, SRNext, [cm |-> EmptyDict, tid |-> NextTid(p)], p)

=============================================================================
