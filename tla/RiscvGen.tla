------------------------------ MODULE RiscvGen ------------------------------
(***************************************************************************)
(* The RV32 code generator (src/backend/riscv.py): the frame of a function *)
(* and the instructions emitted for each IR instruction.                   *)
(*                                                                         *)
(* A machine instruction is [op, d, a, b]: d is the destination (or the    *)
(* register stored or tested), a and b the other operands.  The generator  *)
(* g is [fn, slots, arrs, out, t0, t1, kinds, pend]: the function's name   *)
(* and layout, the code so far, the slot each of t0 and t1 is known to     *)
(* hold (its offset from s0, NoSlot for none), the kind of each name and   *)
(* the arguments waiting for a CALL.                                       *)
(***************************************************************************)
EXTENDS IR

W == 4
NoSlot == 0
ArgRegs == <<"a0", "a1", "a2", "a3", "a4", "a5", "a6", "a7">>

DefOps == {"CONST", "LOAD", "LOAD_ARR", "READ_INT"} \cup BinOps \cup UnaryOps

R(op, d, a, b) == [op |-> op, d |-> d, a |-> a, b |-> b]

-----------------------------------------------------------------------------
(***************************************************************************)
(* _build_frame: a slot for every name defined, going down from s0 - 2W.   *)
(***************************************************************************)
AlignUp16(n) == ((n + 15) \div 16) * 16

Alloc(l, name, n) ==
  IF name \in DOMAIN l.slots THEN l
  ELSE [l EXCEPT !.cur = @ + n * W, !.slots = Put(@, name, l.cur + n * W)]

\* Mutant: the array begins where the slot before it ends.
LaysLower(l, ins) ==
  LET a == ins.args
  IN CASE ins.op = "ALLOC_ARRAY" ->
            Alloc([l EXCEPT !.arrs = Put(@, a[1], l.cur)], a[1], a[2][2])
       [] ins.op \in DefOps \cup {"STORE"} -> Alloc(l, a[1], 1)
       [] ins.op = "CALL" /\ a[1] # None -> Alloc(l, a[1], 1)
       [] OTHER -> l

Lays(l, ins) ==
  LET a == ins.args
  IN CASE ins.op = "ALLOC_ARRAY" ->
            Alloc([l EXCEPT !.arrs = Put(@, a[1], l.cur + W)], a[1], a[2][2])
       [] ins.op \in DefOps \cup {"STORE"} -> Alloc(l, a[1], 1)
       [] ins.op = "CALL" /\ a[1] # None -> Alloc(l, a[1], 1)
       [] OTHER -> l

BuildFrame(fn) ==
  LET n == Len(fn.formals)
      turn(l) == [(IF l.next <= n THEN Alloc(l, fn.formals[l.next], 1)
                   ELSE Lays(l, fn.code[l.next - n])) EXCEPT !.next = @ + 1]
      none == [slots |-> EmptyDict, arrs |-> EmptyDict, cur |-> 0, next |-> 1]
  IN  Iterate(turn, none, n + Len(fn.code))

FrameSize(l) == AlignUp16(l.cur + 2 * W)

-----------------------------------------------------------------------------
(***************************************************************************)
(* What the generator appends and what it then knows of t0 and t1.         *)
(***************************************************************************)
Ref(g, name) == -(g.slots[name] + 2 * W)
Asm(g, lines) == [g EXCEPT !.out = @ \o lines]

LdT0(g, slot) == IF g.t0 = slot THEN g
                 ELSE [Asm(g, <<R("lw", "t0", slot, "s0")>>) EXCEPT !.t0 = slot]
LdT1(g, slot) == IF g.t1 = slot THEN g
                 ELSE [Asm(g, <<R("lw", "t1", slot, "s0")>>) EXCEPT !.t1 = slot]
SdT0(g, slot) == [Asm(g, <<R("sw", "t0", slot, "s0")>>) EXCEPT !.t0 = slot]

KillT0(g)   == [g EXCEPT !.t0 = NoSlot]
KillT1(g)   == [g EXCEPT !.t1 = NoSlot]
KillTmps(g) == [g EXCEPT !.t0 = NoSlot, !.t1 = NoSlot]

KindOf(g, name)      == IF name \in DOMAIN g.kinds THEN g.kinds[name] ELSE "int"
\* Mutant: only the kind of a constant's own temp is noted.
KindedTemps(g, name, k) == IF IsTemp(name) THEN [g EXCEPT !.kinds = Put(@, name, k)] ELSE g
Kinded(g, name, k)   == [g EXCEPT !.kinds = Put(@, name, k)]

\* lines compute into t0, which is stored in the slot of d.
Into(g, d, lines) == SdT0(KillT0(Asm(g, lines)), Ref(g, d))

Machine(op) ==
  CASE op = "ADD" -> "add" [] op = "SUB" -> "sub" [] op = "MUL" -> "mul"
    [] op = "DIV" -> "div" [] op = "MOD" -> "rem"

Compare(op) ==
  CASE op = "LT" -> <<R("slt", "t0", "t0", "t1")>>
    [] op = "GT" -> <<R("slt", "t0", "t1", "t0")>>
    [] op = "LE" -> <<R("slt", "t0", "t1", "t0"), R("xori", "t0", "t0", 1)>>
    [] op = "GE" -> <<R("slt", "t0", "t0", "t1"), R("xori", "t0", "t0", 1)>>
    [] op = "EQ" -> <<R("xor", "t0", "t0", "t1"), R("sltiu", "t0", "t0", 1)>>
    [] op = "NE" -> <<R("xor", "t0", "t0", "t1"), R("sltu", "t0", "zero", "t0")>>

\* Both operands loaded, then lines.
Binary(g, a, kind, lines) ==
  LET loaded == LdT1(LdT0(g, Ref(g, a[2])), Ref(g, a[3]))
  IN  Kinded(Into(KillT1(loaded), a[1], lines), a[1], kind)

Unary1(g, a, kind, line) ==
  Kinded(Into(LdT0(g, Ref(g, a[2])), a[1], <<line>>), a[1], kind)

\* AND and OR: each operand made 0 or 1, whatever the other is.
Logical(g, a, op) ==
  LET left  == KillT0(Asm(LdT0(g, Ref(g, a[2])), <<R("sltu", "t0", "zero", "t0")>>))
      right == KillT1(Asm(LdT1(left, Ref(g, a[3])), <<R("sltu", "t1", "zero", "t1")>>))
  IN  Kinded(Into(right, a[1], <<R(op, "t0", "t0", "t1")>>), a[1], "bool")

\* t0 := the address of element idx of an array; elements go down.
ElementAddress(g, arr, idx) ==
  LET scaled == KillT1(Asm(LdT1(g, Ref(g, idx)), <<R("slli", "t1", "t1", 2)>>))
  IN  KillT0(Asm(scaled, <<R("addi", "t0", "s0", -(g.arrs[arr] + 2 * W)),
                           R("sub", "t0", "t0", "t1")>>))

Ecall(n) == <<R("li", "a7", n, 0), R("ecall", 0, 0, 0)>>
LineEnd  == <<R("li", "a0", 10, 0)>> \o Ecall(11)

PrintOne(g, name) ==
  LET k == KindOf(g, name)
  IN  <<R("lw", "a0", Ref(g, name), "s0")>> \o
      (CASE k = "string" -> Ecall(4) \o LineEnd
         [] k = "char"   -> Ecall(11)
         [] OTHER        -> Ecall(1) \o LineEnd)

PrintAll(g, names) ==
  LET after[k \in 0..Len(names)] ==
        IF k = 0 THEN g ELSE Asm(after[k - 1], PrintOne(g, names[k]))
  IN  KillTmps(after[Len(names)])

\* The arguments beyond the eighth go on the stack, the others in registers.
Pushed(g, k) == Asm(LdT0(g, Ref(g, g.pend[8 + k])), <<R("sw", "t0", (k - 1) * W, "sp")>>)

CallCode(g, a) ==
  LET n     == Len(g.pend)
      extra == IF n > 8 THEN n - 8 ELSE 0
      eb    == AlignUp16(extra * W)
      room  == IF eb = 0 THEN g ELSE Asm(g, <<R("addi", "sp", "sp", -eb)>>)
      spilt[k \in 0..extra] == IF k = 0 THEN room ELSE Pushed(spilt[k - 1], k)
      inregs == [k \in 1..(n - extra) |-> R("lw", ArgRegs[k], Ref(g, g.pend[k]), "s0")]
      called == Asm(spilt[extra], inregs \o <<R("call", a[2], 0, 0)>>)
      back   == IF eb = 0 THEN called ELSE Asm(called, <<R("addi", "sp", "sp", eb)>>)
      kept   == IF a[1] = None THEN back
                ELSE Kinded(Asm(back, <<R("sw", "a0", Ref(g, a[1]), "s0")>>), a[1], "int")
  IN  [KillTmps(kept) EXCEPT !.pend = <<>>]

\* Mutant: s0 and ra are restored from each other's word.
ReturnSwapped(g, r) ==
  LET N == FrameSize(g)
  IN  Asm(g, <<IF r = None THEN R("li", "a0", 0, 0) ELSE R("lw", "a0", Ref(g, r), "s0"),
               R("lw", "ra", N - 2 * W, "sp"), R("lw", "s0", N - W, "sp"),
               R("addi", "sp", "sp", N), R("ret", 0, 0, 0)>>)

\* Mutant: the frame is given back without the room of ra and s0.
ReturnShort(g, r) ==
  LET N == FrameSize(g)
  IN  Asm(g, <<IF r = None THEN R("li", "a0", 0, 0) ELSE R("lw", "a0", Ref(g, r), "s0"),
               R("lw", "ra", N - W, "sp"), R("lw", "s0", N - 2 * W, "sp"),
               R("addi", "sp", "sp", N - 2 * W), R("ret", 0, 0, 0)>>)

ReturnCode(g, r) ==
  LET N == FrameSize(g)
  IN  Asm(g, <<IF r = None THEN R("li", "a0", 0, 0) ELSE R("lw", "a0", Ref(g, r), "s0"),
               R("lw", "ra", N - W, "sp"), R("lw", "s0", N - 2 * W, "sp"),
               R("addi", "sp", "sp", N), R("ret", 0, 0, 0)>>)

\* Mutant: the registers are taken for what they held before the label.
LabelKeeps(g, l) == Asm(g, <<R("label", <<g.fn, l>>, 0, 0)>>)
LabelCode(g, l)  == KillTmps(Asm(g, <<R("label", <<g.fn, l>>, 0, 0)>>))

ConstCode(g, d, kind, val) ==
  LET k == Kinded(g, d, kind)
  IN  IF kind = "float" THEN Asm(k, <<R("sw", "zero", Ref(g, d), "s0")>>)
      ELSE Into(k, d, <<R("li", "t0", val, 0)>>)

\* One turn of _gen_func's loop.
Emit(g, ins) ==
  LET o == ins.op  a == ins.args
  IN CASE o = "LABEL" -> LabelCode(g, a[1])
       [] o = "JMP" -> Asm(g, <<R("j", <<g.fn, a[1]>>, 0, 0)>>)
       [] o = "JMP_IF" ->
            Asm(LdT0(g, Ref(g, a[1])), <<R("bnez", <<g.fn, a[2]>>, "t0", 0)>>)
       [] o = "JMP_IF_NOT" ->
            Asm(LdT0(g, Ref(g, a[1])), <<R("beqz", <<g.fn, a[2]>>, "t0", 0)>>)
       [] o = "CONST" -> ConstCode(g, a[1], a[2][1], a[2][2])
       [] o \in {"LOAD", "STORE"} ->
            Kinded(SdT0(LdT0(g, Ref(g, a[2])), Ref(g, a[1])), a[1], KindOf(g, a[2]))
       [] o = "LOAD_ARR" ->
            SdT0(Asm(ElementAddress(g, a[2], a[3]), <<R("lw", "t0", 0, "t0")>>), Ref(g, a[1]))
       [] o = "STORE_ARR" ->
            Asm(ElementAddress(g, a[1], a[2]), <<R("lw", "t2", Ref(g, a[3]), "s0"),
                                                 R("sw", "t2", 0, "t0")>>)
       [] o \in {"ADD", "SUB", "MUL", "DIV", "MOD"} ->
            Binary(g, a, KindOf(g, a[2]), <<R(Machine(o), "t0", "t0", "t1")>>)
       [] o = "NEG" -> Unary1(g, a, KindOf(g, a[2]), R("sub", "t0", "zero", "t0"))
       [] o = "INC" -> Unary1(g, a, KindOf(g, a[2]), R("addi", "t0", "t0", 1))
       [] o = "DEC" -> Unary1(g, a, KindOf(g, a[2]), R("addi", "t0", "t0", -1))
       [] o = "NOT" -> Unary1(g, a, "bool", R("sltiu", "t0", "t0", 1))
       [] o \in {"LT", "LE", "GT", "GE", "EQ", "NE"} -> Binary(g, a, "bool", Compare(o))
       [] o = "AND" -> Logical(g, a, "and")
       [] o = "OR"  -> Logical(g, a, "or")
       [] o = "PRINT" -> PrintAll(g, a)
       [] o = "READ_INT" ->
            KillTmps(Kinded(Asm(g, Ecall(5) \o <<R("sw", "a0", Ref(g, a[1]), "s0")>>),
                            a[1], "int"))
       [] o = "EXIT" ->
            KillTmps(Asm(g, <<R("lw", "a0", Ref(g, a[1]), "s0")>> \o Ecall(93)))
       [] o = "PARAM" -> [g EXCEPT !.pend = Append(@, a[1])]
       [] o = "CALL" -> CallCode(g, a)
       [] o = "RET" -> ReturnCode(g, a[1])
       [] OTHER -> g

-----------------------------------------------------------------------------
(***************************************************************************)
(* _gen_func and generate.  Each instruction of the IR leaves a mark:      *)
(* where its code begins and what was known of t0 and t1 before it.        *)
(***************************************************************************)
Spill(g, formals, k) ==
  IF k <= 8 THEN Asm(g, <<R("sw", ArgRegs[k], Ref(g, formals[k]), "s0")>>)
  ELSE SdT0(Asm(g, <<R("lw", "t0", W + (k - 9) * W, "s0")>>), Ref(g, formals[k]))

Prologue(g, formals) ==
  LET N == FrameSize(g)
      enter == Asm(g, <<R("fun", g.fn, 0, 0), R("addi", "sp", "sp", -N),
                        R("sw", "ra", N - W, "sp"), R("sw", "s0", N - 2 * W, "sp"),
                        R("addi", "s0", "sp", N)>>)
      spilt[k \in 0..Len(formals)] == IF k = 0 THEN enter ELSE Spill(spilt[k - 1], formals, k)
  IN  spilt[Len(formals)]

Mark(g) == [at |-> Len(g.out) + 1, t0 |-> g.t0, t1 |-> g.t1]

\* The generator before the first instruction of a function, out written before it.
Begin(out, fn) ==
  LET l == BuildFrame(fn)
  IN  Prologue([fn |-> fn.name, slots |-> l.slots, arrs |-> l.arrs, cur |-> l.cur,
                out |-> out, t0 |-> NoSlot, t1 |-> NoSlot, pend |-> <<>>,
                kinds |-> [p \in fn.params |-> "int"]], fn.formals)

GenFunc(q, fn) ==
  LET turn(w) == [g |-> Emit(w.g, fn.code[w.next]), marks |-> Append(w.marks, Mark(w.g)),
                  next |-> w.next + 1]
      done == Iterate(turn, [g |-> Begin(q.out, fn), marks |-> <<>>, next |-> 1], Len(fn.code))
  IN  [out |-> done.g.out, layouts |-> Append(q.layouts, BuildFrame(fn)),
       marks |-> Append(q.marks, Append(done.marks, Mark(done.g)))]

\* Mutant: no service is called after main returns.
StartOnly == <<R("call", <<"f", "main">>, 0, 0), R("li", "a7", 10, 0)>>

\* _start calls main and ends the program.
StartCode == <<R("call", <<"f", "main">>, 0, 0)>> \o Ecall(10)

\* The functions follow in order.
Generate(prog) ==
  LET after[k \in 0..Len(prog)] ==
        IF k = 0 THEN [out |-> StartCode, layouts |-> <<>>, marks |-> <<>>]
        ELSE GenFunc(after[k - 1], prog[k])
  IN  after[Len(prog)]

=============================================================================
