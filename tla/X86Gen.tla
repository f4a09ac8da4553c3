------------------------------- MODULE X86Gen -------------------------------
(***************************************************************************)
(* The x86-64 code generator (src/backend/x86_64.py): the frame of a       *)
(* function and the instructions emitted for each IR instruction.          *)
(*                                                                         *)
(* A machine instruction is [op, d, a], the destination first.  An operand *)
(* is <<"r", register>>, <<"m", base, displacement>> or <<"i", number>>.   *)
(* "set" stands for setCC al; movzx rax, al (or for cl and rcx).           *)
(* The generator g is [fn, slots, arrs, cur, out, kinds, pend, used]: the  *)
(* function's name and layout, the code so far, the kind of each name, the *)
(* arguments waiting for a CALL and the runtime helpers needed.            *)
(***************************************************************************)
EXTENDS IR

W == 8
ArgRegs == <<"rdi", "rsi", "rdx", "rcx", "r8", "r9">>
DefOps  == {"CONST", "LOAD", "LOAD_ARR", "READ_INT"} \cup BinOps \cup UnaryOps

Ins(op, d, a) == [op |-> op, d |-> d, a |-> a]
Rg(r)       == <<"r", r>>
Slot(b, off) == <<"m", b, off>>
Num(n)      == <<"i", n>>
rax == Rg("rax")
rcx == Rg("rcx")
rdx == Rg("rdx")
rsp == Rg("rsp")
rbp == Rg("rbp")

-----------------------------------------------------------------------------
(***************************************************************************)
(* _build_frame: a slot for every name defined, going down from rbp.       *)
(***************************************************************************)
AlignUp16(n) == ((n + 15) \div 16) * 16

Alloc(l, name, n) ==
  IF name \in DOMAIN l.slots THEN l
  ELSE [l EXCEPT !.cur = @ + n * W, !.slots = Put(@, name, l.cur + n * W)]

\* Mutant: the array is known by its last word, where its elements begin to go down.
LaysFromLast(l, ins) ==
  LET a == ins.args
  IN CASE ins.op = "ALLOC_ARRAY" ->
            Alloc([l EXCEPT !.arrs = Put(@, a[1], l.cur + a[2][2] * W)], a[1], a[2][2])
       [] ins.op \in DefOps \cup {"STORE"} -> Alloc(l, a[1], 1)
       [] ins.op = "CALL" /\ a[1] # None -> Alloc(l, a[1], 1)
       [] OTHER -> l

Lays(l, ins) ==
  LET a == ins.args
  IN CASE ins.op = "ALLOC_ARRAY" ->
            Alloc([l EXCEPT !.arrs = Put(@, a[1], l.cur + W)], a[1], a[2][2])
       [] ins.op \in DefOps \cup {"STORE"} -> Alloc(l, a[1], 1)
       [] ins.op = "CALL" /\ a[1] # None -> Alloc(l, a[1], 1)
       [] OTHER -> l

BuildFrame(fn) ==
  LET n == Len(fn.formals)
      turn(l) == [(IF l.next <= n THEN Alloc(l, fn.formals[l.next], 1)
                   ELSE Lays(l, fn.code[l.next - n])) EXCEPT !.next = @ + 1]
      none == [slots |-> EmptyDict, arrs |-> EmptyDict, cur |-> 0, next |-> 1]
  IN  Iterate(turn, none, n + Len(fn.code))

FrameSize(l) == AlignUp16(l.cur)

-----------------------------------------------------------------------------
Ref(g, name)  == Slot("rbp", -g.slots[name])
Asm(g, lines) == [g EXCEPT !.out = @ \o lines]

KindOf(g, name)    == IF name \in DOMAIN g.kinds THEN g.kinds[name] ELSE "int"
Kinded(g, name, k) == [g EXCEPT !.kinds = Put(@, name, k)]

\* LOAD and STORE: the copy is of the kind of what is copied, when that is known.
KindCopied(g, to, from) ==
  IF from \in DOMAIN g.kinds THEN Kinded(g, to, g.kinds[from]) ELSE g

\* The operand is loaded into rax, lines compute, and reg goes to the slot of d.
Computed(g, d, x, kind, lines, reg) ==
  Kinded(Asm(g, <<Ins("mov", rax, Ref(g, x))>> \o lines \o <<Ins("mov", Ref(g, d), reg)>>), d, kind)

Set(r, cc) == Ins("set", r, cc)

\* AND and OR: both operands made 0 or 1, whatever they are.
Logical(g, a, op) ==
  <<Ins("test", rax, rax), Set(rax, "NE"), Ins("mov", rcx, Ref(g, a[3])),
    Ins("test", rcx, rcx), Set(rcx, "NE"), Ins(op, rax, rcx)>>

\* Mutant: the dividend is not extended into rdx.
DivideUnextended(g, a) == <<Ins("idiv", Ref(g, a[3]), Num(0))>>
Divide(g, a) == <<Ins("cqo", rdx, rax), Ins("idiv", Ref(g, a[3]), Num(0))>>

\* rdx := the address of element idx of an array; elements go down.
ElementAddress(g, arr, idx) ==
  <<Ins("mov", rcx, Ref(g, idx)), Ins("imul", rcx, Num(W)),
    Ins("lea", rdx, Slot("rbp", -g.arrs[arr])), Ins("sub", rdx, rcx)>>

Helper(k) == CASE k = "string" -> "_print_str" [] k = "char" -> "_print_char" [] OTHER -> "_print_int"

PrintOne(g, name) ==
  LET h == Helper(KindOf(g, name))
  IN  [Asm(g, <<Ins("mov", Rg("rdi"), Ref(g, name)), Ins("call", <<"rt", h>>, Num(0))>>) EXCEPT
         !.used = @ \cup {h}]
PrintAll(g, names) ==
  LET after[k \in 0..Len(names)] == IF k = 0 THEN g ELSE PrintOne(after[k - 1], names[k])
  IN  after[Len(names)]

\* Mutant: the stack is padded for an even number of stack arguments.
PadsEven(extra) == extra > 0 /\ extra % 2 = 0
Pads(extra) == extra % 2 = 1

\* Mutant: the padding stays.
GivesBackArgs(extra) == extra * W
GivesBack(extra) == extra * W + (IF Pads(extra) THEN W ELSE 0)

\* The arguments beyond the sixth are pushed, the last first; the others go in
\* registers.
CallCode(g, a) ==
  LET n     == Len(g.pend)
      extra == IF n > Len(ArgRegs) THEN n - Len(ArgRegs) ELSE 0
      pad   == IF Pads(extra) THEN <<Ins("sub", rsp, Num(W))>> ELSE <<>>
      pushed[k \in 0..extra] ==
        IF k = 0 THEN pad
        ELSE pushed[k - 1] \o <<Ins("mov", rax, Ref(g, g.pend[n + 1 - k])), Ins("push", rax, rax)>>
      inregs == [k \in 1..(n - extra) |-> Ins("mov", Rg(ArgRegs[k]), Ref(g, g.pend[k]))]
      rs     == GivesBack(extra)
      called == Asm(g, pushed[extra] \o inregs \o <<Ins("call", a[2], Num(0))>>
                         \o (IF rs > 0 THEN <<Ins("add", rsp, Num(rs))>> ELSE <<>>))
      kept   == IF a[1] = None THEN called
                ELSE Kinded(Asm(called, <<Ins("mov", Ref(g, a[1]), rax)>>), a[1], "int")
  IN  [kept EXCEPT !.pend = <<>>]

\* Mutant: rsp is taken to be at the saved rbp already.
ReturnUnwound(g, r) ==
  Asm(g, <<Ins("mov", rax, IF r = None THEN Num(0) ELSE Ref(g, r)),
           Ins("pop", rbp, rbp), Ins("ret", rsp, rsp)>>)
ReturnCode(g, r) ==
  Asm(g, <<Ins("mov", rax, IF r = None THEN Num(0) ELSE Ref(g, r)),
           Ins("mov", rsp, rbp), Ins("pop", rbp, rbp), Ins("ret", rsp, rsp)>>)

ConstCode(g, d, kind, val) ==
  Kinded(Asm(g, <<Ins("mov", rax, Num(IF kind = "float" THEN 0 ELSE val)),
                  Ins("mov", Ref(g, d), rax)>>), d, kind)

\* A label that begins with a dot belongs to the function.
LabelOf(g, l) == <<g.fn, l>>

\* Mutant: jz for jnz and jnz for jz.
JumpUnless(g, jump, c, l) ==
  Asm(g, <<Ins("mov", rax, Ref(g, c)), Ins("test", rax, rax),
           Ins(IF jump = "jz" THEN "jnz" ELSE "jz", LabelOf(g, l), rax)>>)
JumpIf(g, jump, c, l) ==
  Asm(g, <<Ins("mov", rax, Ref(g, c)), Ins("test", rax, rax), Ins(jump, LabelOf(g, l), rax)>>)

\* _emit.
Emit(g, ins) ==
  LET o == ins.op  a == ins.args
  IN CASE o = "LABEL" -> Asm(g, <<Ins("label", LabelOf(g, a[1]), rax)>>)
       [] o = "JMP" -> Asm(g, <<Ins("jmp", LabelOf(g, a[1]), rax)>>)
       [] o = "JMP_IF" -> JumpIf(g, "jnz", a[1], a[2])
       [] o = "JMP_IF_NOT" -> JumpIf(g, "jz", a[1], a[2])
       [] o = "CONST" -> ConstCode(g, a[1], a[2][1], a[2][2])
       [] o \in {"LOAD", "STORE"} ->
            Asm(KindCopied(g, a[1], a[2]), <<Ins("mov", rax, Ref(g, a[2])), Ins("mov", Ref(g, a[1]), rax)>>)
       [] o = "LOAD_ARR" ->
            Asm(g, ElementAddress(g, a[2], a[3])
                     \o <<Ins("mov", rax, Slot("rdx", 0)), Ins("mov", Ref(g, a[1]), rax)>>)
       [] o = "STORE_ARR" ->
            Asm(g, ElementAddress(g, a[1], a[2])
                     \o <<Ins("mov", rax, Ref(g, a[3])), Ins("mov", Slot("rdx", 0), rax)>>)
       [] o = "ADD" -> Computed(g, a[1], a[2], KindOf(g, a[2]),
                                <<Ins("mov", rcx, Ref(g, a[3])), Ins("add", rax, rcx)>>, rax)
       [] o = "SUB" -> Computed(g, a[1], a[2], KindOf(g, a[2]),
                                <<Ins("mov", rcx, Ref(g, a[3])), Ins("sub", rax, rcx)>>, rax)
       [] o = "MUL" -> Computed(g, a[1], a[2], KindOf(g, a[2]),
                                <<Ins("imul", rax, Ref(g, a[3]))>>, rax)
       [] o = "DIV" -> Computed(g, a[1], a[2], KindOf(g, a[2]), Divide(g, a), rax)
       [] o = "MOD" -> Computed(g, a[1], a[2], "int", Divide(g, a), rdx)
       [] o = "NEG" -> Computed(g, a[1], a[2], KindOf(g, a[2]), <<Ins("neg", rax, rax)>>, rax)
       [] o = "INC" -> Computed(g, a[1], a[2], KindOf(g, a[2]), <<Ins("add", rax, Num(1))>>, rax)
       [] o = "DEC" -> Computed(g, a[1], a[2], KindOf(g, a[2]), <<Ins("sub", rax, Num(1))>>, rax)
       [] o \in {"LT", "LE", "GT", "GE", "EQ", "NE"} ->
            Computed(g, a[1], a[2], "bool", <<Ins("cmp", rax, Ref(g, a[3])), Set(rax, o)>>, rax)
       [] o = "AND" -> Computed(g, a[1], a[2], "bool", Logical(g, a, "and"), rax)
       [] o = "OR"  -> Computed(g, a[1], a[2], "bool", Logical(g, a, "or"), rax)
       [] o = "NOT" -> Computed(g, a[1], a[2], "bool",
                                <<Ins("test", rax, rax), Set(rax, "EQ")>>, rax)
       [] o = "PRINT" -> PrintAll(g, a)
       [] o = "READ_INT" ->
            [Kinded(Asm(g, <<Ins("call", <<"rt", "_read_int">>, Num(0)), Ins("mov", Ref(g, a[1]), rax)>>),
                    a[1], "int") EXCEPT !.used = @ \cup {"_read_int"}]
       [] o = "EXIT" -> Asm(g, <<Ins("mov", Rg("rdi"), Ref(g, a[1])), Ins("mov", rax, Num(60)),
                                 Ins("syscall", rax, rax)>>)
       [] o = "PARAM" -> [g EXCEPT !.pend = Append(@, a[1])]
       [] o = "CALL" -> CallCode(g, a)
       [] o = "RET" -> ReturnCode(g, a[1])
       [] OTHER -> g

-----------------------------------------------------------------------------
(***************************************************************************)
(* _gen_fn and generate.  marks tells where the code of each instruction   *)
(* of the IR begins, counted from the first function.                      *)
(***************************************************************************)
Prologue(g, formals) ==
  LET size  == FrameSize(g)
      enter == Asm(g, <<Ins("fun", g.fn, rax), Ins("push", rbp, rbp), Ins("mov", rbp, rsp)>>
                        \o (IF size > 0 THEN <<Ins("sub", rsp, Num(size))>> ELSE <<>>))
      slot(k) == Ref(g, formals[k])
      spill(k) == IF k <= Len(ArgRegs) THEN <<Ins("mov", slot(k), Rg(ArgRegs[k]))>>
                  ELSE <<Ins("mov", rax, Slot("rbp", 2 * W + (k - Len(ArgRegs) - 1) * W)),
                         Ins("mov", slot(k), rax)>>
      spilt[k \in 0..Len(formals)] == IF k = 0 THEN enter ELSE Asm(spilt[k - 1], spill(k))
  IN  spilt[Len(formals)]

Mark(g) == Len(g.out) + 1

GenFunc(q, fn) ==
  LET l == BuildFrame(fn)
      start == [fn |-> fn.name, slots |-> l.slots, arrs |-> l.arrs, cur |-> l.cur,
                out |-> q.out, used |-> q.used, pend |-> <<>>,
                kinds |-> [p \in fn.params |-> "int"]]
      turn(w) == [g |-> Emit(w.g, fn.code[w.next]), marks |-> Append(w.marks, Mark(w.g)),
                  next |-> w.next + 1]
      done == Iterate(turn, [g |-> Prologue(start, fn.formals), marks |-> <<>>, next |-> 1],
                      Len(fn.code))
  IN  [out |-> done.g.out, used |-> done.g.used,
       layouts |-> Append(q.layouts, l),
       marks |-> Append(q.marks, Append(done.marks, Mark(done.g)))]

\* _start calls main and exits with what it returned.
StartCode == <<Ins("call", <<"f", "main">>, Num(0)), Ins("mov", Rg("rdi"), rax),
               Ins("mov", rax, Num(60)), Ins("syscall", rax, rax)>>

\* The helpers that go into the file: those some function calls.
Linked(used) == used

\* _start, the helpers and the functions in order.
Generate(prog) ==
  LET after[k \in 0..Len(prog)] ==
        IF k = 0 THEN [out |-> <<>>, used |-> {}, layouts |-> <<>>, marks |-> <<>>]
        ELSE GenFunc(after[k - 1], prog[k])
      body == after[Len(prog)]
  IN  [out |-> StartCode \o body.out, linked |-> Linked(body.used), start |-> Len(StartCode),
       layouts |-> body.layouts, marks |-> body.marks]

=============================================================================
