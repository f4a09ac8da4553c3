----------------------------- MODULE IRMachine -----------------------------
(***************************************************************************)
(* What an IR function does when it runs: the meaning the RISC-V backend   *)
(* (src/backend/riscv.py) gives each instruction by the code it emits.     *)
(* Every temp and every scalar has one stack slot of its own (the frame);  *)
(* an array has one slot per element; words wrap at 2 * Half.              *)
(* A call is an event whose answer, like the number readInt returns, comes *)
(* from the environment: the list of inputs.                               *)
(***************************************************************************)
EXTENDS IR

CONSTANT Half    \* words are -Half .. Half - 1 (2^31 on RV32)
ASSUME HalfAssumption == Half \in Nat \ {0, 1}

Wrap(x) == ((x + Half) % (2 * Half)) - Half
Undef   == 2 * Half            \* no word: the slot was never written

\* div and rem of the RISC-V M extension round toward zero.
TruncRem(x, y) == IF x < 0 THEN -(Abs(x) % Abs(y)) ELSE Abs(x) % Abs(y)

Arith(op, x, y) ==
  CASE op = "ADD" -> Wrap(x + y)
    [] op = "SUB" -> Wrap(x - y)
    [] op = "MUL" -> Wrap(x * y)
    [] op = "DIV" -> IF y = 0 THEN -1 ELSE Wrap(TruncDiv(x, y))
    [] op = "MOD" -> IF y = 0 THEN x ELSE TruncRem(x, y)
    [] op = "LT"  -> Bit(x < y)
    [] op = "LE"  -> Bit(x <= y)
    [] op = "GT"  -> Bit(x > y)
    [] op = "GE"  -> Bit(x >= y)
    [] op = "EQ"  -> Bit(x = y)
    [] op = "NE"  -> Bit(x # y)
    [] op = "AND" -> Bit(x # 0 /\ y # 0)
    [] op = "OR"  -> Bit(x # 0 \/ y # 0)

Unary(op, x) ==
  CASE op = "NEG" -> Wrap(-x)
    [] op = "INC" -> Wrap(x + 1)
    [] op = "DEC" -> Wrap(x - 1)
    [] op = "NOT" -> Bit(x = 0)

Cell(arr, i) == <<"[]", arr, i>>

(***************************************************************************)
(* The memory after a data instruction; in is the environment's answer.    *)
(***************************************************************************)
Effect(mem, ins, in) ==
  LET o == ins.op  a == ins.args
  IN CASE o = "CONST" -> [mem EXCEPT ![a[1]] = Wrap(a[2][2])]
       [] o \in {"LOAD", "STORE"} -> [mem EXCEPT ![a[1]] = mem[a[2]]]
       [] o = "LOAD_ARR" ->
            [mem EXCEPT ![a[1]] = mem[Cell(a[2], mem[a[3]])]]
       [] o = "STORE_ARR" ->
            [mem EXCEPT ![Cell(a[1], mem[a[2]])] = mem[a[3]]]
       [] o \in BinOps -> [mem EXCEPT ![a[1]] = Arith(o, mem[a[2]], mem[a[3]])]
       [] o \in UnaryOps -> [mem EXCEPT ![a[1]] = Unary(o, mem[a[2]])]
       [] o = "READ_INT" -> [mem EXCEPT ![a[1]] = in]
       [] o = "CALL" /\ a[1] # None -> [mem EXCEPT ![a[1]] = in]
       [] OTHER -> mem

(***************************************************************************)
(* What the outside sees of an instruction: the words printed, passed,     *)
(* returned or exited with, the function called, the input consumed.       *)
(* Other instructions show nothing: <<>>.                                  *)
(***************************************************************************)
Shown(mem, ins) ==
  LET o == ins.op  a == ins.args
  IN CASE o = "PRINT" -> <<"PRINT", [k \in DOMAIN a |-> mem[a[k]]]>>
       [] o \in {"PARAM", "EXIT"} -> <<o, <<mem[a[1]]>>>>
       [] o = "RET" -> <<"RET", IF a[1] = None THEN <<>> ELSE <<mem[a[1]]>>>>
       [] o = "CALL" -> <<"CALL", <<a[2], a[3]>>>>
       [] o = "READ_INT" -> <<"READ_INT", <<>>>>
       [] OTHER -> <<>>

(***************************************************************************)
(* Running a whole function.  A configuration has the next instruction,    *)
(* the memory, the events so far, the inputs consumed and a status:        *)
(*   "run", "ret", "exit";                                                 *)
(*   "undef"  it read a slot never written, or outside its array;          *)
(*   "fell"   it ran off the end of the function: no epilogue is emitted   *)
(*            there, so the next function's code would run.                *)
(***************************************************************************)
Names(p, params) ==
  LET slots == UNION {Operands(p[i]) : i \in DOMAIN p}
      scalars == {s \in slots : s[1] \in {"%", "v"}}
      alloc == {i \in DOMAIN p : p[i].op = "ALLOC_ARRAY"}
      cells == UNION {{Cell(p[i].args[1], k) : k \in 0..(p[i].args[2][2] - 1)}
                        : i \in alloc}
  IN  scalars \cup params \cup cells

Reads(mem, ins) ==
  LET a == ins.args
  IN CASE ins.op = "LOAD_ARR" -> {a[3], Cell(a[2], mem[a[3]])}
       [] ins.op = "STORE_ARR" -> {a[2], a[3]}
       [] OTHER -> Used(ins)

Writes(mem, ins) ==
  IF ins.op = "STORE_ARR" THEN {Cell(ins.args[1], mem[ins.args[2]])} ELSE {}

LabelAt(p, l) ==
  LET at == {i \in DOMAIN p : p[i].op = "LABEL" /\ p[i].args[1] = l}
  IN  CHOOSE i \in at : TRUE

Consumes(ins) == ins.op = "READ_INT" \/ (ins.op = "CALL" /\ ins.args[1] # None)

Start(p, params, inputs) ==
  [pc |-> 1, st |-> "run", out |-> <<>>, used |-> 0,
   mem |-> [n \in Names(p, params) |-> IF n \in params THEN inputs[1] ELSE Undef]]

\* Mutant: the program counter moves past what halts.
HaltPast(c, status) == [c EXCEPT !.st = status, !.pc = @ + 1]
Halt(c, status) == [c EXCEPT !.st = status]
Goto(p, c, l)   == [c EXCEPT !.pc = LabelAt(p, l)]

NextInput(c, inputs) == inputs[1 + (c.used % Len(inputs))]

Perform(c, ins, inputs) ==
  LET event == Shown(c.mem, ins)
  IN  [pc   |-> c.pc + 1,
       st   |-> c.st,
       out  |-> IF event = <<>> THEN c.out ELSE Append(c.out, event),
       used |-> IF Consumes(ins) THEN c.used + 1 ELSE c.used,
       mem  |-> Effect(c.mem, ins, NextInput(c, inputs))]

\* It reads a slot never written, or reads or writes outside its array.
Stuck(mem, ins) ==
  \/ \E n \in Reads(mem, ins) : n \notin DOMAIN mem \/ mem[n] = Undef
  \/ \E n \in Writes(mem, ins) : n \notin DOMAIN mem

Execute(p, c, ins, inputs) ==
  LET o == ins.op  a == ins.args
  IN CASE o = "JMP" -> Goto(p, c, a[1])
       [] o = "JMP_IF" -> IF c.mem[a[1]] # 0 THEN Goto(p, c, a[2])
                          ELSE [c EXCEPT !.pc = @ + 1]
       [] o = "JMP_IF_NOT" -> IF c.mem[a[1]] = 0 THEN Goto(p, c, a[2])
                              ELSE [c EXCEPT !.pc = @ + 1]
       [] o = "RET" -> Halt(Perform(c, ins, inputs), "ret")
       [] o = "EXIT" -> Halt(Perform(c, ins, inputs), "exit")
       [] OTHER -> Perform(c, ins, inputs)

StepOnce(p, c, inputs) ==
  IF c.pc > Len(p) THEN Halt(c, "fell")
  ELSE IF Stuck(c.mem, p[c.pc]) THEN Halt(c, "undef")
  ELSE Execute(p, c, p[c.pc], inputs)

(***************************************************************************)
(* F applied 16, 64, 128 and 256 times.                                    *)
(***************************************************************************)
Times16(F(_), c)  == LET G(x) == Times4(F, x) IN Times4(G, c)
Times64(F(_), c)  == LET G(x) == Times16(F, x) IN Times4(G, c)
Times128(F(_), c) == LET G(x) == Times64(F, x) IN Once(G, Once(G, c))
Times256(F(_), c) == LET G(x) == Times64(F, x) IN Times4(G, c)

Advance(p, c, inputs) == IF c.st = "run" THEN StepOnce(p, c, inputs) ELSE c

\* The configuration after 128, or 256, steps or when it stops before.
ShortRun(p, params, inputs) ==
  LET next(c) == Advance(p, c, inputs) IN Times128(next, Start(p, params, inputs))
LongRun(p, params, inputs) ==
  LET next(c) == Advance(p, c, inputs) IN Times256(next, Start(p, params, inputs))

(***************************************************************************)
(* q does what p does, on one list of inputs.  A run of p that is not      *)
(* defined asks nothing of q; one that does not stop in time asks that     *)
(* what either shows is the beginning of what the other shows.  A pass may *)
(* replace an instruction by several, hence the longer run of q.           *)
(***************************************************************************)
Prefix(s, t) == Len(s) <= Len(t) /\ SubSeq(t, 1, Len(s)) = s

SameRun(a, b) ==
  CASE a.st \in {"undef", "fell"} -> TRUE
    [] a.st = "run" -> Prefix(a.out, b.out) \/ Prefix(b.out, a.out)
    [] OTHER -> b.st = a.st /\ b.out = a.out

Implements(q, p, params, inputSet) ==
  \A inputs \in inputSet :
    SameRun(ShortRun(p, params, inputs), LongRun(q, params, inputs))

=============================================================================
