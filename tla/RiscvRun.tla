------------------------------ MODULE RiscvRun ------------------------------
(***************************************************************************)
(* The assembly riscv.py generates for a program at work on the machine,   *)
(* beside the program itself (Activations).  The program performs an IR    *)
(* instruction when the machine executes the last instruction of the code  *)
(* emitted for it (for a CALL, the call itself).                           *)
(***************************************************************************)
EXTENDS Activations, RiscvGen, TLC

-----------------------------------------------------------------------------
(***************************************************************************)
(* An RV32 machine with the ecalls of the Ripes simulator, as far as       *)
(* src/backend/riscv.py uses them.  A configuration is [pc, r, mem, out,   *)
(* used, st]: registers, the stack's words by address, what was shown, the *)
(* inputs read and "run", "halt" or "fault".                               *)
(***************************************************************************)
CONSTANT StackTop    \* the first address above the stack

Registers == {"a0", "a1", "a2", "a3", "a4", "a5", "a6", "a7",
              "t0", "t1", "t2", "s0", "sp", "ra"}
Addresses == {4 * k : k \in 0..(StackTop \div 4 - 1)}

Reset ==
  [pc |-> 1, out |-> <<>>, used |-> 0, st |-> "run",
   r   |-> [x \in Registers |-> IF x = "sp" THEN StackTop ELSE Undef],
   mem |-> [x \in Addresses |-> Undef]]

Reg(m, x) == IF x = "zero" THEN 0 ELSE m.r[x]

\* An unsigned comparison, as sltu and sltiu make it.
Below(x, y) == IF (x < 0) = (y < 0) THEN x < y ELSE y < 0

\* xor: with 1 it flips a bit, and it is zero for equal words only.  That is
\* all that is asked of it.
Xor(x, y) == IF x = y THEN 0 ELSE IF {x, y} = {0, 1} THEN 1 ELSE -1

Result(op, x, y) ==
  CASE op \in {"add", "addi"} -> Wrap(x + y)
    [] op = "sub"  -> Wrap(x - y)
    [] op = "mul"  -> Wrap(x * y)
    [] op = "div"  -> Arith("DIV", x, y)
    [] op = "rem"  -> Arith("MOD", x, y)
    [] op = "slt"  -> Bit(x < y)
    [] op \in {"sltu", "sltiu"} -> Bit(Below(x, y))
    [] op \in {"xor", "xori"}   -> Xor(x, y)
    [] op = "and"  -> Bit(x = 1 /\ y = 1)
    [] op = "or"   -> Bit(x = 1 \/ y = 1)
    [] op = "slli" -> Wrap(x * 2^y)

Immediate == {"addi", "sltiu", "xori", "slli"}

Place(code, mark, name) == CHOOSE i \in DOMAIN code : code[i].op = mark /\ code[i].d = name

SetReg(m, x, v) == [m EXCEPT !.r[x] = v, !.pc = @ + 1]

Access(m, ins) ==
  LET at == Reg(m, ins.b) + ins.a
  IN CASE at \notin DOMAIN m.mem -> [m EXCEPT !.st = "fault"]
       [] at \in DOMAIN m.mem /\ ins.op = "lw" -> SetReg(m, ins.d, m.mem[at])
       [] OTHER -> [m EXCEPT !.mem[at] = Reg(m, ins.d), !.pc = @ + 1]

\* The services: a7 says which, a0 is the argument and the answer.
Service(m, inputs) ==
  LET a0 == m.r["a0"]
      shows(dev) == [m EXCEPT !.out = Append(@, <<dev, a0>>), !.pc = @ + 1]
  IN CASE m.r["a7"] = 1  -> shows("int")
       [] m.r["a7"] = 4  -> shows("string")
       [] m.r["a7"] = 11 -> shows("char")
       [] m.r["a7"] = 5  -> [SetReg(m, "a0", NextInput(m, inputs)) EXCEPT !.used = @ + 1]
       [] m.r["a7"] = 10 -> [m EXCEPT !.st = "halt"]
       [] m.r["a7"] = 93 -> [shows("exit") EXCEPT !.st = "halt"]
       [] OTHER -> [m EXCEPT !.st = "fault"]

Cycle(code, m, inputs) ==
  LET ins == code[m.pc]
      jump(to) == [m EXCEPT !.pc = to]
      x == Reg(m, ins.a)
  IN CASE ins.op \in {"lw", "sw"} -> Access(m, ins)
       [] ins.op = "li"    -> SetReg(m, ins.d, Wrap(ins.a))
       [] ins.op \in {"label", "fun"} -> jump(m.pc + 1)
       [] ins.op = "j"     -> jump(Place(code, "label", ins.d))
       [] ins.op = "bnez"  -> jump(IF x # 0 THEN Place(code, "label", ins.d) ELSE m.pc + 1)
       [] ins.op = "beqz"  -> jump(IF x = 0 THEN Place(code, "label", ins.d) ELSE m.pc + 1)
       [] ins.op = "call"  -> [m EXCEPT !.r["ra"] = m.pc + 1, !.pc = Place(code, "fun", ins.d)]
       [] ins.op = "ret"   -> jump(m.r["ra"])
       [] ins.op = "ecall" -> Service(m, inputs)
       [] ins.op \in Immediate -> SetReg(m, ins.d, Result(ins.op, x, ins.b))
       [] OTHER -> SetReg(m, ins.d, Result(ins.op, x, Reg(m, ins.b)))

MachineStep(code, m, inputs) ==
  IF m.pc \in DOMAIN code THEN Cycle(code, m, inputs) ELSE [m EXCEPT !.st = "fault"]

-----------------------------------------------------------------------------

CONSTANTS Programs,     \* a list of lowered programs
          InputLists    \* lists of answers of the environment

\* gs[k] is the generator before the k-th instruction of fn: each turn of
\* _gen_func goes on with what the one before left, and the marks say so.
InTurn(fn, gs, marks, text) ==
  /\ DOMAIN gs = 1..(Len(fn.code) + 1)
  /\ \A k \in DOMAIN fn.code :
       /\ gs[k + 1] = Emit(gs[k], fn.code[k])
       /\ marks[k] = Mark(gs[k])
       /\ \A j \in 1..Len(gs[k].out) : j \in DOMAIN text /\ gs[k].out[j] = text[j]

\* Every name has its slot; a temp that gets a float has one that no instruction
\* before has named, for temps are defined once.
SlotsGiven(fn, slots) ==
  LET named(ins) == Used(ins) \cup Defined(ins)
  IN  /\ \A n \in DOMAIN slots : slots[n] \in Nat
      /\ \A k \in DOMAIN fn.formals : fn.formals[k] \in DOMAIN slots
      /\ \A k \in DOMAIN fn.code : named(fn.code[k]) \subseteq DOMAIN slots
      /\ \A k \in DOMAIN fn.code :
           fn.code[k].op = "CONST" /\ fn.code[k].args[2][1] = "float" =>
             /\ \A j \in DOMAIN fn.formals : slots[fn.formals[j]] # slots[fn.code[k].args[1]]
             /\ \A j \in 1..(k - 1) : \A n \in named(fn.code[j]) :
                  slots[n] # slots[fn.code[k].args[1]]

IsList(s) == s \in Seq({s[k] : k \in DOMAIN s})

IsFunction(fn) ==
  /\ IsList(fn.code) /\ IsList(fn.formals)
  /\ \A k \in DOMAIN fn.code : fn.code[k].op = "PRINT" => IsList(fn.code[k].args)

\* The assembler finds every label and every function the text names.
Assembles(text) ==
  /\ IsList(text)
  /\ \A j \in DOMAIN text : \A mark \in {"label", "fun"} :
       text[j].op \in (IF mark = "label" THEN {"j", "bnez", "beqz"} ELSE {"call"}) =>
         \E i \in DOMAIN text : text[i].op = mark /\ text[i].d = text[j].d

Turns(out, fn) ==
  LET turn(gs) == Append(gs, Emit(gs[Len(gs)], fn.code[Len(gs)]))
  IN  Iterate(turn, <<Begin(out, fn)>>, Len(fn.code))

\* The text of a program is what its functions' turns append, one after another.
InTurns(prog, asm) ==
  /\ Assembles(asm.out)
  /\ \A f \in DOMAIN prog :
       /\ IsFunction(prog[f]) /\ SlotsGiven(prog[f], BuildFrame(prog[f]).slots)
       /\ LET prior  == asm.marks[f - 1]
              before == IF f = 1 THEN StartCode ELSE SubSeq(asm.out, 1, prior[Len(prior)].at - 1)
          IN  \E out \in {before} : \E gs \in {Turns(out, prog[f])} :
                /\ IsList(out) /\ gs[1] = Begin(out, prog[f])
                /\ InTurn(prog[f], gs, asm.marks[f], asm.out)

ASSUME ProgramsAssumption == \A k \in DOMAIN Programs : InTurns(Programs[k], Generate(Programs[k]))

VARIABLES image,  \* a program, and what the backend makes of it
          inputs,
          m,      \* the machine
          ref     \* the program at work: for the properties only

vars == <<image, inputs, m, ref>>

Compiled(prog) == [prog |-> prog, asm |-> Generate(prog)]

Prog == image.prog
Asms == image.asm.out

FnIndex(name) == CHOOSE f \in DOMAIN Prog : Prog[f].name = name
MarkOf(t, k)  == image.asm.marks[FnIndex(t.fn)][k]
Frame(t)      == image.asm.layouts[FnIndex(t.fn)]

\* Where the code of the program's next instruction begins, and ends.
From == MarkOf(Top(ref), Top(ref).pc).at
To   == MarkOf(Top(ref), Top(ref).pc + 1).at

AtBoundary == ref.st = "run" /\ m.st = "run" /\ m.pc = From
OffTheEnd  == Top(ref).pc > Len(FunctionOf(Prog, Top(ref).fn).code)

\* The program moves alone: nothing was emitted for the instruction, or what
\* it does is not defined.
Alone == AtBoundary /\ (OffTheEnd \/ From = To \/ Stuck(Top(ref).mem, Current(Prog, ref)))

\* The machine is about to complete the instruction.
Commits ==
  /\ ref.st = "run"
  /\ m.pc \in From..(To - 1)
  /\ IF Current(Prog, ref).op = "CALL" THEN Asms[m.pc].op = "call" ELSE m.pc = To - 1

Init ==
  /\ \E k \in DOMAIN Programs : image = Compiled(Programs[k])
  /\ inputs \in InputLists
  /\ m = Reset
  /\ ref = Boot(Prog, inputs)

ProgramMoves ==
  /\ Alone
  /\ ref' = Perform1(Prog, ref, inputs)
  /\ UNCHANGED <<image, inputs, m>>

\* What the machine does is nobody's promise once the program is not defined.
MachineMoves ==
  /\ m.st = "run" /\ ref.st \notin {"undef", "fell"}
  /\ ~Alone
  /\ m' = MachineStep(Asms, m, inputs)
  /\ ref' = IF Commits THEN Perform1(Prog, ref, inputs) ELSE ref
  /\ UNCHANGED <<image, inputs>>

Stopped == m.st # "run" \/ ref.st \in {"undef", "fell"}

Step == ProgramMoves \/ MachineMoves
Next == Step \/ (Stopped /\ UNCHANGED vars)

\* The machine goes on as long as it can.
Spec == Init /\ [][Next]_vars /\ WF_vars(Step)

-----------------------------------------------------------------------------
(***************************************************************************)
(* The frames on the machine's stack, the newest last: the bases (s0) of   *)
(* as many activations as the program has.                                 *)
(***************************************************************************)
Depth == Len(ref.stack)
Base ==
  LET base[k \in 1..Depth] ==
        IF k = Depth THEN m.r["s0"]
        ELSE LET above == base[k + 1]
             IN  IF above - 2 * W \in Addresses THEN m.mem[above - 2 * W] ELSE Undef
  IN  base

Word(at) == IF at \in Addresses THEN m.mem[at] ELSE Undef

\* Where a scalar, or an element of an array, has its word.
Home(l, base, n) ==
  IF n[1] = "[]" THEN base - (l.arrs[n[2]] + 2 * W) - W * n[3]
  ELSE base - (l.slots[n] + 2 * W)

\* Room a pending call has made for its arguments.
Room(t) ==
  LET n == FunctionOf(Prog, t.fn).code[t.pc].args[3][2]
  IN  IF n > 8 THEN AlignUp16((n - 8) * W) ELSE 0

TypeOK ==
  /\ m.st \in {"run", "halt", "fault"}
  /\ m.st = "run" => m.pc \in DOMAIN Asms
  /\ ref.st \in {"run", "halt", "undef", "fell"} /\ Depth \in Nat \ {0}
  /\ \A k \in 1..Depth : \E f \in DOMAIN Prog : Prog[f].name = ref.stack[k].fn
  /\ \A x \in Registers : m.r[x] = Undef \/ m.r[x] \in -Half..(Half - 1)
  /\ \A k \in 1..Depth : ref.stack[k].pc \in 1..(Len(FunctionOf(Prog, ref.stack[k].fn).code) + 1)

\* What the generator believes t0 and t1 to hold is what is in their slots
\* whenever the machine comes to the code that relies on it, on every path
\* that leads there: the loads it leaves out are not missed (riscv.py:45-59).
CacheTrue ==
  AtBoundary /\ ~OffTheEnd /\ Asms[m.pc].op \notin {"label", "fun"} =>
    LET mark == MarkOf(Top(ref), Top(ref).pc)
    IN  /\ mark.t0 # NoSlot => Word(m.r["s0"] + mark.t0) = m.r["t0"]
        /\ mark.t1 # NoSlot => Word(m.r["s0"] + mark.t1) = m.r["t1"]

\* No two names of a frame share a word that both need, in no activation: what
\* the program has in each variable, temp and array element is in its slot
\* (riscv.py:87-110, and every store).
SlotsHold ==
  AtBoundary =>
    \A k \in 1..Depth :
      LET t == ref.stack[k]
      IN  \A n \in DOMAIN t.mem :
            t.mem[n] # Undef => Word(Home(Frame(t), Base[k], n)) = t.mem[n]

\* Frames lie one under the other without gap or overlap, the room for stack
\* arguments between them, and sp is at the bottom of the newest: every
\* prologue is undone by its epilogue, at every return (riscv.py:183-187,
\* 360-371, 377-385).
FramesTile ==
  AtBoundary =>
    LET bottom(k) == Base[k] - FrameSize(Frame(ref.stack[k]))
    IN  /\ Base[1] = StackTop
        /\ m.r["sp"] = bottom(Depth)
        /\ \A k \in 1..(Depth - 1) : Base[k + 1] = bottom(k) - Room(ref.stack[k])

\* A function returns to where some function was called, whatever was written to
\* the stack in between (riscv.py:184, 383).
ReturnsHome ==
  m.st = "run" /\ Asms[m.pc].op = "ret" =>
    m.r["ra"] - 1 \in DOMAIN Asms /\ Asms[m.r["ra"] - 1].op = "call"

\* The stack is the program's, frame by frame and word by word.
StackHolds == TypeOK /\ ReturnsHome /\ FramesTile /\ SlotsHold

\* An int or a string goes out with a newline, a char without.
Rendered(out) ==
  LET text[k \in 0..Len(out)] ==
        CASE k = 0 -> <<>>
          [] k > 0 /\ out[k][1] \in {"char", "exit"} -> Append(text[k - 1], out[k])
          [] OTHER -> text[k - 1] \o <<out[k], <<"char", 10>>>>
  IN  text[Len(out)]

\* The device sees what the program shows: numbers, characters and strings each
\* by their own service, the exit status, as many reads, and no more.
SameOutput ==
  /\ AtBoundary => m.out = Rendered(ref.out) /\ m.used = ref.used
  /\ m.st = "halt" => ref.st = "halt" /\ m.out = Rendered(ref.out)
  /\ m.st # "fault"

\* The program does not run into the code of the next function.
StaysInside == ref.st # "fell"

\* The machine stops of itself.
Halts == <>Stopped

=============================================================================
