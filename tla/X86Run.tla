------------------------------- MODULE X86Run -------------------------------
(***************************************************************************)
(* The assembly x86_64.py generates for a program at work on the machine,  *)
(* beside the program itself (Activations), as in RiscvRun.  The numbers   *)
(* the program reads come to the machine as text, one line to a sys_read   *)
(* as a terminal gives it, or as many bytes of all the lines as are asked  *)
(* for, as a pipe does.                                                    *)
(***************************************************************************)
EXTENDS Activations, X86Gen, TLC
LOCAL INSTANCE SequencesExt

-----------------------------------------------------------------------------
(***************************************************************************)
(* An x86-64 machine, as far as src/backend/x86_64.py uses it.  A          *)
(* configuration is [pc, r, flags, mem, out, read, st]: registers, the two *)
(* numbers last compared, the stack's words by address, what was written,  *)
(* the reads made and "run", "halt", "trap" (the processor's divide error) *)
(* or "fault".  A runtime helper is one step, its registers and the words  *)
(* it pushed undefined after it.                                           *)
(*                                                                         *)
(* First what the helpers (_RUNTIME) write for the word in rdi, and the    *)
(* word _read_int makes of what one sys_read delivers.  A character is its *)
(* code, <<"char", 10>> one in the output; the bytes of a string are left  *)
(* together, <<"string", address>>.                                        *)
(***************************************************************************)
ReadRoom == 63     \* bytes asked of sys_read

Newline == <<"char", 10>>
DigitChars == 48..57
BlankChars == {9, 10, 13, 32}

\* The number in a register taken as unsigned, as div takes it.
Unsigned(x) == x % (2 * Half)

\* .pi_loop: a digit at a time, from the right, at least one.
Digits(n) ==
  LET text[q \in Nat] == IF q < 10 THEN <<48 + q>> ELSE Append(text[q \div 10], 48 + (q % 10))
  IN  text[n]

\* Mutant: the sign is looked at after the number was made positive.
PrintIntUnsigned(n) == Digits(IF n < 0 THEN Unsigned(Wrap(-n)) ELSE n)

\* The least number has no positive: neg leaves it, and div reads it unsigned.
PrintInt(n) ==
  IF n < 0 THEN <<45>> \o Digits(Unsigned(Wrap(-n))) ELSE Digits(n)

Chars(text) == [k \in DOMAIN text |-> <<"char", text[k]>>]

\* What a helper that prints writes.
Writes1(h, word) ==
  CASE h = "_print_int"  -> Chars(PrintInt(word)) \o <<Newline>>
    [] h = "_print_str"  -> <<<<"string", word>>, Newline>>
    [] h = "_print_char" -> <<<<"char", word>>, Newline>>

\* The place of the first character from there on that is none of the set.
Past(s, from, set) == Min({i \in from..Len(s) : s[i] \notin set} \cup {Len(s) + 1})

\* Mutant: the sign is skipped and forgotten.
ReadIntPositive(chunk) ==
  LET start == Past(chunk, 1, BlankChars \cup {45})
      stop  == Past(chunk, start, DigitChars)
      value[k \in (start - 1)..(stop - 1)] ==
        IF k = start - 1 THEN 0 ELSE Wrap(10 * value[k - 1] + (chunk[k] - 48))
  IN  value[stop - 1]

\* _read_int: blanks, a sign, digits; what follows is not looked at.
ReadInt(chunk) ==
  LET start == Past(chunk, 1, BlankChars)
      minus == start <= Len(chunk) /\ chunk[start] = 45
      from  == IF minus THEN start + 1 ELSE start
      stop  == Past(chunk, from, DigitChars)
      value[k \in (from - 1)..(stop - 1)] ==
        IF k = from - 1 THEN 0 ELSE Wrap(10 * value[k - 1] + (chunk[k] - 48))
  IN  IF minus THEN Wrap(-value[stop - 1]) ELSE value[stop - 1]

-----------------------------------------------------------------------------

CONSTANT StackTop    \* where rsp points at _start

Scratch   == {"rcx", "rdx", "rsi", "rdi", "r8", "r9"}
Registers == Scratch \cup {"rax", "rbp", "rsp"}
Addresses == {8 * k : k \in 0..(StackTop \div 8 - 1)}

Reset ==
  [pc |-> 1, out |-> <<>>, read |-> 0, st |-> "run", flags |-> <<Undef, Undef>>,
   r   |-> [x \in Registers |-> IF x = "rsp" THEN StackTop ELSE Undef],
   mem |-> [x \in Addresses |-> Undef]]

Address(m, o) == m.r[o[2]] + o[3]
Value(m, o) ==
  CASE o[1] = "r" -> m.r[o[2]]
    [] o[1] = "m" -> m.mem[Address(m, o)]
    [] o[1] = "i" -> Wrap(o[2])
Holds(m, o) == o[1] = "m" => Address(m, o) \in DOMAIN m.mem

Put1At(m, o, v) == IF o[1] = "r" THEN [m EXCEPT !.r[o[2]] = v]
                   ELSE [m EXCEPT !.mem[Address(m, o)] = v]
Next1(m)        == [m EXCEPT !.pc = @ + 1]
SetTo(m, o, v)  == Next1(Put1At(m, o, v))
Fails(m, how)   == [m EXCEPT !.st = how]

\* A condition on the two numbers last compared.
Condition(cc, f) == Arith(cc, f[1], f[2])

PushWord(m, v) ==
  LET top == m.r["rsp"] - 8
  IN  IF top \notin DOMAIN m.mem THEN Fails(m, "fault")
      ELSE Next1([m EXCEPT !.r["rsp"] = top, !.mem[top] = v])

PlaceOf(code, mark, name) == CHOOSE i \in DOMAIN code : code[i].op = mark /\ code[i].d = name

\* idiv divides rdx:rax: with anything but the sign of rax in rdx, as with 0
\* for a divisor, the quotient has no room.
IDiv(m, y) ==
  LET x == m.r["rax"]
      extended == m.r["rdx"] = (IF x < 0 THEN -1 ELSE 0)
  IN  IF ~extended \/ y = 0 \/ (x = -Half /\ y = -1) THEN Fails(m, "trap")
      ELSE Next1([m EXCEPT !.r["rax"] = TruncDiv(x, y), !.r["rdx"] = TruncRem(x, y)])

\* The call, the helper at work and its return; answer is rax then.
AfterHelper(m, answer) ==
  LET pushed == {m.r["rsp"] - 8 * k : k \in 1..3}
  IN  IF ~(pushed \subseteq DOMAIN m.mem) THEN Fails(m, "fault")
      ELSE Next1([m EXCEPT
             !.r = [x \in Registers |-> CASE x = "rax" -> answer
                                          [] x \in Scratch -> Undef [] OTHER -> @[x]],
             !.flags = <<Undef, Undef>>,
             !.mem = [x \in DOMAIN @ |-> IF x \in pushed THEN Undef ELSE @[x]]])

Runtime(m, h, chunk) ==
  IF h = "_read_int" THEN AfterHelper([m EXCEPT !.read = @ + 1], ReadInt(chunk))
  ELSE AfterHelper([m EXCEPT !.out = @ \o Writes1(h, m.r["rdi"])], Undef)

Arithmetic(op, x, y) ==
  CASE op = "add"  -> Wrap(x + y)
    [] op = "sub"  -> Wrap(x - y)
    [] op = "imul" -> Wrap(x * y)
    [] op = "neg"  -> Wrap(-x)
    [] op = "and"  -> Bit(x = 1 /\ y = 1)
    [] op = "or"   -> Bit(x = 1 \/ y = 1)

\* Instructions whose operands are words.
Executes(m, ins) ==
  LET x == Value(m, ins.d)  y == Value(m, ins.a)
  IN CASE ins.op = "mov"  -> SetTo(m, ins.d, y)
       [] ins.op = "cmp"  -> Next1([m EXCEPT !.flags = <<x, y>>])
       [] ins.op = "test" -> Next1([m EXCEPT !.flags = <<x, 0>>])
       [] ins.op = "cqo"  -> SetTo(m, ins.d, IF y < 0 THEN -1 ELSE 0)
       [] ins.op = "idiv" -> IDiv(m, x)
       [] ins.op = "push" -> PushWord(m, x)
       [] OTHER -> SetTo(m, ins.d, Arithmetic(ins.op, x, y))

Pops(m, ins) ==
  LET top == m.r["rsp"]
      up  == [m EXCEPT !.r["rsp"] = top + 8]
  IN CASE top \notin DOMAIN m.mem -> Fails(m, "fault")
       [] top \in DOMAIN m.mem /\ ins.op = "pop" -> SetTo(up, ins.d, m.mem[top])
       [] OTHER -> [up EXCEPT !.pc = m.mem[top]]

\* chunk is what the next sys_read delivers; linked the helpers there are.
Cycle(code, linked, m, chunk) ==
  LET ins == code[m.pc]
      jump(to) == [m EXCEPT !.pc = to]
      label == PlaceOf(code, "label", ins.d)
  IN CASE ins.op \in {"label", "fun"} -> Next1(m)
       [] ins.op = "jmp" -> jump(label)
       [] ins.op = "jnz" -> jump(IF Condition("NE", m.flags) = 1 THEN label ELSE m.pc + 1)
       [] ins.op = "jz"  -> jump(IF Condition("EQ", m.flags) = 1 THEN label ELSE m.pc + 1)
       [] ins.op = "set" -> SetTo(m, ins.d, Condition(ins.a, m.flags))
       [] ins.op = "lea" -> SetTo(m, ins.d, Wrap(Address(m, ins.a)))
       [] ins.op = "call" /\ ins.d[1] = "rt" ->
            IF ins.d[2] \in linked THEN Runtime(m, ins.d[2], chunk) ELSE Fails(m, "fault")
       [] ins.op = "call" /\ ins.d[1] # "rt" ->
            LET in == PushWord(m, m.pc + 1)
            IN  IF in.st = "run" THEN [in EXCEPT !.pc = PlaceOf(code, "fun", ins.d)] ELSE in
       [] ins.op \in {"pop", "ret"} -> Pops(m, ins)
       [] ins.op = "syscall" -> Fails([m EXCEPT !.out = Append(@, <<"exit", m.r["rdi"]>>)], "halt")
       [] OTHER -> IF Holds(m, ins.d) /\ Holds(m, ins.a) THEN Executes(m, ins) ELSE Fails(m, "fault")

MachineStep(code, linked, m, chunk) ==
  IF m.pc \in DOMAIN code THEN Cycle(code, linked, m, chunk) ELSE Fails(m, "fault")

-----------------------------------------------------------------------------
CONSTANTS Programs,     \* a list of lowered programs
          InputLists,   \* lists of numbers typed
          Terminal      \* TRUE: a line at a time

VARIABLES image,  \* a program, and what the backend makes of it
          inputs,
          m,      \* the machine
          ref     \* the program at work: for the properties only

vars == <<image, inputs, m, ref>>

Compiled(prog) == [prog |-> prog, asm |-> Generate(prog)]

Prog  == image.prog
Image == image.asm
Asms  == Image.out

Line(n) == <<32>> \o PrintInt(n) \o <<10>>
AllLines == FlattenSeq([k \in DOMAIN inputs |-> Line(inputs[k])])

\* What the next sys_read delivers.
Delivered ==
  IF Terminal THEN Line(inputs[1 + (m.read % Len(inputs))])
  ELSE LET from == m.read * ReadRoom + 1
       IN  SubSeq(AllLines, from, Min({from + ReadRoom - 1, Len(AllLines)}))

FnIndex(name) == CHOOSE f \in DOMAIN Prog : Prog[f].name = name
MarkOf(t, k)  == Image.start + Image.marks[FnIndex(t.fn)][k]
Frame(t)      == Image.layouts[FnIndex(t.fn)]

From == MarkOf(Top(ref), Top(ref).pc)
To   == MarkOf(Top(ref), Top(ref).pc + 1)

AtBoundary == ref.st = "run" /\ m.st = "run" /\ m.pc = From
OffTheEnd  == Top(ref).pc > Len(FunctionOf(Prog, Top(ref).fn).code)

Alone == AtBoundary /\ (OffTheEnd \/ From = To \/ Stuck(Top(ref).mem, Current(Prog, ref)))

CallsFunction(ins) == ins.op = "call" /\ ins.d[1] = "f"

\* The machine is about to complete the instruction.
Commits ==
  /\ ref.st = "run"
  /\ m.pc \in From..(To - 1)
  /\ IF Current(Prog, ref).op = "CALL" THEN CallsFunction(Asms[m.pc]) ELSE m.pc = To - 1

Init ==
  /\ \E k \in DOMAIN Programs : image = Compiled(Programs[k])
  /\ inputs \in InputLists
  /\ m = Reset
  /\ ref = Boot(Prog, inputs)

ProgramMoves ==
  /\ Alone
  /\ ref' = Perform1(Prog, ref, inputs)
  /\ UNCHANGED <<image, inputs, m>>

\* The program completes its instruction unless the machine stops on it.
MachineMoves ==
  /\ m.st = "run" /\ ref.st \notin {"undef", "fell"}
  /\ ~Alone
  /\ m' = MachineStep(Asms, Image.linked, m, Delivered)
  /\ ref' = IF Commits THEN Perform1(Prog, ref, inputs) ELSE ref
  /\ UNCHANGED <<image, inputs>>

Stopped == m.st # "run" \/ ref.st \in {"undef", "fell"}

Step == ProgramMoves \/ MachineMoves
Next == Step \/ (Stopped /\ UNCHANGED vars)

\* The machine goes on as long as it can.
Spec == Init /\ [][Next]_vars /\ WF_vars(Step)

-----------------------------------------------------------------------------
Depth == Len(ref.stack)
Word(at) == IF at \in Addresses THEN m.mem[at] ELSE Undef

\* The bases (rbp) of the activations: each frame has the one before's.
Base ==
  LET base[k \in 1..Depth] == IF k = Depth THEN m.r["rbp"] ELSE Word(base[k + 1])
  IN  base

Home(l, base, n) ==
  IF n[1] = "[]" THEN base - l.arrs[n[2]] - W * n[3] ELSE base - l.slots[n]

\* The words a pending call has pushed, padding included.
Room(t) ==
  LET n == FunctionOf(Prog, t.fn).code[t.pc].args[3][2]
      extra == IF n > 6 THEN n - 6 ELSE 0
  IN  W * (extra + (extra % 2))

TypeOK ==
  /\ m.st \in {"run", "halt", "trap", "fault"}
  /\ m.st = "run" => m.pc \in DOMAIN Asms
  /\ ref.st \in {"run", "halt", "undef", "fell"}
  /\ \A x \in Registers : m.r[x] = Undef \/ m.r[x] \in -Half..(Half - 1)
  /\ \A k \in 1..Depth : ref.stack[k].pc \in 1..(Len(FunctionOf(Prog, ref.stack[k].fn).code) + 1)

\* No two names of a frame share a word that both need, in no activation: what
\* the program has in each variable, temp and array element is in its slot
\* (x86_64.py:214-236 and every store).
SlotsHold ==
  AtBoundary =>
    \A k \in 1..Depth :
      LET t == ref.stack[k]
      IN  \A n \in DOMAIN t.mem :
            t.mem[n] # Undef => Word(Home(Frame(t), Base[k], n)) = t.mem[n]

\* Frames lie one under the other, each with the return address and the saved
\* rbp above it and the pushed arguments between; rsp is at the bottom of the
\* newest: what a call pushes is popped after it and every prologue is undone
\* (x86_64.py:298-303, 539-551, 557-565).
FramesTile ==
  AtBoundary =>
    LET bottom(k) == Base[k] - FrameSize(Frame(ref.stack[k]))
    IN  /\ Base[1] = StackTop - 2 * W
        /\ m.r["rsp"] = bottom(Depth)
        /\ \A k \in 1..(Depth - 1) : Base[k + 1] = bottom(k) - Room(ref.stack[k]) - 2 * W

\* The stack is aligned to 16 bytes at every call, as the calling convention
\* the backend follows asks, at any depth and for any number of arguments
\* (x86_64.py:236, 540-542).
AlignedAtCalls ==
  m.st = "run" /\ Asms[m.pc].op = "call" => m.r["rsp"] % 16 = 0

\* The stack is the program's, frame by frame and word by word, and aligned.
StackHolds == TypeOK /\ FramesTile /\ SlotsHold /\ AlignedAtCalls

\* The processor's divide error stops the program only where the program
\* divides by zero or has no room for the quotient (x86_64.py:425-440).
TrapsAreDeserved ==
  m.st = "trap" =>
    LET ins == Current(Prog, ref)
        x == Top(ref).mem[ins.args[2]]
        y == Top(ref).mem[ins.args[3]]
    IN  ref.st = "run" /\ ins.op \in {"DIV", "MOD"} /\ (y = 0 \/ (x = -Half /\ y = -1))

\* The decimal numeral of a number, as mathematics has it.
Numeral(n) ==
  LET k == CHOOSE k \in 1..6 : Abs(n) < 10^k /\ (k = 1 \/ Abs(n) >= 10^(k - 1))
      digit(i) == <<"char", 48 + ((Abs(n) \div 10^(k - i)) % 10)>>
  IN  (IF n < 0 THEN <<<<"char", 45>>>> ELSE <<>>) \o [i \in 1..k |-> digit(i)]

\* Everything shown ends its line.
Rendered(out) ==
  LET text(e) == CASE e[1] = "int"  -> Numeral(e[2]) \o <<Newline>>
                   [] e[1] = "exit" -> <<e>>
                   [] OTHER -> <<e, Newline>>
  IN  FlattenSeq([k \in DOMAIN out |-> text(out[k])])

\* The exit status when main returns: what it returns, or 0.
Status ==
  LET r == Current(Prog, ref).args[1]
  IN  <<"exit", IF r = None THEN 0 ELSE Top(ref).mem[r]>>

\* The output is, byte for byte, what the program shows; the process ends with
\* the status the program gives it; nothing faults, and no more is read.
SameOutput ==
  /\ AtBoundary => m.out = Rendered(ref.out) /\ m.read = ref.used
  /\ m.st = "halt" =>
       /\ ref.st = "halt"
       /\ LET exited == ref.out # <<>> /\ ref.out[Len(ref.out)][1] = "exit"
          IN  m.out = Rendered(ref.out) \o (IF exited THEN <<>> ELSE <<Status>>)
  /\ m.st # "fault"

\* Every readInt answers the next of the numbers typed, whatever its sign, and
\* none is lost between two reads (x86_64.py:130-187).
ReadsInOrder ==
  /\ ref.st = "run" /\ m.st = "run" /\ m.pc = To - 1
  /\ Current(Prog, ref).op = "READ_INT"
  => m.r["rax"] = NextInput(ref, inputs)

\* The process says what the program says and hears what it hears.
SameInAndOut == SameOutput /\ ReadsInOrder

=============================================================================
