--------------------------- MODULE MachineLemmas ---------------------------
(***************************************************************************)
(* Facts about the machine that the proofs of the passes share, and what   *)
(* constant propagation makes of them.                                     *)
(***************************************************************************)
EXTENDS Lockstep, WellFoundedInduction, TLAPS

\* Wrapping yields a word.
LEMMA WrapWord == \A x \in Int : Wrap(x) \in Words
  BY HalfAssumption DEF Wrap, Words

\* The mark of a slot never written is no word.
LEMMA UndefNoWord == Undef \notin Words
  BY HalfAssumption DEF Undef, Words

\* Dividing, truncating towards zero, yields an integer.
LEMMA TruncInt == \A x, y \in Int : y # 0 => TruncDiv(x, y) \in Int
  BY DEF TruncDiv, Abs

\* The remainder of two words is a word.
LEMMA RemWord == \A x, y \in Words : y # 0 => TruncRem(x, y) \in Words
  BY HalfAssumption DEF TruncRem, Abs, Words

\* Truth values are words: this takes Half > 1.
LEMMA BitWord == \A b : Bit(b) \in Words
  BY HalfAssumption DEF Bit, Words

\* The result of every binary operation is a word.
LEMMA ArithWord ==
  ASSUME NEW op \in BinOps, NEW x \in Words, NEW y \in Words
  PROVE  Arith(op, x, y) \in Words
<1>1. x \in Int /\ y \in Int /\ -1 \in Words
  BY HalfAssumption DEF Words
<1>2. CASE op \in {"ADD", "SUB", "MUL"}
  <2>1. x + y \in Int /\ x - y \in Int /\ x * y \in Int
    BY <1>1
  <2>2. Wrap(x + y) \in Words /\ Wrap(x - y) \in Words /\ Wrap(x * y) \in Words
    BY <2>1, WrapWord
  <2> QED BY <1>2, <2>2 DEF Arith
<1>3. CASE op = "DIV"
  <2>1. y # 0 => Wrap(TruncDiv(x, y)) \in Words
    BY <1>1, TruncInt, WrapWord
  <2> QED BY <1>1, <1>3, <2>1 DEF Arith
<1>4. CASE op = "MOD"
  BY <1>4, RemWord DEF Arith
<1>5. CASE op \in {"LT", "LE", "GT", "GE", "EQ", "NE", "AND", "OR"}
  BY <1>5, BitWord DEF Arith
<1> QED BY <1>2, <1>3, <1>4, <1>5 DEF BinOps

\* The result of every unary operation is a word.
LEMMA UnaryWord ==
  ASSUME NEW op \in UnaryOps, NEW x \in Words
  PROVE  Unary(op, x) \in Words
<1>1. x \in Int BY HalfAssumption DEF Words
<1>2. -x \in Int /\ x + 1 \in Int /\ x - 1 \in Int BY <1>1
<1>3. Wrap(-x) \in Words /\ Wrap(x + 1) \in Words /\ Wrap(x - 1) \in Words
  BY <1>2, WrapWord
<1> QED BY <1>3, BitWord DEF Unary, UnaryOps

\* A temp or variable an instruction names has a slot in the frame.
LEMMA NamedSlot ==
  ASSUME NEW p, NEW params, NEW i \in DOMAIN p, NEW k \in DOMAIN p[i].args,
         p[i].args[k][1] \in {"%", "v"}
  PROVE  p[i].args[k] \in Names(p, params)
  BY DEF Names, Operands

\* The slots an instruction that is not stuck reads hold words.
LEMMA ReadsWords ==
  ASSUME NEW frame, NEW mem \in [frame -> Words \cup {Undef}],
         NEW ins, ~Stuck(mem, ins)
  PROVE  \A n \in Reads(mem, ins) : n \in frame /\ mem[n] \in Words
  BY DEF Stuck

\* Storing a word keeps the frame and the words in it.
LEMMA UpdateTyped ==
  ASSUME NEW frame, NEW mem \in [frame -> Words \cup {Undef}],
         NEW k, NEW v \in Words
  PROVE  [mem EXCEPT ![k] = v] \in [frame -> Words \cup {Undef}]
  OBVIOUS

\* What each operation does to the memory, one fact per operation.
LEMMA EffectOf ==
  ASSUME NEW mem, NEW ins, NEW in
  PROVE  LET o == ins.op  a == ins.args  e == Effect(mem, ins, in) IN
         /\ o = "CONST" => e = [mem EXCEPT ![a[1]] = Wrap(a[2][2])]
         /\ o \in {"LOAD", "STORE"} => e = [mem EXCEPT ![a[1]] = mem[a[2]]]
         /\ o = "LOAD_ARR" => e = [mem EXCEPT ![a[1]] = mem[Cell(a[2], mem[a[3]])]]
         /\ o = "STORE_ARR" => e = [mem EXCEPT ![Cell(a[1], mem[a[2]])] = mem[a[3]]]
         /\ o \in BinOps => e = [mem EXCEPT ![a[1]] = Arith(o, mem[a[2]], mem[a[3]])]
         /\ o \in UnaryOps => e = [mem EXCEPT ![a[1]] = Unary(o, mem[a[2]])]
         /\ o = "READ_INT" => e = [mem EXCEPT ![a[1]] = in]
         /\ o = "CALL" => e = IF a[1] # None THEN [mem EXCEPT ![a[1]] = in] ELSE mem
         /\ o \notin {"CONST", "LOAD", "STORE", "LOAD_ARR", "STORE_ARR", "READ_INT",
                      "CALL"} \cup BinOps \cup UnaryOps => e = mem
  BY DEF Effect, BinOps, UnaryOps

\* What each operation reads.
LEMMA ReadsOf ==
  ASSUME NEW mem, NEW ins
  PROVE  LET o == ins.op  a == ins.args  r == Reads(mem, ins) IN
         /\ o \in {"LOAD", "STORE"} => r = {a[2]}
         /\ o = "LOAD_ARR" => r = {a[3], Cell(a[2], mem[a[3]])}
         /\ o = "STORE_ARR" => r = {a[2], a[3]}
         /\ o \in BinOps => r = {a[2], a[3]}
         /\ o \in UnaryOps => r = {a[2]}
         /\ o \in {"JMP_IF", "JMP_IF_NOT", "PARAM", "EXIT"} => r = {a[1]}
         /\ o = "RET" => r = {a[1]} \ {None}
         /\ o = "PRINT" => r = {a[k] : k \in DOMAIN a}
         /\ o \in {"CONST", "READ_INT", "CALL", "ALLOC_ARRAY", "FUNC_ENTRY",
                   "LABEL", "JMP"} => r = {}
  BY DEF Reads, Used, BinOps, UnaryOps

\* The memory after an instruction that is not stuck keeps its type.
LEMMA EffectTyped ==
  ASSUME NEW frame, NEW mem \in [frame -> Words \cup {Undef}],
         NEW ins, WellShaped(ins), ~Stuck(mem, ins), NEW in \in Words
  PROVE  Effect(mem, ins, in) \in [frame -> Words \cup {Undef}]
<1> DEFINE o == ins.op  a == ins.args
<1>1. \A n \in Reads(mem, ins) : mem[n] \in Words
  BY ReadsWords
<1>2. CASE o = "CONST"
  <2>1. a \in Temps \X Consts
    BY <1>2 DEF WellShaped, ArgsFit
  <2>2. Wrap(a[2][2]) \in Words
    BY <2>1, WrapWord DEF Consts
  <2> QED BY <1>2, <2>2, EffectOf, UpdateTyped
<1>3. CASE o \in {"LOAD", "STORE"}
  BY <1>1, <1>3, ReadsOf, EffectOf, UpdateTyped
<1>4. CASE o = "LOAD_ARR"
  BY <1>1, <1>4, ReadsOf, EffectOf, UpdateTyped
<1>5. CASE o = "STORE_ARR"
  BY <1>1, <1>5, ReadsOf, EffectOf, UpdateTyped
<1>6. CASE o \in BinOps
  <2>1. Arith(o, mem[a[2]], mem[a[3]]) \in Words
    BY <1>1, <1>6, ReadsOf, ArithWord
  <2> QED BY <1>6, <2>1, EffectOf, UpdateTyped
<1>7. CASE o \in UnaryOps
  <2>1. Unary(o, mem[a[2]]) \in Words
    BY <1>1, <1>7, ReadsOf, UnaryWord
  <2> QED BY <1>7, <2>1, EffectOf, UpdateTyped
<1>8. CASE o \in {"READ_INT", "CALL"}
  BY <1>8, EffectOf, UpdateTyped
<1>9. CASE o \notin {"CONST", "LOAD", "STORE", "LOAD_ARR", "STORE_ARR",
                     "READ_INT", "CALL"} \cup BinOps \cup UnaryOps
  BY <1>9, EffectOf
<1> QED BY <1>2, <1>3, <1>4, <1>5, <1>6, <1>7, <1>8, <1>9

\* The label a branch names is at a position of the list.
LEMMA LabelThere ==
  ASSUME NEW p, NEW l, \E k \in DOMAIN p : p[k].op = "LABEL" /\ p[k].args[1] = l
  PROVE  /\ LabelAt(p, l) \in DOMAIN p
         /\ p[LabelAt(p, l)].op = "LABEL"
  BY DEF LabelAt

\* A record with the fields of a configuration.
IsRecord(x) ==
  x = [pc |-> x.pc, st |-> x.st, out |-> x.out, used |-> x.used, mem |-> x.mem]

\* The configuration after a data instruction, field by field.
LEMMA PerformIs ==
  ASSUME NEW x, NEW ins, NEW inputs
  PROVE  LET y == Perform(x, ins, inputs) IN
         /\ IsRecord(y)
         /\ y.pc = x.pc + 1
         /\ y.st = x.st
         /\ y.out = IF Shown(x.mem, ins) = <<>> THEN x.out
                    ELSE Append(x.out, Shown(x.mem, ins))
         /\ y.used = IF Consumes(ins) THEN x.used + 1 ELSE x.used
         /\ y.mem = Effect(x.mem, ins, NextInput(x, inputs))
  BY DEF IsRecord, Perform

\* Halting changes the status only.
LEMMA HaltIs ==
  ASSUME NEW x, IsRecord(x), NEW st
  PROVE  LET y == Halt(x, st) IN
         /\ IsRecord(y) /\ y.st = st
         /\ y.pc = x.pc /\ y.out = x.out /\ y.used = x.used /\ y.mem = x.mem
  BY DEF IsRecord, Halt

\* Jumping changes the position only.
LEMMA MoveIs ==
  ASSUME NEW x, IsRecord(x), NEW k
  PROVE  LET y == [x EXCEPT !.pc = k] IN
         /\ IsRecord(y) /\ y.pc = k
         /\ y.st = x.st /\ y.out = x.out /\ y.used = x.used /\ y.mem = x.mem
  BY DEF IsRecord

\* Which of these an instruction does: jump, halt or perform.
LEMMA ExecuteOf ==
  ASSUME NEW p, NEW x, NEW ins, NEW inputs
  PROVE  LET o == ins.op  a == ins.args  y == Execute(p, x, ins, inputs) IN
         /\ o = "JMP" => y = [x EXCEPT !.pc = LabelAt(p, a[1])]
         /\ o = "JMP_IF" => y = [x EXCEPT !.pc = IF x.mem[a[1]] # 0 THEN LabelAt(p, a[2])
                                                 ELSE x.pc + 1]
         /\ o = "JMP_IF_NOT" => y = [x EXCEPT !.pc = IF x.mem[a[1]] = 0 THEN LabelAt(p, a[2])
                                                     ELSE x.pc + 1]
         /\ o = "RET" => y = Halt(Perform(x, ins, inputs), "ret")
         /\ o = "EXIT" => y = Halt(Perform(x, ins, inputs), "exit")
         /\ o \notin Branches \cup {"RET", "EXIT"} => y = Perform(x, ins, inputs)
  BY DEF Execute, Goto, Branches

\* The environment answers with words.
LEMMA InputWord ==
  ASSUME NEW x, x.used \in Nat, NEW inputs \in Seq(Words), inputs # <<>>
  PROVE  NextInput(x, inputs) \in Words
<1>1. Len(inputs) \in Nat /\ Len(inputs) > 0 OBVIOUS
<1>2. 1 + (x.used % Len(inputs)) \in 1..Len(inputs) BY <1>1
<1> QED BY <1>2 DEF NextInput

\* A step of a list of well-shaped instructions whose branches land keeps the type of its
\* configuration.
LEMMA StepTyped ==
  ASSUME NEW p, Len(p) \in Nat, DOMAIN p = 1..Len(p), Lands(p),
         \A i \in DOMAIN p : WellShaped(p[i]),
         NEW frame, NEW x, IsConfig(x, Len(p), frame),
         NEW inputs \in Seq(Words), inputs # <<>>
  PROVE  IsConfig(StepOnce(p, x, inputs), Len(p), frame)
<1> DEFINE ins == p[x.pc]
<1>1. IsRecord(x) /\ x.pc \in 1..(Len(p) + 1) /\ x.used \in Nat /\ x.st \in Statuses
      /\ x.mem \in [frame -> Words \cup {Undef}]
  BY DEF IsConfig, IsRecord
<1>2. \A s \in Statuses : IsConfig(Halt(x, s), Len(p), frame)
  BY <1>1, HaltIs DEF IsConfig, IsRecord
<1>3. CASE x.pc > Len(p) \/ Stuck(x.mem, ins)
  BY <1>2, <1>3 DEF StepOnce, Statuses
<1>4. CASE x.pc \in DOMAIN p /\ ~Stuck(x.mem, ins)
  <2>1. StepOnce(p, x, inputs) = Execute(p, x, ins, inputs)
    BY <1>4 DEF StepOnce
  <2> DEFINE y == Perform(x, ins, inputs)
  <2>2. y.mem \in [frame -> Words \cup {Undef}]
    BY <1>1, <1>4, InputWord, EffectTyped, PerformIs
  <2>3. y.pc \in 1..(Len(p) + 1) /\ y.used \in Nat /\ y.st \in Statuses /\ IsRecord(y)
    BY <1>1, <1>4, PerformIs
  <2>4. IsConfig(y, Len(p), frame)
    BY <2>2, <2>3 DEF IsConfig, IsRecord
  <2>5. \A s \in Statuses : IsConfig(Halt(y, s), Len(p), frame)
    BY <2>2, <2>3, HaltIs DEF IsConfig, IsRecord
  <2>6. \A k \in 1..(Len(p) + 1) : IsConfig([x EXCEPT !.pc = k], Len(p), frame)
    BY <1>1, MoveIs DEF IsConfig, IsRecord
  <2>7. CASE ins.op \in Branches
    <3>1. LabelAt(p, BranchTarget(ins)) \in 1..(Len(p) + 1)
      BY <1>4, <2>7, LabelThere DEF Lands
    <3>2. x.pc + 1 \in 1..(Len(p) + 1)
      BY <1>1, <1>4
    <3> QED BY <1>1, <2>1, <2>6, <2>7, <3>1, <3>2, ExecuteOf DEF BranchTarget, Branches
  <2>8. CASE ins.op \in {"RET", "EXIT"}
    BY <1>1, <2>1, <2>5, <2>8, ExecuteOf DEF Statuses
  <2>9. CASE ins.op \notin Branches \cup {"RET", "EXIT"}
    BY <1>1, <2>1, <2>4, <2>9, ExecuteOf
  <2> QED BY <2>7, <2>8, <2>9
<1> QED BY <1>1, <1>3, <1>4

\* A run that goes on at an instruction other than a label got there from the
\* one before it.
LEMMA FallThrough ==
  ASSUME NEW p, Len(p) \in Nat, DOMAIN p = 1..Len(p), Lands(p),
         NEW frame, NEW x, IsConfig(x, Len(p), frame),
         NEW inputs \in Seq(Words), inputs # <<>>,
         NEW y, y = StepOnce(p, x, inputs),
         y.st = "run", y.pc \in DOMAIN p, p[y.pc].op # "LABEL"
  PROVE  /\ x.pc \in DOMAIN p
         /\ ~Stuck(x.mem, p[x.pc])
         /\ y.pc = x.pc + 1
         /\ \E in \in Words : y.mem = Effect(x.mem, p[x.pc], in)
<1> DEFINE ins == p[x.pc]
<1>1. IsRecord(x) /\ x.pc \in 1..(Len(p) + 1) /\ x.used \in Nat
  BY DEF IsConfig, IsRecord
<1>2. ~(x.pc > Len(p)) /\ ~Stuck(x.mem, ins)
  BY <1>1, HaltIs DEF StepOnce
<1>3. x.pc \in DOMAIN p /\ y = Execute(p, x, ins, inputs)
  BY <1>1, <1>2 DEF StepOnce
<1>4. NextInput(x, inputs) \in Words
  BY <1>1, InputWord
<1>5. CASE ins.op \in Branches
  <2>1. p[LabelAt(p, BranchTarget(ins))].op = "LABEL"
    BY <1>3, <1>5, LabelThere DEF Lands
  <2>2. y.mem = x.mem /\ y.pc \in {x.pc + 1, LabelAt(p, BranchTarget(ins))}
    <3>1. \E k \in {x.pc + 1, LabelAt(p, BranchTarget(ins))} : y = [x EXCEPT !.pc = k]
      BY <1>3, <1>5, ExecuteOf DEF BranchTarget, Branches
    <3> QED BY <1>1, <3>1, MoveIs
  <2>3. Effect(x.mem, ins, NextInput(x, inputs)) = x.mem
    BY <1>5, EffectOf DEF Branches, BinOps, UnaryOps
  <2> QED BY <1>2, <1>3, <1>4, <2>1, <2>2, <2>3
<1>6. CASE ins.op \in {"RET", "EXIT"}
  BY <1>3, <1>6, ExecuteOf, PerformIs, HaltIs
<1>7. CASE ins.op \notin Branches \cup {"RET", "EXIT"}
  <2>1. y = Perform(x, ins, inputs)
    BY <1>3, <1>7, ExecuteOf
  <2> QED BY <1>2, <1>3, <1>4, <2>1, PerformIs
<1> QED BY <1>5, <1>6, <1>7

\* Temps, variables and array cells are different slots.
LEMMA Distinct ==
  /\ \A t \in Temps : IsTemp(t) /\ t \notin Vars
  /\ \A x \in Vars : ~IsTemp(x) /\ x \notin Temps
  /\ \A b, k : ~IsTemp(Cell(b, k)) /\ Cell(b, k) \notin Temps /\ Cell(b, k) \notin Vars
  BY DEF Temps, Vars, IsTemp, Cell

\* A dictionary after a key is removed.
LEMMA PopIs ==
  ASSUME NEW f, NEW k
  PROVE  /\ DOMAIN Pop(f, k) = DOMAIN f \ {k}
         /\ \A n \in DOMAIN Pop(f, k) : Pop(f, k)[n] = f[n]
  BY DEF Pop

-----------------------------------------------------------------------------
(***************************************************************************)
(* Two lists in lock step.                                                 *)
(***************************************************************************)

\* Where an instruction sends control: on, to a label, or out.
Going(mem, ins) ==
  LET o == ins.op  a == ins.args
  IN CASE o = "JMP" -> <<"to", a[1]>>
       [] o = "JMP_IF"     -> IF mem[a[1]] # 0 THEN <<"to", a[2]>> ELSE <<"on", None>>
       [] o = "JMP_IF_NOT" -> IF mem[a[1]] = 0 THEN <<"to", a[2]>> ELSE <<"on", None>>
       [] o \in {"RET", "EXIT"} -> <<IF o = "RET" THEN "ret" ELSE "exit", None>>
       [] OTHER -> <<"on", None>>

LEMMA GoingOf ==
  ASSUME NEW mem, NEW ins
  PROVE  LET o == ins.op  a == ins.args  g == Going(mem, ins) IN
         /\ o = "JMP" => g = <<"to", a[1]>>
         /\ o = "JMP_IF" => g = IF mem[a[1]] # 0 THEN <<"to", a[2]>> ELSE <<"on", None>>
         /\ o = "JMP_IF_NOT" => g = IF mem[a[1]] = 0 THEN <<"to", a[2]>> ELSE <<"on", None>>
         /\ o = "RET" => g = <<"ret", None>>
         /\ o = "EXIT" => g = <<"exit", None>>
         /\ o \notin Branches \cup {"RET", "EXIT"} => g = <<"on", None>>
  BY DEF Going, Branches

\* A branch shows nothing, asks nothing and writes nothing.
LEMMA BranchQuiet ==
  ASSUME NEW mem, NEW ins, ins.op \in Branches, NEW in
  PROVE  Shown(mem, ins) = <<>> /\ ~Consumes(ins) /\ Effect(mem, ins, in) = mem
<1>1. Effect(mem, ins, in) = mem
  BY EffectOf DEF Branches, BinOps, UnaryOps
<1>2. Shown(mem, ins) = <<>> /\ ~Consumes(ins)
  BY DEF Shown, Consumes, Branches
<1> QED BY <1>1, <1>2

\* What an instruction that is not stuck does, whichever it is.
LEMMA StepIs ==
  ASSUME NEW p, NEW x, IsRecord(x), x.st = "run", NEW inputs, ~(x.pc > Len(p)),
         ~Stuck(x.mem, p[x.pc])
  PROVE  LET ins == p[x.pc]  y == StepOnce(p, x, inputs)  g == Going(x.mem, ins) IN
         /\ y.st = IF g[1] \in {"ret", "exit"} THEN g[1] ELSE "run"
         /\ y.pc = IF g[1] = "to" THEN LabelAt(p, g[2]) ELSE x.pc + 1
         /\ y.out = IF Shown(x.mem, ins) = <<>> THEN x.out
                    ELSE Append(x.out, Shown(x.mem, ins))
         /\ y.used = IF Consumes(ins) THEN x.used + 1 ELSE x.used
         /\ y.mem = Effect(x.mem, ins, NextInput(x, inputs))
<1> DEFINE ins == p[x.pc]  y == StepOnce(p, x, inputs)  g == Going(x.mem, ins)
           q == Perform(x, ins, inputs)
<1>1. y = Execute(p, x, ins, inputs)
  BY DEF StepOnce
<1>2. CASE ins.op \in Branches
  <2>1. /\ Shown(x.mem, ins) = <<>>
        /\ ~Consumes(ins)
        /\ Effect(x.mem, ins, NextInput(x, inputs)) = x.mem
    BY <1>2, BranchQuiet
  <2>2. /\ g[1] \in {"to", "on"}
        /\ y = [x EXCEPT !.pc = IF g[1] = "to" THEN LabelAt(p, g[2]) ELSE x.pc + 1]
    <3>1. CASE ins.op = "JMP"
      <4>1. g[1] = "to" /\ g[2] = ins.args[1]
        BY <3>1, GoingOf
      <4>2. y = [x EXCEPT !.pc = LabelAt(p, ins.args[1])]
        BY <1>1, <3>1, ExecuteOf
      <4> QED BY <4>1, <4>2
    <3>2. CASE ins.op = "JMP_IF"
      <4>1. IF x.mem[ins.args[1]] # 0 THEN g[1] = "to" /\ g[2] = ins.args[2]
            ELSE g[1] = "on"
        BY <3>2, GoingOf
      <4>2. y = [x EXCEPT !.pc = IF x.mem[ins.args[1]] # 0 THEN LabelAt(p, ins.args[2])
                                 ELSE x.pc + 1]
        BY <1>1, <3>2, ExecuteOf
      <4> HIDE DEF g, y, ins
      <4> QED BY <4>1, <4>2
    <3>3. CASE ins.op = "JMP_IF_NOT"
      <4>1. IF x.mem[ins.args[1]] = 0 THEN g[1] = "to" /\ g[2] = ins.args[2]
            ELSE g[1] = "on"
        BY <3>3, GoingOf
      <4>2. y = [x EXCEPT !.pc = IF x.mem[ins.args[1]] = 0 THEN LabelAt(p, ins.args[2])
                                 ELSE x.pc + 1]
        BY <1>1, <3>3, ExecuteOf
      <4> HIDE DEF g, y, ins
      <4> QED BY <4>1, <4>2
    <3> QED BY <1>2, <3>1, <3>2, <3>3 DEF Branches
  <2> HIDE DEF y, g, ins
  <2>3. y.pc = (IF g[1] = "to" THEN LabelAt(p, g[2]) ELSE x.pc + 1) /\ g[1] \in {"to", "on"}
    BY <2>2, MoveIs
  <2>4. y.st = x.st /\ y.out = x.out /\ y.used = x.used /\ y.mem = x.mem
    BY <2>2, MoveIs
  <2> QED BY <2>1, <2>3, <2>4 DEF y, g, ins
<1>3. CASE ins.op \in {"RET", "EXIT"}
  <2>1. g[1] = (IF ins.op = "RET" THEN "ret" ELSE "exit")
    BY <1>3, GoingOf
  <2>2. y = Halt(q, g[1])
    BY <1>1, <1>3, <2>1, ExecuteOf
  <2>3. g[1] \in {"ret", "exit"} /\ g[1] # "to"
    BY <2>1
  <2>4. IsRecord(q) BY PerformIs
  <2>5. /\ q.pc = x.pc + 1
        /\ q.out = IF Shown(x.mem, ins) = <<>> THEN x.out
                   ELSE Append(x.out, Shown(x.mem, ins))
        /\ q.used = IF Consumes(ins) THEN x.used + 1 ELSE x.used
        /\ q.mem = Effect(x.mem, ins, NextInput(x, inputs))
    BY PerformIs
  <2> HIDE DEF g, q, y
  <2>6. y.st = g[1] /\ y.pc = q.pc /\ y.out = q.out /\ y.used = q.used /\ y.mem = q.mem
    BY <2>2, <2>4, HaltIs
  <2> QED BY <2>3, <2>5, <2>6 DEF y, g
<1>4. CASE ins.op \notin Branches \cup {"RET", "EXIT"}
  <2>1. y = q
    BY <1>1, <1>4, ExecuteOf
  <2>2. g[1] = "on"
    BY <1>4, GoingOf
  <2> HIDE DEF g
  <2> QED BY <2>1, <2>2, PerformIs DEF g
<1> QED BY <1>2, <1>3, <1>4

\* On memory y, instruction j shows, asks and goes as i does on memory x.
Mimics(j, y, i, x) ==
  /\ ~Stuck(y, j)
  /\ Shown(y, j) = Shown(x, i)
  /\ Consumes(j) = Consumes(i)
  /\ Going(y, j) = Going(x, i)

-----------------------------------------------------------------------------
\* The form of a run, as far as the proofs need it.
LEMMA RunIs ==
  ASSUME NEW r \in Runs
  PROVE  /\ r.pass \in LockstepPasses
         /\ Len(r.code) \in Nat /\ DOMAIN r.code = 1..Len(r.code)
         /\ \A i \in DOMAIN r.code : WellShaped(r.code[i])
         /\ Lands(r.code)
         /\ r.pass \in {"cp", "cse"} => DisciplinedTemps(r.code)
         /\ r.inputs \in Seq(Words) /\ r.inputs # <<>>
         /\ r.params \subseteq Vars
         /\ r.maps[1] = KnownFirst(r.pass, r.code)
         /\ \A i \in DOMAIN r.code : r.maps[i + 1] = KnownNext(r.pass, r.maps[i], r.code[i])
         /\ Len(r.target) \in Nat /\ DOMAIN r.target = 1..Len(r.target)
         /\ r.place[1] = 1 /\ r.place[Len(r.code) + 1] = Len(r.target) + 1
<1>1. RunOf(r)
  BY RunsAssumption
<1>2. r.code \in Seq({r.code[i] : i \in DOMAIN r.code})
  BY <1>1 DEF RunOf, WellFormed
<1>3. Len(r.code) \in Nat /\ DOMAIN r.code = 1..Len(r.code)
  BY <1>2
<1>4. r.target \in Seq({r.target[k] : k \in DOMAIN r.target})
  BY <1>1 DEF RunOf
<1>5. Len(r.target) \in Nat /\ DOMAIN r.target = 1..Len(r.target)
  BY <1>4
<1> QED BY <1>1, <1>3, <1>5 DEF RunOf, WellFormed

\* Where what the pass emits stands in its target.
LEMMA PlaceIs ==
  ASSUME NEW r \in Runs
  PROVE  /\ \A i \in 1..(Len(r.code) + 1) : r.place[i] \in 1..(Len(r.target) + 1)
         /\ \A i \in DOMAIN r.code :
              /\ Skips(r, i) => r.place[i + 1] = r.place[i]
              /\ ~Skips(r, i) => /\ r.place[i] \in DOMAIN r.target
                                /\ r.place[i + 1] = r.place[i] + 1
                                /\ EmittedAt(r, i) = <<r.target[r.place[i]]>>
         /\ \A k \in DOMAIN r.target : \E i \in DOMAIN r.code : ~Skips(r, i) /\ r.place[i] = k
<1>1. RunOf(r) /\ DOMAIN r.code = 1..Len(r.code) /\ Len(r.code) \in Nat /\ Len(r.target) \in Nat
      /\ DOMAIN r.target = 1..Len(r.target)
  BY RunsAssumption, RunIs
<1>2. \A i \in 1..(Len(r.code) + 1) : r.place[i] \in 1..(Len(r.target) + 1)
  BY <1>1 DEF RunOf
<1>3. ASSUME NEW i \in DOMAIN r.code
      PROVE  /\ Skips(r, i) => r.place[i + 1] = r.place[i]
             /\ ~Skips(r, i) => /\ r.place[i] \in DOMAIN r.target
                               /\ r.place[i + 1] = r.place[i] + 1
                               /\ EmittedAt(r, i) = <<r.target[r.place[i]]>>
  <2>1. r.place[i + 1] = r.place[i] + Len(EmittedAt(r, i))
    BY <1>1 DEF RunOf
  <2>2. r.place[i] \in 1..(Len(r.target) + 1) /\ r.place[i + 1] \in 1..(Len(r.target) + 1)
    BY <1>1, <1>2
  <2>3. CASE Skips(r, i)
    <3>1. Len(EmittedAt(r, i)) = 0
      BY <2>3 DEF Skips
    <3> QED BY <2>1, <2>2, <2>3, <3>1
  <2>4. CASE ~Skips(r, i)
    <3>1. EmittedAt(r, i) = <<r.target[r.place[i]]>>
      BY <1>1, <2>4 DEF RunOf
    <3>2. Len(EmittedAt(r, i)) = 1
      BY <3>1
    <3> QED BY <1>1, <2>1, <2>2, <2>4, <3>1, <3>2
  <2> QED BY <2>3, <2>4
<1> QED BY <1>1, <1>2, <1>3 DEF RunOf

\* The instruction emitted for the i-th.
Made(r, i) == r.target[r.place[i]]

\* What every pass keeps: it drops computations only, leaves labels and where
\* branches go alone, and makes instructions of the right shape.
EmitsAlike(r) ==
  \A i \in DOMAIN r.code :
    /\ Skips(r, i) => r.code[i].op \in Pure
    /\ ~Skips(r, i) =>
         /\ WellShaped(Made(r, i))
         /\ Made(r, i).op # r.code[i].op =>
              /\ Made(r, i).op \notin Branches \cup {"LABEL"}
              /\ r.code[i].op \notin Branches \cup {"LABEL"}
         /\ r.code[i].op \in {"LABEL", "JMP"} => Made(r, i).args[1] = r.code[i].args[1]
         /\ r.code[i].op \in Branches \ {"JMP"} => Made(r, i).args[2] = r.code[i].args[2]

\* A label stands in the target where it stood in the code.
LEMMA LabelKept ==
  ASSUME NEW r \in Runs, EmitsAlike(r), NEW l,
         \E k \in DOMAIN r.code : r.code[k].op = "LABEL" /\ r.code[k].args[1] = l
  PROVE  /\ LabelAt(r.code, l) \in DOMAIN r.code
         /\ r.code[LabelAt(r.code, l)].op = "LABEL"
         /\ LabelAt(r.target, l) = r.place[LabelAt(r.code, l)]
<1> DEFINE n == LabelAt(r.code, l)  isLabel(ins) == ins.op = "LABEL" /\ ins.args[1] = l
<1>1. n \in DOMAIN r.code /\ isLabel(r.code[n])
  BY DEF LabelAt
<1>2. ~Skips(r, n) /\ isLabel(Made(r, n)) /\ r.place[n] \in DOMAIN r.target
  BY <1>1, PlaceIs DEF EmitsAlike, Pure, BinOps, UnaryOps
<1>3. ASSUME NEW k \in DOMAIN r.target, isLabel(r.target[k])
      PROVE  k = r.place[n]
  <2>1. PICK i \in DOMAIN r.code : ~Skips(r, i) /\ r.place[i] = k
    BY <1>3, PlaceIs
  <2>2. isLabel(r.code[i])
    BY <1>3, <2>1 DEF EmitsAlike, Made
  <2>3. r.code[i] = r.code[n]
    <3>1. WellShaped(r.code[i]) /\ WellShaped(r.code[n])
      BY <1>1, RunIs
    <3>2. r.code[i].args \in [1..1 -> Labels] /\ r.code[n].args \in [1..1 -> Labels]
      BY <1>1, <2>2, <3>1 DEF WellShaped, ArgsFit
    <3>3. r.code[i].args = r.code[n].args
      BY <1>1, <2>2, <3>2
    <3> QED BY <1>1, <2>2, <3>1, <3>3 DEF WellShaped
  <2>4. i = n
    BY <1>1, <2>2, <2>3, RunsAssumption DEF RunOf
  <2> QED BY <2>1, <2>4
<1>4. LabelAt(r.target, l) = r.place[n]
  BY <1>2, <1>3 DEF LabelAt, Made
<1> QED BY <1>1, <1>4

\* The target is a list that can be executed, too.
LEMMA TargetFormed ==
  ASSUME NEW r \in Runs, EmitsAlike(r)
  PROVE  (\A k \in DOMAIN r.target : WellShaped(r.target[k])) /\ Lands(r.target)
<1>1. ASSUME NEW k \in DOMAIN r.target
      PROVE  WellShaped(r.target[k])
  BY PlaceIs DEF EmitsAlike, Made
<1>2. ASSUME NEW k \in DOMAIN r.target, r.target[k].op \in Branches
      PROVE  \E n \in DOMAIN r.target : /\ r.target[n].op = "LABEL"
                                        /\ r.target[n].args[1] = BranchTarget(r.target[k])
  <2>1. PICK i \in DOMAIN r.code : ~Skips(r, i) /\ r.place[i] = k
    BY <1>2, PlaceIs
  <2>2. r.code[i].op = r.target[k].op /\ BranchTarget(r.code[i]) = BranchTarget(r.target[k])
    BY <1>2, <2>1 DEF EmitsAlike, Made, BranchTarget, Branches
  <2>3. PICK n \in DOMAIN r.code : /\ r.code[n].op = "LABEL"
                                   /\ r.code[n].args[1] = BranchTarget(r.target[k])
    BY <1>2, <2>1, <2>2, RunIs DEF Lands
  <2>4. ~Skips(r, n) /\ Made(r, n).op = "LABEL" /\ Made(r, n).args[1] = r.code[n].args[1]
    BY <2>3 DEF EmitsAlike, Pure, BinOps, UnaryOps
  <2> QED BY <2>3, <2>4, PlaceIs DEF Made
<1> QED BY <1>1, <1>2 DEF Lands

\* Two configurations in step, one in the code and one in its target.
InStep(r, x, y) ==
  y.pc = r.place[x.pc] /\ y.st = x.st /\ y.out = x.out /\ y.used = x.used

\* Where an instruction sends control is where its label is, if it branches.
LEMMA GoesToLabel ==
  ASSUME NEW mem, NEW ins, Going(mem, ins)[1] = "to"
  PROVE  ins.op \in Branches /\ Going(mem, ins)[2] = BranchTarget(ins)
<1>1. ins.op \in Branches \cup {"RET", "EXIT"}
  BY GoingOf
<1>2. ins.op \notin {"RET", "EXIT"}
  BY GoingOf
<1>3. ins.op \in Branches
  BY <1>1, <1>2
<1>4. CASE ins.op = "JMP"
  <2>1. Going(mem, ins) = <<"to", ins.args[1]>>
    BY <1>4, GoingOf
  <2> QED BY <1>3, <1>4, <2>1 DEF BranchTarget
<1>5. CASE ins.op = "JMP_IF"
  <2>1. Going(mem, ins) = IF mem[ins.args[1]] # 0 THEN <<"to", ins.args[2]>> ELSE <<"on", None>>
    BY <1>5, GoingOf
  <2> QED BY <1>3, <1>5, <2>1 DEF BranchTarget
<1>6. CASE ins.op = "JMP_IF_NOT"
  <2>1. Going(mem, ins) = IF mem[ins.args[1]] = 0 THEN <<"to", ins.args[2]>> ELSE <<"on", None>>
    BY <1>6, GoingOf
  <2> QED BY <1>3, <1>6, <2>1 DEF BranchTarget
<1> QED BY <1>3, <1>4, <1>5, <1>6 DEF Branches

\* An instruction that mimics another keeps the two in step.
LEMMA Together ==
  ASSUME NEW r \in Runs, EmitsAlike(r),
         NEW x, IsRecord(x), x.st = "run", x.pc \in DOMAIN r.code,
         NEW y, IsRecord(y), InStep(r, x, y),
         ~Skips(r, x.pc), ~Stuck(x.mem, r.code[x.pc]),
         Mimics(Made(r, x.pc), y.mem, r.code[x.pc], x.mem)
  PROVE  LET xx == StepOnce(r.code, x, r.inputs)  yy == StepOnce(r.target, y, r.inputs) IN
         /\ xx.st # "undef" /\ InStep(r, xx, yy)
         /\ xx.mem = Effect(x.mem, r.code[x.pc], NextInput(x, r.inputs))
         /\ yy.mem = Effect(y.mem, Made(r, x.pc), NextInput(x, r.inputs))
<1> DEFINE i == x.pc  ins == r.code[i]  jns == Made(r, i)
           xx == StepOnce(r.code, x, r.inputs)  yy == StepOnce(r.target, y, r.inputs)
           g == Going(x.mem, ins)
<1>1. /\ y.pc = r.place[i] /\ y.st = "run" /\ r.place[i] \in DOMAIN r.target
      /\ r.place[i + 1] = r.place[i] + 1
      /\ ~(x.pc > Len(r.code)) /\ ~(y.pc > Len(r.target))
      /\ r.target[y.pc] = jns
  <2>1. Len(r.code) \in Nat /\ DOMAIN r.code = 1..Len(r.code)
    BY RunIs
  <2>2. Len(r.target) \in Nat /\ DOMAIN r.target = 1..Len(r.target)
    BY RunIs
  <2>3. r.place[i] \in DOMAIN r.target /\ r.place[i + 1] = r.place[i] + 1
    BY PlaceIs
  <2>4. y.pc = r.place[i] /\ y.st = "run"
    BY DEF InStep
  <2> QED BY <2>1, <2>2, <2>3, <2>4 DEF Made
<1>2. NextInput(y, r.inputs) = NextInput(x, r.inputs)
  BY DEF InStep, NextInput
<1>3. /\ xx.st = IF g[1] \in {"ret", "exit"} THEN g[1] ELSE "run"
      /\ xx.pc = IF g[1] = "to" THEN LabelAt(r.code, g[2]) ELSE i + 1
      /\ xx.out = IF Shown(x.mem, ins) = <<>> THEN x.out
                  ELSE Append(x.out, Shown(x.mem, ins))
      /\ xx.used = IF Consumes(ins) THEN x.used + 1 ELSE x.used
      /\ xx.mem = Effect(x.mem, ins, NextInput(x, r.inputs))
  BY <1>1, StepIs
<1>4. /\ yy.st = IF g[1] \in {"ret", "exit"} THEN g[1] ELSE "run"
      /\ yy.pc = IF g[1] = "to" THEN LabelAt(r.target, g[2]) ELSE y.pc + 1
      /\ yy.out = IF Shown(x.mem, ins) = <<>> THEN y.out
                  ELSE Append(y.out, Shown(x.mem, ins))
      /\ yy.used = IF Consumes(ins) THEN y.used + 1 ELSE y.used
      /\ yy.mem = Effect(y.mem, jns, NextInput(x, r.inputs))
  <2>1. /\ ~Stuck(y.mem, jns) /\ Shown(y.mem, jns) = Shown(x.mem, ins)
        /\ Consumes(jns) = Consumes(ins) /\ Going(y.mem, jns) = g
    BY DEF Mimics
  <2> HIDE DEF ins, jns, g
  <2> QED BY <1>1, <1>2, <2>1, StepIs
<1>5. xx.st = yy.st /\ xx.out = yy.out /\ xx.used = yy.used /\ xx.st # "undef"
  <2>1. y.out = x.out /\ y.used = x.used
    BY DEF InStep
  <2> HIDE DEF ins, jns, g, xx, yy
  <2> QED BY <1>3, <1>4, <2>1
<1>6. yy.pc = r.place[xx.pc]
  <2>1. CASE g[1] = "to"
    <3>1. ins.op \in Branches /\ g[2] = BranchTarget(ins)
      BY <2>1, GoesToLabel
    <3>2. \E k \in DOMAIN r.code : r.code[k].op = "LABEL" /\ r.code[k].args[1] = g[2]
      BY <3>1, RunIs DEF Lands
    <3>3. LabelAt(r.target, g[2]) = r.place[LabelAt(r.code, g[2])]
      BY <3>2, LabelKept
    <3> HIDE DEF ins, jns, g, xx, yy
    <3> QED BY <1>3, <1>4, <2>1, <3>3
  <2>2. CASE g[1] # "to"
    <3> HIDE DEF ins, jns, g, xx, yy
    <3> QED BY <1>1, <1>3, <1>4, <2>2
  <2> QED BY <2>1, <2>2
<1>7. InStep(r, xx, yy)
  <2> HIDE DEF xx, yy
  <2> QED BY <1>5, <1>6 DEF InStep
<1> QED BY <1>3, <1>4, <1>5, <1>7

\* Operations that show nothing, ask nothing and go on.
Quiet == Pure \cup {"STORE", "STORE_ARR", "ALLOC_ARRAY", "FUNC_ENTRY", "LABEL"}

LEMMA QuietIs ==
  ASSUME NEW mem, NEW ins, ins.op \in Quiet
  PROVE  Shown(mem, ins) = <<>> /\ ~Consumes(ins) /\ Going(mem, ins) = <<"on", None>>
<1>1. Going(mem, ins) = <<"on", None>>
  BY GoingOf DEF Quiet, Pure, BinOps, UnaryOps, Branches
<1>2. Shown(mem, ins) = <<>> /\ ~Consumes(ins)
  BY DEF Shown, Consumes, Quiet, Pure, BinOps, UnaryOps
<1> QED BY <1>1, <1>2

\* While the code executes an instruction the pass dropped, its target waits.
LEMMA Waits ==
  ASSUME NEW r \in Runs, EmitsAlike(r),
         NEW x, IsRecord(x), x.st = "run", x.pc \in DOMAIN r.code,
         NEW y, IsRecord(y), InStep(r, x, y),
         Skips(r, x.pc), ~Stuck(x.mem, r.code[x.pc])
  PROVE  LET xx == StepOnce(r.code, x, r.inputs) IN
         /\ xx.st = "run" /\ xx.pc = x.pc + 1 /\ InStep(r, xx, y)
         /\ xx.mem = Effect(x.mem, r.code[x.pc], NextInput(x, r.inputs))
<1> DEFINE ins == r.code[x.pc]  xx == StepOnce(r.code, x, r.inputs)
           g == Going(x.mem, ins)
<1>1. ~(x.pc > Len(r.code)) /\ ins.op \in Pure /\ r.place[x.pc + 1] = r.place[x.pc]
  BY RunIs, PlaceIs DEF EmitsAlike
<1>2. Shown(x.mem, ins) = <<>> /\ ~Consumes(ins) /\ g = <<"on", None>>
  BY <1>1, QuietIs DEF Quiet
<1>3. /\ xx.st = "run" /\ xx.pc = x.pc + 1 /\ xx.out = x.out /\ xx.used = x.used
      /\ xx.mem = Effect(x.mem, ins, NextInput(x, r.inputs))
  <2>1. /\ xx.st = IF g[1] \in {"ret", "exit"} THEN g[1] ELSE "run"
        /\ xx.pc = IF g[1] = "to" THEN LabelAt(r.code, g[2]) ELSE x.pc + 1
        /\ xx.out = IF Shown(x.mem, ins) = <<>> THEN x.out
                    ELSE Append(x.out, Shown(x.mem, ins))
        /\ xx.used = IF Consumes(ins) THEN x.used + 1 ELSE x.used
        /\ xx.mem = Effect(x.mem, ins, NextInput(x, r.inputs))
    BY <1>1, StepIs
  <2> HIDE DEF xx, g, ins
  <2> QED BY <1>2, <2>1
<1>4. InStep(r, xx, y)
  <2> HIDE DEF xx
  <2> QED BY <1>1, <1>3 DEF InStep
<1> QED BY <1>3, <1>4

-----------------------------------------------------------------------------
(***************************************************************************)
(* The same operation with other temps.                                    *)
(***************************************************************************)

\* No operand but a temp is taken for one.
LEMMA NoTemps ==
  /\ ~IsTemp(None)
  /\ \A s \in Vars \cup Labels \cup Funs \cup Counts \cup Consts : ~IsTemp(s)
<1>1. ~IsTemp(None)
  BY Zenon DEF IsTemp, None
<1>2. \A s \in Vars \cup Labels \cup Funs \cup Counts \cup Consts : ~IsTemp(s)
  BY DEF IsTemp, Vars, Labels, Funs, Counts, Consts
<1> QED BY <1>1, <1>2

\* The temps each operation defines and reads.
LEMMA TempsAre ==
  ASSUME NEW ins, WellShaped(ins)
  PROVE  LET o == ins.op  a == ins.args  def == DefinedTemps(ins)  use == UsedOf(ins) IN
         /\ o \in {"CONST", "LOAD", "READ_INT"} => def = {a[1]} /\ use = {}
         /\ o = "STORE" => def = {} /\ use = {a[2]}
         /\ o = "LOAD_ARR" => def = {a[1]} /\ use = {a[3]}
         /\ o = "STORE_ARR" => def = {} /\ use = {a[2], a[3]}
         /\ o \in BinOps => def = {a[1]} /\ use = {a[2], a[3]}
         /\ o \in UnaryOps => def = {a[1]} /\ use = {a[2]}
         /\ o \in {"JMP_IF", "JMP_IF_NOT", "PARAM", "EXIT"} => def = {} /\ use = {a[1]}
         /\ o = "RET" => def = {} /\ use = {a[1]} \ {None}
         /\ o = "PRINT" => def = {} /\ use = {a[k] : k \in DOMAIN a}
         /\ o = "CALL" => def = {a[1]} \ {None} /\ use = {}
         /\ o \in {"ALLOC_ARRAY", "FUNC_ENTRY", "LABEL", "JMP"} => def = {} /\ use = {}
<1> DEFINE o == ins.op  a == ins.args
<1>1. ArgsFit(o, a)
  BY DEF WellShaped
<1>2. CASE o \in {"CONST", "LOAD", "READ_INT"}
  BY <1>1, <1>2, NoTemps, Distinct DEF ArgsFit, DefinedTemps, UsedOf, Defined, Used, BinOps, UnaryOps
<1>3. CASE o \in {"STORE", "LOAD_ARR", "STORE_ARR"}
  BY <1>1, <1>3, NoTemps, Distinct DEF ArgsFit, DefinedTemps, UsedOf, Defined, Used, BinOps, UnaryOps
<1>4. CASE o \in BinOps \cup UnaryOps
  BY <1>1, <1>4, NoTemps, Distinct DEF ArgsFit, DefinedTemps, UsedOf, Defined, Used, BinOps, UnaryOps
<1>5. CASE o \in {"JMP_IF", "JMP_IF_NOT", "PARAM", "EXIT"}
  BY <1>1, <1>5, NoTemps, Distinct DEF ArgsFit, DefinedTemps, UsedOf, Defined, Used, BinOps, UnaryOps
<1>6. CASE o \in {"RET", "CALL"}
  BY <1>1, <1>6, NoTemps, Distinct DEF ArgsFit, DefinedTemps, UsedOf, Defined, Used, BinOps, UnaryOps
<1>7. CASE o = "PRINT"
  BY <1>1, <1>7, NoTemps, Distinct DEF ArgsFit, DefinedTemps, UsedOf, Defined, Used, BinOps, UnaryOps
<1>8. CASE o \in {"ALLOC_ARRAY", "FUNC_ENTRY", "LABEL", "JMP"}
  BY <1>1, <1>8, NoTemps, Distinct DEF ArgsFit, DefinedTemps, UsedOf, Defined, Used, BinOps, UnaryOps
<1>9. o \in Ops
  BY DEF WellShaped
<1> HIDE DEF o, a
<1>10. \/ o \in {"CONST", "LOAD", "READ_INT"} \/ o \in {"STORE", "LOAD_ARR", "STORE_ARR"}
       \/ o \in BinOps \cup UnaryOps \/ o \in {"JMP_IF", "JMP_IF_NOT", "PARAM", "EXIT"}
       \/ o \in {"RET", "CALL"} \/ o = "PRINT"
       \/ o \in {"ALLOC_ARRAY", "FUNC_ENTRY", "LABEL", "JMP"}
  BY <1>9 DEF Ops
<1> QED BY <1>2, <1>3, <1>4, <1>5, <1>6, <1>7, <1>8, <1>10 DEF o, a

\* j is i with other temps: what the operation reads is found, with the same
\* value, where j reads it, and j defines what i defines.
Renames(frame, j, y, i, x) ==
  /\ j.op = i.op /\ DOMAIN j.args = DOMAIN i.args
  /\ \A k \in DOMAIN i.args :
       /\ i.args[k] \in UsedOf(i) => /\ IsTemp(j.args[k]) /\ j.args[k] \in frame
                                     /\ y[j.args[k]] = x[i.args[k]]
       /\ i.args[k] \notin UsedOf(i) \/ i.args[k] \in DefinedTemps(i)
            => j.args[k] = i.args[k]

\* The operands each operation has.
LEMMA ArgsAre ==
  ASSUME NEW ins, WellShaped(ins)
  PROVE  LET o == ins.op  a == ins.args IN
         /\ o \in {"CONST", "LOAD"} => DOMAIN a = 1..2 /\ a[1] \in Temps /\ ~IsTemp(a[2])
         /\ o = "LOAD" => a[2] \in Vars
         /\ o = "STORE" => DOMAIN a = 1..2 /\ a[1] \in Vars /\ a[2] \in Temps
         /\ o = "LOAD_ARR" => DOMAIN a = 1..3 /\ a[1] \in Temps /\ a[2] \in Vars /\ a[3] \in Temps
         /\ o = "STORE_ARR" => DOMAIN a = 1..3 /\ a[1] \in Vars /\ a[2] \in Temps /\ a[3] \in Temps
         /\ o \in BinOps => DOMAIN a = 1..3 /\ a[1] \in Temps /\ a[2] \in Temps /\ a[3] \in Temps
         /\ o \in UnaryOps => DOMAIN a = 1..2 /\ a[1] \in Temps /\ a[2] \in Temps
         /\ o \in {"PARAM", "EXIT"} => DOMAIN a = 1..1 /\ a[1] \in Temps
         /\ o \in {"JMP_IF", "JMP_IF_NOT"} => DOMAIN a = 1..2 /\ a[1] \in Temps /\ ~IsTemp(a[2])
         /\ o = "READ_INT" => DOMAIN a = 1..1 /\ a[1] \in Temps
         /\ o = "RET" => DOMAIN a = 1..1 /\ (a[1] \in Temps \/ a[1] = None)
         /\ o = "CALL" => /\ DOMAIN a = 1..3 /\ (a[1] \in Temps \/ a[1] = None)
                          /\ ~IsTemp(a[2]) /\ ~IsTemp(a[3])
         /\ o = "PRINT" => \A k \in DOMAIN a : a[k] \in Temps
         /\ o \in {"LABEL", "JMP", "FUNC_ENTRY"} => DOMAIN a = 1..1 /\ ~IsTemp(a[1])
         /\ o = "ALLOC_ARRAY" => DOMAIN a = 1..2 /\ ~IsTemp(a[1]) /\ ~IsTemp(a[2])
<1> DEFINE o == ins.op  a == ins.args
<1>1. ArgsFit(o, a)
  BY DEF WellShaped
<1>2. CASE o \in {"CONST", "LOAD", "STORE", "LOAD_ARR", "STORE_ARR"}
  BY <1>1, <1>2, NoTemps DEF ArgsFit, BinOps, UnaryOps
<1>3. CASE o \in BinOps \cup UnaryOps
  BY <1>1, <1>3, NoTemps DEF ArgsFit, BinOps, UnaryOps
<1>4. CASE o \in {"PARAM", "EXIT", "JMP_IF", "JMP_IF_NOT", "READ_INT", "RET", "CALL"}
  BY <1>1, <1>4, NoTemps DEF ArgsFit, BinOps, UnaryOps
<1>5. CASE o \in {"PRINT", "LABEL", "JMP", "FUNC_ENTRY", "ALLOC_ARRAY"}
  BY <1>1, <1>5, NoTemps DEF ArgsFit, BinOps, UnaryOps
<1>6. o \in Ops
  BY DEF WellShaped
<1>7. \/ o \in {"CONST", "LOAD", "STORE", "LOAD_ARR", "STORE_ARR"} \/ o \in BinOps \cup UnaryOps
      \/ o \in {"PARAM", "EXIT", "JMP_IF", "JMP_IF_NOT", "READ_INT", "RET", "CALL"}
      \/ o \in {"PRINT", "LABEL", "JMP", "FUNC_ENTRY", "ALLOC_ARRAY"}
  BY <1>6 DEF Ops
<1> QED BY <1>2, <1>3, <1>4, <1>5, <1>7

\* It reads what i reads, in slots that were written.
LEMMA RenamedReads ==
  ASSUME NEW ins, WellShaped(ins), NEW jns, NEW frame,
         NEW x \in [frame -> Words \cup {Undef}], NEW y \in [frame -> Words \cup {Undef}],
         Renames(frame, jns, y, ins, x), ~Stuck(x, ins),
         \A n \in frame : ~IsTemp(n) => y[n] = x[n]
  PROVE  ~Stuck(y, jns)
<1> DEFINE o == ins.op  a == ins.args  b == jns.args
<1>1. \A n \in Reads(x, ins) : n \in frame /\ x[n] \in Words
  BY ReadsWords
<1>2. \A n \in Writes(x, ins) : n \in frame
  BY DEF Stuck
<1>3. /\ jns.op = o /\ DOMAIN b = DOMAIN a
      /\ \A k \in DOMAIN a : /\ a[k] \in UsedOf(ins) => b[k] \in frame /\ y[b[k]] = x[a[k]]
                             /\ a[k] \notin UsedOf(ins) => b[k] = a[k]
  BY DEF Renames
<1>4. \A m : Writes(m, jns) = IF o = "STORE_ARR" THEN {Cell(b[1], m[b[2]])} ELSE {}
  BY <1>3 DEF Writes
<1>5. (\A n \in Reads(y, jns) : n \in frame /\ y[n] \in Words) /\ \A n \in Writes(y, jns) : n \in frame
  <2>1. CASE o \in {"CONST", "READ_INT", "CALL", "ALLOC_ARRAY", "FUNC_ENTRY", "LABEL", "JMP"}
    <3>1. Reads(y, jns) = {}
      BY <1>3, <2>1, ReadsOf
    <3> QED BY <1>4, <2>1, <3>1
  <2>2. CASE o = "LOAD"
    <3>1. Reads(y, jns) = {b[2]} /\ Reads(x, ins) = {a[2]}
      BY <1>3, <2>2, ReadsOf
    <3>2. b[2] = a[2] /\ ~IsTemp(a[2])
      BY <1>3, <2>2, ArgsAre, TempsAre
    <3> QED BY <1>1, <1>4, <2>2, <3>1, <3>2
  <2>3. CASE o \in {"STORE"} \cup UnaryOps
    <3>1. Reads(y, jns) = {b[2]} /\ Reads(x, ins) = {a[2]}
      BY <1>3, <2>3, ReadsOf
    <3>2. 2 \in DOMAIN a /\ a[2] \in UsedOf(ins)
      BY <2>3, ArgsAre, TempsAre
    <3>3. o # "STORE_ARR"
      BY <2>3 DEF UnaryOps
    <3> QED BY <1>1, <1>3, <1>4, <3>1, <3>2, <3>3
  <2>4. CASE o \in BinOps
    <3>1. Reads(y, jns) = {b[2], b[3]} /\ Reads(x, ins) = {a[2], a[3]}
      BY <1>3, <2>4, ReadsOf
    <3>2. 2 \in DOMAIN a /\ 3 \in DOMAIN a /\ a[2] \in UsedOf(ins) /\ a[3] \in UsedOf(ins)
      BY <2>4, ArgsAre, TempsAre
    <3>3. o # "STORE_ARR"
      BY <2>4 DEF BinOps
    <3> QED BY <1>1, <1>3, <1>4, <3>1, <3>2, <3>3
  <2>5. CASE o = "LOAD_ARR"
    <3>1. Reads(y, jns) = {b[3], Cell(b[2], y[b[3]])} /\ Reads(x, ins) = {a[3], Cell(a[2], x[a[3]])}
      BY <1>3, <2>5, ReadsOf
    <3>2. 2 \in DOMAIN a /\ 3 \in DOMAIN a /\ a[3] \in UsedOf(ins) /\ a[2] \notin UsedOf(ins)
      BY <2>5, ArgsAre, TempsAre, Distinct
    <3>3. y[b[3]] = x[a[3]] /\ b[2] = a[2] /\ b[3] \in frame
      BY <1>3, <3>2
    <3>4. ~IsTemp(Cell(a[2], x[a[3]]))
      BY Distinct
    <3> QED BY <1>1, <1>4, <2>5, <3>1, <3>3, <3>4
  <2>6. CASE o = "STORE_ARR"
    <3>1. Reads(y, jns) = {b[2], b[3]} /\ Reads(x, ins) = {a[2], a[3]}
      BY <1>3, <2>6, ReadsOf
    <3>2. /\ 1 \in DOMAIN a /\ 2 \in DOMAIN a /\ 3 \in DOMAIN a
          /\ a[2] \in UsedOf(ins) /\ a[3] \in UsedOf(ins) /\ a[1] \notin UsedOf(ins)
      BY <2>6, ArgsAre, TempsAre, Distinct
    <3>3. /\ y[b[2]] = x[a[2]] /\ b[2] \in frame /\ b[1] = a[1]
          /\ y[b[3]] = x[a[3]] /\ b[3] \in frame
      BY <1>3, <3>2
    <3>4. Writes(x, ins) = {Cell(a[1], x[a[2]])}
      BY <2>6 DEF Writes
    <3> QED BY <1>1, <1>2, <1>4, <2>6, <3>1, <3>3, <3>4
  <2>7. CASE o \in {"JMP_IF", "JMP_IF_NOT", "PARAM", "EXIT"}
    <3>1. Reads(y, jns) = {b[1]} /\ Reads(x, ins) = {a[1]}
      BY <1>3, <2>7, ReadsOf
    <3>2. 1 \in DOMAIN a /\ a[1] \in UsedOf(ins)
      BY <2>7, ArgsAre, TempsAre
    <3> QED BY <1>1, <1>3, <1>4, <2>7, <3>1, <3>2
  <2>8. CASE o = "RET"
    <3>1. Reads(y, jns) = {b[1]} \ {None} /\ Reads(x, ins) = {a[1]} \ {None}
      BY <1>3, <2>8, ReadsOf
    <3>2. 1 \in DOMAIN a /\ UsedOf(ins) = {a[1]} \ {None}
      BY <2>8, ArgsAre, TempsAre
    <3> QED BY <1>1, <1>3, <1>4, <2>8, <3>1, <3>2
  <2>9. CASE o = "PRINT"
    <3>1. Reads(y, jns) = {b[k] : k \in DOMAIN b} /\ Reads(x, ins) = {a[k] : k \in DOMAIN a}
      BY <1>3, <2>9, ReadsOf
    <3>2. \A k \in DOMAIN a : a[k] \in UsedOf(ins)
      BY <2>9, TempsAre
    <3> QED BY <1>1, <1>3, <1>4, <2>9, <3>1, <3>2
  <2>10. o \in Ops
    BY DEF WellShaped
  <2> HIDE DEF o
  <2> QED BY <2>1, <2>2, <2>3, <2>4, <2>5, <2>6, <2>7, <2>8, <2>9, <2>10 DEF Ops
<1>6. DOMAIN y = frame
  OBVIOUS
<1> QED BY <1>5, <1>6, UndefNoWord DEF Stuck

\* It shows what i shows, asks what i asks and goes where i goes.
LEMMA RenamedMimics ==
  ASSUME NEW ins, WellShaped(ins), NEW jns, NEW frame,
         NEW x \in [frame -> Words \cup {Undef}], NEW y \in [frame -> Words \cup {Undef}],
         Renames(frame, jns, y, ins, x), ~Stuck(x, ins),
         \A n \in frame : ~IsTemp(n) => y[n] = x[n]
  PROVE  Mimics(jns, y, ins, x)
<1> DEFINE o == ins.op  a == ins.args  b == jns.args
<1>1. ~Stuck(y, jns)
  BY RenamedReads
<1>2. /\ jns.op = o /\ DOMAIN b = DOMAIN a
      /\ \A k \in DOMAIN a : /\ a[k] \in UsedOf(ins)
                                  => IsTemp(b[k]) /\ b[k] \in frame /\ y[b[k]] = x[a[k]]
                             /\ a[k] \notin UsedOf(ins) => b[k] = a[k]
                             /\ a[k] \in DefinedTemps(ins) => b[k] = a[k]
  BY DEF Renames
<1>3. Shown(y, jns) = Shown(x, ins) /\ Consumes(jns) = Consumes(ins) /\ Going(y, jns) = Going(x, ins)
  <2>1. CASE o \in Quiet
    <3>1. /\ Shown(y, jns) = <<>> /\ Going(y, jns) = <<"on", None>>
          /\ Shown(x, ins) = <<>> /\ Going(x, ins) = <<"on", None>>
      BY <1>2, <2>1, QuietIs
    <3>2. Consumes(jns) = Consumes(ins)
      BY <1>2, <2>1 DEF Consumes, Quiet, Pure, BinOps, UnaryOps
    <3> QED BY <3>1, <3>2
  <2>2. CASE o = "READ_INT"
    BY <1>2, <2>2, GoingOf DEF Shown, Consumes, Branches
  <2>3. CASE o = "CALL"
    <3>1. b[1] = a[1] /\ b[2] = a[2] /\ b[3] = a[3]
      BY <1>2, <2>3, ArgsAre, TempsAre
    <3>2. Going(y, jns) = Going(x, ins)
      BY <1>2, <2>3, GoingOf DEF Branches
    <3> QED BY <1>2, <2>3, <3>1, <3>2 DEF Shown, Consumes
  <2>4. CASE o = "PRINT"
    <3>1. \A k \in DOMAIN a : y[b[k]] = x[a[k]]
      BY <1>2, <2>4, TempsAre
    <3>2. [k \in DOMAIN b |-> y[b[k]]] = [k \in DOMAIN a |-> x[a[k]]]
      BY <1>2, <3>1
    <3>3. Going(y, jns) = Going(x, ins)
      BY <1>2, <2>4, GoingOf DEF Branches
    <3> QED BY <1>2, <2>4, <3>2, <3>3 DEF Shown, Consumes
  <2>5. CASE o \in {"JMP_IF", "JMP_IF_NOT"}
    <3>1. b[2] = a[2] /\ y[b[1]] = x[a[1]]
      <4>1. 1 \in DOMAIN a /\ 2 \in DOMAIN a /\ UsedOf(ins) = {a[1]}
        BY <2>5, ArgsAre, TempsAre
      <4>2. a[2] # a[1]
        BY <2>5, ArgsAre, Distinct
      <4> QED BY <1>2, <4>1, <4>2
    <3>2. Going(y, jns) = Going(x, ins)
      BY <1>2, <2>5, <3>1, GoingOf
    <3> QED BY <1>2, <2>5, <3>2 DEF Shown, Consumes
  <2>6. CASE o = "JMP"
    <3>1. b[1] = a[1]
      BY <1>2, <2>6, ArgsAre, TempsAre
    <3>2. Going(y, jns) = Going(x, ins)
      BY <1>2, <2>6, <3>1, GoingOf
    <3> QED BY <1>2, <2>6, <3>2 DEF Shown, Consumes
  <2>7. CASE o \in {"PARAM", "EXIT"}
    <3>1. y[b[1]] = x[a[1]]
      BY <1>2, <2>7, ArgsAre, TempsAre
    <3>2. Going(y, jns) = Going(x, ins)
      BY <1>2, <2>7, GoingOf DEF Branches
    <3> QED BY <1>2, <2>7, <3>1, <3>2 DEF Shown, Consumes
  <2>8. CASE o = "RET"
    <3>1. 1 \in DOMAIN a /\ UsedOf(ins) = {a[1]} \ {None} /\ (a[1] \in Temps \/ a[1] = None)
      BY <2>8, ArgsAre, TempsAre
    <3>2. CASE a[1] = None
      <4>1. b[1] = None
        BY <1>2, <3>1, <3>2
      <4> QED BY <1>2, <2>8, <3>2, <4>1, GoingOf DEF Shown, Consumes
    <3>3. CASE a[1] # None
      <4>1. b[1] \in frame /\ y[b[1]] = x[a[1]]
        BY <1>2, <3>1, <3>3
      <4>2. b[1] # None
        BY <1>2, <3>1, <3>3, NoTemps
      <4> QED BY <1>2, <2>8, <3>3, <4>1, <4>2, GoingOf DEF Shown, Consumes
    <3> QED BY <3>2, <3>3
  <2>9. o \in Ops
    BY DEF WellShaped
  <2> HIDE DEF o
  <2> QED BY <2>1, <2>2, <2>3, <2>4, <2>5, <2>6, <2>7, <2>8, <2>9 DEF Ops, Quiet, Pure
<1> QED BY <1>1, <1>3 DEF Mimics

\* A temp that an instruction does not define, and every scalar but what a
\* STORE writes, keeps its value.
LEMMA EffectElsewhere ==
  ASSUME NEW ins, WellShaped(ins), NEW frame, NEW mem \in [frame -> Words \cup {Undef}],
         NEW in, NEW n \in frame, n \in Temps \cup Vars, n \notin DefinedTemps(ins),
         ins.op = "STORE" => n # ins.args[1],
         NEW e, e = Effect(mem, ins, in)
  PROVE  e[n] = mem[n]
<1> DEFINE o == ins.op  a == ins.args
<1>1. CASE o \in {"CONST", "LOAD", "LOAD_ARR", "READ_INT"} \cup BinOps \cup UnaryOps
  <2>1. n # a[1]
    BY <1>1, TempsAre
  <2>2. PICK v : e = [mem EXCEPT ![a[1]] = v]
    <3>1. /\ o = "CONST" => e = [mem EXCEPT ![a[1]] = Wrap(a[2][2])]
          /\ o = "LOAD" => e = [mem EXCEPT ![a[1]] = mem[a[2]]]
          /\ o = "LOAD_ARR" => e = [mem EXCEPT ![a[1]] = mem[Cell(a[2], mem[a[3]])]]
          /\ o = "READ_INT" => e = [mem EXCEPT ![a[1]] = in]
          /\ o \in BinOps => e = [mem EXCEPT ![a[1]] = Arith(o, mem[a[2]], mem[a[3]])]
          /\ o \in UnaryOps => e = [mem EXCEPT ![a[1]] = Unary(o, mem[a[2]])]
      BY EffectOf
    <3> HIDE DEF o, a
    <3> QED BY <1>1, <3>1
  <2> QED BY <2>1, <2>2
<1>2. CASE o = "STORE"
  BY <1>2, EffectOf
<1>3. CASE o = "STORE_ARR"
  <2>1. e = [mem EXCEPT ![Cell(a[1], mem[a[2]])] = mem[a[3]]]
    BY <1>3, EffectOf
  <2>2. n # Cell(a[1], mem[a[2]])
    BY Distinct
  <2> QED BY <2>1, <2>2
<1>4. CASE o = "CALL"
  <2>1. e = IF a[1] # None THEN [mem EXCEPT ![a[1]] = in] ELSE mem
    BY <1>4, EffectOf
  <2>2. a[1] # None => n # a[1]
    BY <1>4, TempsAre
  <2> QED BY <2>1, <2>2
<1>5. CASE o \notin {"CONST", "LOAD", "STORE", "LOAD_ARR", "STORE_ARR", "READ_INT", "CALL"}
                     \cup BinOps \cup UnaryOps
  BY <1>5, EffectOf
<1> QED BY <1>1, <1>2, <1>3, <1>4, <1>5

\* It writes where i writes what i writes: memories that agree but on some temps
\* which i does not define agree again.
LEMMA RenamedEffect ==
  ASSUME NEW ins, WellShaped(ins), NEW jns, NEW frame,
         NEW x \in [frame -> Words \cup {Undef}], NEW y \in [frame -> Words \cup {Undef}],
         Renames(frame, jns, y, ins, x), ~Stuck(x, ins), NEW in,
         NEW D \in SUBSET Temps, \A n \in frame \ D : y[n] = x[n],
         NEW e, e = Effect(x, ins, in), NEW f, f = Effect(y, jns, in)
  PROVE  \A n \in frame \ D : f[n] = e[n]
<1> DEFINE o == ins.op  a == ins.args  b == jns.args
<1>1. \A n \in Reads(x, ins) : n \in frame /\ x[n] \in Words
  BY ReadsWords
<1>2. /\ jns.op = o /\ DOMAIN b = DOMAIN a
      /\ \A k \in DOMAIN a : /\ a[k] \in UsedOf(ins) => b[k] \in frame /\ y[b[k]] = x[a[k]]
                             /\ a[k] \notin UsedOf(ins) => b[k] = a[k]
                             /\ a[k] \in DefinedTemps(ins) => b[k] = a[k]
  BY DEF Renames
<1>3. ASSUME NEW k, NEW v, e = [x EXCEPT ![k] = v], f = [y EXCEPT ![k] = v]
      PROVE  \A n \in frame \ D : f[n] = e[n]
  BY <1>3
<1>4. CASE o \in {"CONST", "READ_INT"}
  <2>1. b[1] = a[1] /\ (o = "CONST" => b[2] = a[2])
    <3>1. 1 \in DOMAIN a /\ DefinedTemps(ins) = {a[1]} /\ UsedOf(ins) = {}
          /\ (o = "CONST" => 2 \in DOMAIN a)
      BY <1>4, ArgsAre, TempsAre
    <3> QED BY <1>2, <3>1
  <2>2. CASE o = "CONST"
    <3>1. e = [x EXCEPT ![a[1]] = Wrap(a[2][2])] /\ f = [y EXCEPT ![b[1]] = Wrap(b[2][2])]
      BY <1>2, <2>2, EffectOf
    <3> QED BY <1>3, <2>1, <2>2, <3>1
  <2>3. CASE o = "READ_INT"
    <3>1. e = [x EXCEPT ![a[1]] = in] /\ f = [y EXCEPT ![b[1]] = in]
      BY <1>2, <2>3, EffectOf
    <3> QED BY <1>3, <2>1, <3>1
  <2> QED BY <1>4, <2>2, <2>3
<1>5. CASE o = "LOAD"
  <2>1. /\ 1 \in DOMAIN a /\ 2 \in DOMAIN a /\ DefinedTemps(ins) = {a[1]} /\ UsedOf(ins) = {}
        /\ a[2] \in Vars
    BY <1>5, ArgsAre, TempsAre
  <2>2. b[1] = a[1] /\ b[2] = a[2]
    BY <1>2, <2>1
  <2>3. a[2] \in frame \ D
    BY <1>1, <1>5, <2>1, ReadsOf, Distinct
  <2>4. e = [x EXCEPT ![a[1]] = x[a[2]]] /\ f = [y EXCEPT ![b[1]] = y[b[2]]]
    BY <1>2, <1>5, EffectOf
  <2>5. y[b[2]] = x[a[2]]
    BY <2>2, <2>3
  <2> QED BY <1>3, <2>2, <2>4, <2>5
<1>6. CASE o = "STORE"
  <2>1. 1 \in DOMAIN a /\ 2 \in DOMAIN a /\ UsedOf(ins) = {a[2]} /\ a[1] \notin UsedOf(ins)
    BY <1>6, ArgsAre, TempsAre, Distinct
  <2>2. b[1] = a[1] /\ y[b[2]] = x[a[2]]
    BY <1>2, <2>1
  <2>3. e = [x EXCEPT ![a[1]] = x[a[2]]] /\ f = [y EXCEPT ![b[1]] = y[b[2]]]
    BY <1>2, <1>6, EffectOf
  <2> QED BY <1>3, <2>2, <2>3
<1>7. CASE o = "LOAD_ARR"
  <2>1. /\ 1 \in DOMAIN a /\ 2 \in DOMAIN a /\ 3 \in DOMAIN a
        /\ DefinedTemps(ins) = {a[1]} /\ UsedOf(ins) = {a[3]} /\ a[2] \notin UsedOf(ins)
    BY <1>7, ArgsAre, TempsAre, Distinct
  <2>2. b[1] = a[1] /\ b[2] = a[2] /\ y[b[3]] = x[a[3]]
    BY <1>2, <2>1
  <2> DEFINE k == Cell(a[2], x[a[3]])
  <2>3. k \in frame /\ k \notin Temps
    BY <1>1, <1>7, ReadsOf, Distinct
  <2>4. e = [x EXCEPT ![a[1]] = x[k]] /\ f = [y EXCEPT ![b[1]] = y[Cell(b[2], y[b[3]])]]
    BY <1>2, <1>7, EffectOf
  <2> HIDE DEF k
  <2>5. y[k] = x[k]
    BY <2>3
  <2>6. f = [y EXCEPT ![a[1]] = y[k]]
    BY <2>2, <2>4 DEF k
  <2> QED BY <1>3, <2>4, <2>5, <2>6
<1>8. CASE o = "STORE_ARR"
  <2>1. /\ 1 \in DOMAIN a /\ 2 \in DOMAIN a /\ 3 \in DOMAIN a
        /\ a[2] \in UsedOf(ins) /\ a[3] \in UsedOf(ins) /\ a[1] \notin UsedOf(ins)
    BY <1>8, ArgsAre, TempsAre, Distinct
  <2>2. b[1] = a[1] /\ y[b[2]] = x[a[2]] /\ y[b[3]] = x[a[3]]
    BY <1>2, <2>1
  <2>3. /\ e = [x EXCEPT ![Cell(a[1], x[a[2]])] = x[a[3]]]
        /\ f = [y EXCEPT ![Cell(b[1], y[b[2]])] = y[b[3]]]
    BY <1>2, <1>8, EffectOf
  <2> QED BY <1>3, <2>2, <2>3
<1>9. CASE o \in BinOps
  <2>1. /\ 1 \in DOMAIN a /\ 2 \in DOMAIN a /\ 3 \in DOMAIN a
        /\ DefinedTemps(ins) = {a[1]} /\ a[2] \in UsedOf(ins) /\ a[3] \in UsedOf(ins)
    BY <1>9, ArgsAre, TempsAre
  <2>2. b[1] = a[1] /\ y[b[2]] = x[a[2]] /\ y[b[3]] = x[a[3]]
    BY <1>2, <2>1
  <2>3. /\ e = [x EXCEPT ![a[1]] = Arith(o, x[a[2]], x[a[3]])]
        /\ f = [y EXCEPT ![b[1]] = Arith(o, y[b[2]], y[b[3]])]
    BY <1>2, <1>9, EffectOf
  <2> HIDE DEF o
  <2> QED BY <1>3, <2>2, <2>3
<1>10. CASE o \in UnaryOps
  <2>1. 1 \in DOMAIN a /\ 2 \in DOMAIN a /\ DefinedTemps(ins) = {a[1]} /\ a[2] \in UsedOf(ins)
    BY <1>10, ArgsAre, TempsAre
  <2>2. b[1] = a[1] /\ y[b[2]] = x[a[2]]
    BY <1>2, <2>1
  <2>3. e = [x EXCEPT ![a[1]] = Unary(o, x[a[2]])] /\ f = [y EXCEPT ![b[1]] = Unary(o, y[b[2]])]
    BY <1>2, <1>10, EffectOf
  <2> HIDE DEF o
  <2> QED BY <1>3, <2>2, <2>3
<1>11. CASE o = "CALL"
  <2>1. b[1] = a[1]
    BY <1>2, <1>11, ArgsAre, TempsAre
  <2>2. /\ e = IF a[1] # None THEN [x EXCEPT ![a[1]] = in] ELSE x
        /\ f = IF b[1] # None THEN [y EXCEPT ![b[1]] = in] ELSE y
    BY <1>2, <1>11, EffectOf
  <2> QED BY <1>3, <2>1, <2>2
<1>12. CASE o \notin {"CONST", "LOAD", "STORE", "LOAD_ARR", "STORE_ARR", "READ_INT", "CALL"}
                     \cup BinOps \cup UnaryOps
  <2>1. e = x /\ f = y
    BY <1>2, <1>12, EffectOf
  <2> QED BY <2>1
<1> HIDE DEF o
<1>13. \/ o \in {"CONST", "READ_INT"} \/ o = "LOAD" \/ o = "STORE" \/ o = "LOAD_ARR"
       \/ o = "STORE_ARR" \/ o \in BinOps \/ o \in UnaryOps \/ o = "CALL"
       \/ o \notin {"CONST", "LOAD", "STORE", "LOAD_ARR", "STORE_ARR", "READ_INT", "CALL"}
                     \cup BinOps \cup UnaryOps
  OBVIOUS
<1> QED BY <1>4, <1>5, <1>6, <1>7, <1>8, <1>9, <1>10, <1>11, <1>12, <1>13

-----------------------------------------------------------------------------
(***************************************************************************)
(* What the proof of each pass shows.                                      *)
(***************************************************************************)

\* A set of positions that holds the first, and with each the next, holds all.
LEMMA Along ==
  ASSUME NEW n \in Nat, NEW S, 1 \in S, \A i \in 1..n : i \in S => i + 1 \in S
  PROVE  \A i \in 1..(n + 1) : i \in S
<1> DEFINE B == {i \in 1..(n + 1) : i \notin S}
<1> SUFFICES ASSUME B # {} PROVE FALSE
  OBVIOUS
<1>1. PICK b \in B : \A i \in B : ~(<<i, b>> \in OpToRel(<, Nat))
  <2>1. B \subseteq Nat
    OBVIOUS
  <2> HIDE DEF B
  <2> QED BY <2>1, NatLessThanWellFounded, WFMin
<1>2. ASSUME NEW i \in B PROVE b <= i
  <2>1. ~(<<i, b>> \in {ss \in Nat \X Nat : ss[1] < ss[2]})
    BY <1>1 DEF OpToRel
  <2> QED BY <2>1
<1>3. b # 1 /\ b \in 1..(n + 1)
  OBVIOUS
<1>4. b - 1 \in 1..n
  BY <1>3
<1>5. b - 1 \notin B
  BY <1>2, <1>3
<1>6. b - 1 \in S
  BY <1>4, <1>5
<1>7. (b - 1) + 1 \in S
  BY <1>4, <1>6
<1> QED BY <1>3, <1>7

FrameOf(r) == Names(r.code, r.params)

\* The memories of the code and of the target before instruction i.
Before(r, i, x, y) ==
  /\ x \in [FrameOf(r) -> Words \cup {Undef}]
  /\ y \in [FrameOf(r) -> Words \cup {Undef}]
  /\ \A n \in FrameOf(r) \ DroppedTemps(r) : y[n] = x[n]
  /\ r.code[i].op # "LABEL" => KnowledgeTrue(r, i, x, y)

\* The memory of the target once the code has executed instruction i.
Behind(r, i, y, in) == IF Skips(r, i) THEN y ELSE Effect(y, Made(r, i), in)

\* Executed on such memories, instruction i is mimicked or waited for, and the
\* memories after it agree again and bear out what the pass knows then.
KeepsStep(r, i, x, y, in) ==
  LET xx == Effect(x, r.code[i], in)
      yy == Behind(r, i, y, in)
  IN  /\ ~Skips(r, i) => Mimics(Made(r, i), y, r.code[i], x)
      /\ \A n \in FrameOf(r) \ DroppedTemps(r) : yy[n] = xx[n]
      /\ KnowledgeTrue(r, i + 1, xx, yy)

\* The slots an instruction names are in the frame.
LEMMA OperandSlot ==
  ASSUME NEW r, NEW i \in DOMAIN r.code, NEW k \in DOMAIN r.code[i].args,
         r.code[i].args[k] \in Temps \cup Vars
  PROVE  r.code[i].args[k] \in FrameOf(r)
  BY NamedSlot DEF FrameOf, Temps, Vars

\* A pure instruction writes its destination only.
LEMMA PureEffect ==
  ASSUME NEW frame, NEW mem \in [frame -> Words \cup {Undef}], NEW ins, ins.op \in Pure, NEW in
  PROVE  \A n \in frame : n # ins.args[1] => Effect(mem, ins, in)[n] = mem[n]
<1> DEFINE o == ins.op  a == ins.args
<1>1. PICK e : e = Effect(mem, ins, in)
  OBVIOUS
<1>2. /\ o = "CONST" => e = [mem EXCEPT ![a[1]] = Wrap(a[2][2])]
      /\ o = "LOAD" => e = [mem EXCEPT ![a[1]] = mem[a[2]]]
      /\ o = "LOAD_ARR" => e = [mem EXCEPT ![a[1]] = mem[Cell(a[2], mem[a[3]])]]
      /\ o \in BinOps => e = [mem EXCEPT ![a[1]] = Arith(o, mem[a[2]], mem[a[3]])]
      /\ o \in UnaryOps => e = [mem EXCEPT ![a[1]] = Unary(o, mem[a[2]])]
  BY <1>1, EffectOf
<1>3. o = "CONST" \/ o = "LOAD" \/ o = "LOAD_ARR" \/ o \in BinOps \/ o \in UnaryOps
  BY DEF Pure
<1> HIDE DEF o, a
<1>4. PICK v : e = [mem EXCEPT ![a[1]] = v]
  BY <1>2, <1>3
<1>5. \A n \in frame : n # a[1] => e[n] = mem[n]
  BY <1>4
<1> QED BY <1>1, <1>5 DEF a

\* Operations that are not pure and define a temp: the answers.
LEMMA DefinesTemp ==
  ASSUME NEW ins, WellShaped(ins), NEW t \in DefinedTemps(ins)
  PROVE  /\ t \in Temps /\ 1 \in DOMAIN ins.args /\ t = ins.args[1]
         /\ ins.op \in Pure \cup {"READ_INT", "CALL"}
         /\ DefinedTemps(ins) = {t}
<1>1. ins.op \in Pure \cup {"READ_INT", "CALL"}
  BY TempsAre DEF WellShaped, Ops, Pure
<1>2. CASE ins.op \in Pure \cup {"READ_INT"}
  BY <1>2, TempsAre, ArgsAre DEF Pure
<1>3. CASE ins.op = "CALL"
  BY <1>3, TempsAre, ArgsAre
<1> QED BY <1>1, <1>2, <1>3

\* A pure instruction defines a temp.
LEMMA PureDefines ==
  ASSUME NEW ins, WellShaped(ins), ins.op \in Pure
  PROVE  DefinedTemps(ins) = {ins.args[1]}
  BY TempsAre DEF Pure

\* A temp an instruction reads is one of its operands, and its first only if it
\* is not pure.
LEMMA UsedOperand ==
  ASSUME NEW ins, WellShaped(ins), NEW t \in UsedOf(ins)
  PROVE  /\ t \in Temps
         /\ \E k \in DOMAIN ins.args : t = ins.args[k] /\ (k = 1 => ins.op \notin Pure)
<1> DEFINE o == ins.op  a == ins.args
<1>1. CASE o \in {"STORE"} \cup UnaryOps
  <2>1. t = a[2] /\ a[2] \in Temps /\ 2 \in DOMAIN a
    BY <1>1, TempsAre, ArgsAre
  <2> QED BY <2>1
<1>2. CASE o = "LOAD_ARR"
  <2>1. t = a[3] /\ a[3] \in Temps /\ 3 \in DOMAIN a
    BY <1>2, TempsAre, ArgsAre
  <2> QED BY <2>1
<1>3. CASE o \in BinOps \cup {"STORE_ARR"}
  <2>1. t \in {a[2], a[3]} /\ a[2] \in Temps /\ a[3] \in Temps /\ 2 \in DOMAIN a /\ 3 \in DOMAIN a
    BY <1>3, TempsAre, ArgsAre
  <2> QED BY <2>1
<1>4. CASE o \in {"JMP_IF", "JMP_IF_NOT", "PARAM", "EXIT", "RET"}
  <2>1. t = a[1] /\ a[1] \in Temps /\ 1 \in DOMAIN a
    BY <1>4, TempsAre, ArgsAre
  <2>2. o \notin Pure
    BY <1>4 DEF Pure, BinOps, UnaryOps
  <2> QED BY <2>1, <2>2
<1>5. CASE o = "PRINT"
  <2>1. PICK k \in DOMAIN a : t = a[k] /\ a[k] \in Temps
    BY <1>5, TempsAre, ArgsAre
  <2>2. o \notin Pure
    BY <1>5 DEF Pure, BinOps, UnaryOps
  <2> QED BY <2>1, <2>2
<1>6. \/ o \in {"STORE"} \cup UnaryOps \/ o = "LOAD_ARR" \/ o \in BinOps \cup {"STORE_ARR"}
      \/ o \in {"JMP_IF", "JMP_IF_NOT", "PARAM", "EXIT", "RET"} \/ o = "PRINT"
  <2>1. o \in Ops
    BY DEF WellShaped
  <2>2. o \notin {"CONST", "LOAD", "READ_INT", "CALL", "ALLOC_ARRAY", "FUNC_ENTRY", "LABEL", "JMP"}
    BY TempsAre
  <2> HIDE DEF o
  <2> QED BY <2>1, <2>2 DEF Ops
<1> QED BY <1>1, <1>2, <1>3, <1>4, <1>5, <1>6

-----------------------------------------------------------------------------
(***************************************************************************)
(* Constant propagation: whatever it takes for constant is, on every path, *)
(* and so the constant it writes for a LOAD is the word the LOAD finds.    *)
(***************************************************************************)

\* What each operation does to the pass's knowledge.
LEMMA PropNextOf ==
  ASSUME NEW m, NEW ins
  PROVE  LET o == ins.op  a == ins.args  mm == PropNext(m, ins) IN
         /\ o \in PropBarriers => mm = PropStart
         /\ o = "CONST" => mm = Facts(Put(m.tmp, a[1], a[2]), m.var)
         /\ o = "STORE" /\ a[2] \in DOMAIN m.tmp
              => mm = Facts(m.tmp, Put(m.var, a[1], m.tmp[a[2]]))
         /\ o = "STORE" /\ a[2] \notin DOMAIN m.tmp
              => mm = Facts(m.tmp, Pop(m.var, a[1]))
         /\ o = "LOAD" /\ a[2] \in DOMAIN m.var
              => mm = Facts(Put(m.tmp, a[1], m.var[a[2]]), m.var)
         /\ o = "LOAD" /\ a[2] \notin DOMAIN m.var
              => mm = Facts(Pop(m.tmp, a[1]), m.var)
         /\ o \in PropDefines => mm = Facts(Pop(m.tmp, a[1]), m.var)
         /\ o \notin PropBarriers \cup {"CONST", "STORE", "LOAD"} \cup PropDefines
              => mm = m
  BY DEF PropNext, AfterStore, PropBarriers, Branches, PropDefines, BinOps, UnaryOps, Propagates

\* What is known of other slots stays true when a slot changes.
LEMMA KnownElsewhere ==
  ASSUME NEW frame, NEW mem \in [frame -> Words \cup {Undef}], NEW k, NEW v,
         NEW e, e = [mem EXCEPT ![k] = v],
         NEW table, NEW names, Known(table, names, mem), k \notin DOMAIN table
  PROVE  Known(table, names, e)
  BY DEF Known

\* A table stays true when a slot and its entry are set to the same constant.
LEMMA KnownPut ==
  ASSUME NEW frame, NEW mem \in [frame -> Words \cup {Undef}], NEW k \in frame, NEW v,
         NEW e, e = [mem EXCEPT ![k] = v],
         NEW table, NEW names, Known(table, names, mem), k \in names,
         NEW fact \in Consts, v = Wrap(fact[2])
  PROVE  Known(Put(table, k, fact), names, e)
<1>1. DOMAIN e = DOMAIN mem /\ k \in DOMAIN e /\ e[k] = v
  OBVIOUS
<1>2. \A n \in DOMAIN mem : n # k => e[n] = mem[n]
  OBVIOUS
<1>3. PICK new : new = Put(table, k, fact)
  OBVIOUS
<1>4. /\ DOMAIN new = DOMAIN table \cup {k}
      /\ new[k] = fact
      /\ \A n \in DOMAIN table : n # k => new[n] = table[n]
  BY <1>3 DEF Put
<1>5. Known(new, names, e)
  BY <1>1, <1>2, <1>4 DEF Known
<1> QED BY <1>3, <1>5

\* A table stays true when a slot changes and its entry is forgotten.
LEMMA KnownPop ==
  ASSUME NEW frame, NEW mem \in [frame -> Words \cup {Undef}], NEW k, NEW v,
         NEW e, e = [mem EXCEPT ![k] = v],
         NEW table, NEW names, Known(table, names, mem)
  PROVE  Known(Pop(table, k), names, e)
<1>1. DOMAIN e = DOMAIN mem /\ \A n \in DOMAIN mem : n # k => e[n] = mem[n]
  OBVIOUS
<1>2. PICK new : new = Pop(table, k)
  OBVIOUS
<1>3. DOMAIN new = DOMAIN table \ {k} /\ \A n \in DOMAIN new : new[n] = table[n]
  BY <1>2, PopIs
<1>4. Known(new, names, e)
  BY <1>1, <1>3 DEF Known
<1> QED BY <1>2, <1>4

\* What the pass knows before an instruction that runs is still true after it,
\* of what the pass knows then.
LEMMA PropNextTrue ==
  ASSUME NEW m, NEW mem, NEW frame, mem \in [frame -> Words \cup {Undef}],
         NEW ins, WellShaped(ins), ins.op # "LABEL" => MapsTrue(m, mem),
         \A k \in DOMAIN ins.args : ins.args[k] \in Temps \cup Vars => ins.args[k] \in frame,
         NEW in \in Words
  PROVE  MapsTrue(PropNext(m, ins), Effect(mem, ins, in))
<1> DEFINE o == ins.op  a == ins.args
           mm == PropNext(m, ins)  e == Effect(mem, ins, in)
<1>1. CASE o \in PropBarriers
  <2>1. mm = PropStart BY <1>1, PropNextOf
  <2> QED BY <2>1 DEF PropStart, Facts, EmptyDict, MapsTrue, Known
<1>2. CASE o = "CONST"
  <2>1. a[1] \in Temps /\ a[2] \in Consts /\ a[1] \in frame
    BY <1>2 DEF WellShaped, ArgsFit
  <2>2. Known(m.tmp, Temps, mem) /\ Known(m.var, Vars, mem)
    BY <1>2 DEF MapsTrue
  <2>3. mm = Facts(Put(m.tmp, a[1], a[2]), m.var)
    BY <1>2, PropNextOf
  <2>4. e = [mem EXCEPT ![a[1]] = Wrap(a[2][2])]
    BY <1>2, EffectOf
  <2>5. Known(Put(m.tmp, a[1], a[2]), Temps, e)
    BY <2>1, <2>2, <2>4, KnownPut
  <2>6. Known(m.var, Vars, e)
    BY <2>1, <2>2, <2>4, Distinct, KnownElsewhere DEF Known
  <2> QED BY <2>3, <2>5, <2>6 DEF MapsTrue, Facts
<1>3. CASE o = "STORE"
  <2>1. a[1] \in Vars /\ a[2] \in Temps /\ a[1] \in frame
    BY <1>3 DEF WellShaped, ArgsFit
  <2>2. Known(m.tmp, Temps, mem) /\ Known(m.var, Vars, mem)
    BY <1>3 DEF MapsTrue
  <2>3. e = [mem EXCEPT ![a[1]] = mem[a[2]]]
    BY <1>3, EffectOf
  <2>4. Known(m.tmp, Temps, e)
    BY <2>1, <2>2, <2>3, Distinct, KnownElsewhere DEF Known
  <2>5. CASE a[2] \in DOMAIN m.tmp
    <3>1. mm = Facts(m.tmp, Put(m.var, a[1], m.tmp[a[2]]))
      BY <1>3, <2>5, PropNextOf
    <3>2. PICK fact \in Consts : fact = m.tmp[a[2]] /\ mem[a[2]] = Wrap(fact[2])
      BY <2>2, <2>5 DEF Known
    <3>3. Known(Put(m.var, a[1], fact), Vars, e)
      BY <2>1, <2>2, <2>3, <3>2, KnownPut
    <3> QED BY <2>4, <3>1, <3>2, <3>3 DEF MapsTrue, Facts
  <2>6. CASE a[2] \notin DOMAIN m.tmp
    <3>1. mm = Facts(m.tmp, Pop(m.var, a[1]))
      BY <1>3, <2>6, PropNextOf
    <3>2. Known(Pop(m.var, a[1]), Vars, e)
      BY <2>2, <2>3, KnownPop
    <3> QED BY <2>4, <3>1, <3>2 DEF MapsTrue, Facts
  <2> QED BY <2>5, <2>6
<1>4. CASE o = "LOAD"
  <2>1. a[1] \in Temps /\ a[2] \in Vars /\ a[1] \in frame
    BY <1>4 DEF WellShaped, ArgsFit
  <2>2. Known(m.tmp, Temps, mem) /\ Known(m.var, Vars, mem)
    BY <1>4 DEF MapsTrue
  <2>3. e = [mem EXCEPT ![a[1]] = mem[a[2]]]
    BY <1>4, EffectOf
  <2>4. Known(m.var, Vars, e)
    BY <2>1, <2>2, <2>3, Distinct, KnownElsewhere DEF Known
  <2>5. CASE a[2] \in DOMAIN m.var
    <3>1. mm = Facts(Put(m.tmp, a[1], m.var[a[2]]), m.var)
      BY <1>4, <2>5, PropNextOf
    <3>2. PICK fact \in Consts : fact = m.var[a[2]] /\ mem[a[2]] = Wrap(fact[2])
      BY <2>2, <2>5 DEF Known
    <3>3. Known(Put(m.tmp, a[1], fact), Temps, e)
      BY <2>1, <2>2, <2>3, <3>2, KnownPut
    <3> QED BY <2>4, <3>1, <3>2, <3>3 DEF MapsTrue, Facts
  <2>6. CASE a[2] \notin DOMAIN m.var
    <3>1. mm = Facts(Pop(m.tmp, a[1]), m.var)
      BY <1>4, <2>6, PropNextOf
    <3>2. Known(Pop(m.tmp, a[1]), Temps, e)
      BY <2>2, <2>3, KnownPop
    <3> QED BY <2>4, <3>1, <3>2 DEF MapsTrue, Facts
  <2> QED BY <2>5, <2>6
<1>5. CASE o \in PropDefines
  <2>1. a[1] \in Temps
    BY <1>5 DEF WellShaped, ArgsFit, PropDefines
  <2>2. Known(m.tmp, Temps, mem) /\ Known(m.var, Vars, mem)
    BY <1>5 DEF MapsTrue, PropDefines, BinOps, UnaryOps
  <2>3. mm = Facts(Pop(m.tmp, a[1]), m.var)
    BY <1>5, PropNextOf
  <2>4. PICK v : e = [mem EXCEPT ![a[1]] = v]
    <3>1. o \in BinOps => e = [mem EXCEPT ![a[1]] = Arith(o, mem[a[2]], mem[a[3]])]
      BY EffectOf
    <3>2. o \in UnaryOps => e = [mem EXCEPT ![a[1]] = Unary(o, mem[a[2]])]
      BY EffectOf
    <3>3. o = "LOAD_ARR" => e = [mem EXCEPT ![a[1]] = mem[Cell(a[2], mem[a[3]])]]
      BY EffectOf
    <3>4. o = "READ_INT" => e = [mem EXCEPT ![a[1]] = in]
      BY EffectOf
    <3> HIDE DEF e
    <3> QED BY <1>5, <3>1, <3>2, <3>3, <3>4 DEF PropDefines
  <2>5. Known(Pop(m.tmp, a[1]), Temps, e)
    BY <2>2, <2>4, KnownPop
  <2>6. Known(m.var, Vars, e)
    BY <2>1, <2>2, <2>4, Distinct, KnownElsewhere DEF Known
  <2> QED BY <2>3, <2>5, <2>6 DEF MapsTrue, Facts
<1>6. CASE o \notin PropBarriers \cup {"CONST", "STORE", "LOAD"} \cup PropDefines
  <2>1. MapsTrue(m, mem)
    BY <1>6 DEF PropBarriers
  <2>2. mm = m
    BY <1>6, PropNextOf
  <2>3. e = mem \/ \E b, k, v : e = [mem EXCEPT ![Cell(b, k)] = v]
    <3>1. CASE o = "STORE_ARR"
      <4>1. e = [mem EXCEPT ![Cell(a[1], mem[a[2]])] = mem[a[3]]]
        BY <3>1, EffectOf
      <4> QED BY <4>1
    <3>2. CASE o # "STORE_ARR"
      BY <1>6, <3>2, EffectOf DEF PropBarriers, PropDefines
    <3> QED BY <3>1, <3>2
  <2>4. Known(m.tmp, Temps, e) /\ Known(m.var, Vars, e)
    BY <2>1, <2>3, Distinct, KnownElsewhere DEF MapsTrue, Known
  <2> QED BY <2>1, <2>2, <2>4 DEF MapsTrue
<1> QED BY <1>1, <1>2, <1>3, <1>4, <1>5, <1>6

-----------------------------------------------------------------------------
\* The pass drops nothing and replaces nothing but the LOAD of a known variable.
LEMMA PropMakes ==
  ASSUME NEW r \in Runs, r.pass = "cprop", NEW i \in DOMAIN r.code
  PROVE  /\ ~Skips(r, i)
         /\ Made(r, i) = IF Propagates(r.maps[i], r.code[i])
                         THEN LET k == r.maps[i].var[r.code[i].args[2]]
                              IN  CONST(r.code[i].args[1], k[1], k[2])
                         ELSE r.code[i]
<1>1. EmittedAt(r, i) = PropEmit(r.maps[i], r.code[i])
  BY DEF EmittedAt, Emitted
<1>2. ~Skips(r, i)
  BY <1>1 DEF Skips, PropEmit
<1>3. EmittedAt(r, i) = <<Made(r, i)>>
  BY <1>2, PlaceIs DEF Made
<1>4. <<Made(r, i)>> = PropEmit(r.maps[i], r.code[i])
  BY <1>1, <1>3
<1>5. CASE Propagates(r.maps[i], r.code[i])
  BY <1>2, <1>4, <1>5 DEF PropEmit
<1>6. CASE ~Propagates(r.maps[i], r.code[i])
  BY <1>2, <1>4, <1>6 DEF PropEmit
<1> QED BY <1>5, <1>6

\* Its tables hold constants.
Tables(m) == /\ m = Facts(m.tmp, m.var)
             /\ \A t \in DOMAIN m.tmp : m.tmp[t] \in Consts
             /\ \A v \in DOMAIN m.var : m.var[v] \in Consts

LEMMA TablesHold ==
  ASSUME NEW r \in Runs, r.pass = "cprop"
  PROVE  \A i \in 1..(Len(r.code) + 1) : Tables(r.maps[i])
<1> DEFINE n == Len(r.code)
           S == {i \in 1..(n + 1) : Tables(r.maps[i])}
<1>1. n \in Nat /\ DOMAIN r.code = 1..n
  BY RunIs
<1>2. 1 \in S
  <2>1. r.maps[1] = PropStart
    BY RunIs DEF KnownFirst
  <2>2. Tables(PropStart)
    BY DEF Tables, PropStart, Facts, EmptyDict
  <2> QED BY <1>1, <2>1, <2>2
<1>3. ASSUME NEW i \in 1..n, i \in S PROVE i + 1 \in S
  <2> DEFINE m == r.maps[i]  ins == r.code[i]  a == ins.args  o == ins.op
             mm == PropNext(m, ins)
  <2>1. WellShaped(ins) /\ r.maps[i + 1] = mm
    BY <1>1, RunIs DEF KnownNext
  <2>2. Tables(m)
    BY <1>3
  <2>3. ASSUME NEW tmp, NEW var,
               \A t \in DOMAIN tmp : tmp[t] \in Consts,
               \A v \in DOMAIN var : var[v] \in Consts
        PROVE  Tables(Facts(tmp, var))
    BY <2>3 DEF Tables, Facts
  <2>4. ASSUME NEW f, NEW k, NEW v \in Consts, \A t \in DOMAIN f : f[t] \in Consts
        PROVE  \A t \in DOMAIN Put(f, k, v) : Put(f, k, v)[t] \in Consts
    <3>1. PICK g : g = Put(f, k, v)
      OBVIOUS
    <3>2. DOMAIN g = DOMAIN f \cup {k} /\ g[k] = v /\ \A u \in DOMAIN f : u # k => g[u] = f[u]
      BY <3>1 DEF Put
    <3>3. \A t \in DOMAIN g : g[t] \in Consts
      BY <2>4, <3>2
    <3> QED BY <3>1, <3>3
  <2>5. ASSUME NEW f, NEW k, \A t \in DOMAIN f : f[t] \in Consts
        PROVE  \A t \in DOMAIN Pop(f, k) : Pop(f, k)[t] \in Consts
    <3>1. PICK g : g = Pop(f, k)
      OBVIOUS
    <3>2. DOMAIN g = DOMAIN f \ {k} /\ \A u \in DOMAIN g : g[u] = f[u]
      BY <3>1, PopIs
    <3>3. \A t \in DOMAIN g : g[t] \in Consts
      BY <2>5, <3>2
    <3> QED BY <3>1, <3>3
  <2>6. /\ \A t \in DOMAIN m.tmp : m.tmp[t] \in Consts
        /\ \A v \in DOMAIN m.var : m.var[v] \in Consts
    BY <2>2 DEF Tables
  <2>7. o = "CONST" => a[2] \in Consts
    BY <2>1 DEF WellShaped, ArgsFit
  <2>8. \/ mm = PropStart \/ mm = m
        \/ \E f \in {Put(m.tmp, a[1], a[2]), Put(m.tmp, a[1], m.var[a[2]]), Pop(m.tmp, a[1])} :
              /\ mm = Facts(f, m.var)
              /\ \A t \in DOMAIN f : f[t] \in Consts
        \/ \E f \in {Put(m.var, a[1], m.tmp[a[2]]), Pop(m.var, a[1])} :
              /\ mm = Facts(m.tmp, f)
              /\ \A t \in DOMAIN f : f[t] \in Consts
    <3> HIDE DEF m, mm, a
    <3>1. CASE o = "CONST"
      BY <2>4, <2>6, <2>7, <3>1, PropNextOf DEF mm, a
    <3>2. CASE o = "STORE"
      BY <2>4, <2>5, <2>6, <3>2, PropNextOf DEF mm, a
    <3>3. CASE o = "LOAD"
      BY <2>4, <2>5, <2>6, <3>3, PropNextOf DEF mm, a
    <3>4. CASE o \in PropDefines
      BY <2>5, <2>6, <3>4, PropNextOf DEF mm, a
    <3>5. CASE o \notin {"CONST", "STORE", "LOAD"} \cup PropDefines
      BY <3>5, PropNextOf DEF mm, a
    <3> QED BY <3>1, <3>2, <3>3, <3>4, <3>5
  <2>9. Tables(PropStart)
    BY DEF Tables, PropStart, Facts, EmptyDict
  <2>10. Tables(mm)
    <3> HIDE DEF m, mm, a
    <3> QED BY <2>2, <2>3, <2>6, <2>8, <2>9
  <2> QED BY <1>1, <2>1, <2>10
<1> HIDE DEF S
<1>4. \A i \in 1..(n + 1) : i \in S
  BY <1>1, <1>2, <1>3, Along
<1> QED BY <1>4 DEF S

\* The pass keeps the labels and where branches go.
LEMMA PropEmitsAlike ==
  ASSUME NEW r \in Runs, r.pass = "cprop"
  PROVE  EmitsAlike(r)
<1> SUFFICES ASSUME NEW i \in DOMAIN r.code
             PROVE  /\ ~Skips(r, i)
                    /\ WellShaped(Made(r, i))
                    /\ \/ Made(r, i) = r.code[i]
                       \/ Made(r, i).op = "CONST" /\ r.code[i].op = "LOAD"
  BY DEF EmitsAlike, Branches
<1>1. CASE Propagates(r.maps[i], r.code[i])
  <2> DEFINE k == r.maps[i].var[r.code[i].args[2]]  a == r.code[i].args
  <2>1. r.code[i].op = "LOAD" /\ a[2] \in DOMAIN r.maps[i].var
    BY <1>1 DEF Propagates
  <2>2. i \in 1..(Len(r.code) + 1)
    BY RunIs
  <2>3. k \in Consts
    BY <2>1, <2>2, TablesHold DEF Tables
  <2>4. a[1] \in Temps
    BY <2>1, RunIs, ArgsAre
  <2>5. Made(r, i) = CONST(a[1], k[1], k[2]) /\ ~Skips(r, i)
    BY <1>1, PropMakes
  <2> HIDE DEF k, a
  <2>6. k = <<k[1], k[2]>>
    BY <2>3 DEF Consts
  <2>7. WellShaped(CONST(a[1], k[1], k[2]))
    BY <2>3, <2>4, <2>6 DEF WellShaped, CONST, I, ArgsFit, Ops, BinOps, UnaryOps
  <2> QED BY <2>1, <2>5, <2>7 DEF CONST, I
<1>2. CASE ~Propagates(r.maps[i], r.code[i])
  BY <1>2, PropMakes, RunIs
<1> QED BY <1>1, <1>2

\* Every step of a propagated function does what the step of the function does.
LEMMA PropKeeps ==
  ASSUME NEW r \in Runs, r.pass = "cprop", NEW i \in DOMAIN r.code,
         NEW x, NEW y, Before(r, i, x, y), ~Stuck(x, r.code[i]), NEW in \in Words
  PROVE  KeepsStep(r, i, x, y, in)
<1> DEFINE ins == r.code[i]  jns == Made(r, i)  m == r.maps[i]  a == ins.args
<1>1. ~Skips(r, i) /\ DroppedTemps(r) = {}
  BY PropMakes DEF DroppedTemps
<1>2. x \in [FrameOf(r) -> Words \cup {Undef}] /\ y = x
  BY <1>1 DEF Before
<1>3. Mimics(jns, x, ins, x) /\ Effect(x, jns, in) = Effect(x, ins, in)
  <2>1. CASE ~Propagates(m, ins)
    <3>1. jns = ins
      BY <2>1, PropMakes
    <3> QED BY <3>1 DEF Mimics
  <2>2. CASE Propagates(m, ins)
    <3>1. ins.op = "LOAD" /\ a[2] \in DOMAIN m.var /\ MapsTrue(m, x)
      BY <2>2 DEF Propagates, Before, KnowledgeTrue
    <3>2. PICK k \in Consts : /\ k = m.var[a[2]]
                              /\ a[2] \in DOMAIN x
                              /\ x[a[2]] = Wrap(k[2])
      BY <3>1 DEF MapsTrue, Known
    <3>3. jns = CONST(a[1], k[1], k[2])
      BY <2>2, <3>2, PropMakes
    <3>4. jns.op = "CONST" /\ jns.args[1] = a[1] /\ jns.args[2][2] = k[2]
      BY <3>3 DEF CONST, I
    <3>5. ~Stuck(x, jns)
      <4>1. Reads(x, jns) = {} /\ Writes(x, jns) = {}
        BY <3>4, ReadsOf DEF Writes
      <4> QED BY <4>1 DEF Stuck
    <3>6. Effect(x, jns, in) = Effect(x, ins, in)
      <4>1. Effect(x, jns, in) = [x EXCEPT ![jns.args[1]] = Wrap(jns.args[2][2])]
        BY <3>4, EffectOf
      <4>2. Effect(x, ins, in) = [x EXCEPT ![a[1]] = x[a[2]]]
        BY <3>1, EffectOf
      <4> QED BY <3>2, <3>4, <4>1, <4>2
    <3>7. Shown(x, jns) = Shown(x, ins) /\ Going(x, jns) = Going(x, ins)
      BY <3>1, <3>4, QuietIs DEF Quiet, Pure
    <3>8. Consumes(jns) = Consumes(ins)
      BY <3>1, <3>4 DEF Consumes
    <3> QED BY <3>5, <3>6, <3>7, <3>8 DEF Mimics
  <2> QED BY <2>1, <2>2
<1>4. MapsTrue(r.maps[i + 1], Effect(x, ins, in))
  <2>1. WellShaped(ins) /\ r.maps[i + 1] = PropNext(m, ins)
    BY RunIs DEF KnownNext
  <2>2. ins.op # "LABEL" => MapsTrue(m, x)
    BY DEF Before, KnowledgeTrue
  <2>3. \A k \in DOMAIN a : a[k] \in Temps \cup Vars => a[k] \in FrameOf(r)
    BY OperandSlot
  <2> HIDE DEF ins, m, a
  <2> QED BY <1>2, <2>1, <2>2, <2>3, PropNextTrue DEF a
<1>5. /\ Mimics(jns, y, ins, x)
      /\ Behind(r, i, y, in) = Effect(x, ins, in)
  BY <1>1, <1>2, <1>3 DEF Behind
<1>6. KnowledgeTrue(r, i + 1, Effect(x, ins, in), Behind(r, i, y, in))
  BY <1>4 DEF KnowledgeTrue
<1> QED BY <1>5, <1>6 DEF KeepsStep

=============================================================================
