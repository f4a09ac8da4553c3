------------------------------- MODULE CppRun -------------------------------
(***************************************************************************)
(* The C++ that cpp_transpile.py writes for a program: whether a compiler  *)
(* takes it (CompilesClean), and what it does, statement by statement,     *)
(* beside the program itself (Activations).  An int is a word of it;       *)
(* where C++ leaves the outcome open the model stops.                      *)
(***************************************************************************)
EXTENDS Activations, CppGen, TLC
LOCAL INSTANCE SequencesExt

CONSTANTS Programs,     \* a list of lowered programs
          InputLists,   \* lists of answers of the environment
          Strings       \* where the string constants are: added to each address

VARIABLES image,  \* a program, and what the backend makes of it
          inputs,
          exec,   \* the C++ program: [stack, out, used, st]
          ref     \* the program at work: for the properties only

vars == <<image, inputs, exec, ref>>

-----------------------------------------------------------------------------
(***************************************************************************)
(* What the compiler asks of a function.                                   *)
(***************************************************************************)
InExpr(e) ==
  CASE e[1] = "id" -> {e[2]}
    [] e[1] \in {"num", "str", "void"} -> {}
    [] e[1] = "call" -> {e[3][k] : k \in DOMAIN e[3]}
    [] e[1] = "[]" -> {e[3]}
    [] OTHER -> {e[k] : k \in 2..Len(e)}

IntsIn(s) ==
  CASE s[1] \in {"label", "goto", "resize"} -> {}
    [] s[1] \in {"if", "if not", "scanf", "exit"} -> {s[2]}
    [] s[1] = "=" -> {s[2]} \cup InExpr(s[3])
    [] s[1] = "[]=" -> {s[3], s[4]}
    [] s[1] = "print" -> {s[3]}
    [] s[1] \in {"do", "return"} -> InExpr(s[2])

VectorsIn(s) ==
  CASE s[1] \in {"[]=", "resize"} -> {s[2]}
    [] s[1] = "=" /\ s[3][1] = "[]" -> {s[3][2]}
    [] OTHER -> {}

CalledIn(s) ==
  CASE s[1] = "=" /\ s[3][1] = "call" -> {s[3][2]}
    [] s[1] = "do" -> {s[2][2]}
    [] OTHER -> {}

GoesTo(s) == CASE s[1] = "goto" -> {s[2]} [] s[1] \in {"if", "if not"} -> {s[3]} [] OTHER -> {}

Names2(decls) == {d[2] : d \in decls}
Params(f) == {f.params[k] : k \in DOMAIN f.params}
Locals(f) == Params(f) \cup Names2(f.vectors \cup f.ints)

\* No name is declared twice, and none is a word of the language.
DeclaredOnce(f) ==
  /\ Cardinality(Params(f)) = Len(f.params)
  /\ Cardinality(Locals(f)) = Len(f.params) + Cardinality(f.vectors \cup f.ints)
  /\ Locals(f) \cap Keywords = {}

\* What is used is declared, as what it is used as, and no local hides a
\* function that is called.
NamesResolve(cpp, f) ==
  \A k \in DOMAIN f.body :
    /\ IntsIn(f.body[k]) \subseteq Params(f) \cup Names2(f.ints)
    /\ VectorsIn(f.body[k]) \subseteq Names2(f.vectors)
    /\ CalledIn(f.body[k]) \subseteq {cpp[g].name : g \in DOMAIN cpp} \ Locals(f)

LabelNames(f) == {k \in DOMAIN f.body : f.body[k][1] = "label"}

\* A goto has its label, and a label a statement after it.
GotosLand(f) ==
  /\ \A k \in DOMAIN f.body : \A l \in GoesTo(f.body[k]) :
       \E n \in LabelNames(f) : f.body[n][2] = l
  /\ \A m, n \in LabelNames(f) : f.body[m][2] = f.body[n][2] => m = n
LabelsLeadOn(f) == f.body # <<>> => Len(f.body) \notin LabelNames(f)

Compiles(cpp) ==
  \A k \in DOMAIN cpp : /\ DeclaredOnce(cpp[k]) /\ NamesResolve(cpp, cpp[k])
                        /\ GotosLand(cpp[k]) /\ LabelsLeadOn(cpp[k])

Compiled(prog) ==
  LET cpp == Generate(prog) IN [prog |-> prog, cpp |-> cpp, ok |-> Compiles(cpp)]

Prog == image.prog
Cpp  == image.cpp

CppFunction(name) == Cpp[CHOOSE f \in DOMAIN Cpp : Cpp[f].name = name]

-----------------------------------------------------------------------------
(***************************************************************************)
(* C++ at work.                                                            *)
(***************************************************************************)
\* Mutant: declared without a value.
NoFirstValue == Undef
\* What an int is declared with.
FirstValue == 0

Activated(f, args) ==
  [fn |-> f.name, pc |-> 1,
   \* a vector by its elements; a parameter is its argument
   vec |-> [v \in Names2(f.vectors) |-> <<>>],
   val |-> [x \in Params(f) \cup Names2(f.ints) |->
              IF x \in Params(f) THEN args[CHOOSE k \in DOMAIN args : f.params[k] = x] ELSE FirstValue]]

CTop == exec.stack[Len(exec.stack)]
Body == CppFunction(CTop.fn).body

Operation(op, t, e) ==
  LET x == t.val[e[2]]
  IN  IF Len(e) = 2 THEN Unary(op, x) ELSE Arith(op, x, t.val[e[3]])

Evaluates(t, e) ==
  CASE e[1] = "num" -> Wrap(e[2])
    [] e[1] = "str" -> Wrap(Strings + e[2])
    [] e[1] = "id"  -> t.val[e[2]]
    [] e[1] = "[]"  -> t.vec[e[2]][t.val[e[3]] + 1]
    [] OTHER -> Operation(e[1], t, e)

\* The indices of std::vector are not looked at: outside, anything can happen.
OutOfVector(t, s) ==
  LET outside(v, i) == t.val[i] + 1 \notin DOMAIN t.vec[v]
  IN  \/ s[1] = "[]=" /\ outside(s[2], s[3])
      \/ s[1] = "=" /\ s[3][1] = "[]" /\ outside(s[3][2], s[3][3])

\* A sum that has no room and a division by zero: anything can happen.
NoValue(t, s) ==
  /\ s[1] = "=" /\ s[3][1] \in {"ADD", "SUB", "MUL", "DIV", "MOD"}
  /\ LET x == t.val[s[3][2]]  y == t.val[s[3][3]]
         exact == CASE s[3][1] = "ADD" -> x + y [] s[3][1] = "SUB" -> x - y
                    [] s[3][1] = "MUL" -> x * y
                    [] OTHER -> IF y = 0 THEN Half ELSE TruncDiv(x, y)
     IN  exact \notin -Half..(Half - 1)

\* printf by the kind: "%s" follows the pointer, which must be a string's.
PrintsOf(k, v) ==
  CASE k = "string" -> <<IF v >= Strings THEN <<"string", v - Strings>> ELSE <<"wild", v>>, <<"char", 10>>>>
    [] k = "char" -> <<<<"char", v>>, <<"char", 10>>>>
    [] OTHER -> <<<<"int", v>>, <<"char", 10>>>>

Stopping(how)   == [exec EXCEPT !.st = how]
CTopped(t)      == [exec EXCEPT !.stack[Len(exec.stack)] = t]
Assigned(t, x, v) == [t EXCEPT !.val[x] = v, !.pc = @ + 1]
Jumped(t, l)    ==
  [t EXCEPT !.pc = CHOOSE k \in DOMAIN Body : Body[k] = <<"label", l>>]

Calls(t, call) ==
  LET f == CppFunction(call[2])
  IN  [exec EXCEPT !.stack = Append(@, Activated(f, [k \in DOMAIN call[3] |-> t.val[call[3][k]]]))]

\* return: the caller's statement takes the value; main's ends the program.
Returns(t, e) ==
  LET below == SubSeq(exec.stack, 1, Len(exec.stack) - 1)
      u == below[Len(below)]
      s == CppFunction(u.fn).body[u.pc]
      v == Evaluates(t, e)
  IN  IF below = <<>> THEN [exec EXCEPT !.st = "halt", !.out = Append(@, <<"exit", v>>)]
      ELSE [exec EXCEPT !.stack = Append(SubSeq(below, 1, Len(below) - 1),
              IF s[1] = "=" THEN Assigned(u, s[2], v) ELSE [u EXCEPT !.pc = @ + 1])]

Shows(out, used) == [CTopped([CTop EXCEPT !.pc = @ + 1]) EXCEPT !.out = out, !.used = used]

Statement(s) ==
  LET t == CTop  next == [t EXCEPT !.pc = @ + 1]
  IN CASE OutOfVector(t, s) \/ NoValue(t, s) -> Stopping("open")
       [] s[1] = "label" -> CTopped(next)
       [] s[1] = "goto" -> CTopped(Jumped(t, s[2]))
       [] s[1] = "if" -> CTopped(IF t.val[s[2]] # 0 THEN Jumped(t, s[3]) ELSE next)
       [] s[1] = "if not" -> CTopped(IF t.val[s[2]] = 0 THEN Jumped(t, s[3]) ELSE next)
       [] s[1] = "=" /\ s[3][1] = "call" -> Calls(t, s[3])
       [] s[1] = "do" -> Calls(t, s[2])
       [] s[1] = "=" /\ s[3][1] # "call" -> CTopped(Assigned(t, s[2], Evaluates(t, s[3])))
       [] s[1] = "[]=" -> CTopped([next EXCEPT !.vec[s[2]][t.val[s[3]] + 1] = t.val[s[4]]])
       [] s[1] = "resize" -> \* to its own size, the second time round
            CTopped([next EXCEPT !.vec[s[2]] =
              [k \in 1..s[3] |-> IF k \in DOMAIN t.vec[s[2]] THEN t.vec[s[2]][k] ELSE 0]])
       [] s[1] = "print" -> Shows(exec.out \o PrintsOf(s[2], t.val[s[3]]), exec.used)
       [] s[1] = "scanf" ->
            [CTopped(Assigned(t, s[2], NextInput(exec, inputs))) EXCEPT !.used = @ + 1]
       [] s[1] = "exit" -> [exec EXCEPT !.st = "halt", !.out = Append(@, <<"exit", t.val[s[2]]>>)]
       [] s[1] = "return" /\ s[2][1] # "void" -> Returns(t, s[2])
       [] s[1] = "return" /\ s[2][1] = "void" -> Returns(t, <<"num", 0>>)

Executed == IF CTop.pc \in DOMAIN Body THEN Statement(Body[CTop.pc]) ELSE Stopping("open")

-----------------------------------------------------------------------------
FnIndex(name) == CHOOSE f \in DOMAIN Prog : Prog[f].name = name
MarkOf(t, k)  == Cpp[FnIndex(t.fn)].marks[k]

From == MarkOf(Top(ref), Top(ref).pc)
To   == MarkOf(Top(ref), Top(ref).pc + 1)

AtBoundary == ref.st = "run" /\ exec.st = "run" /\ CTop.pc = From
OffTheEnd  == Top(ref).pc > Len(FunctionOf(Prog, Top(ref).fn).code)

\* The program moves alone: nothing was written for the instruction, or what
\* it does is not defined.
Alone == AtBoundary /\ (OffTheEnd \/ From = To \/ Stuck(Top(ref).mem, Current(Prog, ref)))

Init ==
  /\ \E k \in DOMAIN Programs : image = Compiled(Programs[k])
  /\ inputs \in InputLists
  /\ ref = Boot(Prog, inputs)
  /\ exec = [stack |-> <<Activated(CppFunction("main"),
                                [k \in DOMAIN CppFunction("main").params |-> inputs[1]])>>,
          out |-> <<>>, used |-> 0, st |-> IF image.ok THEN "run" ELSE "rejected"]

ProgramMoves ==
  /\ Alone
  /\ ref' = Perform1(Prog, ref, inputs)
  /\ UNCHANGED <<image, inputs, exec>>

StatementMoves ==
  /\ exec.st = "run" /\ ref.st \notin {"undef", "fell"}
  /\ ~Alone
  /\ exec' = Executed
  /\ ref' = IF ref.st = "run" /\ CTop.pc = To - 1 /\ exec'.st # "open"
            THEN Perform1(Prog, ref, inputs) ELSE ref
  /\ UNCHANGED <<image, inputs>>

Stopped == exec.st # "run" \/ ref.st \in {"undef", "fell"}

Step == ProgramMoves \/ StatementMoves
Next == Step \/ (Stopped /\ UNCHANGED vars)

\* The program goes on as long as it can.
Spec == Init /\ [][Next]_vars /\ WF_vars(Step)

-----------------------------------------------------------------------------
TypeOK ==
  /\ exec.st \in {"run", "halt", "open", "rejected"}
  /\ ref.st \in {"run", "halt", "undef", "fell"}
  /\ \A k \in DOMAIN exec.stack :
       /\ exec.stack[k].pc \in 1..(Len(CppFunction(exec.stack[k].fn).body) + 1)
       /\ \A x \in DOMAIN exec.stack[k].val : exec.stack[k].val[x] \in -Half..(Half - 1)

\* A compiler takes what is written: names are declared once, those used are
\* declared and mean what they are used for, gotos have their labels and
\* labels their statements (cpp_transpile.py:36-41, 68-94, 135-174).
CompilesClean == image.ok

\* Every variable and vector element of every activation is what the program
\* has there: a declaration, an argument or a copy put under the wrong name
\* shows here even when it is never printed (cpp_transpile.py:154-294).
VariablesHold ==
  AtBoundary =>
    /\ Len(exec.stack) = Len(ref.stack)
    /\ \A k \in DOMAIN ref.stack :
         LET t == ref.stack[k]  u == exec.stack[k]
             here(n) == IF n[1] = "[]" THEN u.vec[Cid(n[2])][n[3] + 1] ELSE u.val[Cid(n)]
         IN  \A n \in DOMAIN t.mem : t.mem[n] # Undef /\ t.kind[n] # "string" => here(n) = t.mem[n]

\* The state of the C++ program is the program's, activation by activation.
StateHolds == TypeOK /\ VariablesHold

Rendered(out) ==
  FlattenSeq([k \in DOMAIN out |-> IF out[k][1] = "exit" THEN <<out[k]>> ELSE <<out[k], <<"char", 10>>>>])

Status ==
  LET r == Current(Prog, ref).args[1]
  IN  <<"exit", IF r = None THEN 0 ELSE Top(ref).mem[r]>>

\* What is printed is what the program shows, each value as what it is; the
\* process ends with the program's status; C++ leaves nothing open but sums
\* without room and divisions without a quotient (cpp_transpile.py:22-27, 217-294).
SameOutput ==
  /\ AtBoundary => exec.out = Rendered(ref.out) /\ exec.used = ref.used
  /\ exec.st = "halt" =>
       /\ ref.st = "halt"
       /\ LET exited == ref.out # <<>> /\ ref.out[Len(ref.out)][1] = "exit"
          IN  exec.out = Rendered(ref.out) \o (IF exited THEN <<>> ELSE <<Status>>)
  /\ exec.st = "open" =>
       ref.st = "run" /\ Current(Prog, ref).op \in {"ADD", "SUB", "MUL", "DIV", "MOD"}

=============================================================================
