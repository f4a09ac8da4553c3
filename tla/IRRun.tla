------------------------------- MODULE IRRun -------------------------------
(***************************************************************************)
(* A lowered function at work: ASTtoIR's code for one function, executed   *)
(* instruction by instruction, against what its syntax tree promises.      *)
(***************************************************************************)
EXTENDS ASTtoIR, IRMachine, IRValidator

CONSTANTS Trees,        \* functions, as syntax trees
          Others,       \* the declarations of the functions they call
          InputLists    \* lists of answers of the environment

VARIABLES tree, inputs,
          prog,     \* the lowered functions, the one that runs last
          c,        \* its configuration
          script    \* the events its tree means: for the properties only

vars == <<tree, inputs, prog, c, script>>

Fun == prog[Len(prog)]

\* What its tree promises, against what it has shown.
Promise == INSTANCE SourceRun WITH shown <- c.out

Init ==
  /\ tree \in Trees
  /\ inputs \in InputLists
  /\ prog = Lower(Append(Others, tree))
  /\ c = Start(Fun.code, Fun.params, inputs)
  /\ script = Promise!Events(tree, inputs)

Step ==
  /\ c.st = "run"
  /\ c' = StepOnce(Fun.code, c, inputs)
  /\ UNCHANGED <<tree, inputs, prog, script>>

Next == Step \/ (c.st # "run" /\ UNCHANGED vars)

\* A processor that runs the code does not stop of itself.
Spec == Init /\ [][Next]_vars /\ WF_vars(Step)

-----------------------------------------------------------------------------
TypeOK ==
  /\ c.pc \in 1..(Len(Fun.code) + 1)
  /\ c.st \in {"run", "ret", "exit", "undef", "fell"}
  /\ \A n \in DOMAIN c.mem : c.mem[n] \in -Half..(Half - 1) \cup {Undef}

\* Lowered code does what the tree it comes from means: instruction by
\* instruction it shows those events, in that order, and shows them all,
\* through nested loops, breaks, continues, fall-through arms and the side
\* effects inside expressions (ast_to_ir.py:69-239).
DoesWhatItSays == Promise!Spec

\* A function that initialises its variables and ends by a return reads no
\* temp on a path that does not define it, and never runs off its end into
\* the code of the next function.
NeverAstray == c.st \notin {"undef", "fell"}

\* Such a function runs within its list and its frame to a return or an exit.
RunsStraight == TypeOK /\ NeverAstray

\* Such code is accepted by the validator: one LABEL for every label a branch
\* names, as many PARAMs as the CALL says, a RET of the function's type.
LoweredIsValid == c.pc = 1 => Validate(prog) = Valid

\* What ir_validator.py:1 says validation covers, "use-before-def": code it
\* accepts reads nothing that was never written.
NoUseBeforeDef == Validate(prog) = Valid => c.st # "undef"

\* The run comes to its end.
Returns == <>(c.st # "run")

=============================================================================
