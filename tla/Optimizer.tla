----------------------------- MODULE Optimizer -----------------------------
(***************************************************************************)
(* The optimisation pipeline of main() (src/main.py): the selected passes  *)
(* in their fixed order, each one rewriting the program of the one before, *)
(* then a second validation that can still refuse the program.             *)
(*                                                                         *)
(* A step is one pass over the program or, for the passes that sweep until *)
(* nothing changes, one sweep over the function at hand.  source is the    *)
(* program lowering produced and the first validation accepted; nothing    *)
(* reads it again: it is kept for the properties.                          *)
(***************************************************************************)
EXTENDS ConstantPasses, Renaming, Sweeps, BasicBlock, IRValidator, IRMachine

CONSTANTS Jobs,         \* pairs of a lowered program, a list of functions, and
                        \* a set of pass names, the --optim option
          InputLists    \* lists of answers of the environment

Passes == <<"cf", "cprop", "sr", "dce", "cse", "cp", "peephole", "bb", "dce2">>

VARIABLES source, selected, prog, stage, fn

vars == <<source, selected, prog, stage, fn>>

Code(f) == prog[f].code

\* The stage after the k-th pass: the next selected one, or validation.
StageAfter(k) ==
  LET rest == {n \in DOMAIN Passes : n > k /\ Passes[n] \in selected}
  IN  IF rest = {} THEN "validate"
      ELSE Passes[CHOOSE n \in rest : \A m \in rest : n <= m]

Init ==
  /\ \E job \in Jobs : /\ Validate(job[1]) = Valid
                       /\ source = job[1] /\ selected = job[2]
  /\ prog = source
  /\ stage = IF selected = {} THEN "accepted" ELSE StageAfter(0)
  /\ fn = 1

-----------------------------------------------------------------------------
\* A pass that reads each function once.
RewriteAll(Pass(_)) ==
  LET rewritten(p) == [f \in DOMAIN p |-> [p[f] EXCEPT !.code = Pass(@)]]
  IN  prog' = Once(rewritten, prog)

FoldConstants ==
  /\ stage = "cf"
  /\ RewriteAll(FoldFunc)
  /\ stage' = StageAfter(1)
  /\ UNCHANGED <<source, selected, fn>>

\* Mutant: the loop of propagation and folding is left after one round.
PropagateOnce ==
  /\ stage = "cprop"
  /\ RewriteAll(PropFunc)
  /\ stage' = StageAfter(2)
  /\ UNCHANGED <<source, selected, fn>>

\* The loop of propagation and folding ends when either finds nothing to do,
\* or after one propagation when folding is not selected.
PropagateConstants ==
  /\ stage = "cprop"
  /\ RewriteAll(PropFunc)
  /\ stage' = IF prog' # prog /\ "cf" \in selected THEN "refold" ELSE StageAfter(2)
  /\ UNCHANGED <<source, selected, fn>>

Refold ==
  /\ stage = "refold"
  /\ RewriteAll(FoldFunc)
  /\ stage' = IF prog' # prog THEN "cprop" ELSE StageAfter(2)
  /\ UNCHANGED <<source, selected, fn>>

ReduceStrength ==
  /\ stage = "sr"
  /\ RewriteAll(SRFunc)
  /\ stage' = StageAfter(3)
  /\ UNCHANGED <<source, selected, fn>>

EliminateCommon ==
  /\ stage = "cse"
  /\ RewriteAll(CSEFunc)
  /\ stage' = StageAfter(5)
  /\ UNCHANGED <<source, selected, fn>>

PropagateCopies ==
  /\ stage = "cp"
  /\ RewriteAll(CopyFunc)
  /\ stage' = StageAfter(6)
  /\ UNCHANGED <<source, selected, fn>>

OptimizeBlocks ==
  /\ stage = "bb"
  /\ RewriteAll(BBFunc)
  /\ stage' = StageAfter(8)
  /\ UNCHANGED <<source, selected, fn>>

\* Mutant: the next pass does not start from the first function.
SweepOn(code, changed, k) ==
  /\ prog' = [prog EXCEPT ![fn].code = code]
  /\ fn' = IF changed THEN fn ELSE fn + 1
  /\ stage' = IF changed \/ fn < Len(prog) THEN stage ELSE StageAfter(k)
  /\ UNCHANGED <<source, selected>>

\* A sweep over function fn: again while it changes something, else on to the
\* next function and at last to the next pass.
Sweep(code, changed, k) ==
  /\ prog' = [prog EXCEPT ![fn].code = code]
  /\ fn' = IF changed THEN fn ELSE IF fn < Len(prog) THEN fn + 1 ELSE 1
  /\ stage' = IF changed \/ fn < Len(prog) THEN stage ELSE StageAfter(k)
  /\ UNCHANGED <<source, selected>>

\* Mutant: dead code is swept once.
SweepDeadOnce(name, k) ==
  /\ stage = name
  /\ Sweep(DCEOnce(Code(fn)), FALSE, k)

SweepDeadCode(name, k) ==
  /\ stage = name
  /\ Sweep(DCEOnce(Code(fn)), Len(DCEOnce(Code(fn))) < Len(Code(fn)), k)

SweepPeephole ==
  /\ stage = "peephole"
  /\ LET r == PeepholeOnce(Code(fn)) IN Sweep(r.out, r.changes # 0, 7)

ValidateAgain ==
  /\ stage = "validate"
  /\ stage' = IF Validate(prog) = Valid THEN "accepted" ELSE "rejected"
  /\ UNCHANGED <<source, selected, prog, fn>>

Step == \/ FoldConstants \/ PropagateConstants \/ Refold \/ ReduceStrength
        \/ SweepDeadCode("dce", 4) \/ EliminateCommon \/ PropagateCopies
        \/ SweepPeephole \/ OptimizeBlocks \/ SweepDeadCode("dce2", 9)
        \/ ValidateAgain

Finished == stage \in {"accepted", "rejected"} /\ UNCHANGED vars

Next == Step \/ Finished

\* main() runs to its end: nothing but its own loops can keep it from it.
Spec == Init /\ [][Next]_vars /\ WF_vars(Step)

-----------------------------------------------------------------------------
Stages == ToSet(Passes) \cup {"refold", "validate", "accepted", "rejected"}

\* The shape of the state: the passes rewrite code and nothing else, and every
\* instruction they make has the operands its operation takes.
TypeOK ==
  /\ stage \in Stages
  /\ fn \in DOMAIN prog
  /\ selected \subseteq ToSet(Passes)
  /\ [f \in DOMAIN prog |-> [prog[f] EXCEPT !.code = <<>>]]
       = [f \in DOMAIN source |-> [source[f] EXCEPT !.code = <<>>]]
  /\ \A f \in DOMAIN prog : \A i \in DOMAIN Code(f) : WellShaped(Code(f)[i])

\* No pass breaks the discipline of temps: the maps of folding, strength
\* reduction, CSE and copy propagation that no label clears are only right
\* because of it (constant_folding.py:23, cse.py:37, copy_propagation.py:26).
TempDiscipline == \A f \in DOMAIN prog : DisciplinedTemps(Code(f))

\* What each pass may take for granted of the code it is given, whichever
\* passes ran before it: its shape, and the discipline of its temps.
CodeInShape == TypeOK /\ TempDiscipline

\* Whatever the passes do, the second validation can only complain of a
\* variable: no temp loses its definition, no branch its label, no call its
\* arguments, at any stage.
OnlyVariablesUndefined ==
  \/ Validate(prog) = Valid
  \/ Validate(prog)[1] = "undefined" /\ ~IsTemp(Validate(prog)[2])

\* Every variable the function reads is stored, or is a parameter, before its
\* first label or branch.
InitialisedAtEntry(fun) ==
  LET p == fun.code
      entry == {i \in DOMAIN p : \A k \in 1..i : p[k].op \notin Branches \cup {"LABEL"}}
  IN  \A i \in DOMAIN p : \A v \in {u \in Used(p[i]) : ~IsTemp(u)} :
        v \in fun.params \/ \E k \in entry : v \in Defined(p[k])

\* A program that initialises what it reads before it branches is never
\* refused by the validation after optimisation.
InitialisedAccepted ==
  (\A f \in DOMAIN source : InitialisedAtEntry(source[f])) => stage # "rejected"

\* What the first validation accepts, the second does.
NeverRejected == stage # "rejected"

\* What the passes make of a valid program is still one, but for the variables
\* of a program that may read one it never stored.
StaysValid == OnlyVariablesUndefined /\ InitialisedAccepted

\* When a dead-code pass is over no pure instruction is left whose result is
\* unread, not even one that only a dead instruction read.
SweptClean ==
  stage \in {"dce", "dce2"} /\ stage' # stage =>
    \A f \in DOMAIN prog' : LET p == prog'[f].code
                            IN  \A i \in DOMAIN p : p[i].op \in Pure => p[i].args[1] \in UsedTemps(p)

\* When the loop of propagation and folding stops, neither has work left.
\* It stops as soon as one of the two finds nothing, not when both do.
LoopLeftComplete ==
  LET left == /\ stage \in {"cprop", "refold"}
              /\ stage' \notin {"cprop", "refold"}
      fixed(p) == PropFunc(p) = p /\ FoldFunc(p) = p
  IN  left /\ "cf" \in selected => \A f \in DOMAIN prog' : fixed(prog'[f].code)

\* A pass that repeats until nothing changes leaves nothing undone: neither the
\* loop of propagation and folding (main.py:275-292) nor the sweeps of dead
\* code (dead_code_elimination.py:48-56).
NothingLeft == [][LoopLeftComplete /\ SweptClean]_vars

\* Every pass but the basic-block one: on every list of inputs the new
\* function does what the old one did.
StepPreserves ==
  \A f \in DOMAIN prog :
    \/ prog'[f] = prog[f]
    \/ Implements(prog'[f].code, Code(f), prog[f].params, InputLists)
PassPreserves == [][stage # "bb" => StepPreserves]_vars

\* The pipeline comes to its end: the loop of main() and the sweeps of the
\* passes reach their fixed points.
Terminates == <>(stage \in {"accepted", "rejected"})

=============================================================================
