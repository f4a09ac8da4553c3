# A verification of the tiny-C compiler

This directory models the compiler in `src/`: a Python program that reads a small
C-like language, lowers it to a linear three-address IR, optimises the IR with nine
passes and emits RISC-V assembly, x86-64 assembly or C++.  The TLA+ modules are
translated from the source; TLC checks them on small programs, and TLAPS proves what
is said below under "Proofs" for every program.

What can go wrong in a compiler is that a step changes what the program means.  The
state machines here are therefore of two kinds: the compiler's own loops (the scan, the
parse and its recovery, the checker's walk, which pass runs when, which block is merged
next) and the *compiled code at work*, instruction by instruction, beside the thing it
must agree with: the source tree it comes from, the code before a pass, or the IR a
backend's text was made of.

## 1. Inventory

| Component | Source | State it keeps | Operations | Correct when |
|---|---|---|---|---|
| Lexer | `lexer/lexer.py`, `tokens.py` | position, line, column, tokens | one turn of the scan per token, blank or comment | nothing is lost; tokens are the longest and where they say |
| Parser | `parser/parser.py`, `ast.py` | token position, errors, the calls in progress | recursive descent; `_sync_to_next_statement`, `_sync_to_next_function` after an error | it ends on every input; an error never loses a later construct |
| Symbol table | `symbol_table.py` | a stack of scopes | enter, exit, define, lookup | a name resolves to its innermost declaration |
| Type checker | `type_checker.py` | scopes, current function, loop and switch depth, errors | one visitor per node | depth is restored on every way out of a statement; what it accepts lowers |
| Unused warnings | `unused_warnings.py` | scopes with usage marks | the same walk | a variable is reported exactly when nothing reads it; see the findings for arrays |
| Lowering | `ir/ast_to_ir.py` | counters of temps and labels, code, stack of (break, continue) labels | one case per statement and expression | the code does what the tree means |
| Validator | `ir/ir_validator.py` | names defined so far, pending PARAMs | one walk in list order | what it accepts can be executed |
| Nine passes | `optimizer/*.py` | per pass: maps of constants, copies, expressions; a list of blocks | see below | the new function does what the old one did; temps keep their discipline; sweeps end |
| Pipeline | `main.py` | the program, the selection | the passes in a fixed order, a loop of two of them, a second validation | any selection works; a valid program stays valid |
| RISC-V backend | `backend/riscv.py` | frame layout, register cache | one case per instruction | the text does what the instruction means; arguments arrive; frames do not overlap |
| x86-64 backend | `backend/x86_64.py` | frame layout, pending arguments, helpers used | one case per instruction; four runtime helpers | the same; the stack is aligned; a trap is the program's |
| C++ transpiler | `backend/cpp_transpile.py` | declared names, kinds, pending arguments | one statement per instruction | a compiler takes the text, and it does what the IR does |
| Graph dumps | `viz.py` | node counter | DOT text | output only |

**Interaction.** Everything is one thread and one call after the other:
`main` scans, parses, checks and warns (`main.py:197-230`), lowers (235), validates (236-245), runs the selected passes
over the same `program` (259-388), validates again (391-400) and calls a backend.  The
components share one thing, the IR, and rely on facts about it that no type states:

* every temp has one defining instruction, and is read only after it and within the
  same label-to-label stretch.  Folding, strength reduction, CSE and copy propagation
  keep maps of temps that no label clears; they are right only because of this;
* every branch names a LABEL of its function, and every label is unique;
* a variable or array element has been written when it is read.

**What is hard.** There is no concurrency, no message and nothing persisted.  The
hazards (all of them, with their lines, are in `PROJECT.json`, and with a note where the passing runs leave a case
out or the code is exposed to it) are of these kinds:

* *stale facts*: what a pass noted is used on a path, or after a write, where it no
  longer holds; block predecessors are patched and not recomputed during a chain of merges;
* *order and selection*: nine passes in 512 selections, each fed by those before;
* *moving code*: a block that is merged leaves its place, and what fell through to its
  neighbour falls elsewhere;
* *loops that must end*: propagation and folding, and the sweeps of three passes,
  repeat until a counter says nothing changed;
* *what a generator believes*: which slot is in a register, which kind a value has, how far
  the stack pointer has moved, which name is spelled how, on every path through the text;
* *recovery*: after an error the parser skips and goes on, with everything it had begun;
* *nesting*: `break` and `continue` through loops and switches; side effects inside
  operands, indices and assignments;
* *numbers*: compile-time arithmetic is Python's, run-time arithmetic is the target's.

## 2. Modules

```
IR                       operands, instructions, reads and writes, dictionaries, scans,
 |                       the form of each instruction, branches that land
 +- IRMachine            what an IR function does when it runs
 |   +- SourceRun        ABSTRACT: show the events the tree means, one after the other
 |   +- IRRun            lowered code at work; refines SourceRun
 |   +- Lockstep         a function and what one of four passes made of it, side by side
 |   |   +- MachineLemmas       the machine, what a pass has to show, propagation (proofs)
 |   |       +- LockstepProofs  the other passes, the theorems                     (proofs)
 |   +- BlockPass        the basic-block pass, one merge at a time
 |   +- Optimizer        main's pipeline, over all passes and the validator
 +- ASTtoIR, IRValidator, ConstantPasses (folding, propagation, strength
    reduction), Renaming (copy propagation, common subexpressions), Sweeps (dead
    code, peephole), BasicBlock
SmallPrograms, MCOptimizer, MCBlockPass, MCIRRun, MCLockstep                    (TLC)

Lexer                    the scan of tokenize, one action per kind of token
 +- LexerProofs          its four safety properties, for every text              (proofs)
Tree                     the forms of syntax trees
 +- Parser               recursive descent with its two recoveries
 |   +- ParserRun        what it must do with written and with damaged text
 |   +- ParserProofs     recovery, for every list of tokens                      (proofs)
 +- TypeChecker          visitors, scopes, depths
 |   +- CheckerProofs    depths and the table of functions, for every program    (proofs)
 +- Unused               the walk of the warnings
     +- FrontEnd         main up to validated IR: checker, warnings, lowering, validator
ListLemmas               lists: what tuples, Tail, SubSeq and \o give             (proofs)

IRMachine
 +- Activations          a whole IR program at work, with calls: what a backend must do
 +- RiscvGen             -> RiscvRun       the text on the processor, beside Activations
 |                           +- RiscvProofs   the register cache, for every program (proofs)
 +- X86Gen               -> X86Run
 +- CppGen               -> CppRun         the text as a compiler takes it, and at work
BackendPrograms, MCLexer, MCParser, MCFrontEnd, MCRiscv, MCX86, MCCpp           (TLC)
```

**IR.** An operand is a tagged pair: `<<"%", 3>>` is `%t3`, `<<"v", "x">>` a variable,
`<<"L", 0>>` a label, `<<"int", 5>>` a constant with its kind.  An instruction is
`[op, args]`, as `Instruction` is.  `Used` and `Defined` are the validator's tables.
`Scan(emit, next, start, p)` is the shape most passes have: one walk over the list with
what the pass knows (`start`, `next`), each instruction replaced by what `emit` gives.
`Put` and `Pop` are Python's `d[k] = v` and `d.pop(k, None)`.

**Passes.** One module each, named for the file, or one for those of a kind: those that keep
tables of constants, those that drop an instruction and rename its destination, those that sweep.  `XEmit` is what the pass appends for
an instruction, `XNext` what it remembers after it, `XFunc` the pass on one function.
`Sweeps` gives one sweep of each of its two (`DCEOnce`, `PeepholeOnce`); their `while`
loops are the sweeps of `Optimizer`.  `BasicBlock` gives each transformation on a list of blocks
`[name, ins, succs, preds]` and `MergeOne`, one absorption with its patching of
predecessors.

**Optimizer.** `stage` is where `main` is: the pass about to run, `refold` (the second
half of the loop of propagation and folding), `validate`, and the two ends.  `prog` is
`main`'s `program`; `fn` the function a sweeping pass is at.  One action per pass or sweep.

**BlockPass.** `_bb_func` taken apart: `ThreadJumps`, `DropBlocks`, one `MergeChain` per
merge and `EndRound`, so that the graph between two merges, patched and not recomputed,
is a state of its own.

**ASTtoIR.** The builder is a record `b` with its counters, its code and its loop stack;
`Expr` and `Stmt` have one case per case of `_expr` and `_stmt`.

**IRMachine.** What the code `_gen_func` emits for each instruction does to the frame
and to the outside world.  A configuration is `[pc, mem, out, used, st]`; `mem` has a
slot per temp, variable and array element, as `_build_frame` does.  What the outside sees is
a list of events: numbers printed, passed, returned, the functions called, the reads.
A call is answered by the environment.  Reading a slot that was never written, or
outside an array, stops with `st = "undef"`: what follows could be anything, so a
property may not rely on it and no pass is held to it.  Running off the end of the
list stops with `"fell"`, for no epilogue is emitted there (`riscv.py:387`).

**Lockstep.** A run is a list, what a pass made of it, what the pass knew before every
instruction (`maps`) and where its own list had got to by then (`place`).  Constant propagation, copy
propagation, common subexpressions and a sweep of dead code elimination give at most one instruction
for one.  `Step` executes one instruction of the function and, unless the pass dropped it, one of the
target, each on its own memory, with its own branches and its own labels.

**Lexer.** `pos`, `line`, `column` and `toks` are the scanner's; `spans` notes where each
token stood, for the properties.  A text is a sequence of characters; a turn of the loop
is one action (`Word`, `Number`, `String`, ...), an exception a value of `verdict`.
`pos` then stands where the turn began that raised it, which the properties ask about; the exception itself
names no place, but for an unknown character (`lexer.py:116`).

**Parser.** The methods in progress are the list `todo`, the next thing to do first: a token
that must come, a method to call, or what is left of one; `values` holds the nodes built.  One
`Parse` step does one item.  An exception is the step `Raise`: it unwinds `todo` to the
innermost of the three loops that catch `ParseError` and goes over to `SkipToStatement` or
`SkipToFunction`, which skip a token at a time.  Nodes are `Tree`'s; the checker, the warnings
and the lowering take the same trees.

**TypeChecker, Unused, FrontEnd.** As in the parser, calls in progress are a list of work, so
that an error may strike at any depth; what is left of a loop over arguments or clauses is an
item of the list, too.  `Err` unwinds the list: the `finally` blocks it passes are those of the frames
the list leaves without entering them, which `Unwound` counts.  `scopes` is the chain of symbol
tables.  The warnings are one walk with tables of their own, `[scopes, lines, warnings]` (`VisitStmt`, `MarkRead`, `PopScope`).
`CheckerSpec` is the checker by itself; `FrontEnd` takes its steps, and is `main` from the
parser's result on: the checker runs even when the parser reported errors, a `SemanticError`
is reported and any other exception escapes (`"traceback"`).

**Backends.** `RiscvGen`, `X86Gen` and `CppGen` translate the generators: a record `g` with
what the generator remembers (frame, register cache, kinds, pending arguments) and the text so
far, lines as records or tuples instead of characters; `Emit` has one case per instruction.
`marks` note where each instruction's text begins and what the generator believed there.
The first parts of `RiscvRun` and `X86Run` are the processors with the services asked of them,
external to the repository and as small as the text needs; `PrintInt` and `ReadInt` are what the
helpers in `_RUNTIME` compute, byte by byte.  `CppRun` has what a C++17 compiler asks of the text (`Compiles`)
and what the statements do.  In each `XRun` two machines move together: the text, one
line at a time, and the IR program (`Activations`: one frame, kinds included, per call), which
takes its step when the text completes the instruction (`Commits`).  `image` is the program loaded
(`Compiled`: the IR and the text made of it).  Where the IR program's behaviour is not
defined, the run stops.

**References.** `SourceRun`, `Activations`, `Renamed` in `FrontEnd` and `ProgramText` in `ParserRun`
say what is meant and translate no code: how a tree evaluates, what a program does, which
declaration a name stands for, how a tree is written.  `InTurns` in `RiscvRun` says what the text of a
program consists of, turn by turn, for the proof.

**Mutants.** Operators whose comment begins with "Mutant:" are plausible bugs of the
definition that follows them, kept to confirm that the properties notice them.

## 3. Runs

| Run | What varies | Properties |
|---|---|---|
| `pipeline` | 968 programs, two statements out of 22 and two initialisers, through all nine passes; 4 programs with loops, switches, arrays and work for every pass through all 512 selections; 4 input lists, one with products and sums that wrap | `CodeInShape`, `StaysValid`, `NothingLeft`, `PassPreserves`, `Terminates` |
| `blocks` | 729 functions: pairs of 27 shapes of control flow | `GraphIsReal`, `StepsPreserve`, `DoneForGood`, `Terminates` |
| `lowering` | statements and expressions of every form in pairs, 3 input lists | `DoesWhatItSays` (refinement of `SourceRun`), `RunsStraight`, `LoweredIsValid` |
| `lockstep` | 4 passes on 468 functions each, as lowered or as an earlier pass leaves them; 2 input lists | `Inv` (the inductive invariant of the proof, the type invariant in it), `InLockstep` |
| `lexing` | all texts of up to 4 characters of 13 sorts; 19 773 texts spelled from three tokens and two separators | `PlacesTrue`, `NothingLost`, `TokensRight`, `RefusedRightly`, `Terminates` |
| `parsing` | 245 expressions and 8 statements, written out and parsed; every place of 8 programs' middle function: a token dropped, 9 tokens put in or in its place, the text cut off | `RoundTrip`, `AcceptedIsWritten`, `RecoveryAdvances`, `FunctionsKept`, `Terminates` |
| `checking` | 52 expressions in 12 places, jumps in and behind loops and switches, redeclared names | `TypedIffAccepted`, `DepthsRestored`, `GlobalsAreFunctions`, `AcceptedCompiles`, `TypedCode`, `ReadsMeetTheirScope` |
| `riscv` | 14 programs, as lowered and as optimised; 5 input lists | `CacheTrue`, `StackHolds`, `SameOutput`, `Halts` |
| `x86` | the same and nine arguments; least and greatest words, division by zero | `StackHolds`, `TrapsAreDeserved`, `SameInAndOut` |
| `cpp` | the same and names that are keywords | `CompilesClean`, `StateHolds`, `SameOutput` |

Several properties are conjunctions of named parts (`StaysValid` is `OnlyVariablesUndefined /\
InitialisedAccepted`), and every part has a mutant that breaks the whole; the type invariant of a module
is the first part of the conjunction about its state.  What they show, in words:

* **Passes preserve behaviour** (`PassPreserves`).  After every single pass or sweep the
  new program shows what the old one showed, for every input list, whatever the passes
  selected before it.  The block pass is excepted; see the findings.
* **The discipline of temps survives every pass** (`TempDiscipline`): the unstated fact
  four passes rely on.
* **Validity.**  After any pass the validator could only complain of a variable
  (`OnlyVariablesUndefined`): temps, labels and argument counts are never broken.  A
  program that initialises its variables before it branches is never refused the second
  time (`InitialisedAccepted`).  Without that condition it can be: when folding makes a branch
  unconditional, the block pass removes the unreachable arm, and with it the STORE that defined a
  variable in list order; `main.py:391-400` then reports an error in a program it had accepted.
* **Fixed points.**  The sweeps and main's own loop end (`Terminates`).  When a dead-code
  pass is over nothing dead is left, and when the loop of propagation and folding stops,
  though it stops as soon as *one* of the two finds nothing, neither has work left
  (`NothingLeft`).
* **Blocks.**  Threading and dropping never change behaviour.  A merge does not either
  when the absorbed block follows its absorber or does not fall through (`StepsPreserve`);
  until a merge that moves a block that falls through, the patched graph is the real one
  (`PatchedGraphIsReal`), and always every branch has somewhere to go (`BranchesLand`).
  When the rounds end, splitting the result anew finds nothing left to do (`DoneForGood`).
* **Lowering** implements the meaning of the source: `IRRun` refines `SourceRun`, whose
  script is computed from the tree alone (`Events`), with no temp, label or jump.  The script is
  shown to its end: the code comes to its end too.
* **Lexer.** Between tokens there are only blanks and comments (`NothingLost`); a token is the
  longest at its place, by a definition of each kind that owes nothing to the scan
  (`LongestTaken`), and what it keeps spells it (`SpelledAgain`); an exception is raised only in a turn that began where no
  token begins.
* **Parser.** What is written is read as it was meant (`RoundTrip`).  Damage stays where it is:
  the functions around a damaged one are found (`FunctionsKept`), nothing is skipped or made up
  without an error (`AcceptedIsWritten`), recovery always gets on (`ErrorsInOrder`, `Terminates`).
* **Front end.** Accepted is what was written to the rules, and only that (`TypedIffAccepted`,
  against trees built by type).  Whichever way a loop or a switch is left, the depths are what they
  were (`DepthsRestored`), so that a `break` or `continue` is refused exactly where there is nothing to
  leave; only functions are in the table calls are judged by (`GlobalsAreFunctions`).  Accepted code
  lowers, validates but for unassigned variables (`AcceptedCompiles`), and operates on values of the right types even where inner scopes reuse a name (`TypedCode`,
  judged on the code with each declaration under its own name).  Nobody is warned of a variable that code
  reads, and of every parameter and scalar it never reads somebody is, whatever other scopes use the name
  (`ReadsMeetTheirScope`).  For arrays the second half does not hold; see the findings.
* **Backends.** At every boundary between instructions, on every activation, each slot holds what the
  IR program has (`SlotsHold`, `VariablesHold`); frames lie one under the other
  (`FramesTile`); what the RISC-V generator believes of `t0` and `t1` is so, on every path to
  that place (`CacheTrue`); the x86 stack is aligned at calls; a divide error comes only of a division
  that has no quotient; output, reads and exit status are the IR program's (`SameOutput`).  `Halts`: the machine never goes
  round without the program getting on.

### Findings

Two runs end in a counterexample; each states what the repository says and the code
does not do.

* `block_merge`: merging as `basic_block.py:17-21` describes it sends a block that ends
  by falling through to the wrong successor (line 216).
* `for_continue`: `continue` in a `for` goes to the condition and skips the increment
  (`ast_to_ir.py:93`): the loops of two sample programs never end.

More disagreements have no run of their own.  Each is a definition that stands ready in an MC module:
put it in the place of the one the `.cfg` names, with the property, and TLC shows the counterexample.

| Instead of | Take | And see | What it shows |
|---|---|---|---|
| `Jobs` of `MCOptimizer` | `ModJobs` | `PassPreserves` | `-7 % 5` folds to 3 (`constant_folding.py:46`, Python's `%`); the emitted `rem` gives -2 |
| | `OverflowJobs` | `PassPreserves` | `(2147483647 + 1) / 2` folds to a positive number, the emitted code computes a negative one (`constant_folding.py:9`) |
| `Trees` of `MCIRRun` | `OneArmTrees` | `NoUseBeforeDef` | the validator judges definition in list order: a variable stored in one arm only is accepted and read unwritten on the other path (`ir_validator.py:129`) |
| `Programs` of `MCRiscv` | `NinePrograms` | `SameOutput` | the ninth argument is read one word above where it was stored (`riscv.py:194`, 366) |
| | `TwinBlocks` | `SameOutput` | two arrays of one name in sibling blocks share words with temps (`riscv.py:101`; `x86_64.py:228` does the same) |
| | `OpenEnded` | `StaysInside` | a void function without a `return` runs into the next function (`riscv.py:387`; x86-64 too) |
| | `CharPrograms` | `SameOutput` | a char parameter or result is printed as a number (`riscv.py:197`, 373; all three backends) |
| `Programs`, `InputLists`, `Terminal` of `MCX86` | `TwoReads`, `TwoNumbers`, FALSE | `ReadsInOrder` | when input is not typed line by line, all but the first number of a read is lost (`x86_64.py:130-187`) |
| `Programs` of `MCCpp` | `EndsInLabel`, `NamedAsTemp` | `CompilesClean` | a label at the end of a function, a variable named `_t0` (`cpp_transpile.py:184`, 40) |
| `Programs`, `Strings` of `MCCpp` | `OneString`, 65536 | `SameOutput` | string addresses kept in an `int` (`cpp_transpile.py:207`) |
| `Inputs` of `MCParser` | `OpenInputs` | `UnbalancedRejected` | a missing last brace is no error (`parser.py:222`), though tests/test_02_parser.py:4 says "ill-formed programs surface ParseError" |
| | `ArrayInputs` | `Accepted` | the array parameter of `samples/arrays_io.prog:4` is a syntax error (`parser.py:193`) |
| `Sources` of `MCFrontEnd` | `EmptySources` | `AcceptedLowers` | `;` is parsed and accepted, and lowering raises on it (`ast_to_ir.py:115`) |
| | `MCSources`, as it is | `NeverReadWarned` | an array that is only stored to is not warned of, for a store to an element is marked as a read of the array (`unused_warnings.py:149`), though lines 1 and 163 say "never read" |
| | `NamesakeSources` | `NeverReadWarned` | the same lines against line 155: calling a function `h` hides that a local `h` is never read |

Behaviour the models show that no text of the repository contradicts.  Two have a definition that stands ready, too:
with `UnsetJobs` for the `Jobs` of `MCOptimizer`, `NeverRejected` shows the second validation refuse a program the first
accepted (see `StaysValid` above), and `RefusedByError` shows on the sources of `checking` that
`f(1)(2)` and `a[0][1]` raise an `AttributeError` in the checker.  The others: `&&` and `||` evaluate
both sides; an inner variable shares the slot of the outer one it hides; a declaration after a statement
is moved before it; `const` is not enforced; `'\n'` is the character `n`; a value of
type void can be printed, which the validator then refuses; `print` of a char ends the line
on x86-64 and C++ and not on RISC-V.

### Bounds, and why they are enough

* `Half = 128`: words of 8 bits.  Wrapping happens within reach of the programs, and no operation
  depends on the width but through `Wrap`.  The proofs take any `Half > 1`.
* Behaviour is compared on runs of at most 128 instructions of the old code and 256 of the new (`ShortRun`,
  `LongRun`).  The programs' loops end within them; a run that does not is compared as far as
  it goes.  A pass may replace one instruction by several (a product by doublings), hence
  the longer second run.  Lockstep, lowering and the block pass's own loops have no bound.
* Functions have a parameter, a scalar, an array of two and a callee.  A pass looks at
  one instruction and a table: two statements after each other, one perhaps a loop or a
  branch around the other's work, is where facts go stale; loops with branches inside
  give three paths into a label.
* Inputs are lists repeated cyclically; each program has inputs that take each branch.
* Constants of the programs stay within a word but in `OverflowJobs`, while sums and
  products of the input 100 wrap at run time: compile-time arithmetic is unbounded in the code and in the model, and differs from the target's once it overflows.
* Backends: `Half = 16384`, since addresses are words too: 16 bits hold the stacks of `StackTop` bytes, deep enough
  for the recursion and the nested calls.  A fault would show in `SameOutput`.  Nothing depends on
  the width but wrapping, the least and the greatest word, which are among the inputs of `x86`.  Zero to
  eight (x86: nine) arguments pass every boundary of registers, stack and padding.
* `Terminal` (x86): whether one `sys_read` delivers one line, as a terminal does, or up to 63
  bytes.  `Strings` (C++): where string literals lie, in words.
* Lexer texts of four characters decide every look-ahead, which is of at most two; longer texts come from
  tokens.  Letters, digits and blanks are ASCII's.
* One damaged token, in one function of three: recovery is entered at each place, with each kind of
  token before it; a second error after it arises from what recovery leaves.
* Array sizes are at least 1: in the trees 0 stands for no size.
* `IsPow2` and `Log2` know powers of two below 2^30.

### Fairness

`WF_vars(Step)` everywhere: the compiler is one thread that does nothing but its loops, and
a processor that runs the emitted code does not stop of itself.  Nothing is assumed of one
action against another: at every state at most one of them is enabled.  `FrontEnd` states no
fairness, for nothing of it is a liveness property: each of its walks follows a finite tree.

## 4. Proofs

Five components have theorems: the lexer, the parser, the type checker, four of the nine passes, and the
RISC-V backend's register cache.  All hold for data of any size; the runs `lexing`, `parsing`, `checking`, `lockstep` and
`riscv` check the same properties on small instances.  None rests on anything but the named assumptions on constants, which the same runs evaluate.

### Four passes (`LockstepProofs`)

* `PassesSound`, `Spec => []Inv`: before every instruction but a label, on every path, all the pass
  holds for true is true.  The constants of propagation's tables are the values; the temp `v2t` gives
  for a variable holds in the target what the variable holds in the function; the temp `avail` gives
  for an expression holds its value; the temp `red` gives for a dropped one, if that one was computed
  on the way here, holds what it would hold.  And both memories agree on all that was not dropped.
* `PassesInLockstep`, `Spec => []InLockstep`: the target is where the function is, and has shown, asked
  and stopped as it has, at every step until the function reads something never written.
* `PassesTyped`, `Spec => []TypeOK`: words stay words, frames stay frames, positions stay in the list.

They hold for every list of well-formed instructions whose branches land and whose labels differ, with any
loops, any word size and any environment.  *Assumed*: `HalfAssumption`, that a word holds 0, 1 and -1;
and `RunsAssumption`, that each member of `Runs` is a run of a pass: its `maps` and `target` are what the
pass's own `Next` and `Emit` give for its `code`, instruction by instruction, and for the two passes that
rename, the code has the discipline of temps.  TLC evaluates both on `MCLockstep`, whose
targets are computed by the passes as the pipeline runs them (`PropFunc`, `CopyFunc`, `CSEFunc`, `DCEOnce`).
That lowering and every pass before keep the discipline is `TempDiscipline`, part of `CodeInShape` in
the run `pipeline`.

*The argument.*  `InLockstep` is not inductive: an instruction replaced does the same only if the pass was
right about it.  `Inv` adds that the pass is right, but at labels, and that is inductive because there are
two ways to get somewhere.  Either control fell through from the instruction before (`FallThrough`), and
what was true is carried over it; or it jumped, and then it is at a label, where nothing is asked, because the
pass forgets there what it cannot keep.  The one thing the code does *not* forget there is `red`: `RenamedTrue` asks it
only of temps defined since the last label (`DefinedNear`), and the discipline of temps says no others are read.

A pass enters the argument by two lemmas, which `MachineLemmas` states as a contract: `EmitsAlike`, what it
emits is well formed and keeps labels and targets, and only a pure instruction is dropped; and `KeepsStep`,
one instruction of the target does to its memory what the instruction does to the function's, and the
knowledge after it is true.  `Together` and `Waits` turn these into a step of both machines,
`LabelKept` says that branches land in the same place although positions have moved.

* Constant propagation (`PropEmitsAlike`, `PropKeeps`): one case per kind of instruction.
* Copy propagation and common subexpressions (`RenamingEmitsAlike`, `RenamingKeeps`): what the tables
  hold before position `i` is a fact about the list alone, proved along positions (`CopyHoldsAll`,
  `CSEHoldsAll`): every temp in them is *kept*, defined before `i` and never dropped (`Kept`), and `red` has
  just the temps dropped before `i` (`RedHolds`).  A kept temp is not defined again (`Fresh`), so its slot
  does not change (`KeptSteady`); it is not renamed itself, so that `_resolve` ends after one step
  (`ResolveIs`).  For CSE the key of a commutative operator may have its operands exchanged
  (`ArithCommutes`).
* Dead code (`DeadEmitsAlike`, `DeadKeeps`): no kept instruction reads a temp that was dropped.

Induction along a list goes by the set of positions where the claim holds (`Along`): no
least position is outside it.

### The lexer (`LexerProofs`)

* `LexerInvariant`, `Spec => []IInv`, and from it
* `PlacesStayTrue`: every token has the line and column of its first character, whatever
  newlines lie in literals and comments before it;
* `NothingIsLost`: between tokens there are only blanks and whole comments;
* `TokensAreRight`: each token is the longest at its place, of the kind its type names, and keeps its spelling;
* `RefusalsAreRight`: an exception is raised only in a turn that began where no token begins, so that no
  text is refused that could have been read on.

For every text over any letters and digits.  *Assumed*: `SortsApart` (Python's `isalpha`, `isdigit` and
`isspace` exclude each other and hold of no mark but the blanks), `WordsSpelled` (keywords are spelled with
letters, digits and underscores; they are those of `tokens.py:3-7`) and `TextsAreTexts` (no character is the empty string, with which
`peek` answers past the end, `lexer.py:30-32`).  The run `lexing` evaluates all three.

*The argument.*  None of the four is inductive alone: that a token stands where it says needs the
scanner's `line` and `column` to be those of `pos` (`AtPlace`, which a count of newlines carries over any
number of `_adv`s), and that nothing is lost before the next token needs the spans to lie in what was
read (`SpansRead`).  `IInv` is their conjunction with the form of a state, and each action keeps it
(`WordKeeps`, `StringKeeps`, ...): for each kind of token that the scan's end is where the longest of all tokens
at that place ends (`WordLongest`, `StringLongest`, ...) and that what it keeps spells it (`PlainSpells`,
`StringSpells`, ...).  Where a scan ends is a least element of a set of places (`ScanEnd`), where the last
newline was is a greatest (`GreatestElement`); strings, where a backslash may or may not hide the quote,
go by a least counterexample (`EscapedNext`, `StringEndTurns`).

### The parser (`ParserProofs`)

* `ParserHolds`, `Spec => []IInv`, and from it
* `RecoveryGetsOn`, `Spec => []RecoveryAdvances`: each error is further right than the one before, or at the end
  of the text; the loop that catches it finds exactly the nodes it had; in the end one node is left.  So
  recovery neither loses a node nor invents one, and inside the text no place is reported twice.

For every list of tokens, with any number of errors.  *Assumed*: `InputsAssumption`, that a text is a list of
tokens, pairs none of which is the EOF that `tokenize` puts after them.

*The argument.*  `RecoveryAdvances` is not inductive: that the stack of nodes is right when a loop
catches an error depends on everything the loop had begun, and that the next error lies further right on what
is done between.  `IInv` adds three things.
*Fits*: each thing to do makes the stack higher or lower by a fixed number (`Net`) and needs a least height
(`Least`); along the list of things to do these heights lead from the stack there is to one node, and a
loop that catches errors knows its own.  One step of parsing puts things in the place of one that together do
what it did; `WorkIsRight` shows it method by method.
*Shape*: an assignment is finished before anything but operands is begun, and the error it may still raise, at a
place further left, is remembered; the body of a case is followed by that case and its switch, the program comes last.
*Ahead*: since the last error the parser has gone right, is at the end, or is about to consume the token it
failed at: what makes the loops of `_sync_to_next_statement` and `_sync_to_next_function` safe is
that they stop only at a token the loop resumed begins with.

### The type checker (`CheckerProofs`)

* `WayOut`, `CheckerSpec => []IInv`, and from it
* `DepthsHold`, `CheckerSpec => []DepthsRestored`: whichever way the checker leaves a loop or a switch, an error out
  of the middle of nested ones included, both depths are zero when it has decided, and zero with no type left over
  when it turns to the next function;
* `GlobalsHold`, `CheckerSpec => []GlobalsAreFunctions`: only functions get into the table calls are judged by.

For every program, however nested.  *Assumed*: `TreesAssumption`, that programs are made of the forms of
`ast.py`, every part of one a tree again.

*The argument.*  That a depth is zero at the end says nothing about the middle, so it is not inductive.
A *spot* is where the checker stands between two things to do: its depths, the number of types found and
not yet used, the number of tables.  `After` is what a thing to do, with all that comes of it, makes of a spot;
`Ready` what it asks of one.  `IInv` says that the things to do lead from the spot there is, each ready when its
turn comes, to depths of zero and no types left over (`Leads`).  A step keeps that if what a thing gives way to
leads where the thing itself led: `JudgeIsRight`, from one lemma per visitor (`ExpressionIsRight`,
`StatementIsRight`, `SwitchIsRight`, ...).  An error throws the list away, and the depths must be right at once: the frames
a list leaves and does not enter are as many as the depth it starts from (`UnwindsAll`), which is what the
`finally` blocks take off.  The functions' table stays theirs because a parameter is defined with two tables at least
and a local with three: `Ready` asks for them, so the innermost one is never the global one.

Both proofs, and the counting in `UnwindsAll`, go along lists of any length by a least counterexample
(`LeastNumber` in `ListLemmas`), for the library's induction takes an operator.

### The register cache of the RISC-V backend (`RiscvProofs`)

* `CacheHolds`, `Spec /\ [](TypeOK /\ ReturnsHome) => []CacheTrue`: wherever the generator takes a slot to be in `t0`
  and leaves out the load, the register holds the slot's word, whatever path the machine took there: through
  branches taken and not, round loops, past a `ret` in the middle of the text, back from calls.

For every program, with any number of arguments, any stack and any environment.  *Taken from the
stack's invariant*: `TypeOK`, that registers hold words and the activations stand in their functions, and `ReturnsHome`, that
a `ret` goes back behind a call.  Both are parts of `StackHolds`, which the run `riscv` checks, and follow from
no text alone: they say that frames do not overlap.  *Assumed*: `ProgramsAssumption`, that each function's text is what its turns append
to the text before (`InTurn`), every label and function named is in it, every name has a slot, and a temp that gets
a float has one no instruction before it has named.  TLC evaluates it on all programs of `MCRiscv`.

*The argument.*  `CacheTrue` speaks of what the *generator* believed, `t0` and `t1`, at marks the machine
comes to by ways the generator never saw: it emits code in list order.  So the proof says, of any line of the text, what the lines above it
tell of `t0` (`Knows`): the last line that was not one of those that leave `t0` and its word as they are (`Spares`)
loaded or stored it, or goes away for good (`Settles`).  Two halves meet there.  The generator never believes more
(`Known`): one lemma for each helper (`LdT0Is`, `SdT0Is`, `CallIs`, `PrologueIs`, ...), together a turn of
`_gen_func` (`EmitIs`), and so at every mark (`FunctionIs`).  And on the machine it is true (`Held`): control comes to a line from
the one above (`KnowsLast`), or it jumped and is at a label or at a function, where nothing is believed (`LandsOnMark`), or it came back
from a call, after which nothing is known.  `t1` is never believed to hold anything at a mark, for each
instruction that loads it kills it (`Sound`).

Three of the generator's loops are recursive functions (`PrintAll`, `CallCode`, `Prologue`); that they have a value at all is
shown first, by a least length for which they had none.

### Only model-checked, and why

* *Liveness* (`Terminates`, `Halts`, the fairness part of `DoesWhatItSays`): out of the prover's reach.
* `PassPreserves`, `StepsPreserve`: compare whole runs, applied a number of times by a higher-order
  operator, which no backend can instantiate; their content for one step of one pass is what
  `PassesInLockstep` says.  `CodeInShape`, `StaysValid`, `NothingLeft`, `GraphIsReal`, `DoneForGood`: about the
  results of `Scan` and `Iterate`, which take operators too, or of `SelectSeq`.
* `LoweredIsValid`, `RunsStraight`, and what the front end must make of a tree (`RoundTrip`, `AcceptedIsWritten`,
  `FunctionsKept`, `TypedIffAccepted`, `AcceptedCompiles`, `TypedCode`, `ReadsMeetTheirScope`): `ASTtoIR`, `Unused` and the
  references these are stated with are RECURSIVE over trees; what they compute for every tree is induction
  over data.  `AcceptedCompiles` has the type invariant of the checker in it; of that the proofs have what counts types
  and tables, not which types they are.
* Folding and strength reduction: not in lock step (folding differs from the target once it
  overflows, see the findings; strength reduction gives several instructions for one).  Peephole's rules for
  branches change where control goes.
* `StackHolds`, `SameOutput` and the rest of the backends: the invariants relate a stack of activations to
  addresses in a memory of bytes or words.  That the text is made in turns is an assumption of `CacheHolds` and
  not a lemma, for the loop over instructions is an `Iterate`, which takes an operator.

## 5. Not modelled, and why

* Graph dumps (`viz.py`, and `main`'s writing of them): output only, nothing reads it.
* `main`'s arguments, files and printing: pure I/O.  The wording of messages.
* Floats and the characters of strings: a string is an address, every backend stores 0 for a
  float.  `uint32` literals never occur: the parser makes `int` of every number.
* Assembler directives, the `.data` section, escapes in C++ literals.
* The trap a division by zero raises on x86-64 is lost when dead-code elimination drops the
  division (`dead_code_elimination.py:39`); no text says that it must not be.
* What a program with names that hide one another *means*: lowering flattens them into one slot per name,
  so an inner declaration overwrites the outer variable.  `lowering` uses unique names;
  `checking` follows redeclared ones as far as types and warnings go.
* In the runs of the passes the callee's side of a call: functions share nothing but arguments and results (there are
  no globals), so a call is an event and its answer.  The backends' runs have whole programs.

## 6. Plan

1. *(done)* IR, machine, validator, lowering, nine passes, pipeline, block merges, lowering's
   refinement, the proof for constant propagation.
2. *(done)* Lexer, parser and recovery, type checker, warnings, the front end as a whole; RISC-V,
   x86-64 and C++ beside the IR program; overflow in folding.
3. *(done)* The lexer's four safety properties for every text; four passes in lock step, `MCLockstep`, and their
   proof for every function.
4. *(done)* The parser's recovery for every list of tokens, and the checker's depths and its table of functions for
   every program.
5. *(done)* The register cache of the RISC-V backend for every program.
6. Left: `ReturnsHome` from `FramesTile`, so that the cache rests on nothing else; strength reduction in lock step, with
   several instructions for one; the discipline of temps as an invariant each pass's `Emit` keeps.
