----------------------------- MODULE BlockPass -----------------------------
(***************************************************************************)
(* The basic-block pass at work on one function (_bb_func,                 *)
(* src/optimizer/basic_block.py): one step per transformation, and one per *)
(* merge, so that the state between two merges, when the graph is patched  *)
(* and not recomputed, is visible.                                         *)
(***************************************************************************)
EXTENDS BasicBlock, IRMachine

CONSTANTS Functions,    \* [code, params] of the functions tried
          InputLists    \* lists of answers of the environment

VARIABLES fun,       \* the function, as the pass received it
          blocks,    \* its blocks
          phase,     \* "thread", "drop", "merge" or "done"
          changed,   \* this round threaded, removed or merged something
          moved      \* some merge moved a block that falls through: history

vars == <<fun, blocks, phase, changed, moved>>

Init ==
  /\ fun \in Functions
  /\ blocks = SplitBlocks(fun.code)
  /\ phase = "thread"
  /\ changed = FALSE
  /\ moved = FALSE

Threads(b) == LET linked == Once(RecomputeCFG, b) IN Once(JumpThread, linked) # linked

ThreadJumps ==
  /\ phase = "thread"
  /\ blocks' = Thread(blocks)
  /\ changed' = Once(Threads, blocks)
  /\ phase' = "drop"
  /\ UNCHANGED <<fun, moved>>

DropBlocks ==
  /\ phase = "drop"
  /\ blocks' = Drop(blocks)
  /\ changed' = (changed \/ Len(DropUnreachable(blocks)) < Len(blocks))
  /\ phase' = "merge"
  /\ UNCHANGED <<fun, moved>>

\* The absorbed block ends by falling through to the block after it, and it
\* is not the block after its absorber.
MovesFallThrough ==
  LET i == Absorber(blocks)  j == Absorbed(blocks, i)
  IN  j # i + 1 /\ LastOp(blocks[j]) \notin Stops \cup {"JMP"}

MergeChain ==
  /\ phase = "merge"
  /\ CanMerge(blocks)
  /\ blocks' = MergeOne(blocks)
  /\ changed' = TRUE
  /\ moved' = (moved \/ MovesFallThrough)
  /\ UNCHANGED <<fun, phase>>

\* Mutant: one round, whatever it changed.
EndFirstRound ==
  /\ phase = "merge"
  /\ ~CanMerge(blocks)
  /\ phase' = "done"
  /\ changed' = FALSE
  /\ UNCHANGED <<fun, blocks, moved>>

\* Mutant: another round, whatever this one changed.
EndNoRound ==
  /\ phase = "merge"
  /\ ~CanMerge(blocks)
  /\ phase' = "thread"
  /\ changed' = FALSE
  /\ UNCHANGED <<fun, blocks, moved>>

EndRound ==
  /\ phase = "merge"
  /\ ~CanMerge(blocks)
  /\ phase' = IF changed THEN "thread" ELSE "done"
  /\ changed' = FALSE
  /\ UNCHANGED <<fun, blocks, moved>>

Step == ThreadJumps \/ DropBlocks \/ MergeChain \/ EndRound
Next == Step \/ (phase = "done" /\ UNCHANGED vars)

\* The pass is a loop of main's only thread: it goes on as long as it can.
Spec == Init /\ [][Next]_vars /\ WF_vars(Step)

-----------------------------------------------------------------------------
TypeOK ==
  /\ phase \in {"thread", "drop", "merge", "done"}
  /\ changed \in BOOLEAN
  /\ moved \in BOOLEAN
  /\ Cardinality(BlockNames(blocks)) = Len(blocks)

\* Every branch of the blocks goes to a block that is still there and still
\* starts with its label, whatever was threaded, dropped or merged.
Targets(p) == {p[i].args[Len(p[i].args)] : i \in {i \in DOMAIN p : p[i].op \in Branches}}
BranchesLand ==
  LET p == JoinBlocks(blocks)
      labels == {p[i].args[1] : i \in {i \in DOMAIN p : p[i].op = "LABEL"}}
  IN  Targets(p) \subseteq labels

\* Between two merges the patched successors and predecessors are those a
\* recomputation would find, as long as no merge moved a block that falls
\* through.  Predecessors are compared as sets with their number.
SameGraph(b, c) ==
  \A i \in DOMAIN b :
    /\ b[i].succs = c[i].succs
    /\ ToSet(b[i].preds) = ToSet(c[i].preds)
    /\ Len(b[i].preds) = Len(c[i].preds)
PatchedGraphIsReal ==
  phase = "merge" /\ ~moved => SameGraph(blocks, RecomputeCFG(blocks))

\* The graph the pass decides on is the function's: every block has a name of
\* its own, every branch lands, and patching keeps up with merging.
GraphIsReal == TypeOK /\ BranchesLand /\ PatchedGraphIsReal

SameBehaviour ==
  Implements(JoinBlocks(blocks'), Once(JoinBlocks, blocks), fun.params, InputLists)

\* Threading jumps and dropping unreachable blocks never change what the
\* function does.
GoneThroughKept == phase \in {"thread", "drop"} => SameBehaviour

\* Neither does a merge, when the absorbed block directly follows its absorber
\* or ends by a jump, a return or an exit.
AdjacentMergeKept == phase = "merge" /\ ~moved' => SameBehaviour

\* No step of the pass but a merge that moves a block that falls through
\* changes what the function does.
StepsPreserve == [][GoneThroughKept /\ AdjacentMergeKept]_vars

\* What basic_block.py:17-21 describes, without that condition: a block with
\* one predecessor is folded into it, and the function does what it did.
MergeKept == phase = "merge" => SameBehaviour
EveryMergePreserves == [][MergeKept]_vars

\* The rounds come to an end.
Terminates == <>(phase = "done")

\* The result is what the optimizer's single step computes, and the pass has
\* nothing left to do on it: split anew, it has no jump to thread, no block to
\* drop and none to merge.
DoneForGood ==
  phase = "done" => LET p == JoinBlocks(blocks)
                    IN  p = BBFunc(fun.code) /\ BBFunc(p) = p

=============================================================================
