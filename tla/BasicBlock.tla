---------------------------- MODULE BasicBlock ----------------------------
(***************************************************************************)
(* The basic-block pass (src/optimizer/basic_block.py).  A block is        *)
(* [name, insns, succs, preds]; succs and preds are lists, duplicates kept. *)
(* The pass repeats a round: thread jumps, drop unreachable blocks, merge  *)
(* chains, until a round changes nothing.                                  *)
(***************************************************************************)
EXTENDS IR, FiniteSets, SequencesExt

Stops == {"RET", "EXIT"}

LastOp(b) == IF b.insns = <<>> THEN "" ELSE Last(b.insns).op

(***************************************************************************)
(* _split_blocks: a block starts at the first instruction, at every label  *)
(* and after every branch or stop.                                         *)
(***************************************************************************)
Leaders(p) == {1} \cup {i \in DOMAIN p : p[i].op = "LABEL"}
                  \cup {i \in 2..Len(p) : p[i - 1].op \in Branches \cup Stops}

\* Mutant: blocks without a label share one name.
SameName(p, start, n) ==
  IF p[start].op = "LABEL" THEN p[start].args[1] ELSE <<"_b", 0>>

BlockName(p, start, n) ==
  IF p[start].op = "LABEL" THEN p[start].args[1] ELSE <<"_b", n>>

SplitBlocks(p) ==
  IF p = <<>> THEN <<>> ELSE
  LET leaders == Leaders(p)
      starts  == SelectSeq([i \in DOMAIN p |-> i], LAMBDA i : i \in leaders)
                   \o <<Len(p) + 1>>
  IN  [n \in 1..(Len(starts) - 1) |->
         [name  |-> BlockName(p, starts[n], n),
          insns |-> SubSeq(p, starts[n], starts[n + 1] - 1),
          succs |-> <<>>, preds |-> <<>>]]

JoinBlocks(blocks) == FlattenSeq([i \in DOMAIN blocks |-> blocks[i].insns])

BlockNames(blocks) == {blocks[i].name : i \in DOMAIN blocks}
At(blocks, name)   == CHOOSE i \in DOMAIN blocks : blocks[i].name = name

(***************************************************************************)
(* _recompute_cfg: successors from the last instruction and the block that *)
(* follows, predecessors from the successors.                              *)
(***************************************************************************)
\* Mutant: a conditional branch does not fall through.
SuccsTakenOnly(blocks, i) ==
  LET fall   == IF i < Len(blocks) THEN <<blocks[i + 1].name>> ELSE <<>>
      to(l)  == IF l \in BlockNames(blocks) THEN <<l>> ELSE <<>>
      last   == Last(blocks[i].insns)
      op     == LastOp(blocks[i])
  IN CASE op = "JMP" -> to(last.args[1])
       [] op \in {"JMP_IF", "JMP_IF_NOT"} -> to(last.args[2])
       [] op \in Stops -> <<>>
       [] OTHER -> fall

SuccsOf(blocks, i) ==
  LET fall   == IF i < Len(blocks) THEN <<blocks[i + 1].name>> ELSE <<>>
      to(l)  == IF l \in BlockNames(blocks) THEN <<l>> ELSE <<>>
      last   == Last(blocks[i].insns)
      op     == LastOp(blocks[i])
  IN CASE op = "JMP" -> to(last.args[1])
       [] op \in {"JMP_IF", "JMP_IF_NOT"} -> to(last.args[2]) \o fall
       [] op \in Stops -> <<>>
       [] OTHER -> fall

PredsOf(blocks, name) ==
  FlattenSeq([i \in DOMAIN blocks |->
    LET hits == SelectSeq(blocks[i].succs, LAMBDA s : s = name)
    IN  [k \in DOMAIN hits |-> blocks[i].name]])

LinkSuccs(blocks) ==
  [i \in DOMAIN blocks |-> [blocks[i] EXCEPT !.succs = SuccsOf(blocks, i)]]

LinkPreds(blocks) ==
  [i \in DOMAIN blocks |->
     [blocks[i] EXCEPT !.preds = PredsOf(blocks, blocks[i].name)]]

RecomputeCFG(blocks) == Once(LinkPreds, Once(LinkSuccs, blocks))

(***************************************************************************)
(* _jump_thread: a branch to a block that is only LABEL ; JMP X goes to X. *)
(***************************************************************************)
EmptyJump(b) == /\ Len(b.insns) = 2
                /\ b.insns[1].op = "LABEL"
                /\ b.insns[2].op = "JMP"
                /\ b.insns[2].args[1] # b.name

Redirect(blocks) ==
  LET empty == {i \in DOMAIN blocks : EmptyJump(blocks[i])}
  IN  [n \in {blocks[i].name : i \in empty} |->
         blocks[At(blocks, n)].insns[2].args[1]]

Retarget(redirect, ins) ==
  CASE ins.op = "JMP" -> [ins EXCEPT !.args[1] = Resolve(redirect, @)]
    [] ins.op \in {"JMP_IF", "JMP_IF_NOT"} ->
         [ins EXCEPT !.args[2] = Resolve(redirect, @)]
    [] OTHER -> ins

JumpThread(blocks) ==
  LET redirect == Redirect(blocks)
  IN  [i \in DOMAIN blocks |->
         LET b == blocks[i]
         IN  IF b.insns = <<>> THEN b
             ELSE [b EXCEPT !.insns[Len(b.insns)] = Retarget(redirect, @)]]

(***************************************************************************)
(* _drop_unreachable: keep what the successors reach from the first block. *)
(***************************************************************************)
Reachable(blocks) ==
  LET next(S) == S \cup UNION {ToSet(blocks[At(blocks, n)].succs) : n \in S}
  IN  Iterate(next, {blocks[1].name}, Len(blocks))

DropUnreachable(blocks) ==
  IF blocks = <<>> THEN blocks ELSE
  LET seen == Reachable(blocks)
  IN  SelectSeq(blocks, LAMBDA b : b.name \in seen)

(***************************************************************************)
(* _merge_linear_chains: one merge.  The first block A that ends in JMP B, *)
(* where B is not the entry and A is its only predecessor, takes B's body. *)
(* Predecessor lists are patched, not recomputed, between two merges.      *)
(***************************************************************************)
\* Mutant: any predecessor list that starts with A will do.
MergeableAnyPreds(blocks, i) ==
  /\ LastOp(blocks[i]) = "JMP"
  /\ LET tgt == Last(blocks[i].insns).args[1]
     IN  /\ tgt # blocks[1].name
         /\ tgt \in BlockNames(blocks)
         /\ blocks[At(blocks, tgt)].preds[1] = blocks[i].name

Mergeable(blocks, i) ==
  /\ LastOp(blocks[i]) = "JMP"
  /\ LET tgt == Last(blocks[i].insns).args[1]
     IN  /\ tgt # blocks[1].name
         /\ tgt \in BlockNames(blocks)
         /\ blocks[At(blocks, tgt)].preds = <<blocks[i].name>>

CanMerge(blocks) == \E i \in DOMAIN blocks : Mergeable(blocks, i)

Absorber(blocks) == CHOOSE i \in DOMAIN blocks :
                      /\ Mergeable(blocks, i)
                      /\ \A k \in 1..(i - 1) : ~Mergeable(blocks, k)

Absorbed(blocks, i) == At(blocks, Last(blocks[i].insns).args[1])

\* Mutant: the predecessor lists are not patched.
AbsorbUnpatched(blocks, i) ==
  LET j == Absorbed(blocks, i)
      grown == [blocks EXCEPT ![i].insns = Front(@) \o Tail(blocks[j].insns),
                              ![i].succs = blocks[j].succs]
  IN  RemoveAt(grown, j)

\* Mutant: the absorbed body goes before the absorber's.
AbsorbSwapped(blocks, i) ==
  LET j == Absorbed(blocks, i)
      grown == [blocks EXCEPT ![i].insns = Tail(blocks[j].insns) \o Front(@),
                              ![i].succs = blocks[j].succs]
  IN  RemoveAt(grown, j)

Absorb(blocks, i) ==
  LET j == Absorbed(blocks, i)
      a == blocks[i]
      b == blocks[j]
      body == IF b.insns # <<>> /\ b.insns[1].op = "LABEL"
              THEN Tail(b.insns) ELSE b.insns
      renamed(s) == [k \in DOMAIN s |-> IF s[k] = b.name THEN a.name ELSE s[k]]
      patch(c) == IF c.name \in ToSet(b.succs)
                  THEN [c EXCEPT !.preds = renamed(@)] ELSE c
      grown == [blocks EXCEPT ![i].insns = Front(@) \o body, ![i].succs = b.succs]
  IN  RemoveAt([k \in DOMAIN grown |-> patch(grown[k])], j)

MergeOne(blocks) == LET into(i) == Absorb(blocks, i) IN Once(into, Absorber(blocks))

(***************************************************************************)
(* One round of _bb_func, and the whole of it: rounds until one changes    *)
(* nothing, and never more of them than there are instructions.  The       *)
(* source recomputes the graph only after a change; doing it always gives  *)
(* the same graph.                                                         *)
(***************************************************************************)
Thread(blocks) == Once(RecomputeCFG, Once(JumpThread, Once(RecomputeCFG, blocks)))
Drop(blocks)   == Once(RecomputeCFG, Once(DropUnreachable, blocks))

MergeAll(blocks) ==
  LET merge(b) == IF CanMerge(b) THEN MergeOne(b) ELSE b
  IN  Iterate(merge, blocks, Len(blocks))

Round(blocks) == Once(MergeAll, Once(Drop, Once(Thread, blocks)))

BBFunc(p) ==
  LET start   == [blocks |-> SplitBlocks(p), done |-> FALSE]
      after(s) == LET b == Once(Round, s.blocks)
                  IN  [blocks |-> b, done |-> b = s.blocks]
      turn(s)  == IF s.done THEN s ELSE after(s)
  IN  Once(JoinBlocks, Iterate(turn, start, Len(p)).blocks)

=============================================================================
