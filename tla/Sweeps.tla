------------------------------- MODULE Sweeps -------------------------------
(***************************************************************************)
(* The two passes that sweep over a function until a sweep changes         *)
(* nothing: dead code elimination (src/optimizer/dead_code_elimination.py) *)
(* and peephole (src/optimizer/peephole.py).  DCEOnce and PeepholeOnce are *)
(* one sweep.                                                              *)
(***************************************************************************)
EXTENDS IR

(***************************************************************************)
(* One sweep of dead code elimination drops the pure instructions whose    *)
(* destination no instruction of the function reads.                       *)
(***************************************************************************)
Pure == BinOps \cup UnaryOps \cup {"CONST", "LOAD", "LOAD_ARR"}

\* Mutant: the first argument of any instruction counts as its destination.
UsedAfterFirst(p) ==
  UNION {{p[i].args[k] : k \in {k \in DOMAIN p[i].args : k # 1 /\ IsTemp(p[i].args[k])}}
           : i \in DOMAIN p}

\* _used_temps: every temp but the destination of a pure instruction.  The
\* destination of a READ_INT or of a CALL counts as a use.
UsedTemps(p) ==
  UNION {{p[i].args[k] : k \in {k \in DOMAIN p[i].args :
                                  /\ k = 1 => p[i].op \notin Pure
                                  /\ IsTemp(p[i].args[k])}} : i \in DOMAIN p}

Dead(used, ins) == ins.op \in Pure /\ ins.args[1] \notin used

DCEOnce(p) == LET used == UsedTemps(p) IN SelectSeq(p, LAMBDA ins : ~Dead(used, ins))

-----------------------------------------------------------------------------
TrueSelf    == {"EQ", "LE", "GE"}
FalseSelf   == {"NE", "LT", "GT"}
Terminators == {"JMP", "RET", "EXIT"}
Flip(op)    == IF op = "JMP_IF" THEN "JMP_IF_NOT" ELSE "JMP_IF"

SelfCompare(ins) ==
  ins.op \in TrueSelf \cup FalseSelf /\ ins.args[2] = ins.args[3]

\* JMP_IF c L1 ; JMP L2 ; LABEL L1 starting at i.
FlipsAt(p, i) ==
  /\ p[i].op \in {"JMP_IF", "JMP_IF_NOT"}
  /\ i + 2 <= Len(p)
  /\ p[i + 1].op = "JMP"
  /\ p[i + 2].op = "LABEL"
  /\ p[i].args[2] = p[i + 2].args[1]

\* JMP L ; LABEL L starting at i.
JumpsToNext(p, i) ==
  /\ p[i].op = "JMP"
  /\ i + 1 <= Len(p)
  /\ p[i + 1] = I("LABEL", p[i].args)

\* Mutant: the last label.
LastLabel(p, i) ==
  LET at == {j \in i..Len(p) : p[j].op = "LABEL"}
  IN  IF at = {} THEN Len(p) + 1 ELSE CHOOSE j \in at : \A k \in at : k <= j

\* The first label at or after i, or one past the end.
NextLabel(p, i) ==
  CHOOSE j \in i..(Len(p) + 1) :
    /\ j <= Len(p) => p[j].op = "LABEL"
    /\ \A k \in i..(j - 1) : p[k].op # "LABEL"

\* Mutant: a terminator counts as a change even when nothing dead follows.
RewriteMiscounted(p, i) ==
  LET ins == p[i]
  IN CASE SelfCompare(ins) ->
            [out |-> <<CONST(ins.args[1], "bool", Bit(ins.op \in TrueSelf))>>,
             next |-> i + 1, changes |-> 1]
       [] FlipsAt(p, i) ->
            [out |-> <<I(Flip(ins.op), <<ins.args[1], p[i + 1].args[1]>>), p[i + 2]>>,
             next |-> i + 3, changes |-> 1]
       [] ins.op \in Terminators ->
            IF JumpsToNext(p, i)
            THEN [out |-> <<>>, next |-> i + 1, changes |-> 1]
            ELSE LET j == NextLabel(p, i + 1)
                 IN  [out |-> <<ins>>, next |-> j, changes |-> j - i]
       [] OTHER -> [out |-> <<ins>>, next |-> i + 1, changes |-> 0]

\* What the sweep does at i: what it appends, where it goes on, how many
\* changes it counts.
Rewrite(p, i) ==
  LET ins == p[i]
  IN CASE SelfCompare(ins) ->
            [out |-> <<CONST(ins.args[1], "bool", Bit(ins.op \in TrueSelf))>>,
             next |-> i + 1, changes |-> 1]
       [] FlipsAt(p, i) ->
            [out |-> <<I(Flip(ins.op), <<ins.args[1], p[i + 1].args[1]>>), p[i + 2]>>,
             next |-> i + 3, changes |-> 1]
       [] ins.op \in Terminators ->
            IF JumpsToNext(p, i)
            THEN [out |-> <<>>, next |-> i + 1, changes |-> 1]
            ELSE LET j == NextLabel(p, i + 1)
                 IN  [out |-> <<ins>>, next |-> j, changes |-> j - i - 1]
       [] OTHER -> [out |-> <<ins>>, next |-> i + 1, changes |-> 0]

PeepholeOnce(p) ==
  LET start   == [out |-> <<>>, next |-> 1, changes |-> 0]
      after(s) == LET r == Rewrite(p, s.next)
                  IN  [r EXCEPT !.out = s.out \o @, !.changes = s.changes + @]
      turn(s) == IF s.next > Len(p) THEN s ELSE after(s)
  IN  Iterate(turn, start, Len(p))

=============================================================================
