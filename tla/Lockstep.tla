------------------------------ MODULE Lockstep ------------------------------
(***************************************************************************)
(* A function and what a pass made of it, executed side by side, each on   *)
(* its own memory and with its own branches: constant propagation, copy    *)
(* propagation, common subexpressions, or one sweep of dead code           *)
(* elimination.  Each of them emits nothing or one instruction for each    *)
(* one it reads; where it emits nothing its function waits.                *)
(***************************************************************************)
EXTENDS IRMachine, ConstantPasses, Renaming, Sweeps

(***************************************************************************)
(* A run is [pass, code, target, maps, place, params, inputs]: the list    *)
(* the pass read, the list it made, what it knew before each instruction   *)
(* (maps[i] before the i-th) and how long its list was by then, less one   *)
(* (place[i]), the parameters and the environment's answers.  Dead code    *)
(* elimination knows which temps are read, from the beginning.             *)
(***************************************************************************)
CONSTANT Runs

VARIABLES run,    \* the run at hand
          c, d    \* the configurations of its code and of its target

vars == <<run, c, d>>

LockstepPasses == {"cprop", "dce", "cp", "cse"}

KnownFirst(pass, p) ==
  CASE pass = "cprop" -> PropStart
    [] pass = "dce"   -> UsedTemps(p)
    [] pass = "cp"    -> CopyStart
    [] pass = "cse"   -> CSEStart

KnownNext(pass, m, ins) ==
  CASE pass = "cprop" -> PropNext(m, ins)
    [] pass = "dce"   -> m
    [] pass = "cp"    -> CopyNext(m, ins)
    [] pass = "cse"   -> CSENext(m, ins)

Emitted(pass, m, ins) ==
  CASE pass = "cprop" -> PropEmit(m, ins)
    [] pass = "dce"   -> IF Dead(m, ins) THEN <<>> ELSE <<ins>>
    [] pass = "cp"    -> CopyEmit(m, ins)
    [] pass = "cse"   -> CSEEmit(m, ins)

\* What the pass emits for the i-th instruction, and whether that is nothing.
EmittedAt(r, i) == Emitted(r.pass, r.maps[i], r.code[i])
Skips(r, i)     == i \in DOMAIN r.code /\ EmittedAt(r, i) = <<>>

-----------------------------------------------------------------------------
Init ==
  /\ run \in Runs
  /\ c = Start(run.code, run.params, run.inputs)
  /\ d = c

Step ==
  /\ c.st = "run"
  /\ c' = StepOnce(run.code, c, run.inputs)
  /\ d' = IF Skips(run, c.pc) THEN d ELSE StepOnce(run.target, d, run.inputs)
  /\ UNCHANGED run

Next == Step \/ (c.st # "run" /\ UNCHANGED vars)

Spec == Init /\ [][Next]_vars

-----------------------------------------------------------------------------
Words == -Half..(Half - 1)

\* What every run is: a pass, given code that it may be given (the passes that
\* rename rely on the discipline of temps), and what it makes of it.
RunOf(r) ==
  /\ r.pass \in LockstepPasses
  /\ WellFormed(r.code)
  /\ \A i, k \in DOMAIN r.code : r.code[i].op = "LABEL" /\ r.code[i] = r.code[k] => i = k
  /\ r.pass \in {"cp", "cse"} => DisciplinedTemps(r.code)
  /\ r.params \subseteq Vars
  /\ r.inputs \in Seq(Words) /\ r.inputs # <<>>
  /\ r.maps[1] = KnownFirst(r.pass, r.code)
  /\ \A i \in DOMAIN r.code : r.maps[i + 1] = KnownNext(r.pass, r.maps[i], r.code[i])
  /\ r.place \in [1..(Len(r.code) + 1) -> 1..(Len(r.target) + 1)]
  /\ r.place[1] = 1 /\ r.place[Len(r.code) + 1] = Len(r.target) + 1
  /\ \A i \in DOMAIN r.code : r.place[i + 1] = r.place[i] + Len(EmittedAt(r, i))
  /\ r.target \in Seq({r.target[k] : k \in DOMAIN r.target})
  /\ \A i \in DOMAIN r.code : ~Skips(r, i) => EmittedAt(r, i) = <<r.target[r.place[i]]>>
  /\ \A k \in DOMAIN r.target : \E i \in DOMAIN r.code : ~Skips(r, i) /\ r.place[i] = k

ASSUME RunsAssumption == \A r \in Runs : RunOf(r)

Statuses == {"run", "ret", "exit", "undef", "fell"}

\* A configuration of a list of n instructions in a frame of slots.
IsConfig(x, n, frame) ==
  /\ x = [pc |-> x.pc, st |-> x.st, out |-> x.out, used |-> x.used, mem |-> x.mem]
  /\ x.pc \in 1..(n + 1)
  /\ x.st \in Statuses
  /\ x.used \in Nat
  /\ x.mem \in [frame -> Words \cup {Undef}]

Frame == Names(run.code, run.params)

\* Each configuration is at a position of its list, its slots those of the
\* function's frame, and every slot holds a word or was never written.
TypeOK == /\ IsConfig(c, Len(run.code), Frame)
          /\ IsConfig(d, Len(run.target), Frame)

\* The target is where the code is, has shown what it has shown and has asked
\* what it has asked, after every instruction of every path, as long as the
\* code reads nothing that was never written.
InLockstep ==
  \/ c.st = "undef"
  \/ d.pc = run.place[c.pc] /\ d.st = c.st /\ d.out = c.out /\ d.used = c.used

-----------------------------------------------------------------------------
\* A known (kind, value) is what the slot holds.
Known(table, names, mem) ==
  \A n \in DOMAIN table : /\ n \in names /\ n \in DOMAIN mem
                          /\ table[n] \in Consts
                          /\ mem[n] = Wrap(table[n][2])

MapsTrue(m, mem) == /\ m = [tmp |-> m.tmp, var |-> m.var]
                    /\ Known(m.tmp, Temps, mem)
                    /\ Known(m.var, Vars, mem)

\* A dropped temp was computed on the way here: the temp that replaces it holds
\* in the target what it holds in the code.
RenamedTrue(r, i, x, y) ==
  \A t \in DOMAIN r.maps[i].red :
    DefinedNear(r.code, t, i) => y[r.maps[i].red[t]] = x[t]

\* The value of an expression given by its key.
Valued(key, mem) ==
  IF key[1] \in BinOps THEN Arith(key[1], mem[key[2]], mem[key[3]])
  ELSE Unary(key[1], mem[key[2]])

\* What a pass holds for true before instruction i is true of the memory x of
\* the code and y of its target.
KnowledgeTrue(r, i, x, y) ==
  LET m == r.maps[i]
  IN /\ r.pass = "cprop" => MapsTrue(m, x)
     /\ r.pass = "cp"  => /\ RenamedTrue(r, i, x, y)
                          /\ \A v \in DOMAIN m.v2t : y[m.v2t[v]] = x[v]
     /\ r.pass = "cse" => /\ RenamedTrue(r, i, x, y)
                          /\ \A k \in DOMAIN m.avail : y[m.avail[k]] = Valued(k, y)

\* The temps whose computation the pass drops.
DroppedTemps(r) == {r.code[i].args[1] : i \in {i \in DOMAIN r.code : Skips(r, i)}}

\* Both memories are the same but for the temps nobody computes any more; and,
\* but at a label, everything the pass holds for true is, whatever path led
\* here.  At a label the pass may hold anything, for it forgets it there.
Inv ==
  /\ TypeOK /\ InLockstep
  /\ c.st # "undef" => \A n \in Frame \ DroppedTemps(run) : d.mem[n] = c.mem[n]
  /\ c.st = "run" /\ c.pc \in DOMAIN run.code /\ run.code[c.pc].op # "LABEL"
       => KnowledgeTrue(run, c.pc, c.mem, d.mem)

=============================================================================
