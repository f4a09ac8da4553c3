--------------------------- MODULE LockstepProofs ---------------------------
(***************************************************************************)
(* Four passes keep in lock step with the code they read - constant        *)
(* propagation, copy propagation, common subexpressions, a sweep of dead   *)
(* code elimination - for every list of well-formed instructions, whatever *)
(* its labels, loops and paths, every word size and every answer of the    *)
(* environment.                                                            *)
(***************************************************************************)
EXTENDS MachineLemmas

-----------------------------------------------------------------------------
(***************************************************************************)
(* Copy propagation and common subexpressions: the temp that replaces a    *)
(* dropped one holds what that one would hold, for as long as anybody can  *)
(* still read it.                                                          *)
(***************************************************************************)

RenamingPasses == {"cp", "cse"}

-----------------------------------------------------------------------------
(***************************************************************************)
(* What both passes make of an instruction.                                *)
(***************************************************************************)

\* They drop what they find they have, and rename the temps of all the rest.
LEMMA RenamingMakes ==
  ASSUME NEW r \in Runs, r.pass \in RenamingPasses, NEW i \in DOMAIN r.code
  PROVE  /\ r.pass = "cp" => (Skips(r, i) <=> Dropped(r.maps[i], r.code[i]))
         /\ r.pass = "cse" => (Skips(r, i) <=> Redundant(r.maps[i], r.code[i]))
         /\ Skips(r, i) => r.code[i].op \in Pure
         /\ ~Skips(r, i) => Made(r, i) = Apply(r.maps[i].red, r.code[i])
<1>1. ~Skips(r, i) => EmittedAt(r, i) = <<Made(r, i)>>
  BY PlaceIs DEF Made
<1>2. CASE r.pass = "cp"
  <2>1. EmittedAt(r, i) = IF Dropped(r.maps[i], r.code[i]) THEN <<>>
                          ELSE <<Apply(r.maps[i].red, r.code[i])>>
    BY <1>2 DEF EmittedAt, Emitted, CopyEmit
  <2>2. Dropped(r.maps[i], r.code[i]) => r.code[i].op \in Pure
    BY DEF Dropped, Pure
  <2> QED BY <1>1, <1>2, <2>1, <2>2 DEF Skips
<1>3. CASE r.pass = "cse"
  <2>1. EmittedAt(r, i) = IF Redundant(r.maps[i], r.code[i]) THEN <<>>
                          ELSE <<Apply(r.maps[i].red, r.code[i])>>
    BY <1>3 DEF EmittedAt, Emitted, CSEEmit
  <2>2. Redundant(r.maps[i], r.code[i]) => r.code[i].op \in Pure
    BY DEF Redundant, Computes, Pure
  <2> QED BY <1>1, <1>3, <2>1, <2>2 DEF Skips
<1> QED BY <1>2, <1>3 DEF RenamingPasses

\* A temp that is computed before position i and not dropped.
Kept(r, u, i) ==
  /\ u \in Temps \ DroppedTemps(r)
  /\ \E k \in 1..(i - 1) : u \in DefinedTemps(r.code[k])

\* What is renamed before position i: what was dropped before it, to what is
\* kept.
RedHolds(r, i) ==
  LET red == r.maps[i].red
  IN  /\ \A t \in DOMAIN red : /\ \E j \in 1..(i - 1) : Skips(r, j) /\ r.code[j].args[1] = t
                               /\ Kept(r, red[t], i)
      /\ \A j \in 1..(i - 1) : Skips(r, j) => r.code[j].args[1] \in DOMAIN red

\* What a dropped instruction defines.
LEMMA DroppedDefines ==
  ASSUME NEW r \in Runs, r.pass \in RenamingPasses, NEW j, Skips(r, j)
  PROVE  /\ j \in DOMAIN r.code
         /\ DefinedTemps(r.code[j]) = {r.code[j].args[1]}
         /\ r.code[j].args[1] \in DroppedTemps(r) \cap Temps
<1>1. j \in DOMAIN r.code
  BY DEF Skips
<1>2. WellShaped(r.code[j]) /\ r.code[j].op \in Pure
  BY <1>1, RunIs, RenamingMakes
<1>3. DefinedTemps(r.code[j]) = {r.code[j].args[1]}
  BY <1>2, PureDefines
<1>4. r.code[j].args[1] \in Temps
  BY <1>2, <1>3, DefinesTemp
<1> QED BY <1>1, <1>3, <1>4 DEF DroppedTemps

\* A temp is defined once.
LEMMA DefinedOnce ==
  ASSUME NEW r \in Runs, r.pass \in RenamingPasses, NEW i \in DOMAIN r.code, NEW j \in DOMAIN r.code,
         NEW t \in DefinedTemps(r.code[i]), t \in DefinedTemps(r.code[j])
  PROVE  i = j
<1>1. DisciplinedTemps(r.code) /\ DOMAIN r.code = 1..Len(r.code) /\ Len(r.code) \in Nat
  BY RunIs DEF RenamingPasses
<1>2. ~(j \in 1..(i - 1)) /\ ~(i \in 1..(j - 1))
  BY <1>1 DEF DisciplinedTemps
<1> QED BY <1>1, <1>2

\* What an instruction defines is not renamed, and no kept temp is defined again.
LEMMA Fresh ==
  ASSUME NEW r \in Runs, r.pass \in RenamingPasses, NEW i \in DOMAIN r.code, RedHolds(r, i),
         NEW t \in DefinedTemps(r.code[i])
  PROVE  t \notin DOMAIN r.maps[i].red /\ ~Kept(r, t, i)
<1>1. DOMAIN r.code = 1..Len(r.code) /\ Len(r.code) \in Nat
  BY RunIs
<1>2. ASSUME NEW j \in 1..(i - 1), t \in DefinedTemps(r.code[j]) PROVE FALSE
  <2>1. j \in DOMAIN r.code /\ i # j
    BY <1>1
  <2>2. i = j
    BY <1>2, <2>1, DefinedOnce
  <2> QED BY <2>1, <2>2
<1>3. ASSUME NEW j \in 1..(i - 1), Skips(r, j) PROVE r.code[j].args[1] # t
  <2>1. DefinedTemps(r.code[j]) = {r.code[j].args[1]}
    BY <1>3, DroppedDefines
  <2> QED BY <1>2, <2>1
<1> QED BY <1>2, <1>3 DEF RedHolds, Kept

\* Resolving takes one step at most.
LEMMA ResolveIs ==
  ASSUME NEW r \in Runs, r.pass \in RenamingPasses, NEW i, RedHolds(r, i), NEW t
  PROVE  LET red == r.maps[i].red
         IN  Resolve(red, t) = IF t \in DOMAIN red THEN red[t] ELSE t
<1> DEFINE red == r.maps[i].red
<1>1. \A u \in DOMAIN red : u \in DroppedTemps(r) /\ red[u] \notin DroppedTemps(r)
  BY DroppedDefines DEF RedHolds, Kept
<1>2. t \in DOMAIN red => red[t] \notin DOMAIN red
  BY <1>1
<1> HIDE DEF red
<1>3. Resolve(red, t) = IF t \in DOMAIN red THEN red[t] ELSE t
  BY <1>2 DEF Resolve
<1> QED BY <1>3 DEF red

\* A temp that is kept is not renamed.
LEMMA KeptStays ==
  ASSUME NEW r \in Runs, r.pass \in RenamingPasses, NEW i, RedHolds(r, i), NEW u, Kept(r, u, i)
  PROVE  u \notin DOMAIN r.maps[i].red /\ Resolve(r.maps[i].red, u) = u
<1>1. u \notin DOMAIN r.maps[i].red
  BY DroppedDefines DEF RedHolds, Kept
<1> QED BY <1>1, ResolveIs

\* What an instruction reads, read as renamed, is kept.
LEMMA ReadsKept ==
  ASSUME NEW r \in Runs, r.pass \in RenamingPasses, NEW i \in DOMAIN r.code, RedHolds(r, i),
         NEW t \in UsedOf(r.code[i])
  PROVE  /\ t \in Temps /\ DefinedNear(r.code, t, i)
         /\ t \notin DOMAIN r.maps[i].red => t \notin DroppedTemps(r)
         /\ Kept(r, Resolve(r.maps[i].red, t), i)
<1> DEFINE red == r.maps[i].red
<1>1. DisciplinedTemps(r.code) /\ WellShaped(r.code[i]) /\ DOMAIN r.code = 1..Len(r.code)
      /\ Len(r.code) \in Nat
  BY RunIs DEF RenamingPasses
<1>2. t \in Temps
  BY <1>1, UsedOperand
<1>3. DefinedNear(r.code, t, i)
  BY <1>1 DEF DisciplinedTemps
<1>4. PICK k \in 1..(i - 1) : t \in DefinedTemps(r.code[k])
  BY <1>3 DEF DefinedNear
<1>5. ASSUME t \in DroppedTemps(r) PROVE t \in DOMAIN red
  <2>1. PICK j \in DOMAIN r.code : Skips(r, j) /\ r.code[j].args[1] = t
    BY <1>5 DEF DroppedTemps
  <2>2. t \in DefinedTemps(r.code[j])
    BY <2>1, DroppedDefines
  <2>3. k \in DOMAIN r.code
    BY <1>1
  <2>4. j = k
    BY <1>4, <2>2, <2>3, DefinedOnce
  <2> QED BY <2>1, <2>4 DEF RedHolds
<1>6. CASE t \in DOMAIN red
  <2>1. Resolve(red, t) = red[t]
    BY <1>6, ResolveIs
  <2> QED BY <1>2, <1>3, <1>6, <2>1 DEF RedHolds
<1>7. CASE t \notin DOMAIN red
  <2>1. Resolve(red, t) = t
    BY <1>7, ResolveIs
  <2> QED BY <1>2, <1>3, <1>4, <1>5, <1>7, <2>1 DEF Kept
<1> QED BY <1>6, <1>7

\* Every temp an instruction names it reads or defines.
LEMMA TempsRole ==
  ASSUME NEW ins, WellShaped(ins), NEW k \in DOMAIN ins.args, IsTemp(ins.args[k])
  PROVE  ins.args[k] \in UsedOf(ins) \cup DefinedTemps(ins)
<1> DEFINE o == ins.op  a == ins.args
<1>1. CASE o \in {"CONST", "LOAD", "STORE", "LOAD_ARR", "STORE_ARR"}
  BY <1>1, ArgsAre, TempsAre, Distinct
<1>2. CASE o \in BinOps \cup UnaryOps
  BY <1>2, ArgsAre, TempsAre
<1>3. CASE o \in {"PARAM", "EXIT", "JMP_IF", "JMP_IF_NOT", "READ_INT"}
  BY <1>3, ArgsAre, TempsAre
<1>4. CASE o \in {"RET", "CALL"}
  BY <1>4, ArgsAre, TempsAre, NoTemps
<1>5. CASE o \in {"PRINT", "LABEL", "JMP", "FUNC_ENTRY", "ALLOC_ARRAY"}
  BY <1>5, ArgsAre, TempsAre
<1>6. \/ o \in {"CONST", "LOAD", "STORE", "LOAD_ARR", "STORE_ARR"} \/ o \in BinOps \cup UnaryOps
      \/ o \in {"PARAM", "EXIT", "JMP_IF", "JMP_IF_NOT", "READ_INT"} \/ o \in {"RET", "CALL"}
      \/ o \in {"PRINT", "LABEL", "JMP", "FUNC_ENTRY", "ALLOC_ARRAY"}
  <2>1. o \in Ops
    BY DEF WellShaped
  <2> HIDE DEF o
  <2> QED BY <2>1 DEF Ops
<1> QED BY <1>1, <1>2, <1>3, <1>4, <1>5, <1>6

\* The operands after renaming.
LEMMA AppliedArgs ==
  ASSUME NEW r \in Runs, r.pass \in RenamingPasses, NEW i \in DOMAIN r.code, RedHolds(r, i)
  PROVE  LET ins == r.code[i]  red == r.maps[i].red  jns == Apply(red, ins) IN
         /\ jns = [op |-> ins.op, args |-> jns.args]
         /\ jns.op = ins.op /\ DOMAIN jns.args = DOMAIN ins.args
         /\ \A k \in DOMAIN ins.args :
              /\ ins.args[k] \in UsedOf(ins) => /\ jns.args[k] = Resolve(red, ins.args[k])
                                               /\ Kept(r, jns.args[k], i)
              /\ ins.args[k] \notin UsedOf(ins) \/ ins.args[k] \in DefinedTemps(ins)
                   => jns.args[k] = ins.args[k]
<1> DEFINE ins == r.code[i]  red == r.maps[i].red  jns == Apply(red, ins)
<1>1. WellShaped(ins)
  BY RunIs
<1>2. ins = [op |-> ins.op, args |-> ins.args]
  BY <1>1 DEF WellShaped
<1>3. jns = [op |-> ins.op,
             args |-> [k \in DOMAIN ins.args |->
                         IF IsTemp(ins.args[k]) THEN Resolve(red, ins.args[k]) ELSE ins.args[k]]]
  <2> HIDE DEF ins, red
  <2> QED BY <1>2 DEF Apply
<1>4. /\ jns = [op |-> ins.op, args |-> jns.args]
      /\ jns.op = ins.op /\ DOMAIN jns.args = DOMAIN ins.args
      /\ \A k \in DOMAIN ins.args :
           jns.args[k] = IF IsTemp(ins.args[k]) THEN Resolve(red, ins.args[k]) ELSE ins.args[k]
  <2> HIDE DEF ins, red, jns
  <2> QED BY <1>3
<1>5. ASSUME NEW k \in DOMAIN ins.args, ins.args[k] \in UsedOf(ins)
      PROVE  jns.args[k] = Resolve(red, ins.args[k]) /\ Kept(r, jns.args[k], i)
  <2>1. IsTemp(ins.args[k])
    BY <1>5 DEF UsedOf
  <2>2. Kept(r, Resolve(red, ins.args[k]), i)
    BY <1>5, ReadsKept
  <2> HIDE DEF ins, red, jns
  <2> QED BY <1>4, <2>1, <2>2
<1>6. ASSUME NEW k \in DOMAIN ins.args, ins.args[k] \in DefinedTemps(ins)
      PROVE  jns.args[k] = ins.args[k]
  <2>1. Resolve(red, ins.args[k]) = ins.args[k]
    <3>1. ins.args[k] \notin DOMAIN red
      BY <1>6, Fresh
    <3> QED BY <3>1, ResolveIs
  <2> HIDE DEF ins, red, jns
  <2> QED BY <1>4, <2>1
<1>7. ASSUME NEW k \in DOMAIN ins.args, ins.args[k] \notin UsedOf(ins)
      PROVE  jns.args[k] = ins.args[k]
  <2>1. IsTemp(ins.args[k]) => ins.args[k] \in DefinedTemps(ins)
    BY <1>1, <1>7, TempsRole
  <2> HIDE DEF ins, red, jns
  <2> QED BY <1>4, <1>6, <2>1
<1> QED BY <1>4, <1>5, <1>6, <1>7

\* The list of operands after each of them changed within its set.
LEMMA PairKept ==
  ASSUME NEW S, NEW T, NEW a \in S \X T, NEW b, b = [k \in DOMAIN a |-> b[k]],
         a[1] \in S => b[1] \in S, a[2] \in T => b[2] \in T
  PROVE  b \in S \X T
<1>1. DOMAIN a = 1..2 /\ a[1] \in S /\ a[2] \in T
  OBVIOUS
<1>2. PICK u \in S, v \in T : u = b[1] /\ v = b[2]
  BY <1>1
<1>3. b = <<u, v>>
  BY <1>1, <1>2
<1> QED BY <1>3

LEMMA TripleKept ==
  ASSUME NEW S, NEW T, NEW U, NEW a \in S \X T \X U, NEW b, b = [k \in DOMAIN a |-> b[k]],
         a[1] \in S => b[1] \in S, a[2] \in T => b[2] \in T, a[3] \in U => b[3] \in U
  PROVE  b \in S \X T \X U
<1>1. DOMAIN a = 1..3 /\ a[1] \in S /\ a[2] \in T /\ a[3] \in U
  OBVIOUS
<1>2. PICK u \in S, v \in T, w \in U : u = b[1] /\ v = b[2] /\ w = b[3]
  BY <1>1
<1>3. b = <<u, v, w>>
  BY <1>1, <1>2
<1> QED BY <1>3

\* Other temps for the temps of an instruction leave its shape.
LEMMA FitKept ==
  ASSUME NEW o \in Ops, NEW a, ArgsFit(o, a), NEW b, b = [k \in DOMAIN a |-> b[k]],
         \A k \in DOMAIN a : /\ IsTemp(a[k]) => b[k] \in Temps
                             /\ ~IsTemp(a[k]) => b[k] = a[k]
  PROVE  ArgsFit(o, b)
<1>1. \A k \in DOMAIN a :
        /\ a[k] \in Temps => b[k] \in Temps
        /\ a[k] \in Temps \cup {None} => b[k] \in Temps \cup {None}
        /\ a[k] \in Vars => b[k] \in Vars
        /\ a[k] \in Labels => b[k] \in Labels
        /\ a[k] \in Funs => b[k] \in Funs
        /\ a[k] \in Counts => b[k] \in Counts
        /\ a[k] \in Consts => b[k] \in Consts
  BY NoTemps, Distinct
<1>2. CASE o \in {"CONST", "LOAD", "STORE", "JMP_IF", "JMP_IF_NOT", "ALLOC_ARRAY"} \cup UnaryOps
  <2>1. PICK S \in {Temps, Vars}, T \in {Consts, Vars, Temps, Labels, Counts} :
          /\ a \in S \X T
          /\ b \in S \X T => ArgsFit(o, b)
    <3>1. CASE o = "CONST" BY <3>1 DEF ArgsFit, BinOps, UnaryOps
    <3>2. CASE o = "LOAD" BY <3>2 DEF ArgsFit, BinOps, UnaryOps
    <3>3. CASE o = "STORE" BY <3>3 DEF ArgsFit, BinOps, UnaryOps
    <3>4. CASE o \in {"JMP_IF", "JMP_IF_NOT"} BY <3>4 DEF ArgsFit, BinOps, UnaryOps
    <3>5. CASE o = "ALLOC_ARRAY" BY <3>5 DEF ArgsFit, BinOps, UnaryOps
    <3>6. CASE o \in UnaryOps BY <3>6 DEF ArgsFit, BinOps, UnaryOps
    <3> QED BY <1>2, <3>1, <3>2, <3>3, <3>4, <3>5, <3>6
  <2>2. 1 \in DOMAIN a /\ 2 \in DOMAIN a
    BY <2>1
  <2>3. (a[1] \in S => b[1] \in S) /\ (a[2] \in T => b[2] \in T)
    BY <1>1, <2>2
  <2> QED BY <2>1, <2>3, PairKept
<1>3. CASE o \in {"LOAD_ARR", "STORE_ARR", "CALL"} \cup BinOps
  <2>1. PICK S \in {Temps, Vars, Temps \cup {None}}, T \in {Vars, Temps, Funs}, U \in {Temps, Counts} :
          /\ a \in S \X T \X U
          /\ b \in S \X T \X U => ArgsFit(o, b)
    <3>1. CASE o = "LOAD_ARR" BY <3>1 DEF ArgsFit, BinOps, UnaryOps
    <3>2. CASE o = "STORE_ARR" BY <3>2 DEF ArgsFit, BinOps, UnaryOps
    <3>3. CASE o = "CALL" BY <3>3 DEF ArgsFit, BinOps, UnaryOps
    <3>4. CASE o \in BinOps BY <3>4 DEF ArgsFit, BinOps, UnaryOps
    <3> QED BY <1>3, <3>1, <3>2, <3>3, <3>4
  <2>2. 1 \in DOMAIN a /\ 2 \in DOMAIN a /\ 3 \in DOMAIN a
    BY <2>1
  <2>3. (a[1] \in S => b[1] \in S) /\ (a[2] \in T => b[2] \in T) /\ (a[3] \in U => b[3] \in U)
    BY <1>1, <2>2
  <2> QED BY <2>1, <2>3, TripleKept
<1>4. CASE o \in {"PARAM", "EXIT", "READ_INT", "RET", "LABEL", "JMP", "FUNC_ENTRY"}
  <2>1. DOMAIN a = 1..1 /\ b = [k \in 1..1 |-> b[k]]
    BY <1>4 DEF ArgsFit
  <2>2. PICK S \in {Temps, Temps \cup {None}, Labels, Funs} :
          /\ a \in [1..1 -> S]
          /\ b \in [1..1 -> S] => ArgsFit(o, b)
    <3>1. CASE o \in {"PARAM", "EXIT", "READ_INT"} BY <3>1 DEF ArgsFit, BinOps, UnaryOps
    <3>2. CASE o = "RET" BY <3>2 DEF ArgsFit, BinOps, UnaryOps
    <3>3. CASE o \in {"LABEL", "JMP"} BY <3>3 DEF ArgsFit, BinOps, UnaryOps
    <3>4. CASE o = "FUNC_ENTRY" BY <3>4 DEF ArgsFit, BinOps, UnaryOps
    <3> QED BY <1>4, <3>1, <3>2, <3>3, <3>4
  <2>3. \A k \in 1..1 : b[k] \in S
    BY <1>1, <2>1, <2>2
  <2>4. b \in [1..1 -> S]
    BY <2>1, <2>3
  <2> QED BY <2>2, <2>4
<1>5. CASE o = "PRINT"
  <2>1. a \in Seq(Temps)
    BY <1>5 DEF ArgsFit
  <2>2. Len(a) \in Nat /\ DOMAIN a = 1..Len(a) /\ \A k \in 1..Len(a) : a[k] \in Temps
    BY <2>1
  <2>3. b \in [1..Len(a) -> Temps]
    BY <1>1, <2>2
  <2>4. b \in Seq(Temps)
    BY <2>2, <2>3
  <2> QED BY <1>5, <2>4 DEF ArgsFit, BinOps, UnaryOps
<1>6. \/ o \in {"CONST", "LOAD", "STORE", "JMP_IF", "JMP_IF_NOT", "ALLOC_ARRAY"} \cup UnaryOps
      \/ o \in {"LOAD_ARR", "STORE_ARR", "CALL"} \cup BinOps
      \/ o \in {"PARAM", "EXIT", "READ_INT", "RET", "LABEL", "JMP", "FUNC_ENTRY"}
      \/ o = "PRINT"
  BY DEF Ops
<1> QED BY <1>2, <1>3, <1>4, <1>5, <1>6

\* The instruction keeps its shape, and what it defined it still defines.
LEMMA AppliedShape ==
  ASSUME NEW r \in Runs, r.pass \in RenamingPasses, NEW i \in DOMAIN r.code, RedHolds(r, i)
  PROVE  LET jns == Apply(r.maps[i].red, r.code[i]) IN
         WellShaped(jns) /\ DefinedTemps(jns) = DefinedTemps(r.code[i])
<1> DEFINE ins == r.code[i]  jns == Apply(r.maps[i].red, ins)
           o == ins.op  a == ins.args  b == jns.args
<1>1. WellShaped(ins)
  BY RunIs
<1>2. /\ jns = [op |-> jns.op, args |-> jns.args] /\ jns.op = o /\ DOMAIN b = DOMAIN a
      /\ b = [k \in DOMAIN a |-> b[k]]
      /\ \A k \in DOMAIN a : /\ IsTemp(a[k]) => b[k] \in Temps
                             /\ ~IsTemp(a[k]) => b[k] = a[k]
                             /\ a[k] \in DefinedTemps(ins) => b[k] = a[k]
  <2>1. /\ jns = [op |-> o, args |-> b] /\ jns.op = o /\ DOMAIN b = DOMAIN a
        /\ \A k \in DOMAIN a :
             /\ a[k] \in UsedOf(ins) => b[k] \in Temps
             /\ a[k] \notin UsedOf(ins) \/ a[k] \in DefinedTemps(ins) => b[k] = a[k]
    BY AppliedArgs DEF Kept
  <2>2. \A k \in DOMAIN a : IsTemp(a[k]) => a[k] \in UsedOf(ins) \/ a[k] \in DefinedTemps(ins)
    BY <1>1, TempsRole
  <2>3. \A k \in DOMAIN a : a[k] \in DefinedTemps(ins) => a[k] \in Temps
    BY <1>1, DefinesTemp
  <2>4. \A k \in DOMAIN a : ~IsTemp(a[k]) => a[k] \notin UsedOf(ins)
    BY DEF UsedOf
  <2>5. b = [k \in DOMAIN a |-> b[k]]
    <3>1. b = [k \in DOMAIN a |->
                 IF IsTemp(a[k]) THEN Resolve(r.maps[i].red, a[k]) ELSE a[k]]
      <4>1. ins = [op |-> ins.op, args |-> ins.args]
        BY <1>1 DEF WellShaped
      <4> HIDE DEF ins
      <4> QED BY <4>1 DEF Apply
    <3> HIDE DEF b, a
    <3> QED BY <3>1
  <2> HIDE DEF ins, jns
  <2> QED BY <2>1, <2>2, <2>3, <2>4, <2>5
<1>3. ArgsFit(o, a) /\ o \in Ops
  BY <1>1 DEF WellShaped
<1>4. ArgsFit(o, b)
  <2> HIDE DEF jns, ins, o, a, b
  <2> QED BY <1>2, <1>3, FitKept
<1>5. WellShaped(jns)
  <2> HIDE DEF jns, ins
  <2> QED BY <1>2, <1>3, <1>4 DEF WellShaped
<1>6. DefinedTemps(jns) = DefinedTemps(ins)
  <2>1. CASE o \in Pure \cup {"READ_INT"}
    <3>1. DefinedTemps(ins) = {a[1]} /\ 1 \in DOMAIN a
      BY <1>1, <2>1, TempsAre, ArgsAre DEF Pure
    <3>2. jns.op \in Pure \cup {"READ_INT"}
      BY <1>2, <2>1
    <3>3. DefinedTemps(jns) = {b[1]}
      <4> HIDE DEF jns
      <4> QED BY <1>5, <3>2, TempsAre DEF Pure
    <3>4. b[1] = a[1]
      BY <1>2, <3>1
    <3> QED BY <3>1, <3>3, <3>4
  <2>2. CASE o = "CALL"
    <3>1. DefinedTemps(ins) = {a[1]} \ {None} /\ 1 \in DOMAIN a /\ (a[1] \in Temps \/ a[1] = None)
      BY <1>1, <2>2, TempsAre, ArgsAre
    <3>2. jns.op = "CALL"
      BY <1>2, <2>2
    <3>3. DefinedTemps(jns) = {b[1]} \ {None}
      <4> HIDE DEF jns
      <4> QED BY <1>5, <3>2, TempsAre
    <3>4. b[1] = a[1]
      BY <1>2, <3>1, NoTemps
    <3> QED BY <3>1, <3>3, <3>4
  <2>3. CASE o \notin Pure \cup {"READ_INT", "CALL"}
    BY <1>1, <1>2, <1>5, <2>3, DefinesTemp
  <2> QED BY <2>1, <2>2, <2>3
<1> QED BY <1>5, <1>6

-----------------------------------------------------------------------------
(***************************************************************************)
(* What they do when they run.                                             *)
(***************************************************************************)

\* A temp that an instruction of the code defines is in the frame.
LEMMA DefinedSlot ==
  ASSUME NEW r \in Runs, NEW k \in DOMAIN r.code, NEW t \in DefinedTemps(r.code[k])
  PROVE  t \in Temps \cap FrameOf(r)
<1>1. t \in Temps /\ 1 \in DOMAIN r.code[k].args /\ t = r.code[k].args[1]
  BY RunIs, DefinesTemp
<1> QED BY <1>1, OperandSlot

LEMMA KeptSlot ==
  ASSUME NEW r \in Runs, NEW i \in 1..(Len(r.code) + 1), NEW u, Kept(r, u, i)
  PROVE  u \in Temps /\ u \in FrameOf(r) \ DroppedTemps(r)
<1>1. PICK k \in 1..(i - 1) : u \in DefinedTemps(r.code[k])
  BY DEF Kept
<1>2. k \in DOMAIN r.code
  BY RunIs
<1> QED BY <1>1, <1>2, DefinedSlot DEF Kept

\* Before any instruction but a label, both memories agree and the renaming is
\* true.
RenamedBefore(r, i, x, y) ==
  /\ x \in [FrameOf(r) -> Words \cup {Undef}]
  /\ y \in [FrameOf(r) -> Words \cup {Undef}]
  /\ \A n \in FrameOf(r) \ DroppedTemps(r) : y[n] = x[n]
  /\ r.code[i].op # "LABEL" => RenamedTrue(r, i, x, y)

\* What is read as renamed in the target is what is read in the code.
LEMMA SameValue ==
  ASSUME NEW r \in Runs, r.pass \in RenamingPasses, NEW i \in DOMAIN r.code, RedHolds(r, i),
         NEW x, NEW y, RenamedBefore(r, i, x, y), NEW t \in UsedOf(r.code[i])
  PROVE  y[Resolve(r.maps[i].red, t)] = x[t]
<1> DEFINE red == r.maps[i].red
<1>1. /\ t \in Temps /\ DefinedNear(r.code, t, i)
      /\ t \notin DOMAIN red => t \notin DroppedTemps(r)
  BY ReadsKept
<1>2. r.code[i].op # "LABEL"
  BY RunIs, TempsAre
<1>3. CASE t \in DOMAIN red
  <2>1. Resolve(red, t) = red[t]
    BY <1>3, ResolveIs
  <2> QED BY <1>1, <1>2, <1>3, <2>1 DEF RenamedBefore, RenamedTrue
<1>4. CASE t \notin DOMAIN red
  <2>1. Resolve(red, t) = t
    BY <1>4, ResolveIs
  <2>3. t \in FrameOf(r)
    BY RunIs, UsedOperand, OperandSlot
  <2> QED BY <1>1, <1>4, <2>1, <2>3 DEF RenamedBefore
<1> QED BY <1>3, <1>4

\* What the target executes is the instruction renamed.
LEMMA AppliedRenames ==
  ASSUME NEW r \in Runs, r.pass \in RenamingPasses, NEW i \in DOMAIN r.code, RedHolds(r, i),
         NEW x, NEW y, RenamedBefore(r, i, x, y)
  PROVE  Renames(FrameOf(r), Apply(r.maps[i].red, r.code[i]), y, r.code[i], x)
<1> DEFINE ins == r.code[i]  red == r.maps[i].red  jns == Apply(red, ins)
<1>1. /\ jns.op = ins.op /\ DOMAIN jns.args = DOMAIN ins.args
      /\ \A k \in DOMAIN ins.args :
           /\ ins.args[k] \in UsedOf(ins) => /\ jns.args[k] = Resolve(red, ins.args[k])
                                            /\ Kept(r, jns.args[k], i)
           /\ ins.args[k] \notin UsedOf(ins) \/ ins.args[k] \in DefinedTemps(ins)
                => jns.args[k] = ins.args[k]
  BY AppliedArgs
<1>2. i \in 1..(Len(r.code) + 1)
  BY RunIs
<1>3. ASSUME NEW k \in DOMAIN ins.args, ins.args[k] \in UsedOf(ins)
      PROVE  /\ IsTemp(jns.args[k]) /\ jns.args[k] \in FrameOf(r)
             /\ y[jns.args[k]] = x[ins.args[k]]
  <2>1. jns.args[k] = Resolve(red, ins.args[k]) /\ Kept(r, jns.args[k], i)
    BY <1>1, <1>3
  <2>2. jns.args[k] \in Temps /\ jns.args[k] \in FrameOf(r)
    BY <1>2, <2>1, KeptSlot
  <2>3. y[Resolve(red, ins.args[k])] = x[ins.args[k]]
    BY <1>3, SameValue
  <2> QED BY <2>1, <2>2, <2>3, Distinct
<1> HIDE DEF ins, jns, red
<1> QED BY <1>1, <1>3 DEF Renames, ins, jns, red

\* A kept temp keeps its value.
LEMMA KeptSteady ==
  ASSUME NEW r \in Runs, r.pass \in RenamingPasses, NEW i \in DOMAIN r.code, RedHolds(r, i),
         NEW y \in [FrameOf(r) -> Words \cup {Undef}], NEW in, NEW u, Kept(r, u, i)
  PROVE  Behind(r, i, y, in)[u] = y[u]
<1>1. CASE Skips(r, i)
  BY <1>1 DEF Behind
<1>2. CASE ~Skips(r, i)
  <2> DEFINE jns == Apply(r.maps[i].red, r.code[i])
  <2>1. Behind(r, i, y, in) = Effect(y, jns, in)
    BY <1>2, RenamingMakes DEF Behind
  <2>2. WellShaped(jns) /\ DefinedTemps(jns) = DefinedTemps(r.code[i])
    BY AppliedShape
  <2>3. u \notin DefinedTemps(r.code[i])
    BY Fresh
  <2>4. i \in 1..(Len(r.code) + 1)
    BY RunIs
  <2>5. u \in Temps /\ u \in FrameOf(r)
    BY <2>4, KeptSlot
  <2> HIDE DEF jns
  <2>6. jns.op = "STORE" => u # jns.args[1]
    BY <2>2, <2>5, ArgsAre, Distinct
  <2>7. Effect(y, jns, in)[u] = y[u]
    BY <2>2, <2>3, <2>5, <2>6, EffectElsewhere
  <2> QED BY <2>1, <2>7
<1> QED BY <1>1, <1>2

\* The memories agree again after the instruction, or after waiting for it.
LEMMA RenamingAgrees ==
  ASSUME NEW r \in Runs, r.pass \in RenamingPasses, NEW i \in DOMAIN r.code, RedHolds(r, i),
         NEW x, NEW y, RenamedBefore(r, i, x, y), ~Stuck(x, r.code[i]), NEW in
  PROVE  /\ ~Skips(r, i) => Mimics(Made(r, i), y, r.code[i], x)
         /\ \A n \in FrameOf(r) \ DroppedTemps(r) :
              Behind(r, i, y, in)[n] = Effect(x, r.code[i], in)[n]
<1> DEFINE ins == r.code[i]  D == DroppedTemps(r)  frame == FrameOf(r)
<1>1. /\ x \in [frame -> Words \cup {Undef}] /\ y \in [frame -> Words \cup {Undef}]
      /\ \A n \in frame \ D : y[n] = x[n]
  BY DEF RenamedBefore
<1>2. WellShaped(ins)
  BY RunIs
<1>3. D \in SUBSET Temps
  BY DroppedDefines DEF DroppedTemps
<1>4. CASE Skips(r, i)
  <2>1. ins.op \in Pure /\ ins.args[1] \in D
    BY <1>4, RenamingMakes, DroppedDefines
  <2>2. \A n \in frame \ D : y[n] = Effect(x, ins, in)[n]
    BY <1>1, <2>1, PureEffect
  <2> QED BY <1>4, <2>2 DEF Behind
<1>5. CASE ~Skips(r, i)
  <2> DEFINE jns == Apply(r.maps[i].red, ins)
  <2>1. Made(r, i) = jns
    BY <1>5, RenamingMakes
  <2>2. Renames(frame, jns, y, ins, x)
    BY AppliedRenames
  <2>3. \A n \in frame : ~IsTemp(n) => y[n] = x[n]
    BY <1>1, <1>3, Distinct
  <2> HIDE DEF jns, ins, D, frame
  <2>4. Mimics(jns, y, ins, x)
    BY <1>1, <1>2, <2>2, <2>3, RenamedMimics DEF ins
  <2>5. \A n \in frame \ D : Effect(y, jns, in)[n] = Effect(x, ins, in)[n]
    BY <1>1, <1>2, <1>3, <2>2, RenamedEffect DEF ins
  <2> QED BY <1>5, <2>1, <2>4, <2>5 DEF Behind, ins, D, frame
<1> QED BY <1>4, <1>5

\* What happens to the renaming at instruction i: nothing, or what is dropped
\* there is renamed to w.
RedStep(r, i, w) ==
  /\ ~Skips(r, i) => r.maps[i + 1].red = r.maps[i].red
  /\ Skips(r, i)  => /\ Kept(r, w, i)
                     /\ r.maps[i + 1].red = Put(r.maps[i].red, r.code[i].args[1], w)

LEMMA RedNext ==
  ASSUME NEW r \in Runs, r.pass \in RenamingPasses, NEW i \in DOMAIN r.code, RedHolds(r, i),
         NEW w, RedStep(r, i, w)
  PROVE  RedHolds(r, i + 1)
<1> DEFINE red == r.maps[i].red  new == r.maps[i + 1].red  t0 == r.code[i].args[1]
<1>1. i \in Nat /\ i >= 1
  BY RunIs
<1>2. \A j : j \in 1..((i + 1) - 1) <=> j \in 1..(i - 1) \/ j = i
  BY <1>1
<1>3. \A u : Kept(r, u, i) => Kept(r, u, i + 1)
  BY <1>2 DEF Kept
<1>4. CASE ~Skips(r, i)
  <2>1. new = red
    BY <1>4 DEF RedStep
  <2> HIDE DEF red, new
  <2> QED BY <1>2, <1>3, <1>4, <2>1 DEF RedHolds, red, new
<1>5. CASE Skips(r, i)
  <2>1. Kept(r, w, i) /\ new = Put(red, t0, w)
    BY <1>5 DEF RedStep
  <2>2. /\ DOMAIN new = DOMAIN red \cup {t0} /\ new[t0] = w
        /\ \A t \in DOMAIN red : t # t0 => new[t] = red[t]
    <3> HIDE DEF red, new, t0
    <3> QED BY <2>1 DEF Put
  <2>3. \A t \in DOMAIN red : /\ \E j \in 1..(i - 1) : Skips(r, j) /\ r.code[j].args[1] = t
                              /\ Kept(r, red[t], i)
    BY DEF RedHolds
  <2>4. \A j \in 1..(i - 1) : Skips(r, j) => r.code[j].args[1] \in DOMAIN red
    BY DEF RedHolds
  <2>5. ASSUME NEW t \in DOMAIN new
        PROVE  /\ \E j \in 1..((i + 1) - 1) : Skips(r, j) /\ r.code[j].args[1] = t
               /\ Kept(r, new[t], i + 1)
    <3>1. CASE t = t0
      <4>1. i \in 1..((i + 1) - 1)
        BY <1>2
      <4> QED BY <1>3, <1>5, <2>1, <2>2, <3>1, <4>1
    <3>2. CASE t # t0
      <4>1. t \in DOMAIN red /\ new[t] = red[t]
        BY <2>2, <3>2
      <4> HIDE DEF red, new, t0
      <4> QED BY <1>2, <1>3, <2>3, <4>1
    <3> QED BY <3>1, <3>2
  <2>6. ASSUME NEW j \in 1..((i + 1) - 1), Skips(r, j) PROVE r.code[j].args[1] \in DOMAIN new
    BY <1>2, <2>2, <2>4, <2>6
  <2> HIDE DEF red, new, t0
  <2> QED BY <2>5, <2>6 DEF RedHolds, new
<1> QED BY <1>4, <1>5

\* The renaming stays true, if what is dropped is what w holds.
LEMMA RenamedNext ==
  ASSUME NEW r \in Runs, r.pass \in RenamingPasses, NEW i \in DOMAIN r.code, RedHolds(r, i),
         NEW x, NEW y, RenamedBefore(r, i, x, y), ~Stuck(x, r.code[i]), NEW in,
         NEW xx, xx = Effect(x, r.code[i], in),
         NEW w, RedStep(r, i, w), Skips(r, i) => y[w] = xx[r.code[i].args[1]]
  PROVE  RenamedTrue(r, i + 1, xx, Behind(r, i, y, in))
<1> DEFINE red == r.maps[i].red  new == r.maps[i + 1].red  t0 == r.code[i].args[1]
           ins == r.code[i]  yy == Behind(r, i, y, in)
<1> SUFFICES ASSUME NEW t \in DOMAIN new, DefinedNear(r.code, t, i + 1)
             PROVE  yy[new[t]] = xx[t]
  BY DEF RenamedTrue
<1>1. i \in Nat /\ i >= 1 /\ WellShaped(ins) /\ DOMAIN r.code = 1..Len(r.code) /\ Len(r.code) \in Nat
  BY RunIs
<1>2. CASE Skips(r, i) /\ t = t0
  <2>1. new = Put(red, t0, w)
    BY <1>2 DEF RedStep
  <2>2. new[t] = w
    <3> HIDE DEF new, red, t0
    <3> QED BY <1>2, <2>1 DEF Put
  <2>3. yy = y
    BY <1>2 DEF Behind
  <2> HIDE DEF new, yy, t0
  <2> QED BY <1>2, <2>2, <2>3 DEF t0
<1>3. CASE ~(Skips(r, i) /\ t = t0)
  <2>1. t \in DOMAIN red /\ new[t] = red[t]
    <3>1. CASE Skips(r, i)
      <4>1. new = Put(red, t0, w)
        BY <3>1 DEF RedStep
      <4> HIDE DEF new, red, t0
      <4> QED BY <1>3, <3>1, <4>1 DEF Put
    <3>2. CASE ~Skips(r, i)
      BY <3>2 DEF RedStep
    <3> QED BY <3>1, <3>2
  <2>2. t \notin DefinedTemps(ins)
    BY <2>1, Fresh
  <2>3. PICK j \in 1..((i + 1) - 1) : /\ t \in DefinedTemps(r.code[j])
                                      /\ \A k \in j..((i + 1) - 1) : r.code[k].op # "LABEL"
    BY DEF DefinedNear
  <2>4. j \in 1..(i - 1) /\ ins.op # "LABEL" /\ \A k \in j..(i - 1) : r.code[k].op # "LABEL"
    <3>1. j # i
      BY <2>2, <2>3
    <3> QED BY <1>1, <2>3, <3>1
  <2>5. DefinedNear(r.code, t, i)
    BY <2>3, <2>4 DEF DefinedNear
  <2>6. y[red[t]] = x[t]
    BY <2>1, <2>4, <2>5 DEF RenamedBefore, RenamedTrue
  <2>7. yy[red[t]] = y[red[t]]
    <3>1. Kept(r, red[t], i)
      BY <2>1 DEF RedHolds
    <3>2. y \in [FrameOf(r) -> Words \cup {Undef}]
      BY DEF RenamedBefore
    <3> QED BY <3>1, <3>2, KeptSteady
  <2>8. xx[t] = x[t]
    <3>1. j \in DOMAIN r.code
      BY <1>1, <2>4
    <3>2. t \in Temps /\ t \in FrameOf(r)
      BY <2>3, <3>1, DefinedSlot
    <3>3. ins.op = "STORE" => t # ins.args[1]
      BY <1>1, <3>2, ArgsAre, Distinct
    <3>4. x \in [FrameOf(r) -> Words \cup {Undef}]
      BY DEF RenamedBefore
    <3> HIDE DEF ins
    <3> QED BY <1>1, <2>2, <3>2, <3>3, <3>4, EffectElsewhere DEF ins
  <2> HIDE DEF new, red, yy
  <2> QED BY <2>1, <2>6, <2>7, <2>8
<1> QED BY <1>2, <1>3

-----------------------------------------------------------------------------
(***************************************************************************)
(* Copy propagation.                                                       *)
(***************************************************************************)

\* What each operation does to what the pass knows; a are the renamed arguments.
CopyNextIs(m, ins, a, mm) ==
  /\ mm = [v2t |-> mm.v2t, red |-> mm.red]
  /\ ins.op \in CopyBarriers => mm.v2t = EmptyDict /\ mm.red = m.red
  /\ ins.op = "STORE" /\ IsTemp(a[2])
       => mm.v2t = Put(m.v2t, a[1], Resolve(m.red, a[2])) /\ mm.red = m.red
  /\ Dropped(m, ins) => mm.v2t = m.v2t /\ mm.red = Put(m.red, a[1], m.v2t[a[2]])
  /\ ins.op \notin CopyBarriers \cup {"STORE"} /\ ~Dropped(m, ins) => mm = m

LEMMA CopyNextOf ==
  ASSUME NEW m, m = [v2t |-> m.v2t, red |-> m.red], NEW ins
  PROVE  CopyNextIs(m, ins, Apply(m.red, ins).args, CopyNext(m, ins))
<1> SUFFICES ASSUME NEW a, a = Apply(m.red, ins).args, NEW mm, mm = CopyNext(m, ins)
             PROVE  CopyNextIs(m, ins, a, mm)
  OBVIOUS
<1> USE DEF CopyNextIs
<1>0. ~("STORE" \in CopyBarriers) /\ ~("LOAD" \in CopyBarriers) /\ (Dropped(m, ins) => ins.op = "LOAD")
  BY DEF CopyBarriers, Branches, Dropped
<1>1. CASE ins.op \in CopyBarriers
  <2>1. mm = [m EXCEPT !.v2t = EmptyDict]
    BY <1>0, <1>1 DEF CopyNext
  <2>2. mm = [v2t |-> EmptyDict, red |-> m.red]
    BY <2>1
  <2> QED BY <1>0, <1>1, <2>2
<1>2. CASE ins.op = "STORE"
  <2>1. mm = [m EXCEPT !.v2t = IF IsTemp(a[2]) THEN Put(@, a[1], Resolve(m.red, a[2]))
                               ELSE Pop(@, a[1])]
    BY <1>0, <1>2 DEF CopyNext
  <2>2. \E f : /\ mm = [v2t |-> f, red |-> m.red]
               /\ f = IF IsTemp(a[2]) THEN Put(m.v2t, a[1], Resolve(m.red, a[2]))
                      ELSE Pop(m.v2t, a[1])
    BY <2>1
  <2>3. PICK f : /\ mm = [v2t |-> f, red |-> m.red]
                 /\ IsTemp(a[2]) => f = Put(m.v2t, a[1], Resolve(m.red, a[2]))
    BY <2>2
  <2> QED BY <1>0, <1>2, <2>3
<1>3. CASE Dropped(m, ins)
  <2>1. mm = [m EXCEPT !.red = Put(@, a[1], m.v2t[a[2]])]
    BY <1>0, <1>3 DEF CopyNext
  <2>2. mm = [v2t |-> m.v2t, red |-> Put(m.red, a[1], m.v2t[a[2]])]
    BY <2>1
  <2> QED BY <1>0, <1>3, <2>2
<1>4. CASE ins.op \notin CopyBarriers \cup {"STORE"} /\ ~Dropped(m, ins)
  <2>1. mm = m
    BY <1>4 DEF CopyNext
  <2> QED BY <1>4, <2>1
<1> QED BY <1>1, <1>2, <1>3, <1>4

\* What copy propagation knows before position i is about variables of the
\* frame and kept temps.
CopyHolds(r, i) ==
  LET m == r.maps[i]
  IN  /\ m = [v2t |-> m.v2t, red |-> m.red]
      /\ RedHolds(r, i)
      /\ \A v \in DOMAIN m.v2t : v \in Vars \cap FrameOf(r) /\ Kept(r, m.v2t[v], i)

\* What a STORE stores, as copy propagation sees it.
LEMMA StoredKept ==
  ASSUME NEW r \in Runs, r.pass = "cp", NEW i \in DOMAIN r.code, RedHolds(r, i),
         r.code[i].op = "STORE"
  PROVE  LET ins == r.code[i]  red == r.maps[i].red  a == Apply(red, ins).args IN
         /\ a[1] = ins.args[1] /\ a[1] \in Vars \cap FrameOf(r)
         /\ IsTemp(a[2]) /\ ins.args[2] \in UsedOf(ins)
         /\ Resolve(red, a[2]) = Resolve(red, ins.args[2])
         /\ Kept(r, Resolve(red, a[2]), i)
<1> DEFINE ins == r.code[i]  red == r.maps[i].red  a == Apply(red, ins).args
<1>1. /\ 1 \in DOMAIN ins.args /\ 2 \in DOMAIN ins.args /\ ins.args[1] \in Vars
      /\ UsedOf(ins) = {ins.args[2]} /\ ins.args[2] \in Temps
  BY RunIs, ArgsAre, TempsAre
<1>2. ins.args[1] \in FrameOf(r) /\ ins.args[1] \notin UsedOf(ins)
  BY <1>1, OperandSlot, Distinct
<1>3. r.pass \in RenamingPasses
  BY DEF RenamingPasses
<1>4. a[1] = ins.args[1] /\ a[2] = Resolve(red, ins.args[2]) /\ Kept(r, a[2], i)
  BY <1>1, <1>2, <1>3, AppliedArgs
<1>5. Resolve(red, a[2]) = a[2] /\ IsTemp(a[2])
  BY <1>3, <1>4, KeptStays, Distinct DEF Kept
<1> HIDE DEF ins, red, a
<1> QED BY <1>1, <1>2, <1>4, <1>5 DEF ins, red, a

\* A LOAD that is dropped.
LEMMA LoadDropped ==
  ASSUME NEW r \in Runs, r.pass = "cp", NEW i \in DOMAIN r.code, CopyHolds(r, i),
         Dropped(r.maps[i], r.code[i])
  PROVE  LET ins == r.code[i]  m == r.maps[i]  a == Apply(m.red, ins).args IN
         /\ ins.op = "LOAD" /\ a[1] = ins.args[1] /\ a[2] = ins.args[2]
         /\ a[2] \in DOMAIN m.v2t /\ Kept(r, m.v2t[a[2]], i)
<1> DEFINE ins == r.code[i]  m == r.maps[i]  a == Apply(m.red, ins).args
<1>1. ins.op = "LOAD" /\ ins.args[2] \in DOMAIN m.v2t
  BY DEF Dropped
<1>2. /\ 1 \in DOMAIN ins.args /\ 2 \in DOMAIN ins.args /\ UsedOf(ins) = {}
  BY <1>1, RunIs, ArgsAre, TempsAre
<1>3. r.pass \in RenamingPasses /\ RedHolds(r, i)
  BY DEF RenamingPasses, CopyHolds
<1>4. a[1] = ins.args[1] /\ a[2] = ins.args[2]
  BY <1>2, <1>3, AppliedArgs
<1>5. Kept(r, m.v2t[ins.args[2]], i)
  BY <1>1 DEF CopyHolds
<1> QED BY <1>1, <1>4, <1>5

\* What copy propagation knows after an instruction.
LEMMA CopyStep ==
  ASSUME NEW r \in Runs, r.pass = "cp", NEW i \in DOMAIN r.code, CopyHolds(r, i),
         NEW ins, ins = r.code[i], NEW m, m = r.maps[i], NEW mm, mm = r.maps[i + 1]
  PROVE  /\ mm = [v2t |-> mm.v2t, red |-> mm.red]
         /\ RedStep(r, i, m.v2t[ins.args[2]])
         /\ \/ mm.v2t = EmptyDict
            \/ /\ ins.op = "STORE"
               /\ mm.v2t = Put(m.v2t, ins.args[1], Resolve(m.red, ins.args[2]))
            \/ ins.op \notin {"STORE", "LABEL"} /\ mm.v2t = m.v2t
<1>0. PICK a : a = Apply(m.red, ins).args
  OBVIOUS
<1>1. mm = CopyNext(m, ins) /\ m = [v2t |-> m.v2t, red |-> m.red]
  BY RunIs DEF KnownNext, CopyHolds
<1>9. CopyNextIs(m, ins, a, mm)
  BY <1>0, <1>1, CopyNextOf
<1>2. /\ mm = [v2t |-> mm.v2t, red |-> mm.red]
      /\ ins.op \in CopyBarriers => mm.v2t = EmptyDict /\ mm.red = m.red
      /\ ins.op = "STORE" /\ IsTemp(a[2])
           => mm.v2t = Put(m.v2t, a[1], Resolve(m.red, a[2])) /\ mm.red = m.red
      /\ Dropped(m, ins) => mm.v2t = m.v2t /\ mm.red = Put(m.red, a[1], m.v2t[a[2]])
      /\ ins.op \notin CopyBarriers \cup {"STORE"} /\ ~Dropped(m, ins) => mm = m
  BY <1>9 DEF CopyNextIs
<1>3. Skips(r, i) <=> Dropped(m, ins)
  BY RenamingMakes DEF RenamingPasses
<1>4. RedHolds(r, i)
  BY DEF CopyHolds
<1>5. ~("STORE" \in CopyBarriers) /\ ~("LOAD" \in CopyBarriers) /\ "LABEL" \in CopyBarriers
      /\ (Dropped(m, ins) => ins.op = "LOAD")
  BY DEF CopyBarriers, Branches, Dropped
<1>6. CASE ins.op = "STORE"
  <2>1. /\ a[1] = ins.args[1] /\ IsTemp(a[2])
        /\ Resolve(m.red, a[2]) = Resolve(m.red, ins.args[2])
    BY <1>0, <1>4, <1>6, StoredKept
  <2> QED BY <1>2, <1>3, <1>5, <1>6, <2>1 DEF RedStep
<1>7. CASE Dropped(m, ins)
  <2>1. /\ a[1] = ins.args[1] /\ a[2] = ins.args[2] /\ Kept(r, m.v2t[a[2]], i)
    BY <1>0, <1>7, LoadDropped
  <2> QED BY <1>2, <1>3, <1>5, <1>7, <2>1 DEF RedStep
<1>8. CASE ins.op # "STORE" /\ ~Dropped(m, ins)
  <2> QED BY <1>2, <1>3, <1>5, <1>8 DEF RedStep
<1> QED BY <1>6, <1>7, <1>8

LEMMA CopyHoldsNext ==
  ASSUME NEW r \in Runs, r.pass = "cp", NEW i \in DOMAIN r.code, CopyHolds(r, i)
  PROVE  CopyHolds(r, i + 1)
<1> DEFINE ins == r.code[i]  m == r.maps[i]  mm == r.maps[i + 1]
<1>1. /\ mm = [v2t |-> mm.v2t, red |-> mm.red]
      /\ RedStep(r, i, m.v2t[ins.args[2]])
      /\ \/ mm.v2t = EmptyDict
         \/ /\ ins.op = "STORE"
            /\ mm.v2t = Put(m.v2t, ins.args[1], Resolve(m.red, ins.args[2]))
         \/ ins.op \notin {"STORE", "LABEL"} /\ mm.v2t = m.v2t
  BY CopyStep
<1>2. RedHolds(r, i) /\ \A v \in DOMAIN m.v2t : v \in Vars \cap FrameOf(r) /\ Kept(r, m.v2t[v], i)
  BY DEF CopyHolds
<1>3. RedHolds(r, i + 1)
  BY <1>1, <1>2, RedNext DEF RenamingPasses
<1>4. \A u : Kept(r, u, i) => Kept(r, u, i + 1)
  BY RunIs DEF Kept
<1>5. \A v \in DOMAIN mm.v2t : v \in Vars \cap FrameOf(r) /\ Kept(r, mm.v2t[v], i)
  <2>1. CASE mm.v2t = EmptyDict
    BY <2>1 DEF EmptyDict
  <2>2. CASE ins.op = "STORE" /\ mm.v2t = Put(m.v2t, ins.args[1], Resolve(m.red, ins.args[2]))
    <3> DEFINE w == Resolve(m.red, ins.args[2])  v0 == ins.args[1]
    <3>1. v0 \in Vars \cap FrameOf(r) /\ Kept(r, w, i)
      BY <1>2, <2>2, StoredKept
    <3> HIDE DEF mm, m, ins, w, v0
    <3>2. mm.v2t = Put(m.v2t, v0, w)
      BY <2>2 DEF w, v0
    <3> QED BY <1>2, <3>1, <3>2 DEF Put
  <2>3. CASE mm.v2t = m.v2t
    BY <1>2, <2>3
  <2> QED BY <1>1, <2>1, <2>2, <2>3
<1> QED BY <1>1, <1>3, <1>4, <1>5 DEF CopyHolds

LEMMA CopyHoldsAll ==
  ASSUME NEW r \in Runs, r.pass = "cp"
  PROVE  \A i \in 1..(Len(r.code) + 1) : CopyHolds(r, i)
<1> DEFINE n == Len(r.code)
           S == {i \in 1..(n + 1) : CopyHolds(r, i)}
<1>1. n \in Nat /\ DOMAIN r.code = 1..n
  BY RunIs
<1>2. 1 \in S
  <2>1. r.maps[1] = CopyStart
    BY RunIs DEF KnownFirst
  <2>2. CopyHolds(r, 1)
    BY <2>1 DEF CopyHolds, RedHolds, CopyStart, EmptyDict
  <2> QED BY <1>1, <2>2
<1>3. \A i \in 1..n : i \in S => i + 1 \in S
  BY <1>1, CopyHoldsNext
<1> HIDE DEF S
<1>4. \A i \in 1..(n + 1) : i \in S
  BY <1>1, <1>2, <1>3, Along
<1> QED BY <1>4 DEF S

\* What copy propagation knows stays true.
LEMMA CopyKnows ==
  ASSUME NEW r \in Runs, r.pass = "cp", NEW i \in DOMAIN r.code, CopyHolds(r, i),
         NEW x, NEW y, RenamedBefore(r, i, x, y), ~Stuck(x, r.code[i]), NEW in,
         r.code[i].op # "LABEL" =>
           \A v \in DOMAIN r.maps[i].v2t : y[r.maps[i].v2t[v]] = x[v],
         NEW xx, xx = Effect(x, r.code[i], in),
         NEW yy, yy = Behind(r, i, y, in)
  PROVE  /\ RenamedTrue(r, i + 1, xx, yy)
         /\ \A v \in DOMAIN r.maps[i + 1].v2t : yy[r.maps[i + 1].v2t[v]] = xx[v]
<1> DEFINE ins == r.code[i]  m == r.maps[i]  mm == r.maps[i + 1]  w == m.v2t[ins.args[2]]
<1>1. /\ RedStep(r, i, w)
      /\ \/ mm.v2t = EmptyDict
         \/ /\ ins.op = "STORE"
            /\ mm.v2t = Put(m.v2t, ins.args[1], Resolve(m.red, ins.args[2]))
         \/ ins.op \notin {"STORE", "LABEL"} /\ mm.v2t = m.v2t
  BY CopyStep
<1>2. /\ RedHolds(r, i) /\ r.pass \in RenamingPasses
      /\ \A v \in DOMAIN m.v2t : v \in Vars \cap FrameOf(r) /\ Kept(r, m.v2t[v], i)
  BY DEF CopyHolds, RenamingPasses
<1>3. /\ x \in [FrameOf(r) -> Words \cup {Undef}]
      /\ y \in [FrameOf(r) -> Words \cup {Undef}]
      /\ WellShaped(ins)
  BY RunIs DEF RenamedBefore
<1>4. \A u : Kept(r, u, i) => yy[u] = y[u]
  BY <1>2, <1>3, KeptSteady
<1>5. ASSUME Skips(r, i) PROVE y[w] = xx[ins.args[1]]
  <2>1. Dropped(m, ins)
    BY <1>2, <1>5, RenamingMakes
  <2>2. ins.op = "LOAD" /\ ins.args[2] \in DOMAIN m.v2t
    BY <2>1 DEF Dropped
  <2>3. y[w] = x[ins.args[2]]
    BY <2>2
  <2>4. 1 \in DOMAIN ins.args /\ ins.args[1] \in Temps
    BY <1>3, <2>2, ArgsAre
  <2>5. ins.args[1] \in FrameOf(r)
    BY <2>4, OperandSlot
  <2>6. xx = [x EXCEPT ![ins.args[1]] = x[ins.args[2]]]
    BY <2>2, EffectOf
  <2> HIDE DEF w, ins
  <2> QED BY <1>3, <2>3, <2>5, <2>6
<1>6. RenamedTrue(r, i + 1, xx, yy)
  BY <1>1, <1>2, <1>5, RenamedNext
<1>7. CASE mm.v2t = EmptyDict
  BY <1>6, <1>7 DEF EmptyDict
<1>8. CASE ins.op = "STORE" /\ mm.v2t = Put(m.v2t, ins.args[1], Resolve(m.red, ins.args[2]))
  <2> DEFINE u == Resolve(m.red, ins.args[2])  v0 == ins.args[1]
  <2>1. v0 \in Vars \cap FrameOf(r) /\ Kept(r, u, i) /\ ins.args[2] \in UsedOf(ins)
    BY <1>2, <1>8, StoredKept
  <2>2. y[u] = x[ins.args[2]]
    BY <1>2, <2>1, SameValue
  <2>3. xx = [x EXCEPT ![v0] = x[ins.args[2]]]
    BY <1>8, EffectOf
  <2>4. \A v \in DOMAIN m.v2t : y[m.v2t[v]] = x[v]
    BY <1>8
  <2>5. mm.v2t = Put(m.v2t, v0, u)
    BY <1>8
  <2> HIDE DEF mm, m, ins, u, v0
  <2>6. ASSUME NEW v \in DOMAIN mm.v2t PROVE yy[mm.v2t[v]] = xx[v]
    <3>1. CASE v = v0
      <4>1. mm.v2t[v] = u
        BY <2>5, <3>1 DEF Put
      <4>2. xx[v] = x[ins.args[2]]
        BY <1>3, <2>1, <2>3, <3>1
      <4> QED BY <1>4, <2>1, <2>2, <4>1, <4>2
    <3>2. CASE v # v0
      <4>1. v \in DOMAIN m.v2t /\ mm.v2t[v] = m.v2t[v]
        BY <2>5, <3>2 DEF Put
      <4>2. v \in FrameOf(r) /\ Kept(r, m.v2t[v], i)
        BY <1>2, <4>1
      <4>3. xx[v] = x[v]
        BY <1>3, <2>3, <3>2, <4>2
      <4> QED BY <1>4, <2>4, <4>1, <4>2, <4>3
    <3> QED BY <3>1, <3>2
  <2> QED BY <1>6, <2>6 DEF mm
<1>9. CASE ins.op \notin {"STORE", "LABEL"} /\ mm.v2t = m.v2t
  <2>1. ASSUME NEW v \in DOMAIN m.v2t PROVE yy[m.v2t[v]] = xx[v]
    <3>1. v \in Vars /\ v \in FrameOf(r) /\ Kept(r, m.v2t[v], i)
      BY <1>2
    <3>2. v \notin DefinedTemps(ins)
      BY <3>1, Distinct DEF DefinedTemps
    <3>3. y[m.v2t[v]] = x[v]
      BY <1>9
    <3>4. xx[v] = x[v]
      <4> HIDE DEF m, mm
      <4> QED BY <1>3, <1>9, <3>1, <3>2, EffectElsewhere
    <3> QED BY <1>4, <3>1, <3>3, <3>4
  <2> QED BY <1>6, <1>9, <2>1
<1> QED BY <1>1, <1>7, <1>8, <1>9

-----------------------------------------------------------------------------
(***************************************************************************)
(* Common subexpressions.                                                  *)
(***************************************************************************)

\* The operators whose operands may be exchanged.
LEMMA ArithCommutes ==
  ASSUME NEW op \in Commutative, NEW x \in Words, NEW y \in Words
  PROVE  Arith(op, x, y) = Arith(op, y, x)
<1>1. x \in Int /\ y \in Int
  BY HalfAssumption DEF Words
<1>2. x + y = y + x /\ x * y = y * x
  BY <1>1
<1>3. Arith("ADD", x, y) = Arith("ADD", y, x) /\ Arith("MUL", x, y) = Arith("MUL", y, x)
  <2>1. \A u, v : Arith("ADD", u, v) = Wrap(u + v) /\ Arith("MUL", u, v) = Wrap(u * v)
    BY DEF Arith
  <2> QED BY <1>2, <2>1
<1>4. /\ Arith("EQ", x, y) = Arith("EQ", y, x) /\ Arith("NE", x, y) = Arith("NE", y, x)
      /\ Arith("AND", x, y) = Arith("AND", y, x) /\ Arith("OR", x, y) = Arith("OR", y, x)
  BY DEF Arith, Bit
<1> QED BY <1>3, <1>4 DEF Commutative

\* What an operator computes from the values its operands have in memory.
Computed(op, b, mem) ==
  IF op \in BinOps THEN Arith(op, mem[b[2]], mem[b[3]]) ELSE Unary(op, mem[b[2]])

\* The operands of a key are kept.
KeyHolds(r, k, i) == /\ Kept(r, k[2], i)
                     /\ k[1] \in BinOps => Kept(r, k[3], i)

LEMMA KeyForms ==
  ASSUME NEW m, NEW ins, Computes(ins), NEW b, b = Apply(m.red, ins).args,
         NEW k, k = KeyOf(m, ins)
  PROVE  \/ ins.op \in BinOps /\ k = <<ins.op, b[2], b[3]>>
         \/ ins.op \in BinOps /\ ins.op \in Commutative /\ k = <<ins.op, b[3], b[2]>>
         \/ ins.op \in UnaryOps /\ ins.op \notin BinOps /\ k = <<ins.op, b[2]>>
  BY DEF Computes, KeyOf, ExprKey

\* The operands of what computes.
LEMMA ComputesArgs ==
  ASSUME NEW r \in Runs, NEW i \in DOMAIN r.code, NEW ins, ins = r.code[i], Computes(ins)
  PROVE  /\ WellShaped(ins) /\ ins.op # "STORE" /\ ins.op \in Pure
         /\ 1 \in DOMAIN ins.args /\ 2 \in DOMAIN ins.args
         /\ ins.op \in BinOps => 3 \in DOMAIN ins.args
         /\ DefinedTemps(ins) = {ins.args[1]} /\ ins.args[1] \in Temps \cap FrameOf(r)
         /\ ins.args[2] \in UsedOf(ins)
         /\ ins.op \in BinOps => ins.args[3] \in UsedOf(ins)
<1>1. WellShaped(ins) /\ ins.op \in BinOps \cup UnaryOps
  BY RunIs DEF Computes
<1>2. 1 \in DOMAIN ins.args /\ 2 \in DOMAIN ins.args /\ (ins.op \in BinOps => 3 \in DOMAIN ins.args)
  BY <1>1, ArgsAre
<1>3. /\ DefinedTemps(ins) = {ins.args[1]} /\ ins.args[2] \in UsedOf(ins)
      /\ ins.op \in BinOps => ins.args[3] \in UsedOf(ins)
  <2>1. CASE ins.op \in BinOps
    <3>1. DefinedTemps(ins) = {ins.args[1]} /\ UsedOf(ins) = {ins.args[2], ins.args[3]}
      BY <1>1, <2>1, TempsAre
    <3> QED BY <3>1
  <2>2. CASE ins.op \in UnaryOps
    <3>1. DefinedTemps(ins) = {ins.args[1]} /\ UsedOf(ins) = {ins.args[2]}
      BY <1>1, <2>2, TempsAre
    <3> QED BY <2>2, <3>1 DEF BinOps, UnaryOps
  <2> QED BY <1>1, <2>1, <2>2
<1>4. ins.args[1] \in Temps \cap FrameOf(r)
  BY <1>3, DefinedSlot
<1>5. ins.op # "STORE" /\ ins.op \in Pure
  BY <1>1 DEF BinOps, UnaryOps, Pure
<1> QED BY <1>1, <1>2, <1>3, <1>4, <1>5

\* Its operands after renaming, and the key made of them.
LEMMA KeyIs ==
  ASSUME NEW r \in Runs, r.pass = "cse", NEW i \in DOMAIN r.code, RedHolds(r, i),
         NEW m, m = r.maps[i], NEW ins, ins = r.code[i], Computes(ins),
         NEW b, b = Apply(m.red, ins).args, NEW k, k = KeyOf(m, ins)
  PROVE  /\ b[1] = ins.args[1]
         /\ b[2] = Resolve(m.red, ins.args[2]) /\ Kept(r, b[2], i)
         /\ ins.op \in BinOps => b[3] = Resolve(m.red, ins.args[3]) /\ Kept(r, b[3], i)
         /\ KeyHolds(r, k, i)
         /\ \A y : y[b[2]] \in Words /\ (ins.op \in BinOps => y[b[3]] \in Words)
                     => Valued(k, y) = Computed(ins.op, b, y)
<1>1. /\ 1 \in DOMAIN ins.args /\ 2 \in DOMAIN ins.args
      /\ ins.op \in BinOps => 3 \in DOMAIN ins.args
      /\ ins.args[1] \in DefinedTemps(ins) /\ ins.args[2] \in UsedOf(ins)
      /\ ins.op \in BinOps => ins.args[3] \in UsedOf(ins)
  BY ComputesArgs
<1>2. r.pass \in RenamingPasses
  BY DEF RenamingPasses
<1>3. /\ b[1] = ins.args[1]
      /\ b[2] = Resolve(m.red, ins.args[2]) /\ Kept(r, b[2], i)
      /\ ins.op \in BinOps => b[3] = Resolve(m.red, ins.args[3]) /\ Kept(r, b[3], i)
  BY <1>1, <1>2, AppliedArgs
<1> SUFFICES /\ KeyHolds(r, k, i)
             /\ \A y : y[b[2]] \in Words /\ (ins.op \in BinOps => y[b[3]] \in Words)
                         => Valued(k, y) = Computed(ins.op, b, y)
  BY <1>3
<1>4. CASE ins.op \in BinOps /\ k = <<ins.op, b[2], b[3]>>
  <2>1. k[1] = ins.op /\ k[2] = b[2] /\ k[3] = b[3]
    BY <1>4
  <2>2. \A y : Valued(k, y) = Computed(ins.op, b, y)
    BY <1>4, <2>1 DEF Valued, Computed
  <2> QED BY <1>3, <1>4, <2>1, <2>2 DEF KeyHolds
<1>5. CASE ins.op \in BinOps /\ ins.op \in Commutative /\ k = <<ins.op, b[3], b[2]>>
  <2>1. k[1] = ins.op /\ k[2] = b[3] /\ k[3] = b[2]
    BY <1>5
  <2>2. ASSUME NEW y, y[b[2]] \in Words, y[b[3]] \in Words
        PROVE  Valued(k, y) = Computed(ins.op, b, y)
    <3>1. Valued(k, y) = Arith(ins.op, y[b[3]], y[b[2]])
      BY <1>5, <2>1 DEF Valued
    <3>2. Computed(ins.op, b, y) = Arith(ins.op, y[b[2]], y[b[3]])
      BY <1>5 DEF Computed
    <3> QED BY <1>5, <2>2, <3>1, <3>2, ArithCommutes
  <2> QED BY <1>3, <1>5, <2>1, <2>2 DEF KeyHolds
<1>6. CASE ins.op \in UnaryOps /\ ins.op \notin BinOps /\ k = <<ins.op, b[2]>>
  <2>1. k[1] = ins.op /\ k[2] = b[2]
    BY <1>6
  <2>2. \A y : Valued(k, y) = Computed(ins.op, b, y)
    BY <1>6, <2>1 DEF Valued, Computed
  <2> QED BY <1>3, <1>6, <2>1, <2>2 DEF KeyHolds
<1> QED BY <1>4, <1>5, <1>6, KeyForms

\* What each operation does to what the pass knows; e is the renamed
\* destination, k the key.
CSENextIs(m, ins, e, k, mm) ==
  /\ mm = [avail |-> mm.avail, red |-> mm.red]
  /\ ins.op \in CSEBarriers => mm.avail = EmptyDict /\ mm.red = m.red
  /\ Redundant(m, ins) => mm.avail = m.avail /\ mm.red = Put(m.red, e, m.avail[k])
  /\ Computes(ins) /\ ~Redundant(m, ins) => mm.avail = Put(m.avail, k, e) /\ mm.red = m.red
  /\ ins.op \notin CSEBarriers /\ ~Computes(ins) => mm = m

LEMMA CSENextOf ==
  ASSUME NEW m, m = [avail |-> m.avail, red |-> m.red], NEW ins
  PROVE  CSENextIs(m, ins, Apply(m.red, ins).args[1], KeyOf(m, ins), CSENext(m, ins))
<1> SUFFICES ASSUME NEW e, e = Apply(m.red, ins).args[1], NEW k, k = KeyOf(m, ins),
                    NEW mm, mm = CSENext(m, ins)
             PROVE  CSENextIs(m, ins, e, k, mm)
  OBVIOUS
<1> USE DEF CSENextIs
<1>1. (Redundant(m, ins) => Computes(ins)) /\ (Computes(ins) => ins.op \notin CSEBarriers)
  BY DEF Redundant, Computes, CSEBarriers, Branches, BinOps, UnaryOps
<1>2. CASE ins.op \in CSEBarriers
  <2>1. mm = [m EXCEPT !.avail = EmptyDict]
    BY <1>1, <1>2 DEF CSENext
  <2>2. mm = [avail |-> EmptyDict, red |-> m.red]
    BY <2>1
  <2> QED BY <1>1, <1>2, <2>2
<1>3. CASE Redundant(m, ins)
  <2>1. mm = [m EXCEPT !.red = Put(@, e, m.avail[k])]
    BY <1>1, <1>3 DEF CSENext
  <2>2. mm = [avail |-> m.avail, red |-> Put(m.red, e, m.avail[k])]
    BY <2>1
  <2> QED BY <1>1, <1>3, <2>2
<1>4. CASE Computes(ins) /\ ~Redundant(m, ins)
  <2>1. mm = [m EXCEPT !.avail = Put(@, k, e)]
    BY <1>1, <1>4 DEF CSENext
  <2>2. mm = [avail |-> Put(m.avail, k, e), red |-> m.red]
    BY <2>1
  <2> QED BY <1>1, <1>4, <2>2
<1>5. CASE ins.op \notin CSEBarriers /\ ~Computes(ins)
  <2>1. mm = m
    BY <1>5 DEF CSENext
  <2> QED BY <1>1, <1>5, <2>1
<1> QED BY <1>1, <1>2, <1>3, <1>4, <1>5

\* What common subexpressions know before position i is about kept temps.
CSEHolds(r, i) ==
  LET m == r.maps[i]
  IN  /\ m = [avail |-> m.avail, red |-> m.red]
      /\ RedHolds(r, i)
      /\ \A k \in DOMAIN m.avail : Kept(r, m.avail[k], i) /\ KeyHolds(r, k, i)

\* What it knows after an instruction.
LEMMA CSEStep ==
  ASSUME NEW r \in Runs, r.pass = "cse", NEW i \in DOMAIN r.code, CSEHolds(r, i),
         NEW ins, ins = r.code[i], NEW m, m = r.maps[i], NEW mm, mm = r.maps[i + 1],
         NEW k, k = KeyOf(m, ins)
  PROVE  /\ mm = [avail |-> mm.avail, red |-> mm.red]
         /\ RedStep(r, i, m.avail[k])
         /\ Skips(r, i) => Computes(ins) /\ k \in DOMAIN m.avail
         /\ \/ mm.avail = EmptyDict
            \/ /\ Computes(ins) /\ ~Skips(r, i)
               /\ mm.avail = Put(m.avail, k, ins.args[1])
            \/ ins.op # "LABEL" /\ mm.avail = m.avail
<1>0. PICK e : e = Apply(m.red, ins).args[1]
  OBVIOUS
<1>1. mm = CSENext(m, ins) /\ m = [avail |-> m.avail, red |-> m.red] /\ RedHolds(r, i)
  BY RunIs DEF KnownNext, CSEHolds
<1>2. CSENextIs(m, ins, e, k, mm)
  BY <1>0, <1>1, CSENextOf
<1>3. Skips(r, i) <=> Redundant(m, ins)
  BY RenamingMakes DEF RenamingPasses
<1>4. Redundant(m, ins) => Computes(ins) /\ k \in DOMAIN m.avail
  BY DEF Redundant
<1>5. Computes(ins) => ins.op \notin CSEBarriers /\ e = ins.args[1]
  <2>1. Computes(ins) => ins.op \notin CSEBarriers
    BY DEF Computes, CSEBarriers, Branches, BinOps, UnaryOps
  <2>2. ASSUME Computes(ins) PROVE e = ins.args[1]
    <3>1. PICK b : b = Apply(m.red, ins).args
      OBVIOUS
    <3>2. b[1] = ins.args[1]
      BY <1>1, <2>2, <3>1, KeyIs
    <3> QED BY <1>0, <3>1, <3>2
  <2> QED BY <2>1, <2>2
<1>6. "LABEL" \in CSEBarriers
  BY DEF CSEBarriers
<1>7. CASE Redundant(m, ins)
  <2>1. Kept(r, m.avail[k], i)
    BY <1>4, <1>7 DEF CSEHolds
  <2>2. mm = [avail |-> mm.avail, red |-> mm.red] /\ mm.avail = m.avail
        /\ mm.red = Put(m.red, ins.args[1], m.avail[k])
    BY <1>2, <1>4, <1>5, <1>7 DEF CSENextIs
  <2> QED BY <1>3, <1>4, <1>5, <1>6, <1>7, <2>1, <2>2 DEF RedStep
<1>8. CASE ~Redundant(m, ins)
  <2>1. mm = [avail |-> mm.avail, red |-> mm.red] /\ mm.red = m.red
        /\ \/ mm.avail = EmptyDict
           \/ Computes(ins) /\ mm.avail = Put(m.avail, k, ins.args[1])
           \/ ins.op # "LABEL" /\ mm.avail = m.avail
    BY <1>2, <1>5, <1>6, <1>8 DEF CSENextIs
  <2> QED BY <1>3, <1>8, <2>1 DEF RedStep
<1> QED BY <1>7, <1>8

\* What is computed and not dropped is kept.
LEMMA DefinedKept ==
  ASSUME NEW r \in Runs, r.pass \in RenamingPasses, NEW i \in DOMAIN r.code, ~Skips(r, i),
         NEW t \in DefinedTemps(r.code[i])
  PROVE  Kept(r, t, i + 1)
<1>1. i \in 1..((i + 1) - 1) /\ t \in Temps
  BY RunIs, DefinedSlot
<1>2. ASSUME t \in DroppedTemps(r) PROVE FALSE
  <2>1. PICK j \in DOMAIN r.code : Skips(r, j) /\ t = r.code[j].args[1]
    BY <1>2 DEF DroppedTemps
  <2>2. t \in DefinedTemps(r.code[j])
    BY <2>1, DroppedDefines
  <2>3. i = j
    BY <2>2, DefinedOnce
  <2> QED BY <2>1, <2>3
<1> QED BY <1>1, <1>2 DEF Kept

LEMMA CSEHoldsNext ==
  ASSUME NEW r \in Runs, r.pass = "cse", NEW i \in DOMAIN r.code, CSEHolds(r, i)
  PROVE  CSEHolds(r, i + 1)
<1> DEFINE ins == r.code[i]  m == r.maps[i]  mm == r.maps[i + 1]  k0 == KeyOf(m, ins)
<1>0. r.pass \in RenamingPasses
  BY DEF RenamingPasses
<1>1. /\ mm = [avail |-> mm.avail, red |-> mm.red]
      /\ RedStep(r, i, m.avail[k0])
      /\ \/ mm.avail = EmptyDict
         \/ /\ Computes(ins) /\ ~Skips(r, i)
            /\ mm.avail = Put(m.avail, k0, ins.args[1])
         \/ ins.op # "LABEL" /\ mm.avail = m.avail
  <2> HIDE DEF k0
  <2> QED BY CSEStep DEF k0
<1>2. RedHolds(r, i) /\ \A k \in DOMAIN m.avail : Kept(r, m.avail[k], i) /\ KeyHolds(r, k, i)
  BY DEF CSEHolds
<1>3. RedHolds(r, i + 1)
  BY <1>0, <1>1, <1>2, RedNext
<1>4. \A u : Kept(r, u, i) => Kept(r, u, i + 1)
  BY RunIs DEF Kept
<1>5. \A k : KeyHolds(r, k, i) => KeyHolds(r, k, i + 1)
  BY <1>4 DEF KeyHolds
<1>6. \A k \in DOMAIN mm.avail : Kept(r, mm.avail[k], i + 1) /\ KeyHolds(r, k, i + 1)
  <2>1. CASE mm.avail = EmptyDict
    BY <2>1 DEF EmptyDict
  <2>2. CASE Computes(ins) /\ ~Skips(r, i) /\ mm.avail = Put(m.avail, k0, ins.args[1])
    <3> DEFINE t0 == ins.args[1]
    <3>1. Kept(r, t0, i + 1)
      BY <1>0, <2>2, ComputesArgs, DefinedKept
    <3>2. KeyHolds(r, k0, i)
      <4>1. PICK b : b = Apply(m.red, ins).args
        OBVIOUS
      <4> HIDE DEF k0
      <4> QED BY <1>2, <2>2, <4>1, KeyIs DEF k0
    <3>3. mm.avail = Put(m.avail, k0, t0)
      BY <2>2
    <3> HIDE DEF mm, m, ins, k0, t0
    <3> QED BY <1>2, <1>4, <1>5, <3>1, <3>2, <3>3 DEF Put
  <2>3. CASE mm.avail = m.avail
    BY <1>2, <1>4, <1>5, <2>3
  <2> QED BY <1>1, <2>1, <2>2, <2>3
<1> HIDE DEF k0, ins
<1> QED BY <1>1, <1>3, <1>6 DEF CSEHolds

LEMMA CSEHoldsAll ==
  ASSUME NEW r \in Runs, r.pass = "cse"
  PROVE  \A i \in 1..(Len(r.code) + 1) : CSEHolds(r, i)
<1> DEFINE n == Len(r.code)
           S == {i \in 1..(n + 1) : CSEHolds(r, i)}
<1>1. n \in Nat /\ DOMAIN r.code = 1..n
  BY RunIs
<1>2. 1 \in S
  <2>1. r.maps[1] = CSEStart
    BY RunIs DEF KnownFirst
  <2>2. CSEHolds(r, 1)
    BY <2>1 DEF CSEHolds, RedHolds, CSEStart, EmptyDict
  <2> QED BY <1>1, <2>2
<1>3. \A i \in 1..n : i \in S => i + 1 \in S
  BY <1>1, CSEHoldsNext
<1> HIDE DEF S
<1>4. \A i \in 1..(n + 1) : i \in S
  BY <1>1, <1>2, <1>3, Along
<1> QED BY <1>4 DEF S

\* What an instruction computes in the code is what its key is worth in the
\* target.
LEMMA ComputedIs ==
  ASSUME NEW r \in Runs, r.pass = "cse", NEW i \in DOMAIN r.code, RedHolds(r, i),
         NEW x, NEW y, RenamedBefore(r, i, x, y), ~Stuck(x, r.code[i]), NEW in,
         Computes(r.code[i])
  PROVE  Effect(x, r.code[i], in)[r.code[i].args[1]] = Valued(KeyOf(r.maps[i], r.code[i]), y)
<1> SUFFICES ASSUME NEW ins, ins = r.code[i], NEW k, k = KeyOf(r.maps[i], ins),
                    NEW xx, xx = Effect(x, ins, in)
             PROVE  xx[ins.args[1]] = Valued(k, y)
  OBVIOUS
<1> DEFINE a == ins.args  m == r.maps[i]
<1>1. PICK b : b = Apply(m.red, ins).args
  OBVIOUS
<1>2. /\ a[1] \in FrameOf(r) /\ a[2] \in UsedOf(ins)
      /\ ins.op \in BinOps => a[3] \in UsedOf(ins)
      /\ ins.op \in BinOps \cup UnaryOps
  BY ComputesArgs DEF Computes
<1>3. /\ b[2] = Resolve(m.red, a[2])
      /\ ins.op \in BinOps => b[3] = Resolve(m.red, a[3])
      /\ \A z : z[b[2]] \in Words /\ (ins.op \in BinOps => z[b[3]] \in Words)
                  => Valued(k, z) = Computed(ins.op, b, z)
  BY <1>1, KeyIs
<1>4. y[b[2]] = x[a[2]] /\ (ins.op \in BinOps => y[b[3]] = x[a[3]])
  BY <1>2, <1>3, SameValue DEF RenamingPasses
<1>5. x \in [FrameOf(r) -> Words \cup {Undef}]
  BY DEF RenamedBefore
<1>6. x[a[2]] \in Words /\ (ins.op \in BinOps => x[a[3]] \in Words)
  <2>1. \A n \in Reads(x, ins) : x[n] \in Words
    BY <1>5, ReadsWords
  <2>2. a[2] \in Reads(x, ins) /\ (ins.op \in BinOps => a[3] \in Reads(x, ins))
    <3>1. CASE ins.op \in BinOps
      <4>1. Reads(x, ins) = {a[2], a[3]}
        BY <3>1, ReadsOf
      <4> QED BY <4>1
    <3>2. CASE ins.op \in UnaryOps
      <4>1. Reads(x, ins) = {a[2]}
        BY <3>2, ReadsOf
      <4> QED BY <3>2, <4>1 DEF BinOps, UnaryOps
    <3> QED BY <1>2, <3>1, <3>2
  <2> QED BY <2>1, <2>2
<1>7. Valued(k, y) = Computed(ins.op, b, y)
  BY <1>3, <1>4, <1>6
<1>8. CASE ins.op \in BinOps
  <2>1. xx = [x EXCEPT ![a[1]] = Arith(ins.op, x[a[2]], x[a[3]])]
    BY <1>8, EffectOf
  <2> HIDE DEF a
  <2>2. xx[a[1]] = Arith(ins.op, x[a[2]], x[a[3]])
    BY <1>2, <1>5, <2>1
  <2> QED BY <1>4, <1>7, <1>8, <2>2 DEF Computed, a
<1>9. CASE ins.op \in UnaryOps
  <2>1. xx = [x EXCEPT ![a[1]] = Unary(ins.op, x[a[2]])]
    BY <1>9, EffectOf
  <2> HIDE DEF a
  <2>2. xx[a[1]] = Unary(ins.op, x[a[2]])
    BY <1>2, <1>5, <2>1
  <2>3. ins.op \notin BinOps
    BY <1>9 DEF BinOps, UnaryOps
  <2> QED BY <1>4, <1>7, <2>2, <2>3 DEF Computed, a
<1> QED BY <1>2, <1>8, <1>9

\* What common subexpressions know stays true.
LEMMA CSEKnows ==
  ASSUME NEW r \in Runs, r.pass = "cse", NEW i \in DOMAIN r.code, CSEHolds(r, i),
         NEW x, NEW y, RenamedBefore(r, i, x, y), ~Stuck(x, r.code[i]), NEW in,
         r.code[i].op # "LABEL" =>
           \A k \in DOMAIN r.maps[i].avail : y[r.maps[i].avail[k]] = Valued(k, y),
         NEW xx, xx = Effect(x, r.code[i], in),
         NEW yy, yy = Behind(r, i, y, in)
  PROVE  /\ RenamedTrue(r, i + 1, xx, yy)
         /\ \A k \in DOMAIN r.maps[i + 1].avail : yy[r.maps[i + 1].avail[k]] = Valued(k, yy)
<1> DEFINE ins == r.code[i]  m == r.maps[i]  mm == r.maps[i + 1]
<1>0. PICK k0 : k0 = KeyOf(m, ins)
  OBVIOUS
<1>1. /\ RedStep(r, i, m.avail[k0])
      /\ Skips(r, i) => Computes(ins) /\ k0 \in DOMAIN m.avail
      /\ \/ mm.avail = EmptyDict
         \/ /\ Computes(ins) /\ ~Skips(r, i)
            /\ mm.avail = Put(m.avail, k0, ins.args[1])
         \/ ins.op # "LABEL" /\ mm.avail = m.avail
  BY <1>0, CSEStep
<1>2. /\ RedHolds(r, i) /\ r.pass \in RenamingPasses
      /\ \A k \in DOMAIN m.avail : Kept(r, m.avail[k], i) /\ KeyHolds(r, k, i)
  BY DEF CSEHolds, RenamingPasses
<1>3. y \in [FrameOf(r) -> Words \cup {Undef}]
  BY DEF RenamedBefore
<1>4. \A u : Kept(r, u, i) => yy[u] = y[u]
  BY <1>2, <1>3, KeptSteady
<1>5. \A k : KeyHolds(r, k, i) => Valued(k, yy) = Valued(k, y)
  BY <1>4 DEF KeyHolds, Valued
<1>6. ASSUME Computes(ins)
      PROVE  ins.op # "LABEL" /\ xx[ins.args[1]] = Valued(k0, y) /\ KeyHolds(r, k0, i)
  <2>1. ins.op # "LABEL"
    <3>1. ins.op \in Pure
      BY <1>6, ComputesArgs
    <3> QED BY <3>1 DEF Pure, BinOps, UnaryOps
  <2>2. xx[ins.args[1]] = Valued(k0, y)
    BY <1>0, <1>2, <1>6, ComputedIs
  <2>3. KeyHolds(r, k0, i)
    <3>1. PICK b : b = Apply(m.red, ins).args
      OBVIOUS
    <3> QED BY <1>0, <1>2, <1>6, <3>1, KeyIs
  <2> QED BY <2>1, <2>2, <2>3
<1>7. RenamedTrue(r, i + 1, xx, yy)
  <2>1. Skips(r, i) => y[m.avail[k0]] = xx[ins.args[1]]
    BY <1>1, <1>6
  <2> QED BY <1>1, <1>2, <2>1, RenamedNext
<1>8. CASE mm.avail = EmptyDict
  BY <1>7, <1>8 DEF EmptyDict
<1>9. CASE Computes(ins) /\ ~Skips(r, i) /\ mm.avail = Put(m.avail, k0, ins.args[1])
  <2> DEFINE t0 == ins.args[1]
  <2>1. yy[t0] = xx[t0]
    <3>1. Kept(r, t0, i + 1)
      BY <1>2, <1>9, ComputesArgs, DefinedKept
    <3>2. i + 1 \in 1..(Len(r.code) + 1)
      BY RunIs
    <3>3. t0 \in FrameOf(r) \ DroppedTemps(r)
      BY <3>1, <3>2, KeptSlot
    <3> QED BY <1>2, <3>3, RenamingAgrees
  <2>2. yy[t0] = Valued(k0, yy)
    BY <1>5, <1>6, <1>9, <2>1
  <2>3. \A k \in DOMAIN m.avail : y[m.avail[k]] = Valued(k, y)
    BY <1>6, <1>9
  <2>4. mm.avail = Put(m.avail, k0, t0)
    BY <1>9
  <2> HIDE DEF mm, m, t0
  <2>5. ASSUME NEW k \in DOMAIN mm.avail PROVE yy[mm.avail[k]] = Valued(k, yy)
    <3>1. CASE k = k0
      BY <2>2, <2>4, <3>1 DEF Put
    <3>2. CASE k # k0
      <4>1. k \in DOMAIN m.avail /\ mm.avail[k] = m.avail[k]
        BY <2>4, <3>2 DEF Put
      <4> QED BY <1>2, <1>4, <1>5, <2>3, <4>1
    <3> QED BY <3>1, <3>2
  <2> QED BY <1>7, <2>5 DEF mm
<1>10. CASE ins.op # "LABEL" /\ mm.avail = m.avail
  <2>1. ASSUME NEW k \in DOMAIN m.avail PROVE yy[m.avail[k]] = Valued(k, yy)
    BY <1>2, <1>4, <1>5, <1>10
  <2> QED BY <1>7, <1>10, <2>1
<1> QED BY <1>1, <1>8, <1>9, <1>10

-----------------------------------------------------------------------------
(***************************************************************************)
(* Both.                                                                   *)
(***************************************************************************)

LEMMA RedHoldsAll ==
  ASSUME NEW r \in Runs, r.pass \in RenamingPasses, NEW i \in DOMAIN r.code
  PROVE  /\ RedHolds(r, i)
         /\ r.pass = "cp" => CopyHolds(r, i)
         /\ r.pass = "cse" => CSEHolds(r, i)
<1>1. i \in 1..(Len(r.code) + 1)
  BY RunIs
<1> QED BY <1>1, CopyHoldsAll, CSEHoldsAll DEF RenamingPasses, CopyHolds, CSEHolds

\* Both passes keep the labels and where branches go.
LEMMA RenamingEmitsAlike ==
  ASSUME NEW r \in Runs, r.pass \in RenamingPasses
  PROVE  EmitsAlike(r)
<1> SUFFICES ASSUME NEW i \in DOMAIN r.code
             PROVE  /\ Skips(r, i) => r.code[i].op \in Pure
                    /\ ~Skips(r, i) =>
                         /\ WellShaped(Made(r, i)) /\ Made(r, i).op = r.code[i].op
                         /\ r.code[i].op \in {"LABEL", "JMP"} =>
                              Made(r, i).args[1] = r.code[i].args[1]
                         /\ r.code[i].op \in Branches \ {"JMP"} =>
                              Made(r, i).args[2] = r.code[i].args[2]
  BY DEF EmitsAlike
<1> DEFINE ins == r.code[i]
<1>1. RedHolds(r, i) /\ WellShaped(ins)
  BY RedHoldsAll, RunIs
<1>2. PICK j : j = Apply(r.maps[i].red, ins)
  OBVIOUS
<1>3. /\ j.op = ins.op
      /\ \A k \in DOMAIN ins.args : ins.args[k] \notin UsedOf(ins) => j.args[k] = ins.args[k]
  BY <1>1, <1>2, AppliedArgs
<1>4. WellShaped(j)
  BY <1>1, <1>2, AppliedShape
<1>5. ins.op \in {"LABEL", "JMP"} => 1 \in DOMAIN ins.args /\ ins.args[1] \notin UsedOf(ins)
  BY <1>1, ArgsAre, TempsAre
<1>6. ins.op \in Branches \ {"JMP"} => 2 \in DOMAIN ins.args /\ ins.args[2] \notin UsedOf(ins)
  BY <1>1, ArgsAre DEF Branches, UsedOf
<1>7. /\ Skips(r, i) => ins.op \in Pure
      /\ ~Skips(r, i) => Made(r, i) = j
  BY <1>2, RenamingMakes
<1> HIDE DEF ins
<1> QED BY <1>3, <1>4, <1>5, <1>6, <1>7 DEF ins

\* Every step of what they made does what the step of the function does.
LEMMA RenamingKeeps ==
  ASSUME NEW r \in Runs, r.pass \in RenamingPasses, NEW i \in DOMAIN r.code,
         NEW x, NEW y, Before(r, i, x, y), ~Stuck(x, r.code[i]), NEW in \in Words
  PROVE  KeepsStep(r, i, x, y, in)
<1>1. PICK xx : xx = Effect(x, r.code[i], in)
  OBVIOUS
<1>2. PICK yy : yy = Behind(r, i, y, in)
  OBVIOUS
<1>3. RenamedBefore(r, i, x, y)
  BY DEF Before, RenamedBefore, KnowledgeTrue, RenamingPasses
<1>4. /\ ~Skips(r, i) => Mimics(Made(r, i), y, r.code[i], x)
      /\ \A n \in FrameOf(r) \ DroppedTemps(r) : yy[n] = xx[n]
  BY <1>1, <1>2, <1>3, RedHoldsAll, RenamingAgrees
<1>5. CASE r.pass = "cp"
  <2>1. r.code[i].op # "LABEL" => \A v \in DOMAIN r.maps[i].v2t : y[r.maps[i].v2t[v]] = x[v]
    BY <1>5 DEF Before, KnowledgeTrue
  <2>2. /\ RenamedTrue(r, i + 1, xx, yy)
        /\ \A v \in DOMAIN r.maps[i + 1].v2t : yy[r.maps[i + 1].v2t[v]] = xx[v]
    BY <1>1, <1>2, <1>3, <1>5, <2>1, RedHoldsAll, CopyKnows
  <2>3. KnowledgeTrue(r, i + 1, xx, yy)
    BY <1>5, <2>2 DEF KnowledgeTrue
  <2> QED BY <1>1, <1>2, <1>4, <2>3 DEF KeepsStep
<1>6. CASE r.pass = "cse"
  <2>1. r.code[i].op # "LABEL" =>
          \A k \in DOMAIN r.maps[i].avail : y[r.maps[i].avail[k]] = Valued(k, y)
    BY <1>6 DEF Before, KnowledgeTrue
  <2>2. /\ RenamedTrue(r, i + 1, xx, yy)
        /\ \A k \in DOMAIN r.maps[i + 1].avail : yy[r.maps[i + 1].avail[k]] = Valued(k, yy)
    BY <1>1, <1>2, <1>3, <1>6, <2>1, RedHoldsAll, CSEKnows
  <2>3. KnowledgeTrue(r, i + 1, xx, yy)
    BY <1>6, <2>2 DEF KnowledgeTrue
  <2> QED BY <1>1, <1>2, <1>4, <2>3 DEF KeepsStep
<1> QED BY <1>5, <1>6 DEF RenamingPasses


-----------------------------------------------------------------------------
(***************************************************************************)
(* Dead code elimination.                                                  *)
(***************************************************************************)

\* The pass knows the temps that are read from beginning to end.
LEMMA ReadsKnown ==
  ASSUME NEW r \in Runs, r.pass = "dce"
  PROVE  \A i \in DOMAIN r.code : r.maps[i] = UsedTemps(r.code)
<1> DEFINE n == Len(r.code)
           S == {i \in 1..(n + 1) : r.maps[i] = UsedTemps(r.code)}
<1>1. n \in Nat /\ DOMAIN r.code = 1..n
  BY RunIs
<1>2. 1 \in S
  BY <1>1, RunIs DEF KnownFirst
<1>3. ASSUME NEW i \in 1..n, i \in S PROVE i + 1 \in S
  BY <1>1, <1>3, RunIs DEF KnownNext
<1> HIDE DEF S
<1>4. \A i \in 1..(n + 1) : i \in S
  BY <1>1, <1>2, <1>3, Along
<1> QED BY <1>1, <1>4 DEF S

\* What it drops and what it keeps.
LEMMA DeadMakes ==
  ASSUME NEW r \in Runs, r.pass = "dce", NEW i \in DOMAIN r.code
  PROVE  /\ Skips(r, i) <=> Dead(UsedTemps(r.code), r.code[i])
         /\ ~Skips(r, i) => Made(r, i) = r.code[i]
<1>1. EmittedAt(r, i) = IF Dead(UsedTemps(r.code), r.code[i]) THEN <<>> ELSE <<r.code[i]>>
  BY ReadsKnown DEF EmittedAt, Emitted
<1>2. Skips(r, i) <=> Dead(UsedTemps(r.code), r.code[i])
  BY <1>1 DEF Skips
<1>3. ~Skips(r, i) => EmittedAt(r, i) = <<Made(r, i)>>
  BY PlaceIs DEF Made
<1> QED BY <1>1, <1>2, <1>3

LEMMA DeadEmitsAlike ==
  ASSUME NEW r \in Runs, r.pass = "dce"
  PROVE  EmitsAlike(r)
  BY DeadMakes, RunIs DEF EmitsAlike, Dead

\* Every temp that an instruction reads is known to be read, and so is every
\* temp that an instruction kept defines.
LEMMA KeptAreRead ==
  ASSUME NEW r \in Runs, r.pass = "dce", NEW i \in DOMAIN r.code
  PROVE  /\ UsedOf(r.code[i]) \subseteq UsedTemps(r.code)
         /\ ~Skips(r, i) => DefinedTemps(r.code[i]) \subseteq UsedTemps(r.code)
         /\ DroppedTemps(r) \subseteq Temps
         /\ DroppedTemps(r) \cap UsedTemps(r.code) = {}
<1> DEFINE ins == r.code[i]  used == UsedTemps(r.code)
<1>1. WellShaped(ins)
  BY RunIs
<1>2. \A k \in DOMAIN ins.args :
        ins.args[k] \in Temps /\ (k = 1 => ins.op \notin Pure) => ins.args[k] \in used
  BY Distinct DEF UsedTemps
<1>3. ASSUME NEW t \in UsedOf(ins) PROVE t \in used
  BY <1>1, <1>2, UsedOperand
<1>4. ASSUME ~Skips(r, i), NEW t \in DefinedTemps(ins) PROVE t \in used
  <2>1. t \in Temps /\ 1 \in DOMAIN ins.args /\ t = ins.args[1]
    BY <1>1, DefinesTemp
  <2>2. CASE ins.op \in Pure
    BY <1>4, <2>1, <2>2, DeadMakes DEF Dead
  <2>3. CASE ins.op \notin Pure
    BY <1>2, <2>1, <2>3
  <2> QED BY <2>2, <2>3
<1>5. ASSUME NEW t \in DroppedTemps(r) PROVE t \in Temps /\ t \notin used
  <2>1. PICK j \in DOMAIN r.code : Skips(r, j) /\ t = r.code[j].args[1]
    BY DEF DroppedTemps
  <2>2. r.code[j].op \in Pure /\ t \notin used
    BY <2>1, DeadMakes DEF Dead
  <2>3. WellShaped(r.code[j])
    BY RunIs
  <2>4. t \in DefinedTemps(r.code[j])
    BY <2>1, <2>2, <2>3, PureDefines
  <2> QED BY <2>2, <2>3, <2>4, DefinesTemp
<1> QED BY <1>3, <1>4, <1>5

\* What it drops nobody reads.
LEMMA DeadKeeps ==
  ASSUME NEW r \in Runs, r.pass = "dce", NEW i \in DOMAIN r.code,
         NEW x, NEW y, Before(r, i, x, y), ~Stuck(x, r.code[i]), NEW in \in Words
  PROVE  KeepsStep(r, i, x, y, in)
<1> DEFINE ins == r.code[i]  D == DroppedTemps(r)  frame == FrameOf(r)
<1>1. /\ x \in [frame -> Words \cup {Undef}] /\ y \in [frame -> Words \cup {Undef}]
      /\ \A n \in frame \ D : y[n] = x[n]
  BY DEF Before
<1>2. WellShaped(ins) /\ D \in SUBSET Temps
  BY RunIs, KeptAreRead
<1>3. CASE Skips(r, i)
  <2>1. ins.op \in Pure /\ ins.args[1] \in D
    BY <1>3, DeadMakes DEF Dead, DroppedTemps
  <2>2. \A n \in frame \ D : y[n] = Effect(x, ins, in)[n]
    BY <1>1, <2>1, PureEffect
  <2> QED BY <1>3, <2>2 DEF KeepsStep, Behind, KnowledgeTrue
<1>4. CASE ~Skips(r, i)
  <2>1. Made(r, i) = ins
    BY <1>4, DeadMakes
  <2>2. Renames(frame, ins, y, ins, x)
    <3>1. ASSUME NEW k \in DOMAIN ins.args, ins.args[k] \in UsedOf(ins)
          PROVE  /\ IsTemp(ins.args[k]) /\ ins.args[k] \in frame
                 /\ y[ins.args[k]] = x[ins.args[k]]
      <4>1. ins.args[k] \in Temps /\ ins.args[k] \notin D
        BY <1>2, <3>1, UsedOperand, KeptAreRead
      <4>2. ins.args[k] \in frame
        BY <4>1, OperandSlot
      <4> QED BY <1>1, <4>1, <4>2, Distinct
    <3> QED BY <3>1 DEF Renames
  <2>3. \A n \in frame : ~IsTemp(n) => y[n] = x[n]
    BY <1>1, <1>2, Distinct
  <2> HIDE DEF ins, D, frame
  <2>4. Mimics(ins, y, ins, x)
    BY <1>1, <1>2, <2>2, <2>3, RenamedMimics DEF ins
  <2>5. \A n \in frame \ D : Effect(y, ins, in)[n] = Effect(x, ins, in)[n]
    BY <1>1, <1>2, <2>2, RenamedEffect DEF ins
  <2> QED BY <1>4, <2>1, <2>4, <2>5 DEF KeepsStep, Behind, KnowledgeTrue, ins, D, frame
<1> QED BY <1>3, <1>4

-----------------------------------------------------------------------------
(***************************************************************************)
(* All of them.                                                            *)
(***************************************************************************)

LEMMA PassEmitsAlike ==
  ASSUME NEW r \in Runs
  PROVE  EmitsAlike(r)
  BY PropEmitsAlike, DeadEmitsAlike, RenamingEmitsAlike, RunIs
     DEF LockstepPasses, RenamingPasses

LEMMA PassKeeps ==
  ASSUME NEW r \in Runs, NEW i \in DOMAIN r.code,
         NEW x, NEW y, Before(r, i, x, y), ~Stuck(x, r.code[i]), NEW in \in Words
  PROVE  KeepsStep(r, i, x, y, in)
  BY PropKeeps, DeadKeeps, RenamingKeeps, RunIs DEF LockstepPasses, RenamingPasses

\* A step of the code and what its target does meanwhile.
LEMMA PassStep ==
  ASSUME NEW r \in Runs,
         NEW x, IsConfig(x, Len(r.code), FrameOf(r)), x.st = "run", x.pc \in DOMAIN r.code,
         NEW y, IsConfig(y, Len(r.target), FrameOf(r)), InStep(r, x, y),
         Before(r, x.pc, x.mem, y.mem), ~Stuck(x.mem, r.code[x.pc]),
         NEW xx, xx = StepOnce(r.code, x, r.inputs),
         NEW yy, yy = IF Skips(r, x.pc) THEN y ELSE StepOnce(r.target, y, r.inputs)
  PROVE  /\ xx.st # "undef" /\ InStep(r, xx, yy)
         /\ \A n \in FrameOf(r) \ DroppedTemps(r) : yy.mem[n] = xx.mem[n]
         /\ KnowledgeTrue(r, x.pc + 1, xx.mem, yy.mem)
<1> DEFINE in == NextInput(x, r.inputs)  i == x.pc
<1>1. IsRecord(x) /\ IsRecord(y) /\ x.used \in Nat
  BY DEF IsConfig, IsRecord
<1>2. in \in Words
  BY <1>1, RunIs, InputWord
<1>3. KeepsStep(r, i, x.mem, y.mem, in)
  <2> HIDE DEF in
  <2> QED BY <1>2, PassKeeps
<1>4. /\ xx.st # "undef" /\ InStep(r, xx, yy)
      /\ xx.mem = Effect(x.mem, r.code[i], in)
      /\ yy.mem = Behind(r, i, y.mem, in)
  <2>1. CASE Skips(r, i)
    BY <1>1, <2>1, PassEmitsAlike, Waits DEF Behind
  <2>2. CASE ~Skips(r, i)
    <3>1. Mimics(Made(r, i), y.mem, r.code[i], x.mem)
      BY <1>3, <2>2 DEF KeepsStep
    <3> QED BY <1>1, <2>2, <3>1, PassEmitsAlike, Together DEF Behind
  <2> QED BY <2>1, <2>2
<1> HIDE DEF in
<1> QED BY <1>3, <1>4 DEF KeepsStep

\* The inductive invariant: the run is one of Runs and what Inv says.
IInv == run \in Runs /\ Inv

\* Nothing is known in the beginning.
LEMMA KnownAtFirst ==
  ASSUME NEW r \in Runs, NEW x, NEW y
  PROVE  KnowledgeTrue(r, 1, x, y)
<1>1. r.pass \in LockstepPasses /\ r.maps[1] = KnownFirst(r.pass, r.code)
  BY RunIs
<1>2. CASE r.pass = "cprop"
  BY <1>1, <1>2 DEF KnownFirst, KnowledgeTrue, MapsTrue, Known, PropStart, Facts, EmptyDict
<1>3. CASE r.pass = "dce"
  BY <1>3 DEF KnowledgeTrue
<1>4. CASE r.pass = "cp"
  BY <1>1, <1>4 DEF KnownFirst, KnowledgeTrue, RenamedTrue, CopyStart, EmptyDict
<1>5. CASE r.pass = "cse"
  BY <1>1, <1>5 DEF KnownFirst, KnowledgeTrue, RenamedTrue, CSEStart, EmptyDict
<1> QED BY <1>1, <1>2, <1>3, <1>4, <1>5 DEF LockstepPasses

\* The invariant holds when both start.
LEMMA InvInit == Init => IInv
<1> SUFFICES ASSUME Init PROVE IInv
  OBVIOUS
<1>1. run \in Runs /\ c = Start(run.code, run.params, run.inputs) /\ d = c
  BY DEF Init
<1>2. run.inputs[1] \in Words /\ Len(run.code) \in Nat /\ Len(run.target) \in Nat
      /\ run.place[1] = 1
  <2>1. run.inputs \in Seq(Words) /\ run.inputs # <<>> BY <1>1, RunIs
  <2> QED BY <1>1, <2>1, RunIs
<1>3. c.pc = 1 /\ c.st = "run"
  BY <1>1 DEF Start
<1>4. IsConfig(c, Len(run.code), Frame) /\ IsConfig(d, Len(run.target), Frame)
  BY <1>1, <1>2 DEF IsConfig, Start, Frame, Statuses
<1>5. TypeOK
  BY <1>4 DEF TypeOK
<1>6. InLockstep
  BY <1>1, <1>2, <1>3 DEF InLockstep
<1>7. KnowledgeTrue(run, c.pc, c.mem, d.mem)
  BY <1>1, <1>3, KnownAtFirst
<1> QED BY <1>1, <1>5, <1>6, <1>7 DEF IInv, Inv

\* Every step keeps it.
LEMMA InvStep == IInv /\ [Next]_vars => IInv'
<1> SUFFICES ASSUME IInv, [Next]_vars PROVE IInv'
  OBVIOUS
<1>1. CASE UNCHANGED vars
  BY <1>1 DEF vars, IInv, Inv, TypeOK, InLockstep, Frame
<1>2. CASE Step
  <2> DEFINE F == FrameOf(run)  D == DroppedTemps(run)
  <2>1. /\ run \in Runs /\ run' = run
        /\ c.st = "run"
        /\ c' = StepOnce(run.code, c, run.inputs)
        /\ d' = IF Skips(run, c.pc) THEN d ELSE StepOnce(run.target, d, run.inputs)
        /\ IsConfig(c, Len(run.code), F)
        /\ IsConfig(d, Len(run.target), F)
    BY <1>2 DEF Step, IInv, Inv, TypeOK, Frame, FrameOf
  <2>2. InStep(run, c, d) /\ \A n \in F \ D : d.mem[n] = c.mem[n]
    BY <2>1 DEF IInv, Inv, InLockstep, InStep, Frame, FrameOf
  <2>3. IsConfig(c', Len(run.code), F)
    BY <2>1, RunIs, StepTyped
  <2>4. IsConfig(d', Len(run.target), F)
    BY <2>1, RunIs, PassEmitsAlike, TargetFormed, StepTyped
  <2>5. TypeOK'
    BY <2>1, <2>3, <2>4 DEF TypeOK, Frame, FrameOf
  <2>6. c.pc \in 1..(Len(run.code) + 1) /\ DOMAIN run.code = 1..Len(run.code)
        /\ Len(run.code) \in Nat /\ IsRecord(c) /\ IsRecord(d)
    BY <2>1, RunIs DEF IsConfig, IsRecord
  <2>7. CASE c.pc > Len(run.code)
    <3>1. c' = Halt(c, "fell")
      BY <2>1, <2>7 DEF StepOnce
    <3>2. c.pc = Len(run.code) + 1 /\ ~Skips(run, c.pc)
      BY <2>6, <2>7 DEF Skips
    <3>3. d.pc > Len(run.target)
      BY <2>1, <2>2, <3>2, RunIs DEF InStep
    <3>4. d' = Halt(d, "fell")
      BY <2>1, <3>2, <3>3 DEF StepOnce
    <3>5. c'.st = "fell" /\ c'.pc = c.pc /\ c'.out = c.out /\ c'.used = c.used /\ c'.mem = c.mem
      BY <2>6, <3>1, HaltIs
    <3>6. d'.st = "fell" /\ d'.pc = d.pc /\ d'.out = d.out /\ d'.used = d.used /\ d'.mem = d.mem
      BY <2>6, <3>4, HaltIs
    <3>7. InLockstep'
      BY <2>1, <2>2, <3>5, <3>6 DEF InLockstep, InStep
    <3>8. \A n \in F \ D : d'.mem[n] = c'.mem[n]
      BY <2>2, <3>5, <3>6
    <3> QED BY <2>1, <2>5, <3>5, <3>7, <3>8 DEF IInv, Inv, Frame, FrameOf
  <2>8. CASE c.pc \in DOMAIN run.code /\ Stuck(c.mem, run.code[c.pc])
    <3>1. c' = Halt(c, "undef")
      BY <2>1, <2>6, <2>8 DEF StepOnce
    <3>2. c'.st = "undef"
      BY <2>6, <3>1, HaltIs
    <3> QED BY <2>1, <2>5, <3>2 DEF IInv, Inv, InLockstep
  <2>9. CASE c.pc \in DOMAIN run.code /\ ~Stuck(c.mem, run.code[c.pc])
    <3>1. Before(run, c.pc, c.mem, d.mem)
      BY <2>1, <2>2, <2>9 DEF Before, IsConfig, IInv, Inv
    <3>2. /\ c'.st # "undef" /\ InStep(run, c', d')
          /\ \A n \in F \ D : d'.mem[n] = c'.mem[n]
          /\ KnowledgeTrue(run, c.pc + 1, c'.mem, d'.mem)
      BY <2>1, <2>2, <2>9, <3>1, PassStep
    <3>3. ASSUME c'.st = "run", c'.pc \in DOMAIN run.code, run.code[c'.pc].op # "LABEL"
          PROVE  c'.pc = c.pc + 1
      BY <2>1, <3>3, RunIs, FallThrough
    <3>4. InLockstep'
      BY <2>1, <3>2 DEF InLockstep, InStep
    <3> QED BY <2>1, <2>5, <3>2, <3>3, <3>4 DEF IInv, Inv, Frame, FrameOf
  <2> QED BY <2>6, <2>7, <2>8, <2>9
<1> QED BY <1>1, <1>2 DEF Next

-----------------------------------------------------------------------------
\* What a pass holds for true is: on every path of every function, before every
\* instruction but a label, each constant its tables hold is the value, each
\* temp it would read in place of another holds what that one holds, and both
\* memories agree on all that the pass did not drop.
THEOREM PassesSound == Spec => []Inv
<1>1. IInv => Inv
  BY DEF IInv
<1> QED BY <1>1, InvInit, InvStep, PTL DEF Spec

\* Both configurations keep their type: no write leaves the frame and every
\* word stays within the word size.
THEOREM PassesTyped == Spec => []TypeOK
<1>1. Inv => TypeOK
  BY DEF Inv
<1> QED BY <1>1, PassesSound, PTL

\* What a pass made shows what the function shows, asks what it asks and stops
\* as it stops, instruction by instruction, for every function, word size and
\* environment.
THEOREM PassesInLockstep == Spec => []InLockstep
<1>1. Inv => InLockstep
  BY DEF Inv
<1> QED BY <1>1, PassesSound, PTL

=============================================================================
