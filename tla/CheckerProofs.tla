---------------------------- MODULE CheckerProofs ----------------------------
(***************************************************************************)
(* The type checker's walk, for every program: whichever way it leaves a   *)
(* loop or a switch, the depths are what they were, and no parameter or    *)
(* local gets among the functions.                                         *)
(***************************************************************************)
EXTENDS TypeChecker, ListLemmas, FiniteSetTheorems, TLAPS

-----------------------------------------------------------------------------
(***************************************************************************)
(* Where the checker stands between two things to do, a spot: the depths,  *)
(* the number of types not yet used and of tables in the chain.  After     *)
(* says what a thing to do and all that comes of it make of a spot, Ready  *)
(* what it asks of one.                                                    *)
(***************************************************************************)
Spots == [loops : Int, switches : Int, types : Nat, tables : Nat]

Quiet(x) == x.loops = 0 /\ x.switches = 0 /\ x.types = 0

Found  == {"expr", "gives"}
Even   == {"stmt", "printed", "arguments", "refuse", "main", "define", "function", "param",
           "open", "close", "declare", "enter", "leave"}
Looked == {"operand", "subject", "clauses"}
Used   == {"is", "drop"}
Both   == {"operands", "case"}

Net(i) == CASE i[1] \in Found -> 1
            [] i[1] \in Even \cup Looked -> 0
            [] i[1] \in Used \cup Both -> -1

Least(i) == CASE i[1] \in Found \cup Even -> 0
              [] i[1] \in Looked \cup Used -> 1
              [] i[1] \in Both -> 2

Fewest(i) == CASE i[1] \in {"declare", "close"} -> 3
               [] i[1] \in {"stmt", "clauses", "param", "open"} -> 2
               [] OTHER -> 1

Turn(i, kind) == IF i = <<"enter", kind>> THEN 1 ELSE IF i = <<"leave", kind>> THEN -1 ELSE 0

Tables(i, n) == CASE i[1] = "open" -> n + 1
                  [] i[1] = "close" -> n - 1
                  [] i[1] = "function" -> 2
                  [] OTHER -> n

After(i, x) ==
  [loops |-> x.loops + Turn(i, "loop"), switches |-> x.switches + Turn(i, "switch"),
   types |-> x.types + Net(i), tables |-> Tables(i, x.tables)]

AreClauses(cases) ==
  /\ IsList(cases)
  /\ \A k \in DOMAIN cases : /\ cases[k][1] \in Expressions \cup {Absent}
                             /\ ListOf(Statements, cases[k][2])

Formed(p, i) ==
  /\ i[1] \in Found \cup Even \cup Looked \cup Used \cup Both
  /\ i[1] = "expr" => i[2] \in Expressions
  /\ i[1] = "stmt" => i[2] \in Statements
  /\ i[1] = "printed"   => ListOf(Expressions, i[2]) /\ i[3] \in Nat \ {0}
  /\ i[1] = "arguments" => ListOf(Expressions, i[2]) /\ i[4] \in Nat \ {0}
  /\ i[1] = "clauses"   => AreClauses(i[2]) /\ i[3] \in Nat \ {0}
  /\ i[1] = "declare"   => i[2][3] \in Expressions \cup {Absent}
  /\ i[1] \in {"enter", "leave"} => i \in {<<i[1], "loop">>, <<i[1], "switch">>}
  /\ i[1] = "function"  => i[2] \in DOMAIN p

Ready(p, i, x) ==
  /\ Formed(p, i)
  /\ x.types >= Least(i) /\ x.tables >= Fewest(i)
  /\ i[1] = "function" => Quiet(x)

\* The spots before each thing in a list, and after the last.
Path(p, s, H) ==
  /\ H \in [1..(Len(s) + 1) -> Spots]
  /\ \A k \in 1..Len(s) : Ready(p, s[k], H[k]) /\ H[k + 1] = After(s[k], H[k])

Leads(p, s, x, y) == AnySeq(s) /\ \E H : Path(p, s, H) /\ H[1] = x /\ H[Len(s) + 1] = y

LEMMA LeadsNone ==
  ASSUME NEW p, NEW x \in Spots
  PROVE  Leads(p, <<>>, x, x)
<1> DEFINE H == [j \in 1..1 |-> x]
<1>1. AnySeq(<<>>) /\ Len(<<>>) = 0
  BY DEF AnySeq
<1>2. Path(p, <<>>, H)
  BY <1>1 DEF Path
<1> QED BY <1>1, <1>2 DEF Leads

LEMMA LeadsOne ==
  ASSUME NEW p, NEW i, NEW x \in Spots, Ready(p, i, x), After(i, x) \in Spots
  PROVE  Leads(p, <<i>>, x, After(i, x))
<1> DEFINE H == <<x, After(i, x)>>
<1>1. AnySeq(<<i>>) /\ Len(<<i>>) = 1 /\ <<i>>[1] = i
  BY DEF AnySeq
<1>2. H[1] = x /\ H[2] = After(i, x) /\ H \in [1..2 -> Spots]
  OBVIOUS
<1> HIDE DEF H
<1>3. Path(p, <<i>>, H)
  BY <1>1, <1>2 DEF Path
<1> QED BY <1>1, <1>2, <1>3 DEF Leads

\* One list after another.
LEMMA LeadsJoin ==
  ASSUME NEW p, NEW s, NEW t, NEW x, NEW y, NEW z, Leads(p, s, x, y), Leads(p, t, y, z)
  PROVE  Leads(p, s \o t, x, z)
<1>1. PICK G : Path(p, s, G) /\ G[1] = x /\ G[Len(s) + 1] = y
  BY DEF Leads
<1>2. PICK K : Path(p, t, K) /\ K[1] = y /\ K[Len(t) + 1] = z
  BY DEF Leads
<1> DEFINE w == s \o t
           n == Len(s)
           m == Len(t)
           H == [j \in 1..(n + m + 1) |-> IF j <= n THEN G[j] ELSE K[j - n]]
<1>3. /\ AnySeq(s) /\ n \in Nat /\ DOMAIN s = 1..n
      /\ AnySeq(t) /\ m \in Nat /\ DOMAIN t = 1..m
  BY AnySeqIs DEF Leads
<1>4. /\ AnySeq(w) /\ Len(w) = n + m
      /\ \A j \in 1..n : w[j] = s[j]
      /\ \A j \in 1..m : w[n + j] = t[j]
  BY <1>3, ConcatIs
<1>5. /\ \A j \in 1..(n + 1) : G[j] \in Spots
      /\ \A j \in 1..n : Ready(p, s[j], G[j]) /\ G[j + 1] = After(s[j], G[j])
  BY <1>1 DEF Path
<1>6. /\ \A j \in 1..(m + 1) : K[j] \in Spots
      /\ \A j \in 1..m : Ready(p, t[j], K[j]) /\ K[j + 1] = After(t[j], K[j])
  BY <1>2 DEF Path
<1>7. /\ \A j \in 1..(n + 1) : H[j] = G[j]
      /\ \A j \in 1..(m + 1) : H[n + j] = K[j]
  BY <1>1, <1>2, <1>3
<1>8. H \in [1..(n + m + 1) -> Spots]
  BY <1>3, <1>5, <1>6
<1> HIDE DEF H
<1>9. \A j \in 1..(n + m) : Ready(p, w[j], H[j]) /\ H[j + 1] = After(w[j], H[j])
  <2> TAKE j \in 1..(n + m)
  <2>1. CASE j <= n
    <3>1. j \in 1..n /\ j \in 1..(n + 1) /\ j + 1 \in 1..(n + 1)
      BY <2>1, <1>3
    <3> QED BY <3>1, <1>4, <1>5, <1>7
  <2>2. CASE ~(j <= n)
    <3>1. PICK i \in 1..m : j = n + i
      <4>1. j - n \in 1..m /\ j = n + (j - n)
        BY <2>2, <1>3
      <4> QED BY <4>1
    <3>2. i \in 1..(m + 1) /\ i + 1 \in 1..(m + 1) /\ j + 1 = n + (i + 1)
      BY <3>1, <1>3
    <3> QED BY <3>1, <3>2, <1>4, <1>6, <1>7
  <2> QED BY <2>1, <2>2
<1>10. Path(p, w, H)
  BY <1>4, <1>8, <1>9 DEF Path
<1>11. H[1] = x /\ H[Len(w) + 1] = z
  <2>1. 1 \in 1..(n + 1) /\ m + 1 \in 1..(m + 1) /\ Len(w) + 1 = n + (m + 1)
    BY <1>3, <1>4
  <2> QED BY <2>1, <1>1, <1>2, <1>7
<1> QED BY <1>4, <1>10, <1>11 DEF Leads

\* Things that leave the spot as it is.
LEMMA LeadsAll ==
  ASSUME NEW p, NEW n \in Nat, NEW S, NEW s \in [1..n -> S], NEW x \in Spots,
         \A k \in 1..n : Ready(p, s[k], x) /\ After(s[k], x) = x
  PROVE  Leads(p, s, x, x)
<1> DEFINE H == [j \in 1..(n + 1) |-> x]
<1>1. AnySeq(s) /\ Len(s) = n
  BY FunctionIsSeq
<1>2. /\ H \in [1..(n + 1) -> Spots] /\ H[1] = x /\ H[n + 1] = x
      /\ \A k \in 1..n : H[k] = x /\ H[k + 1] = x
  OBVIOUS
<1> HIDE DEF H
<1>3. Path(p, s, H)
  BY <1>1, <1>2 DEF Path
<1> QED BY <1>1, <1>2, <1>3 DEF Leads

\* What is left of a list after its first thing.
LEMMA LeadsRest ==
  ASSUME NEW p, NEW s, NEW x, NEW y, Leads(p, s, x, y), s # <<>>
  PROVE  /\ x \in Spots /\ Ready(p, Head(s), x) /\ After(Head(s), x) \in Spots
         /\ Leads(p, Tail(s), After(Head(s), x), y)
<1>1. PICK G : Path(p, s, G) /\ G[1] = x /\ G[Len(s) + 1] = y
  BY DEF Leads
<1> DEFINE n == Len(s)
           t == Tail(s)
           H == [j \in 1..n |-> G[j + 1]]
<1>2. /\ AnySeq(s) /\ n \in Nat /\ n >= 1 /\ DOMAIN s = 1..n /\ Head(s) = s[1]
      /\ AnySeq(t) /\ Len(t) = n - 1
      /\ \A k \in 1..(n - 1) : t[k] = s[k + 1]
  BY TailIs, AnySeqIs DEF Leads
<1> HIDE DEF t
<1>3. /\ \A j \in 1..(n + 1) : G[j] \in Spots
      /\ \A j \in 1..n : Ready(p, s[j], G[j]) /\ G[j + 1] = After(s[j], G[j])
  BY <1>1 DEF Path
<1>4. 1 \in 1..n /\ 1 \in 1..(n + 1) /\ 2 \in 1..(n + 1) /\ 1 + 1 = 2 /\ n \in 1..n
      /\ n - 1 + 1 = n
  BY <1>2
<1>5. \A j \in 1..n : H[j] = G[j + 1] /\ j + 1 \in 1..(n + 1)
  BY <1>2
<1>6. H \in [1..n -> Spots]
  BY <1>2, <1>3, <1>5
<1> HIDE DEF H
<1>7. \A j \in 1..(n - 1) : Ready(p, t[j], H[j]) /\ H[j + 1] = After(t[j], H[j])
  <2> TAKE j \in 1..(n - 1)
  <2>1. j \in 1..n /\ j + 1 \in 1..n /\ t[j] = s[j + 1]
    BY <1>2
  <2> QED BY <2>1, <1>3, <1>5
<1>8. Path(p, t, H)
  BY <1>2, <1>4, <1>6, <1>7 DEF Path
<1>9. H[1] = After(Head(s), x) /\ H[Len(t) + 1] = y
  BY <1>1, <1>2, <1>3, <1>4, <1>5
<1>10. Leads(p, t, After(Head(s), x), y)
  BY <1>2, <1>8, <1>9 DEF Leads
<1>11. x \in Spots /\ Ready(p, Head(s), x) /\ After(Head(s), x) \in Spots
  BY <1>1, <1>2, <1>3, <1>4
<1> QED BY <1>10, <1>11 DEF t

LEMMA LeadsEnds ==
  ASSUME NEW p, NEW x, NEW y, Leads(p, <<>>, x, y)
  PROVE  x = y
<1>1. Len(<<>>) = 0 /\ 0 + 1 = 1
  OBVIOUS
<1> QED BY <1>1 DEF Leads

-----------------------------------------------------------------------------
(***************************************************************************)
(* Unwinding: the frames that a list leaves and does not enter are those   *)
(* the depths count.                                                       *)
(***************************************************************************)
UpTo(s, n, does, kind) == {k \in 1..n : s[k] = <<does, kind>>}

\* One more place, one more frame or none.
LEMMA OneMorePlace ==
  ASSUME NEW s, NEW n \in Nat, NEW does, NEW kind, IsFiniteSet(UpTo(s, n, does, kind))
  PROVE  /\ IsFiniteSet(UpTo(s, n + 1, does, kind))
         /\ Cardinality(UpTo(s, n, does, kind)) \in Nat
         /\ Cardinality(UpTo(s, n + 1, does, kind)) =
              Cardinality(UpTo(s, n, does, kind)) + (IF s[n + 1] = <<does, kind>> THEN 1 ELSE 0)
<1> DEFINE S == UpTo(s, n, does, kind)
           T == UpTo(s, n + 1, does, kind)
<1>1. Cardinality(S) \in Nat
  BY FS_CardinalityType
<1>2. \A k : k \in 1..(n + 1) <=> k \in 1..n \/ k = n + 1
  OBVIOUS
<1>3. CASE s[n + 1] = <<does, kind>>
  <2>1. T = S \cup {n + 1}
    BY <1>2, <1>3 DEF UpTo
  <2>2. n + 1 \notin S
    BY DEF UpTo
  <2> HIDE DEF S, T
  <2>3. IsFiniteSet(T) /\ Cardinality(T) = Cardinality(S) + 1
    BY <2>1, <2>2, FS_AddElement DEF S
  <2> QED BY <1>1, <1>3, <2>3 DEF S, T
<1>4. CASE ~(s[n + 1] = <<does, kind>>)
  <2>1. T = S
    BY <1>2, <1>4 DEF UpTo
  <2> QED BY <1>1, <1>4, <2>1
<1> QED BY <1>3, <1>4

\* A count that goes with the frames met so far.
LEMMA CountsFrames ==
  ASSUME NEW s, NEW n \in Nat, NEW kind, NEW D \in [1..(n + 1) -> Int],
         \A k \in 1..n : D[k + 1] = D[k] + Turn(s[k], kind)
  PROVE  \A k \in 0..n :
           /\ IsFiniteSet(UpTo(s, k, "enter", kind)) /\ IsFiniteSet(UpTo(s, k, "leave", kind))
           /\ D[k + 1] = D[1] + Cardinality(UpTo(s, k, "enter", kind))
                           - Cardinality(UpTo(s, k, "leave", kind))
<1> DEFINE Up(k)   == UpTo(s, k, "enter", kind)
           Down(k) == UpTo(s, k, "leave", kind)
           Fine(k) == /\ IsFiniteSet(Up(k)) /\ IsFiniteSet(Down(k))
                      /\ D[k + 1] = D[1] + Cardinality(Up(k)) - Cardinality(Down(k))
           bad     == {k \in 0..n : ~Fine(k)}
<1> SUFFICES ASSUME bad # {} PROVE FALSE
  OBVIOUS
<1>1. PICK b \in bad : \A k \in bad : b <= k
  <2>1. bad \in SUBSET Nat
    OBVIOUS
  <2> HIDE DEF bad
  <2> QED BY <2>1, LeastNumber
<1>2. b \in 0..n /\ ~Fine(b)
  BY <1>1
<1>3. CASE b = 0
  <2>1. Up(0) = {} /\ Down(0) = {}
    BY DEF UpTo
  <2>2. 1 \in 1..(n + 1) /\ D[1] \in Int /\ 0 + 1 = 1
    OBVIOUS
  <2>3. IsFiniteSet(Up(0)) /\ IsFiniteSet(Down(0)) /\ Cardinality(Up(0)) = 0 /\ Cardinality(Down(0)) = 0
    BY <2>1, FS_EmptySet
  <2> HIDE DEF Up, Down
  <2>4. D[0 + 1] = D[1] + 0 - 0
    BY <2>2
  <2>5. Fine(0)
    BY <2>3, <2>4
  <2> QED BY <2>5, <1>2, <1>3
<1>4. CASE b # 0
  <2> DEFINE a == b - 1
  <2>1. a \in 0..n /\ a \in Nat /\ b \in 1..n /\ b = a + 1 /\ b + 1 \in 1..(n + 1) /\ b \in 1..(n + 1)
    BY <1>2, <1>4
  <2>2. Fine(a)
    <3>1. a \notin bad
      BY <1>1, <2>1
    <3> QED BY <3>1, <2>1
  <2> HIDE DEF a, bad
  <2>3. /\ IsFiniteSet(Up(a + 1)) /\ Cardinality(Up(a)) \in Nat
        /\ Cardinality(Up(a + 1)) = Cardinality(Up(a)) + (IF s[a + 1] = <<"enter", kind>> THEN 1 ELSE 0)
    BY <2>1, <2>2, OneMorePlace
  <2>4. /\ IsFiniteSet(Down(a + 1)) /\ Cardinality(Down(a)) \in Nat
        /\ Cardinality(Down(a + 1)) = Cardinality(Down(a)) + (IF s[a + 1] = <<"leave", kind>> THEN 1 ELSE 0)
    BY <2>1, <2>2, OneMorePlace
  <2>5. <<"enter", kind>> # <<"leave", kind>>
    OBVIOUS
  <2>6. D[b + 1] = D[b] + Turn(s[b], kind) /\ D[b] \in Int /\ D[1] \in Int /\ D[b + 1] \in Int
    BY <2>1
  <2> HIDE DEF Up, Down
  <2>7. D[b] = D[1] + Cardinality(Up(a)) - Cardinality(Down(a))
    BY <2>1, <2>2
  <2>8. D[b + 1] = D[1] + Cardinality(Up(b)) - Cardinality(Down(b))
    <3>1. /\ Cardinality(Up(b)) = Cardinality(Up(a)) + (IF s[b] = <<"enter", kind>> THEN 1 ELSE 0)
          /\ Cardinality(Down(b)) = Cardinality(Down(a)) + (IF s[b] = <<"leave", kind>> THEN 1 ELSE 0)
      BY <2>1, <2>3, <2>4
    <3>2. CASE s[b] = <<"enter", kind>>
      <4>1. Turn(s[b], kind) = 1 /\ s[b] # <<"leave", kind>>
        BY <3>2, <2>5 DEF Turn
      <4> QED BY <4>1, <3>1, <3>2, <2>3, <2>4, <2>6, <2>7
    <3>3. CASE s[b] = <<"leave", kind>>
      <4>1. Turn(s[b], kind) = -1 /\ s[b] # <<"enter", kind>>
        BY <3>3, <2>5 DEF Turn
      <4> QED BY <4>1, <3>1, <3>3, <2>3, <2>4, <2>6, <2>7
    <3>4. CASE s[b] # <<"enter", kind>> /\ s[b] # <<"leave", kind>>
      <4>1. Turn(s[b], kind) = 0
        BY <3>4 DEF Turn
      <4> QED BY <4>1, <3>1, <3>4, <2>3, <2>4, <2>6, <2>7
    <3> QED BY <3>2, <3>3, <3>4
  <2> QED BY <2>1, <2>3, <2>4, <2>8, <1>2
<1> QED BY <1>3, <1>4

\* What the finally clauses take off is what was put on.
LEMMA UnwindsAll ==
  ASSUME NEW p, NEW s, NEW x, NEW y, Leads(p, s, x, y)
  PROVE  /\ x.loops - (Frames(s, "leave", "loop") - Frames(s, "enter", "loop")) = y.loops
         /\ x.switches - (Frames(s, "leave", "switch") - Frames(s, "enter", "switch")) = y.switches
<1>1. PICK H : Path(p, s, H) /\ H[1] = x /\ H[Len(s) + 1] = y
  BY DEF Leads
<1> DEFINE n == Len(s)
           D == [k \in 1..(n + 1) |-> H[k].loops]
           E == [k \in 1..(n + 1) |-> H[k].switches]
<1>2. n \in Nat /\ DOMAIN s = 1..n /\ 1 \in 1..(n + 1) /\ n + 1 \in 1..(n + 1) /\ n \in 0..n
  BY AnySeqIs DEF Leads
<1>3. /\ \A k \in 1..(n + 1) : H[k].loops \in Int /\ H[k].switches \in Int
      /\ \A k \in 1..n : /\ H[k + 1].loops = H[k].loops + Turn(s[k], "loop")
                         /\ H[k + 1].switches = H[k].switches + Turn(s[k], "switch")
  <2>1. \A k \in 1..(n + 1) : H[k] \in Spots
    BY <1>1 DEF Path
  <2>2. \A k \in 1..n : H[k + 1] = After(s[k], H[k])
    BY <1>1 DEF Path
  <2>3. \A i, z : /\ After(i, z).loops = z.loops + Turn(i, "loop")
                 /\ After(i, z).switches = z.switches + Turn(i, "switch")
    BY DEF After
  <2>4. \A z \in Spots : z.loops \in Int /\ z.switches \in Int
    BY DEF Spots
  <2> QED BY <2>1, <2>2, <2>3, <2>4
<1>4. \A does, kind : Frames(s, does, kind) = Cardinality(UpTo(s, n, does, kind))
  BY <1>2 DEF Frames, UpTo
<1>5. \A k \in 1..n : k \in 1..(n + 1) /\ k + 1 \in 1..(n + 1)
  BY <1>2
<1>6. D \in [1..(n + 1) -> Int] /\ E \in [1..(n + 1) -> Int]
  BY <1>3
<1>7. /\ \A k \in 1..(n + 1) : D[k] = H[k].loops /\ E[k] = H[k].switches
      /\ \A k \in 1..n : /\ D[k + 1] = D[k] + Turn(s[k], "loop")
                         /\ E[k + 1] = E[k] + Turn(s[k], "switch")
  BY <1>3, <1>5
<1> HIDE DEF D, E, n
<1>8. /\ D[n + 1] = D[1] + Cardinality(UpTo(s, n, "enter", "loop"))
                      - Cardinality(UpTo(s, n, "leave", "loop"))
      /\ IsFiniteSet(UpTo(s, n, "enter", "loop")) /\ IsFiniteSet(UpTo(s, n, "leave", "loop"))
  BY <1>2, <1>6, <1>7, CountsFrames
<1>9. /\ E[n + 1] = E[1] + Cardinality(UpTo(s, n, "enter", "switch"))
                      - Cardinality(UpTo(s, n, "leave", "switch"))
      /\ IsFiniteSet(UpTo(s, n, "enter", "switch")) /\ IsFiniteSet(UpTo(s, n, "leave", "switch"))
  BY <1>2, <1>6, <1>7, CountsFrames
<1>10. \A does \in {"enter", "leave"}, kind \in {"loop", "switch"} :
         Frames(s, does, kind) \in Nat
  BY <1>4, <1>8, <1>9, FS_CardinalityType
<1>11. /\ D[n + 1] = y.loops /\ D[1] = x.loops /\ E[n + 1] = y.switches /\ E[1] = x.switches
       /\ D[1] \in Int /\ E[1] \in Int
  BY <1>1, <1>2, <1>3, <1>7 DEF n
<1> QED BY <1>4, <1>8, <1>9, <1>10, <1>11

-----------------------------------------------------------------------------
(***************************************************************************)
(* What the things to do make of a spot, one kind after the other, and     *)
(* pieces of work that are made of them.                                   *)
(***************************************************************************)
Spot(l, s, t, n) == [loops |-> l, switches |-> s, types |-> t, tables |-> n]
Higher(x, d)     == Spot(x.loops, x.switches, x.types + d, x.tables)
Wider(x, d)      == Spot(x.loops, x.switches, x.types, x.tables + d)
Called(x)        == Spot(x.loops, x.switches, x.types, 2)
Inside(x, kind)  == Spot(IF kind = "loop" THEN x.loops + 1 ELSE x.loops,
                         IF kind = "switch" THEN x.switches + 1 ELSE x.switches,
                         x.types, x.tables)

LEMMA SpotIs ==
  /\ \A x \in Spots : /\ x = Spot(x.loops, x.switches, x.types, x.tables)
                      /\ x.loops \in Int /\ x.switches \in Int /\ x.types \in Nat /\ x.tables \in Nat
  /\ \A l, s \in Int, t, n \in Nat : Spot(l, s, t, n) \in Spots
  /\ \A l, s, t, n : /\ Spot(l, s, t, n).loops = l /\ Spot(l, s, t, n).switches = s
                     /\ Spot(l, s, t, n).types = t /\ Spot(l, s, t, n).tables = n
<1>1. \A x \in Spots : x = Spot(x.loops, x.switches, x.types, x.tables)
  BY DEF Spots, Spot
<1>2. \A x \in Spots : x.loops \in Int /\ x.switches \in Int /\ x.types \in Nat /\ x.tables \in Nat
  BY DEF Spots
<1>3. \A l, s \in Int, t, n \in Nat : Spot(l, s, t, n) \in Spots
  BY DEF Spots, Spot
<1>4. \A l, s, t, n : /\ Spot(l, s, t, n).loops = l /\ Spot(l, s, t, n).switches = s
                      /\ Spot(l, s, t, n).types = t /\ Spot(l, s, t, n).tables = n
  BY DEF Spot
<1> QED BY <1>1, <1>2, <1>3, <1>4

Kept == {"stmt", "printed", "arguments", "clauses", "refuse", "main", "define", "param", "declare",
         "operand", "subject"}

LEMMA AfterIs ==
  ASSUME NEW i, NEW x \in Spots
  PROVE  /\ i[1] \in Kept => After(i, x) = x
         /\ i[1] \in Found => After(i, x) = Higher(x, 1)
         /\ i[1] \in Used \cup Both => After(i, x) = Higher(x, -1)
         /\ i[1] = "open" => After(i, x) = Wider(x, 1)
         /\ i[1] = "close" => After(i, x) = Wider(x, -1)
         /\ i[1] = "function" => After(i, x) = Called(x)
<1>1. i[1] \notin {"enter", "leave"} => Turn(i, "loop") = 0 /\ Turn(i, "switch") = 0
  <2>1. \A kind : <<"enter", kind>>[1] = "enter" /\ <<"leave", kind>>[1] = "leave"
    OBVIOUS
  <2> QED BY <2>1 DEF Turn
<1>2. /\ x = Spot(x.loops, x.switches, x.types, x.tables)
      /\ x.loops \in Int /\ x.switches \in Int /\ x.types \in Nat /\ x.tables \in Nat
  BY SpotIs
<1>3. /\ i[1] \in Kept \cup {"open", "close", "function"} => Net(i) = 0
      /\ i[1] \in Found => Net(i) = 1
      /\ i[1] \in Used \cup Both => Net(i) = -1
  BY DEF Net, Kept, Found, Even, Looked, Used, Both
<1>4. /\ i[1] \in Kept \cup Found \cup Used \cup Both => Tables(i, x.tables) = x.tables
      /\ i[1] = "open" => Tables(i, x.tables) = x.tables + 1
      /\ i[1] = "close" => Tables(i, x.tables) = x.tables - 1
      /\ i[1] = "function" => Tables(i, x.tables) = 2
  BY DEF Tables, Kept, Found, Used, Both
<1>5. i[1] \in Kept \cup Found \cup Used \cup Both \cup {"open", "close", "function"}
        => i[1] \notin {"enter", "leave"}
  BY DEF Kept, Found, Used, Both
<1>6. After(i, x) = Spot(x.loops + Turn(i, "loop"), x.switches + Turn(i, "switch"),
                         x.types + Net(i), Tables(i, x.tables))
  BY DEF After, Spot
<1>7. x.loops + 0 = x.loops /\ x.switches + 0 = x.switches /\ x.types + 0 = x.types
  BY <1>2
<1>8. CASE i[1] \in Kept
  BY <1>1, <1>2, <1>3, <1>4, <1>5, <1>6, <1>7, <1>8 DEF Kept, Found, Used, Both
<1>9. CASE i[1] \in Found
  BY <1>1, <1>3, <1>4, <1>5, <1>6, <1>7, <1>9 DEF Higher, Kept, Found, Used, Both
<1>10. CASE i[1] \in Used \cup Both
  BY <1>1, <1>3, <1>4, <1>5, <1>6, <1>7, <1>10 DEF Higher, Kept, Found, Used, Both
<1>11. CASE i[1] = "open"
  BY <1>1, <1>3, <1>4, <1>5, <1>6, <1>7, <1>11 DEF Wider, Kept, Found, Used, Both
<1>12. CASE i[1] = "close"
  <2>1. x.tables + (-1) = x.tables - 1
    BY <1>2
  <2> QED BY <2>1, <1>1, <1>3, <1>4, <1>5, <1>6, <1>7, <1>12 DEF Wider, Kept, Found, Used, Both
<1>13. CASE i[1] = "function"
  BY <1>1, <1>3, <1>4, <1>5, <1>6, <1>7, <1>13 DEF Called, Kept, Found, Used, Both
<1> QED BY <1>8, <1>9, <1>10, <1>11, <1>12, <1>13

LEMMA AfterFrame ==
  ASSUME NEW x \in Spots, NEW kind \in {"loop", "switch"}
  PROVE  /\ Inside(x, kind) \in Spots
         /\ Inside(x, kind).types = x.types /\ Inside(x, kind).tables = x.tables
         /\ After(<<"enter", kind>>, x) = Inside(x, kind)
         /\ After(<<"leave", kind>>, Inside(x, kind)) = x
<1>1. /\ Turn(<<"enter", kind>>, "loop") = IF kind = "loop" THEN 1 ELSE 0
      /\ Turn(<<"enter", kind>>, "switch") = IF kind = "switch" THEN 1 ELSE 0
      /\ Turn(<<"leave", kind>>, "loop") = IF kind = "loop" THEN -1 ELSE 0
      /\ Turn(<<"leave", kind>>, "switch") = IF kind = "switch" THEN -1 ELSE 0
  BY DEF Turn
<1>2. \A does \in {"enter", "leave"} :
        Net(<<does, kind>>) = 0 /\ \A n : Tables(<<does, kind>>, n) = n
  BY DEF Net, Tables, Found, Even, Looked, Used, Both
<1>3. /\ x = Spot(x.loops, x.switches, x.types, x.tables)
      /\ x.loops \in Int /\ x.switches \in Int /\ x.types \in Nat /\ x.tables \in Nat
  BY SpotIs
<1> DEFINE y == Inside(x, kind)
<1>4. /\ y.loops = IF kind = "loop" THEN x.loops + 1 ELSE x.loops
      /\ y.switches = IF kind = "switch" THEN x.switches + 1 ELSE x.switches
      /\ y.types = x.types /\ y.tables = x.tables
  BY SpotIs DEF Inside
<1>5. y \in Spots
  <2>1. /\ (IF kind = "loop" THEN x.loops + 1 ELSE x.loops) \in Int
        /\ (IF kind = "switch" THEN x.switches + 1 ELSE x.switches) \in Int
    BY <1>3
  <2> QED BY <2>1, <1>3, SpotIs DEF Inside
<1> HIDE DEF y
<1>6. y = Spot(y.loops, y.switches, x.types, x.tables)
  BY <1>4, <1>5, SpotIs
<1>7. \A i, z : After(i, z) = Spot(z.loops + Turn(i, "loop"), z.switches + Turn(i, "switch"),
                                  z.types + Net(i), Tables(i, z.tables))
  BY DEF After, Spot
<1>8. After(<<"enter", kind>>, x) = y
  <2>1. /\ x.loops + Turn(<<"enter", kind>>, "loop") = y.loops
        /\ x.switches + Turn(<<"enter", kind>>, "switch") = y.switches
    BY <1>1, <1>3, <1>4
  <2>2. x.types + Net(<<"enter", kind>>) = x.types /\ Tables(<<"enter", kind>>, x.tables) = x.tables
    BY <1>2, <1>3
  <2> QED BY <2>1, <2>2, <1>6, <1>7
<1>9. After(<<"leave", kind>>, y) = x
  <2>1. /\ y.loops + Turn(<<"leave", kind>>, "loop") = x.loops
        /\ y.switches + Turn(<<"leave", kind>>, "switch") = x.switches
    BY <1>1, <1>3, <1>4
  <2>2. y.types + Net(<<"leave", kind>>) = x.types /\ Tables(<<"leave", kind>>, y.tables) = x.tables
    BY <1>2, <1>3, <1>4
  <2> QED BY <2>1, <2>2, <1>3, <1>7
<1> QED BY <1>4, <1>5, <1>8, <1>9 DEF y

LEMMA HigherIs ==
  ASSUME NEW x \in Spots
  PROVE  /\ \A d \in {1, 2} : /\ Higher(x, d) \in Spots /\ Higher(x, d).types = x.types + d
                              /\ Higher(x, d).tables = x.tables
         /\ Higher(Higher(x, 1), 1) = Higher(x, 2)
         /\ Higher(Higher(x, 2), -1) = Higher(x, 1)
         /\ Higher(Higher(x, 1), -1) = x
         /\ x.types >= 1 => Higher(x, -1) \in Spots
         /\ Wider(x, 1) \in Spots /\ Wider(x, 1).types = x.types /\ Wider(x, 1).tables = x.tables + 1
         /\ Wider(Wider(x, 1), -1) = x
<1>1. /\ x = Spot(x.loops, x.switches, x.types, x.tables)
      /\ x.loops \in Int /\ x.switches \in Int /\ x.types \in Nat /\ x.tables \in Nat
  BY SpotIs
<1>2. \A d : /\ Higher(x, d).types = x.types + d /\ Higher(x, d).tables = x.tables
             /\ Higher(x, d).loops = x.loops /\ Higher(x, d).switches = x.switches
  BY SpotIs DEF Higher
<1>3. /\ Wider(x, 1).types = x.types /\ Wider(x, 1).tables = x.tables + 1
      /\ Wider(x, 1).loops = x.loops /\ Wider(x, 1).switches = x.switches
  BY SpotIs DEF Wider
<1>4. \A d, e : Higher(Higher(x, d), e) = Spot(x.loops, x.switches, (x.types + d) + e, x.tables)
  BY <1>2 DEF Higher
<1>5. Wider(Wider(x, 1), -1) = Spot(x.loops, x.switches, x.types, (x.tables + 1) + (-1))
  BY <1>3 DEF Wider
<1>6. \A d \in {1, 2} : Higher(x, d) \in Spots
  <2>1. \A d \in {1, 2} : x.types + d \in Nat
    BY <1>1
  <2> QED BY <2>1, <1>1, SpotIs DEF Higher
<1>7. x.types >= 1 => Higher(x, -1) \in Spots
  <2>1. x.types >= 1 => x.types + (-1) \in Nat
    BY <1>1
  <2> QED BY <2>1, <1>1, SpotIs DEF Higher
<1>8. Wider(x, 1) \in Spots
  <2>1. x.tables + 1 \in Nat
    BY <1>1
  <2> QED BY <2>1, <1>1, SpotIs DEF Wider
<1>9. /\ (x.types + 1) + 1 = x.types + 2 /\ (x.types + 2) + (-1) = x.types + 1
      /\ (x.types + 1) + (-1) = x.types /\ (x.tables + 1) + (-1) = x.tables
  BY <1>1
<1>10. /\ Higher(Higher(x, 1), 1) = Higher(x, 2)
       /\ Higher(Higher(x, 2), -1) = Higher(x, 1)
       /\ Higher(Higher(x, 1), -1) = x
  BY <1>1, <1>4, <1>9 DEF Higher
<1>11. Wider(Wider(x, 1), -1) = x
  BY <1>1, <1>5, <1>9
<1> QED BY <1>2, <1>3, <1>6, <1>7, <1>8, <1>10, <1>11

\* When a thing to do is in its place.
LEMMA ReadyIs ==
  ASSUME NEW p, NEW x \in Spots, x.tables >= 1
  PROVE  /\ \A e \in Expressions : Ready(p, ExprItem(e), x) /\ ExprItem(e)[1] \in Found
         /\ \A type : Ready(p, Gives(type), x) /\ Gives(type)[1] \in Found
         /\ \A set, why : /\ Is(set, why)[1] \in Used
                          /\ x.types >= 1 => Ready(p, Is(set, why), x)
         /\ <<"drop">>[1] \in Used
         /\ x.types >= 1 => Ready(p, <<"drop">>, x)
         /\ \A why : Ready(p, <<"refuse", why>>, x) /\ <<"refuse", why>>[1] \in Kept
         /\ \A op : /\ <<"operands", op>>[1] \in Both
                    /\ x.types >= 2 => Ready(p, <<"operands", op>>, x)
         /\ <<"case">>[1] \in Both
         /\ x.types >= 2 => Ready(p, <<"case">>, x)
         /\ \A op : /\ <<"operand", op>>[1] \in Kept
                    /\ x.types >= 1 => Ready(p, <<"operand", op>>, x)
         /\ <<"subject">>[1] \in Kept
         /\ x.types >= 1 => Ready(p, <<"subject">>, x)
         /\ \A s \in Statements : /\ StmtItem(s)[1] \in Kept
                                  /\ x.tables >= 2 => Ready(p, StmtItem(s), x)
         /\ \A kind \in {"loop", "switch"} : /\ Ready(p, <<"enter", kind>>, x)
                                             /\ Ready(p, <<"leave", kind>>, x)
         /\ x.tables >= 2 => Ready(p, <<"open">>, x)
         /\ x.tables >= 3 => Ready(p, <<"close">>, x)
<1>1. x.types \in Nat /\ x.tables \in Nat
  BY SpotIs
<1>2. \A i : /\ i[1] \in Found \cup Even => Least(i) = 0
             /\ i[1] \in Looked \cup Used => Least(i) = 1
             /\ i[1] \in Both => Least(i) = 2
  BY DEF Least, Found, Even, Looked, Used, Both
<1>3. \A i : /\ i[1] \in {"declare", "close"} => Fewest(i) = 3
             /\ i[1] \in {"stmt", "clauses", "param", "open"} => Fewest(i) = 2
             /\ i[1] \notin {"declare", "close", "stmt", "clauses", "param", "open"} => Fewest(i) = 1
  BY DEF Fewest
<1>4. \A e \in Expressions : Ready(p, ExprItem(e), x) /\ ExprItem(e)[1] \in Found
  BY <1>1, <1>2, <1>3 DEF Ready, Formed, ExprItem, Found, Even, Looked, Used, Both
<1>5. \A type : Ready(p, Gives(type), x) /\ Gives(type)[1] \in Found
  BY <1>1, <1>2, <1>3 DEF Ready, Formed, Gives, Found, Even, Looked, Used, Both
<1>6. \A set, why : /\ Is(set, why)[1] \in Used
                    /\ x.types >= 1 => Ready(p, Is(set, why), x)
  BY <1>1, <1>2, <1>3 DEF Ready, Formed, Is, Found, Even, Looked, Used, Both
<1>7. /\ <<"drop">>[1] \in Used
      /\ x.types >= 1 => Ready(p, <<"drop">>, x)
  BY <1>1, <1>2, <1>3 DEF Ready, Formed, Found, Even, Looked, Used, Both
<1>8. \A why : Ready(p, <<"refuse", why>>, x) /\ <<"refuse", why>>[1] \in Kept
  BY <1>1, <1>2, <1>3 DEF Ready, Formed, Found, Even, Looked, Used, Both, Kept
<1>9. \A op : /\ <<"operands", op>>[1] \in Both
              /\ x.types >= 2 => Ready(p, <<"operands", op>>, x)
  BY <1>1, <1>2, <1>3 DEF Ready, Formed, Found, Even, Looked, Used, Both
<1>10. /\ <<"case">>[1] \in Both
       /\ x.types >= 2 => Ready(p, <<"case">>, x)
  BY <1>1, <1>2, <1>3 DEF Ready, Formed, Found, Even, Looked, Used, Both
<1>11. \A op : /\ <<"operand", op>>[1] \in Kept
               /\ x.types >= 1 => Ready(p, <<"operand", op>>, x)
  BY <1>1, <1>2, <1>3 DEF Ready, Formed, Found, Even, Looked, Used, Both, Kept
<1>12. /\ <<"subject">>[1] \in Kept
       /\ x.types >= 1 => Ready(p, <<"subject">>, x)
  BY <1>1, <1>2, <1>3 DEF Ready, Formed, Found, Even, Looked, Used, Both, Kept
<1>13. \A s \in Statements : /\ StmtItem(s)[1] \in Kept
                             /\ x.tables >= 2 => Ready(p, StmtItem(s), x)
  BY <1>1, <1>2, <1>3 DEF Ready, Formed, StmtItem, Found, Even, Looked, Used, Both, Kept
<1>14. \A kind \in {"loop", "switch"} : Ready(p, <<"enter", kind>>, x) /\ Ready(p, <<"leave", kind>>, x)
  BY <1>1, <1>2, <1>3 DEF Ready, Formed, Found, Even, Looked, Used, Both
<1>15. x.tables >= 2 => Ready(p, <<"open">>, x)
  BY <1>1, <1>2, <1>3 DEF Ready, Formed, Found, Even, Looked, Used, Both
<1>16. x.tables >= 3 => Ready(p, <<"close">>, x)
  BY <1>1, <1>2, <1>3 DEF Ready, Formed, Found, Even, Looked, Used, Both
<1> QED BY <1>4, <1>5, <1>6, <1>7, <1>8, <1>9, <1>10, <1>11, <1>12, <1>13, <1>14, <1>15, <1>16

LEMMA LeadsTwo ==
  ASSUME NEW p, NEW x, NEW y, NEW z, NEW i, NEW j, Leads(p, <<i>>, x, y), Leads(p, <<j>>, y, z)
  PROVE  Leads(p, <<i, j>>, x, z)
  BY LeadsJoin, Tuple2

LEMMA LeadsThree ==
  ASSUME NEW p, NEW x, NEW y, NEW z, NEW i, NEW j, NEW k,
         Leads(p, <<i, j>>, x, y), Leads(p, <<k>>, y, z)
  PROVE  Leads(p, <<i, j, k>>, x, z)
  BY LeadsJoin, Tuple2And1

LEMMA LeadsKept ==
  ASSUME NEW p, NEW i, NEW x \in Spots, Ready(p, i, x), i[1] \in Kept
  PROVE  Leads(p, <<i>>, x, x)
<1>1. After(i, x) = x
  BY AfterIs
<1> QED BY <1>1, LeadsOne

LEMMA LeadsFound ==
  ASSUME NEW p, NEW i, NEW x \in Spots, Ready(p, i, x), i[1] \in Found
  PROVE  Leads(p, <<i>>, x, Higher(x, 1))
<1>1. After(i, x) = Higher(x, 1) /\ Higher(x, 1) \in Spots
  BY AfterIs, HigherIs
<1> QED BY <1>1, LeadsOne

\* A type is found and used.
LEMMA LeadsPair ==
  ASSUME NEW p, NEW x \in Spots, x.tables >= 1, NEW e \in Expressions, NEW use,
         use[1] \in Used, Ready(p, use, Higher(x, 1))
  PROVE  Leads(p, <<ExprItem(e), use>>, x, x)
<1>1. Leads(p, <<ExprItem(e)>>, x, Higher(x, 1))
  BY ReadyIs, LeadsFound
<1>2. Leads(p, <<use>>, Higher(x, 1), x)
  <2>1. Higher(x, 1) \in Spots /\ Higher(Higher(x, 1), -1) = x
    BY HigherIs
  <2>2. After(use, Higher(x, 1)) = x
    BY <2>1, AfterIs
  <2> QED BY <2>1, <2>2, LeadsOne
<1> QED BY <1>1, <1>2, LeadsTwo

\* The two ways to use one.
LEMMA LeadsIs ==
  ASSUME NEW p, NEW x \in Spots, x.tables >= 1, NEW e \in Expressions
  PROVE  /\ \A set, why : Leads(p, <<ExprItem(e), Is(set, why)>>, x, x)
         /\ Leads(p, <<ExprItem(e), <<"drop">>>>, x, x)
<1>1. Higher(x, 1) \in Spots /\ Higher(x, 1).tables >= 1 /\ Higher(x, 1).types >= 1
  <2>1. Higher(x, 1) \in Spots /\ Higher(x, 1).tables = x.tables /\ Higher(x, 1).types = x.types + 1
    BY HigherIs
  <2>2. x.types \in Nat
    BY SpotIs
  <2> QED BY <2>1, <2>2
<1>2. \A set, why : Is(set, why)[1] \in Used /\ Ready(p, Is(set, why), Higher(x, 1))
  BY <1>1, ReadyIs
<1>3. <<"drop">>[1] \in Used /\ Ready(p, <<"drop">>, Higher(x, 1))
  BY <1>1, ReadyIs
<1>4. \A set, why : Leads(p, <<ExprItem(e), Is(set, why)>>, x, x)
  BY <1>2, LeadsPair
<1>5. Leads(p, <<ExprItem(e), <<"drop">>>>, x, x)
  BY <1>3, LeadsPair
<1> QED BY <1>4, <1>5

LEMMA LeadsFramed ==
  ASSUME NEW p, NEW x \in Spots, x.tables >= 1, NEW kind \in {"loop", "switch"}, NEW items,
         Leads(p, items, Inside(x, kind), Inside(x, kind))
  PROVE  Leads(p, Framed(kind, items), x, x)
<1>1. /\ Inside(x, kind) \in Spots /\ Inside(x, kind).tables >= 1
      /\ After(<<"enter", kind>>, x) = Inside(x, kind)
      /\ After(<<"leave", kind>>, Inside(x, kind)) = x
  BY AfterFrame
<1>2. Leads(p, <<<<"enter", kind>>>>, x, Inside(x, kind))
  BY <1>1, ReadyIs, LeadsOne
<1>3. Leads(p, <<<<"leave", kind>>>>, Inside(x, kind), x)
  BY <1>1, ReadyIs, LeadsOne
<1>4. Leads(p, <<<<"enter", kind>>>> \o items, x, Inside(x, kind))
  BY <1>2, LeadsJoin
<1> QED BY <1>3, <1>4, LeadsJoin DEF Framed

LEMMA LeadsEach ==
  ASSUME NEW p, NEW x \in Spots, x.tables >= 2, NEW ss, ListOf(Statements, ss)
  PROVE  Leads(p, Each(ss), x, x)
<1> DEFINE n == Len(ss)
           w == Each(ss)
<1>1. n \in Nat /\ DOMAIN ss = 1..n /\ \A k \in 1..n : ss[k] \in Statements
  BY DEF ListOf
<1>2. w \in [1..n -> {w[k] : k \in 1..n}] /\ \A k \in 1..n : w[k] = StmtItem(ss[k])
  BY <1>1 DEF Each
<1> HIDE DEF n, w
<1>3. x.tables >= 1
  BY SpotIs
<1>4. \A k \in 1..n : Ready(p, w[k], x) /\ After(w[k], x) = x
  <2> TAKE k \in 1..n
  <2>1. Ready(p, w[k], x) /\ w[k][1] \in Kept
    BY <1>1, <1>2, <1>3, ReadyIs
  <2> QED BY <2>1, AfterIs
<1>5. Leads(p, w, x, x)
  BY <1>1, <1>2, <1>4, LeadsAll
<1> QED BY <1>5 DEF w

LEMMA LeadsMaybe ==
  ASSUME NEW p, NEW x \in Spots, x.tables >= 1, NEW e \in Expressions \cup {Absent}
  PROVE  Leads(p, MaybeExpr(e), x, x)
<1>1. CASE e = Absent
  BY <1>1, LeadsNone DEF MaybeExpr
<1>2. CASE e # Absent
  BY <1>2, LeadsIs DEF MaybeExpr
<1> QED BY <1>1, <1>2

-----------------------------------------------------------------------------
(***************************************************************************)
(* What one thing to do gives way to does all that it was to do.           *)
(***************************************************************************)
Now(x, j) == Spot(x.loops, x.switches, Len(j.types), x.tables)

Onward(p, i, x, j) ==
  j.verdict = <<"checking">> =>
    AnySeq(j.types) /\ Now(x, j) \in Spots /\ Leads(p, j.work, Now(x, j), After(i, x))

LEMMA OnwardNot ==
  ASSUME NEW p, NEW i, NEW x
  PROVE  Onward(p, i, x, Crash) /\ \A why : Onward(p, i, x, Refuse(why))
<1>1. \A why : <<"error", why>> # <<"checking">>
  OBVIOUS
<1>2. <<"crash">> # <<"checking">>
  OBVIOUS
<1> QED BY <1>1, <1>2 DEF Onward, Crash, Refuse

LEMMA OnwardThen ==
  ASSUME NEW p, NEW i, NEW x \in Spots, AnySeq(types), x.types = Len(types),
         NEW w, Leads(p, w, x, After(i, x))
  PROVE  Onward(p, i, x, Then(w, types))
<1>1. Then(w, types).types = types /\ Then(w, types).work = w
  BY DEF Then
<1>2. Now(x, Then(w, types)) = x
  BY <1>1, SpotIs DEF Now
<1> QED BY <1>1, <1>2 DEF Onward

LEMMA OnwardFinds ==
  ASSUME NEW p, NEW i, NEW x \in Spots, AnySeq(types), x.types = Len(types),
         i[1] \in Found, NEW type
  PROVE  Onward(p, i, x, Finds(type))
<1> DEFINE ts == <<type>> \o types
<1>1. Finds(type).types = ts /\ Finds(type).work = <<>>
  BY DEF Finds, Then
<1>2. AnySeq(ts) /\ Len(ts) = x.types + 1
  BY ConsIs
<1>3. Now(x, Finds(type)) = Higher(x, 1)
  BY <1>1, <1>2 DEF Now, Higher
<1>4. After(i, x) = Higher(x, 1) /\ Higher(x, 1) \in Spots
  BY AfterIs, HigherIs
<1>5. Leads(p, <<>>, Higher(x, 1), Higher(x, 1))
  BY <1>4, LeadsNone
<1> QED BY <1>1, <1>2, <1>3, <1>4, <1>5 DEF Onward

\* The last type found, or the last two with one in their place.
LEMMA OnwardUsed ==
  ASSUME NEW p, NEW i, NEW x \in Spots, x.types >= 1,
         i[1] \in Used \cup Both, NEW ts, AnySeq(ts), Len(ts) = x.types - 1
  PROVE  Onward(p, i, x, Then(<<>>, ts))
<1>1. Then(<<>>, ts).types = ts /\ Then(<<>>, ts).work = <<>>
  BY DEF Then
<1>2. x.types + (-1) = x.types - 1
  BY SpotIs
<1>3. Now(x, Then(<<>>, ts)) = Higher(x, -1)
  BY <1>1, <1>2 DEF Now, Higher
<1>4. After(i, x) = Higher(x, -1) /\ Higher(x, -1) \in Spots
  BY AfterIs, HigherIs
<1>5. Leads(p, <<>>, Higher(x, -1), Higher(x, -1))
  BY <1>4, LeadsNone
<1> QED BY <1>1, <1>3, <1>4, <1>5 DEF Onward

-----------------------------------------------------------------------------
\* A type is asked for and another one given.
LEMMA LeadsGiven ==
  ASSUME NEW p, NEW x \in Spots, x.tables >= 1, NEW e \in Expressions, NEW set, NEW why, NEW type
  PROVE  Leads(p, <<ExprItem(e), Is(set, why), Gives(type)>>, x, Higher(x, 1))
<1>1. Leads(p, <<ExprItem(e), Is(set, why)>>, x, x)
  BY LeadsIs
<1>2. Leads(p, <<Gives(type)>>, x, Higher(x, 1))
  BY ReadyIs, LeadsFound
<1> QED BY <1>1, <1>2, LeadsThree

LEMMA AssignIsRight ==
  ASSUME NEW p, NEW i, NEW x \in Spots, AnySeq(types), x.types = Len(types), x.tables >= 1,
         i[1] \in Found, NEW target \in Expressions, NEW value \in Expressions
  PROVE  Onward(p, i, x, CheckAssign(target, value))
<1> DEFINE name   == IF target[1] = "var" THEN target[2] ELSE target[2][2]
           symbol == Lookup(name)
           stored == <<ExprItem(value), Is({symbol.type}, "Assignment type mismatch"), Gives(symbol.type)>>
           at     == IF target[1] = "idx" THEN Index(target[3]) ELSE <<>>
<1>1. Leads(p, at, x, x)
  <2>1. CASE target[1] = "idx"
    <3>1. target[3] \in Expressions
      BY <2>1, TreesAssumption DEF AreTrees, IsExpression
    <3> QED BY <2>1, <3>1, LeadsIs DEF Index
  <2>2. CASE target[1] # "idx"
    BY <2>2, LeadsNone
  <2> QED BY <2>1, <2>2
<1>2. Leads(p, stored, x, Higher(x, 1))
  BY LeadsGiven
<1>3. After(i, x) = Higher(x, 1)
  BY AfterIs
<1>4. Leads(p, at \o stored, x, After(i, x))
  BY <1>1, <1>2, <1>3, LeadsJoin
<1>5. Onward(p, i, x, Then(at \o stored, types))
  BY <1>4, OnwardThen
<1>6. CheckAssign(target, value) \in {Crash, Refuse("not declared"), Refuse("Array not declared"),
                                     Then(at \o stored, types)}
  <2>1. CheckAssign(target, value) =
          CASE target[1] = "idx" /\ target[2][1] # "var" -> Crash
            [] symbol.is = "nothing" -> Refuse("not declared")
            [] target[1] = "idx" /\ symbol.is # "array" -> Refuse("Array not declared")
            [] OTHER -> Then(at \o stored, types)
    BY Zenon DEF CheckAssign
  <2> HIDE DEF symbol, at, stored
  <2> QED BY <2>1
<1> HIDE DEF symbol, at, stored
<1> QED BY <1>5, <1>6, OnwardNot

\* The loops over arguments.
LEMMA LeadsLoops ==
  ASSUME NEW p, NEW x \in Spots, x.tables >= 1, NEW args, ListOf(Expressions, args),
         NEW k \in Nat \ {0}
  PROVE  /\ Leads(p, <<<<"printed", args, k>>>>, x, x)
         /\ \A expects : Leads(p, <<<<"arguments", args, expects, k>>>>, x, x)
<1>1. x.types \in Nat
  BY SpotIs
<1>2. Ready(p, <<"printed", args, k>>, x)
  BY <1>1 DEF Ready, Formed, Found, Even, Looked, Used, Both, Least, Fewest
<1>3. \A expects : Ready(p, <<"arguments", args, expects, k>>, x)
  BY <1>1 DEF Ready, Formed, Found, Even, Looked, Used, Both, Least, Fewest
<1>4. <<"printed", args, k>>[1] \in Kept /\ \A expects : <<"arguments", args, expects, k>>[1] \in Kept
  BY DEF Kept
<1> QED BY <1>2, <1>3, <1>4, LeadsKept

LEMMA CallIsRight ==
  ASSUME NEW p, NEW i, NEW x \in Spots, AnySeq(types), x.types = Len(types), x.tables >= 1,
         i[1] \in Found, NEW callee, NEW args, ListOf(Expressions, args)
  PROVE  Onward(p, i, x, CheckCall(callee, args))
<1> DEFINE f    == callee[2]
           void == Gives("void")
           its  == Gives(scopes[1][f].type)
           each == <<"printed", args, 1>>
           all  == <<"arguments", args, scopes[1][f].params, 1>>
           end  == <<ExprItem(args[1]), Is(Integral, "exit code"), void>>
<1>1. After(i, x) = Higher(x, 1)
  BY AfterIs
<1>2. Leads(p, <<void>>, x, Higher(x, 1)) /\ Leads(p, <<its>>, x, Higher(x, 1))
  BY ReadyIs, LeadsFound
<1>3. Leads(p, <<each>>, x, x) /\ Leads(p, <<all>>, x, x)
  BY LeadsLoops
<1>4. Len(args) = 1 => Leads(p, end, x, Higher(x, 1))
  <2>1. Len(args) = 1 => args[1] \in Expressions
    BY DEF ListOf
  <2> QED BY <2>1, LeadsGiven
<1>5. CheckCall(callee, args) =
        CASE callee[1] # "var" -> Crash
          [] callee[1] = "var" /\ f \notin DOMAIN scopes[1] -> Refuse("Function not declared")
          [] callee[1] = "var" /\ f = "print" -> Then(<<each, void>>, types)
          [] callee[1] = "var" /\ f = "exit" ->
               IF Len(args) # 1 THEN Refuse("exit requires exactly one argument")
               ELSE Then(end, types)
          [] OTHER -> IF Len(args) # Len(scopes[1][f].params) THEN Refuse("Wrong number of arguments")
                      ELSE Then(<<all, its>>, types)
  BY Zenon DEF CheckCall
<1> HIDE DEF void, its, each, all, end, f
<1>6. Leads(p, <<each, void>>, x, Higher(x, 1)) /\ Leads(p, <<all, its>>, x, Higher(x, 1))
  BY <1>2, <1>3, LeadsTwo
<1>7. /\ Onward(p, i, x, Then(<<each, void>>, types)) /\ Onward(p, i, x, Then(<<all, its>>, types))
      /\ Len(args) = 1 => Onward(p, i, x, Then(end, types))
  BY <1>1, <1>4, <1>6, OnwardThen
<1>8. \/ CheckCall(callee, args) \in {Crash, Refuse("Function not declared"),
                                     Refuse("exit requires exactly one argument"),
                                     Refuse("Wrong number of arguments"),
                                     Then(<<each, void>>, types), Then(<<all, its>>, types)}
      \/ Len(args) = 1 /\ CheckCall(callee, args) = Then(end, types)
  BY <1>5
<1> QED BY <1>7, <1>8, OnwardNot

LEMMA ExpressionIsRight ==
  ASSUME NEW p, NEW i, NEW x \in Spots, AnySeq(types), x.types = Len(types), x.tables >= 1,
         i[1] \in Found, NEW e \in Expressions
  PROVE  Onward(p, i, x, CheckExpression(e))
<1>1. After(i, x) = Higher(x, 1)
  BY AfterIs
<1>2. IsExpression(e, Expressions)
  BY TreesAssumption DEF AreTrees
<1>3. \A a \in Expressions : Leads(p, <<ExprItem(a)>>, x, Higher(x, 1))
  BY ReadyIs, LeadsFound
<1>4. /\ Higher(x, 1) \in Spots /\ Higher(x, 1).tables >= 1 /\ Higher(x, 1).types >= 1
      /\ Higher(x, 2) \in Spots /\ Higher(x, 2).tables >= 1 /\ Higher(x, 2).types >= 2
  <2>1. /\ Higher(x, 1) \in Spots /\ Higher(x, 1).tables = x.tables /\ Higher(x, 1).types = x.types + 1
        /\ Higher(x, 2) \in Spots /\ Higher(x, 2).tables = x.tables /\ Higher(x, 2).types = x.types + 2
    BY HigherIs
  <2>2. x.types \in Nat
    BY SpotIs
  <2> QED BY <2>1, <2>2
<1>5. CASE e[1] \in Literals
  <2>1. CheckExpression(e) = Finds(e[1])
    BY <1>5 DEF CheckExpression, Literals
  <2> QED BY <2>1, OnwardFinds
<1>6. CASE e[1] = "var"
  <2>1. \/ \E why : CheckExpression(e) = Refuse(why)
        \/ \E type : CheckExpression(e) = Finds(type)
    BY <1>6 DEF CheckExpression, Literals
  <2> QED BY <2>1, OnwardFinds, OnwardNot
<1>7. CASE e[1] = "="
  <2>1. CheckExpression(e) = CheckAssign(e[2], e[3])
    BY <1>7 DEF CheckExpression, Literals
  <2>2. e[2] \in Expressions /\ e[3] \in Expressions
    BY <1>2, <1>7 DEF IsExpression
  <2> QED BY <2>1, <2>2, AssignIsRight
<1>8. CASE e[1] = "bin"
  <2> DEFINE l == ExprItem(e[3])
             r == ExprItem(e[4])
             o == <<"operands", e[2]>>
  <2>1. CheckExpression(e) = Then(<<l, r, o>>, types)
    BY <1>8 DEF CheckExpression, Literals
  <2>2. e[3] \in Expressions /\ e[4] \in Expressions
    BY <1>2, <1>8 DEF IsExpression
  <2>3. Leads(p, <<ExprItem(e[4])>>, Higher(x, 1), Higher(x, 2))
    <3>1. Leads(p, <<ExprItem(e[4])>>, Higher(x, 1), Higher(Higher(x, 1), 1))
      BY <1>4, <2>2, ReadyIs, LeadsFound
    <3> QED BY <3>1, HigherIs
  <2>4. Leads(p, <<<<"operands", e[2]>>>>, Higher(x, 2), Higher(x, 1))
    <3>1. Ready(p, <<"operands", e[2]>>, Higher(x, 2)) /\ <<"operands", e[2]>>[1] \in Both
      BY <1>4, ReadyIs
    <3>2. After(<<"operands", e[2]>>, Higher(x, 2)) = Higher(Higher(x, 2), -1)
      BY <1>4, <3>1, AfterIs
    <3>3. After(<<"operands", e[2]>>, Higher(x, 2)) = Higher(x, 1)
      BY <3>2, HigherIs
    <3> QED BY <1>4, <3>1, <3>3, LeadsOne
  <2>5. Leads(p, <<l>>, x, Higher(x, 1))
    BY <1>3, <2>2
  <2> HIDE DEF l, r, o
  <2>6. Leads(p, <<l, r>>, x, Higher(x, 2))
    BY <2>5, <2>3, LeadsTwo DEF r
  <2>7. Leads(p, <<l, r, o>>, x, Higher(x, 1))
    BY <2>4, <2>6, LeadsThree DEF o
  <2> QED BY <1>1, <2>1, <2>7, OnwardThen
<1>9. CASE e[1] = "un"
  <2> DEFINE a == ExprItem(e[3])
             o == <<"operand", e[2]>>
  <2>1. CheckExpression(e) = Then(<<a, o>>, types)
    BY <1>9 DEF CheckExpression, Literals
  <2>2. e[3] \in Expressions
    BY <1>2, <1>9 DEF IsExpression
  <2>3. Leads(p, <<o>>, Higher(x, 1), Higher(x, 1))
    BY <1>4, ReadyIs, LeadsKept
  <2>4. Leads(p, <<a>>, x, Higher(x, 1))
    BY <1>3, <2>2
  <2> HIDE DEF a, o
  <2>5. Leads(p, <<a, o>>, x, Higher(x, 1))
    BY <2>3, <2>4, LeadsTwo
  <2> QED BY <1>1, <2>1, <2>5, OnwardThen
<1>10. CASE e[1] = "call"
  <2>1. CheckExpression(e) = CheckCall(e[2], e[3])
    BY <1>10 DEF CheckExpression, Literals
  <2>2. ListOf(Expressions, e[3])
    BY <1>2, <1>10 DEF IsExpression
  <2> QED BY <2>1, <2>2, CallIsRight
<1>11. CASE e[1] = "idx"
  <2> DEFINE w == Index(e[3]) \o <<Gives(Lookup(e[2][2]).type)>>
  <2>1. \/ CheckExpression(e) = Crash \/ \E why : CheckExpression(e) = Refuse(why)
        \/ CheckExpression(e) = Then(w, types)
    BY <1>11 DEF CheckExpression, Literals
  <2>2. e[3] \in Expressions
    BY <1>2, <1>11 DEF IsExpression
  <2>3. Leads(p, Index(e[3]), x, x)
    BY <2>2, LeadsIs DEF Index
  <2>4. \A type : Leads(p, <<Gives(type)>>, x, Higher(x, 1))
    BY ReadyIs, LeadsFound
  <2>5. Leads(p, w, x, Higher(x, 1))
    BY <2>3, <2>4, LeadsJoin
  <2> HIDE DEF w
  <2> QED BY <1>1, <2>1, <2>5, OnwardThen, OnwardNot
<1> QED BY <1>2, <1>5, <1>6, <1>7, <1>8, <1>9, <1>10, <1>11 DEF IsExpression

LEMMA LoopsAreRight ==
  ASSUME NEW p, NEW i, NEW x \in Spots, AnySeq(types), x.types = Len(types), x.tables >= 1,
         i[1] \in Kept, NEW args, ListOf(Expressions, args), NEW k \in Nat \ {0}
  PROVE  /\ Onward(p, i, x, Printed(args, k))
         /\ \A expects : Onward(p, i, x, Argument(args, expects, k))
<1>1. After(i, x) = x
  BY AfterIs
<1>2. k <= Len(args) => args[k] \in Expressions
  BY DEF ListOf
<1>3. k + 1 \in Nat \ {0}
  OBVIOUS
<1>4. Onward(p, i, x, Then(<<>>, types))
  BY <1>1, LeadsNone, OnwardThen
<1>5. CASE k > Len(args)
  BY <1>4, <1>5 DEF Printed, Argument
<1>6. CASE ~(k > Len(args))
  <2>1. args[k] \in Expressions
    BY <1>2, <1>6 DEF ListOf
  <2> DEFINE e    == ExprItem(args[k])
             drop == <<"drop">>
             next == <<"printed", args, k + 1>>
             use(expects)  == Is({expects[k]}, "Argument type mismatch")
             more(expects) == <<"arguments", args, expects, k + 1>>
  <2>2. Leads(p, <<e, drop>>, x, x) /\ \A expects : Leads(p, <<e, use(expects)>>, x, x)
    BY <2>1, LeadsIs
  <2>3. Leads(p, <<next>>, x, x) /\ \A expects : Leads(p, <<more(expects)>>, x, x)
    BY <1>3, LeadsLoops
  <2>4. /\ Printed(args, k) = Then(<<e, drop, next>>, types)
        /\ \A expects : Argument(args, expects, k) = Then(<<e, use(expects), more(expects)>>, types)
    BY <1>6 DEF Printed, Argument
  <2> HIDE DEF e, drop, next, use, more
  <2>5. /\ Leads(p, <<e, drop, next>>, x, x)
        /\ \A expects : Leads(p, <<e, use(expects), more(expects)>>, x, x)
    BY <2>2, <2>3, LeadsThree
  <2> QED BY <1>1, <2>4, <2>5, OnwardThen
<1> QED BY <1>5, <1>6

\* The loop over the clauses of a switch.
LEMMA LeadsClauses ==
  ASSUME NEW p, NEW x \in Spots, x.types >= 1, x.tables >= 2, NEW cases, AreClauses(cases),
         NEW k \in Nat \ {0}
  PROVE  Leads(p, <<<<"clauses", cases, k>>>>, x, x)
<1>1. Ready(p, <<"clauses", cases, k>>, x)
  BY DEF Ready, Formed, Found, Even, Looked, Used, Both, Least, Fewest
<1>2. <<"clauses", cases, k>>[1] \in Kept
  BY DEF Kept
<1> QED BY <1>1, <1>2, LeadsKept

LEMMA ClauseIsRight ==
  ASSUME NEW p, NEW i, NEW x \in Spots, AnySeq(types), x.types = Len(types), x.types >= 1,
         x.tables >= 2, i[1] \in Kept, NEW cases, AreClauses(cases), NEW k \in Nat \ {0}
  PROVE  Onward(p, i, x, Clause(cases, k))
<1>1. After(i, x) = x
  BY AfterIs
<1>2. x.tables >= 1 /\ k + 1 \in Nat \ {0} /\ x.types \in Nat /\ x.tables \in Nat
  <2>1. x.types \in Nat /\ x.tables \in Nat
    BY SpotIs
  <2> QED BY <2>1
<1>3. CASE k > Len(cases)
  <2>1. Clause(cases, k) = Then(<<>>, types)
    BY <1>3 DEF Clause
  <2> QED BY <1>1, <2>1, LeadsNone, OnwardThen
<1>4. CASE ~(k > Len(cases))
  <2>1. cases[k][1] \in Expressions \cup {Absent} /\ ListOf(Statements, cases[k][2])
    BY <1>4 DEF AreClauses, IsList, ListOf
  <2> DEFINE e     == ExprItem(cases[k][1])
             again == \E n \in 1..(k - 1) : cases[n][1] = Absent
             twice == <<"refuse", "duplicate default in switch">>
             case  == <<"case">>
             head  == CASE cases[k][1] # Absent -> <<e, case>>
                        [] cases[k][1] = Absent /\ again -> <<twice>>
                        [] OTHER -> <<>>
             next  == <<"clauses", cases, k + 1>>
  <2>2. Leads(p, <<twice>>, x, x)
    BY <1>2, ReadyIs, LeadsKept
  <2>3. cases[k][1] # Absent => Leads(p, <<e, case>>, x, x)
    <3>1. SUFFICES ASSUME cases[k][1] \in Expressions PROVE Leads(p, <<e, case>>, x, x)
      BY <2>1
    <3>2. Leads(p, <<e>>, x, Higher(x, 1))
      BY <1>2, <3>1, ReadyIs, LeadsFound
    <3>3. /\ Higher(x, 1) \in Spots /\ Higher(x, 1).types = x.types + 1 /\ Higher(x, 1).tables = x.tables
          /\ Higher(Higher(x, 1), -1) = x
      BY HigherIs
    <3>4. Higher(x, 1).types >= 2 /\ Higher(x, 1).tables >= 1
      BY <1>2, <3>3
    <3>5. Ready(p, case, Higher(x, 1)) /\ case[1] \in Both
      BY <3>3, <3>4, ReadyIs
    <3>6. After(case, Higher(x, 1)) = x
      BY <3>3, <3>5, AfterIs
    <3>7. Leads(p, <<case>>, Higher(x, 1), x)
      BY <3>3, <3>5, <3>6, LeadsOne
    <3> HIDE DEF e, case
    <3> QED BY <3>2, <3>7, LeadsTwo
  <2>4. Leads(p, <<next>>, x, x)
    BY <1>2, LeadsClauses
  <2>5. Leads(p, Each(cases[k][2]), x, x)
    BY <2>1, LeadsEach
  <2>6. Clause(cases, k) = Then(head \o Each(cases[k][2]) \o <<next>>, types)
    BY <1>4, Zenon DEF Clause
  <2> HIDE DEF e, twice, case, next, again
  <2>7. Leads(p, head, x, x)
    <3>1. cases[k][1] # Absent => head = <<e, case>>
      OBVIOUS
    <3>2. cases[k][1] = Absent => head \in {<<twice>>, <<>>}
      OBVIOUS
    <3> HIDE DEF head
    <3> QED BY <2>2, <2>3, <3>1, <3>2, LeadsNone
  <2> HIDE DEF head
  <2>8. Leads(p, head \o Each(cases[k][2]), x, x)
    BY <2>5, <2>7, LeadsJoin
  <2>9. Leads(p, head \o Each(cases[k][2]) \o <<next>>, x, x)
    BY <2>4, <2>8, LeadsJoin
  <2> QED BY <1>1, <2>6, <2>9, OnwardThen
<1> QED BY <1>3, <1>4

\* Declarations, in a block's own table.
LEMMA LeadsDeclarations ==
  ASSUME NEW p, NEW x \in Spots, x.tables >= 3, NEW ds, IsList(ds),
         \A k \in DOMAIN ds : ds[k][3] \in Expressions \cup {Absent}
  PROVE  Leads(p, [k \in DOMAIN ds |-> <<"declare", ds[k]>>], x, x)
<1> DEFINE n == Len(ds)
           w == [k \in DOMAIN ds |-> <<"declare", ds[k]>>]
<1>1. n \in Nat /\ DOMAIN ds = 1..n /\ x.types \in Nat
  BY SpotIs DEF IsList, ListOf
<1>2. w \in [1..n -> {w[k] : k \in 1..n}] /\ \A k \in 1..n : w[k] = <<"declare", ds[k]>>
  BY <1>1
<1>3. \A d : d[3] \in Expressions \cup {Absent} =>
        /\ Ready(p, <<"declare", d>>, x) /\ <<"declare", d>>[1] \in Kept
  BY <1>1 DEF Ready, Formed, Found, Even, Looked, Used, Both, Least, Fewest, Kept
<1> HIDE DEF n, w
<1>4. \A k \in 1..n : Ready(p, w[k], x) /\ After(w[k], x) = x
  <2> TAKE k \in 1..n
  <2>1. Ready(p, w[k], x) /\ w[k][1] \in Kept
    BY <1>1, <1>2, <1>3
  <2> QED BY <2>1, AfterIs
<1>5. Leads(p, w, x, x)
  BY <1>1, <1>2, <1>4, LeadsAll
<1> QED BY <1>5 DEF w

LEMMA BlockIsRight ==
  ASSUME NEW p, NEW x \in Spots, x.tables >= 2, NEW ds, IsList(ds), NEW ss, ListOf(Statements, ss),
         \A k \in DOMAIN ds : ds[k][3] \in Expressions \cup {Absent}
  PROVE  Leads(p, <<<<"open">>>> \o [k \in DOMAIN ds |-> <<"declare", ds[k]>>]
                    \o Each(ss) \o <<<<"close">>>>, x, x)
<1> DEFINE y     == Wider(x, 1)
           open  == <<"open">>
           close == <<"close">>
           names == [k \in DOMAIN ds |-> <<"declare", ds[k]>>]
<1>1. /\ y \in Spots /\ y.tables = x.tables + 1 /\ Wider(y, -1) = x
      /\ x.tables \in Nat /\ x.tables >= 1 /\ y.tables >= 3 /\ y.tables >= 1 /\ y.tables >= 2
  <2>1. y \in Spots /\ y.tables = x.tables + 1 /\ Wider(y, -1) = x
    BY HigherIs
  <2>2. x.tables \in Nat
    BY SpotIs
  <2> HIDE DEF y
  <2> QED BY <2>1, <2>2
<1>2. Leads(p, <<open>>, x, y)
  <2>1. Ready(p, open, x) /\ After(open, x) = y
    BY <1>1, ReadyIs, AfterIs
  <2> QED BY <1>1, <2>1, LeadsOne
<1>3. Leads(p, <<close>>, y, x)
  <2>1. Ready(p, close, y)
    BY <1>1, ReadyIs
  <2>2. After(close, y) = Wider(y, -1)
    BY <1>1, AfterIs
  <2>3. After(close, y) = x
    BY <1>1, <2>2
  <2> QED BY <1>1, <2>1, <2>3, LeadsOne
<1>4. Leads(p, names, y, y)
  BY <1>1, LeadsDeclarations
<1>5. Leads(p, Each(ss), y, y)
  BY <1>1, LeadsEach
<1> HIDE DEF y, open, close, names
<1>6. Leads(p, <<open>> \o names, x, y)
  BY <1>2, <1>4, LeadsJoin
<1>7. Leads(p, <<open>> \o names \o Each(ss), x, y)
  BY <1>5, <1>6, LeadsJoin
<1>8. Leads(p, <<open>> \o names \o Each(ss) \o <<close>>, x, x)
  BY <1>3, <1>7, LeadsJoin
<1> QED BY <1>8 DEF open, close, names

LEMMA SwitchIsRight ==
  ASSUME NEW p, NEW x \in Spots, x.tables >= 2, NEW e \in Expressions, NEW cases, AreClauses(cases)
  PROVE  Leads(p, <<ExprItem(e), <<"subject">>>> \o Framed("switch", <<<<"clauses", cases, 1>>>>)
                    \o <<<<"drop">>>>, x, x)
<1> DEFINE y       == Higher(x, 1)
           z       == Inside(y, "switch")
           a       == ExprItem(e)
           subject == <<"subject">>
           drop    == <<"drop">>
           loop    == <<"clauses", cases, 1>>
<1>1. /\ y \in Spots /\ y.tables >= 1 /\ y.tables >= 2 /\ y.types >= 1
      /\ Higher(y, -1) = x /\ x.tables >= 1
  <2>1. y \in Spots /\ y.tables = x.tables /\ y.types = x.types + 1 /\ Higher(y, -1) = x
    BY HigherIs
  <2>2. x.tables \in Nat /\ x.types \in Nat
    BY SpotIs
  <2> HIDE DEF y
  <2> QED BY <2>1, <2>2
<1>2. z \in Spots /\ z.types >= 1 /\ z.tables >= 2
  BY <1>1, AfterFrame
<1>3. Leads(p, <<a>>, x, y)
  BY <1>1, ReadyIs, LeadsFound
<1>4. Leads(p, <<subject>>, y, y)
  BY <1>1, ReadyIs, LeadsKept
<1>5. Leads(p, <<drop>>, y, x)
  <2>1. Ready(p, drop, y) /\ drop[1] \in Used
    BY <1>1, ReadyIs
  <2>2. After(drop, y) = Higher(y, -1)
    BY <1>1, <2>1, AfterIs
  <2>3. After(drop, y) = x
    BY <1>1, <2>2
  <2> QED BY <1>1, <2>1, <2>3, LeadsOne
<1>6. Leads(p, Framed("switch", <<loop>>), y, y)
  <2>1. Leads(p, <<loop>>, z, z)
    BY <1>2, LeadsClauses
  <2> QED BY <1>1, <2>1, LeadsFramed
<1> HIDE DEF y, z, a, subject, drop, loop
<1>7. Leads(p, <<a, subject>>, x, y)
  BY <1>3, <1>4, LeadsTwo
<1>8. Leads(p, <<a, subject>> \o Framed("switch", <<loop>>), x, y)
  BY <1>6, <1>7, LeadsJoin
<1>9. Leads(p, <<a, subject>> \o Framed("switch", <<loop>>) \o <<drop>>, x, x)
  BY <1>5, <1>8, LeadsJoin
<1> QED BY <1>9 DEF a, subject, drop, loop

\* The body of a loop.
LEMMA LeadsBody ==
  ASSUME NEW p, NEW x \in Spots, x.tables >= 2, NEW s \in Statements
  PROVE  Leads(p, Framed("loop", <<StmtItem(s)>>), x, x)
<1>1. Inside(x, "loop") \in Spots /\ Inside(x, "loop").tables >= 2 /\ x.tables >= 1
  <2>1. Inside(x, "loop") \in Spots /\ Inside(x, "loop").tables = x.tables
    BY AfterFrame
  <2>2. x.tables \in Nat
    BY SpotIs
  <2> QED BY <2>1, <2>2
<1>2. Leads(p, <<StmtItem(s)>>, Inside(x, "loop"), Inside(x, "loop"))
  <2>1. Inside(x, "loop").tables \in Nat
    BY <1>1, SpotIs
  <2>2. Inside(x, "loop").tables >= 1
    BY <1>1, <2>1
  <2> QED BY <1>1, <2>2, ReadyIs, LeadsKept
<1> QED BY <1>1, <1>2, LeadsFramed

LEMMA StatementIsRight ==
  ASSUME NEW p, NEW i, NEW x \in Spots, AnySeq(types), x.types = Len(types), x.tables >= 2,
         i[1] \in Kept, NEW s \in Statements
  PROVE  Onward(p, i, x, CheckStatement(s))
<1>1. After(i, x) = x
  BY AfterIs
<1>2. IsStatement(s, Statements, Expressions)
  BY TreesAssumption DEF AreTrees
<1>3. x.tables >= 1
  <2>1. x.tables \in Nat
    BY SpotIs
  <2> QED BY <2>1
<1>4. Onward(p, i, x, Then(<<>>, types))
  BY <1>1, LeadsNone, OnwardThen
<1>5. \A a \in Statements : Leads(p, <<StmtItem(a)>>, x, x)
  BY <1>3, ReadyIs, LeadsKept
<1>6. CASE s[1] = "if"
  <2> DEFINE e    == ExprItem(s[2])
             bool == Bool("If condition must be bool")
             body == StmtItem(s[3])
             rest == IF s[4] = Absent THEN <<>> ELSE <<StmtItem(s[4])>>
  <2>1. s[2] \in Expressions /\ s[3] \in Statements /\ (s[4] = Absent \/ s[4] \in Statements)
    BY <1>2, <1>6 DEF IsStatement
  <2>2. CheckStatement(s) = Then(<<e, bool, body>> \o rest, types)
    BY <1>6 DEF CheckStatement
  <2>3. Leads(p, <<e, bool>>, x, x)
    BY <1>3, <2>1, LeadsIs DEF Bool
  <2>4. Leads(p, <<body>>, x, x)
    BY <1>5, <2>1
  <2>5. Leads(p, rest, x, x)
    BY <1>5, <2>1, LeadsNone
  <2> HIDE DEF e, bool, body, rest
  <2>6. Leads(p, <<e, bool, body>>, x, x)
    BY <2>3, <2>4, LeadsThree
  <2>7. Leads(p, <<e, bool, body>> \o rest, x, x)
    BY <2>5, <2>6, LeadsJoin
  <2> QED BY <1>1, <2>2, <2>7, OnwardThen
<1>7. CASE s[1] = "while"
  <2> DEFINE e    == ExprItem(s[2])
             bool == Bool("While condition must be bool")
             body == Framed("loop", <<StmtItem(s[3])>>)
  <2>1. s[2] \in Expressions /\ s[3] \in Statements
    BY <1>2, <1>7 DEF IsStatement
  <2>2. CheckStatement(s) = Then(<<e, bool>> \o body, types)
    BY <1>7 DEF CheckStatement
  <2>3. Leads(p, <<e, bool>>, x, x)
    BY <1>3, <2>1, LeadsIs DEF Bool
  <2>4. Leads(p, body, x, x)
    BY <2>1, LeadsBody
  <2> HIDE DEF e, bool, body
  <2>5. Leads(p, <<e, bool>> \o body, x, x)
    BY <2>3, <2>4, LeadsJoin
  <2> QED BY <1>1, <2>2, <2>5, OnwardThen
<1>8. CASE s[1] = "for"
  <2> DEFINE init == MaybeExpr(s[2])
             test == IF s[3] = Absent THEN <<>> ELSE <<ExprItem(s[3]), Bool("For condition must be bool")>>
             inc  == MaybeExpr(s[4])
             body == Framed("loop", <<StmtItem(s[5])>>)
  <2>1. /\ s[2] \in Expressions \cup {Absent} /\ s[3] \in Expressions \cup {Absent}
        /\ s[4] \in Expressions \cup {Absent} /\ s[5] \in Statements
    BY <1>2, <1>8 DEF IsStatement
  <2>2. CheckStatement(s) = Then(init \o test \o inc \o body, types)
    BY <1>8, Zenon DEF CheckStatement
  <2>3. Leads(p, init, x, x) /\ Leads(p, inc, x, x)
    BY <1>3, <2>1, LeadsMaybe
  <2>4. Leads(p, test, x, x)
    BY <1>3, <2>1, LeadsIs, LeadsNone DEF Bool
  <2>5. Leads(p, body, x, x)
    BY <2>1, LeadsBody
  <2> HIDE DEF init, test, inc, body
  <2>6. Leads(p, init \o test, x, x)
    BY <2>3, <2>4, LeadsJoin
  <2>7. Leads(p, init \o test \o inc, x, x)
    BY <2>3, <2>6, LeadsJoin
  <2>8. Leads(p, init \o test \o inc \o body, x, x)
    BY <2>5, <2>7, LeadsJoin
  <2> QED BY <1>1, <2>2, <2>8, OnwardThen
<1>9. CASE s[1] = "break" \/ s[1] = "continue"
  <2>1. CheckStatement(s) = Then(<<>>, types) \/ \E why : CheckStatement(s) = Refuse(why)
    BY <1>9 DEF CheckStatement
  <2> QED BY <1>4, <2>1, OnwardNot
<1>10. CASE s[1] = "switch"
  <2> DEFINE w == <<ExprItem(s[2]), <<"subject">>>> \o Framed("switch", <<<<"clauses", s[3], 1>>>>)
                    \o <<<<"drop">>>>
  <2>1. s[2] \in Expressions /\ AreClauses(s[3])
    BY <1>2, <1>10 DEF IsStatement, AreClauses
  <2>2. CheckStatement(s) = Then(w, types)
    BY <1>10 DEF CheckStatement
  <2>3. Leads(p, w, x, x)
    BY <2>1, SwitchIsRight
  <2> HIDE DEF w
  <2> QED BY <1>1, <2>2, <2>3, OnwardThen
<1>11. CASE s[1] = "return"
  <2> DEFINE w == <<ExprItem(s[2]), Is({expected}, "Return type mismatch")>>
  <2>1. s[2] \in Expressions \cup {Absent}
    BY <1>2, <1>11 DEF IsStatement
  <2>2. \/ s[2] # Absent /\ CheckStatement(s) = Then(w, types)
        \/ CheckStatement(s) = Then(<<>>, types) \/ \E why : CheckStatement(s) = Refuse(why)
    BY <1>11 DEF CheckStatement
  <2>3. s[2] # Absent => Leads(p, w, x, x)
    BY <1>3, <2>1, LeadsIs
  <2> HIDE DEF w
  <2> QED BY <1>1, <1>4, <2>2, <2>3, OnwardThen, OnwardNot
<1>12. CASE s[1] = "expr"
  <2>1. s[2] \in Expressions \cup {Absent}
    BY <1>2, <1>12 DEF IsStatement
  <2>2. CheckStatement(s) = Then(MaybeExpr(s[2]), types)
    BY <1>12 DEF CheckStatement
  <2>3. Leads(p, MaybeExpr(s[2]), x, x)
    BY <1>3, <2>1, LeadsMaybe
  <2> QED BY <1>1, <2>2, <2>3, OnwardThen
<1>13. CASE s[1] = "block"
  <2> DEFINE w == <<<<"open">>>> \o [k \in DOMAIN s[2] |-> <<"declare", s[2][k]>>]
                    \o Each(s[3]) \o <<<<"close">>>>
  <2>1. /\ IsList(s[2]) /\ ListOf(Statements, s[3])
        /\ \A k \in DOMAIN s[2] : s[2][k][3] \in Expressions \cup {Absent}
    BY <1>2, <1>13 DEF IsStatement
  <2>2. CheckStatement(s) = Then(w, types)
    BY <1>13 DEF CheckStatement
  <2>3. Leads(p, w, x, x)
    BY <2>1, BlockIsRight
  <2> HIDE DEF w
  <2> QED BY <1>1, <2>2, <2>3, OnwardThen
<1> QED BY <1>2, <1>6, <1>7, <1>8, <1>9, <1>10, <1>11, <1>12, <1>13 DEF IsStatement

LEMMA JudgeIsRight ==
  ASSUME NEW p, NEW i, NEW x \in Spots, AnySeq(types), x.types = Len(types), Ready(p, i, x),
         i[1] \in Judged
  PROVE  Onward(p, i, x, Judge(i))
<1>1. x.types \in Nat /\ x.tables \in Nat
  BY SpotIs
<1>2. /\ i[1] \in Looked \cup Used => x.types >= 1
      /\ i[1] \in Both => x.types >= 2
      /\ i[1] \in {"stmt", "clauses"} => x.tables >= 2
      /\ x.tables >= 1
  <2>1. /\ i[1] \in Looked \cup Used => Least(i) = 1
        /\ i[1] \in Both => Least(i) = 2
    BY DEF Least, Found, Even, Looked, Used, Both
  <2>2. /\ i[1] \in {"stmt", "clauses"} => Fewest(i) = 2
        /\ Fewest(i) \in {1, 2, 3}
    BY DEF Fewest
  <2> QED BY <1>1, <2>1, <2>2 DEF Ready
<1>3. Formed(p, i)
  BY DEF Ready
<1>4. i[1] \in Kept => Onward(p, i, x, Then(<<>>, types))
  <2>1. i[1] \in Kept => After(i, x) = x
    BY AfterIs
  <2> QED BY <2>1, LeadsNone, OnwardThen
<1>5. x.types >= 1 => AnySeq(Tail(types)) /\ Len(Tail(types)) = x.types - 1
  <2>1. x.types >= 1 => types # <<>>
    OBVIOUS
  <2> QED BY <2>1, TailIs
<1>6. CASE i[1] = "expr"
  <2>1. Judge(i) = CheckExpression(i[2]) /\ i[1] \in Found
    BY <1>6 DEF Judge, Found
  <2>2. i[2] \in Expressions
    BY <1>3, <1>6 DEF Formed
  <2> QED BY <1>2, <2>1, <2>2, ExpressionIsRight
<1>7. CASE i[1] = "stmt"
  <2>1. Judge(i) = CheckStatement(i[2]) /\ i[1] \in Kept
    BY <1>7 DEF Judge, Kept
  <2>2. i[2] \in Statements
    BY <1>3, <1>7 DEF Formed
  <2> QED BY <1>2, <1>7, <2>1, <2>2, StatementIsRight
<1>8. CASE i[1] = "printed"
  <2>1. Judge(i) = Printed(i[2], i[3]) /\ i[1] \in Kept
    BY <1>8 DEF Judge, Kept
  <2>2. ListOf(Expressions, i[2]) /\ i[3] \in Nat \ {0}
    BY <1>3, <1>8 DEF Formed
  <2> QED BY <1>2, <2>1, <2>2, LoopsAreRight
<1>9. CASE i[1] = "arguments"
  <2>1. Judge(i) = Argument(i[2], i[3], i[4]) /\ i[1] \in Kept
    BY <1>9 DEF Judge, Kept
  <2>2. ListOf(Expressions, i[2]) /\ i[4] \in Nat \ {0}
    BY <1>3, <1>9 DEF Formed
  <2> QED BY <1>2, <2>1, <2>2, LoopsAreRight
<1>10. CASE i[1] = "clauses"
  <2>1. Judge(i) = Clause(i[2], i[3]) /\ i[1] \in Kept /\ i[1] \in Looked
    BY <1>10 DEF Judge, Kept, Looked
  <2>2. AreClauses(i[2]) /\ i[3] \in Nat \ {0}
    BY <1>3, <1>10 DEF Formed
  <2> QED BY <1>2, <1>10, <2>1, <2>2, ClauseIsRight
<1>11. CASE i[1] = "gives"
  <2>1. Judge(i) = Finds(i[2]) /\ i[1] \in Found
    BY <1>11 DEF Judge, Found
  <2> QED BY <2>1, OnwardFinds
<1>12. CASE i[1] = "operands"
  <2>1. Judge(i) = CheckBinary(i[2]) /\ i[1] \in Both
    BY <1>12 DEF Judge, Both
  <2> DEFINE ts(type) == <<type>> \o SubSeq(types, 3, Len(types))
  <2>2. \/ \E why : CheckBinary(i[2]) = Refuse(why)
        \/ \E type : CheckBinary(i[2]) = Then(<<>>, ts(type))
    BY DEF CheckBinary
  <2>3. \A type : AnySeq(ts(type)) /\ Len(ts(type)) = x.types - 1
    <3>1. 3 \in 1..(Len(types) + 1) /\ x.types - 3 + 2 = x.types - 1
      BY <1>1, <1>2, <2>1
    <3> QED BY <3>1, ReplaceIs
  <2> HIDE DEF ts
  <2>4. \A type : Onward(p, i, x, Then(<<>>, ts(type)))
    BY <1>1, <1>2, <2>1, <2>3, OnwardUsed
  <2> QED BY <2>1, <2>2, <2>4, OnwardNot
<1>13. CASE i[1] = "operand"
  <2>1. Judge(i) = CheckUnary(i[2]) /\ i[1] \in Kept
    BY <1>13 DEF Judge, Kept
  <2>2. CheckUnary(i[2]) = Then(<<>>, types) \/ \E why : CheckUnary(i[2]) = Refuse(why)
    BY DEF CheckUnary
  <2> QED BY <1>4, <2>1, <2>2, OnwardNot
<1>14. CASE i[1] \in {"is", "drop", "case"}
  <2>1. Judge(i) = Then(<<>>, Tail(types)) \/ \E why : Judge(i) = Refuse(why)
    BY <1>14 DEF Judge
  <2>2. i[1] \in Used \cup Both /\ x.types >= 1
    BY <1>1, <1>2, <1>14 DEF Used, Both
  <2>3. Onward(p, i, x, Then(<<>>, Tail(types)))
    BY <1>5, <2>2, OnwardUsed
  <2> QED BY <2>1, <2>3, OnwardNot
<1>15. CASE i[1] \in {"subject", "refuse", "main"}
  <2>1. Judge(i) = Then(<<>>, types) \/ \E why : Judge(i) = Refuse(why)
    BY <1>15 DEF Judge
  <2>2. i[1] \in Kept
    BY <1>15 DEF Kept
  <2> QED BY <1>4, <2>1, <2>2, OnwardNot
<1> QED BY <1>6, <1>7, <1>8, <1>9, <1>10, <1>11, <1>12, <1>13, <1>14, <1>15 DEF Judged

-----------------------------------------------------------------------------
(***************************************************************************)
(* The chain of tables.                                                    *)
(***************************************************************************)
OnlyFunctions(t) == \A f \in DOMAIN t : t[f].is = "function"

\* A table with one more name.
LEMMA OneMoreName ==
  ASSUME NEW t, OnlyFunctions(t), NEW name, NEW symbol, symbol.is = "function"
  PROVE  OnlyFunctions(WithName(name, symbol, t))
  BY DEF OnlyFunctions, WithName

LEMMA BuiltinFunctions == OnlyFunctions(Builtin)
  BY DEF OnlyFunctions, Builtin, Function

\* A value in place of the last.
LEMMA LastIs ==
  ASSUME NEW s, AnySeq(s), Len(s) >= 1, NEW v
  PROVE  LET r == [s EXCEPT ![Len(s)] = v]
         IN  AnySeq(r) /\ Len(r) = Len(s) /\ r[1] = IF Len(s) = 1 THEN v ELSE s[1]
<1> DEFINE n == Len(s)
           r == [s EXCEPT ![n] = v]
<1>1. n \in Nat /\ DOMAIN s = 1..n /\ 1 \in 1..n
  BY AnySeqIs
<1>2. s \in [1..n -> {s[k] : k \in 1..n}]
  BY <1>1 DEF AnySeq
<1>3. /\ \A k \in 1..n : r[k] = IF k = n THEN v ELSE s[k]
      /\ r \in [1..n -> {s[k] : k \in 1..n} \cup {v}]
  BY <1>1, <1>2
<1> HIDE DEF n, r
<1>4. AnySeq(r) /\ Len(r) = n
  BY <1>1, <1>3, FunctionIsSeq
<1> QED BY <1>1, <1>3, <1>4 DEF n, r

LEMMA LongerIs ==
  ASSUME NEW s, AnySeq(s), Len(s) >= 1, NEW v
  PROVE  AnySeq(Append(s, v)) /\ Len(Append(s, v)) = Len(s) + 1 /\ Append(s, v)[1] = s[1]
<1> DEFINE S == {s[k] : k \in DOMAIN s} \cup {v}
           r == Append(s, v)
<1>1. s \in Seq(S) /\ v \in S
  BY DEF AnySeq
<1> HIDE DEF S
<1>2. r \in Seq(S) /\ Len(r) = Len(s) + 1 /\ r[1] = s[1]
  BY <1>1
<1> HIDE DEF r
<1>3. AnySeq(r)
  BY <1>2, SeqIs
<1> QED BY <1>2, <1>3 DEF r

LEMMA ShorterIs ==
  ASSUME NEW s, AnySeq(s), Len(s) >= 2
  PROVE  LET r == SubSeq(s, 1, Len(s) - 1)
         IN  AnySeq(r) /\ Len(r) = Len(s) - 1 /\ r[1] = s[1]
<1> DEFINE S == {s[k] : k \in DOMAIN s}
           r == SubSeq(s, 1, Len(s) - 1)
<1>1. s \in Seq(S) /\ Len(s) \in Nat
  BY DEF AnySeq
<1> HIDE DEF S
<1>2. r \in Seq(S) /\ Len(r) = Len(s) - 1 /\ r[1] = s[1]
  BY <1>1
<1> HIDE DEF r
<1>3. AnySeq(r)
  BY <1>2, SeqIs
<1> QED BY <1>2, <1>3 DEF r

-----------------------------------------------------------------------------
(***************************************************************************)
(* The inductive invariant: what is left to do leads from where the        *)
(* checker is to a place where it is in no loop and no switch, and nothing *)
(* is left over.                                                           *)
(***************************************************************************)
Here == Spot(loopDepth, switchDepth, Len(types), Len(scopes))

Way(p, w, x) == \E y : Leads(p, w, x, y) /\ Quiet(y)

Chains == /\ AnySeq(types) /\ AnySeq(scopes) /\ Len(scopes) >= 1
          /\ loopDepth \in Int /\ switchDepth \in Int

IInv ==
  /\ program \in Programs
  /\ Chains
  /\ GlobalsAreFunctions
  /\ Checking => Way(program, work, Here)
  /\ ~Checking => loopDepth = 0 /\ switchDepth = 0

LEMMA HereIs ==
  ASSUME Chains
  PROVE  /\ Here \in Spots
         /\ Here.loops = loopDepth /\ Here.switches = switchDepth
         /\ Here.types = Len(types) /\ Here.tables = Len(scopes)
         /\ Len(scopes) \in Nat /\ Len(types) \in Nat
<1>1. /\ Len(scopes) \in Nat /\ Len(types) \in Nat
      /\ loopDepth \in Int /\ switchDepth \in Int
  BY AnySeqIs DEF Chains
<1> DEFINE t == Len(types)
           n == Len(scopes)
<1>2. t \in Nat /\ n \in Nat
  BY <1>1
<1> HIDE DEF t, n
<1>3. /\ Spot(loopDepth, switchDepth, t, n) \in Spots
      /\ Spot(loopDepth, switchDepth, t, n).loops = loopDepth
      /\ Spot(loopDepth, switchDepth, t, n).switches = switchDepth
      /\ Spot(loopDepth, switchDepth, t, n).types = t
      /\ Spot(loopDepth, switchDepth, t, n).tables = n
  BY <1>1, <1>2, SpotIs
<1> QED BY <1>1, <1>3 DEF Here, t, n

\* What there is to do next is in its place, and the rest leads on from there.
LEMMA NextIs ==
  ASSUME IInv, Checking, work # <<>>
  PROVE  /\ Here \in Spots /\ Ready(program, Head(work), Here)
         /\ After(Head(work), Here) \in Spots
         /\ Way(program, Tail(work), After(Head(work), Here))
<1>1. PICK y : Leads(program, work, Here, y) /\ Quiet(y)
  BY DEF IInv, Way
<1> DEFINE w == work
           h == Here
<1>2. /\ h \in Spots /\ Ready(program, Head(w), h) /\ After(Head(w), h) \in Spots
      /\ Leads(program, Tail(w), After(Head(w), h), y)
  BY <1>1, LeadsRest
<1> QED BY <1>1, <1>2 DEF Way

LEMMA Starts ==
  ASSUME program \in Programs, InitChecker
  PROVE  Way(program, work, Here)
<1> DEFINE p == program
           x == Spot(0, 0, 0, 1)
           z == Spot(0, 0, 0, 2)
           n == Len(p)
           defines   == [k \in DOMAIN p |-> <<"define", k>>]
           functions == [k \in DOMAIN p |-> <<"function", k>>]
           main == <<"main">>
<1>1. n \in Nat /\ DOMAIN p = 1..n
  BY TreesAssumption DEF ArePrograms, IsList, ListOf
<1>2. /\ x \in Spots /\ x.tables = 1 /\ x.types = 0 /\ Quiet(x)
      /\ z \in Spots /\ z.tables = 2 /\ z.types = 0 /\ Quiet(z)
      /\ Called(x) = z /\ Called(z) = z
  BY SpotIs DEF Quiet, Called
<1>3. Here = x
  <2>1. Len(types) = 0 /\ Len(scopes) = 1
    BY DEF InitChecker
  <2> QED BY <2>1 DEF Here, InitChecker
<1>4. work = defines \o <<main>> \o functions
  BY DEF InitChecker
<1>5. \A k : Ready(p, <<"define", k>>, x) /\ <<"define", k>>[1] \in Kept
  BY <1>2 DEF Ready, Formed, Found, Even, Looked, Used, Both, Least, Fewest, Kept
<1>6. Ready(p, main, x) /\ main[1] \in Kept
  BY <1>2 DEF Ready, Formed, Found, Even, Looked, Used, Both, Least, Fewest, Kept
<1>7. \A k \in 1..n : /\ Ready(p, <<"function", k>>, x) /\ Ready(p, <<"function", k>>, z)
                      /\ <<"function", k>>[1] = "function"
  BY <1>1, <1>2 DEF Ready, Formed, Found, Even, Looked, Used, Both, Least, Fewest
<1>8. /\ defines \in [1..n -> {defines[k] : k \in 1..n}]
      /\ functions \in [1..n -> {functions[k] : k \in 1..n}]
      /\ \A k \in 1..n : defines[k] = <<"define", k>> /\ functions[k] = <<"function", k>>
  BY <1>1
<1> HIDE DEF p, x, z, n, defines, functions, main
<1>9. Leads(p, defines, x, x)
  <2>1. \A k \in 1..n : Ready(p, defines[k], x) /\ After(defines[k], x) = x
    <3> TAKE k \in 1..n
    <3>1. Ready(p, defines[k], x) /\ defines[k][1] \in Kept
      BY <1>5, <1>8
    <3> QED BY <1>2, <3>1, AfterIs
  <2> QED BY <1>1, <1>2, <1>8, <2>1, LeadsAll
<1>10. Leads(p, <<main>>, x, x)
  BY <1>2, <1>6, LeadsKept
<1>11. \E y : Leads(p, functions, x, y) /\ Quiet(y)
  <2> DEFINE H == [j \in 1..(n + 1) |-> IF j = 1 THEN x ELSE z]
  <2>1. AnySeq(functions) /\ Len(functions) = n
    BY <1>1, <1>8, FunctionIsSeq
  <2>2. /\ \A j \in 1..(n + 1) : H[j] = IF j = 1 THEN x ELSE z
        /\ H \in [1..(n + 1) -> Spots]
    BY <1>2
  <2>3. \A k \in 1..n : Ready(p, functions[k], H[k]) /\ H[k + 1] = After(functions[k], H[k])
    <3> TAKE k \in 1..n
    <3>1. k \in 1..(n + 1) /\ k + 1 \in 1..(n + 1) /\ k + 1 # 1
      BY <1>1
    <3>2. H[k] \in {x, z} /\ H[k + 1] = z
      BY <2>2, <3>1
    <3>3. /\ Ready(p, functions[k], x) /\ Ready(p, functions[k], z)
          /\ functions[k][1] = "function"
      BY <1>7, <1>8
    <3>4. After(functions[k], x) = z /\ After(functions[k], z) = z
      BY <1>2, <3>3, AfterIs
    <3> QED BY <3>2, <3>3, <3>4
  <2>4. 1 \in 1..(n + 1) /\ n + 1 \in 1..(n + 1)
    BY <1>1
  <2>5. H[1] = x /\ H[n + 1] \in {x, z}
    BY <2>2, <2>4
  <2> HIDE DEF H
  <2>6. Path(p, functions, H)
    BY <2>1, <2>2, <2>3 DEF Path
  <2>7. Leads(p, functions, x, H[n + 1])
    BY <2>1, <2>5, <2>6 DEF Leads
  <2> QED BY <1>2, <2>5, <2>7
<1>12. PICK y : Leads(p, functions, x, y) /\ Quiet(y)
  BY <1>11
<1>13. Leads(p, defines \o <<main>>, x, x)
  BY <1>9, <1>10, LeadsJoin
<1>14. Leads(p, defines \o <<main>> \o functions, x, y)
  BY <1>12, <1>13, LeadsJoin
<1>15. Way(p, defines \o <<main>> \o functions, x)
  BY <1>12, <1>14 DEF Way
<1> QED BY <1>3, <1>4, <1>15 DEF p

-----------------------------------------------------------------------------
(***************************************************************************)
(* Every step.                                                             *)
(***************************************************************************)
\* A step that goes on.
LEMMA GoesOn ==
  ASSUME IInv, program' = program, verdict' = <<"checking">>, Chains', GlobalsAreFunctions',
         Way(program, work', Here')
  PROVE  IInv'
  BY DEF IInv, Checking

\* A step that does no more.
LEMMA AbandonHolds ==
  ASSUME IInv, Checking, NEW v, v # <<"checking">>, Abandon(v)
  PROVE  IInv'
<1>1. PICK y : Leads(program, work, Here, y) /\ Quiet(y)
  BY DEF IInv, Way
<1>2. /\ loopDepth' = loopDepth - Unwound("loop") /\ switchDepth' = switchDepth - Unwound("switch")
      /\ verdict' = v /\ program' = program /\ types' = types /\ scopes' = scopes
  BY DEF Abandon
<1>3. Here.loops = loopDepth /\ Here.switches = switchDepth
  BY HereIs DEF IInv
<1>4. loopDepth' = 0 /\ switchDepth' = 0
  <2> DEFINE w == work
             h == Here
             p == program
  <2>1. Leads(p, w, h, y)
    BY <1>1
  <2> HIDE DEF w, h, p
  <2>2. /\ h.loops - (Frames(w, "leave", "loop") - Frames(w, "enter", "loop")) = y.loops
        /\ h.switches - (Frames(w, "leave", "switch") - Frames(w, "enter", "switch")) = y.switches
    BY <2>1, UnwindsAll
  <2>3. /\ Unwound("loop") = Frames(w, "leave", "loop") - Frames(w, "enter", "loop")
        /\ Unwound("switch") = Frames(w, "leave", "switch") - Frames(w, "enter", "switch")
    BY DEF Unwound, w
  <2>4. loopDepth' = h.loops - Unwound("loop") /\ switchDepth' = h.switches - Unwound("switch")
    BY <1>2, <1>3 DEF h
  <2> QED BY <1>1, <2>2, <2>3, <2>4 DEF Quiet
<1>5. Chains'
  BY <1>2, <1>4 DEF IInv, Chains
<1>6. GlobalsAreFunctions'
  BY <1>2 DEF IInv, GlobalsAreFunctions
<1>7. ~Checking'
  BY <1>2 DEF Checking
<1> QED BY <1>2, <1>4, <1>5, <1>6, <1>7 DEF IInv

LEMMA InferHolds ==
  ASSUME IInv, Infer
  PROVE  IInv'
<1> DEFINE i == Head(work)
           j == Judge(i)
           h == Here
           p == program
           t == Tail(work)
<1>1. /\ Checking /\ work # <<>> /\ i[1] \in Judged /\ j.verdict = <<"checking">>
      /\ work' = j.work \o t /\ types' = j.types
      /\ program' = program /\ scopes' = scopes /\ loopDepth' = loopDepth
      /\ switchDepth' = switchDepth /\ verdict' = verdict
  BY DEF Infer
<1>2. h \in Spots /\ Ready(p, i, h) /\ Way(p, t, After(i, h))
  BY <1>1, NextIs
<1>3. Chains /\ AnySeq(types)
  BY DEF IInv, Chains
<1>4. h.loops = loopDepth /\ h.switches = switchDepth /\ h.types = Len(types) /\ h.tables = Len(scopes)
  BY <1>3, HereIs
<1> HIDE DEF i, h, p, t
<1>5. Onward(p, i, h, j)
  BY <1>1, <1>2, <1>3, <1>4, JudgeIsRight
<1> HIDE DEF j
<1>6. AnySeq(j.types) /\ Leads(p, j.work, Now(h, j), After(i, h))
  BY <1>1, <1>5 DEF Onward
<1>7. PICK y : Leads(p, t, After(i, h), y) /\ Quiet(y)
  BY <1>2 DEF Way
<1>8. Leads(p, j.work \o t, Now(h, j), y)
  BY <1>6, <1>7, LeadsJoin
<1>9. Here' = Now(h, j)
  BY <1>1, <1>4 DEF Here, Now
<1>10. Way(program, work', Here')
  BY <1>1, <1>7, <1>8, <1>9 DEF Way, p
<1>11. Chains'
  BY <1>1, <1>3, <1>6 DEF Chains
<1>12. GlobalsAreFunctions'
  BY <1>1 DEF IInv, GlobalsAreFunctions
<1> QED BY <1>1, <1>10, <1>11, <1>12, GoesOn DEF Checking

LEMMA ErrHolds ==
  ASSUME IInv, Err
  PROVE  IInv'
<1>1. Checking /\ Judge(Head(work)).verdict # <<"checking">> /\ Abandon(Judge(Head(work)).verdict)
  BY DEF Err
<1> QED BY <1>1, AbandonHolds

\* A name defined in the innermost table, nothing else.
LEMMA DefineHolds ==
  ASSUME IInv, Checking, work # <<>>, NEW name, NEW symbol, Head(work)[1] \in Kept,
         symbol.is = "function" \/ Len(scopes) >= 2, DefineOrFail(name, symbol)
  PROVE  IInv'
<1>1. CASE name \in DOMAIN scopes[Len(scopes)]
  <2>1. Abandon(<<"error", "Redefinition">>)
    BY <1>1 DEF DefineOrFail
  <2>2. <<"error", "Redefinition">> # <<"checking">>
    OBVIOUS
  <2> QED BY <2>1, <2>2, AbandonHolds
<1>2. CASE name \notin DOMAIN scopes[Len(scopes)]
  <2> DEFINE n     == Len(scopes)
             table == WithName(name, symbol, scopes[n])
  <2>1. /\ scopes' = [scopes EXCEPT ![n] = table]
        /\ work' = Tail(work)
        /\ program' = program /\ types' = types /\ loopDepth' = loopDepth
        /\ switchDepth' = switchDepth /\ verdict' = verdict
    BY <1>2 DEF DefineOrFail
  <2>2. Chains /\ AnySeq(scopes) /\ n >= 1 /\ n \in Nat
    BY AnySeqIs DEF IInv, Chains
  <2> HIDE DEF table
  <2>3. AnySeq(scopes') /\ Len(scopes') = n /\ scopes'[1] = IF n = 1 THEN table ELSE scopes[1]
    BY <2>1, <2>2, LastIs
  <2>4. Chains'
    BY <2>1, <2>2, <2>3 DEF Chains
  <2>5. GlobalsAreFunctions'
    <3>1. OnlyFunctions(scopes[1])
      BY DEF IInv, GlobalsAreFunctions, OnlyFunctions
    <3>2. n = 1 => OnlyFunctions(table)
      BY <3>1, OneMoreName DEF table
    <3>3. OnlyFunctions(scopes'[1])
      BY <2>3, <3>1, <3>2
    <3> QED BY <3>3 DEF GlobalsAreFunctions, OnlyFunctions
  <2>6. After(Head(work), Here) = Here /\ Way(program, Tail(work), After(Head(work), Here))
    BY NextIs, AfterIs
  <2>7. Here' = Here
    BY <2>1, <2>3 DEF Here
  <2>8. Way(program, work', Here')
    BY <2>1, <2>6, <2>7
  <2> QED BY <2>1, <2>4, <2>5, <2>8, GoesOn DEF Checking
<1> QED BY <1>1, <1>2

LEMMA DefineFunctionHolds ==
  ASSUME IInv, DefineFunction
  PROVE  IInv'
<1>1. Checking /\ work # <<>> /\ Head(work)[1] = "define"
  BY DEF DefineFunction, Doing
<1>2. Head(work)[1] \in Kept
  BY <1>1 DEF Kept
<1> DEFINE f == program[Arg]
<1>3. \/ DefineOrFail(f.name, Function(f.ret, f.ptypes))
      \/ Abandon(<<"error", "Invalid type">>)
  BY DEF DefineFunction
<1>4. Function(f.ret, f.ptypes).is = "function" /\ <<"error", "Invalid type">> # <<"checking">>
  BY DEF Function
<1> HIDE DEF f
<1> QED BY <1>1, <1>2, <1>3, <1>4, DefineHolds, AbandonHolds

LEMMA DefineParamHolds ==
  ASSUME IInv, DefineParam
  PROVE  IInv'
<1>1. Checking /\ work # <<>> /\ Head(work)[1] = "param"
  BY DEF DefineParam, Doing
<1>2. Head(work)[1] \in Kept
  BY <1>1 DEF Kept
<1>3. Len(scopes) >= 2
  <2>1. Ready(program, Head(work), Here) /\ Here.tables = Len(scopes)
    BY <1>1, NextIs, HereIs DEF IInv
  <2>2. Fewest(Head(work)) = 2
    BY <1>1 DEF Fewest
  <2> QED BY <2>1, <2>2 DEF Ready
<1>4. DefineOrFail(Arg[1], Variable(Arg[2]))
  BY DEF DefineParam
<1> QED BY <1>1, <1>2, <1>3, <1>4, DefineHolds

\* Each function starts in a table of its own above the global one.
LEMMA CheckFunctionHolds ==
  ASSUME IInv, CheckFunction
  PROVE  IInv'
<1> DEFINE i == Head(work)
           h == Here
           p == program
           f == p[i[2]]
           t == Tail(work)
           z == Called(h)
           params == [k \in DOMAIN f.params |-> <<"param", <<f.params[k], f.ptypes[k]>>>>]
           body   == StmtItem(f.body)
<1>1. /\ Checking /\ work # <<>> /\ i[1] = "function"
      /\ scopes' = <<scopes[1], [x \in {} |-> NoSymbol]>>
      /\ work' = params \o <<body>> \o t
      /\ program' = program /\ types' = types /\ loopDepth' = loopDepth
      /\ switchDepth' = switchDepth /\ verdict' = verdict
  BY DEF CheckFunction, Doing, Arg
<1>2. h \in Spots /\ Ready(p, i, h) /\ After(i, h) = z /\ z \in Spots /\ Way(p, t, z)
  <2>1. h \in Spots /\ Ready(p, i, h) /\ After(i, h) \in Spots /\ Way(p, t, After(i, h))
    BY <1>1, NextIs
  <2>2. After(i, h) = z
    BY <1>1, <2>1, AfterIs
  <2> QED BY <2>1, <2>2
<1>3. Chains /\ AnySeq(scopes) /\ AnySeq(types) /\ program \in Programs
  BY DEF IInv, Chains
<1>4. /\ h.loops = loopDepth /\ h.switches = switchDepth
      /\ h.types = Len(types) /\ h.tables = Len(scopes)
  BY <1>3, HereIs
<1>5. IsList(f.params) /\ f.body \in Statements
  <2>1. p \in Programs /\ i[2] \in DOMAIN p
    BY <1>1, <1>2, <1>3 DEF Ready, Formed
  <2> QED BY <2>1, TreesAssumption DEF ArePrograms
<1>6. z.tables = 2 /\ z.types \in Nat
  <2>1. z = Spot(h.loops, h.switches, h.types, 2)
    BY DEF Called
  <2> HIDE DEF z
  <2>2. z.tables = 2
    BY <2>1, SpotIs
  <2> QED BY <1>2, <2>2, SpotIs
<1>7. AnySeq(scopes') /\ Len(scopes') = 2 /\ scopes'[1] = scopes[1]
  <2> DEFINE a == scopes[1]
             b == [x \in {} |-> NoSymbol]
  <2> HIDE DEF a, b
  <2>1. AnySeq(<<a, b>>) /\ Len(<<a, b>>) = 2 /\ <<a, b>>[1] = a
    BY DEF AnySeq
  <2> QED BY <1>1, <2>1 DEF a, b
<1>8. Here' = z
  BY <1>1, <1>4, <1>7 DEF Here, Called
<1>9. Leads(p, params, z, z)
  <2> DEFINE n == Len(f.params)
  <2>1. n \in Nat /\ DOMAIN f.params = 1..n
    BY <1>5 DEF IsList, ListOf
  <2>2. /\ params \in [1..n -> {params[k] : k \in 1..n}]
        /\ \A k \in 1..n : params[k] = <<"param", <<f.params[k], f.ptypes[k]>>>>
    BY <2>1
  <2>3. \A d : Ready(p, <<"param", d>>, z) /\ <<"param", d>>[1] \in Kept
    BY <1>6 DEF Ready, Formed, Found, Even, Looked, Used, Both, Least, Fewest, Kept
  <2> HIDE DEF n, params, z, f, p
  <2>4. \A k \in 1..n : Ready(p, params[k], z) /\ After(params[k], z) = z
    <3> TAKE k \in 1..n
    <3>1. Ready(p, params[k], z) /\ params[k][1] \in Kept
      BY <2>2, <2>3
    <3> QED BY <1>2, <3>1, AfterIs
  <2> QED BY <1>2, <2>1, <2>2, <2>4, LeadsAll
<1>10. Leads(p, <<body>>, z, z)
  <2> DEFINE s == f.body
  <2> HIDE DEF z, p, s
  <2>1. z.tables >= 1 /\ z.tables >= 2 /\ z \in Spots /\ s \in Statements
    BY <1>2, <1>5, <1>6 DEF s
  <2>2. Ready(p, StmtItem(s), z) /\ StmtItem(s)[1] \in Kept
    BY <2>1, ReadyIs
  <2>3. Leads(p, <<StmtItem(s)>>, z, z)
    BY <2>1, <2>2, LeadsKept
  <2> QED BY <2>3 DEF s
<1> HIDE DEF i, h, p, f, t, z, params, body
<1>11. PICK y : Leads(p, t, z, y) /\ Quiet(y)
  BY <1>2 DEF Way
<1>12. Leads(p, params \o <<body>>, z, z)
  BY <1>9, <1>10, LeadsJoin
<1>13. Leads(p, params \o <<body>> \o t, z, y)
  BY <1>11, <1>12, LeadsJoin
<1>14. Way(program, work', Here')
  BY <1>1, <1>8, <1>11, <1>13 DEF Way, p
<1>15. Chains'
  BY <1>1, <1>3, <1>7 DEF Chains
<1>16. GlobalsAreFunctions'
  BY <1>7 DEF IInv, GlobalsAreFunctions
<1> QED BY <1>1, <1>14, <1>15, <1>16, GoesOn DEF Checking

LEMMA OpenBlockHolds ==
  ASSUME IInv, OpenBlock
  PROVE  IInv'
<1>1. /\ Checking /\ work # <<>> /\ Head(work)[1] = "open"
      /\ scopes' = Append(scopes, [x \in {} |-> NoSymbol]) /\ work' = Tail(work)
      /\ program' = program /\ types' = types /\ loopDepth' = loopDepth
      /\ switchDepth' = switchDepth /\ verdict' = verdict
  BY DEF OpenBlock, Doing
<1>2. Chains /\ AnySeq(scopes) /\ Len(scopes) >= 1 /\ Len(scopes) \in Nat
  BY AnySeqIs DEF IInv, Chains
<1>3. AnySeq(scopes') /\ Len(scopes') = Len(scopes) + 1 /\ scopes'[1] = scopes[1]
  BY <1>1, <1>2, LongerIs
<1>4. After(Head(work), Here) = Wider(Here, 1) /\ Way(program, Tail(work), After(Head(work), Here))
  BY <1>1, NextIs, AfterIs
<1>5. Here' = Wider(Here, 1)
  <2>1. /\ Here.loops = loopDepth /\ Here.switches = switchDepth
        /\ Here.types = Len(types) /\ Here.tables = Len(scopes)
    BY <1>2, HereIs
  <2>2. Here' = Spot(loopDepth, switchDepth, Len(types), Len(scopes) + 1)
    BY <1>1, <1>3 DEF Here
  <2> QED BY <2>1, <2>2 DEF Wider
<1>6. Way(program, work', Here')
  BY <1>1, <1>4, <1>5
<1>7. Chains'
  BY <1>1, <1>2, <1>3 DEF Chains
<1>8. GlobalsAreFunctions'
  BY <1>3 DEF IInv, GlobalsAreFunctions
<1> QED BY <1>1, <1>6, <1>7, <1>8, GoesOn DEF Checking

LEMMA CloseBlockHolds ==
  ASSUME IInv, CloseBlock
  PROVE  IInv'
<1>1. /\ Checking /\ work # <<>> /\ Head(work)[1] = "close"
      /\ scopes' = SubSeq(scopes, 1, Len(scopes) - 1) /\ work' = Tail(work)
      /\ program' = program /\ types' = types /\ loopDepth' = loopDepth
      /\ switchDepth' = switchDepth /\ verdict' = verdict
  BY DEF CloseBlock, Doing
<1>2. Chains /\ AnySeq(scopes) /\ Len(scopes) \in Nat
  BY AnySeqIs DEF IInv, Chains
<1>3. /\ Here.loops = loopDepth /\ Here.switches = switchDepth
      /\ Here.types = Len(types) /\ Here.tables = Len(scopes)
  BY <1>2, HereIs
<1>4. Len(scopes) >= 3
  <2>1. Ready(program, Head(work), Here)
    BY <1>1, NextIs
  <2>2. Fewest(Head(work)) = 3
    BY <1>1 DEF Fewest
  <2> QED BY <1>3, <2>1, <2>2 DEF Ready
<1>5. AnySeq(scopes') /\ Len(scopes') = Len(scopes) - 1 /\ scopes'[1] = scopes[1]
  <2>1. Len(scopes) >= 2
    BY <1>2, <1>4
  <2> QED BY <1>1, <1>2, <2>1, ShorterIs
<1>6. After(Head(work), Here) = Wider(Here, -1) /\ Way(program, Tail(work), After(Head(work), Here))
  BY <1>1, NextIs, AfterIs
<1>7. Here' = Wider(Here, -1)
  <2>1. Len(scopes') = Len(scopes) + (-1)
    BY <1>2, <1>5
  <2>2. Here' = Spot(loopDepth, switchDepth, Len(types), Len(scopes) + (-1))
    BY <1>1, <2>1 DEF Here
  <2> QED BY <1>3, <2>2 DEF Wider
<1>8. Way(program, work', Here')
  BY <1>1, <1>6, <1>7
<1>9. Chains'
  <2>1. Len(scopes') >= 1
    BY <1>2, <1>4, <1>5
  <2> QED BY <1>1, <1>2, <1>5, <2>1 DEF Chains
<1>10. GlobalsAreFunctions'
  BY <1>5 DEF IInv, GlobalsAreFunctions
<1> QED BY <1>1, <1>8, <1>9, <1>10, GoesOn DEF Checking

\* The name is known to its initialiser, which is checked next.
LEMMA CheckDeclarationHolds ==
  ASSUME IInv, CheckDeclaration
  PROVE  IInv'
<1> DEFINE d     == Head(work)[2]
           n     == Len(scopes)
           table == WithName(d[1], IF d[2] = 0 THEN Variable(d[4]) ELSE Array(d[4]), scopes[n])
           init  == IF d[3] = Absent THEN <<>>
                    ELSE <<ExprItem(d[3]), Is({d[4]}, "Type mismatch in initialization")>>
           why   == <<"error", IF Supported({d[4]}) THEN "Redefinition" ELSE "Invalid type">>
<1>1. Checking /\ work # <<>> /\ Head(work)[1] = "declare"
  BY DEF CheckDeclaration, Doing
<1>2. \/ Abandon(why)
      \/ /\ scopes' = [scopes EXCEPT ![n] = table]
         /\ work' = init \o Tail(work)
         /\ program' = program /\ types' = types /\ loopDepth' = loopDepth
         /\ switchDepth' = switchDepth /\ verdict' = verdict
  BY DEF CheckDeclaration, Arg
<1>3. CASE Abandon(why)
  <2>1. why # <<"checking">>
    OBVIOUS
  <2> HIDE DEF why
  <2> QED BY <1>1, <1>3, <2>1, AbandonHolds
<1>4. CASE /\ scopes' = [scopes EXCEPT ![n] = table]
           /\ work' = init \o Tail(work)
           /\ program' = program /\ types' = types /\ loopDepth' = loopDepth
           /\ switchDepth' = switchDepth /\ verdict' = verdict
  <2> DEFINE h == Here
             p == program
             t == Tail(work)
  <2>1. Chains /\ AnySeq(scopes) /\ n \in Nat
    BY AnySeqIs DEF IInv, Chains
  <2>2. h.tables = n
    BY <2>1, HereIs
  <2>3. h \in Spots /\ Ready(p, Head(work), h) /\ Way(p, t, After(Head(work), h))
    BY <1>1, NextIs
  <2>4. n >= 3 /\ d[3] \in Expressions \cup {Absent}
    <3>1. Fewest(Head(work)) = 3
      BY <1>1 DEF Fewest
    <3> QED BY <1>1, <2>2, <2>3, <3>1 DEF Ready, Formed
  <2>5. After(Head(work), h) = h
    <3>1. Head(work)[1] \in Kept
      BY <1>1 DEF Kept
    <3> QED BY <2>3, <3>1, AfterIs
  <2>6. Way(p, t, h)
    BY <2>3, <2>5
  <2> HIDE DEF table, n, d
  <2>7. n >= 1 /\ n # 1
    BY <2>1, <2>4
  <2> USE DEF d
  <2>8. AnySeq(scopes') /\ Len(scopes') = n /\ scopes'[1] = scopes[1]
    BY <1>4, <2>1, <2>7, LastIs DEF n
  <2>9. Here' = h
    BY <1>4, <2>8 DEF Here, n
  <2>10. Leads(p, init, h, h)
    <3>1. h.tables >= 1
      BY <2>2, <2>7
    <3> DEFINE e == d[3]
               type == d[4]
    <3>2. e \in Expressions \cup {Absent}
      BY <2>4
    <3> HIDE DEF h, p, e, type
    <3>3. CASE e = Absent
      <4>1. Leads(p, <<>>, h, h)
        BY <2>3, LeadsNone
      <4> QED BY <3>3, <4>1 DEF e
    <3>4. CASE e # Absent
      <4>1. Leads(p, <<ExprItem(e), Is({type}, "Type mismatch in initialization")>>, h, h)
        BY <2>3, <3>1, <3>2, <3>4, LeadsIs
      <4> QED BY <3>4, <4>1 DEF e, type
    <3> QED BY <3>3, <3>4
  <2> HIDE DEF h, p, t, init
  <2>11. PICK y : Leads(p, t, h, y) /\ Quiet(y)
    BY <2>6 DEF Way
  <2>12. Leads(p, init \o t, h, y)
    BY <2>10, <2>11, LeadsJoin
  <2>13. Way(program, work', Here')
    BY <1>4, <2>9, <2>11, <2>12 DEF Way, p, t
  <2>14. Chains'
    BY <1>4, <2>1, <2>7, <2>8 DEF Chains
  <2>15. GlobalsAreFunctions'
    BY <2>8 DEF IInv, GlobalsAreFunctions
  <2> QED BY <1>1, <1>4, <2>13, <2>14, <2>15, GoesOn DEF Checking
<1> QED BY <1>2, <1>3, <1>4

\* The depths go with the frames.
LEMMA FrameHolds ==
  ASSUME IInv, EnterFrame \/ LeaveFrame
  PROVE  IInv'
<1> DEFINE i == Head(work)
           d == IF i[1] = "enter" THEN 1 ELSE -1
<1>1. /\ Checking /\ work # <<>> /\ i[1] \in {"enter", "leave"}
      /\ loopDepth' = IF i[2] = "loop" THEN loopDepth + d ELSE loopDepth
      /\ switchDepth' = IF i[2] = "switch" THEN switchDepth + d ELSE switchDepth
      /\ work' = Tail(work)
      /\ program' = program /\ types' = types /\ scopes' = scopes /\ verdict' = verdict
  BY DEF EnterFrame, LeaveFrame, Deepen, Doing, Arg
<1>2. Chains /\ loopDepth \in Int /\ switchDepth \in Int /\ Len(types) \in Nat /\ Len(scopes) \in Nat
  BY AnySeqIs DEF IInv, Chains
<1>3. /\ Here.loops = loopDepth /\ Here.switches = switchDepth
      /\ Here.types = Len(types) /\ Here.tables = Len(scopes)
  BY <1>2, HereIs
<1>4. Ready(program, i, Here) /\ Way(program, Tail(work), After(i, Here))
  BY <1>1, NextIs
<1>5. i \in {<<i[1], "loop">>, <<i[1], "switch">>}
  BY <1>1, <1>4 DEF Ready, Formed
<1> HIDE DEF i
<1>6. /\ loopDepth + Turn(i, "loop") = loopDepth'
      /\ switchDepth + Turn(i, "switch") = switchDepth'
  <2>1. i \in {<<"enter", "loop">>, <<"enter", "switch">>, <<"leave", "loop">>, <<"leave", "switch">>}
    BY <1>1, <1>5
  <2>2. CASE i = <<"enter", "loop">>
    BY <1>1, <1>2, <2>2 DEF Turn
  <2>3. CASE i = <<"enter", "switch">>
    BY <1>1, <1>2, <2>3 DEF Turn
  <2>4. CASE i = <<"leave", "loop">>
    BY <1>1, <1>2, <2>4 DEF Turn
  <2>5. CASE i = <<"leave", "switch">>
    BY <1>1, <1>2, <2>5 DEF Turn
  <2> QED BY <2>1, <2>2, <2>3, <2>4, <2>5
<1>7. Here' = After(i, Here)
  <2>1. Net(i) = 0 /\ \A n : Tables(i, n) = n
    BY <1>1 DEF Net, Tables, Found, Even, Looked, Used, Both
  <2>2. After(i, Here) = Spot(loopDepth', switchDepth', Len(types) + 0, Len(scopes))
    <3> DEFINE h == Here
    <3>1. After(i, h) = Spot(h.loops + Turn(i, "loop"), h.switches + Turn(i, "switch"),
                             h.types + Net(i), Tables(i, h.tables))
      BY DEF After, Spot
    <3> HIDE DEF h
    <3>2. After(i, h) = Spot(h.loops + Turn(i, "loop"), h.switches + Turn(i, "switch"),
                             h.types + 0, h.tables)
      BY <2>1, <3>1
    <3> QED BY <1>3, <1>6, <3>2 DEF h
  <2>3. Len(types) + 0 = Len(types)
    BY <1>2
  <2> QED BY <1>1, <2>2, <2>3 DEF Here
<1>8. Way(program, work', Here')
  BY <1>1, <1>4, <1>7
<1>9. Chains'
  BY <1>1, <1>2 DEF Chains
<1>10. GlobalsAreFunctions'
  BY <1>1 DEF IInv, GlobalsAreFunctions
<1> QED BY <1>1, <1>8, <1>9, <1>10, GoesOn DEF Checking

LEMMA AcceptHolds ==
  ASSUME IInv, Accept
  PROVE  IInv'
<1>1. /\ Checking /\ work = <<>> /\ verdict' = <<"ok">>
      /\ program' = program /\ types' = types /\ scopes' = scopes
      /\ loopDepth' = loopDepth /\ switchDepth' = switchDepth
  BY DEF Accept
<1>2. PICK y : Leads(program, <<>>, Here, y) /\ Quiet(y)
  BY <1>1 DEF IInv, Way
<1>3. Quiet(Here)
  BY <1>2, LeadsEnds
<1>4. loopDepth = 0 /\ switchDepth = 0
  BY <1>3, HereIs DEF IInv, Quiet
<1>5. ~Checking'
  BY <1>1 DEF Checking
<1> QED BY <1>1, <1>4, <1>5 DEF IInv, Chains, GlobalsAreFunctions

LEMMA Stutters ==
  ASSUME IInv, UNCHANGED checker
  PROVE  IInv'
<1>1. /\ program' = program /\ work' = work /\ types' = types /\ scopes' = scopes
      /\ loopDepth' = loopDepth /\ switchDepth' = switchDepth /\ verdict' = verdict
  BY DEF checker
<1>2. Here' = Here /\ Chains' = Chains /\ Checking' = Checking
      /\ GlobalsAreFunctions' = GlobalsAreFunctions
  BY <1>1 DEF Here, Chains, Checking, GlobalsAreFunctions
<1> QED BY <1>1, <1>2 DEF IInv

-----------------------------------------------------------------------------
(***************************************************************************)
(* The checker's properties.                                               *)
(***************************************************************************)
\* At every moment the calls in progress lead from the depths, types and tables
\* there are to depths of zero (type_checker.py:96-149).
THEOREM WayOut == CheckerSpec => []IInv
<1>1. program \in Programs /\ InitChecker => IInv
  <2> SUFFICES ASSUME program \in Programs, InitChecker PROVE IInv
    OBVIOUS
  <2>1. Way(program, work, Here)
    BY Starts
  <2>2. Chains
    <3>1. AnySeq(<<>>) /\ \A b : AnySeq(<<b>>) /\ Len(<<b>>) = 1
      BY DEF AnySeq
    <3> QED BY <3>1 DEF InitChecker, Chains
  <2>3. GlobalsAreFunctions
    BY BuiltinFunctions DEF InitChecker, GlobalsAreFunctions, OnlyFunctions
  <2> QED BY <2>1, <2>2, <2>3 DEF IInv, InitChecker, Checking
<1>2. IInv /\ [StepChecker]_checker => IInv'
  <2> SUFFICES ASSUME IInv, [StepChecker]_checker PROVE IInv'
    OBVIOUS
  <2>1. CASE Infer
    BY <2>1, InferHolds
  <2>2. CASE Err
    BY <2>2, ErrHolds
  <2>3. CASE DefineFunction
    BY <2>3, DefineFunctionHolds
  <2>4. CASE CheckFunction
    BY <2>4, CheckFunctionHolds
  <2>5. CASE DefineParam
    BY <2>5, DefineParamHolds
  <2>6. CASE OpenBlock
    BY <2>6, OpenBlockHolds
  <2>7. CASE CloseBlock
    BY <2>7, CloseBlockHolds
  <2>8. CASE CheckDeclaration
    BY <2>8, CheckDeclarationHolds
  <2>9. CASE EnterFrame \/ LeaveFrame
    BY <2>9, FrameHolds
  <2>10. CASE Accept
    BY <2>10, AcceptHolds
  <2>11. CASE UNCHANGED checker
    BY <2>11, Stutters
  <2> QED BY <2>1, <2>2, <2>3, <2>4, <2>5, <2>6, <2>7, <2>8, <2>9, <2>10, <2>11 DEF StepChecker
<1> QED BY <1>1, <1>2, PTL DEF CheckerSpec

\* Whichever way the checker leaves a loop or a switch, an error out of the
\* middle of one included, the depths are what they were: zero when it has
\* decided, and when it turns to the next function (type_checker.py:96-149).
THEOREM DepthsHold == CheckerSpec => []DepthsRestored
<1>1. IInv => DepthsRestored
  <2> SUFFICES ASSUME IInv PROVE DepthsRestored
    OBVIOUS
  <2>1. Decided => loopDepth = 0 /\ switchDepth = 0
    BY DEF IInv, Decided
  <2>2. Doing("function") => loopDepth = 0 /\ switchDepth = 0 /\ types = <<>>
    <3> SUFFICES ASSUME Doing("function") PROVE loopDepth = 0 /\ switchDepth = 0 /\ types = <<>>
      OBVIOUS
    <3>1. Checking /\ work # <<>> /\ Head(work)[1] = "function"
      BY DEF Doing
    <3>2. Quiet(Here)
      BY <3>1, NextIs DEF Ready
    <3>3. Chains
      BY DEF IInv
    <3>4. loopDepth = 0 /\ switchDepth = 0 /\ Len(types) = 0
      BY <3>2, <3>3, HereIs DEF Quiet
    <3>5. types = <<>>
      BY <3>3, <3>4 DEF Chains, AnySeq
    <3> QED BY <3>4, <3>5
  <2> QED BY <2>1, <2>2 DEF DepthsRestored
<1> QED BY <1>1, WayOut, PTL

\* Only functions get into the global table, however scopes were opened and
\* closed: every call is judged by a function (type_checker.py:24-54, 243).
THEOREM GlobalsHold == CheckerSpec => []GlobalsAreFunctions
<1>1. IInv => GlobalsAreFunctions
  BY DEF IInv
<1> QED BY <1>1, WayOut, PTL

=============================================================================
