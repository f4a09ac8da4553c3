---------------------------- MODULE LexerProofs ----------------------------
(***************************************************************************)
(* What the lexer makes of a text, for every text: where its tokens stand, *)
(* that nothing is lost between them, that each is the longest at its      *)
(* place and says what it is, and that it refuses only what is no token.   *)
(***************************************************************************)
EXTENDS Lexer, FiniteSetTheorems, SequenceTheorems, WellFoundedInduction, TLAPS

-----------------------------------------------------------------------------
(***************************************************************************)
(* Least and greatest elements.  Induction over numbers rests on them too: *)
(* a claim that fails nowhere first fails nowhere.                         *)
(***************************************************************************)

\* A set of naturals that is not empty has a least element, and Min names it.
LEMMA LeastElement ==
  ASSUME NEW S \in SUBSET Nat, S # {}
  PROVE  Min(S) \in S /\ \A y \in S : Min(S) <= y
<1>1. PICK x \in S : \A y \in S : ~(<<y, x>> \in OpToRel(<, Nat))
  BY NatLessThanWellFounded, WFMin
<1>2. ASSUME NEW y \in S PROVE x <= y
  <2>1. ~(<<y, x>> \in OpToRel(<, Nat))
    BY <1>1
  <2>2. ~(<<y, x>> \in {ss \in Nat \X Nat : ss[1] < ss[2]})
    BY <2>1 DEF OpToRel
  <2> QED BY <2>2
<1> QED BY <1>2 DEF Min

\* A bounded one has a greatest, and Max names it.
LEMMA GreatestElement ==
  ASSUME NEW n \in Nat, NEW S \in SUBSET (0..n), S # {}
  PROVE  Max(S) \in S /\ \A y \in S : Max(S) >= y
<1> DEFINE T == {n - x : x \in S}
<1>1. PICK z \in S : TRUE
  OBVIOUS
<1>2. n - z \in T
  BY <1>1
<1>3. T \in SUBSET Nat
  OBVIOUS
<1>4. PICK t \in T : \A u \in T : t <= u
  <2> HIDE DEF T
  <2> QED BY <1>2, <1>3, LeastElement
<1>5. PICK x \in S : t = n - x
  BY <1>4
<1>6. ASSUME NEW y \in S PROVE x >= y
  <2>1. n - y \in T
    OBVIOUS
  <2>2. t <= n - y
    BY <2>1, <1>4
  <2> QED BY <2>2, <1>5
<1> QED BY <1>5, <1>6 DEF Max

\* Where a scan for a set of places ends: at the first of them, or at the end.
LEMMA ScanEnd ==
  ASSUME NEW n \in Nat, NEW p \in 1..(n + 1), NEW S \in SUBSET (p..n)
  PROVE  LET q == Min(S \cup {n + 1})
         IN  /\ q \in p..(n + 1)
             /\ q \in S \/ q = n + 1
             /\ \A k \in p..(q - 1) : k \notin S
<1> DEFINE U == S \cup {n + 1}
<1>1. U \in SUBSET Nat /\ U # {} /\ n + 1 \in U
  OBVIOUS
<1>2. Min(U) \in U /\ \A y \in U : Min(U) <= y
  <2> HIDE DEF U
  <2> QED BY <1>1, LeastElement
<1>3. /\ \A x \in U : x \in p..(n + 1) /\ (x \in S \/ x = n + 1)
      /\ \A x \in S : x \in U
  OBVIOUS
<1>4. \A k \in p..(Min(U) - 1) : k \notin S
  <2> HIDE DEF U
  <2> QED BY <1>2, <1>3
<1>5. Min(U) \in p..(n + 1) /\ (Min(U) \in S \/ Min(U) = n + 1)
  <2> HIDE DEF U
  <2> QED BY <1>2, <1>3
<1> QED BY <1>4, <1>5

-----------------------------------------------------------------------------
(***************************************************************************)
(* The form of a state.                                                    *)
(***************************************************************************)
Verdicts == {"run", "done", "Unterminated string literal", "Unterminated char literal",
             "Unterminated escape in char literal", "Char literal must be single character",
             "Unknown character"}
Types  == {"KEYWORD", "BOOL_LIT", "IDENTIFIER", "NUMBER", "FLOAT_LIT", "STRING_LIT", "CHAR_LIT", "SYMBOL"}
Tokens == [type : Types, value : Seq(STRING), line : Int, column : Int]

Shape ==
  /\ text \in Texts
  /\ verdict \in Verdicts
  /\ pos \in 1..(N + 1) /\ line \in Int /\ column \in Int
  /\ toks \in Seq(Tokens) /\ spans \in Seq(Int \X Int)
  /\ Len(toks) = Len(spans)

\* Spans lie in what has been read.
SpansRead ==
  \A k \in DOMAIN spans : 1 <= spans[k][1] /\ spans[k][1] <= spans[k][2] /\ spans[k][2] < pos

\* The place the lexer is at.
AtPlace == line = LineAt(pos) /\ column = ColumnAt(pos)

\* A text is a sequence of characters.
LEMMA TextIs ==
  ASSUME text \in Texts
  PROVE  /\ text \in Seq(STRING) /\ N \in Nat /\ DOMAIN text = 1..N
         /\ \A k \in 1..N : text[k] \in STRING /\ text[k] # None
<1>1. text \in Seq(STRING) /\ None \notin {text[k] : k \in DOMAIN text}
  BY TextsAreTexts
<1>2. N \in Nat /\ DOMAIN text = 1..N /\ \A k \in 1..N : text[k] \in STRING
  BY <1>1, LenProperties, ElementOfSeq DEF N
<1> QED BY <1>1, <1>2

-----------------------------------------------------------------------------
(***************************************************************************)
(* Lines and columns.                                                      *)
(***************************************************************************)

\* Newlines are finitely many.
LEMMA EndsFinite ==
  ASSUME NEW p \in Int, NEW q \in Int
  PROVE  /\ IsFiniteSet(Ends(p, q)) /\ Cardinality(Ends(p, q)) \in Nat
         /\ p <= q => Cardinality(Ends(p, q)) <= q - p
<1>1. IsFiniteSet(p..(q - 1)) /\ Cardinality(p..(q - 1)) = IF p > q - 1 THEN 0 ELSE q - p
  BY FS_Interval
<1>2. Ends(p, q) \in SUBSET (p..(q - 1))
  BY DEF Ends
<1>3. IsFiniteSet(Ends(p, q)) /\ Cardinality(Ends(p, q)) <= Cardinality(p..(q - 1))
  BY <1>1, <1>2, FS_Subset
<1>4. Cardinality(Ends(p, q)) \in Nat
  BY <1>3, FS_CardinalityType
<1> QED BY <1>1, <1>3, <1>4

\* _adv over p to q - 1 leaves line and column where q is.
LEMMA LocationMoves ==
  ASSUME text \in Texts, NEW p \in 1..(N + 1), NEW q \in p..(N + 1),
         line = LineAt(p), column = ColumnAt(p)
  PROVE  Location(p, q).line = LineAt(q) /\ Location(p, q).column = ColumnAt(q)
<1>0. N \in Nat
  BY TextIs
<1> DEFINE A == Ends(1, p)  B == Ends(p, q)  C == Ends(1, q)
<1>1. C = A \cup B /\ A \cap B = {}
  BY <1>0 DEF Ends
<1>2. IsFiniteSet(A) /\ IsFiniteSet(B) /\ Cardinality(A) \in Nat /\ Cardinality(B) \in Nat
  <2>1. p \in Int /\ q \in Int
    BY <1>0
  <2> QED BY <2>1, EndsFinite
<1>3. Cardinality(C) = Cardinality(A) + Cardinality(B)
  <2> HIDE DEF A, B, C
  <2>1. Cardinality(A \cup B) = Cardinality(A) + Cardinality(B) - Cardinality(A \cap B)
    BY <1>2, FS_Union
  <2>2. Cardinality(A \cap B) = 0
    BY <1>1, FS_EmptySet
  <2> QED BY <2>1, <2>2, <1>1, <1>2
<1>4. Location(p, q).line = LineAt(q)
  BY <1>2, <1>3 DEF Location, LineAt, Ends
<1>5. CASE B = {}
  <2>1. Location(p, q).column = column + (q - p)
    BY <1>5 DEF Location, Ends
  <2>2. Ends(1, p) = Ends(1, q)
    BY <1>1, <1>5
  <2>3. (IF Ends(1, p) = {} THEN 0 ELSE Max(Ends(1, p))) \in Int
    <3>1. Ends(1, p) \in SUBSET (0..N)
      BY <1>0 DEF Ends
    <3>2. A # {} => Max(A) \in A
      <4> HIDE DEF A
      <4> QED BY <3>1, <1>0, GreatestElement DEF A
    <3> QED BY <3>1, <3>2, <1>0
  <2> QED BY <1>4, <2>1, <2>2, <2>3, <1>0 DEF ColumnAt
<1>6. CASE B # {}
  <2>1. B \in SUBSET (0..N) /\ C \in SUBSET (0..N) /\ C # {}
    BY <1>6, <1>1, <1>0 DEF Ends
  <2>2. Max(B) \in B /\ \A y \in B : Max(B) >= y
    <3> HIDE DEF B
    <3> QED BY <2>1, <1>6, <1>0, GreatestElement
  <2>3. Max(C) \in C /\ \A y \in C : Max(C) >= y
    <3> HIDE DEF C
    <3> QED BY <2>1, <1>0, GreatestElement
  <2>4. \A x \in A, y \in B : x < y
    BY <1>0 DEF Ends
  <2>5. Max(B) \in Int /\ Max(C) \in Int
    BY <2>1, <2>2, <2>3, <1>0
  <2>6. Max(B) = Max(C)
    <3> HIDE DEF A, B, C
    <3>1. Max(C) >= Max(B)
      BY <2>2, <2>3, <1>1
    <3>2. Max(C) \in B
      BY <2>2, <2>3, <2>4, <3>1, <1>1, <2>5
    <3> QED BY <2>2, <3>1, <3>2, <2>5
  <2>7. Location(p, q).column = q - Max(B)
    BY <1>6 DEF Location, Ends
  <2>8. ColumnAt(q) = q - Max(C)
    BY <2>1 DEF ColumnAt
  <2> QED BY <1>4, <2>6, <2>7, <2>8
<1> QED BY <1>4, <1>5, <1>6

\* Lines and columns stay within the text's length.
LEMMA PlaceBounds ==
  ASSUME text \in Texts, NEW p \in 1..(N + 1)
  PROVE  LineAt(p) \in 1..(N + 1) /\ ColumnAt(p) \in 1..(N + 1)
<1>0. N \in Nat
  BY TextIs
<1>1. Cardinality(Ends(1, p)) \in Nat /\ Cardinality(Ends(1, p)) <= p - 1
  BY <1>0, EndsFinite
<1>2. Ends(1, p) # {} => Max(Ends(1, p)) \in 1..(p - 1)
  <2> DEFINE E == Ends(1, p)
  <2>1. E \in SUBSET (0..N) /\ E \subseteq 1..(p - 1)
    BY <1>0 DEF Ends
  <2>2. E # {} => Max(E) \in E
    <3> HIDE DEF E
    <3> QED BY <2>1, <1>0, GreatestElement
  <2> QED BY <2>1, <2>2
<1> QED BY <1>0, <1>1, <1>2 DEF LineAt, ColumnAt

-----------------------------------------------------------------------------
(***************************************************************************)
(* Scans.                                                                  *)
(***************************************************************************)

\* After passes the characters of a sort, all of them, and nothing else.
LEMMA AfterPasses ==
  ASSUME text \in Texts, NEW p \in 1..(N + 1), NEW S
  PROVE  /\ After(p, S) \in p..(N + 1)
         /\ \A k \in p..(After(p, S) - 1) : text[k] \in S
         /\ After(p, S) <= N => text[After(p, S)] \notin S
<1>0. N \in Nat
  BY TextIs
<1> DEFINE T == {q \in p..N : text[q] \notin S}
<1>1. T \in SUBSET (p..N)
  OBVIOUS
<1>2. /\ Min(T \cup {N + 1}) \in p..(N + 1)
      /\ Min(T \cup {N + 1}) \in T \/ Min(T \cup {N + 1}) = N + 1
      /\ \A k \in p..(Min(T \cup {N + 1}) - 1) : k \notin T
  <2> HIDE DEF T
  <2> QED BY <1>0, <1>1, ScanEnd
<1>3. After(p, S) = Min(T \cup {N + 1})
  BY DEF After
<1>4. /\ After(p, S) \in p..(N + 1)
      /\ After(p, S) \in T \/ After(p, S) = N + 1
      /\ \A k \in p..(After(p, S) - 1) : k \notin T
  <2> HIDE DEF T
  <2> QED BY <1>2, <1>3
<1>5. ASSUME NEW k \in p..(After(p, S) - 1) PROVE text[k] \in S
  <2>1. k \in p..N /\ k \notin T
    <3> HIDE DEF T
    <3> QED BY <1>0, <1>4
  <2> QED BY <2>1
<1> QED BY <1>0, <1>4, <1>5

\* A comment ends where its line does.
LEMMA CommentEnds ==
  ASSUME text \in Texts, pos \in 1..N
  PROVE  CommentEnd \in pos..(N + 1) /\ \A k \in pos..(CommentEnd - 1) : text[k] # "\n"
<1>0. N \in Nat
  BY TextIs
<1> DEFINE T == {q \in pos..N : text[q] = "\n"}
<1>1. T \in SUBSET (pos..N)
  OBVIOUS
<1>2. /\ Min(T \cup {N + 1}) \in pos..(N + 1)
      /\ \A k \in pos..(Min(T \cup {N + 1}) - 1) : k \notin T
  <2>1. pos \in 1..(N + 1)
    BY <1>0
  <2> HIDE DEF T
  <2> QED BY <1>0, <1>1, <2>1, ScanEnd
<1>3. CommentEnd = Min(T \cup {N + 1})
  BY DEF CommentEnd
<1>4. CommentEnd \in pos..(N + 1) /\ \A k \in pos..(CommentEnd - 1) : k \notin T
  <2> HIDE DEF T
  <2> QED BY <1>2, <1>3
<1>5. ASSUME NEW k \in pos..(CommentEnd - 1) PROVE text[k] # "\n"
  <2>1. k \in pos..N /\ k \notin T
    <3> HIDE DEF T
    <3> QED BY <1>0, <1>4
  <2> QED BY <2>1
<1> QED BY <1>4, <1>5

-----------------------------------------------------------------------------
(***************************************************************************)
(* Strings.                                                                *)
(***************************************************************************)

\* Nothing is escaped by what stands before p.
LEMMA EscapedFirst ==
  ASSUME NEW p \in Int
  PROVE  ~Escaped(p, p)
<1>1. {j \in p..(p - 1) : \A i \in j..(p - 1) : text[i] = Backslash} = {}
  OBVIOUS
<1> QED BY <1>1, FS_EmptySet DEF Escaped

\* A place is escaped when the one before it is a backslash that is not.
LEMMA EscapedNext ==
  ASSUME NEW p \in Int, NEW k \in Int, p <= k
  PROVE  Escaped(p, k + 1) <=> text[k] = Backslash /\ ~Escaped(p, k)
<1> DEFINE Run(m) == {j \in p..(m - 1) : \A i \in j..(m - 1) : text[i] = Backslash}
<1>1. IsFiniteSet(Run(k)) /\ Cardinality(Run(k)) \in Nat
  <2>1. IsFiniteSet(p..(k - 1)) /\ Run(k) \in SUBSET (p..(k - 1))
    BY FS_Interval
  <2>2. IsFiniteSet(Run(k))
    <3> HIDE DEF Run
    <3> QED BY <2>1, FS_Subset
  <2> QED BY <2>2, FS_CardinalityType
<1>2. CASE text[k] # Backslash
  <2>1. Run(k + 1) = {}
    BY <1>2
  <2>2. Cardinality(Run(k + 1)) = 0
    <3> HIDE DEF Run
    <3> QED BY <2>1, FS_EmptySet
  <2>3. Escaped(p, k + 1) <=> Cardinality(Run(k + 1)) % 2 = 1
    BY DEF Escaped
  <2> HIDE DEF Run
  <2> QED BY <2>2, <2>3, <1>2
<1>3. CASE text[k] = Backslash
  <2>1. Run(k + 1) = Run(k) \cup {k} /\ k \notin Run(k)
    BY <1>3
  <2>2. Cardinality(Run(k + 1)) = Cardinality(Run(k)) + 1
    <3> HIDE DEF Run
    <3> QED BY <2>1, <1>1, FS_AddElement
  <2>3. (Cardinality(Run(k)) + 1) % 2 = 1 <=> ~(Cardinality(Run(k)) % 2 = 1)
    <3> HIDE DEF Run
    <3> QED BY <1>1
  <2> QED BY <2>2, <2>3, <1>3 DEF Escaped
<1> QED BY <1>2, <1>3

\* StringEnd is one turn after the other: the loop has what it goes on with at
\* every place from the opening quote on.
LEMMA StringEndTurns ==
  ASSUME text \in Texts, pos \in 1..N
  PROVE  \E f : /\ StringEnd = f[pos + 1]
                /\ \A q \in (pos + 1)..(N + 2) :
                     f[q] = IF q > N \/ text[q] = Quote THEN q
                            ELSE IF text[q] = Backslash THEN f[q + 2] ELSE f[q + 1]
<1>0. N \in Nat
  BY TextIs
<1> DEFINE D == (pos + 1)..(N + 2)
           Around(g, q) == IF q > N \/ text[q] = Quote THEN q
                           ELSE IF text[q] = Backslash THEN g[q + 2] ELSE g[q + 1]
           From(m) == (N + 2 - m)..(N + 2)
           Is(g, m) == g = [q \in From(m) |-> Around(g, q)]
           Bad == {m \in 0..(N + 1 - pos) : ~\E g : Is(g, m)}
<1>1. ASSUME NEW q \in D, NEW g, NEW h, \A j \in (q + 1)..(N + 2) : g[j] = h[j]
      PROVE  Around(g, q) = Around(h, q)
  <2>1. q <= N => g[q + 1] = h[q + 1] /\ g[q + 2] = h[q + 2]
    <3>1. q <= N => q + 1 \in (q + 1)..(N + 2) /\ q + 2 \in (q + 1)..(N + 2)
      BY <1>0
    <3> QED BY <3>1, <1>1
  <2>2. q > N \/ q <= N
    BY <1>0
  <2> QED BY <2>1, <2>2, Zenon
<1>2. \E g : Is(g, 0)
  <2> DEFINE g == [q \in From(0) |-> q]
  <2>1. ASSUME NEW q \in From(0) PROVE Around(g, q) = q
    <3>1. q > N
      BY <1>0
    <3> HIDE DEF g, From
    <3> QED BY <3>1
  <2>2. \A q \in From(0) : g[q] = q
    OBVIOUS
  <2>3. g = [q \in From(0) |-> g[q]]
    OBVIOUS
  <2>4. Is(g, 0)
    <3> HIDE DEF g, Around, From
    <3> QED BY <2>1, <2>2, <2>3
  <2> QED BY <2>4
<1>3. ASSUME NEW m \in 1..(N + 1 - pos), NEW g, Is(g, m - 1)
      PROVE  \E h : Is(h, m)
  <2> DEFINE h == [q \in From(m) |-> IF q = N + 2 - m THEN Around(g, q) ELSE g[q]]
  <2>0. \A j \in From(m - 1) : g[j] = Around(g, j)
    <3> HIDE DEF Around
    <3> QED BY <1>3
  <2>1. ASSUME NEW j \in (N + 3 - m)..(N + 2) PROVE h[j] = g[j]
    <3>1. j \in From(m) /\ j # N + 2 - m
      BY <1>0
    <3> HIDE DEF Around, From
    <3> QED BY <3>1
  <2>2. ASSUME NEW q \in From(m) PROVE h[q] = Around(h, q)
    <3>1. q \in D /\ \A j \in (q + 1)..(N + 2) : g[j] = h[j]
      <4> HIDE DEF h
      <4> QED BY <1>0, <2>1
    <3>2. Around(g, q) = Around(h, q)
      <4> HIDE DEF h, Around, D
      <4> QED BY <3>1, <1>1
    <3>3. h[q] = Around(g, q)
      <4>1. CASE q = N + 2 - m
        <5> HIDE DEF Around
        <5> QED BY <4>1
      <4>2. CASE q # N + 2 - m
        <5>1. q \in From(m - 1) /\ h[q] = g[q]
          BY <4>2, <1>0
        <5> HIDE DEF h, Around
        <5> QED BY <5>1, <2>0
      <4> QED BY <4>1, <4>2
    <3> QED BY <3>2, <3>3
  <2>3. h = [q \in From(m) |-> h[q]]
    OBVIOUS
  <2>4. Is(h, m)
    <3> HIDE DEF h, Around
    <3> QED BY <2>2, <2>3
  <2> QED BY <2>4
<1>4. \E g : Is(g, N + 1 - pos)
  <2> HIDE DEF Is
  <2>1. SUFFICES ASSUME N + 1 - pos \in Bad PROVE FALSE
    BY <1>0
  <2>2. Bad \in SUBSET Nat /\ Bad # {}
    BY <2>1, <1>0
  <2>3. PICK m \in Bad : \A k \in Bad : m <= k
    <3> HIDE DEF Bad
    <3> QED BY <2>2, LeastElement
  <2>4. m # 0
    BY <1>2, <2>3
  <2>5. m - 1 \in 0..(N + 1 - pos) /\ m - 1 \notin Bad /\ m \in 1..(N + 1 - pos)
    BY <2>3, <2>4, <1>0
  <2>6. PICK g : Is(g, m - 1)
    BY <2>5
  <2>7. \E h : Is(h, m)
    BY <1>3, <2>5, <2>6
  <2> QED BY <2>3, <2>7
<1> DEFINE f == CHOOSE g : g = [q \in D |-> Around(g, q)]
<1>5. f = [q \in D |-> Around(f, q)]
  <2>1. From(N + 1 - pos) = D
    BY <1>0
  <2>2. \E g : g = [q \in D |-> Around(g, q)]
    <3> HIDE DEF D, From, Around
    <3> QED BY <1>4, <2>1
  <2> HIDE DEF D, Around
  <2> QED BY <2>2
<1>6. \A q \in D : f[q] = Around(f, q)
  <2> HIDE DEF f, Around
  <2> QED BY <1>5
<1>7. StringEnd = f[pos + 1]
  BY DEF StringEnd
<1> HIDE DEF f
<1> QED BY <1>6, <1>7

\* From q on, e is the first quote that is not escaped, and past the text when
\* there is none.
Closes(q, e) ==
  /\ e \in q..(N + 2)
  /\ e <= N => text[e] = Quote /\ ~Escaped(pos + 1, e)
  /\ \A k \in q..N : k < e /\ text[k] = Quote => Escaped(pos + 1, k)

\* One turn of the loop: what the rest of the loop finds is found from here.
LEMMA StringTurn ==
  ASSUME text \in Texts, pos \in 1..N,
         NEW q \in (pos + 1)..(N + 2), ~Escaped(pos + 1, q), NEW end, NEW end1, NEW end2,
         q > N \/ text[q] = Quote => end = q,
         q <= N /\ text[q] = Backslash => end = end2,
         q <= N /\ text[q] # Quote /\ text[q] # Backslash => end = end1,
         q <= N /\ ~Escaped(pos + 1, q + 1) => Closes(q + 1, end1),
         q <= N /\ ~Escaped(pos + 1, q + 2) => Closes(q + 2, end2)
  PROVE  Closes(q, end)
<1>0. N \in Nat /\ pos \in Nat /\ q \in Int /\ q >= pos + 1 /\ q <= N + 2
  <2>1. N \in Nat
    BY TextIs
  <2> QED BY <2>1
<1>1. Escaped(pos + 1, q + 1) <=> text[q] = Backslash
  BY <1>0, EscapedNext
<1>2. Escaped(pos + 1, q + 2) <=> text[q + 1] = Backslash /\ ~Escaped(pos + 1, q + 1)
  <2>1. pos + 1 \in Int /\ q + 1 \in Int /\ pos + 1 <= q + 1 /\ (q + 1) + 1 = q + 2
    BY <1>0
  <2>2. Escaped(pos + 1, (q + 1) + 1) <=> text[q + 1] = Backslash /\ ~Escaped(pos + 1, q + 1)
    BY <2>1, EscapedNext
  <2> QED BY <2>1, <2>2
<1>3. CASE q > N
  <2>1. end = q
    BY <1>3
  <2> QED BY <1>0, <1>3, <2>1 DEF Closes
<1>4. CASE q <= N /\ text[q] = Quote
  <2>1. end = q
    BY <1>4
  <2> QED BY <1>0, <1>4, <2>1 DEF Closes
<1>5. CASE q <= N /\ text[q] = Backslash
  <2>1. end = end2 /\ Escaped(pos + 1, q + 1)
    BY <1>0, <1>1, <1>5
  <2>2. Closes(q + 2, end2)
    BY <1>2, <1>5, <2>1
  <2>3. \A k \in q..N : k = q \/ k = q + 1 \/ k \in (q + 2)..N
    BY <1>0
  <2> QED BY <1>0, <1>5, <2>1, <2>2, <2>3 DEF Closes
<1>6. CASE q <= N /\ text[q] # Quote /\ text[q] # Backslash
  <2>1. end = end1 /\ ~Escaped(pos + 1, q + 1)
    BY <1>0, <1>1, <1>6
  <2>2. Closes(q + 1, end1)
    BY <1>6, <2>1
  <2>3. \A k \in q..N : k = q \/ k \in (q + 1)..N
    BY <1>0
  <2> QED BY <1>0, <1>6, <2>1, <2>2, <2>3 DEF Closes
<1>7. q > N \/ q <= N
  BY <1>0
<1> QED BY <1>3, <1>4, <1>5, <1>6, <1>7

\* StringEnd is where the literal ends: no place is the last from which the loop
\* would go wrong.
LEMMA StringEnds ==
  ASSUME text \in Texts, pos \in 1..N
  PROVE  Closes(pos + 1, StringEnd)
<1>0. N \in Nat /\ pos \in Nat /\ pos <= N
  <2>1. N \in Nat
    BY TextIs
  <2> QED BY <2>1
<1>1. PICK f : /\ StringEnd = f[pos + 1]
               /\ \A q \in (pos + 1)..(N + 2) :
                    f[q] = IF q > N \/ text[q] = Quote THEN q
                           ELSE IF text[q] = Backslash THEN f[q + 2] ELSE f[q + 1]
  BY StringEndTurns
<1> DEFINE Fails(q) == ~Escaped(pos + 1, q) /\ ~Closes(q, f[q])
           Bad == {m \in 0..(N + 1 - pos) : Fails(N + 2 - m)}
<1> HIDE DEF Fails
<1>2. ASSUME NEW m \in 0..(N + 1 - pos), \A k \in 0..(m - 1) : ~Fails(N + 2 - k)
      PROVE  ~Fails(N + 2 - m)
  <2>1. PICK q \in (pos + 1)..(N + 2) : q = N + 2 - m
    BY <1>0
  <2>2. q <= N => ~Fails(q + 1) /\ ~Fails(q + 2)
    <3>1. q <= N => /\ N + 1 - q \in 0..(m - 1) /\ N + 2 - (N + 1 - q) = q + 1
                    /\ N - q \in 0..(m - 1) /\ N + 2 - (N - q) = q + 2
      BY <1>0, <2>1
    <3> QED BY <1>2, <3>1
  <2>3. f[q] = IF q > N \/ text[q] = Quote THEN q
               ELSE IF text[q] = Backslash THEN f[q + 2] ELSE f[q + 1]
    BY <1>1
  <2>4. ASSUME ~Escaped(pos + 1, q) PROVE Closes(q, f[q])
    <3>1. /\ q > N \/ text[q] = Quote => f[q] = q
          /\ q <= N /\ text[q] # Quote /\ text[q] = Backslash => f[q] = f[q + 2]
          /\ q <= N /\ text[q] # Quote /\ text[q] # Backslash => f[q] = f[q + 1]
      BY <2>3, <1>0
    <3>2. /\ q <= N /\ ~Escaped(pos + 1, q + 1) => Closes(q + 1, f[q + 1])
          /\ q <= N /\ ~Escaped(pos + 1, q + 2) => Closes(q + 2, f[q + 2])
      BY <2>2 DEF Fails
    <3>3. Quote # Backslash
      BY DEF Quote, Backslash
    <3> QED BY <2>4, <3>1, <3>2, <3>3, StringTurn
  <2> QED BY <2>1, <2>4 DEF Fails
<1>3. Bad = {}
  <2>1. Bad \in SUBSET Nat
    BY <1>0
  <2>2. SUFFICES ASSUME Bad # {} PROVE FALSE
    OBVIOUS
  <2>3. PICK m \in Bad : \A k \in Bad : m <= k
    <3> HIDE DEF Bad
    <3> QED BY <2>1, <2>2, LeastElement
  <2>4. m \in 0..(N + 1 - pos) /\ Fails(N + 2 - m)
    BY <2>3
  <2>5. ASSUME NEW k \in 0..(m - 1) PROVE ~Fails(N + 2 - k)
    <3>1. k \notin Bad /\ k \in 0..(N + 1 - pos)
      <4> HIDE DEF Bad
      <4> QED BY <1>0, <2>3, <2>4
    <3> QED BY <3>1
  <2> HIDE DEF Bad
  <2> QED BY <1>2, <2>4, <2>5
<1>4. ~Fails(pos + 1)
  <2>1. N + 1 - pos \in 0..(N + 1 - pos) /\ N + 2 - (N + 1 - pos) = pos + 1
    BY <1>0
  <2>2. ~Fails(N + 2 - (N + 1 - pos))
    BY <1>3, <2>1
  <2> QED BY <2>1, <2>2
<1>5. ~Escaped(pos + 1, pos + 1)
  BY <1>0, EscapedFirst
<1> QED BY <1>1, <1>4, <1>5 DEF Fails

-----------------------------------------------------------------------------
(***************************************************************************)
(* The sorts of tokens, told by their first character.                     *)
(***************************************************************************)
SymbolStart == SYMBOLS_1 \cup {"&", "|"}

\* A symbol of two characters begins with one that begins symbols.
LEMMA PairStarts ==
  ASSUME NEW c, NEW d, <<c, d>> \in SYMBOLS_2
  PROVE  c \in SymbolStart
  BY DEF SYMBOLS_2, SYMBOLS_1, SymbolStart

\* No character begins tokens of two sorts, and a point begins none.
LEMMA StartsApart ==
  /\ \A c \in WordStart : c \notin Digits /\ c # Quote /\ c # "'" /\ c \notin SymbolStart
  /\ \A c \in Digits : c \notin WordStart /\ c # Quote /\ c # "'" /\ c \notin SymbolStart
  /\ Quote # "'" /\ Quote \notin SymbolStart /\ "'" \notin SymbolStart
  /\ "." \notin Digits /\ None \notin Digits
<1>1. /\ SymbolStart \subseteq Marks /\ Quote \in Marks /\ "'" \in Marks /\ "." \in Marks
      /\ "_" \in Marks
  BY DEF SymbolStart, Marks
<1>2. "_" \notin SymbolStart /\ "'" \notin SymbolStart
  BY DEF SymbolStart, SYMBOLS_1
<1>3. Quote \notin SymbolStart /\ Quote # "'" /\ Quote # "_"
  BY Zenon DEF SymbolStart, SYMBOLS_1, Quote
<1> QED BY <1>1, <1>2, <1>3, SortsApart DEF WordStart

\* What token can stand at a place, by the character there.
LEMMA TokenSorts ==
  ASSUME NEW p \in Int, NEW q \in Int, IsToken(p, q)
  PROVE  \/ text[p] \in WordStart /\ IsWord(p, q)
         \/ text[p] \in Digits /\ IsNumber(p, q)
         \/ text[p] = Quote /\ IsString(p, q)
         \/ text[p] = "'" /\ IsChar(p, q)
         \/ text[p] \in SymbolStart /\ IsSymbol(p, q)
<1>1. CASE IsWord(p, q)
  BY <1>1 DEF IsWord
<1>2. CASE IsNumber(p, q)
  BY <1>2 DEF IsNumber, IsDigits, AllIn
<1>3. CASE IsString(p, q)
  BY <1>3 DEF IsString
<1>4. CASE IsChar(p, q)
  BY <1>4 DEF IsChar
<1>5. CASE IsSymbol(p, q)
  BY <1>5, PairStarts DEF IsSymbol, SymbolStart
<1> QED BY <1>1, <1>2, <1>3, <1>4, <1>5 DEF IsToken

\* Longest(q): what is read here as a token to q - 1 is one, and none is longer.
Longest(q) == IsToken(pos, q - 1) /\ \A z \in q..N : ~IsToken(pos, z)

\* A word goes to the last character a word may have.
LEMMA WordLongest ==
  ASSUME text \in Texts, pos \in 1..N, text[pos] \in WordStart
  PROVE  After(pos, WordPart) \in (pos + 1)..(N + 1) /\ Longest(After(pos, WordPart))
<1> DEFINE q == After(pos, WordPart)
<1>0. N \in Nat
  BY TextIs
<1>1. /\ q \in pos..(N + 1) /\ \A k \in pos..(q - 1) : text[k] \in WordPart
      /\ q <= N => text[q] \notin WordPart
  <2>1. pos \in 1..(N + 1)
    BY <1>0
  <2> QED BY <2>1, AfterPasses
<1>2. text[pos] \in WordPart
  BY DEF WordPart
<1> HIDE DEF q
<1>3. q \in (pos + 1)..(N + 1)
  BY <1>0, <1>1, <1>2
<1>4. IsToken(pos, q - 1)
  BY <1>1 DEF IsToken, IsWord, AllIn
<1>5. ASSUME NEW z \in q..N, IsToken(pos, z) PROVE FALSE
  <2>1. IsWord(pos, z)
    BY <1>0, <1>5, TokenSorts, StartsApart
  <2> QED BY <1>0, <1>1, <1>3, <2>1 DEF IsWord, AllIn
<1> QED BY <1>3, <1>4, <1>5 DEF q, Longest

\* So does a number without a fraction,
LEMMA NumberLongest ==
  ASSUME text \in Texts, pos \in 1..N, text[pos] \in Digits, ~Fraction(After(pos, Digits))
  PROVE  After(pos, Digits) \in (pos + 1)..(N + 1) /\ Longest(After(pos, Digits))
<1> DEFINE q == After(pos, Digits)
<1>0. N \in Nat
  BY TextIs
<1>1. /\ q \in pos..(N + 1) /\ \A k \in pos..(q - 1) : text[k] \in Digits
      /\ q <= N => text[q] \notin Digits
  <2>1. pos \in 1..(N + 1)
    BY <1>0
  <2> QED BY <2>1, AfterPasses
<1> HIDE DEF q
<1>2. q \in (pos + 1)..(N + 1)
  BY <1>0, <1>1
<1>3. IsToken(pos, q - 1)
  BY <1>0, <1>1, <1>2 DEF IsToken, IsNumber, IsDigits, AllIn
<1>4. ASSUME NEW z \in q..N, IsToken(pos, z) PROVE FALSE
  <2>1. IsNumber(pos, z)
    BY <1>0, <1>4, TokenSorts, StartsApart
  <2>2. ~IsDigits(pos, z)
    BY <1>0, <1>1, <1>2 DEF IsDigits, AllIn
  <2>3. PICK k \in pos..z : text[k] = "." /\ IsDigits(pos, k - 1) /\ IsDigits(k + 1, z)
    BY <2>1, <2>2 DEF IsNumber
  <2>4. k = q
    <3>1. k <= q
      BY <1>0, <1>1, <1>2, <2>3 DEF IsDigits, AllIn
    <3>2. ~(k < q)
      BY <1>0, <1>1, <1>2, <2>3, StartsApart
    <3> QED BY <1>0, <1>2, <3>1, <3>2
  <2>5. q + 1 \in 1..N /\ text[q + 1] \in Digits /\ text[q] = "."
    BY <1>0, <1>2, <2>3, <2>4 DEF IsDigits, AllIn
  <2>6. Fraction(q)
    BY <1>0, <1>2, <2>5 DEF Fraction, CharAt
  <2> QED BY <2>6 DEF q
<1> QED BY <1>2, <1>3, <1>4 DEF q, Longest

\* and one with a fraction.
LEMMA FractionLongest ==
  ASSUME text \in Texts, pos \in 1..N, text[pos] \in Digits, Fraction(After(pos, Digits))
  PROVE  LET q == After(pos, Digits)  z == After(q + 1, Digits)
         IN  z \in (pos + 1)..(N + 1) /\ Longest(z) /\ q \in pos..(z - 1) /\ text[q] = "."
<1> DEFINE q == After(pos, Digits)
           z == After(q + 1, Digits)
<1>0. N \in Nat /\ \A k \in 1..N : text[k] # None
  BY TextIs
<1>1. /\ q \in pos..(N + 1) /\ \A k \in pos..(q - 1) : text[k] \in Digits
      /\ q <= N => text[q] \notin Digits
  <2>1. pos \in 1..(N + 1)
    BY <1>0
  <2> QED BY <2>1, AfterPasses
<1>2. q + 1 \in 1..N /\ q \in 1..N /\ text[q + 1] \in Digits /\ text[q] = "."
  <2> HIDE DEF q
  <2>1. CharAt(q) = "." /\ CharAt(q + 1) \in Digits
    BY DEF q, Fraction
  <2>2. None # "." /\ None \notin Digits
    BY StartsApart, Zenon DEF None
  <2>3. q \in 1..N /\ q + 1 \in 1..N
    BY <1>0, <1>1, <2>1, <2>2 DEF CharAt
  <2> QED BY <2>1, <2>3 DEF CharAt
<1>3. /\ z \in (q + 1)..(N + 1) /\ \A k \in (q + 1)..(z - 1) : text[k] \in Digits
      /\ z <= N => text[z] \notin Digits
  <2> HIDE DEF q
  <2>1. q + 1 \in 1..(N + 1)
    BY <1>0, <1>2
  <2> QED BY <2>1, AfterPasses
<1> HIDE DEF q, z
<1>4. z \in (q + 2)..(N + 1) /\ z \in (pos + 1)..(N + 1) /\ q \in (pos + 1)..(z - 1)
  BY <1>0, <1>1, <1>2, <1>3, StartsApart
<1>5. IsToken(pos, z - 1)
  <2>1. IsDigits(pos, q - 1) /\ IsDigits(q + 1, z - 1)
    BY <1>0, <1>1, <1>3, <1>4 DEF IsDigits, AllIn
  <2>2. q \in pos..(z - 1)
    BY <1>0, <1>4
  <2> QED BY <1>2, <2>1, <2>2 DEF IsToken, IsNumber
<1>6. ASSUME NEW y \in z..N, IsToken(pos, y) PROVE FALSE
  <2>1. IsNumber(pos, y)
    BY <1>0, <1>4, <1>6, TokenSorts, StartsApart
  <2>2. ~IsDigits(pos, y)
    BY <1>0, <1>1, <1>2, <1>4, StartsApart DEF IsDigits, AllIn
  <2>3. PICK k \in pos..y : text[k] = "." /\ IsDigits(pos, k - 1) /\ IsDigits(k + 1, y)
    BY <2>1, <2>2 DEF IsNumber
  <2>4. k <= q
    BY <1>0, <1>1, <1>2, <1>4, <2>3 DEF IsDigits, AllIn
  <2> QED BY <1>0, <1>1, <1>3, <1>4, <2>3, <2>4 DEF IsDigits, AllIn
<1> QED BY <1>0, <1>2, <1>4, <1>5, <1>6 DEF q, z, Longest

\* A string ends with the first quote that is not escaped.
LEMMA StringLongest ==
  ASSUME text \in Texts, pos \in 1..N, text[pos] = Quote
  PROVE  /\ StringEnd <= N => StringEnd \in (pos + 1)..N /\ Longest(StringEnd + 1)
         /\ StringEnd > N => \A z \in pos..N : ~IsToken(pos, z)
<1>0. N \in Nat
  BY TextIs
<1>1. /\ StringEnd \in (pos + 1)..(N + 2)
      /\ StringEnd <= N => text[StringEnd] = Quote /\ ~Escaped(pos + 1, StringEnd)
      /\ \A k \in (pos + 1)..N : k < StringEnd /\ text[k] = Quote => Escaped(pos + 1, k)
  BY StringEnds DEF Closes
<1>2. ASSUME NEW z \in pos..N, IsToken(pos, z)
      PROVE  z > pos /\ ~(z < StringEnd) /\ ~(StringEnd < z)
  <2>1. IsString(pos, z)
    BY <1>0, <1>2, TokenSorts, StartsApart
  <2> QED BY <1>0, <1>1, <2>1 DEF IsString
<1>3. ASSUME StringEnd <= N PROVE IsToken(pos, StringEnd)
  <2>1. IsString(pos, StringEnd)
    BY <1>0, <1>1, <1>3 DEF IsString
  <2> QED BY <2>1 DEF IsToken
<1>4. StringEnd <= N => (StringEnd + 1) - 1 = StringEnd
  BY <1>0, <1>1
<1> QED BY <1>0, <1>1, <1>2, <1>3, <1>4 DEF Longest

\* A character is one, or one after a backslash, between single quotes.
LEMMA CharLongest ==
  ASSUME text \in Texts, pos \in 1..N, text[pos] = "'"
  PROVE  /\ CharPlace <= N /\ CharAt(CharPlace + 1) = "'" =>
              CharPlace + 1 \in (pos + 1)..N /\ Longest(CharPlace + 2)
         /\ CharPlace > N \/ CharAt(CharPlace + 1) # "'" => \A z \in pos..N : ~IsToken(pos, z)
<1>0. N \in Nat
  BY TextIs
<1>1. None # "'" /\ None # Backslash
  BY Zenon DEF None, Backslash
<1>2. ASSUME NEW z \in pos..N, IsToken(pos, z)
      PROVE  z = CharPlace + 1 /\ text[z] = "'"
  <2>1. IsChar(pos, z)
    BY <1>0, <1>2, TokenSorts, StartsApart
  <2> QED BY <1>0, <2>1 DEF IsChar, CharPlace, CharAt
<1>3. CharPlace \in (pos + 1)..(pos + 2) /\ CharPlace \in Int
  BY <1>0 DEF CharPlace
<1>4. ASSUME CharPlace <= N, CharAt(CharPlace + 1) = "'"
      PROVE  CharPlace + 1 \in (pos + 1)..N /\ IsToken(pos, CharPlace + 1)
  <2>1. CharPlace + 1 \in (pos + 1)..N /\ text[CharPlace + 1] = "'"
    BY <1>0, <1>1, <1>3, <1>4 DEF CharAt
  <2>2. IsChar(pos, CharPlace + 1)
    BY <1>0, <1>4, <2>1 DEF IsChar, CharPlace, CharAt
  <2> QED BY <2>1, <2>2 DEF IsToken
<1>5. ASSUME NEW z \in pos..N, IsToken(pos, z) PROVE CharAt(CharPlace + 1) = "'" /\ CharPlace <= N
  BY <1>0, <1>2, <1>3, <1>5 DEF CharAt
<1>6. (CharPlace + 2) - 1 = CharPlace + 1
  BY <1>3
<1> QED BY <1>0, <1>2, <1>3, <1>4, <1>5, <1>6 DEF Longest

\* A symbol takes a second character when there is a symbol of two.
LEMMA SymbolLongest ==
  ASSUME text \in Texts, pos \in 1..N
  PROVE  /\ Pairs => pos + 1 \in 1..N /\ Longest(pos + 2)
         /\ ~Pairs /\ text[pos] \in SYMBOLS_1 => Longest(pos + 1)
         /\ ~Pairs /\ text[pos] \notin SYMBOLS_1 => \A z \in pos..N : ~IsSymbol(pos, z)
<1>0. N \in Nat
  BY TextIs
<1>1. Pairs <=> pos + 1 \in 1..N /\ <<text[pos], text[pos + 1]>> \in SYMBOLS_2
  <2>1. \A c : <<c, None>> \notin SYMBOLS_2
    BY Zenon DEF SYMBOLS_2, None
  <2> QED BY <1>0, <2>1 DEF Pairs, CharAt
<1>2. ASSUME NEW z \in pos..N
      PROVE  IsSymbol(pos, z) <=> \/ z = pos /\ text[pos] \in SYMBOLS_1
                                  \/ z = pos + 1 /\ Pairs
  BY <1>0, <1>1 DEF IsSymbol
<1>3. ASSUME text[pos] \in SymbolStart, NEW z \in pos..N PROVE IsToken(pos, z) <=> IsSymbol(pos, z)
  BY <1>0, <1>3, TokenSorts, StartsApart DEF IsToken
<1>4. text[pos] \in SYMBOLS_1 \/ Pairs => text[pos] \in SymbolStart
  BY <1>1, PairStarts DEF SymbolStart
<1>5. ASSUME Pairs PROVE pos + 1 \in 1..N /\ Longest(pos + 2)
  <2>1. pos + 1 \in pos..N /\ (pos + 2) - 1 = pos + 1 /\ pos \in Int
    BY <1>0, <1>1, <1>5
  <2>2. IsToken(pos, pos + 1)
    BY <1>2, <1>5, <2>1 DEF IsToken
  <2>3. ASSUME NEW z \in (pos + 2)..N PROVE ~IsToken(pos, z)
    <3>1. z \in pos..N /\ z # pos /\ z # pos + 1
      BY <1>0, <2>1
    <3> QED BY <1>2, <1>3, <1>4, <1>5, <3>1
  <2> QED BY <1>1, <1>5, <2>1, <2>2, <2>3 DEF Longest
<1>6. ASSUME ~Pairs, text[pos] \in SYMBOLS_1 PROVE Longest(pos + 1)
  <2>1. pos \in pos..N /\ (pos + 1) - 1 = pos
    BY <1>0
  <2>2. IsToken(pos, pos)
    BY <1>2, <1>6, <2>1 DEF IsToken
  <2>3. ASSUME NEW z \in (pos + 1)..N PROVE ~IsToken(pos, z)
    <3>1. z \in pos..N /\ z # pos
      BY <1>0
    <3> QED BY <1>2, <1>3, <1>4, <1>6, <3>1
  <2> QED BY <2>1, <2>2, <2>3 DEF Longest
<1> QED BY <1>2, <1>5, <1>6

-----------------------------------------------------------------------------
(***************************************************************************)
(* The invariant, and what each way to end a turn does to it.              *)
(***************************************************************************)
IInv ==
  /\ Shape /\ SpansRead /\ AtPlace
  /\ LocationsTrue /\ NothingLost /\ LongestTaken /\ SpelledAgain /\ RefusedRightly

\* While the text stays, so does all that is said of it alone.
LEMMA TextStays ==
  ASSUME text' = text
  PROVE  /\ N' = N
         /\ \A p, q : IsToken(p, q)' <=> IsToken(p, q)
         /\ \A p, q : IsGap(p, q)' <=> IsGap(p, q)
         /\ \A p : LineAt(p)' = LineAt(p) /\ ColumnAt(p)' = ColumnAt(p)
         /\ \A type, value, p, q : Spells(type, value, p, q)' <=> Spells(type, value, p, q)
<1>1. N' = N
  BY DEF N
<1>2. \A p, q : IsToken(p, q)' <=> IsToken(p, q)
  BY DEF IsToken, IsWord, IsNumber, IsString, IsChar, IsSymbol, AllIn, IsDigits, Escaped
<1>3. \A p, q : IsGap(p, q)' <=> IsGap(p, q)
  BY <1>1 DEF IsGap
<1>4. \A p : LineAt(p)' = LineAt(p) /\ ColumnAt(p)' = ColumnAt(p)
  BY DEF LineAt, ColumnAt, Ends
<1>5. \A type, value, p, q : Spells(type, value, p, q)' <=> Spells(type, value, p, q)
  BY DEF Spells, AsItStands, Slice
<1> QED BY <1>1, <1>2, <1>3, <1>4, <1>5

\* A token that is the longest and says what it is may be taken.
LEMMA TokenKeeps ==
  ASSUME IInv, Going, NEW type \in Types, NEW value \in Seq(STRING),
         NEW q \in (pos + 1)..(N + 1), Longest(q), Spells(type, value, pos, q - 1),
         Token(type, value, q)
  PROVE  IInv'
<1>0. N \in Nat
  BY TextIs DEF IInv, Shape
<1>1. /\ text' = text /\ verdict' = verdict /\ pos' = q
      /\ toks' = Append(toks, [type |-> type, value |-> value, line |-> line, column |-> column])
      /\ spans' = Append(spans, <<pos, q - 1>>)
      /\ line' = Location(pos, q).line /\ column' = Location(pos, q).column
  BY DEF Token, Advance
<1>2. /\ text \in Texts /\ verdict = "run" /\ pos \in 1..N /\ line \in Int /\ column \in Int
      /\ line = LineAt(pos) /\ column = ColumnAt(pos)
      /\ toks \in Seq(Tokens) /\ spans \in Seq(Int \X Int) /\ Len(toks) = Len(spans)
  BY <1>0 DEF IInv, Shape, AtPlace, Going
<1> DEFINE t == [type |-> type, value |-> value, line |-> line, column |-> column]
           n == Len(spans)
<1>3. /\ n \in Nat /\ DOMAIN spans = 1..n /\ DOMAIN toks = 1..n
      /\ toks' \in Seq(Tokens) /\ Len(toks') = n + 1 /\ DOMAIN toks' = 1..(n + 1)
      /\ spans' \in Seq(Int \X Int) /\ Len(spans') = n + 1 /\ DOMAIN spans' = 1..(n + 1)
      /\ \A k \in 1..n : toks'[k] = toks[k] /\ spans'[k] = spans[k]
      /\ toks'[n + 1] = t /\ spans'[n + 1] = <<pos, q - 1>>
  <2>1. t \in Tokens /\ <<pos, q - 1>> \in Int \X Int
    BY <1>0, <1>2 DEF Tokens
  <2> HIDE DEF t
  <2>2. /\ Append(toks, t) \in Seq(Tokens) /\ Len(Append(toks, t)) = Len(toks) + 1
        /\ \A k \in 1..Len(toks) : Append(toks, t)[k] = toks[k]
        /\ Append(toks, t)[Len(toks) + 1] = t
    BY <1>2, <2>1, AppendProperties
  <2>3. /\ Append(spans, <<pos, q - 1>>) \in Seq(Int \X Int)
        /\ Len(Append(spans, <<pos, q - 1>>)) = n + 1
        /\ \A k \in 1..n : Append(spans, <<pos, q - 1>>)[k] = spans[k]
        /\ Append(spans, <<pos, q - 1>>)[n + 1] = <<pos, q - 1>>
    BY <1>2, <2>1, AppendProperties
  <2>4. Len(toks) \in Nat /\ DOMAIN toks = 1..Len(toks) /\ n \in Nat /\ DOMAIN spans = 1..n
    BY <1>2, LenProperties
  <2>5. toks' = Append(toks, t)
    BY <1>1 DEF t
  <2>6. DOMAIN toks' = 1..Len(toks') /\ DOMAIN spans' = 1..Len(spans')
    BY <1>1, <2>2, <2>3, <2>5, LenProperties
  <2> HIDE DEF n
  <2> QED BY <1>1, <1>2, <2>2, <2>3, <2>4, <2>5, <2>6 DEF n
<1>4. /\ N' = N
      /\ \A p, z : IsToken(p, z)' <=> IsToken(p, z)
      /\ \A p, z : IsGap(p, z)' <=> IsGap(p, z)
      /\ \A p : LineAt(p)' = LineAt(p) /\ ColumnAt(p)' = ColumnAt(p)
      /\ \A ty, v, p, z : Spells(ty, v, p, z)' <=> Spells(ty, v, p, z)
  BY <1>1, TextStays
<1>5. line' = LineAt(q) /\ column' = ColumnAt(q) /\ line' \in Int /\ column' \in Int
  <2>1. pos \in 1..(N + 1) /\ q \in pos..(N + 1) /\ q \in 1..(N + 1)
    BY <1>0, <1>2
  <2>2. line' = LineAt(q) /\ column' = ColumnAt(q)
    BY <1>1, <1>2, <2>1, LocationMoves
  <2> QED BY <1>0, <1>2, <2>1, <2>2, PlaceBounds
<1> HIDE DEF n, t
<1>6. Shape'
  BY <1>0, <1>1, <1>2, <1>3, <1>4, <1>5 DEF Shape, Verdicts
<1>7. SpansRead'
  <2> SUFFICES ASSUME NEW k \in 1..(n + 1)
               PROVE  1 <= spans'[k][1] /\ spans'[k][1] <= spans'[k][2] /\ spans'[k][2] < q
    BY <1>1, <1>3 DEF SpansRead
  <2>1. CASE k = n + 1
    BY <1>0, <1>2, <1>3, <2>1
  <2>2. CASE k \in 1..n
    <3>1. spans[k] \in Int \X Int
      BY <1>2, <1>3, <2>2, ElementOfSeq DEF n
    <3>2. 1 <= spans[k][1] /\ spans[k][1] <= spans[k][2] /\ spans[k][2] < pos
      BY <1>3, <2>2 DEF IInv, SpansRead
    <3>3. spans[k][1] \in Int /\ spans[k][2] \in Int /\ spans'[k] = spans[k]
      BY <1>3, <2>2, <3>1
    <3>4. pos < q /\ pos \in Int /\ q \in Int
      BY <1>0, <1>2
    <3> QED BY <3>2, <3>3, <3>4
  <2> QED BY <1>3, <2>1, <2>2
<1>8. AtPlace'
  BY <1>1, <1>4, <1>5 DEF AtPlace
<1>9. LocationsTrue'
  <2> SUFFICES ASSUME NEW k \in 1..(n + 1)
               PROVE  /\ toks'[k].line = LineAt(spans'[k][1])
                      /\ toks'[k].column = ColumnAt(spans'[k][1])
    BY <1>3, <1>4 DEF LocationsTrue
  <2>1. CASE k = n + 1
    BY <1>2, <1>3, <2>1 DEF t
  <2>2. CASE k \in 1..n
    BY <1>3, <2>2 DEF IInv, LocationsTrue
  <2> QED BY <1>3, <2>1, <2>2
<1>10. NothingLost'
  <2> SUFFICES ASSUME NEW k \in 1..(n + 2)
               PROVE  GapStart(k)' <= GapEnd(k)' + 1 /\ IsGap(GapStart(k)', GapEnd(k)')
    BY <1>3, <1>4 DEF NothingLost
  <2>1. CASE k = n + 2
    <3>1. k - 1 = n + 1 /\ k # 1
      BY <1>3, <2>1
    <3>2. GapStart(k)' = q - 1 + 1 /\ GapEnd(k)' = q - 1
      BY <1>1, <1>3, <2>1, <3>1 DEF GapStart, GapEnd
    <3> QED BY <1>0, <3>2 DEF IsGap
  <2>2. CASE k \in 1..(n + 1)
    <3>1. GapStart(k) <= GapEnd(k) + 1 /\ IsGap(GapStart(k), GapEnd(k))
      BY <1>3, <2>2 DEF IInv, NothingLost, n
    <3>2. GapStart(k)' = GapStart(k)
      <4>1. k = 1 \/ k - 1 \in 1..n
        BY <1>3, <2>2
      <4> QED BY <1>3, <4>1 DEF GapStart
    <3>3. GapEnd(k)' = GapEnd(k)
      <4>1. CASE k = n + 1
        BY <1>3, <4>1 DEF GapEnd, n
      <4>2. CASE k \in 1..n
        <5>1. k <= n /\ k <= n + 1 /\ spans'[k] = spans[k] /\ Len(spans') = n + 1
          BY <1>3, <4>2
        <5>2. k <= Len(spans) /\ k <= Len(spans')
          BY <5>1 DEF n
        <5> QED BY <5>1, <5>2 DEF GapEnd
      <4> QED BY <1>3, <2>2, <4>1, <4>2
    <3> QED BY <3>1, <3>2, <3>3
  <2> QED BY <1>3, <2>1, <2>2
<1>11. LongestTaken'
  <2> SUFFICES ASSUME NEW k \in 1..(n + 1)
               PROVE  /\ IsToken(spans'[k][1], spans'[k][2])
                      /\ \A z \in (spans'[k][2] + 1)..N : ~IsToken(spans'[k][1], z)
    BY <1>3, <1>4 DEF LongestTaken
  <2>1. CASE k = n + 1
    <3>1. q - 1 + 1 = q
      BY <1>0
    <3> QED BY <1>3, <2>1, <3>1 DEF Longest
  <2>2. CASE k \in 1..n
    BY <1>3, <2>2 DEF IInv, LongestTaken
  <2> QED BY <1>3, <2>1, <2>2
<1>12. SpelledAgain'
  <2> SUFFICES ASSUME NEW k \in 1..(n + 1)
               PROVE  Spells(toks'[k].type, toks'[k].value, spans'[k][1], spans'[k][2])
    BY <1>3, <1>4 DEF SpelledAgain
  <2>1. CASE k = n + 1
    BY <1>3, <2>1 DEF t
  <2>2. CASE k \in 1..n
    BY <1>3, <2>2 DEF IInv, SpelledAgain
  <2> QED BY <1>3, <2>1, <2>2
<1>13. RefusedRightly'
  BY <1>1, <1>2 DEF RefusedRightly
<1> QED BY <1>6, <1>7, <1>8, <1>9, <1>10, <1>11, <1>12, <1>13 DEF IInv

\* A blank or a comment may be passed over.
LEMMA SkipKeeps ==
  ASSUME IInv, Going, NEW q \in pos..(N + 1), IsGap(pos, q - 1), Skip(q)
  PROVE  IInv'
<1>0. N \in Nat
  BY TextIs DEF IInv, Shape
<1>1. /\ text' = text /\ verdict' = verdict /\ toks' = toks /\ spans' = spans /\ pos' = q
      /\ line' = Location(pos, q).line /\ column' = Location(pos, q).column
  BY DEF Skip, Advance
<1>2. /\ text \in Texts /\ verdict = "run" /\ pos \in 1..N /\ line \in Int /\ column \in Int
      /\ line = LineAt(pos) /\ column = ColumnAt(pos)
      /\ toks \in Seq(Tokens) /\ spans \in Seq(Int \X Int) /\ Len(toks) = Len(spans)
  BY <1>0 DEF IInv, Shape, AtPlace, Going
<1>3. Len(spans) \in Nat /\ DOMAIN spans = 1..Len(spans)
  BY <1>2, LenProperties
<1>4. /\ N' = N
      /\ \A p, z : IsToken(p, z)' <=> IsToken(p, z)
      /\ \A p, z : IsGap(p, z)' <=> IsGap(p, z)
      /\ \A p : LineAt(p)' = LineAt(p) /\ ColumnAt(p)' = ColumnAt(p)
      /\ \A ty, v, p, z : Spells(ty, v, p, z)' <=> Spells(ty, v, p, z)
  BY <1>1, TextStays
<1>5. line' = LineAt(q) /\ column' = ColumnAt(q) /\ line' \in Int /\ column' \in Int
  <2>1. pos \in 1..(N + 1) /\ q \in pos..(N + 1) /\ q \in 1..(N + 1)
    BY <1>0, <1>2
  <2>2. line' = LineAt(q) /\ column' = ColumnAt(q)
    BY <1>1, <1>2, <2>1, LocationMoves
  <2> QED BY <1>0, <1>2, <2>1, <2>2, PlaceBounds
<1>6. Shape'
  BY <1>0, <1>1, <1>2, <1>4, <1>5 DEF Shape, Verdicts
<1>7. SpansRead'
  <2> SUFFICES ASSUME NEW k \in DOMAIN spans
               PROVE  1 <= spans[k][1] /\ spans[k][1] <= spans[k][2] /\ spans[k][2] < q
    BY <1>1 DEF SpansRead
  <2>1. spans[k] \in Int \X Int
    BY <1>2, <1>3, ElementOfSeq
  <2>2. 1 <= spans[k][1] /\ spans[k][1] <= spans[k][2] /\ spans[k][2] < pos
    BY DEF IInv, SpansRead
  <2>3. spans[k][1] \in Int /\ spans[k][2] \in Int /\ pos <= q /\ pos \in Int /\ q \in Int
    BY <1>0, <1>2, <2>1
  <2> QED BY <2>2, <2>3
<1>8. AtPlace'
  BY <1>1, <1>4, <1>5 DEF AtPlace
<1>9. LocationsTrue' /\ LongestTaken' /\ SpelledAgain'
  BY <1>1, <1>4 DEF IInv, LocationsTrue, LongestTaken, SpelledAgain
<1>10. NothingLost'
  <2> SUFFICES ASSUME NEW k \in 1..(Len(spans) + 1)
               PROVE  GapStart(k)' <= GapEnd(k)' + 1 /\ IsGap(GapStart(k)', GapEnd(k)')
    BY <1>1, <1>4 DEF NothingLost
  <2>1. GapStart(k) <= GapEnd(k) + 1 /\ IsGap(GapStart(k), GapEnd(k))
    BY DEF IInv, NothingLost
  <2>2. GapStart(k)' = GapStart(k)
    BY <1>1 DEF GapStart
  <2>3. CASE k \in 1..Len(spans)
    <3>1. GapEnd(k)' = GapEnd(k)
      BY <1>1, <1>3, <2>3 DEF GapEnd
    <3> QED BY <2>1, <2>2, <3>1
  <2>4. CASE k = Len(spans) + 1
    <3>1. GapEnd(k)' = q - 1 /\ GapEnd(k) = pos - 1
      BY <1>1, <1>3, <2>4 DEF GapEnd
    <3>2. GapStart(k) \in Int
      <4>1. k = 1 \/ k - 1 \in 1..Len(spans)
        BY <1>3
      <4>2. k = 1 \/ spans[k - 1] \in Int \X Int
        BY <1>2, <4>1, ElementOfSeq
      <4> QED BY <4>2 DEF GapStart
    <3>3. GapStart(k) <= q
      BY <1>0, <1>2, <2>1, <3>1, <3>2
    <3>4. IsGap(GapStart(k), q - 1)
      <4>1. ASSUME NEW i \in GapStart(k)..(pos - 1), NEW from \in Int, from = GapStart(k)
            PROVE  \/ text[i] \in Blanks
                   \/ \E s \in from..i : /\ s < N /\ text[s] = "/" /\ text[s + 1] = "/"
                                        /\ \A j \in s..i : text[j] # "\n"
        BY <2>1, <3>1, <4>1 DEF IsGap
      <4>2. ASSUME NEW i \in pos..(q - 1)
            PROVE  \/ text[i] \in Blanks
                   \/ \E s \in GapStart(k)..i : /\ s < N /\ text[s] = "/" /\ text[s + 1] = "/"
                                               /\ \A j \in s..i : text[j] # "\n"
        <5>1. \A s \in pos..i : s \in GapStart(k)..i
          BY <1>0, <1>2, <2>1, <3>1, <3>2
        <5> QED BY <5>1 DEF IsGap
      <4>3. \A i \in GapStart(k)..(q - 1) : i \in GapStart(k)..(pos - 1) \/ i \in pos..(q - 1)
        BY <1>0, <1>2, <3>2
      <4> QED BY <3>2, <4>1, <4>2, <4>3 DEF IsGap
    <3>5. q - 1 + 1 = q
      BY <1>0
    <3> QED BY <2>2, <3>1, <3>3, <3>4, <3>5
  <2> QED BY <1>3, <2>3, <2>4
<1>11. RefusedRightly'
  BY <1>1, <1>2 DEF RefusedRightly
<1> QED BY <1>6, <1>7, <1>8, <1>9, <1>10, <1>11 DEF IInv

\* A text may be refused where no token begins, and the scan may end.
LEMMA EndKeeps ==
  ASSUME IInv, NEW why \in Verdicts, UNCHANGED <<text, pos, line, column, toks, spans>>,
         verdict' = why, why \notin {"run", "done"} => \A z \in pos..N : ~IsToken(pos, z)
  PROVE  IInv'
<1>1. /\ N' = N
      /\ \A p, z : IsToken(p, z)' <=> IsToken(p, z)
      /\ \A p, z : IsGap(p, z)' <=> IsGap(p, z)
      /\ \A p : LineAt(p)' = LineAt(p) /\ ColumnAt(p)' = ColumnAt(p)
      /\ \A ty, v, p, z : Spells(ty, v, p, z)' <=> Spells(ty, v, p, z)
  BY TextStays
<1>2. Shape'
  BY <1>1 DEF IInv, Shape
<1>3. SpansRead' /\ AtPlace'
  BY <1>1 DEF IInv, SpansRead, AtPlace
<1>4. LocationsTrue' /\ LongestTaken' /\ SpelledAgain'
  BY <1>1 DEF IInv, LocationsTrue, LongestTaken, SpelledAgain
<1>5. NothingLost'
  <2>1. \A k : GapStart(k)' = GapStart(k) /\ GapEnd(k)' = GapEnd(k)
    BY DEF GapStart, GapEnd
  <2> QED BY <1>1, <2>1 DEF IInv, NothingLost
<1>6. RefusedRightly'
  BY <1>1 DEF RefusedRightly
<1> QED BY <1>2, <1>3, <1>4, <1>5, <1>6 DEF IInv

-----------------------------------------------------------------------------
(***************************************************************************)
(* What each token keeps spells it.                                        *)
(***************************************************************************)
Symbols == {<<c>> : c \in SYMBOLS_1} \cup SYMBOLS_2

\* A part of the text, character by character.
LEMMA SliceIs ==
  ASSUME text \in Texts, NEW p \in 1..(N + 1), NEW q \in p..(N + 1)
  PROVE  /\ Slice(p, q) \in Seq(STRING) /\ Len(Slice(p, q)) = q - p
         /\ \A i \in 1..(q - p) : Slice(p, q)[i] = text[p + i - 1]
<1>0. N \in Nat /\ \A k \in 1..N : text[k] \in STRING
  BY TextIs
<1>1. p \in Int /\ q - 1 \in Int /\ \A i \in p..(q - 1) : text[i] \in STRING
  BY <1>0
<1>2. /\ SubSeq(text, p, q - 1) \in Seq(STRING)
      /\ Len(SubSeq(text, p, q - 1)) = IF p <= q - 1 THEN q - 1 - p + 1 ELSE 0
      /\ \A i \in 1..(q - 1 - p + 1) : SubSeq(text, p, q - 1)[i] = text[p + i - 1]
  BY <1>1, SubSeqProperties
<1> QED BY <1>0, <1>2 DEF Slice

\* Short sequences.
LEMMA Shorts ==
  ASSUME NEW S, NEW a \in S, NEW b \in S
  PROVE  /\ <<a>> \in Seq(S) /\ Len(<<a>>) = 1 /\ <<a>>[1] = a
         /\ <<a, b>> \in Seq(S) /\ Len(<<a, b>>) = 2 /\ <<a, b>>[1] = a /\ <<a, b>>[2] = b
  OBVIOUS

\* A sequence in three parts.
LEMMA ThreeParts ==
  ASSUME NEW s \in Seq(STRING), NEW x \in Seq(STRING), NEW y \in Seq(STRING), NEW z \in Seq(STRING),
         Len(s) = Len(x) + Len(y) + Len(z),
         \A i \in 1..Len(x) : s[i] = x[i],
         \A i \in 1..Len(y) : s[Len(x) + i] = y[i],
         \A i \in 1..Len(z) : s[Len(x) + Len(y) + i] = z[i]
  PROVE  s = x \o y \o z
<1>0. Len(x) \in Nat /\ Len(y) \in Nat /\ Len(z) \in Nat
  BY LenProperties
<1>1. /\ x \o y \in Seq(STRING) /\ Len(x \o y) = Len(x) + Len(y)
      /\ \A i \in 1..(Len(x) + Len(y)) : (x \o y)[i] = IF i <= Len(x) THEN x[i] ELSE y[i - Len(x)]
  BY ConcatProperties
<1> DEFINE xy == x \o y
<1>2. xy \in Seq(STRING)
  BY <1>1
<1> HIDE DEF xy
<1>3. /\ xy \o z \in Seq(STRING) /\ Len(xy \o z) = Len(xy) + Len(z)
      /\ \A i \in 1..(Len(xy) + Len(z)) : (xy \o z)[i] = IF i <= Len(xy) THEN xy[i] ELSE z[i - Len(xy)]
  BY <1>2, ConcatProperties
<1>4. ASSUME NEW i \in 1..Len(s) PROVE s[i] = (xy \o z)[i]
  <2>1. CASE i <= Len(x)
    BY <1>0, <1>1, <1>3, <2>1 DEF xy
  <2>2. CASE i > Len(x) /\ i <= Len(x) + Len(y)
    <3>1. i - Len(x) \in 1..Len(y) /\ Len(x) + (i - Len(x)) = i
      BY <1>0, <2>2
    <3> QED BY <1>0, <1>1, <1>3, <2>2, <3>1 DEF xy
  <2>3. CASE i > Len(x) + Len(y)
    <3>1. i - (Len(x) + Len(y)) \in 1..Len(z) /\ Len(x) + Len(y) + (i - (Len(x) + Len(y))) = i
      BY <1>0, <2>3
    <3>2. (xy \o z)[i] = z[i - (Len(x) + Len(y))]
      BY <1>0, <1>1, <1>3, <2>3 DEF xy
    <3> QED BY <3>1, <3>2
  <2>4. i <= Len(x) \/ (i > Len(x) /\ i <= Len(x) + Len(y)) \/ i > Len(x) + Len(y)
    BY <1>0
  <2> QED BY <2>1, <2>2, <2>3, <2>4
<1>5. Len(s) = Len(xy \o z)
  BY <1>0, <1>1, <1>3 DEF xy
<1>6. s = xy \o z
  BY <1>3, <1>4, <1>5, SeqEqual
<1> QED BY <1>6 DEF xy

\* The words of the tables, told by their first character.
LEMMA FirstOfWord ==
  /\ \A w \in KEYWORDS \cup BOOL_LITERALS : w[1] \in WordStart
  /\ \A w \in Symbols : w[1] \in SymbolStart
<1>1. \A w \in KEYWORDS \cup BOOL_LITERALS : w[1] \in WordStart
  BY WordsSpelled DEF WordStart
<1>2. ASSUME NEW w \in SYMBOLS_2 PROVE w[1] \in SymbolStart
  <2>1. PICK c, d : w = <<c, d>>
    BY Zenon DEF SYMBOLS_2
  <2>2. c \in SymbolStart
    BY <2>1, PairStarts
  <2> QED BY <2>1, <2>2
<1>3. ASSUME NEW w \in {<<c>> : c \in SYMBOLS_1} PROVE w[1] \in SymbolStart
  BY DEF SymbolStart
<1> QED BY <1>1, <1>2, <1>3 DEF Symbols

\* No word is a keyword and a literal.
LEMMA WordsApart == KEYWORDS \cap BOOL_LITERALS = {}
  BY DEF KEYWORDS, BOOL_LITERALS

\* A point is in no word, and in no symbol.
LEMMA NoPoint == "." \notin WordPart /\ "." \notin SYMBOLS_1
                   /\ \A c, d : <<c, d>> \in SYMBOLS_2 => c # "." /\ d # "."
<1>1. "." \in Marks /\ "." # "_"
  BY DEF Marks
<1>2. "." \notin WordPart
  BY <1>1, SortsApart DEF WordPart, WordStart
<1> QED BY <1>2 DEF SYMBOLS_1, SYMBOLS_2

\* Words and numbers are kept as they stand.
LEMMA PlainSpells ==
  ASSUME text \in Texts, pos \in 1..N, NEW q \in (pos + 1)..(N + 1), NEW type,
         \/ text[pos] \in WordStart /\ AllIn(pos, q - 1, WordPart) /\ type = WordType(Slice(pos, q))
         \/ text[pos] \in Digits /\ AllIn(pos, q - 1, Digits) /\ type = "NUMBER"
         \/ text[pos] \in Digits /\ (\E i \in pos..(q - 1) : text[i] = ".") /\ type = "FLOAT_LIT"
  PROVE  type \in Types /\ Slice(pos, q) \in Seq(STRING)
           /\ Spells(type, Slice(pos, q), pos, q - 1)
<1> DEFINE value == Slice(pos, q)
<1>0. N \in Nat
  BY TextIs
<1>1. q - 1 + 1 = q /\ pos \in 1..(N + 1) /\ q \in pos..(N + 1) /\ 1 \in 1..(q - pos)
        /\ pos + 1 - 1 = pos
  BY <1>0
<1>2. value \in Seq(STRING) /\ value[1] = text[pos]
  BY <1>1, SliceIs
<1>3. /\ value \in KEYWORDS \cup BOOL_LITERALS => text[pos] \in WordStart
      /\ value \in Symbols => text[pos] \in SymbolStart
  BY <1>2, FirstOfWord
<1> HIDE DEF value
<1>4. CASE text[pos] \in WordStart /\ AllIn(pos, q - 1, WordPart) /\ type = WordType(value)
  <2>1. /\ type \in {"KEYWORD", "BOOL_LIT", "IDENTIFIER"}
        /\ type = "KEYWORD" <=> value \in KEYWORDS
        /\ type = "BOOL_LIT" <=> value \in BOOL_LITERALS
    BY <1>4, WordsApart DEF WordType
  <2>2. text[pos] \notin Digits /\ value \notin Symbols
    BY <1>3, <1>4, StartsApart
  <2>3. ~\E i \in pos..(q - 1) : text[i] = "."
    BY <1>4, NoPoint DEF AllIn
  <2>4. AsItStands(type, value, pos, q - 1)
    BY <1>1, <2>1, <2>2, <2>3 DEF AsItStands, Symbols, value
  <2>5. type \in Types /\ type # "STRING_LIT" /\ type # "CHAR_LIT"
    BY <2>1 DEF Types
  <2> QED BY <1>2, <2>4, <2>5 DEF Spells, value
<1>5. CASE text[pos] \in Digits /\ AllIn(pos, q - 1, Digits) /\ type = "NUMBER"
  <2>1. value \notin Symbols /\ value \notin KEYWORDS /\ value \notin BOOL_LITERALS
    BY <1>3, <1>5, StartsApart
  <2>2. ~\E i \in pos..(q - 1) : text[i] = "."
    BY <1>5, StartsApart DEF AllIn
  <2>3. AsItStands(type, value, pos, q - 1)
    BY <1>1, <1>5, <2>1, <2>2 DEF AsItStands, Symbols, value
  <2>4. type \in Types /\ type # "STRING_LIT" /\ type # "CHAR_LIT"
    BY <1>5 DEF Types
  <2> QED BY <1>2, <2>3, <2>4 DEF Spells, value
<1>6. CASE text[pos] \in Digits /\ (\E i \in pos..(q - 1) : text[i] = ".") /\ type = "FLOAT_LIT"
  <2>1. value \notin Symbols /\ value \notin KEYWORDS /\ value \notin BOOL_LITERALS
    BY <1>3, <1>6, StartsApart
  <2>2. AsItStands(type, value, pos, q - 1)
    BY <1>1, <1>6, <2>1 DEF AsItStands, Symbols, value
  <2>3. type \in Types /\ type # "STRING_LIT" /\ type # "CHAR_LIT"
    BY <1>6 DEF Types
  <2> QED BY <1>2, <2>2, <2>3 DEF Spells, value
<1> QED BY <1>4, <1>5, <1>6 DEF value

\* A string is kept without its quotes.
LEMMA StringSpells ==
  ASSUME text \in Texts, pos \in 1..N, NEW e \in (pos + 1)..N, text[pos] = Quote, text[e] = Quote
  PROVE  Inside(e) \in Seq(STRING) /\ Spells("STRING_LIT", Inside(e), pos, e)
<1>0. N \in Nat /\ \A k \in 1..N : text[k] \in STRING
  BY TextIs
<1> DEFINE all == Slice(pos, e + 1)
           in  == Slice(pos + 1, e)
           q   == <<Quote>>
<1>1. all \in Seq(STRING) /\ Len(all) = e + 1 - pos /\ \A i \in 1..(e + 1 - pos) : all[i] = text[pos + i - 1]
  <2>1. pos \in 1..(N + 1) /\ e + 1 \in pos..(N + 1)
    BY <1>0
  <2> QED BY <2>1, SliceIs
<1>2. in \in Seq(STRING) /\ Len(in) = e - (pos + 1) /\ \A i \in 1..(e - (pos + 1)) : in[i] = text[pos + 1 + i - 1]
  <2>1. pos + 1 \in 1..(N + 1) /\ e \in (pos + 1)..(N + 1)
    BY <1>0
  <2> QED BY <2>1, SliceIs
<1>3. q \in Seq(STRING) /\ Len(q) = 1 /\ q[1] = Quote
  <2>1. Quote \in STRING
    BY <1>0
  <2> QED BY <2>1, Shorts
<1> HIDE DEF all, in, q
<1>4. \A i \in 1..1 : all[i] = q[i]
  BY <1>0, <1>1, <1>3
<1>5. ASSUME NEW i \in 1..(e - (pos + 1)) PROVE all[1 + i] = in[i]
  <2>1. 1 + i \in 1..(e + 1 - pos) /\ pos + (1 + i) - 1 = pos + 1 + i - 1
    BY <1>0
  <2> QED BY <1>1, <1>2, <2>1
<1>6. ASSUME NEW i \in 1..1 PROVE all[1 + (e - (pos + 1)) + i] = q[i]
  <2>1. 1 + (e - (pos + 1)) + i \in 1..(e + 1 - pos) /\ pos + (1 + (e - (pos + 1)) + i) - 1 = e /\ i = 1
    BY <1>0
  <2> QED BY <1>1, <1>3, <2>1
<1>7. Len(all) = Len(q) + Len(in) + Len(q)
  BY <1>0, <1>1, <1>2, <1>3
<1>8. all = q \o in \o q
  <2>1. /\ \A i \in 1..Len(q) : all[i] = q[i]
        /\ \A i \in 1..Len(in) : all[Len(q) + i] = in[i]
        /\ \A i \in 1..Len(q) : all[Len(q) + Len(in) + i] = q[i]
    BY <1>2, <1>3, <1>4, <1>5, <1>6
  <2> QED BY <1>1, <1>2, <1>3, <1>7, <2>1, ThreeParts
<1> QED BY <1>2, <1>8 DEF Spells, Inside, all, in, q

\* A character is kept without its quotes and its backslash.
LEMMA CharSpells ==
  ASSUME text \in Texts, pos \in 1..N, text[pos] = "'", CharPlace <= N,
         CharPlace + 1 \in (pos + 1)..N, text[CharPlace + 1] = "'"
  PROVE  <<text[CharPlace]>> \in Seq(STRING) /\ Spells("CHAR_LIT", <<text[CharPlace]>>, pos, CharPlace + 1)
<1>0. N \in Nat /\ \A k \in 1..N : text[k] \in STRING
  BY TextIs
<1> DEFINE all == Slice(pos, CharPlace + 2)
           in  == <<text[CharPlace]>>
           q   == <<"'">>
<1>1. \/ CharPlace = pos + 1
      \/ CharPlace = pos + 2 /\ text[pos + 1] = Backslash
  BY <1>0 DEF CharPlace, CharAt
<1>2. /\ all \in Seq(STRING) /\ Len(all) = (CharPlace + 2) - pos
      /\ \A i \in 1..((CharPlace + 2) - pos) : all[i] = text[pos + i - 1]
  <2>1. pos \in 1..(N + 1) /\ CharPlace + 2 \in pos..(N + 1)
    BY <1>0, <1>1
  <2> QED BY <2>1, SliceIs
<1>3. CharPlace \in 1..N /\ text[CharPlace] \in STRING
  BY <1>0, <1>1
<1>4. /\ in \in Seq(STRING) /\ Len(in) = 1 /\ in[1] = text[CharPlace]
      /\ q \in Seq(STRING) /\ Len(q) = 1 /\ q[1] = "'"
  <2>1. "'" \in STRING
    BY <1>0
  <2> QED BY <1>3, <2>1, Shorts
<1>5. all = q \o in \o q \/ all = <<"'", Backslash>> \o in \o q
  <2>1. CASE CharPlace = pos + 1
    <3>1. /\ Len(all) = 3 /\ all[1] = text[pos] /\ all[2] = text[pos + 1] /\ all[3] = text[pos + 2]
          /\ text[pos + 1] = in[1] /\ text[pos + 2] = "'"
      <4> HIDE DEF all, in
      <4> QED BY <1>0, <1>2, <1>4, <2>1
    <3> HIDE DEF all, in, q
    <3>2. Len(all) = Len(q) + Len(in) + Len(q)
      BY <1>4, <3>1
    <3>3. /\ \A i \in 1..Len(q) : all[i] = q[i]
          /\ \A i \in 1..Len(in) : all[Len(q) + i] = in[i]
          /\ \A i \in 1..Len(q) : all[Len(q) + Len(in) + i] = q[i]
      BY <1>4, <3>1
    <3>4. all = q \o in \o q
      BY <1>2, <1>4, <3>2, <3>3, ThreeParts
    <3> QED BY <3>4
  <2>2. CASE CharPlace = pos + 2 /\ text[pos + 1] = Backslash
    <3> DEFINE r == <<"'", Backslash>>
    <3>0. r \in Seq(STRING) /\ Len(r) = 2 /\ r[1] = "'" /\ r[2] = Backslash
      <4>1. "'" \in STRING /\ Backslash \in STRING
        BY <1>0, <1>3, <2>2
      <4> QED BY <4>1, Shorts
    <3>1. /\ Len(all) = 4 /\ all[1] = text[pos] /\ all[2] = text[pos + 1] /\ all[3] = text[pos + 2]
          /\ all[4] = text[pos + 3]
          /\ text[pos + 2] = in[1] /\ text[pos + 3] = "'"
      <4> HIDE DEF all, in
      <4> QED BY <1>0, <1>2, <1>4, <2>2
    <3> HIDE DEF all, in, q, r
    <3>2. Len(all) = Len(r) + Len(in) + Len(q)
      BY <1>4, <3>0, <3>1
    <3>3. /\ \A i \in 1..Len(r) : all[i] = r[i]
          /\ \A i \in 1..Len(in) : all[Len(r) + i] = in[i]
          /\ \A i \in 1..Len(q) : all[Len(r) + Len(in) + i] = q[i]
      BY <1>4, <2>2, <3>0, <3>1
    <3>4. all = r \o in \o q
      BY <1>2, <1>4, <3>0, <3>2, <3>3, ThreeParts
    <3> QED BY <3>4 DEF r
  <2> QED BY <1>1, <2>1, <2>2
<1>6. CharPlace + 1 + 1 = CharPlace + 2
  BY <1>3
<1> HIDE DEF all
<1> QED BY <1>4, <1>5, <1>6 DEF Spells, all

\* A symbol is kept as it stands.
LEMMA SymbolSpells ==
  ASSUME text \in Texts, pos \in 1..N, NEW q \in {pos + 1, pos + 2}, q <= N + 1, NEW value,
         \/ q = pos + 1 /\ text[pos] \in SYMBOLS_1 /\ value = <<text[pos]>>
         \/ q = pos + 2 /\ <<text[pos], text[pos + 1]>> \in SYMBOLS_2 /\ value = Slice(pos, q)
  PROVE  value \in Seq(STRING) /\ Spells("SYMBOL", value, pos, q - 1)
<1>0. N \in Nat /\ \A k \in 1..N : text[k] \in STRING
  BY TextIs
<1>1. q - 1 + 1 = q /\ pos \in 1..(N + 1) /\ q \in pos..(N + 1) /\ pos \in Int
  BY <1>0
<1> DEFINE all == Slice(pos, q)
<1>2. /\ all \in Seq(STRING) /\ Len(all) = q - pos
      /\ \A i \in 1..(q - pos) : all[i] = text[pos + i - 1]
  BY <1>1, SliceIs
<1> HIDE DEF all
<1>3. text[pos] \in SymbolStart
  BY PairStarts DEF SymbolStart
<1>4. all = value /\ value \in Symbols
  <2>1. CASE q = pos + 1 /\ text[pos] \in SYMBOLS_1 /\ value = <<text[pos]>>
    <3>1. Len(all) = 1 /\ all[1] = text[pos]
      BY <1>0, <1>2, <2>1
    <3>2. all = <<text[pos]>>
      BY <1>2, <3>1
    <3> QED BY <2>1, <3>2 DEF Symbols
  <2>2. CASE q = pos + 2 /\ <<text[pos], text[pos + 1]>> \in SYMBOLS_2 /\ value = Slice(pos, q)
    <3>1. Len(all) = 2 /\ all[1] = text[pos] /\ all[2] = text[pos + 1]
      BY <1>0, <1>2, <2>2
    <3>2. all = <<text[pos], text[pos + 1]>>
      BY <1>2, <3>1
    <3> QED BY <2>2, <3>2 DEF Symbols, all
  <2> QED BY <2>1, <2>2
<1>5. value[1] = text[pos]
  <2>1. 1 \in 1..(q - pos) /\ pos + 1 - 1 = pos
    BY <1>1
  <2> QED BY <1>2, <1>4, <2>1
<1>6. value \notin KEYWORDS /\ value \notin BOOL_LITERALS /\ text[pos] \notin Digits
  BY <1>3, <1>5, FirstOfWord, StartsApart
<1>7. ~\E i \in pos..(q - 1) : text[i] = "."
  BY <1>1, NoPoint
<1>8. AsItStands("SYMBOL", value, pos, q - 1)
  BY <1>1, <1>4, <1>6, <1>7 DEF AsItStands, Symbols, all
<1> QED BY <1>2, <1>4, <1>8 DEF Spells

-----------------------------------------------------------------------------
(***************************************************************************)
(* Every turn keeps the invariant.                                         *)
(***************************************************************************)

\* Before the first turn nothing is read, and the place is line 1, column 1.
LEMMA StartHolds == Init => IInv
<1> SUFFICES ASSUME Init PROVE IInv
  OBVIOUS
<1>0. N \in Nat /\ text \in Texts
  <2>1. text \in Texts
    BY DEF Init
  <2> QED BY <2>1, TextIs
<1>1. /\ pos = 1 /\ line = 1 /\ column = 1 /\ toks = <<>> /\ spans = <<>> /\ verdict = "run"
      /\ Len(toks) = 0 /\ Len(spans) = 0 /\ DOMAIN toks = {} /\ DOMAIN spans = {}
  BY DEF Init
<1>2. Shape
  <2>1. toks \in Seq(Tokens) /\ spans \in Seq(Int \X Int)
    BY <1>1
  <2>2. pos \in 1..(N + 1) /\ line \in Int /\ column \in Int
    BY <1>0, <1>1
  <2> QED BY <1>0, <1>1, <2>1, <2>2 DEF Shape, Verdicts
<1>3. AtPlace
  <2>1. Ends(1, 1) = {}
    BY DEF Ends
  <2>2. LineAt(1) = 1 /\ ColumnAt(1) = 1
    BY <2>1, FS_EmptySet DEF LineAt, ColumnAt
  <2> QED BY <1>1, <2>2 DEF AtPlace
<1>4. NothingLost
  <2> SUFFICES ASSUME NEW k \in 1..(Len(spans) + 1)
               PROVE  GapStart(k) <= GapEnd(k) + 1 /\ IsGap(GapStart(k), GapEnd(k))
    BY DEF NothingLost
  <2>1. k = 1
    BY <1>1
  <2>2. GapStart(k) = 1 /\ GapEnd(k) = 0
    BY <1>1, <2>1 DEF GapStart, GapEnd
  <2> QED BY <2>2 DEF IsGap
<1> QED BY <1>1, <1>2, <1>3, <1>4 DEF IInv, SpansRead, LocationsTrue, LongestTaken, SpelledAgain,
                                      RefusedRightly

\* Where a turn begins there is a character.
LEMMA TurnBegins ==
  ASSUME IInv, Going
  PROVE  text \in Texts /\ N \in Nat /\ pos \in 1..N
<1>1. text \in Texts /\ pos \in 1..(N + 1) /\ pos <= N
  BY DEF IInv, Shape, Going
<1>2. N \in Nat
  BY <1>1, TextIs
<1> QED BY <1>1, <1>2

LEMMA BlankKeeps == ASSUME IInv, Blank PROVE IInv'
<1>1. Going /\ text[pos] \in Blanks /\ Skip(pos + 1)
  BY DEF Blank
<1>2. N \in Nat /\ pos \in 1..N
  BY <1>1, TurnBegins
<1>3. pos + 1 \in pos..(N + 1) /\ pos..((pos + 1) - 1) = {pos}
  BY <1>2
<1>4. IsGap(pos, (pos + 1) - 1)
  BY <1>1, <1>3 DEF IsGap
<1> QED BY <1>1, <1>3, <1>4, SkipKeeps

LEMMA CommentKeeps == ASSUME IInv, Comment PROVE IInv'
<1>1. Going /\ CharAt(pos) = "/" /\ CharAt(pos + 1) = "/" /\ Skip(CommentEnd)
  BY DEF Comment, InComment
<1>2. text \in Texts /\ N \in Nat /\ pos \in 1..N
  BY <1>1, TurnBegins
<1>3. pos < N /\ text[pos] = "/" /\ text[pos + 1] = "/"
  <2>1. None # "/"
    BY Zenon DEF None
  <2> QED BY <1>1, <1>2, <2>1 DEF CharAt
<1>4. CommentEnd \in pos..(N + 1) /\ \A k \in pos..(CommentEnd - 1) : text[k] # "\n"
  BY <1>2, CommentEnds
<1>5. IsGap(pos, CommentEnd - 1)
  <2> SUFFICES ASSUME NEW k \in pos..(CommentEnd - 1)
               PROVE  \E s \in pos..k : /\ s < N /\ text[s] = "/" /\ text[s + 1] = "/"
                                        /\ \A i \in s..k : text[i] # "\n"
    BY DEF IsGap
  <2>1. pos \in pos..k /\ \A i \in pos..k : i \in pos..(CommentEnd - 1)
    BY <1>2, <1>4
  <2> QED BY <1>3, <1>4, <2>1
<1> QED BY <1>1, <1>4, <1>5, SkipKeeps

LEMMA WordKeeps == ASSUME IInv, Word PROVE IInv'
<1> DEFINE q == After(pos, WordPart)
<1>1. Going /\ text[pos] \in WordStart /\ Token(WordType(Slice(pos, q)), Slice(pos, q), q)
  BY DEF Word
<1>2. text \in Texts /\ N \in Nat /\ pos \in 1..N
  BY <1>1, TurnBegins
<1>3. q \in (pos + 1)..(N + 1) /\ Longest(q)
  BY <1>1, <1>2, WordLongest
<1>4. AllIn(pos, q - 1, WordPart)
  <2>1. pos \in 1..(N + 1)
    BY <1>2
  <2> QED BY <1>2, <2>1, AfterPasses DEF AllIn
<1> HIDE DEF q
<1>5. /\ WordType(Slice(pos, q)) \in Types /\ Slice(pos, q) \in Seq(STRING)
      /\ Spells(WordType(Slice(pos, q)), Slice(pos, q), pos, q - 1)
  BY <1>1, <1>2, <1>3, <1>4, PlainSpells
<1> QED BY <1>1, <1>3, <1>5, TokenKeeps

LEMMA NumberKeeps == ASSUME IInv, Number PROVE IInv'
<1> DEFINE q == After(pos, Digits)
           z == After(q + 1, Digits)
<1>1. /\ Going /\ text[pos] \in Digits
      /\ Fraction(q) => Token("FLOAT_LIT", Slice(pos, z), z)
      /\ ~Fraction(q) => Token("NUMBER", Slice(pos, q), q)
  BY DEF Number
<1>2. text \in Texts /\ N \in Nat /\ pos \in 1..N
  BY <1>1, TurnBegins
<1>3. CASE Fraction(q)
  <2>1. z \in (pos + 1)..(N + 1) /\ Longest(z) /\ q \in pos..(z - 1) /\ text[q] = "."
    BY <1>1, <1>2, <1>3, FractionLongest
  <2> HIDE DEF q, z
  <2>2. /\ "FLOAT_LIT" \in Types /\ Slice(pos, z) \in Seq(STRING)
        /\ Spells("FLOAT_LIT", Slice(pos, z), pos, z - 1)
    BY <1>1, <1>2, <2>1, PlainSpells
  <2> QED BY <1>1, <1>3, <2>1, <2>2, TokenKeeps
<1>4. CASE ~Fraction(q)
  <2>1. q \in (pos + 1)..(N + 1) /\ Longest(q)
    BY <1>1, <1>2, <1>4, NumberLongest
  <2>2. AllIn(pos, q - 1, Digits)
    <3>1. pos \in 1..(N + 1)
      BY <1>2
    <3> QED BY <1>2, <3>1, AfterPasses DEF AllIn
  <2> HIDE DEF q, z
  <2>3. /\ "NUMBER" \in Types /\ Slice(pos, q) \in Seq(STRING)
        /\ Spells("NUMBER", Slice(pos, q), pos, q - 1)
    BY <1>1, <1>2, <2>1, <2>2, PlainSpells
  <2> QED BY <1>1, <1>4, <2>1, <2>3, TokenKeeps
<1> QED BY <1>3, <1>4

LEMMA StringKeeps == ASSUME IInv, String PROVE IInv'
<1>1. /\ Going /\ text[pos] = Quote
      /\ StringEnd > N => Raise("Unterminated string literal")
      /\ ~(StringEnd > N) => Token("STRING_LIT", Inside(StringEnd), StringEnd + 1)
  BY DEF String
<1>2. text \in Texts /\ N \in Nat /\ pos \in 1..N
  BY <1>1, TurnBegins
<1>3. /\ StringEnd <= N => StringEnd \in (pos + 1)..N /\ Longest(StringEnd + 1)
      /\ StringEnd > N => \A z \in pos..N : ~IsToken(pos, z)
  BY <1>1, <1>2, StringLongest
<1>4. StringEnd \in (pos + 1)..(N + 2) /\ (StringEnd <= N => text[StringEnd] = Quote)
  BY <1>2, StringEnds DEF Closes
<1>5. CASE StringEnd > N
  <2>1. "Unterminated string literal" \in Verdicts
    BY DEF Verdicts
  <2> QED BY <1>1, <1>3, <1>5, <2>1, EndKeeps DEF Raise
<1>6. CASE StringEnd <= N
  <2>1. StringEnd \in (pos + 1)..N /\ Longest(StringEnd + 1) /\ text[StringEnd] = Quote
    BY <1>3, <1>4, <1>6
  <2>2. /\ StringEnd + 1 \in (pos + 1)..(N + 1) /\ (StringEnd + 1) - 1 = StringEnd
        /\ ~(StringEnd > N)
    BY <1>2, <2>1
  <2>3. Inside(StringEnd) \in Seq(STRING) /\ Spells("STRING_LIT", Inside(StringEnd), pos, StringEnd)
    BY <1>1, <1>2, <2>1, StringSpells
  <2>4. "STRING_LIT" \in Types
    BY DEF Types
  <2> QED BY <1>1, <2>1, <2>2, <2>3, <2>4, TokenKeeps
<1>7. StringEnd > N \/ StringEnd <= N
  BY <1>2, <1>4
<1> QED BY <1>5, <1>6, <1>7

LEMMA CharKeeps == ASSUME IInv, Char PROVE IInv'
<1> DEFINE c == CharPlace
<1>1. /\ Going /\ text[pos] = "'"
      /\ \/ CharAt(pos + 1) = None /\ Raise("Unterminated char literal")
         \/ CharAt(pos + 1) # None /\ c > N /\ Raise("Unterminated escape in char literal")
         \/ c <= N /\ CharAt(c + 1) # "'" /\ Raise("Char literal must be single character")
         \/ c <= N /\ CharAt(c + 1) = "'" /\ Token("CHAR_LIT", <<text[c]>>, c + 2)
  BY DEF Char
<1>2. /\ text \in Texts /\ N \in Nat /\ pos \in 1..N /\ \A k \in 1..N : text[k] # None
      /\ c \in {pos + 1, pos + 2}
  BY <1>1, TurnBegins, TextIs DEF CharPlace
<1>3. /\ c <= N /\ CharAt(c + 1) = "'" => c + 1 \in (pos + 1)..N /\ Longest(c + 2)
      /\ c > N \/ CharAt(c + 1) # "'" => \A z \in pos..N : ~IsToken(pos, z)
  BY <1>1, <1>2, CharLongest
<1>4. None # Backslash /\ None # "'"
  BY Zenon DEF None, Backslash
<1>5. CharAt(pos + 1) = None => c > N
  BY <1>2, <1>4 DEF CharAt, CharPlace
<1>6. CASE c <= N /\ CharAt(c + 1) = "'" /\ Token("CHAR_LIT", <<text[c]>>, c + 2)
  <2>1. c + 1 \in (pos + 1)..N /\ Longest(c + 2)
    BY <1>3, <1>6
  <2>2. c + 2 \in (pos + 1)..(N + 1) /\ (c + 2) - 1 = c + 1 /\ c + 1 \in 1..N
    BY <1>2, <2>1
  <2>3. text[c + 1] = "'"
    BY <1>6, <2>2 DEF CharAt
  <2>4. <<text[c]>> \in Seq(STRING) /\ Spells("CHAR_LIT", <<text[c]>>, pos, c + 1)
    BY <1>1, <1>2, <1>6, <2>1, <2>3, CharSpells
  <2>5. "CHAR_LIT" \in Types
    BY DEF Types
  <2> HIDE DEF c
  <2> QED BY <1>1, <1>6, <2>1, <2>2, <2>4, <2>5, TokenKeeps
<1>7. CASE \E why \in Verdicts : Raise(why) /\ (c > N \/ CharAt(c + 1) # "'")
  <2>1. PICK why \in Verdicts : Raise(why) /\ (c > N \/ CharAt(c + 1) # "'")
    BY <1>7
  <2>2. \A z \in pos..N : ~IsToken(pos, z)
    BY <1>3, <2>1
  <2> QED BY <2>1, <2>2, EndKeeps DEF Raise
<1>8. /\ "Unterminated char literal" \in Verdicts
      /\ "Unterminated escape in char literal" \in Verdicts
      /\ "Char literal must be single character" \in Verdicts
  BY DEF Verdicts
<1> HIDE DEF c
<1> QED BY <1>1, <1>5, <1>6, <1>7, <1>8

LEMMA SymbolKeeps == ASSUME IInv, Symbol PROVE IInv'
<1>1. /\ Going
      /\ \/ Pairs /\ Token("SYMBOL", Slice(pos, pos + 2), pos + 2)
         \/ ~Pairs /\ text[pos] \in SYMBOLS_1 /\ Token("SYMBOL", <<text[pos]>>, pos + 1)
  BY DEF Symbol
<1>2. text \in Texts /\ N \in Nat /\ pos \in 1..N
  BY <1>1, TurnBegins
<1>3. /\ Pairs => pos + 1 \in 1..N /\ Longest(pos + 2)
      /\ ~Pairs /\ text[pos] \in SYMBOLS_1 => Longest(pos + 1)
  BY <1>2, SymbolLongest
<1>4. "SYMBOL" \in Types
  BY DEF Types
<1>5. CASE Pairs /\ Token("SYMBOL", Slice(pos, pos + 2), pos + 2)
  <2> DEFINE q == pos + 2
  <2>1. pos + 1 \in 1..N /\ q \in (pos + 1)..(N + 1) /\ q <= N + 1
    BY <1>2, <1>3, <1>5
  <2>2. <<text[pos], text[pos + 1]>> \in SYMBOLS_2
    BY <1>2, <1>5, <2>1 DEF Pairs, CharAt
  <2>3. Slice(pos, q) \in Seq(STRING) /\ Spells("SYMBOL", Slice(pos, q), pos, q - 1)
    <3>1. q \in {pos + 1, pos + 2} /\ q = pos + 2
      OBVIOUS
    <3> HIDE DEF q
    <3> QED BY <1>2, <2>1, <2>2, <3>1, SymbolSpells
  <2>4. Longest(q) /\ Token("SYMBOL", Slice(pos, q), q)
    BY <1>3, <1>5
  <2> HIDE DEF q
  <2> QED BY <1>1, <1>4, <2>1, <2>3, <2>4, TokenKeeps
<1>6. CASE ~Pairs /\ text[pos] \in SYMBOLS_1 /\ Token("SYMBOL", <<text[pos]>>, pos + 1)
  <2> DEFINE q == pos + 1
             value == <<text[pos]>>
  <2>1. q \in (pos + 1)..(N + 1) /\ q <= N + 1
    BY <1>2
  <2>2. q \in {pos + 1, pos + 2} /\ q = pos + 1 /\ value = <<text[pos]>>
    OBVIOUS
  <2>3. value \in Seq(STRING) /\ Spells("SYMBOL", value, pos, q - 1)
    <3> HIDE DEF q, value
    <3> QED BY <1>2, <1>6, <2>1, <2>2, SymbolSpells
  <2>4. Longest(q) /\ Token("SYMBOL", value, q)
    BY <1>3, <1>6
  <2> HIDE DEF q, value
  <2> QED BY <1>1, <1>4, <2>1, <2>3, <2>4, TokenKeeps
<1> QED BY <1>1, <1>5, <1>6

LEMMA UnknownKeeps == ASSUME IInv, Unknown PROVE IInv'
<1>1. /\ Going /\ ~Pairs /\ Raise("Unknown character")
      /\ text[pos] \notin WordPart /\ text[pos] \notin SYMBOLS_1 /\ text[pos] # Quote /\ text[pos] # "'"
  BY DEF Unknown
<1>2. text \in Texts /\ N \in Nat /\ pos \in 1..N
  BY <1>1, TurnBegins
<1>3. text[pos] \notin WordStart /\ text[pos] \notin Digits
  BY <1>1 DEF WordPart
<1>4. \A z \in pos..N : ~IsSymbol(pos, z)
  BY <1>1, <1>2, SymbolLongest
<1>5. ASSUME NEW z \in pos..N PROVE ~IsToken(pos, z)
  <2>1. pos \in Int /\ z \in Int
    BY <1>2
  <2> QED BY <1>1, <1>3, <1>4, <2>1, TokenSorts
<1>6. "Unknown character" \in Verdicts
  BY DEF Verdicts
<1> QED BY <1>1, <1>5, <1>6, EndKeeps DEF Raise

LEMMA FinishKeeps == ASSUME IInv, Finish PROVE IInv'
<1>1. "done" \in Verdicts
  BY DEF Verdicts
<1>2. verdict' = "done" /\ UNCHANGED <<text, pos, line, column, toks, spans>>
  BY DEF Finish
<1> QED BY <1>1, <1>2, EndKeeps

LEMMA StillKeeps == ASSUME IInv, UNCHANGED vars PROVE IInv'
<1>1. verdict \in Verdicts /\ (verdict \notin {"run", "done"} => \A z \in pos..N : ~IsToken(pos, z))
  BY DEF IInv, Shape, RefusedRightly
<1>2. verdict' = verdict /\ UNCHANGED <<text, pos, line, column, toks, spans>>
  BY DEF vars
<1> QED BY <1>1, <1>2, EndKeeps

\* The invariant holds for every text, of any length, over any letters and
\* digits: what is read so far was read without loss, in longest tokens that say
\* what they are and where they stand (lexer.py:16-118).
THEOREM LexerInvariant == Spec => []IInv
<1>1. Init => IInv
  BY StartHolds
<1>2. IInv /\ [Next]_vars => IInv'
  BY BlankKeeps, CommentKeeps, WordKeeps, NumberKeeps, StringKeeps, CharKeeps, SymbolKeeps,
     UnknownKeeps, FinishKeeps, StillKeeps DEF Next, Turn
<1> QED BY <1>1, <1>2, PTL DEF Spec

\* The scanner stays inside the text, on lines and columns the text has, and
\* every token says the line and column its first character stands on, whatever
\* newlines, comments and many-line literals lie before it (lexer.py:20-28, 47).
THEOREM PlacesStayTrue == Spec => []PlacesTrue
<1>1. IInv => PlacesTrue
  <2> SUFFICES ASSUME IInv PROVE PlacesTrue
    OBVIOUS
  <2>1. text \in Texts /\ pos \in 1..(N + 1) /\ line = LineAt(pos) /\ column = ColumnAt(pos)
    BY DEF IInv, Shape, AtPlace
  <2>2. line \in 1..(N + 1) /\ column \in 1..(N + 1)
    BY <2>1, PlaceBounds
  <2> QED BY <2>1, <2>2 DEF IInv, Shape, Verdicts, PlacesTrue, TypeOK
<1> QED BY <1>1, LexerInvariant, PTL

\* No character of any text is lost or read twice: what lies between tokens, or
\* after the last, is blanks and comments, and no comment swallows the line after
\* its own (lexer.py:36-45).
THEOREM NothingIsLost == Spec => []NothingLost
<1>1. IInv => NothingLost
  BY DEF IInv
<1> QED BY <1>1, LexerInvariant, PTL

\* Every token is the longest at its place, one of the language its type names,
\* and keeps the characters it was made of (lexer.py:49-114).
THEOREM TokensAreRight == Spec => []TokensRight
<1>1. IInv => TokensRight
  BY DEF IInv, TokensRight
<1> QED BY <1>1, LexerInvariant, PTL

\* The lexer raises only in a turn that began where no token begins: no text is
\* refused at a place from which it could have been read on
\* (lexer.py:81-98, 116).
THEOREM RefusalsAreRight == Spec => []RefusedRightly
<1>1. IInv => RefusedRightly
  BY DEF IInv
<1> QED BY <1>1, LexerInvariant, PTL

=============================================================================
