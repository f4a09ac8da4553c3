----------------------------- MODULE ListLemmas -----------------------------
(***************************************************************************)
(* Lists of whatever it may be, for the proofs about the parser and the    *)
(* checker: both keep what is left to do in one, and put new things before *)
(* it.                                                                     *)
(***************************************************************************)
EXTENDS Integers, Sequences, WellFoundedInduction, TLAPS

-----------------------------------------------------------------------------
(***************************************************************************)
(* Sequences of whatever they are sequences of.                            *)
(***************************************************************************)
AnySeq(s) == s \in Seq({s[k] : k \in DOMAIN s})

LEMMA SeqIs ==
  ASSUME NEW S, NEW s \in Seq(S)
  PROVE  AnySeq(s) /\ Len(s) \in Nat /\ DOMAIN s = 1..Len(s)
<1>1. Len(s) \in Nat /\ DOMAIN s = 1..Len(s) /\ s \in [1..Len(s) -> S]
  OBVIOUS
<1>2. s \in [1..Len(s) -> {s[k] : k \in DOMAIN s}]
  BY <1>1
<1> QED BY <1>1, <1>2 DEF AnySeq

LEMMA AnySeqIs ==
  ASSUME NEW s, AnySeq(s)
  PROVE  Len(s) \in Nat /\ DOMAIN s = 1..Len(s)
  BY DEF AnySeq

LEMMA FunctionIsSeq ==
  ASSUME NEW n \in Nat, NEW S, NEW f \in [1..n -> S]
  PROVE  AnySeq(f) /\ Len(f) = n
<1>1. f \in Seq(S)
  OBVIOUS
<1> QED BY <1>1, SeqIs

\* One list before another.
LEMMA ConcatIs ==
  ASSUME NEW s, NEW t, AnySeq(s), AnySeq(t)
  PROVE  /\ AnySeq(s \o t)
         /\ Len(s \o t) = Len(s) + Len(t)
         /\ \A k \in 1..Len(s) : (s \o t)[k] = s[k]
         /\ \A k \in 1..Len(t) : (s \o t)[Len(s) + k] = t[k]
<1> DEFINE S == {s[k] : k \in DOMAIN s} \cup {t[k] : k \in DOMAIN t}
<1>1. s \in Seq(S) /\ t \in Seq(S)
  BY DEF AnySeq
<1> HIDE DEF S
<1>2. s \o t \in Seq(S)
  BY <1>1
<1>3. AnySeq(s \o t)
  BY <1>2, SeqIs
<1> QED BY <1>1, <1>3

LEMMA AppendIs ==
  ASSUME NEW s, AnySeq(s), NEW v
  PROVE  AnySeq(Append(s, v))
<1> DEFINE S == {s[k] : k \in DOMAIN s} \cup {v}
<1>1. s \in Seq(S)
  BY DEF AnySeq
<1>2. Append(s, v) \in Seq(S)
  BY <1>1
<1> QED BY <1>2, SeqIs

LEMMA ConsIs ==
  ASSUME NEW a, NEW t, AnySeq(t)
  PROVE  /\ AnySeq(<<a>> \o t) /\ Len(<<a>> \o t) = Len(t) + 1 /\ (<<a>> \o t)[1] = a
         /\ \A k \in 2..(Len(t) + 1) : (<<a>> \o t)[k] = t[k - 1]
<1>1. AnySeq(<<a>>) /\ Len(<<a>>) = 1 /\ Len(t) \in Nat
  BY AnySeqIs DEF AnySeq
<1>2. ASSUME NEW k \in 2..(Len(t) + 1) PROVE (<<a>> \o t)[k] = t[k - 1]
  <2>1. k - 1 \in 1..Len(t) /\ k = 1 + (k - 1)
    BY <1>1
  <2> QED BY <2>1, <1>1, ConcatIs
<1> QED BY <1>1, <1>2, ConcatIs

LEMMA Tuple2 ==
  ASSUME NEW h1, NEW h2
  PROVE  <<h1>> \o <<h2>> = <<h1, h2>>
<1> DEFINE x == <<h1>> \o <<h2>>
<1>1. AnySeq(<<h2>>) /\ Len(<<h2>>) = 1
  BY DEF AnySeq
<1>2. AnySeq(x) /\ Len(x) = 2 /\ x[1] = h1 /\ x[2] = h2
  BY <1>1, ConsIs
<1> HIDE DEF x
<1>3. x = <<h1, h2>>
  BY <1>2 DEF AnySeq
<1> QED BY <1>3 DEF x

LEMMA Tuple3 ==
  ASSUME NEW h1, NEW h2, NEW h3
  PROVE  <<h1>> \o <<h2, h3>> = <<h1, h2, h3>>
<1> DEFINE x == <<h1>> \o <<h2, h3>>
<1>1. AnySeq(<<h2, h3>>) /\ Len(<<h2, h3>>) = 2
  BY DEF AnySeq
<1>2. AnySeq(x) /\ Len(x) = 3 /\ x[1] = h1 /\ x[2] = h2 /\ x[3] = h3
  BY <1>1, ConsIs
<1> HIDE DEF x
<1>3. x = <<h1, h2, h3>>
  BY <1>2 DEF AnySeq
<1> QED BY <1>3 DEF x

LEMMA Tuple2And1 ==
  ASSUME NEW h1, NEW h2, NEW h3
  PROVE  <<h1, h2>> \o <<h3>> = <<h1, h2, h3>>
<1> DEFINE x == <<h1, h2>> \o <<h3>>
<1>1. AnySeq(<<h1, h2>>) /\ Len(<<h1, h2>>) = 2 /\ AnySeq(<<h3>>) /\ Len(<<h3>>) = 1
  BY DEF AnySeq
<1>2. AnySeq(x) /\ Len(x) = 3 /\ x[1] = h1 /\ x[2] = h2 /\ x[2 + 1] = h3
  BY <1>1, ConcatIs
<1> HIDE DEF x
<1>3. x = <<h1, h2, h3>>
  BY <1>2 DEF AnySeq
<1> QED BY <1>3 DEF x

LEMMA Tuple4 ==
  ASSUME NEW h1, NEW h2, NEW h3, NEW h4
  PROVE  <<h1>> \o <<h2, h3, h4>> = <<h1, h2, h3, h4>>
<1> DEFINE x == <<h1>> \o <<h2, h3, h4>>
<1>1. AnySeq(<<h2, h3, h4>>) /\ Len(<<h2, h3, h4>>) = 3
  BY DEF AnySeq
<1>2. /\ AnySeq(x) /\ Len(x) = 4
      /\ x[1] = h1 /\ x[2] = h2 /\ x[3] = h3 /\ x[4] = h4
  BY <1>1, ConsIs
<1> HIDE DEF x
<1>3. x = <<h1, h2, h3, h4>>
  BY <1>2 DEF AnySeq
<1> QED BY <1>3 DEF x

LEMMA Tuple5 ==
  ASSUME NEW h1, NEW h2, NEW h3, NEW h4, NEW h5
  PROVE  <<h1>> \o <<h2, h3, h4, h5>> = <<h1, h2, h3, h4, h5>>
<1> DEFINE x == <<h1>> \o <<h2, h3, h4, h5>>
<1>1. AnySeq(<<h2, h3, h4, h5>>) /\ Len(<<h2, h3, h4, h5>>) = 4
  BY DEF AnySeq
<1>2. /\ AnySeq(x) /\ Len(x) = 5
      /\ x[1] = h1 /\ x[2] = h2 /\ x[3] = h3 /\ x[4] = h4 /\ x[5] = h5
  BY <1>1, ConsIs
<1> HIDE DEF x
<1>3. x = <<h1, h2, h3, h4, h5>>
  BY <1>2 DEF AnySeq
<1> QED BY <1>3 DEF x

LEMMA Tuple6 ==
  ASSUME NEW h1, NEW h2, NEW h3, NEW h4, NEW h5, NEW h6
  PROVE  <<h1>> \o <<h2, h3, h4, h5, h6>> = <<h1, h2, h3, h4, h5, h6>>
<1> DEFINE x == <<h1>> \o <<h2, h3, h4, h5, h6>>
<1>1. AnySeq(<<h2, h3, h4, h5, h6>>) /\ Len(<<h2, h3, h4, h5, h6>>) = 5
  BY DEF AnySeq
<1>2. /\ AnySeq(x) /\ Len(x) = 6
      /\ x[1] = h1 /\ x[2] = h2 /\ x[3] = h3 /\ x[4] = h4 /\ x[5] = h5 /\ x[6] = h6
  BY <1>1, ConsIs
<1> HIDE DEF x
<1>3. x = <<h1, h2, h3, h4, h5, h6>>
  BY <1>2 DEF AnySeq
<1> QED BY <1>3 DEF x

LEMMA Tuple7 ==
  ASSUME NEW h1, NEW h2, NEW h3, NEW h4, NEW h5, NEW h6, NEW h7
  PROVE  <<h1>> \o <<h2, h3, h4, h5, h6, h7>> = <<h1, h2, h3, h4, h5, h6, h7>>
<1> DEFINE x == <<h1>> \o <<h2, h3, h4, h5, h6, h7>>
<1>1. AnySeq(<<h2, h3, h4, h5, h6, h7>>) /\ Len(<<h2, h3, h4, h5, h6, h7>>) = 6
  BY DEF AnySeq
<1>2. /\ AnySeq(x) /\ Len(x) = 7
      /\ x[1] = h1 /\ x[2] = h2 /\ x[3] = h3 /\ x[4] = h4 /\ x[5] = h5 /\ x[6] = h6 /\ x[7] = h7
  BY <1>1, ConsIs
<1> HIDE DEF x
<1>3. x = <<h1, h2, h3, h4, h5, h6, h7>>
  BY <1>2 DEF AnySeq
<1> QED BY <1>3 DEF x

LEMMA Tuple8 ==
  ASSUME NEW h1, NEW h2, NEW h3, NEW h4, NEW h5, NEW h6, NEW h7, NEW h8
  PROVE  <<h1>> \o <<h2, h3, h4, h5, h6, h7, h8>> = <<h1, h2, h3, h4, h5, h6, h7, h8>>
<1> DEFINE x == <<h1>> \o <<h2, h3, h4, h5, h6, h7, h8>>
<1>1. AnySeq(<<h2, h3, h4, h5, h6, h7, h8>>) /\ Len(<<h2, h3, h4, h5, h6, h7, h8>>) = 7
  BY DEF AnySeq
<1>2. /\ AnySeq(x) /\ Len(x) = 8
      /\ x[1] = h1 /\ x[2] = h2 /\ x[3] = h3 /\ x[4] = h4 /\ x[5] = h5 /\ x[6] = h6 /\ x[7] = h7 /\ x[8] = h8
  BY <1>1, ConsIs
<1> HIDE DEF x
<1>3. x = <<h1, h2, h3, h4, h5, h6, h7, h8>>
  BY <1>2 DEF AnySeq
<1> QED BY <1>3 DEF x

LEMMA Tuple9 ==
  ASSUME NEW h1, NEW h2, NEW h3, NEW h4, NEW h5, NEW h6, NEW h7, NEW h8, NEW h9
  PROVE  <<h1>> \o <<h2, h3, h4, h5, h6, h7, h8, h9>> = <<h1, h2, h3, h4, h5, h6, h7, h8, h9>>
<1> DEFINE x == <<h1>> \o <<h2, h3, h4, h5, h6, h7, h8, h9>>
<1>1. AnySeq(<<h2, h3, h4, h5, h6, h7, h8, h9>>) /\ Len(<<h2, h3, h4, h5, h6, h7, h8, h9>>) = 8
  BY DEF AnySeq
<1>2. /\ AnySeq(x) /\ Len(x) = 9
      /\ x[1] = h1 /\ x[2] = h2 /\ x[3] = h3 /\ x[4] = h4 /\ x[5] = h5 /\ x[6] = h6 /\ x[7] = h7 /\ x[8] = h8 /\ x[9] = h9
  BY <1>1, ConsIs
<1> HIDE DEF x
<1>3. x = <<h1, h2, h3, h4, h5, h6, h7, h8, h9>>
  BY <1>2 DEF AnySeq
<1> QED BY <1>3 DEF x

LEMMA SubSeqIs ==
  ASSUME NEW s, AnySeq(s), NEW a \in 1..(Len(s) + 1)
  PROVE  /\ AnySeq(SubSeq(s, a, Len(s)))
         /\ Len(SubSeq(s, a, Len(s))) = Len(s) + 1 - a
         /\ \A k \in 1..(Len(s) + 1 - a) : SubSeq(s, a, Len(s))[k] = s[a + k - 1]
<1> DEFINE S == {s[k] : k \in DOMAIN s}
<1>1. s \in Seq(S)
  BY DEF AnySeq
<1> HIDE DEF S
<1>2. SubSeq(s, a, Len(s)) \in Seq(S)
  BY <1>1
<1>3. AnySeq(SubSeq(s, a, Len(s)))
  BY <1>2, SeqIs
<1> QED BY <1>1, <1>3

LEMMA TailIs ==
  ASSUME NEW s, AnySeq(s), s # <<>>
  PROVE  /\ AnySeq(Tail(s)) /\ Len(s) >= 1
         /\ Len(Tail(s)) = Len(s) - 1
         /\ Head(s) = s[1]
         /\ \A k \in 1..(Len(s) - 1) : Tail(s)[k] = s[k + 1]
<1> DEFINE S == {s[k] : k \in DOMAIN s}
<1>1. s \in Seq(S)
  BY DEF AnySeq
<1> HIDE DEF S
<1>2. Tail(s) \in Seq(S)
  BY <1>1
<1>3. AnySeq(Tail(s))
  BY <1>2, SeqIs
<1> QED BY <1>1, <1>3

\* The value on top replaced.
LEMMA TopIs ==
  ASSUME NEW s, AnySeq(s), Len(s) >= 1, NEW v
  PROVE  AnySeq(<<v>> \o Tail(s)) /\ Len(<<v>> \o Tail(s)) = Len(s)
<1>1. AnySeq(<<v>>) /\ Len(<<v>>) = 1 /\ s # <<>>
  BY DEF AnySeq
<1> QED BY <1>1, TailIs, ConcatIs, AnySeqIs

\* The values on top replaced by one: m is the first that is kept.
LEMMA ReplaceIs ==
  ASSUME NEW s, AnySeq(s), NEW m \in 1..(Len(s) + 1), NEW v
  PROVE  /\ AnySeq(<<v>> \o SubSeq(s, m, Len(s)))
         /\ Len(<<v>> \o SubSeq(s, m, Len(s))) = Len(s) - m + 2
<1>1. AnySeq(<<v>>) /\ Len(<<v>>) = 1
  BY DEF AnySeq
<1>2. /\ AnySeq(SubSeq(s, m, Len(s)))
      /\ Len(SubSeq(s, m, Len(s))) = Len(s) + 1 - m
  BY SubSeqIs
<1> QED BY <1>1, <1>2, ConcatIs, AnySeqIs

-----------------------------------------------------------------------------
\* A set of numbers has a least: what fails nowhere first fails nowhere.
LEMMA LeastNumber ==
  ASSUME NEW S \in SUBSET Nat, S # {}
  PROVE  \E k \in S : \A n \in S : k <= n
<1>1. PICK x \in S : \A y \in S : ~(<<y, x>> \in OpToRel(<, Nat))
  BY NatLessThanWellFounded, WFMin
<1>2. ASSUME NEW y \in S PROVE x <= y
  <2>1. ~(<<y, x>> \in {ss \in Nat \X Nat : ss[1] < ss[2]})
    BY <1>1 DEF OpToRel
  <2> QED BY <2>1
<1> QED BY <1>2

=============================================================================
