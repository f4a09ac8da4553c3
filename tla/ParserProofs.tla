---------------------------- MODULE ParserProofs ----------------------------
(***************************************************************************)
(* Recovery from syntax errors, for every list of tokens: the stack of     *)
(* nodes is always as high as the work that is left expects, and no error  *)
(* is reported twice or out of order.                                      *)
(***************************************************************************)
EXTENDS Parser, ListLemmas, TLAPS

-----------------------------------------------------------------------------
(***************************************************************************)
(* What each thing to do makes of the stack of nodes: by how much it is    *)
(* higher when that and all that comes of it is done, and how high it must *)
(* be before.                                                              *)
(***************************************************************************)
Builds  == {"assign", "level", "primary", "statement", "result", "optional", "arm", "block",
            "declaration", "size", "initial", "function", "params", "type", "take"}
Keeps   == {"equals", "tail", "unary", "postfix", "expression", "returned", "body", "items",
            "program", "param"}
Checks  == {"end", "need"}
Joins   == {"assigned", "binary", "element", "call", "called", "else", "while", "cases", "more",
            "declared", "stated", "parsed"}
Gathers == {"argument", "both", "named"}

Net(h) ==
  CASE h[1] \in Builds -> 1
    [] h[1] \in Keeps \cup Checks -> 0
    [] h[1] \in Joins -> -1
    [] h[1] \in Gathers \cup {"case"} -> -2
    [] h[1] \in {"for", "whole"} -> -3
    [] h[1] = "variable" -> -4

Least(h) ==
  CASE h[1] \in Builds \cup Checks -> 0
    [] h[1] \in Keeps -> 1
    [] h[1] \in Joins -> 2
    [] h[1] \in Gathers -> 3
    [] h[1] \in {"case", "for", "whole"} -> 4
    [] h[1] = "variable" -> 5

\* What there can be to do.
Item(h) ==
  /\ h[1] \in Builds \cup Keeps \cup Checks \cup Joins \cup Gathers
                \cup {"case", "for", "whole", "variable"}
  /\ h[1] = "need" => h[2] = "SYMBOL"
  /\ h[1] = "take" => h[2] \in {"NUMBER", "IDENTIFIER"}
  /\ h[1] = "level" => h[2] \in 1..7
  /\ h[1] = "tail" => h[2] \in 1..6

LEMMA NetIs ==
  ASSUME NEW h
  PROVE  /\ h[1] \in Builds => Net(h) = 1 /\ Least(h) = 0
         /\ h[1] \in Keeps => Net(h) = 0 /\ Least(h) = 1
         /\ h[1] \in Checks => Net(h) = 0 /\ Least(h) = 0
         /\ h[1] \in Joins => Net(h) = -1 /\ Least(h) = 2
         /\ h[1] \in Gathers => Net(h) = -2 /\ Least(h) = 3
         /\ h[1] = "case" => Net(h) = -2 /\ Least(h) = 4
         /\ h[1] \in {"for", "whole"} => Net(h) = -3 /\ Least(h) = 4
         /\ h[1] = "variable" => Net(h) = -4 /\ Least(h) = 5
<1>1. h[1] \in Builds => Net(h) = 1 /\ Least(h) = 0
  BY DEF Net, Least, Builds, Keeps, Checks, Joins, Gathers
<1>2. h[1] \in Keeps => Net(h) = 0 /\ Least(h) = 1
  BY DEF Net, Least, Builds, Keeps, Checks, Joins, Gathers
<1>3. h[1] \in Checks => Net(h) = 0 /\ Least(h) = 0
  BY DEF Net, Least, Builds, Keeps, Checks, Joins, Gathers
<1>4. h[1] \in Joins => Net(h) = -1 /\ Least(h) = 2
  BY DEF Net, Least, Builds, Keeps, Checks, Joins, Gathers
<1>5. h[1] \in Gathers => Net(h) = -2 /\ Least(h) = 3
  BY DEF Net, Least, Builds, Keeps, Checks, Joins, Gathers
<1>6. h[1] = "case" => Net(h) = -2 /\ Least(h) = 4
  BY DEF Net, Least, Builds, Keeps, Checks, Joins, Gathers
<1>7. h[1] \in {"for", "whole"} => Net(h) = -3 /\ Least(h) = 4
  BY DEF Net, Least, Builds, Keeps, Checks, Joins, Gathers
<1>8. h[1] = "variable" => Net(h) = -4 /\ Least(h) = 5
  BY DEF Net, Least, Builds, Keeps, Checks, Joins, Gathers
<1> QED BY <1>1, <1>2, <1>3, <1>4, <1>5, <1>6, <1>7, <1>8

\* The heights of the stack before each thing in a list, and after the last: a
\* loop that catches errors knows its own, and nothing goes below before it.
Heights(H, s, low) ==
  /\ H \in [1..(Len(s) + 1) -> Nat]
  /\ \A j \in 1..(Len(s) + 1) : H[j] >= low
  /\ \A j \in 1..Len(s) : H[j] >= Least(s[j]) /\ H[j + 1] = H[j] + Net(s[j])
  /\ \A j \in 1..Len(s) : Catches(s[j]) => /\ s[j][2] = H[j]
                                           /\ \A i \in 1..j : H[i] >= H[j]

Fits(s, from, to, low) ==
  /\ AnySeq(s)
  /\ \E H : Heights(H, s, low) /\ H[1] = from /\ H[Len(s) + 1] = to

Below(from, to, low) == from \in Nat /\ to \in Nat /\ low \in Nat /\ low <= from /\ low <= to

LEMMA FitsNone ==
  ASSUME NEW a \in Nat, NEW low \in Nat, low <= a
  PROVE  Fits(<<>>, a, a, low)
<1> DEFINE H == [j \in 1..1 |-> a]
<1>1. AnySeq(<<>>) /\ Len(<<>>) = 0
  BY DEF AnySeq
<1>2. Heights(H, <<>>, low)
  BY <1>1 DEF Heights
<1> QED BY <1>1, <1>2 DEF Fits

LEMMA FitsOne ==
  ASSUME NEW h, NEW a \in Nat, NEW low \in Nat, low <= a, low <= a + Net(h),
         a >= Least(h), a + Net(h) \in Nat, Catches(h) => h[2] = a
  PROVE  Fits(<<h>>, a, a + Net(h), low)
<1> DEFINE H == <<a, a + Net(h)>>
<1>1. AnySeq(<<h>>) /\ Len(<<h>>) = 1 /\ <<h>>[1] = h
  BY DEF AnySeq
<1>2. H[1] = a /\ H[2] = a + Net(h) /\ H \in [1..2 -> Nat]
  OBVIOUS
<1> HIDE DEF H
<1>3. Heights(H, <<h>>, low)
  BY <1>1, <1>2 DEF Heights
<1> QED BY <1>1, <1>2, <1>3 DEF Fits

\* One list after another that does not go below what its loops expect.
LEMMA FitsJoin ==
  ASSUME NEW s, NEW t, NEW a, NEW b, NEW c, NEW high \in Nat, NEW low \in Nat, low <= high,
         Fits(s, a, b, high), Fits(t, b, c, low),
         \A k \in DOMAIN t : Catches(t[k]) => t[k][2] <= high
  PROVE  Fits(s \o t, a, c, low)
<1>1. PICK G : Heights(G, s, high) /\ G[1] = a /\ G[Len(s) + 1] = b
  BY DEF Fits
<1>2. PICK K : Heights(K, t, low) /\ K[1] = b /\ K[Len(t) + 1] = c
  BY DEF Fits
<1> DEFINE x == s \o t
           n == Len(s)
           m == Len(t)
           H == [j \in 1..(n + m + 1) |-> IF j <= n THEN G[j] ELSE K[j - n]]
<1>3. /\ AnySeq(s) /\ n \in Nat /\ DOMAIN s = 1..n
      /\ AnySeq(t) /\ m \in Nat /\ DOMAIN t = 1..m
  BY AnySeqIs DEF Fits
<1>4. /\ AnySeq(x) /\ Len(x) = n + m
      /\ \A j \in 1..n : x[j] = s[j]
      /\ \A j \in 1..m : x[n + j] = t[j]
  BY <1>3, ConcatIs
<1>5. /\ \A j \in 1..(n + 1) : G[j] \in Nat /\ G[j] >= high
      /\ \A j \in 1..n : G[j] >= Least(s[j]) /\ G[j + 1] = G[j] + Net(s[j])
      /\ \A j \in 1..n : Catches(s[j]) => s[j][2] = G[j] /\ \A i \in 1..j : G[i] >= G[j]
  BY <1>1 DEF Heights
<1>6. /\ \A j \in 1..(m + 1) : K[j] \in Nat /\ K[j] >= low
      /\ \A j \in 1..m : K[j] >= Least(t[j]) /\ K[j + 1] = K[j] + Net(t[j])
      /\ \A j \in 1..m : Catches(t[j]) => t[j][2] = K[j] /\ \A i \in 1..j : K[i] >= K[j]
  BY <1>2 DEF Heights
<1>7. /\ \A j \in 1..(n + 1) : H[j] = G[j]
      /\ \A j \in 1..(m + 1) : H[n + j] = K[j]
  BY <1>1, <1>2, <1>3
<1>8. \A j \in 1..(n + m + 1) : H[j] \in Nat /\ H[j] >= low
  BY <1>3, <1>5, <1>6
<1>9. H \in [1..(n + m + 1) -> Nat]
  BY <1>8
<1> HIDE DEF H
<1>10. \A j \in 1..(n + m) : H[j] >= Least(x[j]) /\ H[j + 1] = H[j] + Net(x[j])
  <2> TAKE j \in 1..(n + m)
  <2>1. CASE j <= n
    <3>1. j \in 1..n /\ j \in 1..(n + 1) /\ j + 1 \in 1..(n + 1)
      BY <2>1, <1>3
    <3> QED BY <3>1, <1>4, <1>5, <1>7
  <2>2. CASE ~(j <= n)
    <3>1. PICK i \in 1..m : j = n + i
      <4>1. j - n \in 1..m /\ j = n + (j - n)
        BY <2>2, <1>3
      <4> QED BY <4>1
    <3>2. i \in 1..(m + 1) /\ i + 1 \in 1..(m + 1) /\ j + 1 = n + (i + 1)
      BY <3>1, <1>3
    <3> QED BY <3>1, <3>2, <1>4, <1>6, <1>7
  <2> QED BY <2>1, <2>2
<1>11. \A j \in 1..(n + m) : Catches(x[j]) => x[j][2] = H[j] /\ \A i \in 1..j : H[i] >= H[j]
  <2> TAKE j \in 1..(n + m)
  <2> HAVE Catches(x[j])
  <2>1. CASE j <= n
    <3>1. j \in 1..n /\ j \in 1..(n + 1) /\ \A i \in 1..j : i \in 1..(n + 1)
      BY <2>1, <1>3
    <3> QED BY <3>1, <1>4, <1>5, <1>7
  <2>2. CASE ~(j <= n)
    <3>1. PICK e \in 1..m : j = n + e
      <4>1. j - n \in 1..m /\ j = n + (j - n)
        BY <2>2, <1>3
      <4> QED BY <4>1
    <3>2. e \in 1..(m + 1) /\ x[j] = t[e] /\ H[j] = K[e]
      BY <3>1, <1>3, <1>4, <1>7
    <3>3. x[j][2] = H[j] /\ K[e] <= high /\ \A i \in 1..e : K[i] >= K[e]
      BY <3>1, <3>2, <1>3, <1>6
    <3>4. ASSUME NEW i \in 1..j PROVE H[i] >= H[j]
      <4>1. CASE i <= n
        <5>1. i \in 1..(n + 1)
          BY <4>1, <1>3
        <5>2. H[i] = G[i] /\ G[i] \in Nat /\ G[i] >= high /\ K[e] \in Nat
          BY <5>1, <3>2, <1>5, <1>6, <1>7
        <5> QED BY <5>2, <3>2, <3>3
      <4>2. CASE ~(i <= n)
        <5>1. PICK d \in 1..e : i = n + d
          <6>1. i - n \in 1..e /\ i = n + (i - n)
            BY <4>2, <3>1, <1>3
          <6> QED BY <6>1
        <5>2. d \in 1..(m + 1)
          BY <5>1, <1>3
        <5>3. H[i] = K[d]
          BY <5>1, <5>2, <1>7
        <5> QED BY <5>1, <5>3, <3>2, <3>3
      <4> QED BY <4>1, <4>2
    <3> QED BY <3>3, <3>4
  <2> QED BY <2>1, <2>2
<1>12. Heights(H, x, low)
  BY <1>4, <1>8, <1>9, <1>10, <1>11 DEF Heights
<1>13. H[1] = a /\ H[Len(x) + 1] = c
  <2>1. 1 \in 1..(n + 1) /\ m + 1 \in 1..(m + 1) /\ Len(x) + 1 = n + (m + 1)
    BY <1>3, <1>4
  <2> QED BY <2>1, <1>1, <1>2, <1>7
<1> QED BY <1>4, <1>12, <1>13 DEF Fits

\* What is left of a list after its first thing.
LEMMA FitsRest ==
  ASSUME NEW s, NEW a, NEW b, NEW low \in Nat, Fits(s, a, b, low), s # <<>>
  PROVE  /\ a \in Nat /\ a >= Least(s[1]) /\ a + Net(s[1]) \in Nat /\ a + Net(s[1]) >= low
         /\ Catches(s[1]) => s[1][2] = a
         /\ Fits(Tail(s), a + Net(s[1]), b, low)
         /\ \A k \in DOMAIN Tail(s) :
              Catches(Tail(s)[k]) => Tail(s)[k][2] <= a /\ Tail(s)[k][2] <= a + Net(s[1])
<1>1. PICK G : Heights(G, s, low) /\ G[1] = a /\ G[Len(s) + 1] = b
  BY DEF Fits
<1> DEFINE n == Len(s)
           x == Tail(s)
           H == [j \in 1..n |-> G[j + 1]]
<1>2. /\ AnySeq(s) /\ n \in Nat /\ n >= 1 /\ DOMAIN s = 1..n
      /\ AnySeq(x) /\ Len(x) = n - 1 /\ DOMAIN x = 1..(n - 1)
      /\ \A k \in 1..(n - 1) : x[k] = s[k + 1]
  BY TailIs, AnySeqIs DEF Fits
<1> HIDE DEF x
<1>3. /\ \A j \in 1..(n + 1) : G[j] \in Nat /\ G[j] >= low
      /\ \A j \in 1..n : G[j] >= Least(s[j]) /\ G[j + 1] = G[j] + Net(s[j])
      /\ \A j \in 1..n : Catches(s[j]) => s[j][2] = G[j] /\ \A i \in 1..j : G[i] >= G[j]
  BY <1>1 DEF Heights
<1> HIDE DEF n
<1>4. 1 \in 1..n /\ 1 \in 1..(n + 1) /\ 2 \in 1..(n + 1) /\ G[2] = a + Net(s[1])
  BY <1>1, <1>2, <1>3
<1>5. \A j \in 1..n : H[j] = G[j + 1] /\ j + 1 \in 1..(n + 1)
  BY <1>2
<1>6. H \in [1..n -> Nat]
  BY <1>2, <1>3
<1> HIDE DEF H
<1>7. Heights(H, x, low)
  <2>1. \A j \in 1..n : H[j] >= low
    BY <1>3, <1>5
  <2>2. ASSUME NEW j \in 1..(n - 1)
        PROVE  /\ H[j] >= Least(x[j]) /\ H[j + 1] = H[j] + Net(x[j])
               /\ Catches(x[j]) => x[j][2] = H[j] /\ \A i \in 1..j : H[i] >= H[j]
    <3>1. j \in 1..n /\ j + 1 \in 1..n /\ x[j] = s[j + 1] /\ \A i \in 1..j : i \in 1..n /\ i + 1 \in 1..(j + 1)
      BY <1>2
    <3> QED BY <3>1, <1>3, <1>5
  <2> QED BY <1>2, <1>6, <2>1, <2>2 DEF Heights
<1>8. Fits(x, a + Net(s[1]), b, low)
  <2>1. n \in 1..n /\ n = Len(x) + 1 /\ H[1] = G[2] /\ H[n] = b
    <3>1. n \in 1..n /\ n = Len(x) + 1 /\ 1 \in 1..n /\ 1 + 1 = 2
      BY <1>2
    <3>2. H[1] = G[2] /\ H[n] = G[n + 1]
      BY <3>1, <1>5
    <3> QED BY <3>1, <3>2, <1>1 DEF n
  <2> QED BY <2>1, <1>2, <1>4, <1>7 DEF Fits
<1>9. \A k \in DOMAIN x : Catches(x[k]) => x[k][2] <= a /\ x[k][2] <= a + Net(s[1])
  <2> TAKE k \in DOMAIN x
  <2> HAVE Catches(x[k])
  <2>1. k + 1 \in 1..n /\ x[k] = s[k + 1] /\ 1 \in 1..(k + 1) /\ 2 \in 1..(k + 1)
    BY <1>2
  <2>2. k + 1 \in 1..(n + 1)
    BY <2>1, <1>2
  <2>3. x[k][2] = G[k + 1] /\ G[k + 1] \in Nat /\ G[1] >= G[k + 1] /\ G[2] >= G[k + 1]
    BY <2>1, <2>2, <1>3
  <2> QED BY <2>3, <1>1, <1>3, <1>4
<1> QED BY <1>1, <1>3, <1>4, <1>8, <1>9 DEF x

\* From one of the loops on: it finds the height it knows.
LEMMA FitsFrom ==
  ASSUME NEW s, NEW a, NEW b, NEW low \in Nat, Fits(s, a, b, low),
         NEW k \in DOMAIN s, Catches(s[k])
  PROVE  /\ a \in Nat /\ s[k][2] \in 1..a
         /\ Fits(SubSeq(s, k, Len(s)), s[k][2], b, low)
<1>1. PICK G : Heights(G, s, low) /\ G[1] = a /\ G[Len(s) + 1] = b
  BY DEF Fits
<1> DEFINE n == Len(s)
           m == n + 1 - k
           x == SubSeq(s, k, Len(s))
           H == [j \in 1..(m + 1) |-> G[k + j - 1]]
<1>2. AnySeq(s) /\ n \in Nat /\ k \in 1..n
  BY AnySeqIs DEF Fits
<1>3. k \in 1..(n + 1) /\ m \in Nat /\ k + m = n + 1
  BY <1>2
<1>4. /\ AnySeq(x) /\ Len(x) = m /\ DOMAIN x = 1..m
      /\ \A j \in 1..m : x[j] = s[k + j - 1]
  BY <1>2, <1>3, SubSeqIs, AnySeqIs
<1> HIDE DEF x
<1>5. /\ \A j \in 1..(n + 1) : G[j] \in Nat /\ G[j] >= low
      /\ \A j \in 1..n : G[j] >= Least(s[j]) /\ G[j + 1] = G[j] + Net(s[j])
      /\ \A j \in 1..n : Catches(s[j]) => s[j][2] = G[j] /\ \A i \in 1..j : G[i] >= G[j]
  BY <1>1 DEF Heights
<1> HIDE DEF n, m
<1>6. s[k][2] \in 1..a
  <2>1. 1 \in 1..k /\ 1 \in 1..(n + 1)
    BY <1>2
  <2>2. s[k][2] = G[k] /\ G[1] >= G[k] /\ G[k] \in Nat /\ G[1] \in Nat /\ G[k] >= Least(s[k])
    BY <2>1, <1>2, <1>3, <1>5
  <2>3. Least(s[k]) = 1
    BY NetIs DEF Catches, Keeps
  <2> QED BY <2>2, <2>3, <1>1
<1>7. \A j \in 1..(m + 1) : H[j] = G[k + j - 1] /\ k + j - 1 \in 1..(n + 1)
  BY <1>2, <1>3
<1>8. H \in [1..(m + 1) -> Nat]
  BY <1>7, <1>5
<1> HIDE DEF H
<1>9. Heights(H, x, low)
  <2>1. \A j \in 1..(m + 1) : H[j] >= low
    BY <1>5, <1>7
  <2>2. ASSUME NEW j \in 1..m
        PROVE  /\ H[j] >= Least(x[j]) /\ H[j + 1] = H[j] + Net(x[j])
               /\ Catches(x[j]) => x[j][2] = H[j] /\ \A i \in 1..j : H[i] >= H[j]
    <3>1. /\ j \in 1..(m + 1) /\ j + 1 \in 1..(m + 1) /\ k + j - 1 \in 1..n
          /\ x[j] = s[k + j - 1] /\ k + (j + 1) - 1 = (k + j - 1) + 1
          /\ \A i \in 1..j : i \in 1..(m + 1) /\ k + i - 1 \in 1..(k + j - 1)
      BY <1>2, <1>3, <1>4
    <3>2. H[j] = G[k + j - 1] /\ H[j + 1] = G[(k + j - 1) + 1]
      BY <3>1, <1>7
    <3>3. \A i \in 1..j : H[i] = G[k + i - 1]
      BY <3>1, <1>7
    <3> QED BY <3>1, <3>2, <3>3, <1>5
  <2> QED BY <1>4, <1>8, <2>1, <2>2 DEF Heights
<1>10. H[1] = s[k][2] /\ H[Len(x) + 1] = b
  <2>1. 1 \in 1..(m + 1) /\ m + 1 \in 1..(m + 1) /\ k + 1 - 1 = k /\ k + (m + 1) - 1 = n + 1
    BY <1>2, <1>3
  <2>2. H[1] = G[k] /\ H[m + 1] = G[n + 1]
    BY <2>1, <1>7
  <2> QED BY <2>2, <1>1, <1>2, <1>4, <1>5 DEF n
<1>11. a \in Nat
  BY <1>1, <1>2, <1>5
<1>12. Fits(x, s[k][2], b, low)
  BY <1>4, <1>9, <1>10 DEF Fits
<1> QED BY <1>6, <1>11, <1>12 DEF x, n

-----------------------------------------------------------------------------
(***************************************************************************)
(* The things that are put before others, and what they make of the stack. *)
(***************************************************************************)
Is(h, net, least) == Net(h) = net /\ Least(h) = least /\ ~Catches(h) /\ Item(h)

LEMMA WorkTable ==
  /\ \A k \in {"assign", "primary", "statement", "result", "arm", "block", "declaration", "size",
               "initial", "function", "params", "type"} : Is(<<k>>, 1, 0)
  /\ \A k \in {"equals", "postfix", "expression", "returned", "param"} : Is(<<k>>, 0, 1)
  /\ \A k \in {"element", "call", "called", "else", "while", "cases", "more", "declared",
               "stated", "parsed"} : Is(<<k>>, -1, 2)
  /\ \A k \in {"argument", "both", "named"} : Is(<<k>>, -2, 3)
  /\ \A k \in {"for", "whole"} : Is(<<k>>, -3, 4)
  /\ Is(<<"end">>, 0, 0) /\ Is(<<"case">>, -2, 4) /\ Is(<<"variable">>, -4, 5)
  /\ \A s : /\ Is(Need(s), 0, 0) /\ Is(<<"optional", s>>, 1, 0) /\ Is(<<"assigned", s>>, -1, 2)
            /\ Is(<<"binary", s>>, -1, 2) /\ Is(<<"unary", s>>, 0, 1)
  /\ \A k \in 1..7 : Is(<<"level", k>>, 1, 0)
  /\ \A k \in 1..6 : Is(<<"tail", k>>, 0, 1)
  /\ Is(<<"take", "NUMBER">>, 1, 0) /\ Is(<<"take", "IDENTIFIER">>, 1, 0)
  BY NetIs DEF Is, Item, Need, Catches, Builds, Keeps, Checks, Joins, Gathers

LEMMA NetRange ==
  ASSUME NEW h, Item(h)
  PROVE  Net(h) \in -4..1 /\ Least(h) \in 0..5 /\ Least(h) + Net(h) \in Nat
<1>1. \/ h[1] \in Builds \/ h[1] \in Keeps \/ h[1] \in Checks \/ h[1] \in Joins
      \/ h[1] \in Gathers \/ h[1] = "case" \/ h[1] \in {"for", "whole"} \/ h[1] = "variable"
  BY DEF Item
<1> QED BY <1>1, NetIs

\* With a nodes on the stack, x finds what it needs, and nothing is below low.
Over(a, x, low) == /\ Item(x) /\ a \in Nat /\ a >= low /\ a >= Least(x)
                   /\ Catches(x) => x[2] = a /\ a = low

LEMMA FitsTwo ==
  ASSUME NEW a, NEW low \in Nat, NEW h1, NEW h2,
         Over(a, h1, low),
         Over(a + Net(h1), h2, low),
         a + Net(h1) + Net(h2) \in Nat, a + Net(h1) + Net(h2) >= low
  PROVE  Fits(<<h1, h2>>, a, a + Net(h1) + Net(h2), low)
<1> DEFINE H == <<a, a + Net(h1), a + Net(h1) + Net(h2)>>
<1>1. Heights(H, <<h1, h2>>, low)
  BY NetIs DEF Heights, Over
<1> QED BY <1>1 DEF Fits, AnySeq

LEMMA FitsThree ==
  ASSUME NEW a, NEW low \in Nat, NEW h1, NEW h2, NEW h3,
         Over(a, h1, low),
         Over(a + Net(h1), h2, low),
         Over(a + Net(h1) + Net(h2), h3, low),
         a + Net(h1) + Net(h2) + Net(h3) \in Nat, a + Net(h1) + Net(h2) + Net(h3) >= low
  PROVE  Fits(<<h1, h2, h3>>, a, a + Net(h1) + Net(h2) + Net(h3), low)
<1> DEFINE H == <<a, a + Net(h1), a + Net(h1) + Net(h2), a + Net(h1) + Net(h2) + Net(h3)>>
<1>1. Heights(H, <<h1, h2, h3>>, low)
  BY NetIs DEF Heights, Over
<1> QED BY <1>1 DEF Fits, AnySeq

-----------------------------------------------------------------------------
(***************************************************************************)
(* What work may do: consume a token that is there, leave a stack on which *)
(* all that is left fits, and put only what belongs there before the rest; *)
(* or fail, at the current token or at the = of an assignment.             *)
(***************************************************************************)
Operands == Expressions \cup {"need"}

Pushes(h, items) ==
  /\ \A k \in DOMAIN items :
       /\ Item(items[k])
       /\ items[k][1] = "assigned" => items[k][2] = index /\ h[1] \in Expressions
       /\ h[1] \in Operands => items[k][1] \in Operands
       /\ items[k][1] \in {"arm", "body"} =>
            \/ k + 1 \in DOMAIN items /\ items[k + 1][1] = "case"
            \/ k = Len(items) /\ h[1] \in {"arm", "body"}
       /\ items[k][1] = "case" => k + 1 \in DOMAIN items /\ items[k + 1][1] = "cases"
  /\ h[1] = "program" /\ items # <<>> => items[Len(items)][1] = "program"

\* As low as the stack may be in the course of the work.
Low(h) == IF Net(h) < 0 THEN Len(values) + Net(h) ELSE Len(values)

Right(h, t, w) ==
  \/ w.ok = FALSE /\ (w.place = index \/ (h[1] = "assigned" /\ w.place = h[2]))
  \/ /\ w.ok = TRUE
     /\ w.used \in {0, 1} /\ (w.used = 1 => t[1] # "EOF")
     /\ AnySeq(w.values)
     /\ Fits(w.todo, Len(w.values), Len(values) + Net(h), Low(h))
     /\ Pushes(h, w.todo)

\* There is enough on the stack for h.
Able(h) ==
  /\ Item(h) /\ AnySeq(values) /\ Len(values) >= Least(h) /\ (Catches(h) => h[2] = Len(values))

\* x may come before what is after h, and makes this of the stack.
May(h, x) ==
  /\ Item(x) /\ ~Catches(x) /\ x[1] \notin {"arm", "case"}
  /\ x[1] = "assigned" => x[2] = index /\ h[1] \in Expressions
  /\ h[1] \in Operands => x[1] \in Operands
Made(h, x, net, least) == Is(x, net, least) /\ May(h, x)

\* A part of what replaces h.
Part(h, items, from, to) ==
  Fits(items, from, to, Low(h)) /\ \A k \in DOMAIN items : May(h, items[k])

LEMMA LowIs ==
  ASSUME NEW h, Able(h)
  PROVE  /\ Len(values) \in Nat /\ Low(h) \in Nat /\ Len(values) + Net(h) \in Nat
         /\ Low(h) <= Len(values) /\ Low(h) <= Len(values) + Net(h)
         /\ Low(h) = Len(values) \/ Low(h) = Len(values) + Net(h)
<1>1. Len(values) \in Nat
  BY AnySeqIs DEF Able
<1>2. Net(h) \in Int /\ Least(h) \in Int /\ Least(h) + Net(h) >= 0
  BY NetRange DEF Able
<1> QED BY <1>1, <1>2 DEF Low, Able

LEMMA HeightsOf ==
  ASSUME NEW h, Able(h)
  PROVE  /\ Len(values) \in Nat
         /\ h[1] \in Builds => Net(h) = 1 /\ Low(h) = Len(values) /\ Least(h) = 0
         /\ h[1] \in Keeps => Net(h) = 0 /\ Low(h) = Len(values) /\ Len(values) >= 1 /\ Least(h) = 1
         /\ h[1] \in Checks => Net(h) = 0 /\ Low(h) = Len(values) /\ Least(h) = 0
         /\ h[1] \in Joins => Net(h) = -1 /\ Low(h) = Len(values) - 1 /\ Len(values) >= 2 /\ Least(h) = 2
         /\ h[1] \in Gathers => Net(h) = -2 /\ Low(h) = Len(values) - 2 /\ Len(values) >= 3 /\ Least(h) = 3
         /\ h[1] = "case" => Net(h) = -2 /\ Low(h) = Len(values) - 2 /\ Len(values) >= 4 /\ Least(h) = 4
         /\ h[1] \in {"for", "whole"} => Net(h) = -3 /\ Low(h) = Len(values) - 3 /\ Len(values) >= 4 /\ Least(h) = 4
         /\ h[1] = "variable" => Net(h) = -4 /\ Low(h) = Len(values) - 4 /\ Len(values) >= 5 /\ Least(h) = 5
<1>1. Len(values) \in Nat /\ Len(values) >= Least(h)
  BY AnySeqIs DEF Able
<1> QED BY <1>1, NetIs DEF Low

LEMMA FailIsRight ==
  ASSUME NEW h, NEW t
  PROVE  Right(h, t, Fail(index))
  BY DEF Right, Fail

LEMMA DoIsRight ==
  ASSUME NEW h, NEW t, NEW used \in {0, 1}, NEW v, NEW items,
         used = 1 => t[1] # "EOF", AnySeq(v),
         Fits(items, Len(v), Len(values) + Net(h), Low(h)), Pushes(h, items)
  PROVE  Right(h, t, Do(used, items, v))
  BY DEF Right, Do

LEMMA NothingIsRight ==
  ASSUME NEW h, NEW t, NEW used \in {0, 1}, NEW v,
         Able(h),
         used = 1 => t[1] # "EOF", AnySeq(v), Len(v) = Len(values) + Net(h)
  PROVE  Right(h, t, Do(used, <<>>, v))
<1>1. Fits(<<>>, Len(v), Len(values) + Net(h), Low(h))
  BY LowIs, FitsNone
<1>2. Pushes(h, <<>>)
  BY DEF Pushes
<1> QED BY <1>1, <1>2, DoIsRight

LEMMA ReduceIsRight ==
  ASSUME NEW h, NEW t, NEW n \in Nat, NEW v,
         Able(h), Least(h) >= n, Net(h) = 1 - n
  PROVE  Right(h, t, Reduce(n, v))
<1>1. Len(values) \in Nat /\ n <= Len(values)
  BY AnySeqIs, NetRange DEF Able
<1> DEFINE w == <<v>> \o SubSeq(values, n + 1, Len(values))
<1>2. AnySeq(w) /\ Len(w) = Len(values) + Net(h)
  <2>1. n + 1 \in 1..(Len(values) + 1)
    BY <1>1
  <2> QED BY <1>1, <2>1, ReplaceIs DEF Able
<1>3. Right(h, t, Do(0, <<>>, w))
  <2> HIDE DEF w
  <2> QED BY <1>2, NothingIsRight
<1> QED BY <1>3 DEF Reduce

LEMMA PushIs ==
  ASSUME NEW v, AnySeq(values)
  PROVE  AnySeq(<<v>> \o values) /\ Len(<<v>> \o values) = Len(values) + 1
<1>1. AnySeq(<<v>>) /\ Len(<<v>>) = 1
  BY DEF AnySeq
<1> QED BY <1>1, ConcatIs, AnySeqIs

LEMMA PushIsRight ==
  ASSUME NEW h, NEW t, NEW used \in {0, 1}, NEW v,
         Able(h), Net(h) = 1,
         used = 1 => t[1] # "EOF"
  PROVE  Right(h, t, Push(used, <<>>, v))
<1>1. AnySeq(<<v>> \o values) /\ Len(<<v>> \o values) = Len(values) + Net(h)
  BY PushIs DEF Able
<1>2. Right(h, t, Do(used, <<>>, <<v>> \o values))
  BY <1>1, NothingIsRight
<1> QED BY <1>2 DEF Push

LEMMA PartOne ==
  ASSUME NEW h, Able(h), NEW a \in Nat,
         NEW h1,
         NEW n1 \in Int,
         NEW l1 \in Int,
         Made(h, h1, n1, l1),
         a >= Low(h), a >= l1,
         NEW to, to = a + n1, to >= Low(h)
  PROVE  Part(h, <<h1>>, a, to)
<1>1. Low(h) \in Nat
  BY LowIs
<1>2. /\ Over(a, h1, Low(h))
      /\ a + Net(h1) = to
  BY <1>1 DEF Over, Made, Is
<1>3. Fits(<<h1>>, a, to, Low(h))
  BY <1>1, <1>2, FitsOne DEF Over
<1> QED BY <1>3 DEF Part, Made

LEMMA PartTwo ==
  ASSUME NEW h, Able(h), NEW a \in Nat,
         NEW h1, NEW h2,
         NEW n1 \in Int, NEW n2 \in Int,
         NEW l1 \in Int, NEW l2 \in Int,
         Made(h, h1, n1, l1), Made(h, h2, n2, l2),
         a >= Low(h), a >= l1,
         a + n1 >= Low(h), a + n1 >= l2,
         NEW to, to = a + n1 + n2, to >= Low(h)
  PROVE  Part(h, <<h1, h2>>, a, to)
<1>1. Low(h) \in Nat
  BY LowIs
<1>2. /\ Over(a, h1, Low(h))
      /\ Over(a + Net(h1), h2, Low(h))
      /\ a + Net(h1) + Net(h2) = to
  BY <1>1 DEF Over, Made, Is
<1>3. Fits(<<h1, h2>>, a, to, Low(h))
  BY <1>1, <1>2, FitsTwo
<1> QED BY <1>3 DEF Part, Made

LEMMA PartThree ==
  ASSUME NEW h, Able(h), NEW a \in Nat,
         NEW h1, NEW h2, NEW h3,
         NEW n1 \in Int, NEW n2 \in Int, NEW n3 \in Int,
         NEW l1 \in Int, NEW l2 \in Int, NEW l3 \in Int,
         Made(h, h1, n1, l1), Made(h, h2, n2, l2), Made(h, h3, n3, l3),
         a >= Low(h), a >= l1,
         a + n1 >= Low(h), a + n1 >= l2,
         a + n1 + n2 >= Low(h), a + n1 + n2 >= l3,
         NEW to, to = a + n1 + n2 + n3, to >= Low(h)
  PROVE  Part(h, <<h1, h2, h3>>, a, to)
<1>1. Low(h) \in Nat
  BY LowIs
<1>2. /\ Over(a, h1, Low(h))
      /\ Over(a + Net(h1), h2, Low(h))
      /\ Over(a + Net(h1) + Net(h2), h3, Low(h))
      /\ a + Net(h1) + Net(h2) + Net(h3) = to
  BY <1>1 DEF Over, Made, Is
<1>3. Fits(<<h1, h2, h3>>, a, to, Low(h))
  BY <1>1, <1>2, FitsThree
<1> QED BY <1>3 DEF Part, Made

\* One part after another.
LEMMA PartJoin ==
  ASSUME NEW h, Able(h), NEW s, NEW x, NEW a, NEW b, NEW c,
         Part(h, s, a, b), Part(h, x, b, c)
  PROVE  Part(h, s \o x, a, c)
<1>1. Low(h) \in Nat
  BY LowIs
<1>2. /\ AnySeq(s) /\ Len(s) \in Nat /\ DOMAIN s = 1..Len(s)
      /\ AnySeq(x) /\ Len(x) \in Nat /\ DOMAIN x = 1..Len(x)
  BY AnySeqIs DEF Part, Fits
<1>3. Fits(s \o x, a, c, Low(h))
  BY <1>1, FitsJoin DEF Part, May
<1>4. ASSUME NEW k \in DOMAIN (s \o x)
      PROVE  May(h, (s \o x)[k])
  <2>1. k \in 1..(Len(s) + Len(x))
    BY <1>2, ConcatIs, AnySeqIs
  <2>2. CASE k <= Len(s)
    BY <2>1, <2>2, <1>2, ConcatIs DEF Part
  <2>3. CASE ~(k <= Len(s))
    <3>1. PICK i \in 1..Len(x) : k = Len(s) + i
      <4>1. k - Len(s) \in 1..Len(x) /\ k = Len(s) + (k - Len(s))
        BY <2>1, <2>3, <1>2
      <4> QED BY <4>1
    <3> QED BY <3>1, <1>2, ConcatIs DEF Part
  <2> QED BY <2>2, <2>3
<1> QED BY <1>3, <1>4 DEF Part

LEMMA PartFour ==
  ASSUME NEW h, Able(h), NEW a \in Nat,
         NEW h1, NEW h2, NEW h3, NEW h4, NEW n1 \in Int, NEW n2 \in Int, NEW n3 \in Int,
         NEW n4 \in Int, NEW l1 \in Int, NEW l2 \in Int, NEW l3 \in Int, NEW l4 \in Int,
         Made(h, h1, n1, l1), Made(h, h2, n2, l2), Made(h, h3, n3, l3),
         Made(h, h4, n4, l4),
         a >= Low(h), a >= l1,
         a + n1 >= Low(h), a + n1 >= l2,
         a + n1 + n2 >= Low(h), a + n1 + n2 >= l3,
         a + n1 + n2 + n3 >= Low(h), a + n1 + n2 + n3 >= l4,
         NEW to, to = a + n1 + n2 + n3 + n4, to >= Low(h)
  PROVE  Part(h, <<h1, h2, h3, h4>>, a, to)
<1>1. a + n1 \in Nat
  BY LowIs
<1>2. Part(h, <<h1>>, a, a + n1)
  BY PartOne
<1>3. Part(h, <<h2, h3, h4>>, a + n1, to)
  BY <1>1, PartThree
<1>4. Part(h, <<h1>> \o <<h2, h3, h4>>, a, to)
  BY <1>2, <1>3, PartJoin
<1>5. <<h1>> \o <<h2, h3, h4>> = <<h1, h2, h3, h4>>
  BY Tuple4
<1> QED BY <1>4, <1>5

LEMMA PartFive ==
  ASSUME NEW h, Able(h), NEW a \in Nat,
         NEW h1, NEW h2, NEW h3, NEW h4, NEW h5, NEW n1 \in Int, NEW n2 \in Int,
         NEW n3 \in Int, NEW n4 \in Int, NEW n5 \in Int, NEW l1 \in Int, NEW l2 \in Int,
         NEW l3 \in Int, NEW l4 \in Int, NEW l5 \in Int, Made(h, h1, n1, l1),
         Made(h, h2, n2, l2), Made(h, h3, n3, l3), Made(h, h4, n4, l4),
         Made(h, h5, n5, l5),
         a >= Low(h), a >= l1,
         a + n1 >= Low(h), a + n1 >= l2,
         a + n1 + n2 >= Low(h), a + n1 + n2 >= l3,
         a + n1 + n2 + n3 >= Low(h), a + n1 + n2 + n3 >= l4,
         a + n1 + n2 + n3 + n4 >= Low(h), a + n1 + n2 + n3 + n4 >= l5,
         NEW to, to = a + n1 + n2 + n3 + n4 + n5, to >= Low(h)
  PROVE  Part(h, <<h1, h2, h3, h4, h5>>, a, to)
<1>1. a + n1 \in Nat
  BY LowIs
<1>2. Part(h, <<h1>>, a, a + n1)
  BY PartOne
<1>3. Part(h, <<h2, h3, h4, h5>>, a + n1, to)
  BY <1>1, PartFour
<1>4. Part(h, <<h1>> \o <<h2, h3, h4, h5>>, a, to)
  BY <1>2, <1>3, PartJoin
<1>5. <<h1>> \o <<h2, h3, h4, h5>> = <<h1, h2, h3, h4, h5>>
  BY Tuple5
<1> QED BY <1>4, <1>5

LEMMA PartIsRight ==
  ASSUME NEW h, NEW t, NEW used \in {0, 1}, NEW v, NEW items, Able(h), h[1] # "program",
         used = 1 => t[1] # "EOF", AnySeq(v),
         Part(h, items, Len(v), Len(values) + Net(h))
  PROVE  Right(h, t, Do(used, items, v))
<1>1. Pushes(h, items)
  BY DEF Pushes, Part, May, Catches
<1> QED BY <1>1, DoIsRight DEF Part

LEMMA GoIsRight ==
  ASSUME NEW h, NEW t, NEW items, Able(h), h[1] # "program",
         Part(h, items, Len(values), Len(values) + Net(h))
  PROVE  Right(h, t, Go(items))
<1>1. AnySeq(values) /\ 0 \in {0, 1} /\ 0 # 1
  BY DEF Able
<1> QED BY <1>1, PartIsRight DEF Go

LEMMA ShiftIsRight ==
  ASSUME NEW h, NEW t, NEW items, Able(h), h[1] # "program", t[1] # "EOF",
         Part(h, items, Len(values), Len(values) + Net(h))
  PROVE  Right(h, t, Shift(items))
<1>1. AnySeq(values) /\ 1 \in {0, 1}
  BY DEF Able
<1> QED BY <1>1, PartIsRight DEF Shift

LEMMA PushPartIsRight ==
  ASSUME NEW h, NEW t, NEW used \in {0, 1}, NEW items, NEW v, Able(h), h[1] # "program",
         used = 1 => t[1] # "EOF",
         Part(h, items, Len(values) + 1, Len(values) + Net(h))
  PROVE  Right(h, t, Push(used, items, v))
<1>1. AnySeq(<<v>> \o values) /\ Len(<<v>> \o values) = Len(values) + 1
  BY PushIs DEF Able
<1> QED BY <1>1, PartIsRight DEF Push

LEMMA TopPartIsRight ==
  ASSUME NEW h, NEW t, NEW used \in {0, 1}, NEW items, NEW x, Able(h), h[1] # "program",
         used = 1 => t[1] # "EOF", Len(values) >= 1,
         Part(h, items, Len(values), Len(values) + Net(h))
  PROVE  Right(h, t, Do(used, items, <<x>> \o Tail(values)))
<1> DEFINE v == <<x>> \o Tail(values)
<1>1. AnySeq(v) /\ Len(v) = Len(values)
  BY TopIs DEF Able
<1> HIDE DEF v
<1>2. Right(h, t, Do(used, items, v))
  BY <1>1, PartIsRight
<1> QED BY <1>2 DEF v

LEMMA ReplacePartIsRight ==
  ASSUME NEW h, NEW t, NEW used \in {0, 1}, NEW items, NEW x, Able(h), h[1] # "program",
         used = 1 => t[1] # "EOF", NEW m \in 1..(Len(values) + 1),
         NEW from, from = Len(values) - m + 2, Part(h, items, from, Len(values) + Net(h))
  PROVE  Right(h, t, Do(used, items, <<x>> \o SubSeq(values, m, Len(values))))
<1> DEFINE v == <<x>> \o SubSeq(values, m, Len(values))
<1>1. AnySeq(v) /\ Len(v) = from
  BY ReplaceIs DEF Able
<1> HIDE DEF v
<1>2. Right(h, t, Do(used, items, v))
  BY <1>1, PartIsRight
<1> QED BY <1>2 DEF v

LEMMA DropIsRight ==
  ASSUME NEW h, NEW t, NEW used \in {0, 1}, NEW x, Able(h), used = 1 => t[1] # "EOF",
         NEW m \in 1..(Len(values) + 1), Len(values) + Net(h) = Len(values) - m + 2
  PROVE  Right(h, t, Do(used, <<>>, <<x>> \o SubSeq(values, m, Len(values))))
<1> DEFINE v == <<x>> \o SubSeq(values, m, Len(values))
<1>1. AnySeq(v) /\ Len(v) = Len(values) + Net(h)
  BY ReplaceIs DEF Able
<1> HIDE DEF v
<1>2. Right(h, t, Do(used, <<>>, v))
  BY <1>1, NothingIsRight
<1> QED BY <1>2 DEF v

LEMMA CaseIsRight ==
  ASSUME NEW h, NEW t, NEW x, NEW y, Able(h), h[1] = "case"
  PROVE  Right(h, t, Do(0, <<>>, <<x, y>> \o SubSeq(values, 5, Len(values))))
<1> DEFINE rest == SubSeq(values, 5, Len(values))
           v == <<x, y>> \o rest
<1>1. Len(values) \in Nat /\ Net(h) = -2 /\ Len(values) >= 4 /\ 5 \in 1..(Len(values) + 1)
  BY HeightsOf
<1>2. AnySeq(rest) /\ Len(rest) = Len(values) - 4
  <2>1. Len(values) + 1 - 5 = Len(values) - 4 /\ AnySeq(values)
    BY <1>1 DEF Able
  <2> QED BY <1>1, <2>1, SubSeqIs
<1>3. AnySeq(<<x, y>>) /\ Len(<<x, y>>) = 2
  BY DEF AnySeq
<1> HIDE DEF rest
<1>4. AnySeq(v) /\ Len(v) = Len(values) + Net(h)
  BY <1>1, <1>2, <1>3, ConcatIs
<1> HIDE DEF v
<1>5. 0 \in {0, 1} /\ 0 # 1
  OBVIOUS
<1>6. Right(h, t, Do(0, <<>>, v))
  BY <1>4, <1>5, NothingIsRight
<1> QED BY <1>6 DEF v, rest

LEMMA StayIsRight ==
  ASSUME NEW h, NEW t, Able(h), Net(h) = 0
  PROVE  /\ Right(h, t, Go(<<>>))
         /\ t[1] # "EOF" => Right(h, t, Shift(<<>>))
<1>1. AnySeq(values) /\ Len(values) = Len(values) + Net(h)
  BY HeightsOf DEF Able
<1>2. 0 \in {0, 1} /\ 0 # 1 /\ 1 \in {0, 1}
  OBVIOUS
<1>3. Right(h, t, Do(0, <<>>, values)) /\ (t[1] # "EOF" => Right(h, t, Do(1, <<>>, values)))
  BY <1>1, <1>2, NothingIsRight
<1> QED BY <1>3 DEF Go, Shift

\* A loop begins: it finds one node more than there was.
LEMMA BeginsLoop ==
  ASSUME NEW h, NEW t, NEW used \in {0, 1}, NEW kind, NEW v, Able(h), Net(h) = 1,
         h[1] \notin Operands \cup {"program"}, used = 1 => t[1] # "EOF",
         kind = "items" \/ (kind = "body" /\ h[1] = "arm")
  PROVE  Right(h, t, Push(used, <<<<kind, Len(values) + 1>>>>, v))
<1> DEFINE x == <<kind, Len(values) + 1>>
<1>1. x[1] = kind /\ x[2] = Len(values) + 1 /\ Len(values) \in Nat /\ Low(h) = Len(values)
  BY HeightsOf DEF Low
<1> HIDE DEF x
<1>2. Net(x) = 0 /\ Least(x) = 1 /\ Item(x)
  BY <1>1, NetIs DEF Keeps, Item
<1>3. Fits(<<x>>, Len(values) + 1, Len(values) + Net(h), Low(h))
  BY <1>1, <1>2, FitsOne
<1>4. Pushes(h, <<x>>)
  BY <1>1, <1>2 DEF Pushes
<1> DEFINE w == <<v>> \o values
<1>5. AnySeq(w) /\ Len(w) = Len(values) + 1
  BY PushIs DEF Able
<1> HIDE DEF w
<1>6. Right(h, t, Do(used, <<x>>, w))
  BY <1>3, <1>4, <1>5, DoIsRight
<1> QED BY <1>6 DEF Push, x, w

\* A loop goes round once more.
LEMMA LoopIsRight ==
  ASSUME NEW h, NEW t, NEW s, Able(h), Catches(h), Part(h, s, Len(values), Len(values))
  PROVE  Right(h, t, Go(s \o <<h>>))
<1>1. /\ Net(h) = 0 /\ Low(h) = Len(values) /\ Len(values) \in Nat /\ Least(h) = 1 /\ Len(values) >= 1
  BY HeightsOf DEF Catches, Keeps
<1>2. Fits(<<h>>, Len(values), Len(values), Low(h))
  BY <1>1, FitsOne DEF Able
<1>3. /\ AnySeq(s) /\ Len(s) \in Nat /\ DOMAIN s = 1..Len(s)
      /\ AnySeq(<<h>>) /\ Len(<<h>>) = 1 /\ DOMAIN <<h>> = 1..1 /\ <<h>>[1] = h
  BY AnySeqIs DEF Part, Fits, AnySeq
<1> DEFINE x == s \o <<h>>
<1>4. /\ Len(x) = Len(s) + 1 /\ DOMAIN x = 1..(Len(s) + 1) /\ x[Len(s) + 1] = h
      /\ \A k \in 1..Len(s) : x[k] = s[k]
  BY <1>3, ConcatIs, AnySeqIs
<1>5. Fits(x, Len(values), Len(values) + Net(h), Low(h))
  <2>1. \A k \in DOMAIN <<h>> : Catches(<<h>>[k]) => <<h>>[k][2] <= Low(h)
    BY <1>1, <1>3 DEF Able
  <2>2. Fits(s, Len(values), Len(values), Low(h))
    BY DEF Part
  <2> QED BY <1>1, <1>2, <2>1, <2>2, FitsJoin
<1> HIDE DEF x
<1>6. Pushes(h, x)
  <2>1. ASSUME NEW k \in DOMAIN x
        PROVE  /\ Item(x[k]) /\ x[k][1] \notin {"assigned", "case"}
               /\ x[k][1] \in {"arm", "body"} => k = Len(x) /\ h[1] \in {"arm", "body"}
    <3>1. CASE k = Len(s) + 1
      BY <3>1, <1>4 DEF Able, Catches
    <3>2. CASE k # Len(s) + 1
      <4>1. k \in 1..Len(s) /\ x[k] = s[k]
        BY <3>2, <1>3, <1>4
      <4>2. May(h, x[k])
        BY <4>1, <1>3 DEF Part
      <4> QED BY <4>2 DEF May, Catches, Expressions
    <3> QED BY <3>1, <3>2
  <2>2. h[1] \notin Operands
    BY DEF Catches, Operands, Expressions
  <2> QED BY <2>1, <2>2, <1>4 DEF Pushes
<1>7. Right(h, t, Do(0, x, values))
  <2>1. AnySeq(values)
    BY DEF Able
  <2>2. 0 \in {0, 1} /\ 0 # 1
    OBVIOUS
  <2> QED BY <2>1, <2>2, <1>5, <1>6, DoIsRight
<1> QED BY <1>7 DEF Go, x

LEMMA LoopOfTwo ==
  ASSUME NEW h, NEW t, NEW x, NEW y, Able(h), Catches(h),
         Made(h, x, 1, 0), Made(h, y, -1, 2)
  PROVE  Right(h, t, Go(<<x, y, h>>))
<1>1. Low(h) = Len(values) /\ Len(values) \in Nat /\ Len(values) >= 1
  BY HeightsOf DEF Catches, Keeps
<1>2. Part(h, <<x, y>>, Len(values), Len(values))
  BY <1>1, PartTwo
<1>3. Right(h, t, Go(<<x, y>> \o <<h>>))
  BY <1>2, LoopIsRight
<1> DEFINE w == <<x, y>> \o <<h>>
<1>4. w = <<x, y, h>>
  <2>1. AnySeq(<<x, y>>) /\ AnySeq(<<h>>) /\ Len(<<x, y>>) = 2 /\ Len(<<h>>) = 1
    BY DEF AnySeq
  <2>2. AnySeq(w) /\ Len(w) = 3 /\ w[1] = x /\ w[2] = y /\ w[2 + 1] = h
    BY <2>1, ConcatIs
  <2> HIDE DEF w
  <2> QED BY <2>2 DEF AnySeq
<1> QED BY <1>3, <1>4

\* One thing before a list.
LEMMA FitsFirst ==
  ASSUME NEW h, NEW s, NEW a \in Nat, NEW b, NEW low \in Nat,
         low <= a, a >= Least(h), a + Net(h) >= low, a + Net(h) \in Nat, ~Catches(h),
         Fits(s, a + Net(h), b, low),
         \A k \in DOMAIN s : ~Catches(s[k])
  PROVE  Fits(<<h>> \o s, a, b, low)
<1>1. Fits(<<h>>, a, a + Net(h), low)
  BY FitsOne
<1> QED BY <1>1, FitsJoin

\* The body of a case, with what comes after it.
LEMMA ArmsAreRight ==
  ASSUME NEW h, NEW t, Able(h), h[1] = "cases", t[1] # "EOF"
  PROVE  /\ Right(h, t, Shift(<<<<"take", "NUMBER">>, Need(":"), <<"arm">>, <<"case">>, <<"cases">>>>))
         /\ Right(h, t, Push(1, <<Need(":"), <<"arm">>, <<"case">>, <<"cases">>>>, Absent))
<1> DEFINE n == Len(values)
           take  == <<"take", "NUMBER">>
           colon == Need(":")
           arm   == <<"arm">>
           case  == <<"case">>
           cases == <<"cases">>
<1>1. /\ Net(h) = -1 /\ Low(h) = n - 1 /\ n \in Nat /\ n >= 2 /\ Low(h) \in Nat
      /\ h[1] \notin Operands \cup {"program"}
  BY HeightsOf, LowIs DEF Joins, Operands, Expressions
<1>2. Is(take, 1, 0) /\ Is(colon, 0, 0) /\ Is(arm, 1, 0) /\ Is(case, -2, 4) /\ Is(cases, -1, 2)
  BY WorkTable
<1>3. /\ take[1] = "take" /\ colon[1] = "need" /\ arm[1] = "arm"
      /\ case[1] = "case" /\ cases[1] = "cases"
  BY DEF Need
<1> HIDE DEF n, take, colon, arm, case, cases
<1>4. Fits(<<arm, case, cases>>, n + 1, n - 1, Low(h))
  <2>1. /\ Over(n + 1, arm, Low(h)) /\ Over(n + 1 + Net(arm), case, Low(h))
        /\ Over(n + 1 + Net(arm) + Net(case), cases, Low(h))
        /\ n + 1 + Net(arm) + Net(case) + Net(cases) = n - 1
    BY <1>1, <1>2 DEF Over, Is
  <2>2. n - 1 \in Nat /\ n - 1 >= Low(h)
    BY <1>1
  <2> QED BY <1>1, <2>1, <2>2, FitsThree
<1>5. Fits(<<colon, arm, case, cases>>, n + 1, n - 1, Low(h))
  <2>1. <<colon>> \o <<arm, case, cases>> = <<colon, arm, case, cases>>
    BY Tuple4
  <2>2. \A k \in DOMAIN <<arm, case, cases>> : ~Catches(<<arm, case, cases>>[k])
    BY <1>3 DEF Catches
  <2>3. /\ n + 1 \in Nat /\ n + 1 + Net(colon) = n + 1 /\ Low(h) <= n + 1
        /\ n + 1 >= Least(colon) /\ ~Catches(colon)
    BY <1>1, <1>2 DEF Is
  <2>4. Fits(<<colon>> \o <<arm, case, cases>>, n + 1, n - 1, Low(h))
    BY <1>1, <1>4, <2>2, <2>3, FitsFirst
  <2> QED BY <2>1, <2>4
<1>6. Fits(<<take, colon, arm, case, cases>>, n, n - 1, Low(h))
  <2>1. <<take>> \o <<colon, arm, case, cases>> = <<take, colon, arm, case, cases>>
    BY Tuple5
  <2>2. \A k \in DOMAIN <<colon, arm, case, cases>> : ~Catches(<<colon, arm, case, cases>>[k])
    BY <1>3 DEF Catches
  <2>3. n + Net(take) = n + 1 /\ Low(h) <= n /\ n >= Least(take) /\ ~Catches(take) /\ n + 1 >= Low(h)
    BY <1>1, <1>2 DEF Is
  <2>4. Fits(<<take>> \o <<colon, arm, case, cases>>, n, n - 1, Low(h))
    BY <1>1, <1>5, <2>2, <2>3, FitsFirst
  <2> QED BY <2>1, <2>4
<1>7. Pushes(h, <<take, colon, arm, case, cases>>) /\ Pushes(h, <<colon, arm, case, cases>>)
  BY <1>1, <1>2, <1>3 DEF Pushes, Is
<1>8. AnySeq(values) /\ 1 \in {0, 1} /\ n - 1 = n + Net(h)
  BY <1>1 DEF Able
<1>9. Right(h, t, Do(1, <<take, colon, arm, case, cases>>, values))
  BY <1>6, <1>7, <1>8, DoIsRight DEF n
<1> DEFINE w == <<Absent>> \o values
<1>10. AnySeq(w) /\ Len(w) = n + 1
  BY <1>8, PushIs DEF n
<1> HIDE DEF w
<1>11. Right(h, t, Do(1, <<colon, arm, case, cases>>, w))
  BY <1>5, <1>7, <1>8, <1>10, DoIsRight DEF n
<1> QED BY <1>9, <1>11 DEF Shift, Push, w, take, colon, arm, case, cases

-----------------------------------------------------------------------------
(***************************************************************************)
(* Each kind of work.                                                      *)
(***************************************************************************)
LEMMA BinaryIs == Len(Binary) = 6
  BY DEF Binary

LEMMA ExpressionIsRight ==
  ASSUME NEW h, NEW t, Able(h), h[1] \in Expressions
  PROVE  Right(h, t, ExpressionWork(h, t))
<1>0. AnySeq(values) /\ Item(h) /\ h[1] # "program"
  BY DEF Able, Expressions
<1>1. CASE h[1] = "assign"
  <2>0. h[1] \in Builds
    BY <1>1 DEF Builds
  <2>1. Right(h, t, Go(<<<<"level", 1>>, <<"equals">>>>))
    <3>1. Made(h, <<"level", 1>>, 1, 0) /\ Made(h, <<"equals">>, 0, 1)
      BY <1>1, WorkTable DEF Made, Is, May, Operands, Expressions, Need
    <3>2. Part(h, <<<<"level", 1>>, <<"equals">>>>, Len(values), Len(values) + 1)
      BY <2>0, <3>1, HeightsOf, PartTwo
    <3> QED BY <1>0, <2>0, <1>1, <3>2, HeightsOf, GoIsRight
  <2> QED BY <1>1, <2>1 DEF ExpressionWork
<1>2. CASE h[1] = "equals"
  <2>0. h[1] \in Keeps
    BY <1>2 DEF Keeps
  <2>1. ASSUME t = Sym("=")
        PROVE  Right(h, t, Shift(<<<<"assign">>, <<"assigned", index>>>>))
    <3>1. Made(h, <<"assign">>, 1, 0) /\ Made(h, <<"assigned", index>>, -1, 2)
      BY <2>1, <1>2, WorkTable DEF Made, Is, May, Operands, Expressions, Need
    <3>2. Part(h, <<<<"assign">>, <<"assigned", index>>>>, Len(values), Len(values))
      BY <2>0, <3>1, HeightsOf, PartTwo
    <3> QED BY <2>1, <1>0, <2>0, <1>2, <3>2, HeightsOf, ShiftIsRight DEF Sym
  <2>2. Right(h, t, Go(<<>>))
    BY <2>0, HeightsOf, StayIsRight
  <2> QED BY <1>2, <2>1, <2>2 DEF ExpressionWork
<1>3. CASE h[1] = "assigned"
  <2>0. h[1] \in Joins
    BY <1>3 DEF Joins
  <2>1. Right(h, t, Reduce(2, <<"=", values[2], values[1]>>))
    BY <2>0, HeightsOf, ReduceIsRight
  <2>2. Right(h, t, Fail(h[2]))
    BY <1>3 DEF Right, Fail
  <2> QED BY <1>3, <2>1, <2>2 DEF ExpressionWork
<1>4. CASE h[1] = "level"
  <2>0. h[1] \in Builds
    BY <1>4 DEF Builds
  <2>1. h[2] \in 1..7 /\ (h[2] <= Len(Binary) <=> h[2] \in 1..6 /\ h[2] + 1 \in 1..7)
    BY <1>4, <1>0, BinaryIs DEF Item
  <2>2. ASSUME h[2] \in 1..6 /\ h[2] + 1 \in 1..7
        PROVE  Right(h, t, Go(<<<<"level", h[2] + 1>>, <<"tail", h[2]>>>>))
    <3>1. Made(h, <<"level", h[2] + 1>>, 1, 0) /\ Made(h, <<"tail", h[2]>>, 0, 1)
      BY <2>2, <1>4, WorkTable DEF Made, Is, May, Operands, Expressions, Need
    <3>2. Part(h, <<<<"level", h[2] + 1>>, <<"tail", h[2]>>>>, Len(values), Len(values) + 1)
      BY <2>0, <3>1, HeightsOf, PartTwo
    <3> QED BY <1>0, <2>0, <1>4, <3>2, HeightsOf, GoIsRight
  <2>3. ASSUME Symbol(t, DOMAIN Prefixes)
        PROVE  Right(h, t, Shift(<<<<"level", h[2]>>, <<"unary", Prefixes[t[2]]>>>>))
    <3>1. Made(h, <<"level", h[2]>>, 1, 0) /\ Made(h, <<"unary", Prefixes[t[2]]>>, 0, 1)
      BY <2>3, <1>4, WorkTable, <2>1 DEF Made, Is, May, Operands, Expressions, Need
    <3>2. Part(h, <<<<"level", h[2]>>, <<"unary", Prefixes[t[2]]>>>>, Len(values), Len(values) + 1)
      BY <2>0, <3>1, HeightsOf, PartTwo
    <3> QED BY <2>3, <1>0, <2>0, <1>4, <3>2, HeightsOf, ShiftIsRight DEF Symbol
  <2>4. Right(h, t, Go(<<<<"primary">>, <<"postfix">>>>))
    <3>1. Made(h, <<"primary">>, 1, 0) /\ Made(h, <<"postfix">>, 0, 1)
      BY <1>4, WorkTable DEF Made, Is, May, Operands, Expressions, Need
    <3>2. Part(h, <<<<"primary">>, <<"postfix">>>>, Len(values), Len(values) + 1)
      BY <2>0, <3>1, HeightsOf, PartTwo
    <3> QED BY <1>0, <2>0, <1>4, <3>2, HeightsOf, GoIsRight
  <2> QED BY <1>4, <2>2, <2>3, <2>4, <2>1 DEF ExpressionWork
<1>5. CASE h[1] = "tail"
  <2>0. h[1] \in Keeps
    BY <1>5 DEF Keeps
  <2>1. h[2] \in 1..6 /\ h[2] + 1 \in 1..7
    BY <1>5, <1>0 DEF Item
  <2>2. ASSUME Symbol(t, DOMAIN Binary[h[2]])
        PROVE  Right(h, t, Shift(<<<<"level", h[2] + 1>>, <<"binary", Binary[h[2]][t[2]]>>, <<"tail", h[2]>>>>))
    <3>1. /\ Made(h, <<"level", h[2] + 1>>, 1, 0) /\ Made(h, <<"binary", Binary[h[2]][t[2]]>>, -1, 2)
          /\ Made(h, <<"tail", h[2]>>, 0, 1)
      BY <2>2, <1>5, WorkTable, <2>1 DEF Made, Is, May, Operands, Expressions, Need
    <3>2. Part(h, <<<<"level", h[2] + 1>>, <<"binary", Binary[h[2]][t[2]]>>, <<"tail", h[2]>>>>, Len(values), Len(values))
      BY <2>0, <3>1, HeightsOf, PartThree
    <3> QED BY <2>2, <1>0, <2>0, <1>5, <3>2, HeightsOf, ShiftIsRight DEF Symbol
  <2>3. Right(h, t, Go(<<>>))
    BY <2>0, HeightsOf, StayIsRight
  <2> QED BY <1>5, <2>2, <2>3 DEF ExpressionWork, Tail1
<1>6. CASE h[1] = "binary"
  <2>0. h[1] \in Joins
    BY <1>6 DEF Joins
  <2>1. Right(h, t, Reduce(2, <<"bin", h[2], values[2], values[1]>>))
    BY <2>0, HeightsOf, ReduceIsRight
  <2> QED BY <1>6, <2>1 DEF ExpressionWork
<1>7. CASE h[1] = "unary"
  <2>0. h[1] \in Keeps
    BY <1>7 DEF Keeps
  <2>1. Right(h, t, Reduce(1, <<"un", h[2], values[1], FALSE>>))
    BY <2>0, HeightsOf, ReduceIsRight
  <2> QED BY <1>7, <2>1 DEF ExpressionWork
<1>8. CASE h[1] = "primary"
  <2>0. h[1] \in Builds
    BY <1>8 DEF Builds
  <2>1. ASSUME t[1] \in DOMAIN LiteralKind
        PROVE  Right(h, t, Push(1, <<>>, <<LiteralKind[t[1]], t[2]>>))
    BY <2>1, <2>0, HeightsOf, PushIsRight DEF LiteralKind
  <2>2. ASSUME t[1] = "IDENTIFIER"
        PROVE  Right(h, t, Push(1, <<>>, <<"var", t[2]>>))
    BY <2>2, <2>0, HeightsOf, PushIsRight
  <2>3. ASSUME t = Sym("(")
        PROVE  Right(h, t, Shift(<<<<"assign">>, Need(")")>>))
    <3>1. Made(h, <<"assign">>, 1, 0) /\ Made(h, Need(")"), 0, 0)
      BY <2>3, <1>8, WorkTable DEF Made, Is, May, Operands, Expressions, Need
    <3>2. Part(h, <<<<"assign">>, Need(")")>>, Len(values), Len(values) + 1)
      BY <2>0, <3>1, HeightsOf, PartTwo
    <3> QED BY <2>3, <1>0, <2>0, <1>8, <3>2, HeightsOf, ShiftIsRight DEF Sym
  <2>4. Right(h, t, Fail(index))
    BY FailIsRight
  <2> QED BY <1>8, <2>1, <2>2, <2>3, <2>4 DEF ExpressionWork, Primary
<1>9. CASE h[1] = "postfix"
  <2>0. h[1] \in Keeps
    BY <1>9 DEF Keeps
  <2>1. ASSUME t = Sym("(")
        PROVE  Right(h, t, Push(1, <<<<"call">>>>, <<>>))
    <3>1. Made(h, <<"call">>, -1, 2)
      BY <2>1, <1>9, WorkTable DEF Made, Is, May, Operands, Expressions, Need
    <3>2. Part(h, <<<<"call">>>>, Len(values) + 1, Len(values))
      BY <2>0, <3>1, HeightsOf, PartOne
    <3> QED BY <2>1, <1>0, <2>0, <1>9, <3>2, HeightsOf, PushPartIsRight DEF Sym
  <2>2. ASSUME t = Sym("[")
        PROVE  Right(h, t, Shift(<<<<"assign">>, Need("]"), <<"element">>, <<"postfix">>>>))
    <3>1. /\ Made(h, <<"assign">>, 1, 0) /\ Made(h, Need("]"), 0, 0)
          /\ Made(h, <<"element">>, -1, 2) /\ Made(h, <<"postfix">>, 0, 1)
      BY <2>2, <1>9, WorkTable DEF Made, Is, May, Operands, Expressions, Need
    <3>2. Part(h, <<<<"assign">>, Need("]"), <<"element">>, <<"postfix">>>>, Len(values), Len(values))
      BY <2>0, <3>1, HeightsOf, PartFour, SMTT(60)
    <3> QED BY <2>2, <1>0, <2>0, <1>9, <3>2, HeightsOf, ShiftIsRight DEF Sym
  <2>3. ASSUME Symbol(t, DOMAIN Postfixes)
        PROVE  Right(h, t, Do(1, <<<<"postfix">>>>,
                       <<<<"un", Postfixes[t[2]], values[1], TRUE>>>> \o Tail(values)))
    <3>1. Made(h, <<"postfix">>, 0, 1)
      BY <2>3, <1>9, WorkTable DEF Made, Is, May, Operands, Expressions, Need
    <3>2. Part(h, <<<<"postfix">>>>, Len(values), Len(values))
      BY <2>0, <3>1, HeightsOf, PartOne
    <3> QED BY <2>3, <1>0, <2>0, <1>9, <3>2, HeightsOf, TopPartIsRight DEF Symbol
  <2>4. Right(h, t, Go(<<>>))
    BY <2>0, HeightsOf, StayIsRight
  <2> QED BY <1>9, <2>1, <2>2, <2>3, <2>4 DEF ExpressionWork, Postfix
<1>10. CASE h[1] = "element"
  <2>0. h[1] \in Joins
    BY <1>10 DEF Joins
  <2>1. Right(h, t, Reduce(2, <<"idx", values[2], values[1]>>))
    BY <2>0, HeightsOf, ReduceIsRight
  <2> QED BY <1>10, <2>1 DEF ExpressionWork
<1>11. CASE h[1] = "call"
  <2>0. h[1] \in Joins
    BY <1>11 DEF Joins
  <2>1. ASSUME t = Sym(")")
        PROVE  Right(h, t, Shift(<<<<"called">>, <<"postfix">>>>))
    <3>1. Made(h, <<"called">>, -1, 2) /\ Made(h, <<"postfix">>, 0, 1)
      BY <2>1, <1>11, WorkTable DEF Made, Is, May, Operands, Expressions, Need
    <3>2. Part(h, <<<<"called">>, <<"postfix">>>>, Len(values), Len(values) - 1)
      BY <2>0, <3>1, HeightsOf, PartTwo
    <3> QED BY <2>1, <1>0, <2>0, <1>11, <3>2, HeightsOf, ShiftIsRight DEF Sym
  <2>2. Right(h, t, Go(<<<<"assign">>, <<"argument">>>>))
    <3>1. Made(h, <<"assign">>, 1, 0) /\ Made(h, <<"argument">>, -2, 3)
      BY <1>11, WorkTable DEF Made, Is, May, Operands, Expressions, Need
    <3>2. Part(h, <<<<"assign">>, <<"argument">>>>, Len(values), Len(values) - 1)
      BY <2>0, <3>1, HeightsOf, PartTwo
    <3> QED BY <1>0, <2>0, <1>11, <3>2, HeightsOf, GoIsRight
  <2> QED BY <1>11, <2>1, <2>2 DEF ExpressionWork
<1>12. CASE h[1] = "argument"
  <2>0. h[1] \in Gathers
    BY <1>12 DEF Gathers
  <2>1. ASSUME t = Sym(")")
        PROVE  Right(h, t, Do(1, <<<<"called">>, <<"postfix">>>>,
                       <<Append(values[2], values[1])>> \o SubSeq(values, 3, Len(values))))
    <3>1. Made(h, <<"called">>, -1, 2) /\ Made(h, <<"postfix">>, 0, 1)
      BY <2>1, <1>12, WorkTable DEF Made, Is, May, Operands, Expressions, Need
    <3>2. Part(h, <<<<"called">>, <<"postfix">>>>, Len(values) - 1, Len(values) - 2)
      BY <2>0, <3>1, HeightsOf, PartTwo
    <3>3. /\ 3 \in 1..(Len(values) + 1) /\ Len(values) - 1 = Len(values) - 3 + 2
          /\ 1 \in {0, 1} /\ 0 # 1
      BY <2>0, HeightsOf
    <3> QED BY <2>1, <1>0, <2>0, <1>12, <3>2, <3>3, HeightsOf, ReplacePartIsRight DEF Sym
  <2>2. Right(h, t, Do(0, <<Need(Comma), <<"assign">>, <<"argument">>>>,
                       <<Append(values[2], values[1])>> \o SubSeq(values, 3, Len(values))))
    <3>1. /\ Made(h, Need(Comma), 0, 0) /\ Made(h, <<"assign">>, 1, 0)
          /\ Made(h, <<"argument">>, -2, 3)
      BY <1>12, WorkTable DEF Made, Is, May, Operands, Expressions, Need
    <3>2. Part(h, <<Need(Comma), <<"assign">>, <<"argument">>>>, Len(values) - 1, Len(values) - 2)
      BY <2>0, <3>1, HeightsOf, PartThree
    <3>3. /\ 3 \in 1..(Len(values) + 1) /\ Len(values) - 1 = Len(values) - 3 + 2
          /\ 0 \in {0, 1} /\ 0 # 1
      BY <2>0, HeightsOf
    <3> QED BY <1>0, <2>0, <1>12, <3>2, <3>3, HeightsOf, ReplacePartIsRight
  <2> QED BY <1>12, <2>1, <2>2 DEF ExpressionWork
<1>13. CASE h[1] = "called"
  <2>0. h[1] \in Joins
    BY <1>13 DEF Joins
  <2>1. Right(h, t, Reduce(2, <<"call", values[2], values[1]>>))
    BY <2>0, HeightsOf, ReduceIsRight
  <2> QED BY <1>13, <2>1 DEF ExpressionWork
<1> QED BY <1>1, <1>2, <1>3, <1>4, <1>5, <1>6, <1>7, <1>8, <1>9, <1>10, <1>11, <1>12, <1>13
      DEF Expressions

LEMMA StatementIsRight ==
  ASSUME NEW h, NEW t, Able(h), h[1] \in Statements
  PROVE  Right(h, t, StatementWork(h, t))
<1>0. AnySeq(values) /\ Item(h) /\ h[1] # "program"
  BY DEF Able, Statements
<1>1. CASE h[1] = "statement"
  <2>0. h[1] \in Builds
    BY <1>1 DEF Builds
  <2>1. Right(h, t, Fail(index))
    BY FailIsRight
  <2>2. Right(h, t, Go(<<<<"block">>>>))
    <3>1. Made(h, <<"block">>, 1, 0)
      BY <1>1, WorkTable DEF Made, Is, May, Operands, Expressions, Need
    <3>2. Part(h, <<<<"block">>>>, Len(values), Len(values) + 1)
      BY <2>0, <3>1, HeightsOf, PartOne
    <3> QED BY <1>0, <2>0, <1>1, <3>2, HeightsOf, GoIsRight
  <2>3. ASSUME t = Sym(Semicolon)
        PROVE  Right(h, t, Push(1, <<>>, <<"expr", Absent>>))
    BY <2>3, <2>0, HeightsOf, PushIsRight DEF Sym
  <2>4. ASSUME t = Kw("if")
        PROVE  Right(h, t, Shift(<<Need("("), <<"assign">>, Need(")"), <<"statement">>, <<"else">>>>))
    <3>1. /\ Made(h, Need("("), 0, 0) /\ Made(h, <<"assign">>, 1, 0)
          /\ Made(h, Need(")"), 0, 0) /\ Made(h, <<"statement">>, 1, 0)
          /\ Made(h, <<"else">>, -1, 2)
      BY <2>4, <1>1, WorkTable DEF Made, Is, May, Operands, Expressions, Need
    <3>2. Part(h, <<Need("("), <<"assign">>, Need(")"), <<"statement">>, <<"else">>>>, Len(values), Len(values) + 1)
      BY <2>0, <3>1, HeightsOf, PartFive, SMTT(60)
    <3> QED BY <2>4, <1>0, <2>0, <1>1, <3>2, HeightsOf, ShiftIsRight DEF Kw
  <2>5. ASSUME t = Kw("while")
        PROVE  Right(h, t, Shift(<<Need("("), <<"assign">>, Need(")"), <<"statement">>, <<"while">>>>))
    <3>1. /\ Made(h, Need("("), 0, 0) /\ Made(h, <<"assign">>, 1, 0)
          /\ Made(h, Need(")"), 0, 0) /\ Made(h, <<"statement">>, 1, 0)
          /\ Made(h, <<"while">>, -1, 2)
      BY <2>5, <1>1, WorkTable DEF Made, Is, May, Operands, Expressions, Need
    <3>2. Part(h, <<Need("("), <<"assign">>, Need(")"), <<"statement">>, <<"while">>>>, Len(values), Len(values) + 1)
      BY <2>0, <3>1, HeightsOf, PartFive, SMTT(60)
    <3> QED BY <2>5, <1>0, <2>0, <1>1, <3>2, HeightsOf, ShiftIsRight DEF Kw
  <2>6. ASSUME t = Kw("for")
        PROVE  Right(h, t, Shift(<<Need("("), <<"optional", Semicolon>>, Need(Semicolon),
                                   <<"optional", Semicolon>>, Need(Semicolon),
                                   <<"optional", ")">>, Need(")"), <<"statement">>, <<"for">>>>))
    <3> DEFINE clause == <<"optional", Semicolon>>
               semi   == Need(Semicolon)
               last5  == <<semi, <<"optional", ")">>, Need(")"), <<"statement">>, <<"for">>>>
               last6  == <<clause, semi, <<"optional", ")">>, Need(")"), <<"statement">>, <<"for">>>>
               last7  == <<semi, clause, semi, <<"optional", ")">>, Need(")"), <<"statement">>, <<"for">>>>
               last8  == <<clause, semi, clause, semi, <<"optional", ")">>, Need(")"), <<"statement">>,
                           <<"for">>>>
               whole  == <<Need("("), clause, semi, clause, semi, <<"optional", ")">>, Need(")"),
                           <<"statement">>, <<"for">>>>
    <3>1. /\ Made(h, Need("("), 0, 0) /\ Made(h, <<"optional", Semicolon>>, 1, 0)
          /\ Made(h, Need(Semicolon), 0, 0) /\ Made(h, <<"optional", ")">>, 1, 0)
          /\ Made(h, Need(")"), 0, 0) /\ Made(h, <<"statement">>, 1, 0)
          /\ Made(h, <<"for">>, -3, 4)
      BY <2>6, <1>1, WorkTable DEF Made, Is, May, Operands, Expressions, Need
    <3>2. Part(h, <<Need("(")>>, Len(values), Len(values))
      BY <2>0, <3>1, HeightsOf, PartOne
    <3>3. Part(h, <<clause>>, Len(values), Len(values) + 1)
      BY <2>0, <3>1, HeightsOf, PartOne
    <3>4. Part(h, <<semi>>, Len(values) + 1, Len(values) + 1)
      BY <2>0, <3>1, HeightsOf, PartOne
    <3>5. Part(h, <<clause>>, Len(values) + 1, Len(values) + 2)
      BY <2>0, <3>1, HeightsOf, PartOne
    <3>6. Part(h, last5, Len(values) + 2, Len(values) + 1)
      BY <2>0, <3>1, HeightsOf, PartFive, SMTT(60)
    <3>7. Part(h, <<clause>> \o last5, Len(values) + 1, Len(values) + 1)
      BY <3>5, <3>6, PartJoin
    <3>8. <<clause>> \o last5 = last6
      BY Tuple6
    <3>9. Part(h, last6, Len(values) + 1, Len(values) + 1)
      BY <3>7, <3>8
    <3>10. Part(h, <<semi>> \o last6, Len(values) + 1, Len(values) + 1)
      BY <3>4, <3>9, PartJoin
    <3>11. <<semi>> \o last6 = last7
      BY Tuple7
    <3>12. Part(h, last7, Len(values) + 1, Len(values) + 1)
      BY <3>10, <3>11
    <3>13. Part(h, <<clause>> \o last7, Len(values), Len(values) + 1)
      BY <3>3, <3>12, PartJoin
    <3>14. <<clause>> \o last7 = last8
      BY Tuple8
    <3>15. Part(h, last8, Len(values), Len(values) + 1)
      BY <3>13, <3>14
    <3>16. Part(h, <<Need("(")>> \o last8, Len(values), Len(values) + 1)
      BY <3>2, <3>15, PartJoin
    <3>17. <<Need("(")>> \o last8 = whole
      BY Tuple9
    <3>18. Part(h, whole, Len(values), Len(values) + 1)
      BY <3>16, <3>17
    <3> QED BY <2>6, <1>0, <2>0, <1>1, <3>18, HeightsOf, ShiftIsRight DEF Kw
  <2>7. ASSUME t = Kw("switch")
        PROVE  Right(h, t, Push(1, <<Need("("), <<"assign">>, Need(")"), Need(LBrace), <<"cases">>>>, <<>>))
    <3>1. /\ Made(h, Need("("), 0, 0) /\ Made(h, <<"assign">>, 1, 0)
          /\ Made(h, Need(")"), 0, 0) /\ Made(h, Need(LBrace), 0, 0)
          /\ Made(h, <<"cases">>, -1, 2)
      BY <2>7, <1>1, WorkTable DEF Made, Is, May, Operands, Expressions, Need
    <3>2. Part(h, <<Need("("), <<"assign">>, Need(")"), Need(LBrace), <<"cases">>>>, Len(values) + 1, Len(values) + 1)
      BY <2>0, <3>1, HeightsOf, PartFive, SMTT(60)
    <3> QED BY <2>7, <1>0, <2>0, <1>1, <3>2, HeightsOf, PushPartIsRight DEF Kw
  <2>8. ASSUME t \in {Kw("break"), Kw("continue")}
        PROVE  Right(h, t, Push(1, <<Need(Semicolon)>>, <<t[2]>>))
    <3>1. Made(h, Need(Semicolon), 0, 0)
      BY <2>8, <1>1, WorkTable DEF Made, Is, May, Operands, Expressions, Need
    <3>2. Part(h, <<Need(Semicolon)>>, Len(values) + 1, Len(values) + 1)
      BY <2>0, <3>1, HeightsOf, PartOne
    <3> QED BY <2>8, <1>0, <2>0, <1>1, <3>2, HeightsOf, PushPartIsRight DEF Kw
  <2>9. ASSUME t = Kw("return")
        PROVE  Right(h, t, Shift(<<<<"result">>>>))
    <3>1. Made(h, <<"result">>, 1, 0)
      BY <2>9, <1>1, WorkTable DEF Made, Is, May, Operands, Expressions, Need
    <3>2. Part(h, <<<<"result">>>>, Len(values), Len(values) + 1)
      BY <2>0, <3>1, HeightsOf, PartOne
    <3> QED BY <2>9, <1>0, <2>0, <1>1, <3>2, HeightsOf, ShiftIsRight DEF Kw
  <2>10. Right(h, t, Go(<<<<"assign">>, Need(Semicolon), <<"expression">>>>))
    <3>1. /\ Made(h, <<"assign">>, 1, 0) /\ Made(h, Need(Semicolon), 0, 0)
          /\ Made(h, <<"expression">>, 0, 1)
      BY <1>1, WorkTable DEF Made, Is, May, Operands, Expressions, Need
    <3>2. Part(h, <<<<"assign">>, Need(Semicolon), <<"expression">>>>, Len(values), Len(values) + 1)
      BY <2>0, <3>1, HeightsOf, PartThree
    <3> QED BY <1>0, <2>0, <1>1, <3>2, HeightsOf, GoIsRight
  <2> QED BY <1>1, <2>1, <2>2, <2>3, <2>4, <2>5, <2>6, <2>7, <2>8, <2>9, <2>10 DEF StatementWork, Statement
<1>2. CASE h[1] = "expression"
  <2>0. h[1] \in Keeps
    BY <1>2 DEF Keeps
  <2>1. Right(h, t, Reduce(1, <<"expr", values[1]>>))
    BY <2>0, HeightsOf, ReduceIsRight
  <2> QED BY <1>2, <2>1 DEF StatementWork
<1>3. CASE h[1] = "result"
  <2>0. h[1] \in Builds
    BY <1>3 DEF Builds
  <2>1. ASSUME t = Sym(Semicolon)
        PROVE  Right(h, t, Push(1, <<>>, <<"return", Absent>>))
    BY <2>1, <2>0, HeightsOf, PushIsRight DEF Sym
  <2>2. Right(h, t, Go(<<<<"assign">>, Need(Semicolon), <<"returned">>>>))
    <3>1. /\ Made(h, <<"assign">>, 1, 0) /\ Made(h, Need(Semicolon), 0, 0)
          /\ Made(h, <<"returned">>, 0, 1)
      BY <1>3, WorkTable DEF Made, Is, May, Operands, Expressions, Need
    <3>2. Part(h, <<<<"assign">>, Need(Semicolon), <<"returned">>>>, Len(values), Len(values) + 1)
      BY <2>0, <3>1, HeightsOf, PartThree
    <3> QED BY <1>0, <2>0, <1>3, <3>2, HeightsOf, GoIsRight
  <2> QED BY <1>3, <2>1, <2>2 DEF StatementWork
<1>4. CASE h[1] = "returned"
  <2>0. h[1] \in Keeps
    BY <1>4 DEF Keeps
  <2>1. Right(h, t, Reduce(1, <<"return", values[1]>>))
    BY <2>0, HeightsOf, ReduceIsRight
  <2> QED BY <1>4, <2>1 DEF StatementWork
<1>5. CASE h[1] = "else"
  <2>0. h[1] \in Joins
    BY <1>5 DEF Joins
  <2>1. ASSUME t = Kw("else")
        PROVE  Right(h, t, Shift(<<<<"statement">>, <<"both">>>>))
    <3>1. Made(h, <<"statement">>, 1, 0) /\ Made(h, <<"both">>, -2, 3)
      BY <2>1, <1>5, WorkTable DEF Made, Is, May, Operands, Expressions, Need
    <3>2. Part(h, <<<<"statement">>, <<"both">>>>, Len(values), Len(values) - 1)
      BY <2>0, <3>1, HeightsOf, PartTwo
    <3> QED BY <2>1, <1>0, <2>0, <1>5, <3>2, HeightsOf, ShiftIsRight DEF Kw
  <2>2. Right(h, t, Reduce(2, <<"if", values[2], values[1], Absent>>))
    BY <2>0, HeightsOf, ReduceIsRight
  <2> QED BY <1>5, <2>1, <2>2 DEF StatementWork
<1>6. CASE h[1] = "both"
  <2>0. h[1] \in Gathers
    BY <1>6 DEF Gathers
  <2>1. Right(h, t, Reduce(3, <<"if", values[3], values[2], values[1]>>))
    BY <2>0, HeightsOf, ReduceIsRight
  <2> QED BY <1>6, <2>1 DEF StatementWork
<1>7. CASE h[1] = "while"
  <2>0. h[1] \in Joins
    BY <1>7 DEF Joins
  <2>1. Right(h, t, Reduce(2, <<"while", values[2], values[1]>>))
    BY <2>0, HeightsOf, ReduceIsRight
  <2> QED BY <1>7, <2>1 DEF StatementWork
<1>8. CASE h[1] = "optional"
  <2>0. h[1] \in Builds
    BY <1>8 DEF Builds
  <2>1. Right(h, t, Push(0, <<>>, Absent))
    <3>1. 0 \in {0, 1} /\ 0 # 1
      OBVIOUS
    <3> QED BY <2>0, <3>1, HeightsOf, PushIsRight
  <2>2. Right(h, t, Go(<<<<"assign">>>>))
    <3>1. Made(h, <<"assign">>, 1, 0)
      BY <1>8, WorkTable DEF Made, Is, May, Operands, Expressions, Need
    <3>2. Part(h, <<<<"assign">>>>, Len(values), Len(values) + 1)
      BY <2>0, <3>1, HeightsOf, PartOne
    <3> QED BY <1>0, <2>0, <1>8, <3>2, HeightsOf, GoIsRight
  <2> QED BY <1>8, <2>1, <2>2 DEF StatementWork
<1>9. CASE h[1] = "for"
  <2>0. h[1] \in {"for", "whole"}
    BY <1>9
  <2>1. Right(h, t, Reduce(4, <<"for", values[4], values[3], values[2], values[1]>>))
    BY <2>0, HeightsOf, ReduceIsRight
  <2> QED BY <1>9, <2>1 DEF StatementWork
<1>10. CASE h[1] = "cases"
  <2>0. h[1] \in Joins
    BY <1>10 DEF Joins
  <2>1. ASSUME t = Sym(RBrace)
        PROVE  Right(h, t, Do(1, <<>>, <<<<"switch", values[1], values[2]>>>> \o SubSeq(values, 3, Len(values))))
    <3>1. /\ 3 \in 1..(Len(values) + 1) /\ Len(values) + Net(h) = Len(values) - 3 + 2
          /\ 1 \in {0, 1} /\ 0 # 1
      BY <2>0, HeightsOf
    <3> QED BY <2>1, <3>1, DropIsRight DEF Sym
  <2>2. ASSUME t = Kw("case")
        PROVE  Right(h, t, Shift(<<<<"take", "NUMBER">>, Need(":"), <<"arm">>, <<"case">>, <<"cases">>>>))
    BY <2>2, <1>10, ArmsAreRight DEF Kw
  <2>3. ASSUME t = Kw("default")
        PROVE  Right(h, t, Push(1, <<Need(":"), <<"arm">>, <<"case">>, <<"cases">>>>, Absent))
    BY <2>3, <1>10, ArmsAreRight DEF Kw
  <2>4. Right(h, t, Fail(index))
    BY FailIsRight
  <2> QED BY <1>10, <2>1, <2>2, <2>3, <2>4 DEF StatementWork
<1>11. CASE h[1] = "arm"
  <2>0. h[1] \in Builds
    BY <1>11 DEF Builds
  <2>1. Right(h, t, Push(0, <<<<"body", Len(values) + 1>>>>, <<>>))
    <3>1. 0 \in {0, 1} /\ 0 # 1 /\ h[1] \notin Operands \cup {"program"}
      BY <1>11 DEF Operands, Expressions
    <3> QED BY <1>11, <2>0, <3>1, HeightsOf, BeginsLoop
  <2> QED BY <1>11, <2>1 DEF StatementWork
<1>12. CASE h[1] = "body"
  <2>0. h[1] \in Keeps
    BY <1>12 DEF Keeps
  <2>1. Right(h, t, Go(<<>>))
    BY <2>0, HeightsOf, StayIsRight
  <2>2. Right(h, t, Go(<<<<"statement">>, <<"more">>, h>>))
    <3>1. Made(h, <<"statement">>, 1, 0) /\ Made(h, <<"more">>, -1, 2)
      BY <1>12, WorkTable DEF Made, Is, May, Operands, Expressions
    <3> QED BY <1>12, <3>1, LoopOfTwo DEF Catches
  <2> QED BY <1>12, <2>1, <2>2 DEF StatementWork
<1>13. CASE h[1] = "more"
  <2>0. h[1] \in Joins
    BY <1>13 DEF Joins
  <2>1. Right(h, t, Reduce(2, Append(values[2], values[1])))
    BY <2>0, HeightsOf, ReduceIsRight
  <2> QED BY <1>13, <2>1 DEF StatementWork
<1>14. CASE h[1] = "case"
  <2>0. h[1] \in {"case"}
    BY <1>14
  <2> DEFINE value == IF values[2] = Absent THEN Absent ELSE <<"int", values[2][2]>>
  <2> HIDE DEF value
  <2>1. Right(h, t, Do(0, <<>>, <<values[3], Append(values[4], <<value, values[1]>>)>>
                          \o SubSeq(values, 5, Len(values))))
    BY <2>0, CaseIsRight
  <2> QED BY <1>14, <2>1 DEF StatementWork, value
<1> QED BY <1>1, <1>2, <1>3, <1>4, <1>5, <1>6, <1>7, <1>8, <1>9, <1>10, <1>11, <1>12, <1>13, <1>14
      DEF Statements

LEMMA BlockIsRight ==
  ASSUME NEW h, NEW t, Able(h), h[1] \in Blocks
  PROVE  Right(h, t, BlockWork(h, t))
<1>0. AnySeq(values) /\ Item(h) /\ h[1] # "program"
  BY DEF Able, Blocks
<1>1. CASE h[1] = "block"
  <2>0. h[1] \in Builds
    BY <1>1 DEF Builds
  <2>1. ASSUME t = Sym(LBrace)
        PROVE  Right(h, t, Push(1, <<<<"items", Len(values) + 1>>>>, <<"block", <<>>, <<>>>>))
    <3>1. 1 \in {0, 1} /\ t[1] # "EOF" /\ h[1] \notin Operands \cup {"program"}
      BY <2>1, <1>1 DEF Operands, Expressions, Sym
    <3> QED BY <1>1, <2>0, <3>1, HeightsOf, BeginsLoop
  <2>2. Right(h, t, Fail(index))
    BY FailIsRight
  <2> QED BY <1>1, <2>1, <2>2 DEF BlockWork
<1>2. CASE h[1] = "items"
  <2>0. h[1] \in Keeps
    BY <1>2 DEF Keeps
  <2>1. ASSUME t = Sym(RBrace)
        PROVE  Right(h, t, Shift(<<>>))
    BY <2>1, <2>0, HeightsOf, StayIsRight DEF Sym
  <2>2. Right(h, t, Go(<<>>))
    BY <2>0, HeightsOf, StayIsRight
  <2>3. Right(h, t, Go(<<<<"declaration">>, <<"declared">>, h>>))
    <3>1. Made(h, <<"declaration">>, 1, 0) /\ Made(h, <<"declared">>, -1, 2)
      BY <1>2, WorkTable DEF Made, Is, May, Operands, Expressions
    <3> QED BY <1>2, <3>1, LoopOfTwo DEF Catches
  <2>4. Right(h, t, Go(<<<<"statement">>, <<"stated">>, h>>))
    <3>1. Made(h, <<"statement">>, 1, 0) /\ Made(h, <<"stated">>, -1, 2)
      BY <1>2, WorkTable DEF Made, Is, May, Operands, Expressions
    <3> QED BY <1>2, <3>1, LoopOfTwo DEF Catches
  <2> QED BY <1>2, <2>1, <2>2, <2>3, <2>4 DEF BlockWork
<1>3. CASE h[1] = "declared"
  <2>0. h[1] \in Joins
    BY <1>3 DEF Joins
  <2>1. Right(h, t, Reduce(2, <<"block", Append(values[2][2], values[1]), values[2][3]>>))
    BY <2>0, HeightsOf, ReduceIsRight
  <2> QED BY <1>3, <2>1 DEF BlockWork
<1>4. CASE h[1] = "stated"
  <2>0. h[1] \in Joins
    BY <1>4 DEF Joins
  <2>1. Right(h, t, Reduce(2, <<"block", values[2][2], Append(values[2][3], values[1])>>))
    BY <2>0, HeightsOf, ReduceIsRight
  <2> QED BY <1>4, <2>1 DEF BlockWork
<1>5. CASE h[1] = "declaration"
  <2>0. h[1] \in Builds
    BY <1>5 DEF Builds
  <2> DEFINE rest  == <<<<"take", "IDENTIFIER">>, <<"size">>, <<"initial">>, <<"end">>, <<"variable">>>>
             parts == <<<<"type">>, <<"take", "IDENTIFIER">>, <<"size">>, <<"initial">>, <<"end">>, <<"variable">>>>
  <2>1. ASSUME t = Kw("const")
        PROVE  Right(h, t, Push(1, parts, t = Kw("const")))
    <3>1. /\ Made(h, <<"type">>, 1, 0) /\ Made(h, <<"take", "IDENTIFIER">>, 1, 0)
          /\ Made(h, <<"size">>, 1, 0) /\ Made(h, <<"initial">>, 1, 0)
          /\ Made(h, <<"end">>, 0, 0) /\ Made(h, <<"variable">>, -4, 5)
      BY <2>1, <1>5, WorkTable DEF Made, Is, May, Operands, Expressions, Need
    <3>2. Part(h, <<<<"type">>>>, Len(values) + 1, Len(values) + 2)
      BY <2>0, <3>1, HeightsOf, PartOne
    <3>3. Part(h, rest, Len(values) + 2, Len(values) + 1)
      BY <2>0, <3>1, HeightsOf, PartFive, SMTT(60)
    <3>4. Part(h, <<<<"type">>>> \o rest, Len(values) + 1, Len(values) + 1)
      BY <3>2, <3>3, PartJoin
    <3>5. <<<<"type">>>> \o rest = parts
      BY Tuple6
    <3>6. Part(h, parts, Len(values) + 1, Len(values) + 1)
      BY <3>4, <3>5
    <3> QED BY <2>1, <1>0, <2>0, <1>5, <3>6, HeightsOf, PushPartIsRight DEF Kw
  <2>2. Right(h, t, Push(0, parts, t = Kw("const")))
    <3>1. /\ Made(h, <<"type">>, 1, 0) /\ Made(h, <<"take", "IDENTIFIER">>, 1, 0)
          /\ Made(h, <<"size">>, 1, 0) /\ Made(h, <<"initial">>, 1, 0)
          /\ Made(h, <<"end">>, 0, 0) /\ Made(h, <<"variable">>, -4, 5)
      BY <1>5, WorkTable DEF Made, Is, May, Operands, Expressions, Need
    <3>2. Part(h, <<<<"type">>>>, Len(values) + 1, Len(values) + 2)
      BY <2>0, <3>1, HeightsOf, PartOne
    <3>3. Part(h, rest, Len(values) + 2, Len(values) + 1)
      BY <2>0, <3>1, HeightsOf, PartFive, SMTT(60)
    <3>4. Part(h, <<<<"type">>>> \o rest, Len(values) + 1, Len(values) + 1)
      BY <3>2, <3>3, PartJoin
    <3>5. <<<<"type">>>> \o rest = parts
      BY Tuple6
    <3>6. Part(h, parts, Len(values) + 1, Len(values) + 1)
      BY <3>4, <3>5
    <3>7. 0 \in {0, 1} /\ 0 # 1
      OBVIOUS
    <3> QED BY <1>0, <2>0, <1>5, <3>6, <3>7, HeightsOf, PushPartIsRight
  <2> QED BY <1>5, <2>1, <2>2 DEF BlockWork, Push
<1>6. CASE h[1] = "size"
  <2>0. h[1] \in Builds
    BY <1>6 DEF Builds
  <2>1. ASSUME t = Sym("[")
        PROVE  Right(h, t, Shift(<<<<"take", "NUMBER">>, Need("]")>>))
    <3>1. Made(h, <<"take", "NUMBER">>, 1, 0) /\ Made(h, Need("]"), 0, 0)
      BY <2>1, <1>6, WorkTable DEF Made, Is, May, Operands, Expressions, Need
    <3>2. Part(h, <<<<"take", "NUMBER">>, Need("]")>>, Len(values), Len(values) + 1)
      BY <2>0, <3>1, HeightsOf, PartTwo
    <3> QED BY <2>1, <1>0, <2>0, <1>6, <3>2, HeightsOf, ShiftIsRight DEF Sym
  <2>2. Right(h, t, Push(0, <<>>, <<"NUMBER", 0>>))
    <3>1. 0 \in {0, 1} /\ 0 # 1
      OBVIOUS
    <3> QED BY <2>0, <3>1, HeightsOf, PushIsRight
  <2> QED BY <1>6, <2>1, <2>2 DEF BlockWork
<1>7. CASE h[1] = "initial"
  <2>0. h[1] \in Builds
    BY <1>7 DEF Builds
  <2>1. ASSUME t = Sym("=")
        PROVE  Right(h, t, Shift(<<<<"assign">>>>))
    <3>1. Made(h, <<"assign">>, 1, 0)
      BY <2>1, <1>7, WorkTable DEF Made, Is, May, Operands, Expressions, Need
    <3>2. Part(h, <<<<"assign">>>>, Len(values), Len(values) + 1)
      BY <2>0, <3>1, HeightsOf, PartOne
    <3> QED BY <2>1, <1>0, <2>0, <1>7, <3>2, HeightsOf, ShiftIsRight DEF Sym
  <2>2. Right(h, t, Push(0, <<>>, Absent))
    <3>1. 0 \in {0, 1} /\ 0 # 1
      OBVIOUS
    <3> QED BY <2>0, <3>1, HeightsOf, PushIsRight
  <2> QED BY <1>7, <2>1, <2>2 DEF BlockWork
<1>8. CASE h[1] = "end"
  <2>0. h[1] \in Checks
    BY <1>8 DEF Checks
  <2>1. ASSUME t = Sym(Semicolon)
        PROVE  Right(h, t, Shift(<<>>))
    BY <2>1, <2>0, HeightsOf, StayIsRight DEF Sym
  <2>2. Right(h, t, Fail(index))
    BY FailIsRight
  <2> QED BY <1>8, <2>1, <2>2 DEF BlockWork, EndDeclaration
<1>9. CASE h[1] = "variable"
  <2>0. h[1] \in {"variable"}
    BY <1>9
  <2>1. Right(h, t, Reduce(5, <<values[3][2], values[2][2], values[1], values[4], values[5]>>))
    BY <2>0, HeightsOf, ReduceIsRight
  <2> QED BY <1>9, <2>1 DEF BlockWork
<1> QED BY <1>1, <1>2, <1>3, <1>4, <1>5, <1>6, <1>7, <1>8, <1>9 DEF Blocks

LEMMA FunctionIsRight ==
  ASSUME NEW h, NEW t, Able(h), h[1] \notin Expressions \cup Statements \cup Blocks
  PROVE  Right(h, t, FunctionWork(h, t))
<1>0. AnySeq(values) /\ Item(h)
  BY DEF Able
<1>1. CASE h[1] = "program"
  <2>0. h[1] \in Keeps
    BY <1>1 DEF Keeps
  <2>1. Right(h, t, Go(<<>>))
    BY <2>0, HeightsOf, StayIsRight
  <2>2. Right(h, t, Go(<<<<"function">>, <<"parsed">>, h>>))
    <3>1. Made(h, <<"function">>, 1, 0) /\ Made(h, <<"parsed">>, -1, 2)
      BY <1>1, WorkTable DEF Made, Is, May, Operands, Expressions
    <3> QED BY <1>1, <3>1, LoopOfTwo DEF Catches
  <2> QED BY <1>1, <2>1, <2>2 DEF FunctionWork
<1>2. CASE h[1] = "parsed"
  <2>0. h[1] \in Joins
    BY <1>2 DEF Joins
  <2>1. Right(h, t, Reduce(2, Append(values[2], values[1])))
    BY <2>0, HeightsOf, ReduceIsRight
  <2> QED BY <1>2, <2>1 DEF FunctionWork
<1>3. CASE h[1] = "function"
  <2>0. h[1] \in Builds
    BY <1>3 DEF Builds
  <2> DEFINE rest  == <<<<"take", "IDENTIFIER">>, Need("("), <<"params">>, <<"block">>, <<"whole">>>>
             parts == <<<<"type">>, <<"take", "IDENTIFIER">>, Need("("), <<"params">>, <<"block">>, <<"whole">>>>
  <2>1. Right(h, t, Go(parts))
    <3>1. /\ Made(h, <<"type">>, 1, 0) /\ Made(h, <<"take", "IDENTIFIER">>, 1, 0)
          /\ Made(h, Need("("), 0, 0) /\ Made(h, <<"params">>, 1, 0)
          /\ Made(h, <<"block">>, 1, 0) /\ Made(h, <<"whole">>, -3, 4)
      BY <1>3, WorkTable DEF Made, Is, May, Operands, Expressions, Need
    <3>2. Part(h, <<<<"type">>>>, Len(values), Len(values) + 1)
      BY <2>0, <3>1, HeightsOf, PartOne
    <3>3. Part(h, rest, Len(values) + 1, Len(values) + 1)
      BY <2>0, <3>1, HeightsOf, PartFive, SMTT(60)
    <3>4. Part(h, <<<<"type">>>> \o rest, Len(values), Len(values) + 1)
      BY <3>2, <3>3, PartJoin
    <3>5. <<<<"type">>>> \o rest = parts
      BY Tuple6
    <3>6. Part(h, parts, Len(values), Len(values) + 1)
      BY <3>4, <3>5
    <3> QED BY <1>0, <2>0, <1>3, <3>6, HeightsOf, GoIsRight
  <2> QED BY <1>3, <2>1 DEF FunctionWork
<1>4. CASE h[1] = "params"
  <2>0. h[1] \in Builds
    BY <1>4 DEF Builds
  <2>1. ASSUME t = Sym(")")
        PROVE  Right(h, t, Push(1, <<>>, <<>>))
    BY <2>1, <2>0, HeightsOf, PushIsRight DEF Sym
  <2>2. Right(h, t, Push(0, <<<<"param">>>>, <<>>))
    <3>1. Made(h, <<"param">>, 0, 1)
      BY <1>4, WorkTable DEF Made, Is, May, Operands, Expressions, Need
    <3>2. Part(h, <<<<"param">>>>, Len(values) + 1, Len(values) + 1)
      BY <2>0, <3>1, HeightsOf, PartOne
    <3>3. 0 \in {0, 1} /\ 0 # 1
      OBVIOUS
    <3> QED BY <1>0, <2>0, <1>4, <3>2, <3>3, HeightsOf, PushPartIsRight
  <2> QED BY <1>4, <2>1, <2>2 DEF FunctionWork
<1>5. CASE h[1] = "param"
  <2>0. h[1] \in Keeps
    BY <1>5 DEF Keeps
  <2>1. Right(h, t, Go(<<<<"type">>, <<"take", "IDENTIFIER">>, <<"named">>>>))
    <3>1. /\ Made(h, <<"type">>, 1, 0) /\ Made(h, <<"take", "IDENTIFIER">>, 1, 0)
          /\ Made(h, <<"named">>, -2, 3)
      BY <1>5, WorkTable DEF Made, Is, May, Operands, Expressions, Need
    <3>2. Part(h, <<<<"type">>, <<"take", "IDENTIFIER">>, <<"named">>>>, Len(values), Len(values))
      BY <2>0, <3>1, HeightsOf, PartThree
    <3> QED BY <1>0, <2>0, <1>5, <3>2, HeightsOf, GoIsRight
  <2> QED BY <1>5, <2>1 DEF FunctionWork
<1>6. CASE h[1] = "named"
  <2>0. h[1] \in Gathers
    BY <1>6 DEF Gathers
  <2>1. ASSUME t = Sym(")")
        PROVE  Right(h, t, Do(1, <<>>, <<Append(values[3], <<values[2], values[1][2]>>)>> \o SubSeq(values, 4, Len(values))))
    <3>1. /\ 4 \in 1..(Len(values) + 1) /\ Len(values) + Net(h) = Len(values) - 4 + 2
          /\ 1 \in {0, 1} /\ 0 # 1
      BY <2>0, HeightsOf
    <3> QED BY <2>1, <3>1, DropIsRight DEF Sym
  <2>2. Right(h, t, Do(0, <<Need(Comma), <<"param">>>>,
                       <<Append(values[3], <<values[2], values[1][2]>>)>> \o SubSeq(values, 4, Len(values))))
    <3>1. Made(h, Need(Comma), 0, 0) /\ Made(h, <<"param">>, 0, 1)
      BY <1>6, WorkTable DEF Made, Is, May, Operands, Expressions, Need
    <3>2. Part(h, <<Need(Comma), <<"param">>>>, Len(values) - 2, Len(values) - 2)
      BY <2>0, <3>1, HeightsOf, PartTwo
    <3>3. /\ 4 \in 1..(Len(values) + 1) /\ Len(values) - 2 = Len(values) - 4 + 2
          /\ 0 \in {0, 1} /\ 0 # 1
      BY <2>0, HeightsOf
    <3> QED BY <1>0, <2>0, <1>6, <3>2, <3>3, HeightsOf, ReplacePartIsRight
  <2> QED BY <1>6, <2>1, <2>2 DEF FunctionWork
<1>7. CASE h[1] = "whole"
  <2>0. h[1] \in {"for", "whole"}
    BY <1>7
  <2>1. Right(h, t, Reduce(4, [name |-> values[3][2], ret |-> values[4], body |-> values[1],
                               params |-> [k \in DOMAIN values[2] |-> values[2][k][2]],
                               ptypes |-> [k \in DOMAIN values[2] |-> values[2][k][1]]]))
    BY <2>0, HeightsOf, ReduceIsRight
  <2> QED BY <1>7, <2>1 DEF FunctionWork
<1>8. CASE h[1] = "type"
  <2>0. h[1] \in Builds
    BY <1>8 DEF Builds
  <2>1. ASSUME Typed(t)
        PROVE  Right(h, t, Push(1, <<>>, t[2]))
    BY <2>1, <2>0, HeightsOf, PushIsRight DEF Typed
  <2>2. Right(h, t, Fail(index))
    BY FailIsRight
  <2> QED BY <1>8, <2>1, <2>2 DEF FunctionWork
<1>9. CASE h[1] = "take"
  <2>0. h[1] \in Builds
    BY <1>9 DEF Builds
  <2>1. h[2] # "EOF"
    BY <1>9, <1>0 DEF Item
  <2>2. ASSUME t[1] = h[2]
        PROVE  Right(h, t, Push(1, <<>>, t))
    BY <2>2, <2>0, HeightsOf, PushIsRight, <2>1
  <2>3. Right(h, t, Fail(index))
    BY FailIsRight
  <2> QED BY <1>9, <2>2, <2>3 DEF FunctionWork
<1>10. CASE h[1] = "need"
  <2>0. h[1] \in Checks
    BY <1>10 DEF Checks
  <2>1. h[2] # "EOF"
    BY <1>10, <1>0 DEF Item
  <2>2. ASSUME t = <<h[2], h[3]>>
        PROVE  Right(h, t, Shift(<<>>))
    BY <2>2, <2>0, <2>1, HeightsOf, StayIsRight
  <2>3. Right(h, t, Fail(index))
    BY FailIsRight
  <2> QED BY <1>10, <2>2, <2>3 DEF FunctionWork
<1> QED BY <1>0, <1>1, <1>2, <1>3, <1>4, <1>5, <1>6, <1>7, <1>8, <1>9, <1>10
      DEF Item, Builds, Keeps, Checks, Joins, Gathers, Expressions, Statements, Blocks

LEMMA WorkIsRight ==
  ASSUME NEW h, NEW t, Able(h)
  PROVE  Right(h, t, Work(h, t))
<1>1. CASE h[1] \in Expressions
  <2>1. h[1] \notin Statements \cup Blocks
    BY <1>1 DEF Expressions, Statements, Blocks
  <2> QED BY <1>1, <2>1, ExpressionIsRight DEF Work
<1>2. CASE h[1] \in Statements
  <2>1. h[1] \notin Expressions \cup Blocks
    BY <1>2 DEF Expressions, Statements, Blocks
  <2> QED BY <1>2, <2>1, StatementIsRight DEF Work
<1>3. CASE h[1] \in Blocks
  <2>1. h[1] \notin Expressions \cup Statements
    BY <1>3 DEF Expressions, Statements, Blocks
  <2> QED BY <1>3, <2>1, BlockIsRight DEF Work
<1>4. CASE h[1] \notin Expressions \cup Statements \cup Blocks
  BY <1>4, FunctionIsRight DEF Work
<1> QED BY <1>1, <1>2, <1>3, <1>4

-----------------------------------------------------------------------------
(***************************************************************************)
(* What there can be to do, one thing after another: an assignment is      *)
(* finished before anything but operands, the body of a case is followed   *)
(* by that case and the switch, and the program comes last.                *)
(***************************************************************************)
Shape(s, place) ==
  /\ \A k \in DOMAIN s :
       /\ Item(s[k])
       /\ s[k][1] = "assigned" => s[k][2] \in 1..place /\ \A j \in 1..(k - 1) : s[j][1] \in Operands
       /\ s[k][1] \in {"arm", "body"} => k + 1 \in DOMAIN s /\ s[k + 1][1] = "case"
       /\ s[k][1] = "case" => k + 1 \in DOMAIN s /\ s[k + 1][1] = "cases"
  /\ s # <<>> => s[Len(s)][1] = "program"

LEMMA ShapeStep ==
  ASSUME NEW s, NEW p, NEW place \in Nat, AnySeq(s), s # <<>>, AnySeq(p), Shape(s, index),
         Pushes(s[1], p), index \in Nat, index >= 1, place >= index
  PROVE  Shape(p \o Tail(s), place)
<1> DEFINE x == p \o Tail(s)
           m == Len(p)
           n == Len(s)
<1>1. /\ m \in Nat /\ DOMAIN p = 1..m /\ n \in Nat /\ n >= 1 /\ DOMAIN s = 1..n
      /\ AnySeq(Tail(s)) /\ Len(Tail(s)) = n - 1
      /\ \A k \in 1..(n - 1) : Tail(s)[k] = s[k + 1]
  BY TailIs, AnySeqIs
<1>2. /\ AnySeq(x) /\ Len(x) = m + (n - 1) /\ DOMAIN x = 1..(m + (n - 1))
      /\ \A k \in 1..m : x[k] = p[k]
      /\ \A k \in 1..(n - 1) : x[m + k] = Tail(s)[k]
  BY <1>1, ConcatIs, AnySeqIs
<1>3. \A k \in 2..n : m + k - 1 \in DOMAIN x /\ x[m + k - 1] = s[k]
  <2> TAKE k \in 2..n
  <2>1. k - 1 \in 1..(n - 1) /\ m + (k - 1) = m + k - 1 /\ (k - 1) + 1 = k
    BY <1>1
  <2> QED BY <2>1, <1>1, <1>2
<1> HIDE DEF x, m, n
<1>4. ASSUME NEW k \in DOMAIN x
      PROVE  \/ k \in 1..m /\ x[k] = p[k]
             \/ \E i \in 2..n : k = m + i - 1 /\ x[k] = s[i]
  <2>1. CASE k <= m
    BY <2>1, <1>1, <1>2
  <2>2. CASE ~(k <= m)
    <3>1. k - m + 1 \in 2..n /\ k = m + (k - m + 1) - 1
      BY <2>2, <1>1, <1>2
    <3> QED BY <3>1, <1>3
  <2> QED BY <2>1, <2>2
<1>5. ASSUME NEW k \in 1..m, x[k] = p[k]
      PROVE  /\ Item(x[k])
             /\ x[k][1] = "assigned" => x[k][2] \in 1..place /\ \A j \in 1..(k - 1) : x[j][1] \in Operands
             /\ x[k][1] \in {"arm", "body"} => k + 1 \in DOMAIN x /\ x[k + 1][1] = "case"
             /\ x[k][1] = "case" => k + 1 \in DOMAIN x /\ x[k + 1][1] = "cases"
  <2>1. /\ Item(p[k])
        /\ p[k][1] = "assigned" => p[k][2] = index /\ s[1][1] \in Expressions
        /\ p[k][1] \in {"arm", "body"} =>
             \/ k + 1 \in 1..m /\ p[k + 1][1] = "case"
             \/ k = m /\ s[1][1] \in {"arm", "body"}
        /\ p[k][1] = "case" => k + 1 \in 1..m /\ p[k + 1][1] = "cases"
    BY <1>1 DEF Pushes, m
  <2>2. p[k][1] = "assigned" => \A j \in 1..(k - 1) : x[j][1] \in Operands
    <3> HAVE p[k][1] = "assigned"
    <3>1. s[1][1] \in Operands
      BY <2>1 DEF Operands
    <3>2. \A j \in 1..m : p[j][1] \in Operands
      BY <3>1, <1>1 DEF Pushes
    <3>3. \A j \in 1..(k - 1) : j \in 1..m
      BY <1>1
    <3> QED BY <3>2, <3>3, <1>2
  <2>3. \A j \in 1..m : j \in DOMAIN x
    BY <1>1, <1>2
  <2>4. k = m /\ s[1][1] \in {"arm", "body"} => k + 1 \in DOMAIN x /\ x[k + 1][1] = "case"
    <3> HAVE k = m /\ s[1][1] \in {"arm", "body"}
    <3>1. 1 \in DOMAIN s /\ 1 + 1 = 2
      BY <1>1
    <3>2. 2 \in 1..n /\ s[2][1] = "case"
      BY <3>1, <1>1 DEF Shape
    <3>3. 2 \in 2..n /\ m + 2 - 1 = k + 1
      BY <3>2, <1>1
    <3> QED BY <3>2, <3>3, <1>3
  <2> QED BY <2>1, <2>2, <2>3, <2>4, <1>2, <1>5
<1>6. ASSUME NEW k \in DOMAIN x, NEW i \in 2..n, k = m + i - 1, x[k] = s[i]
      PROVE  /\ Item(x[k])
             /\ x[k][1] = "assigned" => x[k][2] \in 1..place /\ \A j \in 1..(k - 1) : x[j][1] \in Operands
             /\ x[k][1] \in {"arm", "body"} => k + 1 \in DOMAIN x /\ x[k + 1][1] = "case"
             /\ x[k][1] = "case" => k + 1 \in DOMAIN x /\ x[k + 1][1] = "cases"
  <2>1. i \in DOMAIN s
    BY <1>1
  <2>2. /\ Item(s[i])
        /\ s[i][1] = "assigned" => s[i][2] \in 1..index /\ \A j \in 1..(i - 1) : s[j][1] \in Operands
        /\ s[i][1] \in {"arm", "body"} => i + 1 \in 1..n /\ s[i + 1][1] = "case"
        /\ s[i][1] = "case" => i + 1 \in 1..n /\ s[i + 1][1] = "cases"
    BY <2>1, <1>1 DEF Shape
  <2>3. i + 1 \in 1..n => k + 1 \in DOMAIN x /\ x[k + 1] = s[i + 1]
    <3> HAVE i + 1 \in 1..n
    <3>1. i + 1 \in 2..n /\ m + (i + 1) - 1 = k + 1
      BY <1>1, <1>6
    <3> QED BY <3>1, <1>3
  <2>4. s[i][1] = "assigned" => \A j \in 1..(k - 1) : x[j][1] \in Operands
    <3> HAVE s[i][1] = "assigned"
    <3>1. 1 \in 1..(i - 1)
      BY <1>1
    <3>2. s[1][1] \in Operands /\ \A j \in 1..(i - 1) : s[j][1] \in Operands
      BY <3>1, <2>2
    <3>3. \A j \in 1..m : p[j][1] \in Operands
      BY <3>2, <1>1 DEF Pushes
    <3> TAKE j \in 1..(k - 1)
    <3>4. j \in DOMAIN x
      BY <1>1, <1>2, <1>6
    <3>5. CASE j \in 1..m /\ x[j] = p[j]
      BY <3>3, <3>5
    <3>6. ASSUME NEW e \in 2..n, j = m + e - 1, x[j] = s[e] PROVE x[j][1] \in Operands
      <4>1. e \in 1..(i - 1)
        BY <3>6, <1>1, <1>6
      <4> QED BY <4>1, <3>2, <3>6
    <3> QED BY <3>4, <3>5, <3>6, <1>4
  <2>5. s[i][2] \in 1..index => s[i][2] \in 1..place
    OBVIOUS
  <2> QED BY <2>2, <2>3, <2>4, <2>5, <1>6
<1>7. x # <<>> => x[Len(x)][1] = "program"
  <2> HAVE x # <<>>
  <2>1. CASE n = 1
    <3>1. p # <<>> /\ Len(x) = m /\ m \in 1..m
      <4>1. Len(x) # 0
        BY <1>2 DEF AnySeq
      <4> QED BY <4>1, <2>1, <1>1, <1>2 DEF m
    <3>2. s[1][1] = "program"
      BY <2>1 DEF Shape, n
    <3>3. p[m][1] = "program"
      BY <3>1, <3>2 DEF Pushes, m
    <3> QED BY <3>1, <3>3, <1>2
  <2>2. CASE n # 1
    <3>1. n \in 2..n /\ Len(x) = m + n - 1
      BY <2>2, <1>1, <1>2
    <3>2. s[n][1] = "program"
      BY DEF Shape, n
    <3> QED BY <3>1, <3>2, <1>3
  <2> QED BY <2>1, <2>2
<1> QED BY <1>4, <1>5, <1>6, <1>7 DEF Shape, x

\* From one of the loops on.
LEMMA ShapeFrom ==
  ASSUME NEW s, AnySeq(s), NEW k \in DOMAIN s, NEW place \in Nat, Shape(s, place)
  PROVE  Shape(SubSeq(s, k, Len(s)), place)
<1> DEFINE n == Len(s)
           m == n + 1 - k
           x == SubSeq(s, k, Len(s))
<1>1. n \in Nat /\ DOMAIN s = 1..n /\ k \in 1..n /\ k \in 1..(n + 1) /\ m \in Nat /\ m >= 1 /\ k + m = n + 1
  BY AnySeqIs
<1>2. /\ AnySeq(x) /\ Len(x) = m /\ DOMAIN x = 1..m
      /\ \A j \in 1..m : x[j] = s[k + j - 1]
  BY <1>1, SubSeqIs, AnySeqIs
<1> HIDE DEF x, m, n
<1>3. ASSUME NEW j \in DOMAIN x
      PROVE  /\ Item(x[j])
             /\ x[j][1] = "assigned" => x[j][2] \in 1..place /\ \A i \in 1..(j - 1) : x[i][1] \in Operands
             /\ x[j][1] \in {"arm", "body"} => j + 1 \in DOMAIN x /\ x[j + 1][1] = "case"
             /\ x[j][1] = "case" => j + 1 \in DOMAIN x /\ x[j + 1][1] = "cases"
  <2>1. j \in 1..m /\ k + j - 1 \in 1..n /\ x[j] = s[k + j - 1]
    BY <1>1, <1>2
  <2> DEFINE e == k + j - 1
  <2>2. /\ Item(s[e])
        /\ s[e][1] = "assigned" => s[e][2] \in 1..place /\ \A i \in 1..(e - 1) : s[i][1] \in Operands
        /\ s[e][1] \in {"arm", "body"} => e + 1 \in 1..n /\ s[e + 1][1] = "case"
        /\ s[e][1] = "case" => e + 1 \in 1..n /\ s[e + 1][1] = "cases"
    BY <2>1, <1>1 DEF Shape
  <2>3. e + 1 \in 1..n => j + 1 \in 1..m /\ x[j + 1] = s[e + 1]
    <3> HAVE e + 1 \in 1..n
    <3>1. j + 1 \in 1..m /\ k + (j + 1) - 1 = e + 1
      BY <1>1, <2>1
    <3> QED BY <3>1, <1>2
  <2>4. \A i \in 1..(j - 1) : k + i - 1 \in 1..(e - 1) /\ x[i] = s[k + i - 1]
    BY <1>1, <1>2, <2>1
  <2> HIDE DEF e
  <2>5. x[j] = s[e]
    BY <2>1 DEF e
  <2> QED BY <2>2, <2>3, <2>4, <2>5, <1>2
<1>4. x[Len(x)][1] = "program"
  <2>1. m \in 1..m /\ k + m - 1 = n
    BY <1>1
  <2>2. s # <<>>
    BY <1>1 DEF n
  <2> QED BY <2>1, <2>2, <1>2 DEF Shape, n
<1> QED BY <1>3, <1>4 DEF Shape, x

-----------------------------------------------------------------------------
(***************************************************************************)
(* Where the parser goes on after an error it gets further before it can   *)
(* fail again.                                                             *)
(***************************************************************************)
Resumes(h, t) ==
  \/ h[1] \in {"items", "body", "case", "cases"} /\ t = Sym(RBrace)
  \/ h[1] \in {"items", "body", "statement"} /\ t[1] = "KEYWORD" /\ t[2] \in StatementKeywords
  \/ h[1] \in {"program", "function", "type"} /\ Typed(t)

\* It consumes the token, or leaves it to something that goes on with it.
GoesOn(h, t, w) ==
  /\ w.ok = TRUE
  /\ \/ w.used = 1
     \/ w.used = 0 /\ w.todo # <<>> /\ Resumes(w.todo[1], t)
     \/ w.used = 0 /\ w.todo = <<>> /\ t = Sym(RBrace) /\ h[1] \in {"body", "case"}

LEMMA EOFIs ==
  ASSUME NEW t, t[1] # "EOF"
  PROVE  t # EOF
<1>1. EOF[1] = "EOF"
  BY Zenon DEF EOF
<1> QED BY <1>1

\* Any of the keywords of statements is consumed.
LEMMA KeywordWork ==
  ASSUME NEW t, NEW k \in StatementKeywords, t = Kw(k)
  PROVE  Statement(t).ok = TRUE /\ Statement(t).used = 1
<1>1. t[1] = "KEYWORD" /\ t # Sym(LBrace) /\ t # Sym(Semicolon)
  BY DEF Kw, Sym
<1>2. t # EOF
  BY <1>1, EOFIs
<1>3. CASE k = "if"
  <2>1. t = Kw("if")
    BY <1>3
  <2>2. /\ t # Kw("while") /\ t # Kw("for") /\ t # Kw("switch") /\ t # Kw("break")
        /\ t # Kw("continue") /\ t # Kw("return")
    BY <1>3 DEF Kw
  <2>3. Statement(t) = Shift(<<Need("("), <<"assign">>, Need(")"), <<"statement">>, <<"else">>>>)
    BY <1>1, <1>2, <2>1, <2>2 DEF Statement
  <2> QED BY <2>3 DEF Shift, Do
<1>4. CASE k = "while"
  <2>1. t = Kw("while")
    BY <1>4
  <2>2. /\ t # Kw("if") /\ t # Kw("for") /\ t # Kw("switch") /\ t # Kw("break")
        /\ t # Kw("continue") /\ t # Kw("return")
    BY <1>4 DEF Kw
  <2>3. Statement(t) = Shift(<<Need("("), <<"assign">>, Need(")"), <<"statement">>, <<"while">>>>)
    BY <1>1, <1>2, <2>1, <2>2 DEF Statement
  <2> QED BY <2>3 DEF Shift, Do
<1>5. CASE k = "for"
  <2>1. t = Kw("for")
    BY <1>5
  <2>2. /\ t # Kw("if") /\ t # Kw("while") /\ t # Kw("switch") /\ t # Kw("break")
        /\ t # Kw("continue") /\ t # Kw("return")
    BY <1>5 DEF Kw
  <2>3. Statement(t) = Shift(<<Need("("), <<"optional", Semicolon>>, Need(Semicolon),
                               <<"optional", Semicolon>>, Need(Semicolon), <<"optional", ")">>,
                               Need(")"), <<"statement">>, <<"for">>>>)
    BY <1>1, <1>2, <2>1, <2>2 DEF Statement
  <2> QED BY <2>3 DEF Shift, Do
<1>6. CASE k = "switch"
  <2>1. t = Kw("switch")
    BY <1>6
  <2>2. /\ t # Kw("if") /\ t # Kw("while") /\ t # Kw("for") /\ t # Kw("break")
        /\ t # Kw("continue") /\ t # Kw("return")
    BY <1>6 DEF Kw
  <2>3. Statement(t) = Push(1, <<Need("("), <<"assign">>, Need(")"), Need(LBrace), <<"cases">>>>, <<>>)
    BY <1>1, <1>2, <2>1, <2>2 DEF Statement
  <2> QED BY <2>3 DEF Push, Do
<1>7. CASE k \in {"break", "continue"}
  <2>1. t \in {Kw("break"), Kw("continue")}
    BY <1>7
  <2>2. /\ t # Kw("if") /\ t # Kw("while") /\ t # Kw("for") /\ t # Kw("switch")
        /\ t # Kw("return")
    BY <1>7 DEF Kw
  <2>3. Statement(t) = Push(1, <<Need(Semicolon)>>, <<t[2]>>)
    BY <1>1, <1>2, <2>1, <2>2 DEF Statement
  <2> QED BY <2>3 DEF Push, Do
<1>8. CASE k = "return"
  <2>1. t = Kw("return")
    BY <1>8
  <2>2. /\ t # Kw("if") /\ t # Kw("while") /\ t # Kw("for") /\ t # Kw("switch")
        /\ t # Kw("break") /\ t # Kw("continue")
    BY <1>8 DEF Kw
  <2>3. Statement(t) = Shift(<<<<"result">>>>)
    BY <1>1, <1>2, <2>1, <2>2 DEF Statement
  <2> QED BY <2>3 DEF Shift, Do
<1> QED BY <1>3, <1>4, <1>5, <1>6, <1>7, <1>8 DEF StatementKeywords

LEMMA ResumeWork ==
  ASSUME NEW h, NEW t, t = <<t[1], t[2]>>, Resumes(h, t)
  PROVE  GoesOn(h, t, Work(h, t))
<1> DEFINE w == Work(h, t)
<1>1. CASE h[1] = "items"
  <2>1. w = BlockWork(h, t)
    BY <1>1 DEF Work, Expressions, Statements, Blocks
  <2>2. CASE t = Sym(RBrace)
    <3>1. w = Shift(<<>>)
      BY <1>1, <2>1, <2>2 DEF BlockWork
    <3> QED BY <3>1 DEF GoesOn, Shift, Do
  <2>3. CASE t[1] = "KEYWORD" /\ t[2] \in StatementKeywords
    <3>1. t # Sym(RBrace) /\ t # Kw("const") /\ ~Typed(t)
      BY <2>3 DEF Sym, Kw, Typed, TypeKeywords, StatementKeywords
    <3>2. t # EOF
      BY <2>3, EOFIs
    <3>3. w = Go(<<<<"statement">>, <<"stated">>, h>>)
      BY <1>1, <2>1, <3>1, <3>2 DEF BlockWork
    <3> QED BY <2>3, <3>3 DEF GoesOn, Go, Resumes, Do
  <2> QED BY <1>1, <2>2, <2>3 DEF Resumes
<1>2. CASE h[1] = "body"
  <2>1. w = StatementWork(h, t)
    BY <1>2 DEF Work, Expressions, Statements, Blocks
  <2>2. CASE t = Sym(RBrace)
    <3>1. w = Go(<<>>)
      BY <1>2, <2>1, <2>2 DEF StatementWork
    <3> QED BY <1>2, <2>2, <3>1 DEF GoesOn, Go, Do
  <2>3. CASE t[1] = "KEYWORD" /\ t[2] \in StatementKeywords
    <3>1. t # Sym(RBrace) /\ t # Kw("case") /\ t # Kw("default")
      BY <2>3 DEF Sym, Kw, StatementKeywords
    <3>2. t # EOF
      BY <2>3, EOFIs
    <3>3. w = Go(<<<<"statement">>, <<"more">>, h>>)
      BY <1>2, <2>1, <3>1, <3>2 DEF StatementWork
    <3> QED BY <2>3, <3>3 DEF GoesOn, Go, Resumes, Do
  <2> QED BY <1>2, <2>2, <2>3 DEF Resumes
<1>3. CASE h[1] = "case"
  <2>1. t = Sym(RBrace)
    BY <1>3 DEF Resumes
  <2>2. PICK v : w = Do(0, <<>>, v)
    <3>1. w = StatementWork(h, t)
      BY <1>3 DEF Work, Expressions, Statements, Blocks
    <3>2. w = Do(0, <<>>, <<values[3], Append(values[4], <<IF values[2] = Absent THEN Absent
                                                           ELSE <<"int", values[2][2]>>,
                                                           values[1]>>)>>
                            \o SubSeq(values, 5, Len(values)))
      BY <3>1, <1>3 DEF StatementWork
    <3> QED BY <3>2
  <2> QED BY <1>3, <2>1, <2>2 DEF GoesOn, Do
<1>4. CASE h[1] = "cases"
  <2>1. t = Sym(RBrace)
    BY <1>4 DEF Resumes
  <2>2. PICK v : w = Do(1, <<>>, v)
    <3>1. w = StatementWork(h, t)
      BY <1>4 DEF Work, Expressions, Statements, Blocks
    <3>2. t # Kw("case") /\ t # Kw("default")
      BY <2>1 DEF Sym, Kw
    <3>3. w = Do(1, <<>>, <<<<"switch", values[1], values[2]>>>> \o SubSeq(values, 3, Len(values)))
      BY <3>1, <3>2, <2>1, <1>4 DEF StatementWork
    <3> QED BY <3>3
  <2> QED BY <2>2 DEF GoesOn, Do
<1>5. CASE h[1] = "statement"
  <2>1. t[2] \in StatementKeywords /\ t = Kw(t[2])
    BY <1>5 DEF Resumes, Kw
  <2>2. w = StatementWork(h, t)
    BY <1>5 DEF Work, Expressions, Statements, Blocks
  <2>3. w = Statement(t)
    BY <1>5, <2>2 DEF StatementWork
  <2> QED BY <2>1, <2>3, KeywordWork DEF GoesOn
<1>6. CASE h[1] \in {"program", "function", "type"}
  <2>1. Typed(t) /\ w = FunctionWork(h, t)
    BY <1>6 DEF Resumes, Work, Expressions, Statements, Blocks
  <2>2. CASE h[1] = "program"
    <3>1. t # EOF
      BY <2>1, EOFIs DEF Typed
    <3>2. w = Go(<<<<"function">>, <<"parsed">>, h>>)
      BY <2>1, <2>2, <3>1 DEF FunctionWork
    <3> QED BY <2>1, <3>2 DEF GoesOn, Go, Resumes, Do
  <2>3. CASE h[1] = "function"
    <3>1. w = Go(<<<<"type">>, <<"take", "IDENTIFIER">>, Need("("), <<"params">>, <<"block">>, <<"whole">>>>)
      BY <2>1, <2>3 DEF FunctionWork
    <3> QED BY <2>1, <3>1 DEF GoesOn, Go, Resumes, Do
  <2>4. CASE h[1] = "type"
    <3>1. w = Push(1, <<>>, t[2])
      BY <2>1, <2>4 DEF FunctionWork
    <3> QED BY <3>1 DEF GoesOn, Push, Do
  <2> QED BY <1>6, <2>2, <2>3, <2>4
<1> QED BY <1>1, <1>2, <1>3, <1>4, <1>5, <1>6 DEF Resumes

-----------------------------------------------------------------------------
(***************************************************************************)
(* The invariant.  What is left to do fits the nodes there are and ends    *)
(* with one; while a place to go on from is looked for, the loop that will *)
(* go on is the next thing to do; and after an error the parser is further *)
(* right, or at the end, or about to consume the token it failed at.       *)
(***************************************************************************)
Resting ==
  /\ mode = "function" => todo # <<>> /\ todo[1][1] = "program"
  /\ mode = "statement" => todo # <<>> /\ todo[1][1] \in {"items", "body"}

\* Everything that can still fail is to the right of e.
Beyond(e, i, s) == e < i /\ \A k \in DOMAIN s : s[k][1] = "assigned" => s[k][2] > e

Ahead ==
  errors # <<>> =>
    \/ errors[Len(errors)] = Len(tokens) + 1
    \/ Beyond(errors[Len(errors)], index, todo)
    \/ mode \in {"statement", "function"} /\ errors[Len(errors)] <= index
    \/ /\ mode = "parse" /\ errors[Len(errors)] = index
       /\ todo # <<>> /\ Resumes(todo[1], Current)

IInv ==
  /\ IsTokens(tokens) /\ TypeOK
  /\ errors \in Seq(1..(Len(tokens) + 1)) /\ AnySeq(values)
  /\ Fits(todo, Len(values), 1, 0) /\ Shape(todo, index)
  /\ Resting /\ ErrorsInOrder /\ Ahead

LEMMA CurrentIs ==
  ASSUME IsTokens(tokens), index \in 1..(Len(tokens) + 1)
  PROVE  /\ Len(tokens) \in Nat /\ index \in Nat /\ index >= 1
         /\ index = Len(tokens) + 1 => Current = EOF
         /\ index # Len(tokens) + 1 =>
              /\ index + 1 \in 1..(Len(tokens) + 1)
              /\ Current = <<Current[1], Current[2]>> /\ Current[1] # "EOF" /\ Current # EOF
<1>1. Len(tokens) \in Nat /\ DOMAIN tokens = 1..Len(tokens)
  BY DEF IsTokens
<1>2. ASSUME index # Len(tokens) + 1
      PROVE  Current = <<Current[1], Current[2]>> /\ Current[1] # "EOF"
  <2>1. index \in DOMAIN tokens /\ Current = tokens[index]
    BY <1>1, <1>2 DEF Current, TokenAt
  <2> QED BY <2>1 DEF IsTokens
<1>3. index = Len(tokens) + 1 => Current = EOF
  BY <1>1 DEF Current, TokenAt
<1> QED BY <1>1, <1>2, <1>3, EOFIs

\* What is at the end of the text begins nothing.
LEMMA EOFBegins ==
  EOF[1] = "EOF"
  BY Zenon DEF EOF

\* No assignment is unfinished when anything but an operand comes next.
LEMMA NoAssigned ==
  ASSUME NEW s, NEW place, AnySeq(s), Shape(s, place), s # <<>>, s[1][1] \notin Operands
  PROVE  \A k \in DOMAIN s : s[k][1] # "assigned"
<1> SUFFICES ASSUME NEW k \in DOMAIN s, s[k][1] = "assigned" PROVE FALSE
  OBVIOUS
<1>1. \A j \in 1..(k - 1) : s[j][1] \in Operands
  BY DEF Shape
<1>2. k \in 1..Len(s) /\ Len(s) \in Nat
  BY AnySeqIs
<1>3. CASE k = 1
  BY <1>3 DEF Operands, Expressions
<1>4. CASE k # 1
  BY <1>1, <1>2, <1>4
<1> QED BY <1>3, <1>4

LEMMA AssignedStep ==
  ASSUME NEW s, NEW p, AnySeq(s), s # <<>>, AnySeq(p), Pushes(s[1], p)
  PROVE  \A k \in DOMAIN (p \o Tail(s)) :
           (p \o Tail(s))[k][1] = "assigned" =>
             \/ (p \o Tail(s))[k][2] = index /\ s[1][1] \in Expressions
             \/ \E j \in DOMAIN s : (p \o Tail(s))[k] = s[j]
<1> DEFINE x == p \o Tail(s)
           m == Len(p)
           n == Len(s)
<1>1. /\ m \in Nat /\ DOMAIN p = 1..m /\ n \in Nat /\ n >= 1 /\ DOMAIN s = 1..n
      /\ AnySeq(Tail(s)) /\ Len(Tail(s)) = n - 1
      /\ \A k \in 1..(n - 1) : Tail(s)[k] = s[k + 1]
  BY TailIs, AnySeqIs
<1>2. /\ DOMAIN x = 1..(m + (n - 1))
      /\ \A k \in 1..m : x[k] = p[k]
      /\ \A k \in 1..(n - 1) : x[m + k] = Tail(s)[k]
  BY <1>1, ConcatIs, AnySeqIs
<1> HIDE DEF x, m, n
<1>3. ASSUME NEW k \in DOMAIN x, x[k][1] = "assigned"
      PROVE  (x[k][2] = index /\ s[1][1] \in Expressions) \/ \E j \in DOMAIN s : x[k] = s[j]
  <2>1. CASE k <= m
    <3>1. k \in DOMAIN p /\ x[k] = p[k]
      BY <2>1, <1>1, <1>2
    <3> QED BY <3>1, <1>3 DEF Pushes
  <2>2. CASE ~(k <= m)
    <3>1. PICK i \in 1..(n - 1) : k = m + i
      <4>1. k - m \in 1..(n - 1) /\ k = m + (k - m)
        BY <2>2, <1>1, <1>2
      <4> QED BY <4>1
    <3>2. x[k] = s[i + 1] /\ i + 1 \in DOMAIN s
      BY <3>1, <1>1, <1>2
    <3> QED BY <3>2
  <2> QED BY <2>1, <2>2
<1> QED BY <1>3 DEF x

LEMMA InitIsRight ==
  ASSUME Init
  PROVE  IInv
<1> USE InputsAssumption
<1>1. /\ IsTokens(tokens) /\ index = 1 /\ errors = <<>> /\ mode = "parse"
      /\ todo = <<<<"program", 1>>>> /\ values = <<<<>>>>
  BY DEF Init
<1>2. Len(tokens) \in Nat
  BY <1>1 DEF IsTokens
<1>3. AnySeq(values) /\ Len(values) = 1 /\ errors \in Seq(1..(Len(tokens) + 1)) /\ Len(errors) = 0
  BY <1>1 DEF AnySeq
<1> DEFINE h == <<"program", 1>>
<1>4. Item(h) /\ Net(h) = 0 /\ Least(h) = 1 /\ h[1] = "program" /\ h[2] = 1
  BY NetIs DEF Item, Keeps
<1>5. Fits(<<h>>, 1, 1 + Net(h), 0)
  <2>1. 1 \in Nat /\ 0 \in Nat /\ 0 <= 1 /\ 0 <= 1 + Net(h) /\ 1 >= Least(h) /\ 1 + Net(h) \in Nat
        /\ (Catches(h) => h[2] = 1)
    BY <1>4
  <2> HIDE DEF h
  <2> QED BY <2>1, FitsOne
<1>6. Fits(todo, Len(values), 1, 0)
  BY <1>1, <1>3, <1>4, <1>5
<1>7. Shape(todo, index)
  <2>1. Len(todo) = 1 /\ DOMAIN todo = 1..1 /\ todo[1] = h
    BY <1>1
  <2> HIDE DEF h
  <2> QED BY <2>1, <1>4 DEF Shape
<1>8. TypeOK /\ Resting /\ ErrorsInOrder /\ Ahead
  BY <1>1, <1>2, <1>3 DEF TypeOK, Resting, ErrorsInOrder, Ahead
<1> QED BY <1>1, <1>3, <1>6, <1>7, <1>8 DEF IInv

LEMMA ParseIsRight ==
  ASSUME IInv, Parse
  PROVE  IInv'
<1> DEFINE h == todo[1]
           t == Current
           w == Work(h, t)
           e == errors[Len(errors)]
<1>1. /\ mode = "parse" /\ todo # <<>> /\ w.ok
      /\ index' = index + w.used /\ todo' = w.todo \o Tail(todo) /\ values' = w.values
      /\ tokens' = tokens /\ errors' = errors /\ mode' = mode
  <2>1. todo # <<>> => Head(todo) = todo[1]
    BY TailIs DEF IInv, Fits
  <2> QED BY <2>1 DEF Parse
<1>2. /\ AnySeq(todo) /\ AnySeq(values) /\ Len(values) \in Nat
      /\ DOMAIN todo = 1..Len(todo) /\ Len(todo) \in Nat /\ Len(todo) >= 1 /\ 1 \in DOMAIN todo
  BY <1>1, TailIs, AnySeqIs DEF IInv, Fits
<1>3. /\ Len(values) >= Least(h) /\ Len(values) + Net(h) \in Nat
      /\ Catches(h) => h[2] = Len(values)
      /\ Fits(Tail(todo), Len(values) + Net(h), 1, 0)
      /\ \A k \in DOMAIN Tail(todo) : Catches(Tail(todo)[k]) =>
           Tail(todo)[k][2] <= Len(values) /\ Tail(todo)[k][2] <= Len(values) + Net(h)
  <2>1. 0 \in Nat /\ Fits(todo, Len(values), 1, 0)
    BY DEF IInv
  <2> QED BY <2>1, <1>1, FitsRest
<1>4. Item(h) /\ Able(h)
  BY <1>2, <1>3 DEF IInv, Shape, Able
<1>5. Right(h, t, w)
  BY <1>4, WorkIsRight
<1>6. /\ w.used \in {0, 1} /\ (w.used = 1 => t[1] # "EOF") /\ AnySeq(w.values)
      /\ Fits(w.todo, Len(w.values), Len(values) + Net(h), Low(h)) /\ Pushes(h, w.todo)
  BY <1>1, <1>5 DEF Right
<1> HIDE DEF w
<1>7. AnySeq(w.todo)
  BY <1>6 DEF Fits
<1>8. /\ Len(tokens) \in Nat /\ index \in Nat /\ index >= 1 /\ index <= Len(tokens) + 1
      /\ index' \in 1..(Len(tokens) + 1) /\ index' \in Nat /\ index' >= index
  <2>1. IsTokens(tokens) /\ index \in 1..(Len(tokens) + 1)
    BY DEF IInv, TypeOK
  <2>2. index = Len(tokens) + 1 => w.used # 1
    BY <2>1, <1>6, CurrentIs, EOFBegins
  <2> QED BY <2>1, <2>2, <1>1, <1>6, CurrentIs
<1>9. Fits(todo', Len(values'), 1, 0)
  <2>1. Low(h) \in Nat /\ 0 <= Low(h) /\ 0 \in Nat /\ Low(h) <= Len(values) /\ Low(h) <= Len(values) + Net(h)
        /\ (Low(h) = Len(values) \/ Low(h) = Len(values) + Net(h))
    BY <1>2, <1>3, <1>4, NetRange DEF Low
  <2>2. \A k \in DOMAIN Tail(todo) : Catches(Tail(todo)[k]) => Tail(todo)[k][2] <= Low(h)
    BY <2>1, <1>3
  <2>3. Fits(w.todo \o Tail(todo), Len(w.values), 1, 0)
    BY <2>1, <2>2, <1>3, <1>6, FitsJoin
  <2> QED BY <2>3, <1>1
<1>10. Shape(todo', index')
  <2>1. Shape(todo, index)
    BY DEF IInv
  <2>2. Shape(w.todo \o Tail(todo), index')
    BY <2>1, <1>1, <1>2, <1>6, <1>7, <1>8, ShapeStep
  <2> QED BY <2>2, <1>1
<1>11. Ahead'
  <2> SUFFICES ASSUME errors # <<>>
               PROVE  \/ e = Len(tokens) + 1
                      \/ Beyond(e, index', todo')
                      \/ e = index' /\ todo' # <<>> /\ Resumes(todo'[1], Current')
    BY <1>1 DEF Ahead
  <2>1. \A k \in DOMAIN todo' : todo'[k][1] = "assigned" =>
          (todo'[k][2] = index /\ h[1] \in Expressions) \/ \E j \in DOMAIN todo : todo'[k] = todo[j]
    <3>0. PICK p : p = w.todo
      OBVIOUS
    <3>3. AnySeq(p) /\ Pushes(todo[1], p)
      BY <3>0, <1>6, <1>7
    <3>1. \A k \in DOMAIN (p \o Tail(todo)) : (p \o Tail(todo))[k][1] = "assigned" =>
             \/ (p \o Tail(todo))[k][2] = index /\ todo[1][1] \in Expressions
             \/ \E j \in DOMAIN todo : (p \o Tail(todo))[k] = todo[j]
      BY <3>3, <1>1, <1>2, AssignedStep
    <3>2. PICK x : x = todo' /\ x = p \o Tail(todo)
      BY <1>1, <3>0
    <3>4. \A k \in DOMAIN x : x[k][1] = "assigned" =>
            (x[k][2] = index /\ h[1] \in Expressions) \/ \E j \in DOMAIN todo : x[k] = todo[j]
      BY <3>1, <3>2
    <3> QED BY <3>2, <3>4
  <2>2. e \in Nat
    <3>1. errors \in Seq(1..(Len(tokens) + 1))
      BY DEF IInv
    <3> QED BY <3>1, <1>8
  <2>3. CASE Beyond(e, index, todo)
    BY <2>1, <2>2, <2>3, <1>8 DEF Beyond
  <2>4. CASE e = index /\ Resumes(h, t)
    <3>1. t = <<t[1], t[2]>> /\ h[1] \notin Operands
      <4>1. t[1] # "EOF" /\ h[1] \notin Operands
        BY <2>4 DEF Resumes, Operands, Expressions, Typed, Sym
      <4> QED BY <4>1, CurrentIs, EOFBegins DEF IInv, TypeOK
    <3>2. GoesOn(h, t, w)
      BY <3>1, <2>4, ResumeWork DEF w
    <3>3. \A k \in DOMAIN todo' : todo'[k][1] # "assigned"
      <4>1. \A k \in DOMAIN todo : todo[k][1] # "assigned"
        BY <3>1, <1>1, <1>2, NoAssigned DEF IInv
      <4> QED BY <4>1, <3>1, <2>1 DEF Operands
    <3>4. CASE w.used = 1
      <4>1. e < index'
        BY <3>4, <2>4, <1>1, <1>8
      <4>2. Beyond(e, index', todo')
        BY <4>1, <3>3 DEF Beyond
      <4> QED BY <4>2
    <3>5. ASSUME w.used = 0 PROVE index' = e /\ Current' = t
      BY <3>5, <2>4, <1>1, <1>8 DEF Current, TokenAt
    <3>6. CASE w.used = 0 /\ w.todo # <<>> /\ Resumes(w.todo[1], t)
      <4>1. todo' # <<>> /\ todo'[1] = w.todo[1]
        <5>0. PICK p : p = w.todo
          OBVIOUS
        <5>1. AnySeq(p) /\ p # <<>>
          BY <5>0, <3>6, <1>7
        <5>2. Len(p) \in Nat /\ Len(p) >= 1 /\ 1 \in 1..Len(p) /\ AnySeq(Tail(todo))
          BY <5>1, <1>1, <1>2, TailIs, AnySeqIs
        <5>3. Len(p \o Tail(todo)) = Len(p) + Len(Tail(todo)) /\ (p \o Tail(todo))[1] = p[1]
          BY <5>1, <5>2, ConcatIs
        <5>4. Len(todo') # 0
          BY <5>0, <5>2, <5>3, <1>1, AnySeqIs
        <5> QED BY <5>0, <5>3, <5>4, <1>1
      <4> QED BY <4>1, <3>5, <3>6
    <3>7. CASE w.used = 0 /\ w.todo = <<>> /\ t = Sym(RBrace) /\ h[1] \in {"body", "case"}
      <4>1. 2 \in DOMAIN todo /\ todo[2][1] \in {"case", "cases"}
        <5>1. 1 + 1 = 2 /\ Shape(todo, index)
          BY DEF IInv
        <5> QED BY <5>1, <3>7, <1>2 DEF Shape
      <4>2. /\ AnySeq(Tail(todo)) /\ Len(Tail(todo)) = Len(todo) - 1 /\ Len(Tail(todo)) >= 1
            /\ Tail(todo)[1] = todo[2]
        BY <4>1, <1>1, <1>2, TailIs
      <4>3. AnySeq(<<>>) /\ Len(<<>>) = 0
        BY DEF AnySeq
      <4>4. /\ Len(<<>> \o Tail(todo)) = 0 + Len(Tail(todo))
            /\ (<<>> \o Tail(todo))[0 + 1] = Tail(todo)[1]
        <5>1. 1 \in 1..Len(Tail(todo))
          BY <4>2, <1>2
        <5> QED BY <5>1, <4>2, <4>3, ConcatIs
      <4>5. PICK x : x = todo' /\ x = <<>> \o Tail(todo)
        BY <3>7, <1>1
      <4>6. 0 + 1 = 1 /\ Len(x) >= 1
        BY <4>2, <4>4, <4>5, <1>2
      <4>7. x # <<>>
        BY <4>3, <4>6
      <4>8. todo' # <<>> /\ todo'[1] = todo[2]
        BY <4>2, <4>4, <4>5, <4>6, <4>7
      <4>9. Resumes(todo'[1], t)
        BY <4>1, <4>8, <3>7 DEF Resumes
      <4> QED BY <4>8, <4>9, <3>5, <3>7
    <3> QED BY <3>2, <3>4, <3>6, <3>7 DEF GoesOn
  <2> QED BY <2>3, <2>4, <1>1 DEF IInv, Ahead
<1>12. TypeOK' /\ Resting' /\ ErrorsInOrder' /\ IsTokens(tokens') /\ errors' \in Seq(1..(Len(tokens') + 1))
  BY <1>1, <1>8 DEF IInv, TypeOK, Resting, ErrorsInOrder
<1>13. AnySeq(values')
  BY <1>1, <1>6
<1> QED BY <1>9, <1>10, <1>11, <1>12, <1>13 DEF IInv

\* One more error, not to the left of the last.
LEMMA OneMoreError ==
  ASSUME NEW n \in Nat, NEW place \in 1..(n + 1), NEW es \in Seq(1..(n + 1)),
         \A k \in 1..(Len(es) - 1) : es[k] < es[k + 1] \/ es[k] = n + 1,
         es # <<>> => es[Len(es)] < place \/ es[Len(es)] = n + 1
  PROVE  /\ Append(es, place) \in Seq(1..(n + 1)) /\ Append(es, place) # <<>>
         /\ Append(es, place)[Len(Append(es, place))] = place
         /\ \A k \in 1..(Len(Append(es, place)) - 1) :
              Append(es, place)[k] < Append(es, place)[k + 1] \/ Append(es, place)[k] = n + 1
<1> DEFINE x == Append(es, place)
           m == Len(es)
<1>1. /\ x \in Seq(1..(n + 1)) /\ m \in Nat /\ Len(x) = m + 1 /\ x[m + 1] = place
      /\ \A k \in 1..m : x[k] = es[k]
  OBVIOUS
<1>2. es # <<>> <=> m >= 1
  BY <1>1
<1> HIDE DEF x, m
<1>3. ASSUME NEW k \in 1..(Len(x) - 1) PROVE x[k] < x[k + 1] \/ x[k] = n + 1
  <2>1. CASE k = m
    BY <2>1, <1>1, <1>2 DEF m
  <2>2. CASE k # m
    <3>1. k \in 1..(m - 1) /\ k \in 1..m /\ k + 1 \in 1..m
      BY <2>2, <1>1
    <3> QED BY <3>1, <1>1 DEF m
  <2> QED BY <2>1, <2>2
<1>4. x # <<>>
  BY <1>1
<1> QED BY <1>1, <1>3, <1>4 DEF x

LEMMA RaiseIsRight ==
  ASSUME IInv, Raise
  PROVE  IInv'
<1> DEFINE h == todo[1]
           t == Current
           w == Work(h, t)
           loops == {k \in DOMAIN todo : Catches(todo[k])}
           inner == CHOOSE k \in loops : \A n \in loops : k <= n
           extra == Len(values) - todo[inner][2]
           e == errors[Len(errors)]
<1>1. /\ mode = "parse" /\ todo # <<>> /\ ~w.ok
      /\ errors' = Append(errors, w.place)
      /\ todo' = SubSeq(todo, inner, Len(todo))
      /\ values' = SubSeq(values, extra + 1, Len(values))
      /\ mode' = IF todo[inner][1] = "program" THEN "function" ELSE "statement"
      /\ tokens' = tokens /\ index' = index
  <2>1. todo # <<>> => Head(todo) = todo[1]
    BY TailIs DEF IInv, Fits
  <2> QED BY <2>1 DEF Raise
<1>2. /\ AnySeq(todo) /\ AnySeq(values) /\ Len(values) \in Nat
      /\ DOMAIN todo = 1..Len(todo) /\ Len(todo) \in Nat /\ Len(todo) >= 1 /\ 1 \in DOMAIN todo
  BY <1>1, TailIs, AnySeqIs DEF IInv, Fits
<1>3. Len(values) >= Least(h) /\ (Catches(h) => h[2] = Len(values))
  <2>1. 0 \in Nat /\ Fits(todo, Len(values), 1, 0)
    BY DEF IInv
  <2> QED BY <2>1, <1>1, FitsRest
<1>4. Able(h)
  <2>1. Item(todo[1])
    BY <1>2 DEF IInv, Shape
  <2> QED BY <2>1, <1>2, <1>3 DEF Able
<1>5. Right(h, t, w)
  BY <1>4, WorkIsRight
<1>6. w.place = index \/ (h[1] = "assigned" /\ w.place = h[2])
  BY <1>1, <1>5 DEF Right
<1>7. GoesOn(h, t, w) => FALSE
  BY <1>1 DEF GoesOn
<1>8. /\ Len(tokens) \in Nat /\ index \in Nat /\ index \in 1..(Len(tokens) + 1)
      /\ IsTokens(tokens) /\ Shape(todo, index)
  <2>1. IsTokens(tokens) /\ index \in 1..(Len(tokens) + 1) /\ Shape(todo, index)
    BY DEF IInv, TypeOK
  <2> QED BY <2>1, CurrentIs
<1>9. inner \in loops /\ \A n \in loops : inner <= n
  <2>1. Len(todo) \in loops
    <3>1. todo[Len(todo)][1] = "program"
      BY <1>1, <1>8 DEF Shape
    <3> QED BY <3>1, <1>2 DEF Catches
  <2>2. loops \in SUBSET Nat /\ loops # {}
    BY <2>1, <1>2
  <2> HIDE DEF loops
  <2>3. \E k \in loops : \A n \in loops : k <= n
    BY <2>2, LeastNumber
  <2> QED BY <2>3
<1>10. inner \in DOMAIN todo /\ Catches(todo[inner])
  BY <1>9
<1> HIDE DEF w, loops, inner
<1>11. /\ todo[inner][2] \in 1..Len(values)
       /\ Fits(SubSeq(todo, inner, Len(todo)), todo[inner][2], 1, 0)
  <2>1. 0 \in Nat /\ Fits(todo, Len(values), 1, 0)
    BY DEF IInv
  <2> QED BY <2>1, <1>10, FitsFrom
<1>12. AnySeq(values') /\ Len(values') = todo[inner][2]
  <2>1. extra + 1 \in 1..(Len(values) + 1) /\ Len(values) + 1 - (extra + 1) = todo[inner][2]
    BY <1>2, <1>11
  <2>2. /\ AnySeq(SubSeq(values, extra + 1, Len(values)))
        /\ Len(SubSeq(values, extra + 1, Len(values))) = Len(values) + 1 - (extra + 1)
    BY <2>1, <1>2, SubSeqIs
  <2> QED BY <2>1, <2>2, <1>1
<1>13. Fits(todo', Len(values'), 1, 0) /\ Shape(todo', index')
  <2>1. Shape(SubSeq(todo, inner, Len(todo)), index)
    BY <1>2, <1>8, <1>10, ShapeFrom
  <2> QED BY <2>1, <1>1, <1>11, <1>12
<1>14. todo' # <<>> /\ todo'[1] = todo[inner]
  <2> DEFINE m == Len(todo) + 1 - inner
  <2>1. inner \in 1..(Len(todo) + 1) /\ m \in Nat /\ m >= 1 /\ 1 \in 1..m /\ inner + 1 - 1 = inner
    BY <1>2, <1>10
  <2>2. /\ AnySeq(SubSeq(todo, inner, Len(todo)))
        /\ Len(SubSeq(todo, inner, Len(todo))) = m
        /\ SubSeq(todo, inner, Len(todo))[1] = todo[inner]
    BY <2>1, <1>2, SubSeqIs
  <2>3. PICK x : x = SubSeq(todo, inner, Len(todo))
    OBVIOUS
  <2>4. Len(x) >= 1 /\ x[1] = todo[inner]
    BY <2>1, <2>2, <2>3
  <2>5. Len(<<>>) = 0
    OBVIOUS
  <2>6. x # <<>>
    BY <2>4, <2>5
  <2> QED BY <2>3, <2>4, <2>6, <1>1
<1>15. w.place \in 1..(Len(tokens) + 1) /\ w.place \in Nat /\ w.place <= index
  <2>1. h[1] = "assigned" => h[2] \in 1..index
    BY <1>2, <1>8 DEF Shape
  <2> QED BY <2>1, <1>6, <1>8
<1>16. errors # <<>> => e < w.place \/ e = Len(tokens) + 1
  <2> HAVE errors # <<>>
  <2>1. CASE Beyond(e, index, todo)
    BY <2>1, <1>2, <1>6 DEF Beyond
  <2>2. CASE e = index /\ Resumes(h, t)
    <3>1. t = <<t[1], t[2]>>
      <4>1. t[1] # "EOF"
        BY <2>2 DEF Resumes, Typed, Sym
      <4> QED BY <4>1, <1>8, CurrentIs, EOFBegins
    <3>2. GoesOn(h, t, w)
      BY <3>1, <2>2, ResumeWork DEF w
    <3> QED BY <3>2, <1>7
  <2> QED BY <2>1, <2>2, <1>1 DEF IInv, Ahead
<1>17. /\ errors' \in Seq(1..(Len(tokens) + 1)) /\ errors' # <<>>
       /\ errors'[Len(errors')] = w.place /\ ErrorsInOrder'
  <2>1. /\ errors \in Seq(1..(Len(tokens) + 1))
        /\ \A k \in 1..(Len(errors) - 1) : errors[k] < errors[k + 1] \/ errors[k] = Len(tokens) + 1
    BY DEF IInv, ErrorsInOrder
  <2> DEFINE n == Len(tokens)
             place == w.place
             x == Append(errors, place)
  <2>2. n \in Nat /\ place \in 1..(n + 1)
    BY <1>8, <1>15
  <2>3. /\ x \in Seq(1..(n + 1)) /\ x # <<>> /\ x[Len(x)] = place
        /\ \A k \in 1..(Len(x) - 1) : x[k] < x[k + 1] \/ x[k] = n + 1
    <3> HIDE DEF n, place
    <3> QED BY <2>1, <2>2, <1>16, OneMoreError DEF n, place
  <2> QED BY <2>3, <1>1 DEF ErrorsInOrder
<1>18. mode' \in {"statement", "function"} /\ Resting'
  BY <1>1, <1>10, <1>14 DEF Resting, Catches
<1>19. Ahead'
  BY <1>1, <1>15, <1>17, <1>18 DEF Ahead
<1>20. TypeOK'
  BY <1>1, <1>8, <1>17, <1>18 DEF TypeOK
<1> QED BY <1>1, <1>8, <1>12, <1>13, <1>17, <1>18, <1>19, <1>20 DEF IInv

\* While a place to go on from is looked for no assignment is unfinished.
LEMMA RestingIs ==
  ASSUME IInv, mode \in {"statement", "function"}
  PROVE  /\ todo # <<>> /\ todo[1][1] \in {"program", "items", "body"}
         /\ \A k \in DOMAIN todo : todo[k][1] # "assigned"
<1>1. todo # <<>> /\ todo[1][1] \in {"program", "items", "body"}
  BY DEF IInv, Resting
<1>2. todo[1][1] \notin Operands
  BY <1>1 DEF Operands, Expressions
<1> QED BY <1>1, <1>2, NoAssigned DEF IInv, Fits

\* Looking for a place to go on from: a step to the right, or none and the
\* parser goes on where it is.
LEMMA SkipIsRight ==
  ASSUME IInv, mode \in {"statement", "function"},
         UNCHANGED <<tokens, origin, todo, values, errors>>,
         \/ index' = index + 1 /\ Current # EOF /\ mode' \in {mode, "parse"}
         \/ index' = index /\ mode' = "parse" /\ (Current = EOF \/ Resumes(todo[1], Current))
  PROVE  IInv'
<1> DEFINE e == errors[Len(errors)]
<1>1. /\ Len(tokens) \in Nat /\ index \in Nat /\ index \in 1..(Len(tokens) + 1)
      /\ Current # EOF => index + 1 \in 1..(Len(tokens) + 1)
      /\ Current = EOF => index = Len(tokens) + 1
  BY CurrentIs DEF IInv, TypeOK
<1>2. index' \in 1..(Len(tokens) + 1) /\ index' >= index /\ index' \in Nat
  BY <1>1
<1>3. /\ todo # <<>> /\ todo[1][1] \in {"program", "items", "body"}
      /\ \A k \in DOMAIN todo : todo[k][1] # "assigned"
  BY RestingIs
<1>4. errors # <<>> => (e <= index /\ e \in Nat) \/ e = Len(tokens) + 1
  <2>1. errors # <<>> => e \in 1..(Len(tokens) + 1)
    BY <1>1 DEF IInv
  <2> QED BY <2>1, <1>1 DEF IInv, Ahead, Beyond
<1>5. Ahead'
  <2> SUFFICES ASSUME errors # <<>>
               PROVE  \/ e = Len(tokens) + 1
                      \/ Beyond(e, index', todo)
                      \/ mode' \in {"statement", "function"} /\ e <= index'
                      \/ mode' = "parse" /\ e = index' /\ todo # <<>> /\ Resumes(todo[1], Current')
    BY DEF Ahead
  <2>1. CASE index' = index + 1
    BY <2>1, <1>1, <1>3, <1>4 DEF Beyond
  <2>2. CASE index' = index /\ mode' = "parse" /\ (Current = EOF \/ Resumes(todo[1], Current))
    <3>1. Current' = Current
      BY <2>2 DEF Current, TokenAt
    <3>2. CASE e = index
      BY <3>1, <3>2, <2>2, <1>1, <1>3
    <3>3. CASE e # index
      BY <3>3, <2>2, <1>1, <1>3, <1>4 DEF Beyond
    <3> QED BY <3>2, <3>3
  <2> QED BY <2>1, <2>2
<1>6. Shape(todo', index')
  <2>1. Shape(todo, index) /\ AnySeq(todo)
    BY DEF IInv, Fits
  <2> QED BY <2>1, <1>3 DEF Shape
<1>7. TypeOK' /\ Resting' /\ ErrorsInOrder'
  BY <1>2 DEF IInv, TypeOK, Resting, ErrorsInOrder
<1> QED BY <1>5, <1>6, <1>7 DEF IInv

LEMMA SkipToStatementIsRight ==
  ASSUME IInv, SkipToStatement
  PROVE  IInv'
<1>1. mode = "statement" /\ todo[1][1] \in {"items", "body"}
  BY DEF SkipToStatement, IInv, Resting
<1>2. CASE BeginsStatement(Current)
  <2>1. Current = EOF \/ Resumes(todo[1], Current)
    BY <1>1, <1>2 DEF BeginsStatement, Resumes
  <2>2. index' = index /\ mode' = "parse"
    BY <1>2 DEF SkipToStatement
  <2> QED BY <2>1, <2>2, <1>1, SkipIsRight DEF SkipToStatement
<1>3. CASE ~BeginsStatement(Current)
  <2>1. Current # EOF
    BY <1>3 DEF BeginsStatement
  <2>2. index' = index + 1 /\ mode' \in {mode, "parse"}
    BY <1>3 DEF SkipToStatement
  <2> QED BY <2>1, <2>2, <1>1, SkipIsRight DEF SkipToStatement
<1> QED BY <1>2, <1>3

LEMMA SkipToFunctionIsRight ==
  ASSUME IInv, SkipToFunction
  PROVE  IInv'
<1>1. mode = "function" /\ todo[1][1] = "program"
  BY DEF SkipToFunction, IInv, Resting
<1>2. CASE BeginsFunction(Current)
  <2>1. Current = EOF \/ Resumes(todo[1], Current)
    BY <1>1, <1>2 DEF BeginsFunction, Resumes
  <2>2. index' = index /\ mode' = "parse"
    BY <1>2 DEF SkipToFunction
  <2> QED BY <2>1, <2>2, <1>1, SkipIsRight DEF SkipToFunction
<1>3. CASE ~BeginsFunction(Current)
  <2>1. Current # EOF
    BY <1>3 DEF BeginsFunction
  <2>2. index' = index + 1 /\ mode' \in {mode, "parse"}
    BY <1>3 DEF SkipToFunction
  <2> QED BY <2>1, <2>2, <1>1, SkipIsRight DEF SkipToFunction
<1> QED BY <1>2, <1>3

LEMMA FinishIsRight ==
  ASSUME IInv, Finish
  PROVE  IInv'
<1>1. /\ mode = "parse" /\ mode' = "done" /\ todo = <<>>
      /\ UNCHANGED <<tokens, origin, index, todo, values, errors>>
  BY DEF Finish
<1>2. TypeOK' /\ Resting' /\ ErrorsInOrder' /\ Ahead'
  BY <1>1 DEF IInv, TypeOK, Resting, ErrorsInOrder, Ahead
<1> QED BY <1>1, <1>2 DEF IInv

LEMMA StutterIsRight ==
  ASSUME IInv, UNCHANGED vars
  PROVE  IInv'
<1>1. UNCHANGED <<tokens, index, todo, values, errors, mode>>
  BY DEF vars
<1>2. TypeOK' /\ Resting' /\ ErrorsInOrder'
  BY <1>1 DEF IInv, TypeOK, Resting, ErrorsInOrder
<1>3. Ahead'
  <2>1. Current' = Current
    BY <1>1 DEF Current, TokenAt
  <2> QED BY <1>1, <2>1 DEF IInv, Ahead
<1> QED BY <1>1, <1>2, <1>3 DEF IInv

\* The work that is left fits the nodes there are, whatever the text: after
\* every step of the parser and of its recovery, IInv (parser.py:88-141).
THEOREM ParserHolds == Spec => []IInv
<1>1. Init => IInv
  BY InitIsRight
<1>2. IInv /\ [Next]_vars => IInv'
  <2> SUFFICES ASSUME IInv, [Next]_vars PROVE IInv'
    OBVIOUS
  <2>1. CASE Parse
    BY <2>1, ParseIsRight
  <2>2. CASE Raise
    BY <2>2, RaiseIsRight
  <2>3. CASE SkipToStatement
    BY <2>3, SkipToStatementIsRight
  <2>4. CASE SkipToFunction
    BY <2>4, SkipToFunctionIsRight
  <2>5. CASE Finish
    BY <2>5, FinishIsRight
  <2>6. CASE UNCHANGED vars
    BY <2>6, StutterIsRight
  <2> QED BY <2>1, <2>2, <2>3, <2>4, <2>5, <2>6 DEF Next, Step
<1> QED BY <1>1, <1>2, PTL DEF Spec

\* The nodes kept are those the loop that goes on had built, and one is left in
\* the end.
LEMMA NodesAreKept ==
  ASSUME IInv
  PROVE  NodesKept
<1>1. mode \in {"statement", "function"} => Len(values) = Head(todo)[2]
  <2> HAVE mode \in {"statement", "function"}
  <2>1. todo # <<>> /\ Catches(todo[1]) /\ AnySeq(todo)
    BY RestingIs DEF Catches, IInv, Fits
  <2>2. Head(todo) = todo[1]
    BY <2>1, TailIs
  <2>3. Catches(todo[1]) => todo[1][2] = Len(values)
    <3>1. 0 \in Nat /\ Fits(todo, Len(values), 1, 0)
      BY DEF IInv
    <3> QED BY <3>1, <2>1, FitsRest
  <2> QED BY <2>1, <2>2, <2>3
<1>2. todo = <<>> => Len(values) = 1
  <2> HAVE todo = <<>>
  <2>1. Len(todo) = 0
    OBVIOUS
  <2>2. PICK H : H[1] = Len(values) /\ H[Len(todo) + 1] = 1
    BY DEF IInv, Fits
  <2>3. Len(todo) + 1 = 1
    BY <2>1
  <2> QED BY <2>2, <2>3
<1> QED BY <1>1, <1>2 DEF NodesKept

\* Recovery from a syntax error, for every list of tokens: every error is
\* further right than the one before or at the end of the text, the loop that
\* goes on finds exactly the nodes it had, and nothing is left over in the end
\* (parser.py:88-141, 236-250, 359-372).
THEOREM RecoveryGetsOn == Spec => []RecoveryAdvances
<1>1. IInv => RecoveryAdvances
  BY NodesAreKept DEF IInv, RecoveryAdvances
<1> QED BY <1>1, ParserHolds, PTL

=============================================================================
