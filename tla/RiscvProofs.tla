---------------------------- MODULE RiscvProofs ----------------------------
(***************************************************************************)
(* The register cache of the RISC-V backend, for every program: a load is  *)
(* only left out where the register holds the word, whatever the path.     *)
(***************************************************************************)
EXTENDS RiscvRun, ListLemmas

-----------------------------------------------------------------------------
(***************************************************************************)
(* What the text before a line says of t0.  A load or a store of t0 puts   *)
(* the same word in it and in the slot; after a jump nobody comes to the   *)
(* next line from above; some lines change neither.                        *)
(***************************************************************************)
Settles(line, s) == \/ line = R("lw", "t0", s, "s0")
                    \/ line = R("sw", "t0", s, "s0")
                    \/ line.op \in {"j", "ret"}

Spares(line, s) == \/ line.op \in {"bnez", "beqz"}
                   \/ /\ line.op = "sw" /\ line.d = "zero" /\ line.b = "s0"
                      /\ line.a \in Int /\ s \in Int /\ line.a # s

Knows(text, j, s) ==
  \E i \in 1..(j - 1) : Settles(text[i], s) /\ \A n \in (i + 1)..(j - 1) : Spares(text[n], s)

Generator(g) == /\ {"slots", "out", "t0", "t1", "pend", "kinds"} \subseteq DOMAIN g
                /\ AnySeq(g.out) /\ AnySeq(g.pend)

Known(g) == g.t0 # NoSlot => Knows(g.out, Len(g.out) + 1, g.t0)
Sound(g) == Generator(g) /\ g.t1 = NoSlot /\ Known(g)

LEMMA SettledLast ==
  ASSUME NEW out, AnySeq(out), NEW line, NEW s, Settles(line, s)
  PROVE  Knows(out \o <<line>>, Len(out \o <<line>>) + 1, s)
<1>1. AnySeq(<<line>>) /\ Len(<<line>>) = 1 /\ <<line>>[1] = line
  BY DEF AnySeq
<1>2. /\ Len(out) \in Nat /\ Len(out \o <<line>>) = Len(out) + 1
      /\ (out \o <<line>>)[Len(out) + 1] = line
  BY <1>1, AnySeqIs, ConcatIs
<1> HIDE DEF Settles, Spares
<1> QED BY <1>2 DEF Knows

LEMMA SparedLast ==
  ASSUME NEW out, AnySeq(out), NEW line, NEW s, Spares(line, s), Knows(out, Len(out) + 1, s)
  PROVE  Knows(out \o <<line>>, Len(out \o <<line>>) + 1, s)
<1> DEFINE text == out \o <<line>>
<1>1. AnySeq(<<line>>) /\ Len(<<line>>) = 1 /\ <<line>>[1] = line
  BY DEF AnySeq
<1>2. /\ Len(out) \in Nat /\ Len(text) = Len(out) + 1 /\ text[Len(out) + 1] = line
      /\ \A k \in 1..Len(out) : text[k] = out[k]
  BY <1>1, AnySeqIs, ConcatIs
<1> HIDE DEF text
<1>3. PICK i \in 1..Len(out) : /\ Settles(out[i], s)
                               /\ \A n \in (i + 1)..Len(out) : Spares(out[n], s)
  BY <1>2 DEF Knows
<1>4. Settles(text[i], s) /\ i \in 1..(Len(text) + 1 - 1)
  BY <1>2, <1>3
<1>5. ASSUME NEW n \in (i + 1)..(Len(text) + 1 - 1) PROVE Spares(text[n], s)
  <2>1. CASE n = Len(out) + 1
    BY <2>1, <1>2
  <2>2. CASE n \in (i + 1)..Len(out)
    BY <2>2, <1>2, <1>3
  <2> QED BY <2>1, <2>2, <1>2
<1>6. Knows(text, Len(text) + 1, s)
  BY <1>4, <1>5 DEF Knows
<1> QED BY <1>6 DEF text

-----------------------------------------------------------------------------
(***************************************************************************)
(* The generator's helpers.                                                *)
(***************************************************************************)
LEMMA AsmIs ==
  ASSUME NEW g, Generator(g), NEW lines, AnySeq(lines)
  PROVE  LET h == Asm(g, lines)
         IN  /\ Generator(h) /\ h.out = g.out \o lines
             /\ h.t0 = g.t0 /\ h.t1 = g.t1 /\ h.slots = g.slots /\ h.pend = g.pend
<1>1. AnySeq(g.out \o lines)
  BY ConcatIs DEF Generator
<1> QED BY <1>1 DEF Asm, Generator

LEMMA LdT0Is ==
  ASSUME NEW g, Generator(g), NEW s
  PROVE  LET h == LdT0(g, s)
         IN  /\ Generator(h) /\ (Known(g) => Known(h))
             /\ h.t0 = s /\ h.t1 = g.t1 /\ h.slots = g.slots /\ h.pend = g.pend
<1> DEFINE line == R("lw", "t0", s, "s0")
           a == Asm(g, <<line>>)
           h == LdT0(g, s)
<1>1. CASE g.t0 = s
  BY <1>1 DEF LdT0
<1>2. CASE g.t0 # s
  <2>1. AnySeq(<<line>>)
    BY DEF AnySeq
  <2>2. /\ Generator(a) /\ a.out = g.out \o <<line>>
        /\ a.t1 = g.t1 /\ a.slots = g.slots /\ a.pend = g.pend
    BY <2>1, AsmIs
  <2>3. h = [a EXCEPT !.t0 = s]
    BY <1>2 DEF LdT0
  <2> HIDE DEF a, h
  <2>4. /\ Generator(h) /\ h.out = a.out /\ h.t0 = s
        /\ h.t1 = g.t1 /\ h.slots = g.slots /\ h.pend = g.pend
    BY <2>2, <2>3 DEF Generator
  <2>5. Settles(line, s)
    BY DEF Settles
  <2> HIDE DEF line
  <2>6. Knows(h.out, Len(h.out) + 1, s)
    BY <2>2, <2>4, <2>5, SettledLast DEF Generator
  <2> QED BY <2>4, <2>6 DEF Known, h
<1> QED BY <1>1, <1>2

LEMMA LdT1Is ==
  ASSUME NEW g, Generator(g), NEW s
  PROVE  LET h == LdT1(g, s)
         IN  /\ Generator(h)
             /\ h.t0 = g.t0 /\ h.slots = g.slots /\ h.pend = g.pend
<1> DEFINE line == R("lw", "t1", s, "s0")
           a == Asm(g, <<line>>)
<1>1. AnySeq(<<line>>)
  BY DEF AnySeq
<1>2. Generator(a) /\ a.t0 = g.t0 /\ a.slots = g.slots /\ a.pend = g.pend
  BY <1>1, AsmIs
<1>3. LdT1(g, s) = g \/ LdT1(g, s) = [a EXCEPT !.t1 = s]
  BY DEF LdT1
<1> HIDE DEF a
<1> QED BY <1>2, <1>3 DEF Generator

LEMMA SdT0Is ==
  ASSUME NEW g, Generator(g), NEW s
  PROVE  LET h == SdT0(g, s)
         IN  /\ Generator(h) /\ Known(h)
             /\ h.t0 = s /\ h.t1 = g.t1 /\ h.slots = g.slots /\ h.pend = g.pend
<1> DEFINE line == R("sw", "t0", s, "s0")
           a == Asm(g, <<line>>)
           h == SdT0(g, s)
<1>1. AnySeq(<<line>>)
  BY DEF AnySeq
<1>2. /\ Generator(a) /\ a.out = g.out \o <<line>>
      /\ a.t1 = g.t1 /\ a.slots = g.slots /\ a.pend = g.pend
  BY <1>1, AsmIs
<1>3. h = [a EXCEPT !.t0 = s]
  BY DEF SdT0
<1> HIDE DEF a, h
<1>4. /\ Generator(h) /\ h.out = a.out /\ h.t0 = s
      /\ h.t1 = g.t1 /\ h.slots = g.slots /\ h.pend = g.pend
  BY <1>2, <1>3 DEF Generator
<1>5. Settles(line, s)
  BY DEF Settles
<1> HIDE DEF line
<1>6. Knows(h.out, Len(h.out) + 1, s)
  BY <1>2, <1>4, <1>5, SettledLast DEF Generator
<1> QED BY <1>4, <1>6 DEF Known, h

LEMMA KillIs ==
  ASSUME NEW g, Generator(g)
  PROVE  /\ Generator(KillT0(g)) /\ KillT0(g).t0 = NoSlot /\ KillT0(g).t1 = g.t1
         /\ KillT0(g).slots = g.slots /\ KillT0(g).pend = g.pend
         /\ Generator(KillT1(g)) /\ KillT1(g).t0 = g.t0 /\ KillT1(g).t1 = NoSlot
         /\ KillT1(g).slots = g.slots /\ KillT1(g).pend = g.pend
         /\ Generator(KillTmps(g)) /\ KillTmps(g).t0 = NoSlot /\ KillTmps(g).t1 = NoSlot
         /\ KillTmps(g).slots = g.slots /\ KillTmps(g).pend = g.pend
  BY DEF Generator, KillT0, KillT1, KillTmps

LEMMA KindedIs ==
  ASSUME NEW g, Generator(g), NEW name, NEW k
  PROVE  LET h == Kinded(g, name, k)
         IN  /\ Generator(h) /\ h.out = g.out /\ (Known(g) => Known(h))
             /\ h.t0 = g.t0 /\ h.t1 = g.t1 /\ h.slots = g.slots /\ h.pend = g.pend
<1> DEFINE h == Kinded(g, name, k)
<1>1. /\ Generator(h) /\ h.out = g.out
      /\ h.t0 = g.t0 /\ h.t1 = g.t1 /\ h.slots = g.slots /\ h.pend = g.pend
  BY DEF Generator, Kinded
<1> HIDE DEF h
<1>2. Known(g) => Known(h)
  BY <1>1 DEF Known
<1> QED BY <1>1, <1>2 DEF h

LEMMA IntoIs ==
  ASSUME NEW g, Generator(g), NEW d, NEW lines, AnySeq(lines)
  PROVE  LET h == Into(g, d, lines)
         IN  /\ Generator(h) /\ Known(h) /\ h.t0 = Ref(g, d)
             /\ h.t1 = g.t1 /\ h.slots = g.slots /\ h.pend = g.pend
<1> DEFINE a == Asm(g, lines)
           b == KillT0(a)
<1>1. /\ Generator(a) /\ a.t1 = g.t1 /\ a.slots = g.slots /\ a.pend = g.pend
  BY AsmIs
<1> HIDE DEF a
<1>2. /\ Generator(b) /\ b.t1 = g.t1 /\ b.slots = g.slots /\ b.pend = g.pend
  BY <1>1, KillIs
<1>3. Into(g, d, lines) = SdT0(b, Ref(g, d))
  BY DEF Into, a
<1> HIDE DEF b
<1> QED BY <1>2, <1>3, SdT0Is

-----------------------------------------------------------------------------
(***************************************************************************)
(* What a list is to: the arguments of a PRINT, those a CALL puts on the   *)
(* stack, the formals beyond the eighth.  Each of the three is a recursive *)
(* function, of which some solution has to be shown first.                 *)
(***************************************************************************)
Like(g, h) == Generator(h) /\ h.slots = g.slots /\ h.pend = g.pend /\ h.t1 = g.t1

LEMMA PrintedIs ==
  ASSUME NEW g, NEW name
  PROVE  AnySeq(PrintOne(g, name))
<1>1. AnySeq(<<R("lw", "a0", Ref(g, name), "s0")>>)
  BY DEF AnySeq
<1>2. \A n : AnySeq(Ecall(n))
  BY DEF AnySeq, Ecall
<1>3. AnySeq(<<R("li", "a0", 10, 0)>>)
  BY DEF AnySeq
<1>4. AnySeq(LineEnd)
  BY <1>2, <1>3, ConcatIs DEF LineEnd
<1>5. /\ AnySeq(Ecall(4) \o LineEnd) /\ AnySeq(Ecall(11)) /\ AnySeq(Ecall(1) \o LineEnd)
  BY <1>2, <1>4, ConcatIs
<1> DEFINE k == KindOf(g, name)
           by == CASE k = "string" -> Ecall(4) \o LineEnd
                   [] k = "char"   -> Ecall(11)
                   [] OTHER        -> Ecall(1) \o LineEnd
<1>6. AnySeq(by)
  BY <1>5
<1>7. PrintOne(g, name) = <<R("lw", "a0", Ref(g, name), "s0")>> \o by
  BY DEF PrintOne
<1> HIDE DEF by
<1> QED BY <1>1, <1>6, <1>7, ConcatIs

LEMMA PrintAllIs ==
  ASSUME NEW g, Generator(g), NEW names, AnySeq(names)
  PROVE  LET h == PrintAll(g, names)
         IN  Generator(h) /\ h.slots = g.slots /\ h.t0 = NoSlot /\ h.t1 = NoSlot
<1> DEFINE n == Len(names)
           Next1(h, k) == Asm(h, PrintOne(g, names[k]))
           Is(f, e) == f = [k \in 0..e |-> IF k = 0 THEN g ELSE Next1(f[k - 1], k)]
<1>1. n \in Nat
  BY AnySeqIs
<1>2. PrintAll(g, names) = KillTmps((CHOOSE f : Is(f, n))[n])
  BY DEF PrintAll
<1>3. ASSUME NEW h, NEW k, Like(g, h) PROVE Like(g, Next1(h, k))
  BY <1>3, PrintedIs, AsmIs DEF Like
<1> HIDE DEF n, Next1
<1>4. \A e \in Nat : \E f : Is(f, e)
  <2> DEFINE S == {e \in Nat : ~\E f : Is(f, e)}
  <2>1. ASSUME S # {} PROVE FALSE
    <3>1. PICK e \in S : \A j \in S : e <= j
      BY <2>1, LeastNumber
    <3>2. CASE e = 0
      <4>1. Is([k \in 0..0 |-> g], 0)
        OBVIOUS
      <4> QED BY <3>2, <4>1
    <3>3. CASE e # 0
      <4>1. e - 1 \in Nat /\ e - 1 \notin S
        BY <3>1, <3>3
      <4>2. PICK f : Is(f, e - 1)
        BY <4>1
      <4> DEFINE h == [k \in 0..e |-> IF k = e THEN Next1(f[e - 1], e) ELSE f[k]]
      <4>3. ASSUME NEW k \in 0..e
            PROVE  h[k] = IF k = 0 THEN g ELSE Next1(h[k - 1], k)
        BY <3>1, <3>3, <4>2
      <4>4. h = [k \in 0..e |-> h[k]]
        OBVIOUS
      <4> HIDE DEF h
      <4>5. Is(h, e)
        BY <4>3, <4>4
      <4> QED BY <3>1, <4>5
    <3> QED BY <3>2, <3>3
  <2> QED BY <2>1
<1>5. PICK f : Is(f, n) /\ PrintAll(g, names) = KillTmps(f[n])
  <2> DEFINE c == CHOOSE f : Is(f, n)
  <2>1. Is(c, n)
    BY <1>1, <1>4
  <2> QED BY <2>1, <1>2
<1>6. \A k \in 0..n : Like(g, f[k])
  <2> DEFINE S == {k \in Nat : k <= n /\ ~Like(g, f[k])}
  <2>1. ASSUME S # {} PROVE FALSE
    <3>1. PICK k \in S : \A j \in S : k <= j
      BY <2>1, <1>1, LeastNumber
    <3>2. CASE k = 0
      BY <3>1, <3>2, <1>1, <1>5 DEF Like
    <3>3. CASE k # 0
      <4>1. k - 1 \in 0..n /\ k - 1 \notin S
        BY <3>1, <3>3, <1>1
      <4>2. f[k] = Next1(f[k - 1], k) /\ Like(g, f[k - 1])
        BY <4>1, <3>1, <3>3, <1>5
      <4> QED BY <4>2, <3>1, <1>3
    <3> QED BY <3>2, <3>3
  <2> QED BY <2>1
<1>7. Like(g, f[n])
  BY <1>1, <1>6
<1> QED BY <1>5, <1>7, KillIs DEF Like

\* The lines after which a CALL stands, and those that follow it.
LEMMA CallIs ==
  ASSUME NEW g, Generator(g), g.t1 = NoSlot, NEW a
  PROVE  LET h == CallCode(g, a)
         IN  Generator(h) /\ h.slots = g.slots /\ h.t0 = NoSlot /\ h.t1 = NoSlot
<1> DEFINE len   == Len(g.pend)
           n     == IF len > 8 THEN len - 8 ELSE 0
           eb    == AlignUp16(n * W)
           room  == IF eb = 0 THEN g ELSE Asm(g, <<R("addi", "sp", "sp", -eb)>>)
           Next1(h, k) == Pushed(h, k)
           Is(f, e) == f = [k \in 0..e |-> IF k = 0 THEN room ELSE Next1(f[k - 1], k)]
           c     == CHOOSE f : Is(f, n)
           inregs == [k \in 1..(len - n) |-> R("lw", ArgRegs[k], Ref(g, g.pend[k]), "s0")]
           called == Asm(c[n], inregs \o <<R("call", a[2], 0, 0)>>)
           back   == IF eb = 0 THEN called ELSE Asm(called, <<R("addi", "sp", "sp", eb)>>)
           kept   == IF a[1] = None THEN back
                     ELSE Kinded(Asm(back, <<R("sw", "a0", Ref(g, a[1]), "s0")>>), a[1], "int")
<1>1. len \in Nat /\ n \in Nat /\ len - n \in Nat
  BY AnySeqIs DEF Generator
<1>2. CallCode(g, a) = [KillTmps(kept) EXCEPT !.pend = <<>>]
  BY DEF CallCode
<1>a. \A line : AnySeq(<<line>>)
  BY DEF AnySeq
<1>b. Like(g, room)
  BY <1>a, AsmIs DEF Like
<1>c. AnySeq(inregs)
  <2>1. inregs \in [1..(len - n) -> {inregs[k] : k \in 1..(len - n)}]
    OBVIOUS
  <2> HIDE DEF inregs
  <2> QED BY <1>1, <2>1, FunctionIsSeq
<1>d. AnySeq(inregs \o <<R("call", a[2], 0, 0)>>)
  BY <1>a, <1>c, ConcatIs
<1> HIDE DEF room, inregs, len, n, eb
<1>3. ASSUME NEW h, NEW k, Like(g, h) PROVE Like(g, Next1(h, k))
  BY <1>3, <1>a, LdT0Is, AsmIs DEF Like, Pushed
<1> HIDE DEF Next1
<1> HIDE DEF c, called, back, kept
<1>4. \A e \in Nat : \E f : Is(f, e)
  <2> DEFINE S == {e \in Nat : ~\E f : Is(f, e)}
  <2>1. ASSUME S # {} PROVE FALSE
    <3>1. PICK e \in S : \A j \in S : e <= j
      BY <2>1, LeastNumber
    <3>2. CASE e = 0
      <4>1. Is([k \in 0..0 |-> room], 0)
        OBVIOUS
      <4> QED BY <3>2, <4>1
    <3>3. CASE e # 0
      <4>0. e \in Nat /\ e - 1 \in Nat
        BY <3>1, <3>3
      <4>1. e - 1 \in Nat /\ e - 1 \notin S
        BY <3>1, <4>0
      <4>2. PICK f : Is(f, e - 1)
        BY <4>1
      <4> DEFINE h == [k \in 0..e |-> IF k = e THEN Next1(f[e - 1], e) ELSE f[k]]
      <4>3. ASSUME NEW k \in 0..e
            PROVE  h[k] = IF k = 0 THEN room ELSE Next1(h[k - 1], k)
        BY <3>1, <3>3, <4>2
      <4>4. h = [k \in 0..e |-> h[k]]
        OBVIOUS
      <4> HIDE DEF h
      <4>5. Is(h, e)
        BY <4>3, <4>4
      <4> QED BY <3>1, <4>5
    <3> QED BY <3>2, <3>3
  <2> QED BY <2>1
<1>5. Is(c, n)
  BY <1>1, <1>4 DEF c
<1>6. \A k \in 0..n : Like(g, c[k])
  <2> DEFINE S == {k \in Nat : k <= n /\ ~Like(g, c[k])}
  <2>1. ASSUME S # {} PROVE FALSE
    <3>1. PICK k \in S : \A j \in S : k <= j
      BY <2>1, <1>1, LeastNumber
    <3>2. CASE k = 0
      BY <3>1, <3>2, <1>1, <1>5, <1>b DEF Like
    <3>3. CASE k # 0
      <4>1. k - 1 \in 0..n /\ k - 1 \notin S
        BY <3>1, <3>3, <1>1
      <4>2. c[k] = Next1(c[k - 1], k) /\ Like(g, c[k - 1])
        BY <4>1, <3>1, <3>3, <1>5
      <4> QED BY <4>2, <3>1, <1>3
    <3> QED BY <3>2, <3>3
  <2> QED BY <2>1
<1>7. Like(g, c[n])
  BY <1>1, <1>6
<1>8. Like(g, called)
  BY <1>7, <1>d, AsmIs DEF Like, called
<1>9. Like(g, back)
  BY <1>8, <1>a, AsmIs DEF Like, back
<1>10. Like(g, Asm(back, <<R("sw", "a0", Ref(g, a[1]), "s0")>>))
  BY <1>9, <1>a, AsmIs DEF Like
<1>11. Like(g, kept)
  BY <1>9, <1>10, KindedIs DEF Like, kept
<1> DEFINE h == KillTmps(kept)
<1>12. Generator(h) /\ h.t0 = NoSlot /\ h.t1 = NoSlot /\ h.slots = g.slots
  BY <1>11, KillIs DEF Like
<1> HIDE DEF h
<1>13. CallCode(g, a) = [h EXCEPT !.pend = <<>>]
  BY <1>2 DEF h
<1>14. AnySeq(<<>>)
  BY DEF AnySeq
<1> QED BY <1>12, <1>13, <1>14 DEF Generator

\* The slots a function enters with, and the last of its formals in t0 at most.
Entered(g, formals, k, h) ==
  /\ Like(g, h) /\ Known(h) /\ (k <= 8 => h.t0 = NoSlot)
  /\ h.t0 \in {NoSlot} \cup {Ref(g, formals[j]) : j \in DOMAIN formals}

LEMMA SpillIs ==
  ASSUME NEW g, NEW formals, NEW k \in Nat \ {0}, k \in DOMAIN formals,
         NEW h, Entered(g, formals, k - 1, h)
  PROVE  Entered(g, formals, k, Spill(h, formals, k))
<1>1. \A line : AnySeq(<<line>>)
  BY DEF AnySeq
<1>2. CASE k <= 8
  <2> DEFINE i == Asm(h, <<R("sw", ArgRegs[k], Ref(h, formals[k]), "s0")>>)
  <2>1. Like(g, i) /\ i.t0 = h.t0
    BY <1>1, AsmIs DEF Entered, Like
  <2>2. Spill(h, formals, k) = i
    BY <1>2 DEF Spill
  <2> HIDE DEF i
  <2>3. h.t0 = NoSlot
    BY <1>2 DEF Entered
  <2> QED BY <2>1, <2>2, <2>3 DEF Entered, Known
<1>3. CASE ~(k <= 8)
  <2> DEFINE b == Asm(h, <<R("lw", "t0", W + (k - 9) * W, "s0")>>)
             i == SdT0(b, Ref(h, formals[k]))
  <2>1. Like(g, b)
    BY <1>1, AsmIs DEF Entered, Like
  <2>2. Spill(h, formals, k) = i
    BY <1>3 DEF Spill
  <2> HIDE DEF b
  <2>3. Like(g, i) /\ Known(i) /\ i.t0 = Ref(h, formals[k])
    BY <2>1, SdT0Is DEF Like
  <2>4. Ref(h, formals[k]) = Ref(g, formals[k])
    BY DEF Ref, Entered, Like
  <2> HIDE DEF i
  <2> QED BY <2>2, <2>3, <2>4, <1>3 DEF Entered
<1> QED BY <1>2, <1>3

LEMMA PrologueIs ==
  ASSUME NEW g, Generator(g), g.t0 = NoSlot, g.t1 = NoSlot, NEW formals, AnySeq(formals)
  PROVE  LET h == Prologue(g, formals)
         IN  /\ Sound(h) /\ h.slots = g.slots
             /\ h.t0 \in {NoSlot} \cup {Ref(g, formals[j]) : j \in DOMAIN formals}
<1> DEFINE n == Len(formals)
           N == FrameSize(g)
           enter == Asm(g, <<R("fun", g.fn, 0, 0), R("addi", "sp", "sp", -N),
                             R("sw", "ra", N - W, "sp"), R("sw", "s0", N - 2 * W, "sp"),
                             R("addi", "s0", "sp", N)>>)
           Next1(h, k) == Spill(h, formals, k)
           Is(f, e) == f = [k \in 0..e |-> IF k = 0 THEN enter ELSE Next1(f[k - 1], k)]
           c == CHOOSE f : Is(f, n)
<1>1. n \in Nat /\ DOMAIN formals = 1..n
  BY AnySeqIs
<1>2. Prologue(g, formals) = c[n]
  BY DEF Prologue
<1>3. \A l1, l2, l3, l4, l5 : AnySeq(<<l1, l2, l3, l4, l5>>)
  BY DEF AnySeq
<1>4. Like(g, enter) /\ enter.t0 = NoSlot
  BY <1>3, AsmIs DEF Like
<1> HIDE DEF enter
<1>5. Entered(g, formals, 0, enter)
  BY <1>4 DEF Entered, Known
<1>6. ASSUME NEW k \in 1..n, NEW h, Entered(g, formals, k - 1, h)
      PROVE  Entered(g, formals, k, Next1(h, k))
  BY <1>1, <1>6, SpillIs
<1> HIDE DEF n, Next1, c
<1>7. \A e \in Nat : \E f : Is(f, e)
  <2> DEFINE S == {e \in Nat : ~\E f : Is(f, e)}
  <2>1. ASSUME S # {} PROVE FALSE
    <3>1. PICK e \in S : \A j \in S : e <= j
      BY <2>1, LeastNumber
    <3>2. CASE e = 0
      <4>1. Is([k \in 0..0 |-> enter], 0)
        OBVIOUS
      <4> QED BY <3>2, <4>1
    <3>3. CASE e # 0
      <4>0. e \in Nat /\ e - 1 \in Nat
        BY <3>1, <3>3
      <4>1. e - 1 \in Nat /\ e - 1 \notin S
        BY <3>1, <4>0
      <4>2. PICK f : Is(f, e - 1)
        BY <4>1
      <4> DEFINE h == [k \in 0..e |-> IF k = e THEN Next1(f[e - 1], e) ELSE f[k]]
      <4>3. ASSUME NEW k \in 0..e
            PROVE  h[k] = IF k = 0 THEN enter ELSE Next1(h[k - 1], k)
        BY <3>1, <3>3, <4>2
      <4>4. h = [k \in 0..e |-> h[k]]
        OBVIOUS
      <4> HIDE DEF h
      <4>5. Is(h, e)
        BY <4>3, <4>4
      <4> QED BY <3>1, <4>5
    <3> QED BY <3>2, <3>3
  <2> QED BY <2>1
<1>8. Is(c, n)
  BY <1>1, <1>7 DEF c
<1>9. \A k \in 0..n : Entered(g, formals, k, c[k])
  <2> DEFINE S == {k \in Nat : k <= n /\ ~Entered(g, formals, k, c[k])}
  <2>1. ASSUME S # {} PROVE FALSE
    <3>1. PICK k \in S : \A j \in S : k <= j
      BY <2>1, <1>1, LeastNumber
    <3>2. CASE k = 0
      BY <3>1, <3>2, <1>1, <1>5, <1>8
    <3>3. CASE k # 0
      <4>0. k \in 1..n /\ k - 1 \in 0..n /\ k - 1 \in Nat
        BY <3>1, <3>3, <1>1
      <4>1. k - 1 \notin S
        BY <3>1, <4>0
      <4>2. c[k] = Next1(c[k - 1], k)
        BY <4>0, <1>8
      <4>3. Entered(g, formals, k - 1, c[k - 1])
        BY <4>0, <4>1
      <4> QED BY <4>0, <4>2, <4>3, <3>1, <1>6
    <3> QED BY <3>2, <3>3
  <2> QED BY <2>1
<1>10. Entered(g, formals, n, c[n])
  BY <1>1, <1>9
<1> QED BY <1>2, <1>10 DEF Entered, Like, Sound

-----------------------------------------------------------------------------
(***************************************************************************)
(* One turn of _gen_func's loop, operation by operation.                   *)
(***************************************************************************)
\* The result in its slot, and t0 known to hold it; t1 as it was.
Stored(g, d, h) == /\ Generator(h) /\ Known(h) /\ h.t0 = Ref(g, d)
                   /\ h.t1 = NoSlot /\ h.slots = g.slots

LEMMA KindedStored ==
  ASSUME NEW g, NEW d, NEW h, Stored(g, d, h), NEW name, NEW k
  PROVE  Stored(g, d, Kinded(h, name, k))
  BY KindedIs DEF Stored

LEMMA BinaryIs ==
  ASSUME NEW g, Sound(g), NEW a, NEW kind, NEW lines, AnySeq(lines)
  PROVE  Stored(g, a[1], Binary(g, a, kind, lines))
<1> DEFINE x == LdT0(g, Ref(g, a[2]))
           y == LdT1(x, Ref(g, a[3]))
           z == KillT1(y)
           i == Into(z, a[1], lines)
<1>1. Generator(x) /\ x.slots = g.slots
  BY LdT0Is DEF Sound
<1> HIDE DEF x
<1>2. Generator(y) /\ y.slots = g.slots
  BY <1>1, LdT1Is
<1> HIDE DEF y
<1>3. Generator(z) /\ z.slots = g.slots /\ z.t1 = NoSlot
  BY <1>2, KillIs
<1> HIDE DEF z
<1>4. /\ Generator(i) /\ Known(i) /\ i.t0 = Ref(z, a[1])
      /\ i.t1 = NoSlot /\ i.slots = g.slots
  BY <1>3, IntoIs
<1>5. Ref(z, a[1]) = Ref(g, a[1])
  BY <1>3 DEF Ref
<1> HIDE DEF i
<1>6. Stored(g, a[1], i)
  BY <1>4, <1>5 DEF Stored
<1>7. Binary(g, a, kind, lines) = Kinded(i, a[1], kind)
  BY DEF Binary, i, z, y, x
<1> QED BY <1>6, <1>7, KindedStored

LEMMA UnaryIs ==
  ASSUME NEW g, Sound(g), NEW a, NEW kind, NEW line
  PROVE  Stored(g, a[1], Unary1(g, a, kind, line))
<1> DEFINE x == LdT0(g, Ref(g, a[2]))
           i == Into(x, a[1], <<line>>)
<1>1. Generator(x) /\ x.slots = g.slots /\ x.t1 = NoSlot
  BY LdT0Is DEF Sound
<1>2. AnySeq(<<line>>)
  BY DEF AnySeq
<1> HIDE DEF x
<1>3. /\ Generator(i) /\ Known(i) /\ i.t0 = Ref(x, a[1])
      /\ i.t1 = NoSlot /\ i.slots = g.slots
  BY <1>1, <1>2, IntoIs
<1>4. Ref(x, a[1]) = Ref(g, a[1])
  BY <1>1 DEF Ref
<1> HIDE DEF i
<1>5. Stored(g, a[1], i)
  BY <1>3, <1>4 DEF Stored
<1>6. Unary1(g, a, kind, line) = Kinded(i, a[1], kind)
  BY DEF Unary1, i, x
<1> QED BY <1>5, <1>6, KindedStored

LEMMA LogicalIs ==
  ASSUME NEW g, Sound(g), NEW a, NEW op
  PROVE  Stored(g, a[1], Logical(g, a, op))
<1> DEFINE x == LdT0(g, Ref(g, a[2]))
           x1 == Asm(x, <<R("sltu", "t0", "zero", "t0")>>)
           left == KillT0(x1)
           y == LdT1(left, Ref(g, a[3]))
           y1 == Asm(y, <<R("sltu", "t1", "zero", "t1")>>)
           right == KillT1(y1)
           i == Into(right, a[1], <<R(op, "t0", "t0", "t1")>>)
<1>0. \A line : AnySeq(<<line>>)
  BY DEF AnySeq
<1>1. Generator(x) /\ x.slots = g.slots
  BY LdT0Is DEF Sound
<1> HIDE DEF x
<1>2. Generator(x1) /\ x1.slots = g.slots
  BY <1>0, <1>1, AsmIs
<1> HIDE DEF x1
<1>3. Generator(left) /\ left.slots = g.slots
  BY <1>2, KillIs
<1> HIDE DEF left
<1>4. Generator(y) /\ y.slots = g.slots
  BY <1>3, LdT1Is
<1> HIDE DEF y
<1>5. Generator(y1) /\ y1.slots = g.slots
  BY <1>0, <1>4, AsmIs
<1> HIDE DEF y1
<1>6. Generator(right) /\ right.slots = g.slots /\ right.t1 = NoSlot
  BY <1>5, KillIs
<1> HIDE DEF right
<1>7. /\ Generator(i) /\ Known(i) /\ i.t0 = Ref(right, a[1])
      /\ i.t1 = NoSlot /\ i.slots = g.slots
  BY <1>0, <1>6, IntoIs
<1>8. Ref(right, a[1]) = Ref(g, a[1])
  BY <1>6 DEF Ref
<1> HIDE DEF i
<1>9. Stored(g, a[1], i)
  BY <1>7, <1>8 DEF Stored
<1>10. Logical(g, a, op) = Kinded(i, a[1], "bool")
  BY DEF Logical, i, right, y1, y, left, x1, x
<1> QED BY <1>9, <1>10, KindedStored

LEMMA ElementIs ==
  ASSUME NEW g, Sound(g), NEW arr, NEW idx
  PROVE  LET h == ElementAddress(g, arr, idx)
         IN  Generator(h) /\ h.t0 = NoSlot /\ h.t1 = NoSlot /\ h.slots = g.slots
<1> DEFINE y == LdT1(g, Ref(g, idx))
           y1 == Asm(y, <<R("slli", "t1", "t1", 2)>>)
           scaled == KillT1(y1)
           lines == <<R("addi", "t0", "s0", -(g.arrs[arr] + 2 * W)),
                      R("sub", "t0", "t0", "t1")>>
           z == Asm(scaled, lines)
<1>0. AnySeq(lines) /\ \A line : AnySeq(<<line>>)
  BY DEF AnySeq
<1>1. Generator(y) /\ y.slots = g.slots
  BY LdT1Is DEF Sound
<1> HIDE DEF y, lines
<1>2. Generator(y1) /\ y1.slots = g.slots
  BY <1>0, <1>1, AsmIs
<1> HIDE DEF y1
<1>3. Generator(scaled) /\ scaled.slots = g.slots /\ scaled.t1 = NoSlot
  BY <1>2, KillIs
<1> HIDE DEF scaled
<1>4. Generator(z) /\ z.slots = g.slots /\ z.t1 = NoSlot
  BY <1>0, <1>3, AsmIs
<1> HIDE DEF z
<1>5. ElementAddress(g, arr, idx) = KillT0(z)
  BY DEF ElementAddress, z, lines, scaled, y1, y
<1> QED BY <1>4, <1>5, KillIs

LEMMA SettledAtEnd ==
  ASSUME NEW out, AnySeq(out), NEW lines, AnySeq(lines), Len(lines) > 0,
         NEW s, Settles(lines[Len(lines)], s)
  PROVE  Knows(out \o lines, Len(out \o lines) + 1, s)
<1>1. /\ Len(out) \in Nat /\ Len(lines) \in Nat /\ Len(out \o lines) = Len(out) + Len(lines)
      /\ (out \o lines)[Len(out) + Len(lines)] = lines[Len(lines)]
  BY AnySeqIs, ConcatIs
<1> HIDE DEF Settles, Spares
<1> QED BY <1>1 DEF Knows

LEMMA ReturnIs ==
  ASSUME NEW g, Sound(g), NEW r
  PROVE  LET h == ReturnCode(g, r)
         IN  Sound(h) /\ h.slots = g.slots /\ h.t0 = g.t0
<1> DEFINE N == FrameSize(g)
           lines == <<IF r = None THEN R("li", "a0", 0, 0) ELSE R("lw", "a0", Ref(g, r), "s0"),
                      R("lw", "ra", N - W, "sp"), R("lw", "s0", N - 2 * W, "sp"),
                      R("addi", "sp", "sp", N), R("ret", 0, 0, 0)>>
           h == Asm(g, lines)
<1>1. AnySeq(lines)
  BY DEF AnySeq
<1>2. Len(lines) = 5 /\ lines[5] = R("ret", 0, 0, 0)
  OBVIOUS
<1>3. ReturnCode(g, r) = h
  BY DEF ReturnCode
<1> HIDE DEF lines
<1>4. /\ Generator(h) /\ h.out = g.out \o lines
      /\ h.t0 = g.t0 /\ h.t1 = NoSlot /\ h.slots = g.slots
  BY <1>1, AsmIs DEF Sound
<1>5. \A s : Settles(R("ret", 0, 0, 0), s)
  BY DEF Settles, R
<1> HIDE DEF h
<1> HIDE DEF Settles
<1>6. AnySeq(g.out) /\ Len(lines) > 0 /\ Settles(lines[Len(lines)], g.t0)
  BY <1>2, <1>5 DEF Sound, Generator
<1>7. Knows(g.out \o lines, Len(g.out \o lines) + 1, g.t0)
  BY <1>1, <1>6, SettledAtEnd
<1> QED BY <1>3, <1>4, <1>7 DEF Sound, Known

\* A branch on the value of a slot, loaded first: t0 is what it was after it.
LEMMA BranchIs ==
  ASSUME NEW g, Sound(g), NEW s, NEW line, line.op \in {"bnez", "beqz"}
  PROVE  LET h == Asm(LdT0(g, s), <<line>>)
         IN  Sound(h) /\ h.slots = g.slots /\ h.t0 = s
<1> DEFINE x == LdT0(g, s)
           h == Asm(x, <<line>>)
<1>1. Generator(x) /\ Known(x) /\ x.t0 = s /\ x.t1 = NoSlot /\ x.slots = g.slots
  BY LdT0Is DEF Sound
<1> HIDE DEF x
<1>2. AnySeq(<<line>>)
  BY DEF AnySeq
<1>3. /\ Generator(h) /\ h.out = x.out \o <<line>>
      /\ h.t0 = s /\ h.t1 = NoSlot /\ h.slots = g.slots
  BY <1>1, <1>2, AsmIs
<1>4. Spares(line, s)
  BY DEF Spares
<1> HIDE DEF h
<1>5. Known(h)
  BY <1>1, <1>3, <1>4, SparedLast DEF Known, Generator
<1> QED BY <1>3, <1>5 DEF Sound, h, x

LEMMA JumpIs ==
  ASSUME NEW g, Sound(g), NEW line, line.op = "j"
  PROVE  LET h == Asm(g, <<line>>)
         IN  Sound(h) /\ h.slots = g.slots /\ h.t0 = g.t0
<1> DEFINE h == Asm(g, <<line>>)
<1>1. AnySeq(<<line>>)
  BY DEF AnySeq
<1>2. /\ Generator(h) /\ h.out = g.out \o <<line>>
      /\ h.t0 = g.t0 /\ h.t1 = NoSlot /\ h.slots = g.slots
  BY <1>1, AsmIs DEF Sound
<1>3. Settles(line, g.t0)
  BY DEF Settles
<1> HIDE DEF h
<1>4. Known(h)
  BY <1>2, <1>3, SettledLast DEF Known, Sound, Generator
<1> QED BY <1>2, <1>4 DEF Sound, h

\* A float goes to its slot past t0, which holds another.
LEMMA ConstIs ==
  ASSUME NEW g, Sound(g), NEW d, NEW kind, NEW val,
         kind = "float" => g.t0 \in Int /\ Ref(g, d) \in Int /\ g.t0 # Ref(g, d)
  PROVE  LET h == ConstCode(g, d, kind, val)
         IN  Sound(h) /\ h.slots = g.slots /\ h.t0 \in {g.t0, Ref(g, d)}
<1> DEFINE k == Kinded(g, d, kind)
           h == ConstCode(g, d, kind, val)
<1>1. /\ Generator(k) /\ k.out = g.out /\ Known(k)
      /\ k.t0 = g.t0 /\ k.t1 = NoSlot /\ k.slots = g.slots
  BY KindedIs DEF Sound
<1>2. \A line : AnySeq(<<line>>)
  BY DEF AnySeq
<1> HIDE DEF k
<1>3. Ref(k, d) = Ref(g, d)
  BY <1>1 DEF Ref
<1>4. CASE kind = "float"
  <2> DEFINE line == R("sw", "zero", Ref(g, d), "s0")
             x == Asm(k, <<line>>)
  <2>1. h = x
    BY <1>3, <1>4 DEF ConstCode, k
  <2>2. /\ Generator(x) /\ x.out = k.out \o <<line>>
        /\ x.t0 = g.t0 /\ x.t1 = NoSlot /\ x.slots = g.slots
    BY <1>1, <1>2, AsmIs
  <2>3. Spares(line, g.t0)
    BY <1>4 DEF Spares, R
  <2> HIDE DEF x, line
  <2>4. Known(x)
    BY <1>1, <2>2, <2>3, SparedLast DEF Known, Generator
  <2> HIDE DEF h
  <2> QED BY <2>1, <2>2, <2>4 DEF Sound, h
<1>5. CASE kind # "float"
  <2> DEFINE x == Into(k, d, <<R("li", "t0", val, 0)>>)
  <2>1. h = x
    BY <1>5 DEF ConstCode, k
  <2>2. /\ Generator(x) /\ Known(x) /\ x.t0 = Ref(k, d)
        /\ x.t1 = NoSlot /\ x.slots = g.slots
    BY <1>1, <1>2, IntoIs
  <2> HIDE DEF x, h
  <2> QED BY <1>3, <2>1, <2>2 DEF Sound, h
<1> QED BY <1>4, <1>5

\* A copy, a read element, a written one.
LEMMA CopyIs ==
  ASSUME NEW g, Sound(g), NEW d, NEW s
  PROVE  Stored(g, d, SdT0(LdT0(g, s), Ref(g, d)))
<1> DEFINE x == LdT0(g, s)
           h == SdT0(x, Ref(g, d))
<1>1. Generator(x) /\ x.t1 = NoSlot /\ x.slots = g.slots
  BY LdT0Is DEF Sound
<1> HIDE DEF x
<1>2. Generator(h) /\ Known(h) /\ h.t0 = Ref(g, d) /\ h.t1 = NoSlot /\ h.slots = g.slots
  BY <1>1, SdT0Is
<1> QED BY <1>2 DEF Stored, x

LEMMA ReadElementIs ==
  ASSUME NEW g, Sound(g), NEW d, NEW arr, NEW idx, NEW line
  PROVE  Stored(g, d, SdT0(Asm(ElementAddress(g, arr, idx), <<line>>), Ref(g, d)))
<1> DEFINE e == ElementAddress(g, arr, idx)
           x == Asm(e, <<line>>)
           h == SdT0(x, Ref(g, d))
<1>0. AnySeq(<<line>>)
  BY DEF AnySeq
<1>1. Generator(e) /\ e.t1 = NoSlot /\ e.slots = g.slots
  BY ElementIs
<1> HIDE DEF e
<1>2. Generator(x) /\ x.t1 = NoSlot /\ x.slots = g.slots
  BY <1>0, <1>1, AsmIs
<1> HIDE DEF x
<1>3. Generator(h) /\ Known(h) /\ h.t0 = Ref(g, d) /\ h.t1 = NoSlot /\ h.slots = g.slots
  BY <1>2, SdT0Is
<1> QED BY <1>3 DEF Stored, x, e

\* Nothing known of either register.
Forgot(g, h) == Generator(h) /\ h.t0 = NoSlot /\ h.t1 = NoSlot /\ h.slots = g.slots

LEMMA WriteElementIs ==
  ASSUME NEW g, Sound(g), NEW arr, NEW idx, NEW lines, AnySeq(lines)
  PROVE  Forgot(g, Asm(ElementAddress(g, arr, idx), lines))
<1> DEFINE e == ElementAddress(g, arr, idx)
<1>1. Generator(e) /\ e.t0 = NoSlot /\ e.t1 = NoSlot /\ e.slots = g.slots
  BY ElementIs
<1> HIDE DEF e
<1>2. LET x == Asm(e, lines)
      IN  Generator(x) /\ x.t0 = NoSlot /\ x.t1 = NoSlot /\ x.slots = g.slots
  BY <1>1, AsmIs
<1> QED BY <1>2 DEF Forgot, e

LEMMA ForgetIs ==
  ASSUME NEW g, Sound(g), NEW lines, AnySeq(lines)
  PROVE  Forgot(g, KillTmps(Asm(g, lines)))
<1> DEFINE x == Asm(g, lines)
<1>1. Generator(x) /\ x.slots = g.slots
  BY AsmIs DEF Sound
<1> HIDE DEF x
<1> QED BY <1>1, KillIs DEF Forgot, x

Named(ins) == Used(ins) \cup Defined(ins)

\* After a turn t0 holds what it held, or one of the names of the instruction.
Turned(g, ins, h) == /\ Sound(h) /\ h.slots = g.slots
                     /\ h.t0 \in {NoSlot, g.t0} \cup {Ref(g, n) : n \in Named(ins)}

LEMMA StoredTurned ==
  ASSUME NEW g, NEW ins, NEW d \in Named(ins), NEW h, Stored(g, d, h)
  PROVE  Turned(g, ins, h)
  BY DEF Stored, Turned, Sound

LEMMA ForgotTurned ==
  ASSUME NEW g, NEW ins, NEW h, Forgot(g, h)
  PROVE  Turned(g, ins, h)
  BY DEF Forgot, Turned, Sound, Known

LEMMA CompareIs ==
  ASSUME NEW o \in {"LT", "LE", "GT", "GE", "EQ", "NE"}
  PROVE  AnySeq(Compare(o))
<1>1. (\A x : AnySeq(<<x>>)) /\ (\A x, y : AnySeq(<<x, y>>))
  BY DEF AnySeq
<1> QED BY <1>1 DEF Compare

LEMMA DefinesFirst ==
  ASSUME NEW ins, ins.op \in {"CONST", "LOAD", "STORE", "LOAD_ARR"} \cup BinOps \cup UnaryOps
  PROVE  ins.args[1] \in Named(ins)
<1>1. Defined(ins) = {ins.args[1]}
  BY DEF Defined, BinOps, UnaryOps
<1> QED BY <1>1 DEF Named

LEMMA TestsFirst ==
  ASSUME NEW ins, ins.op \in {"JMP_IF", "JMP_IF_NOT"}
  PROVE  ins.args[1] \in Named(ins)
<1>1. Used(ins) = {ins.args[1]}
  BY DEF Used, BinOps, UnaryOps
<1> QED BY <1>1 DEF Named

LEMMA EmitIs ==
  ASSUME NEW g, Sound(g), NEW ins,
         ins.op = "PRINT" => AnySeq(ins.args),
         ins.op = "CONST" /\ ins.args[2][1] = "float" =>
           g.t0 \in Int /\ Ref(g, ins.args[1]) \in Int /\ g.t0 # Ref(g, ins.args[1])
  PROVE  Turned(g, ins, Emit(g, ins))
<1> DEFINE o == ins.op
           a == ins.args
           h == Emit(g, ins)
<1>0. /\ Generator(g) /\ \A x : AnySeq(<<x>>)
      /\ \A x, y, z : AnySeq(<<x, y, z>>) /\ AnySeq(<<x, y>>)
  BY DEF Sound, AnySeq
<1>1. CASE o = "LABEL"
  <2>1. h = KillTmps(Asm(g, <<R("label", <<g.fn, a[1]>>, 0, 0)>>))
    BY <1>1 DEF Emit, LabelCode
  <2> QED BY <2>1, <1>0, ForgetIs, ForgotTurned
<1>2. CASE o = "JMP"
  <2> DEFINE line == R("j", <<g.fn, a[1]>>, 0, 0)
  <2>1. h = Asm(g, <<line>>) /\ line.op = "j"
    BY <1>2 DEF Emit, R
  <2> HIDE DEF line, h
  <2> QED BY <2>1, JumpIs DEF Turned, h
<1>3. CASE o \in {"JMP_IF", "JMP_IF_NOT"}
  <2> DEFINE line == R(IF o = "JMP_IF" THEN "bnez" ELSE "beqz", <<g.fn, a[2]>>, "t0", 0)
             s == Ref(g, a[1])
  <2>1. h = Asm(LdT0(g, s), <<line>>) /\ line.op \in {"bnez", "beqz"}
    BY <1>3 DEF Emit, R
  <2>2. s \in {Ref(g, n) : n \in Named(ins)}
    BY <1>3, TestsFirst
  <2> HIDE DEF line, h, s
  <2>3. Sound(h) /\ h.slots = g.slots /\ h.t0 = s
    BY <2>1, BranchIs
  <2> QED BY <2>2, <2>3 DEF Turned, h
<1>4. CASE o = "CONST"
  <2>1. h = ConstCode(g, a[1], a[2][1], a[2][2])
    BY <1>4 DEF Emit
  <2>2. Ref(g, a[1]) \in {Ref(g, n) : n \in Named(ins)}
    BY <1>4, DefinesFirst
  <2>3. a[2][1] = "float" => g.t0 \in Int /\ Ref(g, a[1]) \in Int /\ g.t0 # Ref(g, a[1])
    BY <1>4
  <2> HIDE DEF h, a
  <2>4. Sound(h) /\ h.slots = g.slots /\ h.t0 \in {g.t0, Ref(g, a[1])}
    BY <2>1, <2>3, ConstIs
  <2> QED BY <2>2, <2>4 DEF Turned, h
<1>5. CASE o \in {"LOAD", "STORE"}
  <2>1. h = Kinded(SdT0(LdT0(g, Ref(g, a[2])), Ref(g, a[1])), a[1], KindOf(g, a[2]))
    BY <1>5 DEF Emit
  <2>2. Stored(g, a[1], h)
    BY <2>1, CopyIs, KindedStored
  <2> QED BY <2>2, <1>5, DefinesFirst, StoredTurned
<1>6. CASE o = "LOAD_ARR"
  <2>1. h = SdT0(Asm(ElementAddress(g, a[2], a[3]), <<R("lw", "t0", 0, "t0")>>), Ref(g, a[1]))
    BY <1>6 DEF Emit
  <2>2. Stored(g, a[1], h)
    BY <2>1, ReadElementIs
  <2> QED BY <2>2, <1>6, DefinesFirst, StoredTurned
<1>7. CASE o = "STORE_ARR"
  <2>1. h = Asm(ElementAddress(g, a[1], a[2]),
                <<R("lw", "t2", Ref(g, a[3]), "s0"), R("sw", "t2", 0, "t0")>>)
    BY <1>7 DEF Emit
  <2> QED BY <2>1, <1>0, WriteElementIs, ForgotTurned
<1>8. CASE o \in {"ADD", "SUB", "MUL", "DIV", "MOD"}
  <2>1. h = Binary(g, a, KindOf(g, a[2]), <<R(Machine(o), "t0", "t0", "t1")>>)
    BY <1>8 DEF Emit
  <2>2. Stored(g, a[1], h)
    BY <2>1, <1>0, BinaryIs
  <2> QED BY <2>2, <1>8, DefinesFirst, StoredTurned DEF BinOps
<1>9. CASE o \in UnaryOps
  <2>1. \E kind, line : h = Unary1(g, a, kind, line)
    BY <1>9 DEF Emit, UnaryOps
  <2>2. Stored(g, a[1], h)
    BY <2>1, UnaryIs
  <2> QED BY <2>2, <1>9, DefinesFirst, StoredTurned
<1>10. CASE o \in {"LT", "LE", "GT", "GE", "EQ", "NE"}
  <2>1. h = Binary(g, a, "bool", Compare(o))
    BY <1>10 DEF Emit
  <2>2. Stored(g, a[1], h)
    BY <2>1, <1>10, CompareIs, BinaryIs
  <2> QED BY <2>2, <1>10, DefinesFirst, StoredTurned DEF BinOps
<1>11. CASE o \in {"AND", "OR"}
  <2>1. \E op : h = Logical(g, a, op)
    BY <1>11 DEF Emit
  <2>2. Stored(g, a[1], h)
    BY <2>1, LogicalIs
  <2> QED BY <2>2, <1>11, DefinesFirst, StoredTurned DEF BinOps
<1>12. CASE o = "PRINT"
  <2>1. h = PrintAll(g, a)
    BY <1>12 DEF Emit
  <2>2. Forgot(g, h)
    BY <2>1, <1>0, <1>12, PrintAllIs DEF Forgot
  <2> QED BY <2>2, ForgotTurned
<1>13. CASE o = "READ_INT"
  <2> DEFINE lines == Ecall(5) \o <<R("sw", "a0", Ref(g, a[1]), "s0")>>
             x == Asm(g, lines)
             k == Kinded(x, a[1], "int")
  <2>1. h = KillTmps(k)
    BY <1>13 DEF Emit
  <2>2. AnySeq(lines)
    BY <1>0, ConcatIs DEF Ecall
  <2> HIDE DEF lines
  <2>3. Generator(x) /\ x.slots = g.slots
    BY <2>2, <1>0, AsmIs
  <2> HIDE DEF x
  <2>4. Generator(k) /\ k.slots = g.slots
    BY <2>3, KindedIs
  <2> HIDE DEF k, h
  <2>5. Forgot(g, h)
    BY <2>1, <2>4, KillIs DEF Forgot
  <2> QED BY <2>5, ForgotTurned DEF h
<1>14. CASE o = "EXIT"
  <2> DEFINE lines == <<R("lw", "a0", Ref(g, a[1]), "s0")>> \o Ecall(93)
  <2>1. h = KillTmps(Asm(g, lines))
    BY <1>14 DEF Emit
  <2>2. AnySeq(lines)
    BY <1>0, ConcatIs DEF Ecall
  <2> HIDE DEF lines
  <2> QED BY <2>1, <2>2, ForgetIs, ForgotTurned
<1>15. CASE o = "PARAM"
  <2>1. h = [g EXCEPT !.pend = Append(@, a[1])]
    BY <1>15 DEF Emit
  <2>2. AnySeq(Append(g.pend, a[1]))
    BY <1>0, AppendIs DEF Generator
  <2> HIDE DEF h
  <2>3. /\ Generator(h) /\ h.out = g.out /\ h.t0 = g.t0 /\ h.t1 = g.t1 /\ h.slots = g.slots
    BY <2>1, <2>2, <1>0 DEF Generator
  <2> QED BY <2>3 DEF Turned, Sound, Known, h
<1>16. CASE o = "CALL"
  <2>1. h = CallCode(g, a)
    BY <1>16 DEF Emit
  <2>2. Forgot(g, h)
    BY <2>1, <1>0, CallIs DEF Forgot, Sound
  <2> QED BY <2>2, ForgotTurned
<1>17. CASE o = "RET"
  <2>1. h = ReturnCode(g, a[1])
    BY <1>17 DEF Emit
  <2>2. Sound(h) /\ h.slots = g.slots /\ h.t0 = g.t0
    BY <2>1, ReturnIs
  <2> QED BY <2>2 DEF Turned
<1>18. CASE o \notin {"LABEL", "JMP", "JMP_IF", "JMP_IF_NOT", "CONST", "LOAD", "STORE",
                      "LOAD_ARR", "STORE_ARR", "ADD", "SUB", "MUL", "DIV", "MOD",
                      "LT", "LE", "GT", "GE", "EQ", "NE", "AND", "OR", "PRINT",
                      "READ_INT", "EXIT", "PARAM", "CALL", "RET"} \cup UnaryOps
  <2>1. h = g
    BY <1>18 DEF Emit, UnaryOps
  <2> QED BY <2>1 DEF Turned
<1> QED BY <1>1, <1>2, <1>3, <1>4, <1>5, <1>6, <1>7, <1>8, <1>9, <1>10, <1>11, <1>12,
           <1>13, <1>14, <1>15, <1>16, <1>17, <1>18

-----------------------------------------------------------------------------
(***************************************************************************)
(* The whole of a function: at every mark t1 is free, and what t0 is said  *)
(* to hold is known from the text alone.                                   *)
(***************************************************************************)
Mentioned(fn, k) == {fn.formals[j] : j \in DOMAIN fn.formals}
                    \cup UNION {Named(fn.code[j]) : j \in 1..(k - 1)}

MarksKnown(fn, marks, text) ==
  \A k \in DOMAIN fn.code :
    /\ marks[k].t1 = NoSlot
    /\ marks[k].t0 # NoSlot => Knows(text, marks[k].at, marks[k].t0)

\* What the generator is before the k-th instruction.
Reached(fn, slots, g, k) ==
  /\ Sound(g) /\ g.slots = slots
  /\ g.t0 \in {NoSlot} \cup {Ref(g, n) : n \in Mentioned(fn, k)}

LEMMA BeginIs ==
  ASSUME NEW fn, IsFunction(fn), NEW out, IsList(out)
  PROVE  Reached(fn, BuildFrame(fn).slots, Begin(out, fn), 1)
<1> DEFINE l == BuildFrame(fn)
           g == [fn |-> fn.name, slots |-> l.slots, arrs |-> l.arrs, cur |-> l.cur,
                 out |-> out, t0 |-> NoSlot, t1 |-> NoSlot, pend |-> <<>>,
                 kinds |-> [p \in fn.params |-> "int"]]
           h == Begin(out, fn)
<1>1. AnySeq(out) /\ AnySeq(fn.formals) /\ AnySeq(<<>>)
  BY DEF IsFunction, IsList, AnySeq
<1>2. h = Prologue(g, fn.formals)
  BY DEF Begin
<1>3. Generator(g) /\ g.t0 = NoSlot /\ g.t1 = NoSlot /\ g.slots = l.slots
  BY <1>1 DEF Generator
<1> HIDE DEF g, l, h
<1>4. /\ Sound(h) /\ h.slots = g.slots
      /\ h.t0 \in {NoSlot} \cup {Ref(g, fn.formals[j]) : j \in DOMAIN fn.formals}
  BY <1>1, <1>2, <1>3, PrologueIs
<1>5. \A n : Ref(g, n) = Ref(h, n)
  BY <1>4 DEF Ref
<1> QED BY <1>3, <1>4, <1>5 DEF Reached, Mentioned, l, h

LEMMA TurnIs ==
  ASSUME NEW fn, IsFunction(fn), NEW slots, SlotsGiven(fn, slots),
         NEW k \in DOMAIN fn.code, NEW g, Reached(fn, slots, g, k)
  PROVE  Reached(fn, slots, Emit(g, fn.code[k]), k + 1)
<1> DEFINE ins == fn.code[k]
           h == Emit(g, ins)
<1>1. k \in Nat \ {0}
  <2>1. AnySeq(fn.code)
    BY DEF IsFunction, IsList, AnySeq
  <2> QED BY <2>1, AnySeqIs
<1>2. \A n : Ref(g, n) = -(slots[n] + 8)
  BY DEF Ref, Reached, W
<1>3. \A n \in DOMAIN slots : slots[n] \in Nat
  BY DEF SlotsGiven
<1>4. Mentioned(fn, k) \subseteq DOMAIN slots /\ Named(ins) \subseteq DOMAIN slots
  <2>0. AnySeq(fn.code)
    BY DEF IsFunction, IsList, AnySeq
  <2>1. \A j \in 1..(k - 1) : j \in DOMAIN fn.code
    BY <2>0, AnySeqIs
  <2> QED BY <2>1 DEF SlotsGiven, Mentioned, Named
<1>5. ins.op = "PRINT" => AnySeq(ins.args)
  BY DEF IsFunction, IsList, AnySeq
<1>6. ASSUME ins.op = "CONST", ins.args[2][1] = "float"
      PROVE  g.t0 \in Int /\ Ref(g, ins.args[1]) \in Int /\ g.t0 # Ref(g, ins.args[1])
  <2>1. ins.args[1] \in Named(ins)
    BY <1>6, DefinesFirst
  <2>2. \A n \in Mentioned(fn, k) : slots[n] # slots[ins.args[1]]
    BY <1>6 DEF SlotsGiven, Mentioned, Named
  <2> HIDE DEF ins
  <2>3. slots[ins.args[1]] \in Nat
    BY <1>3, <1>4, <2>1
  <2>4. \A n \in Mentioned(fn, k) : slots[n] \in Nat
    BY <1>3, <1>4
  <2>5. CASE g.t0 = NoSlot
    BY <2>3, <2>5, <1>2 DEF NoSlot
  <2>6. CASE \E n \in Mentioned(fn, k) : g.t0 = Ref(g, n)
    BY <2>2, <2>3, <2>4, <2>6, <1>2
  <2> QED BY <2>5, <2>6 DEF Reached
<1>7. Turned(g, ins, h)
  BY <1>5, <1>6, EmitIs DEF Reached
<1>8. Mentioned(fn, k) \cup Named(ins) \subseteq Mentioned(fn, k + 1)
  <2>1. k \in 1..(k + 1 - 1) /\ \A j \in 1..(k - 1) : j \in 1..(k + 1 - 1)
    BY <1>1
  <2> QED BY <2>1 DEF Mentioned
<1>9. \A n : Ref(g, n) = Ref(h, n)
  BY <1>7 DEF Ref, Turned
<1> HIDE DEF h, ins
<1>10. h.t0 \in {NoSlot} \cup {Ref(h, n) : n \in Mentioned(fn, k + 1)}
  BY <1>7, <1>8, <1>9 DEF Turned, Reached
<1>11. Sound(h) /\ h.slots = slots
  BY <1>7 DEF Turned, Reached
<1>12. Reached(fn, slots, h, k + 1)
  BY <1>10, <1>11 DEF Reached
<1> QED BY <1>12 DEF h, ins

\* What is known from the first lines is known from the text that goes on after them.
LEMMA KnowsOn ==
  ASSUME NEW out, AnySeq(out), NEW text, NEW s,
         \A j \in 1..Len(out) : out[j] = text[j], Knows(out, Len(out) + 1, s)
  PROVE  Knows(text, Len(out) + 1, s)
<1>1. Len(out) \in Nat
  BY AnySeqIs
<1>2. PICK i \in 1..Len(out) : /\ Settles(out[i], s)
                               /\ \A n \in (i + 1)..Len(out) : Spares(out[n], s)
  BY <1>1 DEF Knows
<1> HIDE DEF Settles, Spares
<1>3. Settles(text[i], s) /\ \A n \in (i + 1)..Len(out) : Spares(text[n], s)
  BY <1>1, <1>2
<1> QED BY <1>1, <1>3 DEF Knows

LEMMA FunctionIs ==
  ASSUME NEW fn, IsFunction(fn), SlotsGiven(fn, BuildFrame(fn).slots),
         NEW out, IsList(out), NEW gs, NEW marks, NEW text,
         gs[1] = Begin(out, fn), InTurn(fn, gs, marks, text)
  PROVE  MarksKnown(fn, marks, text)
<1> DEFINE n == Len(fn.code)
           slots == BuildFrame(fn).slots
<1>1. n \in Nat /\ DOMAIN fn.code = 1..n
  <2>1. AnySeq(fn.code)
    BY DEF IsFunction, IsList, AnySeq
  <2> QED BY <2>1, AnySeqIs
<1> HIDE DEF n, slots
<1>2. \A k \in 1..n : Reached(fn, slots, gs[k], k)
  <2> DEFINE S == {k \in Nat : k \in 1..n /\ ~Reached(fn, slots, gs[k], k)}
  <2>1. ASSUME S # {} PROVE FALSE
    <3>1. PICK k \in S : \A j \in S : k <= j
      BY <2>1, LeastNumber
    <3>2. CASE k = 1
      BY <3>1, <3>2, BeginIs DEF slots
    <3>3. CASE k # 1
      <4>1. k \in 1..n /\ k - 1 \in 1..n /\ k - 1 \in Nat
        BY <3>1, <3>3, <1>1
      <4>2. k - 1 \notin S
        BY <3>1, <4>1
      <4>3. Reached(fn, slots, gs[k - 1], k - 1)
        BY <4>1, <4>2
      <4>4. gs[k - 1 + 1] = Emit(gs[k - 1], fn.code[k - 1])
        BY <4>1, <1>1 DEF InTurn
      <4>5. Reached(fn, slots, Emit(gs[k - 1], fn.code[k - 1]), k - 1 + 1)
        BY <4>1, <4>3, <1>1, TurnIs DEF slots
      <4>6. k - 1 + 1 = k
        BY <4>1
      <4> QED BY <4>4, <4>5, <4>6, <3>1
    <3> QED BY <3>2, <3>3
  <2> QED BY <2>1, <1>1
<1>3. ASSUME NEW k \in 1..n
      PROVE  /\ marks[k].t1 = NoSlot
             /\ marks[k].t0 # NoSlot => Knows(text, marks[k].at, marks[k].t0)
  <2>1. Generator(gs[k]) /\ gs[k].t1 = NoSlot /\ Known(gs[k])
    BY <1>2 DEF Reached, Sound
  <2>2. /\ marks[k] = Mark(gs[k])
        /\ \A j \in 1..Len(gs[k].out) : gs[k].out[j] = text[j]
    BY <1>1 DEF InTurn
  <2>3. /\ marks[k].at = Len(gs[k].out) + 1 /\ marks[k].t0 = gs[k].t0
        /\ marks[k].t1 = gs[k].t1
    BY <2>2 DEF Mark
  <2>4. AnySeq(gs[k].out)
    BY <2>1 DEF Generator
  <2>5. gs[k].t0 # NoSlot => Knows(gs[k].out, Len(gs[k].out) + 1, gs[k].t0)
    BY <2>1 DEF Known
  <2> QED BY <2>1, <2>2, <2>3, <2>4, <2>5, KnowsOn
<1> QED BY <1>1, <1>3 DEF MarksKnown

LEMMA ProgramIs ==
  ASSUME NEW p \in DOMAIN Programs
  PROVE  LET asm == Generate(Programs[p])
         IN  /\ Assembles(asm.out)
             /\ \A f \in DOMAIN Programs[p] :
                  /\ IsFunction(Programs[p][f])
                  /\ MarksKnown(Programs[p][f], asm.marks[f], asm.out)
<1> DEFINE asm == Generate(Programs[p])
<1>1. InTurns(Programs[p], asm)
  BY ProgramsAssumption
<1> HIDE DEF asm
<1>2. ASSUME NEW f \in DOMAIN Programs[p]
      PROVE  /\ IsFunction(Programs[p][f])
             /\ MarksKnown(Programs[p][f], asm.marks[f], asm.out)
  BY <1>1, FunctionIs DEF InTurns
<1>3. Assembles(asm.out)
  BY <1>1 DEF InTurns
<1> QED BY <1>2, <1>3 DEF asm

-----------------------------------------------------------------------------
(***************************************************************************)
(* The machine: whatever way it comes to a line, t0 holds what the lines   *)
(* above say.  It comes from above, to a label or a function, where        *)
(* nothing is asked, or back from a call, after which nothing is known.    *)
(***************************************************************************)
Fields == {"pc", "out", "used", "st", "r", "mem"}
Shape == DOMAIN m = Fields /\ DOMAIN m.r = Registers /\ DOMAIN m.mem = Addresses

T0True(s) == Knows(Asms, m.pc, s) => Word(m.r["s0"] + s) = m.r["t0"]

Held ==
  /\ \E p \in DOMAIN Programs : image = Compiled(Programs[p])
  /\ Shape
  /\ m.st = "run" /\ Asms[m.pc].op \notin {"label", "fun"} => \A s : T0True(s)

LEMMA KnowsLast ==
  ASSUME NEW text, NEW j \in Nat \ {0}, NEW s, Knows(text, j + 1, s)
  PROVE  \/ Settles(text[j], s)
         \/ Spares(text[j], s) /\ Knows(text, j, s)
<1>1. PICK i \in 1..j : /\ Settles(text[i], s)
                        /\ \A n \in (i + 1)..j : Spares(text[n], s)
  BY DEF Knows
<1> HIDE DEF Settles, Spares
<1>2. CASE i = j
  BY <1>1, <1>2
<1>3. CASE i # j
  <2>1. j \in (i + 1)..j /\ i \in 1..(j - 1) /\ \A n \in (i + 1)..(j - 1) : n \in (i + 1)..j
    BY <1>3
  <2>2. Knows(text, j, s)
    BY <1>1, <2>1 DEF Knows
  <2> QED BY <1>1, <2>1, <2>2
<1> QED BY <1>2, <1>3

LEMMA InitHeld == Init => Held
<1> SUFFICES ASSUME Init PROVE Held
  OBVIOUS
<1>1. m.pc = 1 /\ Shape
  BY DEF Init, Reset, Shape, Fields
<1>2. \A s : ~Knows(Asms, 1, s)
  BY DEF Knows
<1> QED BY <1>1, <1>2 DEF Init, Held, T0True

\* The lines that do not fall through to the next.
Leaves == {"j", "bnez", "beqz", "call", "ret"}

\* The lines that compute a word into a register.
LEMMA ComputesIs ==
  ASSUME Asms[m.pc].op \notin Leaves \cup {"label", "fun", "lw", "sw", "ecall"}
  PROVE  \E x, v : Cycle(Asms, m, inputs) = SetReg(m, x, v)
<1> DEFINE line == Asms[m.pc]
           y == Reg(m, line.a)
           c == Cycle(Asms, m, inputs)
<1>1. CASE line.op = "li"
  <2>1. c = SetReg(m, line.d, Wrap(line.a))
    BY <1>1 DEF Cycle, Immediate
  <2> QED BY <2>1
<1>2. CASE line.op \in Immediate
  <2>1. c = SetReg(m, line.d, Result(line.op, y, line.b))
    BY <1>2 DEF Cycle, Immediate
  <2> QED BY <2>1
<1>3. CASE line.op \notin Immediate \cup {"li"}
  <2>1. c = SetReg(m, line.d, Result(line.op, y, Reg(m, line.b)))
    BY <1>3 DEF Cycle, Leaves, Immediate
  <2> QED BY <2>1
<1> QED BY <1>1, <1>2, <1>3

LEMMA MarkerIs ==
  ASSUME Asms[m.pc].op \in {"label", "fun"}
  PROVE  Cycle(Asms, m, inputs) = [m EXCEPT !.pc = m.pc + 1]
  BY DEF Cycle, Immediate

LEMMA ShapeKept ==
  ASSUME Shape, m' = Cycle(Asms, m, inputs)
  PROVE  Shape'
<1> DEFINE line == Asms[m.pc]
<1>1. CASE line.op \in {"lw", "sw"}
  BY <1>1 DEF Shape, Cycle, Immediate, Access, SetReg, Fields
<1>2. CASE line.op = "ecall"
  BY <1>2 DEF Shape, Cycle, Immediate, Service, SetReg, Fields
<1>3. CASE line.op \in Leaves \cup {"label", "fun"}
  BY <1>3 DEF Shape, Cycle, Immediate, Fields, Leaves
<1>4. CASE line.op \notin Leaves \cup {"label", "fun", "lw", "sw", "ecall"}
  <2>1. PICK x, v : m' = SetReg(m, x, v)
    BY <1>4, ComputesIs
  <2> QED BY <2>1 DEF Shape, SetReg, Fields
<1> QED BY <1>1, <1>2, <1>3, <1>4

LEMMA FallsThrough ==
  ASSUME Shape, m' = Cycle(Asms, m, inputs), Asms[m.pc].op \notin Leaves, m'.st = "run"
  PROVE  m'.pc = m.pc + 1
<1> DEFINE line == Asms[m.pc]
<1>1. CASE line.op \in {"lw", "sw"}
  BY <1>1 DEF Shape, Cycle, Immediate, Access, SetReg, Fields
<1>2. CASE line.op = "ecall"
  BY <1>2 DEF Shape, Cycle, Immediate, Service, SetReg, Fields
<1>3. CASE line.op \in {"label", "fun"}
  BY <1>3, MarkerIs DEF Shape, Fields
<1>4. CASE line.op \notin {"label", "fun", "lw", "sw", "ecall"}
  <2>1. PICK x, v : m' = SetReg(m, x, v)
    BY <1>4, ComputesIs
  <2> QED BY <2>1 DEF Shape, SetReg, Fields
<1> QED BY <1>1, <1>2, <1>3, <1>4

\* A jump, a branch taken and a call end at a label or at a function.
LEMMA LandsOnMark ==
  ASSUME Shape, Assembles(Asms), m.pc \in DOMAIN Asms, m' = Cycle(Asms, m, inputs),
         Asms[m.pc].op \in {"j", "call", "bnez", "beqz"}
  PROVE  \/ Asms[m'.pc].op \in {"label", "fun"}
         \/ Asms[m.pc].op \in {"bnez", "beqz"} /\ m' = [m EXCEPT !.pc = @ + 1]
<1> DEFINE line == Asms[m.pc]
<1>1. CASE line.op = "call"
  <2>1. m'.pc = Place(Asms, "fun", line.d)
    BY <1>1 DEF Cycle, Immediate, Shape, Fields
  <2>2. \E i \in DOMAIN Asms : Asms[i].op = "fun" /\ Asms[i].d = line.d
    BY <1>1 DEF Assembles
  <2>3. Asms[Place(Asms, "fun", line.d)].op = "fun"
    BY <2>2 DEF Place
  <2> QED BY <2>1, <2>3
<1>2. CASE line.op \in {"j", "bnez", "beqz"}
  <2>1. \/ m'.pc = Place(Asms, "label", line.d)
        \/ line.op # "j" /\ m' = [m EXCEPT !.pc = @ + 1]
    BY <1>2 DEF Cycle, Immediate, Shape, Fields
  <2>2. \E i \in DOMAIN Asms : Asms[i].op = "label" /\ Asms[i].d = line.d
    BY <1>2 DEF Assembles
  <2>3. Asms[Place(Asms, "label", line.d)].op = "label"
    BY <2>2 DEF Place
  <2> QED BY <1>2, <2>1, <2>3
<1> QED BY <1>1, <1>2

\* After a line that t0 is loaded from or stored to, it holds the word.
LEMMA SettledHolds ==
  ASSUME Shape, m' = Cycle(Asms, m, inputs), m'.st = "run", NEW s,
         Asms[m.pc] = R("lw", "t0", s, "s0") \/ Asms[m.pc] = R("sw", "t0", s, "s0")
  PROVE  Word(m.r["s0"] + s)' = m'.r["t0"] /\ m'.r["s0"] = m.r["s0"]
<1> DEFINE line == Asms[m.pc]
           at == m.r["s0"] + s
<1>1. /\ line.op \in {"lw", "sw"} /\ line.d = "t0" /\ line.a = s /\ line.b = "s0"
      /\ Reg(m, "s0") = m.r["s0"] /\ Reg(m, "t0") = m.r["t0"]
  BY DEF R, Reg
<1>2. m' = Access(m, line)
  BY <1>1 DEF Cycle, Immediate
<1> HIDE DEF line
<1>3. at \in Addresses
  BY <1>1, <1>2 DEF Access, Shape, Fields
<1>4. CASE line.op = "lw"
  <2>1. m' = SetReg(m, "t0", m.mem[at])
    BY <1>1, <1>2, <1>3, <1>4 DEF Access, Shape
  <2> QED BY <2>1, <1>3 DEF SetReg, Shape, Fields, Word, Registers
<1>5. CASE line.op = "sw"
  <2>1. m' = [m EXCEPT !.mem[at] = m.r["t0"], !.pc = @ + 1]
    BY <1>1, <1>2, <1>3, <1>5 DEF Access, Shape
  <2> QED BY <2>1, <1>3 DEF Shape, Fields, Word, Registers
<1> QED BY <1>1, <1>4, <1>5

\* A zero stored elsewhere leaves t0 and its word as they are.
LEMMA SparedHolds ==
  ASSUME Shape, m' = Cycle(Asms, m, inputs), m'.st = "run", NEW s \in Int, m.r["s0"] \in Int,
         Asms[m.pc].op = "sw", Spares(Asms[m.pc], s)
  PROVE  /\ Word(m.r["s0"] + s)' = Word(m.r["s0"] + s)
         /\ m'.r = m.r
<1> DEFINE line == Asms[m.pc]
           at == m.r["s0"] + s
           to == m.r["s0"] + line.a
<1>1. line.d = "zero" /\ line.b = "s0" /\ line.a \in Int /\ line.a # s
  BY DEF Spares
<1>2. m' = Access(m, line)
  BY DEF Cycle, Immediate
<1>3. Reg(m, "s0") + line.a = to /\ at # to
  <2>1. Reg(m, "s0") = m.r["s0"]
    BY DEF Reg
  <2> HIDE DEF line
  <2>2. at # to
    BY <1>1
  <2> QED BY <2>1, <2>2
<1>4. line.op = "sw"
  OBVIOUS
<1> HIDE DEF line, to
<1>5. to \in Addresses
  BY <1>1, <1>2, <1>3 DEF Access, Shape, Fields
<1>6. m' = [m EXCEPT !.mem[to] = Reg(m, line.d), !.pc = @ + 1]
  BY <1>1, <1>2, <1>3, <1>4, <1>5 DEF Access, Shape
<1> QED BY <1>3, <1>6 DEF Shape, Fields, Word

LEMMA CycleHeld ==
  ASSUME TypeOK, ReturnsHome, Held, m.st = "run", m' = MachineStep(Asms, m, inputs),
         image' = image
  PROVE  Held'
<1> DEFINE line == Asms[m.pc]
<1>1. PICK p \in DOMAIN Programs : image = Compiled(Programs[p])
  BY DEF Held
<1>2. Assembles(Asms)
  BY <1>1, ProgramIs DEF Asms, Compiled
<1>3. m.pc \in DOMAIN Asms /\ m.pc \in Nat \ {0}
  <2>1. AnySeq(Asms)
    BY <1>2 DEF Assembles, IsList, AnySeq
  <2>2. m.pc \in DOMAIN Asms
    BY DEF TypeOK
  <2> QED BY <2>1, <2>2, AnySeqIs
<1>4. m' = Cycle(Asms, m, inputs) /\ Asms' = Asms
  BY <1>3 DEF MachineStep, Asms
<1>5. Shape /\ Shape'
  BY <1>4, ShapeKept DEF Held
<1>6. m.r["s0"] \in Int /\ m.r["ra"] \in Int
  <2>1. m.r["s0"] \in Int
    BY HalfAssumption DEF TypeOK, Registers, Undef
  <2>2. m.r["ra"] \in Int
    BY HalfAssumption DEF TypeOK, Registers, Undef
  <2> QED BY <2>1, <2>2
<1>7. ASSUME m'.st = "run", Asms[m'.pc].op \notin {"label", "fun"}, NEW s,
             Knows(Asms, m'.pc, s)
      PROVE  Word(m.r["s0"] + s)' = m'.r["t0"] /\ m'.r["s0"] = m.r["s0"]
  <2>1. CASE line.op \in {"j", "call", "bnez", "beqz"}
    <3>1. line.op \in {"bnez", "beqz"} /\ m' = [m EXCEPT !.pc = @ + 1]
      BY <1>2, <1>3, <1>4, <1>5, <1>7, <2>1, LandsOnMark
    <3>2. m'.pc = m.pc + 1 /\ m'.r = m.r /\ m'.mem = m.mem
      BY <3>1, <1>5 DEF Shape, Fields
    <3>3. ~Settles(line, s)
      BY <3>1 DEF Settles, R
    <3>4. Knows(Asms, m.pc, s)
      BY <1>3, <1>7, <3>2, <3>3, KnowsLast
    <3>5. Word(m.r["s0"] + s) = m.r["t0"]
      BY <3>1, <3>4 DEF Held, T0True
    <3> QED BY <3>2, <3>5 DEF Word
  <2>2. CASE line.op = "ret"
    <3>1. m'.pc = m.r["ra"]
      BY <1>4, <1>5, <2>2 DEF Cycle, Immediate, Shape, Fields
    <3>2. m.r["ra"] - 1 \in DOMAIN Asms /\ Asms[m.r["ra"] - 1].op = "call"
      BY <2>2 DEF ReturnsHome
    <3> DEFINE j == m.r["ra"] - 1
    <3>3. j \in Nat \ {0} /\ m'.pc = j + 1
      <4>1. AnySeq(Asms)
        BY <1>2 DEF Assembles, IsList, AnySeq
      <4>2. j \in Nat \ {0}
        BY <3>2, <4>1, AnySeqIs
      <4> QED BY <3>1, <4>2, <1>6
    <3>4. ~Settles(Asms[j], s) /\ ~Spares(Asms[j], s)
      BY <3>2 DEF Settles, Spares, R
    <3> HIDE DEF j
    <3> QED BY <1>7, <3>3, <3>4, KnowsLast
  <2>3. CASE line.op \notin Leaves
    <3>1. m'.pc = m.pc + 1
      BY <1>4, <1>5, <1>7, <2>3, FallsThrough
    <3>2. \/ Settles(line, s)
          \/ Spares(line, s) /\ Knows(Asms, m.pc, s)
      BY <1>3, <1>7, <3>1, KnowsLast
    <3>3. CASE Settles(line, s)
      <4>1. line = R("lw", "t0", s, "s0") \/ line = R("sw", "t0", s, "s0")
        BY <2>3, <3>3 DEF Settles, Leaves
      <4> HIDE DEF line
      <4> QED BY <1>4, <1>5, <1>7, <4>1, SettledHolds DEF line
    <3>4. CASE Spares(line, s) /\ Knows(Asms, m.pc, s)
      <4>1. line.op = "sw" /\ s \in Int
        BY <2>3, <3>4 DEF Spares, Leaves
      <4>2. Word(m.r["s0"] + s) = m.r["t0"]
        BY <3>4, <4>1 DEF Held, T0True
      <4>3. Word(m.r["s0"] + s)' = Word(m.r["s0"] + s) /\ m'.r = m.r
        BY <1>4, <1>5, <1>6, <1>7, <3>4, <4>1, SparedHolds
      <4> QED BY <4>2, <4>3
    <3> QED BY <3>2, <3>3, <3>4
  <2> QED BY <2>1, <2>2, <2>3 DEF Leaves
<1>8. m'.st = "run" /\ Asms'[m'.pc].op \notin {"label", "fun"} => \A s : T0True(s)'
  <2>1. ASSUME m'.st = "run", Asms[m'.pc].op \notin {"label", "fun"}, NEW s,
               Knows(Asms, m'.pc, s)
        PROVE  Word(m.r["s0"] + s)' = m'.r["t0"] /\ m'.r["s0"] = m.r["s0"]
    BY <2>1, <1>7
  <2> QED BY <2>1, <1>4 DEF T0True, Word
<1> QED BY <1>1, <1>5, <1>8 DEF Held

LEMMA NextHeld ==
  ASSUME TypeOK, ReturnsHome, Held, [Next]_vars
  PROVE  Held'
<1>1. CASE MachineMoves
  BY <1>1, CycleHeld DEF MachineMoves
<1>2. CASE ProgramMoves \/ UNCHANGED vars
  BY <1>2 DEF ProgramMoves, vars, Held, Shape, T0True, Asms, Word
<1> QED BY <1>1, <1>2 DEF Next, Step

LEMMA HeldCache ==
  ASSUME TypeOK, Held
  PROVE  CacheTrue
<1> SUFFICES ASSUME AtBoundary, ~OffTheEnd, Asms[m.pc].op \notin {"label", "fun"}
             PROVE  LET mark == MarkOf(Top(ref), Top(ref).pc)
                    IN  /\ mark.t0 # NoSlot => Word(m.r["s0"] + mark.t0) = m.r["t0"]
                        /\ mark.t1 # NoSlot => Word(m.r["s0"] + mark.t1) = m.r["t1"]
  BY DEF CacheTrue
<1> DEFINE t == Top(ref)
           f == FnIndex(t.fn)
           mark == MarkOf(t, t.pc)
<1>1. PICK p \in DOMAIN Programs : image = Compiled(Programs[p])
  BY DEF Held
<1>2. \A g \in DOMAIN Prog : /\ IsFunction(Prog[g])
                             /\ MarksKnown(Prog[g], image.asm.marks[g], Asms)
  BY <1>1, ProgramIs DEF Asms, Prog, Compiled
<1>3. Depth \in 1..Depth
  BY DEF TypeOK
<1>4. /\ \E g \in DOMAIN Prog : Prog[g].name = t.fn
      /\ t.pc \in 1..(Len(FunctionOf(Prog, t.fn).code) + 1)
  BY <1>3 DEF TypeOK, Depth, Top
<1>5. f \in DOMAIN Prog /\ FunctionOf(Prog, t.fn) = Prog[f]
  BY <1>4 DEF FnIndex, FunctionOf
<1> HIDE DEF f
<1>6. ~(t.pc > Len(Prog[f].code))
  BY <1>5 DEF OffTheEnd
<1>7. AnySeq(Prog[f].code)
  BY <1>2, <1>5 DEF IsFunction, IsList, AnySeq
<1>8. t.pc \in DOMAIN Prog[f].code
  BY <1>4, <1>5, <1>6, <1>7, AnySeqIs
<1>9. mark = image.asm.marks[f][t.pc]
  BY DEF MarkOf, f
<1>10. mark.t1 = NoSlot /\ (mark.t0 # NoSlot => Knows(Asms, mark.at, mark.t0))
  BY <1>2, <1>5, <1>8, <1>9 DEF MarksKnown
<1>11. m.st = "run" /\ m.pc = mark.at
  BY DEF AtBoundary, From
<1> QED BY <1>10, <1>11 DEF Held, T0True

\* What the generator believes of t0 and t1 is so whenever the machine comes to the
\* code that relies on it: the loads it leaves out are not missed, in any program
\* (riscv.py:45-59).  That functions return to calls is taken from the stack's part.
THEOREM CacheHolds == Spec /\ [](TypeOK /\ ReturnsHome) => []CacheTrue
<1>1. Init => Held
  BY InitHeld
<1>2. TypeOK /\ ReturnsHome /\ Held /\ [Next]_vars => Held'
  BY NextHeld
<1>3. TypeOK /\ Held => CacheTrue
  BY HeldCache
<1> QED BY <1>1, <1>2, <1>3, PTL DEF Spec

=============================================================================
