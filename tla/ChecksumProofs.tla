---------------------------- MODULE ChecksumProofs ----------------------------
(***************************************************************************)
(* What Checksums computes, for identifiers of every length: proofs by     *)
(* induction on the number of characters read.                             *)
(***************************************************************************)
EXTENDS Checksums, WellFoundedInduction, SequenceTheorems, TLAPS

\* Induction up to a number, over a set instead of a formula.
LEMMA Climb ==
    ASSUME NEW n \in Nat, NEW T, 0 \in T,
           \A k \in 1..n : k - 1 \in T => k \in T
    PROVE  0..n \subseteq T
<1> DEFINE Out == (0..n) \ T
<1>1. SUFFICES ASSUME Out # {} PROVE FALSE
  OBVIOUS
<1>2. PICK x \in Out : \A y \in Out : ~(<<y, x>> \in OpToRel(<, Nat))
  <2>1. Out \subseteq Nat
    OBVIOUS
  <2> QED BY <1>1, <2>1, NatLessThanWellFounded, WFMin
<1>3. x \in 1..n /\ x - 1 \in (0..n) /\ x - 1 < x
  OBVIOUS
<1>4. x - 1 \in Out
  BY <1>3
<1>5. <<x - 1, x>> \in OpToRel(<, Nat)
  BY <1>3 DEF OpToRel
<1> QED BY <1>2, <1>4, <1>5

\* A computation that reads its input one character after the other exists:
\* "step" gives the result after a character, from that before it.
Follows(f, n, first, step) ==
    f[0] = first /\ \A k \in 1..n : f[k] = step[<<k, f[k - 1]>>]

LEMMA StepwiseExists ==
    ASSUME NEW n \in Nat, NEW S, NEW first \in S, NEW step \in [(1..n) \X S -> S]
    PROVE  \E f \in [0..n -> S] : Follows(f, n, first, step)
<1> DEFINE Step(f, m) == \A k \in 0..m : f[k] = IF k = 0 THEN first ELSE step[<<k, f[k - 1]>>]
           Run(m) == \E f \in [0..m -> S] : Step(f, m)
           T == {m \in 0..n : Run(m)}
<1>1. 0 \in T
  <2> DEFINE g == [k \in 0..0 |-> first]
  <2>1. g \in [0..0 -> S] /\ Step(g, 0)
    OBVIOUS
  <2> HIDE DEF g
  <2>2. Run(0)
    BY <2>1
  <2> HIDE DEF Run
  <2> QED BY <2>2
<1>2. ASSUME NEW k \in 1..n, k - 1 \in T PROVE k \in T
  <2>1. PICK f \in [0..(k - 1) -> S] : Step(f, k - 1)
    BY <1>2
  <2> DEFINE g == [j \in 0..k |-> IF j = k THEN step[<<k, f[k - 1]>>] ELSE f[j]]
  <2>2. f[k - 1] \in S /\ step[<<k, f[k - 1]>>] \in S
    <3>1. f[k - 1] \in S
      <4>1. k - 1 \in 0..(k - 1)
        OBVIOUS
      <4> QED BY <4>1
    <3>2. <<k, f[k - 1]>> \in (1..n) \X S
      BY <3>1
    <3> QED BY <3>1, <3>2
  <2>3. g \in [0..k -> S]
    <3>1. ASSUME NEW j \in 0..k PROVE (IF j = k THEN step[<<k, f[k - 1]>>] ELSE f[j]) \in S
      <4>1. j # k => j \in 0..(k - 1)
        OBVIOUS
      <4> QED BY <2>2, <4>1
    <3> QED BY <3>1
  <2>4. ASSUME NEW j \in 0..k PROVE g[j] = IF j = 0 THEN first ELSE step[<<j, g[j - 1]>>]
    <3>1. CASE j = k
      <4>1. k - 1 \in 0..k /\ k - 1 # k /\ k \in 0..k /\ k # 0
        OBVIOUS
      <4>2. g[k - 1] = f[k - 1] /\ g[k] = step[<<k, f[k - 1]>>]
        BY <4>1
      <4> QED BY <3>1, <4>1, <4>2
    <3>2. CASE j # k
      <4>1. j \in 0..(k - 1) /\ (j # 0 => j - 1 \in 0..k /\ j - 1 # k)
        BY <3>2
      <4>2. g[j] = f[j] /\ (j # 0 => g[j - 1] = f[j - 1])
        BY <3>2, <4>1
      <4>3. f[j] = IF j = 0 THEN first ELSE step[<<j, f[j - 1]>>]
        BY <4>1, <2>1
      <4> QED BY <4>2, <4>3
    <3> QED BY <3>1, <3>2
  <2> HIDE DEF g
  <2>5. Run(k)
    BY <2>3, <2>4
  <2> HIDE DEF Run
  <2> QED BY <2>5
<1>3. Run(n)
  <2> HIDE DEF Run
  <2>1. 0..n \subseteq T
    <3> HIDE DEF T
    <3> QED BY <1>1, <1>2, Climb
  <2> QED BY <2>1
<1>4. PICK f \in [0..n -> S] : Step(f, n)
  BY <1>3
<1>5. f[0] = first
  <2>1. 0 \in 0..n
    OBVIOUS
  <2> QED BY <1>4, <2>1
<1>6. \A k \in 1..n : f[k] = step[<<k, f[k - 1]>>]
  BY <1>4
<1>7. Follows(f, n, first, step)
  BY <1>5, <1>6 DEF Follows
<1> QED BY <1>7

Defines(g, n, S, first, step) ==
    /\ DOMAIN g = 0..n /\ g = [k \in DOMAIN g |-> g[k]] /\ g[0] = first
    /\ \A k \in 1..n : g[k - 1] \in S => g[k] = step[<<k, g[k - 1]>>]

\* The computation a recursive definition names is the stepwise one.
LEMMA StepwiseIs ==
    ASSUME NEW n \in Nat, NEW S, NEW first \in S, NEW step \in [(1..n) \X S -> S],
           NEW g, Defines(g, n, S, first, step)
    PROVE  g \in [0..n -> S] /\ Follows(g, n, first, step)
<1> DEFINE T == {k \in 0..n : g[k] \in S}
<1>0. /\ DOMAIN g = 0..n /\ g = [k \in DOMAIN g |-> g[k]] /\ g[0] = first
      /\ \A k \in 1..n : g[k - 1] \in S => g[k] = step[<<k, g[k - 1]>>]
  BY DEF Defines
<1>1. 0 \in T
  BY <1>0
<1>2. ASSUME NEW k \in 1..n, k - 1 \in T PROVE k \in T
  <2>1. <<k, g[k - 1]>> \in (1..n) \X S
    BY <1>2
  <2>2. step[<<k, g[k - 1]>>] \in S
    BY <2>1
  <2> QED BY <1>0, <1>2, <2>2
<1>3. 0..n \subseteq T
  <2> HIDE DEF T
  <2> QED BY <1>1, <1>2, Climb
<1>4. \A k \in 0..n : g[k] \in S
  BY <1>3
<1>5. \A k \in 1..n : g[k] = step[<<k, g[k - 1]>>]
  <2>1. \A k \in 1..n : k - 1 \in 0..n
    OBVIOUS
  <2> QED BY <1>0, <1>4, <2>1
<1> QED BY <1>0, <1>4, <1>5 DEF Follows
-----------------------------------------------------------------------------
(* What the recursive definitions compute *)

\* The running sums of a sequence of integers.
LEMMA SumsAre ==
    ASSUME NEW s \in Seq(Int)
    PROVE  /\ Sums(s) \in [0..Len(s) -> Int]
           /\ Sums(s)[0] = 0
           /\ \A k \in 1..Len(s) : Sums(s)[k] = Sums(s)[k - 1] + s[k]
<1> DEFINE n == Len(s)
           step == [p \in (1..n) \X Int |-> p[2] + s[p[1]]]
           g == Sums(s)
<1>1. n \in Nat /\ \A k \in 1..n : s[k] \in Int
  OBVIOUS
<1> HIDE DEF n
<1>2. step \in [(1..n) \X Int -> Int] /\ 0 \in Int
  BY <1>1
<1>3. \A k \in 1..n : \A x \in Int : step[<<k, x>>] = x + s[k]
  <2> SUFFICES ASSUME NEW k \in 1..n, NEW x \in Int PROVE step[<<k, x>>] = x + s[k]
    OBVIOUS
  <2>1. <<k, x>> \in (1..n) \X Int
    OBVIOUS
  <2> QED BY <2>1
<1> HIDE DEF step
<1>4. PICK f \in [0..n -> Int] : Follows(f, n, 0, step)
  BY <1>1, <1>2, StepwiseExists
<1>5. f = [k \in 0..n |-> IF k = 0 THEN 0 ELSE f[k - 1] + s[k]]
  <2>1. \A k \in 1..n : k - 1 \in 0..n
    BY <1>1
  <2>2. \A k \in 1..n : f[k] = f[k - 1] + s[k]
    BY <1>3, <1>4, <2>1 DEF Follows
  <2>3. ASSUME NEW k \in 0..n PROVE f[k] = IF k = 0 THEN 0 ELSE f[k - 1] + s[k]
    <3>1. k # 0 => k \in 1..n
      BY <1>1
    <3>2. f[0] = 0
      BY <1>4 DEF Follows
    <3> QED BY <2>2, <3>1, <3>2
  <2> QED BY <2>3
<1>6. g = [k \in 0..n |-> IF k = 0 THEN 0 ELSE g[k - 1] + s[k]]
  BY <1>5 DEF Sums, n
<1> HIDE DEF g
<1>7. DOMAIN g = 0..n /\ g = [k \in DOMAIN g |-> g[k]] /\ g[0] = 0
  BY <1>1, <1>6
<1>8. ASSUME NEW k \in 1..n PROVE g[k] = g[k - 1] + s[k]
  <2>1. k \in 0..n /\ k # 0
    BY <1>1
  <2> QED BY <1>6, <2>1
<1>9. ASSUME NEW k \in 1..n, g[k - 1] \in Int PROVE g[k] = step[<<k, g[k - 1]>>]
  <2>1. step[<<k, g[k - 1]>>] = g[k - 1] + s[k]
    BY <1>3, <1>9
  <2> QED BY <1>8, <2>1
<1>10. g \in [0..n -> Int]
  <2>1. Defines(g, n, Int, 0, step)
    BY <1>7, <1>9 DEF Defines
  <2> QED BY <1>1, <1>2, <2>1, StepwiseIs
<1> QED BY <1>7, <1>8, <1>10 DEF n, g

LEMMA Rest ==
    ASSUME NEW x \in Int
    PROVE  x % 97 \in 0..96
OBVIOUS

\* The running remainders of the number a sequence of digits spells.
LEMMA RemaindersAre ==
    ASSUME NEW d \in Seq(0..9)
    PROVE  /\ Remainders(d) \in [0..Len(d) -> (0..96)]
           /\ Remainders(d)[0] = 0
           /\ \A k \in 1..Len(d) : Remainders(d)[k] = (10 * Remainders(d)[k - 1] + d[k]) % 97
<1> DEFINE n == Len(d)
           step == [p \in (1..n) \X (0..96) |-> (10 * p[2] + d[p[1]]) % 97]
           g == Remainders(d)
<1>1. n \in Nat /\ \A k \in 1..n : d[k] \in 0..9
  OBVIOUS
<1> HIDE DEF n
<1>2. step \in [(1..n) \X (0..96) -> (0..96)] /\ 0 \in (0..96)
  <2>1. ASSUME NEW p \in (1..n) \X (0..96) PROVE (10 * p[2] + d[p[1]]) % 97 \in 0..96
    <3>1. p[2] \in 0..96 /\ d[p[1]] \in 0..9
      BY <1>1
    <3>2. \A x \in 0..96, y \in 0..9 : 10 * x + y \in Int
      OBVIOUS
    <3>3. 10 * p[2] + d[p[1]] \in Int
      BY <3>1, <3>2
    <3> QED BY <3>3, Rest
  <2> QED BY <2>1
<1>3. \A k \in 1..n : \A x \in (0..96) : step[<<k, x>>] = (10 * x + d[k]) % 97
  <2> SUFFICES ASSUME NEW k \in 1..n, NEW x \in (0..96) PROVE step[<<k, x>>] = (10 * x + d[k]) % 97
    OBVIOUS
  <2>1. <<k, x>> \in (1..n) \X (0..96)
    OBVIOUS
  <2> QED BY <2>1
<1> HIDE DEF step
<1>4. PICK f \in [0..n -> (0..96)] : Follows(f, n, 0, step)
  BY <1>1, <1>2, StepwiseExists
<1>5. f = [k \in 0..n |-> IF k = 0 THEN 0 ELSE (10 * f[k - 1] + d[k]) % 97]
  <2>1. \A k \in 1..n : k - 1 \in 0..n
    BY <1>1
  <2>2. \A k \in 1..n : f[k] = (10 * f[k - 1] + d[k]) % 97
    BY <1>3, <1>4, <2>1 DEF Follows
  <2>3. ASSUME NEW k \in 0..n PROVE f[k] = IF k = 0 THEN 0 ELSE (10 * f[k - 1] + d[k]) % 97
    <3>1. k # 0 => k \in 1..n
      BY <1>1
    <3>2. f[0] = 0
      BY <1>4 DEF Follows
    <3> QED BY <2>2, <3>1, <3>2
  <2> QED BY <2>3
<1>6. g = [k \in 0..n |-> IF k = 0 THEN 0 ELSE (10 * g[k - 1] + d[k]) % 97]
  BY <1>5 DEF Remainders, n
<1> HIDE DEF g
<1>7. DOMAIN g = 0..n /\ g = [k \in DOMAIN g |-> g[k]] /\ g[0] = 0
  BY <1>1, <1>6
<1>8. ASSUME NEW k \in 1..n PROVE g[k] = (10 * g[k - 1] + d[k]) % 97
  <2>1. k \in 0..n /\ k # 0
    BY <1>1
  <2> QED BY <1>6, <2>1
<1>9. ASSUME NEW k \in 1..n, g[k - 1] \in (0..96) PROVE g[k] = step[<<k, g[k - 1]>>]
  <2>1. step[<<k, g[k - 1]>>] = (10 * g[k - 1] + d[k]) % 97
    BY <1>3, <1>9
  <2> QED BY <1>8, <2>1
<1>10. g \in [0..n -> (0..96)]
  <2>1. Defines(g, n, (0..96), 0, step)
    BY <1>7, <1>9 DEF Defines
  <2> QED BY <1>1, <1>2, <2>1, StepwiseIs
<1> QED BY <1>7, <1>8, <1>10 DEF n, g

LEMMA DecimalIs ==
    ASSUME NEW c \in 0..35
    PROVE  Decimal(c) \in Seq(0..9) /\ (c < 10 => Decimal(c) = <<c>>) /\ Len(Decimal(c)) \in 1..2
<1>1. c \div 10 \in 0..3 /\ c % 10 \in 0..9
  OBVIOUS
<1>2. CASE c < 10
  <2>1. c \in 0..9
    BY <1>2
  <2>2. <<c>> \in Seq(0..9) /\ Len(<<c>>) = 1
    BY <2>1
  <2> QED BY <1>2, <2>2 DEF Decimal
<1>3. CASE ~(c < 10)
  <2> DEFINE a == c \div 10
             b == c % 10
  <2>1. a \in 0..9 /\ b \in 0..9
    BY <1>1
  <2> HIDE DEF a, b
  <2>2. <<a, b>> \in Seq(0..9) /\ Len(<<a, b>>) = 2
    BY <2>1
  <2> QED BY <1>3, <2>2 DEF Decimal, a, b
<1> QED BY <1>2, <1>3

\* The spellings of the beginnings of an identifier.
LEMMA SpellingsAre ==
    ASSUME NEW cs \in Seq(0..35)
    PROVE  /\ Spellings(cs) \in [0..Len(cs) -> Seq(0..9)]
           /\ Spellings(cs)[0] = <<>>
           /\ \A k \in 1..Len(cs) : Spellings(cs)[k] = Spellings(cs)[k - 1] \o Decimal(cs[k])
<1> DEFINE n == Len(cs)
           step == [p \in (1..n) \X Seq(0..9) |-> p[2] \o Decimal(cs[p[1]])]
           g == Spellings(cs)
<1>1. n \in Nat /\ \A k \in 1..n : cs[k] \in 0..35
  BY LenProperties, ElementOfSeq
<1> HIDE DEF n
<1>2. step \in [(1..n) \X Seq(0..9) -> Seq(0..9)] /\ <<>> \in Seq(0..9)
  <2>1. ASSUME NEW p \in (1..n) \X Seq(0..9) PROVE p[2] \o Decimal(cs[p[1]]) \in Seq(0..9)
    <3>1. p[2] \in Seq(0..9) /\ Decimal(cs[p[1]]) \in Seq(0..9)
      BY <1>1, DecimalIs
    <3> QED BY <3>1
  <2>2. <<>> \in Seq(0..9)
    OBVIOUS
  <2> QED BY <2>1, <2>2
<1>3. \A k \in 1..n : \A x \in Seq(0..9) : step[<<k, x>>] = x \o Decimal(cs[k])
  <2> SUFFICES ASSUME NEW k \in 1..n, NEW x \in Seq(0..9) PROVE step[<<k, x>>] = x \o Decimal(cs[k])
    OBVIOUS
  <2>1. <<k, x>> \in (1..n) \X Seq(0..9)
    OBVIOUS
  <2> QED BY <2>1
<1> HIDE DEF step
<1>4. PICK f \in [0..n -> Seq(0..9)] : Follows(f, n, <<>>, step)
  BY <1>1, <1>2, StepwiseExists
<1>5. f = [k \in 0..n |-> IF k = 0 THEN <<>> ELSE f[k - 1] \o Decimal(cs[k])]
  <2>1. \A k \in 1..n : k - 1 \in 0..n
    BY <1>1
  <2>2. \A k \in 1..n : f[k] = f[k - 1] \o Decimal(cs[k])
    BY <1>3, <1>4, <2>1 DEF Follows
  <2>3. ASSUME NEW k \in 0..n PROVE f[k] = IF k = 0 THEN <<>> ELSE f[k - 1] \o Decimal(cs[k])
    <3>1. k # 0 => k \in 1..n
      BY <1>1
    <3>2. f[0] = <<>>
      BY <1>4 DEF Follows
    <3> QED BY <2>2, <3>1, <3>2
  <2> QED BY <2>3
<1>6. g = [k \in 0..n |-> IF k = 0 THEN <<>> ELSE g[k - 1] \o Decimal(cs[k])]
  BY <1>5 DEF Spellings, n
<1> HIDE DEF g
<1>7. DOMAIN g = 0..n /\ g = [k \in DOMAIN g |-> g[k]] /\ g[0] = <<>>
  BY <1>1, <1>6
<1>8. ASSUME NEW k \in 1..n PROVE g[k] = g[k - 1] \o Decimal(cs[k])
  <2>1. k \in 0..n /\ k # 0
    BY <1>1
  <2> QED BY <1>6, <2>1
<1>9. ASSUME NEW k \in 1..n, g[k - 1] \in Seq(0..9) PROVE g[k] = step[<<k, g[k - 1]>>]
  <2>1. step[<<k, g[k - 1]>>] = g[k - 1] \o Decimal(cs[k])
    BY <1>3, <1>9
  <2> QED BY <1>8, <2>1
<1>10. g \in [0..n -> Seq(0..9)]
  <2>1. Defines(g, n, Seq(0..9), <<>>, step)
    BY <1>7, <1>9 DEF Defines
  <2> QED BY <1>1, <1>2, <2>1, StepwiseIs
<1> QED BY <1>7, <1>8, <1>10 DEF n, g
-----------------------------------------------------------------------------
(* One term of a sum *)

\* Sequences of one length that differ in one place at most.
Alike(s, t, i) == Len(t) = Len(s) /\ \A k \in 1..Len(s) : k # i => t[k] = s[k]

LEMMA OneTermOff ==
    ASSUME NEW s \in Seq(Int), NEW t \in Seq(Int), NEW i \in 1..Len(s), Alike(s, t, i)
    PROVE  SumOf(s) \in Int /\ SumOf(t) = SumOf(s) + t[i] - s[i]
<1> DEFINE n == Len(s)
           T == {k \in 0..n : Sums(t)[k] = Sums(s)[k] + (IF k < i THEN 0 ELSE t[i] - s[i])}
<1>1. n \in Nat /\ Len(t) = n /\ i \in 1..n
  BY DEF Alike
<1>2. \A k \in 1..n : s[k] \in Int /\ t[k] \in Int /\ (k # i => t[k] = s[k])
  BY <1>1 DEF Alike
<1>3. /\ Sums(s) \in [0..n -> Int] /\ Sums(s)[0] = 0
      /\ \A k \in 1..n : Sums(s)[k] = Sums(s)[k - 1] + s[k]
  BY SumsAre
<1>4. /\ Sums(t) \in [0..n -> Int] /\ Sums(t)[0] = 0
      /\ \A k \in 1..n : Sums(t)[k] = Sums(t)[k - 1] + t[k]
  BY <1>1, SumsAre
<1> HIDE DEF n
<1>5. 0 \in T
  BY <1>1, <1>3, <1>4
<1>6. ASSUME NEW k \in 1..n, k - 1 \in T PROVE k \in T
  <2>1. k - 1 \in 0..n /\ k \in 0..n
    BY <1>1
  <2>2. Sums(s)[k - 1] \in Int /\ Sums(t)[k - 1] \in Int /\ s[k] \in Int /\ t[k] \in Int
        /\ s[i] \in Int /\ t[i] \in Int
    BY <1>1, <1>2, <1>3, <1>4, <2>1
  <2>3. Sums(t)[k - 1] = Sums(s)[k - 1] + (IF k - 1 < i THEN 0 ELSE t[i] - s[i])
    BY <1>6
  <2>4. Sums(s)[k] = Sums(s)[k - 1] + s[k] /\ Sums(t)[k] = Sums(t)[k - 1] + t[k]
    BY <1>3, <1>4
  <2>5. Sums(t)[k] = Sums(s)[k] + (IF k < i THEN 0 ELSE t[i] - s[i])
    <3>1. CASE k < i
      BY <1>1, <1>2, <2>2, <2>3, <2>4, <3>1
    <3>2. CASE k = i
      BY <1>1, <1>2, <2>2, <2>3, <2>4, <3>2
    <3>3. CASE k > i
      <4>1. ~(k < i) /\ ~(k - 1 < i) /\ t[k] = s[k]
        BY <1>1, <1>2, <3>3
      <4>2. Sums(t)[k - 1] = Sums(s)[k - 1] + (t[i] - s[i])
        BY <2>3, <4>1
      <4>3. Sums(t)[k] = Sums(s)[k] + (t[i] - s[i])
        <5>1. Sums(t)[k] = (Sums(s)[k - 1] + (t[i] - s[i])) + s[k]
          BY <2>4, <4>1, <4>2
        <5>2. \A x, y, z \in Int : (x + y) + z = (x + z) + y
          OBVIOUS
        <5>3. t[i] - s[i] \in Int
          BY <2>2
        <5> QED BY <2>2, <2>4, <5>1, <5>2, <5>3
      <4> QED BY <4>1, <4>3
    <3> QED BY <1>1, <3>1, <3>2, <3>3
  <2> QED BY <2>1, <2>5
<1>7. n \in T
  <2> HIDE DEF T
  <2>1. 0..n \subseteq T
    BY <1>1, <1>5, <1>6, Climb
  <2> QED BY <1>1, <2>1
<1>8. Sums(t)[n] = Sums(s)[n] + t[i] - s[i] /\ Sums(s)[n] \in Int
  BY <1>1, <1>2, <1>3, <1>7
<1> QED BY <1>1, <1>8 DEF SumOf, n

LEMMA AFewTerms ==
    ASSUME NEW n \in Nat, NEW u, u = [k \in 1..n |-> u[k]], \A k \in 1..n : u[k] \in Int
    PROVE  u \in Seq(Int) /\ Len(u) = n
OBVIOUS

\* Terms that are not congruent leave another remainder.
LEMMA AnotherRest10 ==
    ASSUME NEW x \in Int, NEW a \in Int, NEW b \in Int, (a - b) % 10 # 0,
           NEW y, y = x + a - b
    PROVE  y % 10 # x % 10
OBVIOUS

LEMMA AnotherRest11 ==
    ASSUME NEW x \in Int, NEW a \in Int, NEW b \in Int, (a - b) % 11 # 0,
           NEW y, y = x + a - b
    PROVE  y % 11 # x % 11
OBVIOUS

LEMMA DigitsDiffer ==
    ASSUME NEW a \in 0..9, NEW b \in 0..9, a # b
    PROVE  (a - b) % 10 # 0 /\ (a - b) % 11 # 0
OBVIOUS
-----------------------------------------------------------------------------
(* The routes that sum digits *)

LEMMA WeighedIs ==
    ASSUME NEW d \in Seq(0..9), NEW k \in 1..Len(d)
    PROVE  /\ Weighed(d, k) \in 0..9
           /\ Weighed(d, k) = IF (Len(d) - k) % 2 = 0 THEN d[k]
                              ELSE IF d[k] < 5 THEN 2 * d[k] ELSE 2 * d[k] - 9
<1>1. d[k] \in 0..9 /\ (Len(d) - k) % 2 \in 0..1
  OBVIOUS
<1> QED BY <1>1 DEF Weighed

\* One digit is mistyped (luhn_valid).
LEMMA LuhnCatches ==
    ASSUME NEW d \in Seq(0..9), NEW i \in 1..Len(d), NEW c \in 0..9, c # d[i], LuhnValid(d)
    PROVE  ~LuhnValid([d EXCEPT ![i] = c])
<1> DEFINE t == [d EXCEPT ![i] = c]
           u == [k \in 1..Len(d) |-> Weighed(d, k)]
           v == [k \in 1..Len(t) |-> Weighed(t, k)]
<1>1. t \in Seq(0..9) /\ Len(t) = Len(d) /\ t[i] = c /\ \A k \in 1..Len(d) : k # i => t[k] = d[k]
  OBVIOUS
<1> HIDE DEF t
<1>2. ASSUME NEW k \in 1..Len(d)
      PROVE  /\ u[k] = Weighed(d, k) /\ v[k] = Weighed(t, k) /\ u[k] \in 0..9 /\ v[k] \in 0..9
             /\ k # i => v[k] = u[k]
  <2>1. u[k] = Weighed(d, k) /\ v[k] = Weighed(t, k)
    BY <1>1
  <2>2. k \in 1..Len(t)
    BY <1>1
  <2>3. Weighed(d, k) \in 0..9 /\ Weighed(t, k) \in 0..9
    BY <1>1, <2>2, WeighedIs
  <2>4. k # i => Weighed(t, k) = Weighed(d, k)
    BY <1>1 DEF Weighed
  <2> QED BY <2>1, <2>3, <2>4
<1>3. u \in Seq(Int) /\ v \in Seq(Int) /\ Len(u) = Len(d) /\ Len(v) = Len(d)
  <2>1. u = [k \in 1..Len(d) |-> u[k]] /\ v = [k \in 1..Len(d) |-> v[k]]
    BY <1>1
  <2> HIDE DEF u, v
  <2>2. \A k \in 1..Len(d) : u[k] \in Int /\ v[k] \in Int
    BY <1>2
  <2>3. Len(d) \in Nat
    OBVIOUS
  <2> QED BY <2>1, <2>2, <2>3, AFewTerms
<1>4. u[i] \in 0..9 /\ v[i] \in 0..9 /\ u[i] # v[i]
  <2>1. Weighed(d, i) = IF (Len(d) - i) % 2 = 0 THEN d[i]
                        ELSE IF d[i] < 5 THEN 2 * d[i] ELSE 2 * d[i] - 9
    BY WeighedIs
  <2>2. Weighed(t, i) = IF (Len(d) - i) % 2 = 0 THEN c
                        ELSE IF c < 5 THEN 2 * c ELSE 2 * c - 9
    BY <1>1, WeighedIs
  <2>3. d[i] \in 0..9
    OBVIOUS
  <2>4. Weighed(d, i) # Weighed(t, i)
    BY <2>1, <2>2, <2>3
  <2> QED BY <1>2, <2>4
<1> HIDE DEF u, v
<1>5. SumOf(u) \in Int /\ SumOf(v) = SumOf(u) + v[i] - u[i]
  <2>1. Alike(u, v, i)
    BY <1>2, <1>3 DEF Alike
  <2> QED BY <1>3, <2>1, OneTermOff
<1>6. SumOf(v) % 10 # SumOf(u) % 10
  <2>1. (v[i] - u[i]) % 10 # 0
    BY <1>4, DigitsDiffer
  <2>2. v[i] \in Int /\ u[i] \in Int
    BY <1>4
  <2> QED BY <1>5, <2>1, <2>2, AnotherRest10
<1> QED BY <1>6 DEF LuhnValid, u, v, t

\* Terms of two sums, the same but for one.
OneOff(u, v, n, i) ==
    /\ u = [k \in 1..n |-> u[k]] /\ v = [k \in 1..n |-> v[k]]
    /\ \A k \in 1..n : u[k] \in Int /\ v[k] \in Int /\ (k # i => v[k] = u[k])

LEMMA TermOff ==
    ASSUME NEW n \in Nat, NEW i \in 1..n, NEW u, NEW v, OneOff(u, v, n, i)
    PROVE  SumOf(u) \in Int /\ SumOf(v) = SumOf(u) + v[i] - u[i]
<1>1. u \in Seq(Int) /\ Len(u) = n /\ v \in Seq(Int) /\ Len(v) = n
  BY AFewTerms DEF OneOff
<1>2. Alike(u, v, i)
  BY <1>1 DEF Alike, OneOff
<1> QED BY <1>1, <1>2, OneTermOff

LEMMA TermTells10 ==
    ASSUME NEW n \in Nat, NEW i \in 1..n, NEW u, NEW v, OneOff(u, v, n, i), (v[i] - u[i]) % 10 # 0
    PROVE  SumOf(u) \in Int /\ SumOf(v) \in Int /\ SumOf(v) % 10 # SumOf(u) % 10
<1>1. SumOf(u) \in Int /\ SumOf(v) = SumOf(u) + v[i] - u[i]
  BY TermOff
<1>2. u[i] \in Int /\ v[i] \in Int
  BY DEF OneOff
<1>3. SumOf(v) \in Int
  BY <1>1, <1>2
<1> QED BY <1>1, <1>2, <1>3, AnotherRest10

LEMMA TermTells11 ==
    ASSUME NEW n \in Nat, NEW i \in 1..n, NEW u, NEW v, OneOff(u, v, n, i), (v[i] - u[i]) % 11 # 0
    PROVE  SumOf(u) \in Int /\ SumOf(v) \in Int /\ SumOf(v) % 11 # SumOf(u) % 11
<1>1. SumOf(u) \in Int /\ SumOf(v) = SumOf(u) + v[i] - u[i]
  BY TermOff
<1>2. u[i] \in Int /\ v[i] \in Int
  BY DEF OneOff
<1>3. SumOf(v) \in Int
  BY <1>1, <1>2
<1> QED BY <1>1, <1>2, <1>3, AnotherRest11

\* A weight prime to the modulus keeps digits apart.
LEMMA Weight10 ==
    ASSUME NEW a \in 0..9, NEW b \in 0..9, a # b, NEW w \in {1, 3, 7}
    PROVE  (a * w - b * w) % 10 # 0
<1>1. CASE w = 1
  BY <1>1
<1>2. CASE w = 3
  BY <1>2
<1>3. CASE w = 7
  BY <1>3
<1> QED BY <1>1, <1>2, <1>3

LEMMA Weight11 ==
    ASSUME NEW a \in 0..9, NEW b \in 0..9, a # b, NEW w \in 1..10
    PROVE  (a * w - b * w) % 11 # 0
<1>1. CASE w = 1
  BY <1>1
<1>2. CASE w = 2
  BY <1>2
<1>3. CASE w = 3
  BY <1>3
<1>4. CASE w = 4
  BY <1>4
<1>5. CASE w = 5
  BY <1>5
<1>6. CASE w = 6
  BY <1>6
<1>7. CASE w = 7
  BY <1>7
<1>8. CASE w = 8
  BY <1>8
<1>9. CASE w = 9
  BY <1>9
<1>10. CASE w = 10
  BY <1>10
<1> QED BY <1>1, <1>2, <1>3, <1>4, <1>5, <1>6, <1>7, <1>8, <1>9, <1>10

\* What a mistyped digit makes of a code.
Typo(s, i, c) == [s EXCEPT ![i] = c]

IsTypo(s, t, n, i, c) ==
    /\ t \in Seq(0..35) /\ Len(t) = n /\ t[i] = c
    /\ \A k \in 1..n : s[k] \in 0..35 /\ t[k] \in 0..35 /\ (k # i => t[k] = s[k])

LEMMA Mistyped ==
    ASSUME NEW s \in Seq(0..35), NEW i \in 1..Len(s), NEW c \in 0..9
    PROVE  IsTypo(s, Typo(s, i, c), Len(s), i, c)
<1> DEFINE t == Typo(s, i, c)
<1>1. t \in Seq(0..35) /\ Len(t) = Len(s) /\ t[i] = c /\ \A k \in 1..Len(s) : k # i => t[k] = s[k]
  BY DEF Typo
<1>2. \A k \in 1..Len(s) : s[k] \in 0..35 /\ t[k] \in 0..35
  <2> HIDE DEF t
  <2> QED BY <1>1, ElementOfSeq
<1> QED BY <1>1, <1>2 DEF IsTypo

\* The digits of two codes that count, the same but for one.
OneDigitOff(s, t, n, i) ==
    /\ \A k \in 1..n : s[k] \in 0..9 /\ t[k] \in 0..9 /\ (k # i => t[k] = s[k])
    /\ t[i] # s[i]
Products(s, w, n) == [k \in 1..n |-> s[k] * w[k]]

\* A weighted sum modulo ten tells one digit from another.
LEMMA SumTells10 ==
    ASSUME NEW n \in Nat, NEW w \in [1..n -> {1, 3, 7}], NEW s, NEW t, NEW i \in 1..n,
           OneDigitOff(s, t, n, i)
    PROVE  LET x == SumOf(Products(s, w, n))
               y == SumOf(Products(t, w, n))
           IN  x \in Int /\ y \in Int /\ y % 10 # x % 10
<1> DEFINE u == Products(s, w, n)
           v == Products(t, w, n)
<1>0. /\ u = [k \in 1..n |-> s[k] * w[k]] /\ v = [k \in 1..n |-> t[k] * w[k]]
      /\ \A k \in 1..n : s[k] \in 0..9 /\ t[k] \in 0..9 /\ (k # i => t[k] = s[k])
      /\ t[i] # s[i]
  BY DEF Products, OneDigitOff
<1> HIDE DEF u, v
<1>1. ASSUME NEW k \in 1..n
      PROVE  /\ u[k] = s[k] * w[k] /\ v[k] = t[k] * w[k] /\ w[k] \in {1, 3, 7}
             /\ u[k] \in Int /\ v[k] \in Int /\ (k # i => v[k] = u[k])
  <2>1. w[k] \in {1, 3, 7} /\ s[k] \in Int /\ t[k] \in Int
    BY <1>0
  <2>2. w[k] \in Int
    BY <2>1
  <2>3. s[k] * w[k] \in Int /\ t[k] * w[k] \in Int
    BY <2>1, <2>2
  <2> QED BY <1>0, <2>1, <2>3
<1>2. u = [k \in 1..n |-> u[k]] /\ v = [k \in 1..n |-> v[k]]
  BY <1>0
<1>3. OneOff(u, v, n, i)
  BY <1>1, <1>2 DEF OneOff
<1>4. (v[i] - u[i]) % 10 # 0
  BY <1>0, <1>1, Weight10
<1>5. SumOf(u) \in Int /\ SumOf(v) \in Int /\ SumOf(v) % 10 # SumOf(u) % 10
  BY <1>3, <1>4, TermTells10
<1> QED BY <1>5 DEF u, v

LEMMA AcceptsPaid ==
    ASSUME NEW b \in BOOLEAN
    PROVE  Accepts(Paid(b)) <=> b
BY DEF Accepts, Paid

LEMMA RefusedIsNot ==
    ASSUME NEW r
    PROVE  ~Accepts(Refused(r))
BY DEF Accepts, Refused

\* compute_routing
LEMMA RoutingCatches ==
    ASSUME NEW c, NEW e, NEW i \in 1..9, NEW d \in 0..9, c.code \in Seq(0..9), Len(c.code) = 9,
           e.code = [c.code EXCEPT ![i] = d], d # c.code[i], Accepts(Routing(c))
    PROVE  ~Accepts(Routing(e))
<1> DEFINE s == c.code
           t == e.code
<1>1. RoutingWeights \in [1..9 -> {1, 3, 7}]
  <2>1. \A k \in 1..9 : RoutingWeights[k] \in {1, 3, 7}
    BY DEF RoutingWeights
  <2>2. RoutingWeights = [k \in 1..9 |-> RoutingWeights[k]]
    BY DEF RoutingWeights
  <2> QED BY <2>1, <2>2
<1>2. OneDigitOff(s, t, 9, i)
  BY DEF OneDigitOff
<1>3. SumOf(Products(t, RoutingWeights, 9)) % 10 # SumOf(Products(s, RoutingWeights, 9)) % 10
  BY <1>1, <1>2, SumTells10
<1>4. SumOf(Products(s, RoutingWeights, 9)) % 10 = 0
  BY AcceptsPaid DEF Routing, Products
<1>5. SumOf(Products(t, RoutingWeights, 9)) % 10 # 0
  BY <1>3, <1>4
<1> QED BY <1>5, AcceptsPaid DEF Routing, Products

\* The check digit that a sum modulo ten asks for.
CheckDigit(x) == (10 - (x % 10)) % 10

LEMMA CheckDigitsDiffer ==
    ASSUME NEW x \in Int, NEW y \in Int, y % 10 # x % 10
    PROVE  CheckDigit(y) # CheckDigit(x)
<1>1. x % 10 \in 0..9 /\ y % 10 \in 0..9
  OBVIOUS
<1>2. ASSUME NEW a \in 0..9, NEW b \in 0..9, a # b PROVE (10 - a) % 10 # (10 - b) % 10
  BY <1>2
<1> QED BY <1>1, <1>2 DEF CheckDigit

LEMMA CheckDigitTells ==
    ASSUME NEW n \in Nat, NEW w \in [1..n -> {1, 3, 7}], NEW s, NEW t, NEW i \in 1..(n + 1),
           OneDigitOff(s, t, n + 1, i), CheckDigit(SumOf(Products(s, w, n))) = s[n + 1]
    PROVE  CheckDigit(SumOf(Products(t, w, n))) # t[n + 1]
<1> DEFINE x == SumOf(Products(s, w, n))
           y == SumOf(Products(t, w, n))
<1>1. CASE i = n + 1
  <2>1. \A k \in 1..n : t[k] = s[k]
    BY <1>1 DEF OneDigitOff
  <2>2. Products(t, w, n) = Products(s, w, n)
    BY <2>1 DEF Products
  <2>3. t[n + 1] # s[n + 1]
    BY <1>1 DEF OneDigitOff
  <2> QED BY <2>2, <2>3
<1>2. CASE i # n + 1
  <2>1. i \in 1..n
    BY <1>2
  <2>2. OneDigitOff(s, t, n, i)
    BY DEF OneDigitOff
  <2>3. x \in Int /\ y \in Int /\ y % 10 # x % 10
    BY <2>1, <2>2, SumTells10
  <2>4. t[n + 1] = s[n + 1]
    BY <1>2 DEF OneDigitOff
  <2> HIDE DEF x, y
  <2>5. CheckDigit(y) # CheckDigit(x)
    BY <2>3, CheckDigitsDiffer
  <2> QED BY <2>4, <2>5 DEF x, y
<1> QED BY <1>1, <1>2

\* compute_ean
LEMMA EanCatches ==
    ASSUME NEW c, NEW e, c.code \in Seq(0..9), Len(c.code) \in {8, 13},
           NEW i \in 1..Len(c.code), NEW d \in 0..9,
           e.code = [c.code EXCEPT ![i] = d], d # c.code[i], Accepts(Ean(c))
    PROVE  ~Accepts(Ean(e))
<1> DEFINE s == c.code
           t == e.code
           n == Len(s) - 1
           w == [k \in 1..n |-> IF (k - 1) % 2 = (n - 1) % 2 THEN 3 ELSE 1]
<1>1. n \in Nat /\ i \in 1..(n + 1) /\ Len(t) = Len(s) /\ w \in [1..n -> {1, 3, 7}]
  OBVIOUS
<1>2. OneDigitOff(s, t, n + 1, i)
  BY DEF OneDigitOff
<1>3. \A k \in 1..n : w[k] = IF (k - 1) % 2 = (n - 1) % 2 THEN 3 ELSE 1
  OBVIOUS
<1>4. Ean(c) = Paid(CheckDigit(SumOf(Products(s, w, n))) = s[n + 1])
  BY <1>3 DEF Ean, CheckDigit, Products
<1>5. Ean(e) = Paid(CheckDigit(SumOf(Products(t, w, n))) = t[n + 1])
  BY <1>1, <1>3 DEF Ean, CheckDigit, Products
<1> HIDE DEF s, t, n, w
<1>6. CheckDigit(SumOf(Products(s, w, n))) = s[n + 1]
  BY <1>4, AcceptsPaid
<1>7. CheckDigit(SumOf(Products(t, w, n))) # t[n + 1]
  BY <1>1, <1>2, <1>6, CheckDigitTells
<1> QED BY <1>5, <1>7, AcceptsPaid

LEMMA ADigit ==
    ASSUME NEW x \in 0..35
    PROVE  /\ x > 9 <=> x \notin 0..9
           /\ x = X => x \notin 0..9
BY DEF X

\* compute_isbn, thirteen digits
LEMMA Isbn13Catches ==
    ASSUME NEW s \in Seq(0..35), Len(s) = 13, NEW i \in 1..13, NEW d \in 0..9, d # s[i],
           Accepts(Isbn13(s))
    PROVE  ~Accepts(Isbn13(Typo(s, i, d)))
<1> DEFINE t == Typo(s, i, d)
           w == [k \in 1..12 |-> IF k % 2 = 1 THEN 1 ELSE 3]
<1>1. w \in [1..12 -> {1, 3, 7}]
  OBVIOUS
<1>2. \A k \in 1..12 : w[k] = IF k % 2 = 1 THEN 1 ELSE 3
  OBVIOUS
<1>3. \A k \in 1..13 : s[k] \in 0..9
  <2>1. CASE \E k \in 1..13 : s[k] > 9
    BY <2>1, RefusedIsNot DEF Isbn13
  <2>2. CASE ~\E k \in 1..13 : s[k] > 9
    <3>1. \A k \in 1..13 : s[k] \in 0..35
      BY ElementOfSeq
    <3> QED BY <2>2, <3>1, ADigit
  <2> QED BY <2>1, <2>2
<1>4. t[i] = d /\ \A k \in 1..13 : k # i => t[k] = s[k]
  <2>1. i \in 1..Len(s)
    OBVIOUS
  <2>2. IsTypo(s, t, Len(s), i, d)
    BY <2>1, Mistyped
  <2> QED BY <2>2 DEF IsTypo
<1>5. t[i] # s[i]
  BY <1>4
<1> HIDE DEF t, w
<1>6. OneDigitOff(s, t, 13, i)
  BY <1>3, <1>4, <1>5 DEF OneDigitOff
<1>7. ASSUME NEW r, \A k \in 1..13 : r[k] \in 0..9
      PROVE  Isbn13(r) = Paid(CheckDigit(SumOf(Products(r, w, 12))) = r[13])
  <2>1. ~\E k \in 1..13 : r[k] > 9
    <3>1. \A x \in 0..9 : ~(x > 9)
      OBVIOUS
    <3> QED BY <1>7, <3>1
  <2>2. [k \in 1..12 |-> r[k] * (IF k % 2 = 1 THEN 1 ELSE 3)] = Products(r, w, 12)
    BY <1>2 DEF Products
  <2> QED BY <2>1, <2>2 DEF Isbn13, CheckDigit
<1>8. CheckDigit(SumOf(Products(s, w, 12))) = s[13]
  BY <1>3, <1>7, AcceptsPaid
<1>9. CheckDigit(SumOf(Products(t, w, 12))) # t[13]
  <2>1. 12 + 1 = 13
    OBVIOUS
  <2> QED BY <1>1, <1>6, <1>8, <2>1, CheckDigitTells
<1>10. \A k \in 1..13 : t[k] \in 0..9
  BY <1>6 DEF OneDigitOff
<1>11. Isbn13(t) = Paid(FALSE)
  BY <1>7, <1>9, <1>10
<1> QED BY <1>11, AcceptsPaid DEF t

\* Ten characters, the last of which may be an X.
IsIsbn10(s) == Len(s) = 10 /\ \A k \in 1..10 : s[k] \in 0..9 \/ (k = 10 /\ s[k] = X)
Terms10(s) == [k \in 1..10 |-> k * (IF s[k] = X THEN 10 ELSE s[k])]

LEMMA Isbn10Reads ==
    ASSUME NEW s \in Seq(0..35), Len(s) = 10
    PROVE  /\ Accepts(Isbn10(s)) => IsIsbn10(s)
           /\ IsIsbn10(s) => (Accepts(Isbn10(s)) <=> SumOf(Terms10(s)) % 11 = 0)
<1> DEFINE bad == \E k \in 1..10 : s[k] > 9 /\ ~(k = 10 /\ s[k] = X)
<1>0. \A k \in 1..10 : s[k] \in 0..35
  BY ElementOfSeq
<1>1. ASSUME bad PROVE ~Accepts(Isbn10(s)) /\ ~IsIsbn10(s)
  <2>1. Isbn10(s) = Refused("invalid_format")
    BY <1>1 DEF Isbn10
  <2>2. ~IsIsbn10(s)
    BY <1>0, <1>1, ADigit DEF IsIsbn10
  <2> QED BY <2>1, <2>2, RefusedIsNot
<1>2. ASSUME ~bad PROVE IsIsbn10(s) /\ Isbn10(s) = Paid(SumOf(Terms10(s)) % 11 = 0)
  <2>1. Isbn10(s) = Paid(SumOf(Terms10(s)) % 11 = 0)
    BY <1>2 DEF Isbn10, Terms10
  <2>2. IsIsbn10(s)
    BY <1>0, <1>2, ADigit DEF IsIsbn10
  <2> QED BY <2>1, <2>2
<1> QED BY <1>1, <1>2, AcceptsPaid

Typo10(s, t, i) ==
    /\ IsIsbn10(s) /\ IsIsbn10(t) /\ s[i] \in 0..9 /\ t[i] \in 0..9
    /\ \A k \in 1..10 : k # i => t[k] = s[k]

LEMMA Term10 ==
    ASSUME NEW s, NEW t, NEW i \in 1..10, Typo10(s, t, i)
    PROVE  /\ OneOff(Terms10(s), Terms10(t), 10, i)
           /\ Terms10(s)[i] = s[i] * i /\ Terms10(t)[i] = t[i] * i
<1> DEFINE u == Terms10(s)
           v == Terms10(t)
<1>1. u = [k \in 1..10 |-> u[k]] /\ v = [k \in 1..10 |-> v[k]]
  BY DEF Terms10
<1>2. ASSUME NEW k \in 1..10 PROVE u[k] \in Int /\ v[k] \in Int /\ (k # i => v[k] = u[k])
  <2>1. (IF s[k] = X THEN 10 ELSE s[k]) \in Int /\ (IF t[k] = X THEN 10 ELSE t[k]) \in Int
    BY DEF Typo10, IsIsbn10, X
  <2> QED BY <2>1 DEF Typo10, Terms10
<1>3. s[i] # X /\ t[i] # X
  BY DEF Typo10, X
<1>4. u[i] = s[i] * i /\ v[i] = t[i] * i
  <2>1. u[i] = i * s[i] /\ v[i] = i * t[i]
    BY <1>3 DEF Terms10
  <2>2. \A a \in 0..9, k \in 1..10 : k * a = a * k
    OBVIOUS
  <2> QED BY <2>1, <2>2 DEF Typo10
<1> QED BY <1>1, <1>2, <1>4 DEF OneOff

LEMMA Isbn10Catches ==
    ASSUME NEW s \in Seq(0..35), Len(s) = 10, NEW i \in 1..10, s[i] \in 0..9,
           NEW d \in 0..9, d # s[i], Accepts(Isbn10(s))
    PROVE  ~Accepts(Isbn10(Typo(s, i, d)))
<1> DEFINE t == Typo(s, i, d)
<1>1. IsIsbn10(s) /\ SumOf(Terms10(s)) % 11 = 0
  BY Isbn10Reads
<1>2. t \in Seq(0..35) /\ Len(t) = 10 /\ t[i] = d /\ \A k \in 1..10 : k # i => t[k] = s[k]
  <2>1. i \in 1..Len(s)
    OBVIOUS
  <2>2. IsTypo(s, t, Len(s), i, d)
    BY <2>1, Mistyped
  <2> QED BY <2>2 DEF IsTypo
<1> HIDE DEF t
<1>3. IsIsbn10(t)
  BY <1>1, <1>2 DEF IsIsbn10
<1>4. /\ OneOff(Terms10(s), Terms10(t), 10, i)
      /\ Terms10(s)[i] = s[i] * i /\ Terms10(t)[i] = d * i
  <2>1. Typo10(s, t, i)
    BY <1>1, <1>2, <1>3 DEF Typo10
  <2> QED BY <1>2, <2>1, Term10
<1>5. (Terms10(t)[i] - Terms10(s)[i]) % 11 # 0
  BY <1>4, Weight11
<1>6. SumOf(Terms10(t)) % 11 # 0
  BY <1>1, <1>4, <1>5, TermTells11
<1> QED BY <1>2, <1>3, <1>6, Isbn10Reads DEF t

\* Two neighbouring digits of an ISBN-10 are swapped: their weights differ by
\* one, and so the sum by the difference of the digits.
LEMMA Isbn10CatchesSwaps ==
    ASSUME NEW s \in Seq(0..35), Len(s) = 10, NEW j \in 1..9, s[j] \in 0..9, s[j + 1] \in 0..9,
           s[j] # s[j + 1], Accepts(Isbn10(s))
    PROVE  ~Accepts(Isbn10([s EXCEPT ![j] = s[j + 1], ![j + 1] = s[j]]))
<1> DEFINE m == Typo(s, j, s[j + 1])
           t == Typo(m, j + 1, s[j])
<1>1. IsIsbn10(s) /\ SumOf(Terms10(s)) % 11 = 0
  BY Isbn10Reads
<1>2. m \in Seq(0..35) /\ Len(m) = 10 /\ m[j] = s[j + 1] /\ \A k \in 1..10 : k # j => m[k] = s[k]
  <2>1. j \in 1..Len(s)
    OBVIOUS
  <2>2. IsTypo(s, m, Len(s), j, s[j + 1])
    BY <2>1, Mistyped
  <2> QED BY <2>2 DEF IsTypo
<1> HIDE DEF m
<1>3. /\ t \in Seq(0..35) /\ Len(t) = 10 /\ t[j + 1] = s[j]
      /\ \A k \in 1..10 : k # j + 1 => t[k] = m[k]
  <2>1. j + 1 \in 1..Len(m)
    BY <1>2
  <2>2. IsTypo(m, t, Len(m), j + 1, s[j])
    BY <1>2, <2>1, Mistyped
  <2> QED BY <1>2, <2>2 DEF IsTypo
<1> HIDE DEF t
<1>4. IsIsbn10(m) /\ IsIsbn10(t)
  BY <1>1, <1>2, <1>3 DEF IsIsbn10
<1>5. j \in 1..10 /\ j + 1 \in 1..10 /\ j + 1 # j
  OBVIOUS
<1>6. /\ OneOff(Terms10(s), Terms10(m), 10, j)
      /\ Terms10(s)[j] = s[j] * j /\ Terms10(m)[j] = s[j + 1] * j
  <2>1. Typo10(s, m, j)
    BY <1>1, <1>2, <1>4 DEF Typo10
  <2> QED BY <1>2, <1>5, <2>1, Term10
<1>7. /\ OneOff(Terms10(m), Terms10(t), 10, j + 1)
      /\ Terms10(m)[j + 1] = s[j + 1] * (j + 1) /\ Terms10(t)[j + 1] = s[j] * (j + 1)
  <2>1. m[j + 1] = s[j + 1]
    BY <1>2, <1>5
  <2>2. Typo10(m, t, j + 1)
    BY <1>3, <1>4, <2>1 DEF Typo10
  <2> QED BY <1>3, <1>5, <2>1, <2>2, Term10
<1>8. SumOf(Terms10(s)) \in Int /\ SumOf(Terms10(m)) = SumOf(Terms10(s)) + s[j + 1] * j - s[j] * j
  BY <1>5, <1>6, TermOff
<1>9. SumOf(Terms10(t)) = SumOf(Terms10(m)) + s[j] * (j + 1) - s[j + 1] * (j + 1)
  BY <1>5, <1>7, TermOff
<1>10. SumOf(Terms10(t)) = SumOf(Terms10(s)) + s[j] - s[j + 1]
  <2>1. \A x \in Int, a \in 0..9, b \in 0..9, k \in 1..9 :
            (x + b * k - a * k) + a * (k + 1) - b * (k + 1) = x + a - b
    OBVIOUS
  <2> QED BY <1>8, <1>9, <2>1
<1>11. SumOf(Terms10(t)) % 11 # 0
  <2>1. (s[j] - s[j + 1]) % 11 # 0
    BY DigitsDiffer
  <2>3. \A x \in 0..9 : x \in Int
    OBVIOUS
  <2>4. s[j] \in Int /\ s[j + 1] \in Int
    BY <2>3
  <2>2. SumOf(Terms10(t)) % 11 # SumOf(Terms10(s)) % 11
    BY <1>8, <1>10, <2>1, <2>4, AnotherRest11
  <2> QED BY <1>1, <2>2
<1>12. t = [s EXCEPT ![j] = s[j + 1], ![j + 1] = s[j]]
  BY DEF t, m, Typo
<1> QED BY <1>3, <1>4, <1>11, <1>12, Isbn10Reads

LEMMA VinReads ==
    /\ \A k \in 1..17 : VinWeights[k] \in Int /\ (k # 9 => VinWeights[k] \in 1..10)
    /\ VinWeights[9] = 0
    /\ \A x \in 0..35 : VinTrans[x] \in Int
    /\ \A x \in 0..9 : VinTrans[x] = x
<1>1. \A k \in 1..17 : VinWeights[k] \in Int /\ (k # 9 => VinWeights[k] \in 1..10)
  BY DEF VinWeights
<1>2. VinWeights[9] = 0
  BY DEF VinWeights
<1>3. \A x \in 0..35 : VinTrans[x] \in Int
  BY DEF VinTrans
<1>4. \A x \in 0..9 : VinTrans[x] = x
  BY DEF VinTrans
<1> QED BY <1>1, <1>2, <1>3, <1>4

\* compute_vin: the check character at the ninth place counts for nothing.
VinTerms(s) == [k \in 1..17 |-> VinTrans[s[k]] * VinWeights[k]]
VinCheck(x) == IF x % 11 = 10 THEN X ELSE x % 11

LEMMA VinCatches ==
    ASSUME NEW s \in Seq(0..35), Len(s) = 17, NEW i \in 1..17, s[i] \in 0..9,
           NEW d \in 0..9, d # s[i], s[9] = VinCheck(SumOf(VinTerms(s)))
    PROVE  LET t == Typo(s, i, d) IN t[9] # VinCheck(SumOf(VinTerms(t)))
<1> DEFINE t == Typo(s, i, d)
           u == VinTerms(s)
           v == VinTerms(t)
<1>1. /\ t \in Seq(0..35) /\ t[i] = d
      /\ \A k \in 1..17 : s[k] \in 0..35 /\ t[k] \in 0..35 /\ (k # i => t[k] = s[k])
  <2>1. i \in 1..Len(s)
    OBVIOUS
  <2>2. IsTypo(s, t, Len(s), i, d)
    BY <2>1, Mistyped
  <2> QED BY <2>2 DEF IsTypo
<1> HIDE DEF t
<1>2. OneOff(u, v, 17, i)
  <2>1. u = [k \in 1..17 |-> u[k]] /\ v = [k \in 1..17 |-> v[k]]
    BY DEF VinTerms
  <2>2. ASSUME NEW k \in 1..17 PROVE u[k] \in Int /\ v[k] \in Int /\ (k # i => v[k] = u[k])
    <3>1. VinTrans[s[k]] \in Int /\ VinTrans[t[k]] \in Int /\ VinWeights[k] \in Int
      BY <1>1, VinReads
    <3>2. u[k] = VinTrans[s[k]] * VinWeights[k] /\ v[k] = VinTrans[t[k]] * VinWeights[k]
      BY DEF VinTerms
    <3>3. k # i => t[k] = s[k]
      BY <1>1
    <3> HIDE DEF u, v
    <3> QED BY <3>1, <3>2, <3>3
  <2> QED BY <2>1, <2>2 DEF OneOff
<1>3. u[i] = s[i] * VinWeights[i] /\ v[i] = d * VinWeights[i]
  <2>1. VinTrans[s[i]] = s[i] /\ VinTrans[t[i]] = d
    BY <1>1, VinReads
  <2> QED BY <2>1 DEF VinTerms
<1>4. SumOf(u) \in Int /\ SumOf(v) = SumOf(u) + v[i] - u[i]
  BY <1>2, TermOff
<1>5. CASE i = 9
  <2>1. u[i] = 0 /\ v[i] = 0
    <3>1. VinWeights[i] = 0
      BY <1>5, VinReads
    <3>2. \A a \in 0..9 : a * 0 = 0
      OBVIOUS
    <3> QED BY <1>3, <3>1, <3>2
  <2>2. SumOf(v) = SumOf(u)
    BY <1>4, <2>1
  <2> QED BY <1>1, <1>5, <2>2 DEF t
<1>6. CASE i # 9
  <2>1. VinWeights[i] \in 1..10
    BY <1>6, VinReads
  <2>2. (v[i] - u[i]) % 11 # 0
    BY <1>3, <2>1, Weight11
  <2>3. SumOf(v) \in Int /\ SumOf(v) % 11 # SumOf(u) % 11
    BY <1>2, <2>2, TermTells11
  <2>4. VinCheck(SumOf(v)) # VinCheck(SumOf(u))
    <3>1. SumOf(u) % 11 \in 0..10 /\ SumOf(v) % 11 \in 0..10
      <4>1. \A x \in Int : x % 11 \in 0..10
        OBVIOUS
      <4> QED BY <1>4, <2>3, <4>1
    <3> QED BY <2>3, <3>1 DEF VinCheck, X
  <2>5. t[9] = s[9]
    BY <1>1, <1>6
  <2> QED BY <2>4, <2>5 DEF t
<1> QED BY <1>5, <1>6
-----------------------------------------------------------------------------
(* The routes that spell letters with digits *)

\* A spelling holds x at place p, and the other spelling d.
Spelt(a, b, p, x, d) ==
    /\ a \in Seq(0..9) /\ b \in Seq(0..9) /\ Len(b) = Len(a)
    /\ p \in 1..Len(a) /\ a[p] = x /\ b[p] = d
    /\ \A k \in 1..Len(a) : k # p => b[k] = a[k]

LEMMA SpeltHere ==
    ASSUME NEW a \in Seq(0..9), NEW x \in 0..9, NEW d \in 0..9
    PROVE  Spelt(a \o <<x>>, a \o <<d>>, Len(a) + 1, x, d) /\ Len(a \o <<x>>) = Len(a) + 1
<1>1. <<x>> \in Seq(0..9) /\ <<d>> \in Seq(0..9) /\ Len(<<x>>) = 1 /\ Len(<<d>>) = 1
  OBVIOUS
<1>2. /\ a \o <<x>> \in Seq(0..9) /\ a \o <<d>> \in Seq(0..9)
      /\ Len(a \o <<x>>) = Len(a) + 1 /\ Len(a \o <<d>>) = Len(a) + 1
  BY <1>1
<1>3. (a \o <<x>>)[Len(a) + 1] = x /\ (a \o <<d>>)[Len(a) + 1] = d
  OBVIOUS
<1>4. \A k \in 1..(Len(a) + 1) : k # Len(a) + 1 => (a \o <<d>>)[k] = (a \o <<x>>)[k]
  OBVIOUS
<1>5. Len(a) + 1 \in 1..(Len(a) + 1)
  OBVIOUS
<1> QED BY <1>2, <1>3, <1>4, <1>5 DEF Spelt

LEMMA SpeltBefore ==
    ASSUME NEW a, NEW b, NEW p, NEW x, NEW d, Spelt(a, b, p, x, d), NEW z \in Seq(0..9)
    PROVE  Spelt(a \o z, b \o z, p, x, d)
<1>1. a \in Seq(0..9) /\ b \in Seq(0..9) /\ Len(b) = Len(a) /\ p \in 1..Len(a)
  BY DEF Spelt
<1>2. /\ a \o z \in Seq(0..9) /\ b \o z \in Seq(0..9)
      /\ Len(a \o z) = Len(a) + Len(z) /\ Len(b \o z) = Len(a) + Len(z)
  BY <1>1
<1>3. p \in 1..Len(a \o z) /\ (a \o z)[p] = a[p] /\ (b \o z)[p] = b[p]
  BY <1>1, <1>2
<1>4. ASSUME NEW k \in 1..(Len(a) + Len(z)), k # p PROVE (b \o z)[k] = (a \o z)[k]
  <2>1. CASE k \in 1..Len(a)
    <3>1. (b \o z)[k] = b[k] /\ (a \o z)[k] = a[k]
      BY <1>1, <2>1
    <3> QED BY <1>4, <2>1, <3>1 DEF Spelt
  <2>2. CASE k \notin 1..Len(a)
    <3>1. (b \o z)[k] = z[k - Len(a)] /\ (a \o z)[k] = z[k - Len(a)]
      BY <1>1, <2>2
    <3> QED BY <3>1
  <2> QED BY <2>1, <2>2
<1> QED BY <1>2, <1>3, <1>4 DEF Spelt

\* A mistyped digit of an identifier is one mistyped digit of its spelling.
LEMMA SpelledTypo ==
    ASSUME NEW s \in Seq(0..35), NEW i \in 1..Len(s), s[i] \in 0..9, NEW d \in 0..9
    PROVE  LET t == Typo(s, i, d)
               p == Len(Spellings(s)[i])
           IN  /\ Spelt(InBase36(s), InBase36(t), p, s[i], d)
               /\ \A k \in 0..Len(s) : Len(Spellings(t)[k]) = Len(Spellings(s)[k])
<1> DEFINE t == Typo(s, i, d)
           n == Len(s)
           f == Spellings(s)
           g == Spellings(t)
           p == Len(f[i])
           Same(k) == IF k < i THEN g[k] = f[k] ELSE Spelt(f[k], g[k], p, s[i], d)
           T == {k \in 0..n : Same(k)}
<1>1. IsTypo(s, t, n, i, d) /\ n \in Nat
  BY Mistyped
<1>2. /\ t \in Seq(0..35) /\ Len(t) = n /\ t[i] = d
      /\ \A k \in 1..n : s[k] \in 0..35 /\ (k # i => t[k] = s[k])
  BY <1>1 DEF IsTypo
<1> HIDE DEF t
<1>3. f \in [0..n -> Seq(0..9)] /\ f[0] = <<>> /\ \A k \in 1..n : f[k] = f[k - 1] \o Decimal(s[k])
  BY SpellingsAre
<1>4. g \in [0..n -> Seq(0..9)] /\ g[0] = <<>> /\ \A k \in 1..n : g[k] = g[k - 1] \o Decimal(t[k])
  BY <1>2, SpellingsAre
<1> HIDE DEF f, g, n
<1>5. i \in 1..n
  BY DEF n
<1>6. 0 \in T
  BY <1>1, <1>3, <1>4, <1>5
<1>7. ASSUME NEW k \in 1..n, k - 1 \in T PROVE k \in T
  <2>1. k - 1 \in 0..n /\ k \in 0..n
    BY <1>1
  <2>2. f[k] = f[k - 1] \o Decimal(s[k]) /\ g[k] = g[k - 1] \o Decimal(t[k]) /\ f[k - 1] \in Seq(0..9)
    BY <1>3, <1>4, <2>1
  <2>3. CASE k < i
    <3>1. g[k - 1] = f[k - 1] /\ t[k] = s[k]
      BY <1>2, <1>5, <1>7, <2>3
    <3> QED BY <2>1, <2>2, <2>3, <3>1
  <2>4. CASE k = i
    <3>1. g[k - 1] = f[k - 1]
      BY <1>5, <1>7, <2>4
    <3>2. Decimal(s[k]) = <<s[k]>> /\ Decimal(t[k]) = <<d>>
      BY <1>2, <2>4 DEF Decimal
    <3>3. f[k] = f[k - 1] \o <<s[i]>> /\ g[k] = f[k - 1] \o <<d>>
      BY <2>2, <2>4, <3>1, <3>2
    <3>4. Spelt(f[k], g[k], Len(f[k - 1]) + 1, s[i], d) /\ Len(f[k]) = Len(f[k - 1]) + 1
      BY <2>2, <3>3, SpeltHere
    <3>5. Spelt(f[k], g[k], p, s[i], d)
      BY <2>4, <3>4
    <3> HIDE DEF p
    <3> QED BY <2>1, <2>4, <3>5
  <2>5. CASE k > i
    <3>1. Spelt(f[k - 1], g[k - 1], p, s[i], d)
      BY <1>5, <1>7, <2>5
    <3>2. t[k] = s[k] /\ s[k] \in 0..35
      <4>1. k # i
        BY <1>5, <2>5
      <4> QED BY <1>2, <4>1
    <3>3. Decimal(s[k]) \in Seq(0..9)
      BY <3>2, DecimalIs
    <3> HIDE DEF p
    <3>4. Spelt(f[k], g[k], p, s[i], d)
      BY <2>2, <3>1, <3>2, <3>3, SpeltBefore
    <3> QED BY <2>1, <2>5, <3>4
  <2> QED BY <1>5, <2>3, <2>4, <2>5
<1>8. 0..n \subseteq T
  <2> HIDE DEF T
  <2> QED BY <1>1, <1>6, <1>7, Climb
<1>9. \A k \in 0..n : Same(k)
  BY <1>8
<1>10. Spelt(f[n], g[n], p, s[i], d)
  BY <1>1, <1>5, <1>9
<1>11. \A k \in 0..n : Len(g[k]) = Len(f[k])
  BY <1>9 DEF Spelt
<1> QED BY <1>2, <1>10, <1>11 DEF InBase36, f, g, n, t

\* One digit of what luhn_valid is given is another.
LEMMA LuhnTells ==
    ASSUME NEW a, NEW b, NEW p, NEW x, NEW d \in 0..9, Spelt(a, b, p, x, d), d # x, LuhnValid(a)
    PROVE  ~LuhnValid(b)
<1>1. /\ a \in Seq(0..9) /\ b \in Seq(0..9) /\ Len(b) = Len(a) /\ p \in 1..Len(a) /\ a[p] = x /\ b[p] = d
      /\ \A k \in 1..Len(a) : k # p => b[k] = a[k]
  BY DEF Spelt
<1> DEFINE t == [a EXCEPT ![p] = d]
<1>2. t \in Seq(0..9) /\ Len(t) = Len(a) /\ t[p] = d /\ \A k \in 1..Len(a) : k # p => t[k] = a[k]
  BY <1>1
<1>3. ~LuhnValid(t)
  BY <1>1, LuhnCatches
<1> HIDE DEF t
<1>4. \A k \in 1..Len(a) : t[k] = b[k]
  BY <1>1, <1>2
<1>5. t = b
  BY <1>1, <1>2, <1>4, SeqEqual
<1> QED BY <1>3, <1>5

SameCodes(a, b, n) ==
    /\ a \in Seq(0..35) /\ b \in Seq(0..35) /\ Len(a) = n /\ Len(b) = n
    /\ \A k \in 1..n : a[k] = b[k]

LEMMA SameCode ==
    ASSUME NEW a, NEW b, NEW n, SameCodes(a, b, n)
    PROVE  a = b
<1>1. a \in Seq(0..35) /\ b \in Seq(0..35) /\ Len(a) = Len(b) /\ \A k \in 1..Len(a) : a[k] = b[k]
  BY DEF SameCodes
<1> QED BY <1>1, SeqEqual

LEMMA SpellingIs ==
    ASSUME NEW cs \in Seq(0..35)
    PROVE  InBase36(cs) \in Seq(0..9)
<1>1. Len(cs) \in 0..Len(cs)
  OBVIOUS
<1> QED BY <1>1, SpellingsAre DEF InBase36

LEMMA FirstOnes ==
    ASSUME NEW s \in Seq(0..35), NEW n \in 1..Len(s)
    PROVE  /\ SubSeq(s, 1, n) \in Seq(0..35) /\ Len(SubSeq(s, 1, n)) = n
           /\ \A k \in 1..n : SubSeq(s, 1, n)[k] = s[k]
<1>1. \A k \in 1..n : s[k] \in 0..35
  <2>1. \A k \in 1..n : k \in 1..Len(s)
    OBVIOUS
  <2>2. \A k \in 1..Len(s) : s[k] \in 0..35
    BY ElementOfSeq
  <2> QED BY <2>1, <2>2
<1>2. n \in Int /\ 1 \in Int /\ 1 <= n /\ n - 1 + 1 = n
  OBVIOUS
<1>3. /\ SubSeq(s, 1, n) \in Seq(0..35)
      /\ Len(SubSeq(s, 1, n)) = IF 1 <= n THEN n - 1 + 1 ELSE 0
      /\ \A k \in 1..(n - 1 + 1) : SubSeq(s, 1, n)[k] = s[1 + k - 1]
  BY <1>1, <1>2, SubSeqProperties
<1>4. \A k \in 1..n : 1 + k - 1 = k
  BY <1>2
<1> QED BY <1>2, <1>3, <1>4

IsinDigits(s) == Append(InBase36(SubSeq(s, 1, 11)), s[12])

\* compute_isin
LEMMA IsinCatches ==
    ASSUME NEW s \in Seq(0..35), Len(s) = 12, s[12] \in 0..9, NEW i \in 1..12, s[i] \in 0..9,
           NEW d \in 0..9, d # s[i], LuhnValid(IsinDigits(s))
    PROVE  ~LuhnValid(IsinDigits(Typo(s, i, d)))
<1> DEFINE t == Typo(s, i, d)
           h == SubSeq(s, 1, 11)
           g == SubSeq(t, 1, 11)
<1>1. t \in Seq(0..35) /\ Len(t) = 12 /\ t[i] = d /\ \A k \in 1..12 : k # i => t[k] = s[k]
  <2>1. IsTypo(s, t, Len(s), i, d)
    BY Mistyped
  <2> QED BY <2>1 DEF IsTypo
<1> HIDE DEF t
<1>2. /\ h \in Seq(0..35) /\ Len(h) = 11 /\ (\A k \in 1..11 : h[k] = s[k])
      /\ g \in Seq(0..35) /\ Len(g) = 11 /\ (\A k \in 1..11 : g[k] = t[k])
  <2>1. 11 \in 1..Len(s) /\ 11 \in 1..Len(t)
    BY <1>1
  <2> QED BY <1>1, <2>1, FirstOnes
<1>5. IsinDigits(s) = InBase36(h) \o <<s[12]>> /\ IsinDigits(t) = InBase36(g) \o <<t[12]>>
  <2>1. t[12] \in 0..9
    BY <1>1
  <2>2. InBase36(h) \in Seq(0..9) /\ InBase36(g) \in Seq(0..9)
    BY <1>2, SpellingIs
  <2> HIDE DEF h, g
  <2>3. Append(InBase36(h), s[12]) = InBase36(h) \o <<s[12]>> /\ Append(InBase36(g), t[12]) = InBase36(g) \o <<t[12]>>
    BY <2>1, <2>2, AppendIsConcat
  <2> QED BY <2>3 DEF IsinDigits, h, g
<1> HIDE DEF h, g
<1>3. InBase36(h) \in Seq(0..9) /\ InBase36(g) \in Seq(0..9)
  BY <1>2, SpellingIs
<1>6. \E p : Spelt(IsinDigits(s), IsinDigits(t), p, s[i], d)
  <2>1. CASE i = 12
    <3>1. \A k \in 1..11 : h[k] = g[k]
      BY <1>1, <1>2, <2>1
    <3>2. SameCodes(h, g, 11)
      BY <1>2, <3>1 DEF SameCodes
    <3>3. h = g
      BY <3>2, SameCode
    <3> QED BY <1>1, <1>3, <1>5, <2>1, <3>3, SpeltHere
  <2>2. CASE i # 12
    <3>1. i \in 1..Len(h) /\ h[i] = s[i]
      BY <1>2, <2>2
    <3>2. IsTypo(h, Typo(h, i, d), Len(h), i, d)
      BY <1>2, <3>1, Mistyped
    <3>3. Typo(h, i, d) \in Seq(0..35) /\ Len(Typo(h, i, d)) = Len(g) /\ \A k \in 1..11 : Typo(h, i, d)[k] = g[k]
      BY <1>1, <1>2, <3>1, <3>2 DEF IsTypo
    <3>4. Typo(h, i, d) = g
      <4>1. SameCodes(Typo(h, i, d), g, 11)
        BY <1>2, <3>3 DEF SameCodes
      <4> QED BY <4>1, SameCode
    <3>5. Spelt(InBase36(h), InBase36(g), Len(Spellings(h)[i]), h[i], d)
      BY <1>2, <3>1, <3>4, SpelledTypo
    <3>6. t[12] = s[12] /\ <<s[12]>> \in Seq(0..9)
      BY <1>1, <2>2
    <3> QED BY <1>5, <3>1, <3>5, <3>6, SpeltBefore
  <2> QED BY <2>1, <2>2
<1> QED BY <1>6, LuhnTells DEF t
-----------------------------------------------------------------------------
(* The remainders modulo 97 of two spellings *)

LEMMA AnotherDigit ==
    ASSUME NEW u \in 0..96, NEW x \in 0..9, NEW y \in 0..9, x # y
    PROVE  (10 * u + x) % 97 # (10 * u + y) % 97
OBVIOUS

LEMMA SameDigit ==
    ASSUME NEW u \in 0..96, NEW v \in 0..96, NEW x \in 0..9, u # v
    PROVE  (10 * u + x) % 97 # (10 * v + x) % 97
OBVIOUS

LEMMA DigitsSwapped ==
    ASSUME NEW u \in 0..96, NEW x \in 0..9, NEW y \in 0..9, x # y
    PROVE  (10 * ((10 * u + x) % 97) + y) % 97 # (10 * ((10 * u + y) % 97) + x) % 97
OBVIOUS

LEMMA RemainderStep ==
    ASSUME NEW d \in Seq(0..9), NEW k \in 1..Len(d)
    PROVE  /\ Remainders(d)[k - 1] \in 0..96
           /\ Remainders(d)[k] = (10 * Remainders(d)[k - 1] + d[k]) % 97
<1>1. k - 1 \in 0..Len(d)
  OBVIOUS
<1> QED BY <1>1, RemaindersAre

\* Once the remainders differ, digits that are the same keep them apart.
LEMMA StayApart ==
    ASSUME NEW a \in Seq(0..9), NEW b \in Seq(0..9), Len(b) = Len(a), NEW q \in 0..Len(a),
           Remainders(a)[q] # Remainders(b)[q],
           \A k \in 1..Len(a) : k > q => b[k] = a[k]
    PROVE  Mod97(a) # Mod97(b)
<1> DEFINE f == Remainders(a)
           g == Remainders(b)
           n == Len(a)
           T == {k \in 0..n : k >= q => f[k] # g[k]}
<1>1. n \in Nat /\ q \in 0..n
  OBVIOUS
<1>2. f \in [0..n -> 0..96] /\ f[0] = 0 /\ \A k \in 1..n : f[k] = (10 * f[k - 1] + a[k]) % 97
  BY RemaindersAre
<1>3. g \in [0..n -> 0..96] /\ g[0] = 0 /\ \A k \in 1..n : g[k] = (10 * g[k - 1] + b[k]) % 97
  BY RemaindersAre
<1>4. (\A k \in 1..n : a[k] \in 0..9 /\ b[k] \in 0..9 /\ (k > q => b[k] = a[k])) /\ f[q] # g[q]
  OBVIOUS
<1> HIDE DEF f, g, n
<1>5. 0 \in T
  BY <1>1, <1>4
<1>6. ASSUME NEW k \in 1..n, k - 1 \in T PROVE k \in T
  <2>1. k \in 0..n /\ k - 1 \in 0..n
    BY <1>1
  <2>2. CASE k <= q
    BY <1>1, <1>4, <2>1, <2>2
  <2>3. CASE k > q
    <3>1. f[k - 1] # g[k - 1] /\ f[k - 1] \in 0..96 /\ g[k - 1] \in 0..96
      BY <1>1, <1>2, <1>3, <1>6, <2>1, <2>3
    <3>2. a[k] \in 0..9 /\ b[k] = a[k]
      BY <1>4, <2>3
    <3>3. (10 * f[k - 1] + a[k]) % 97 # (10 * g[k - 1] + a[k]) % 97
      BY <3>1, <3>2, SameDigit
    <3>4. f[k] # g[k]
      BY <1>2, <1>3, <3>2, <3>3
    <3> QED BY <2>1, <3>4
  <2> QED BY <1>1, <2>2, <2>3
<1>7. 0..n \subseteq T
  <2> HIDE DEF T
  <2> QED BY <1>1, <1>5, <1>6, Climb
<1>8. f[n] # g[n]
  BY <1>1, <1>7
<1> QED BY <1>8 DEF Mod97, f, g, n

\* As long as the digits are the same the remainders are.
LEMMA StayTogether ==
    ASSUME NEW a \in Seq(0..9), NEW b \in Seq(0..9), Len(b) = Len(a), NEW q \in 0..Len(a),
           \A k \in 1..Len(a) : k <= q => b[k] = a[k]
    PROVE  Remainders(a)[q] = Remainders(b)[q]
<1> DEFINE f == Remainders(a)
           g == Remainders(b)
           n == Len(a)
           T == {k \in 0..n : k <= q => f[k] = g[k]}
<1>1. n \in Nat /\ q \in 0..n
  OBVIOUS
<1>2. f[0] = 0 /\ \A k \in 1..n : f[k] = (10 * f[k - 1] + a[k]) % 97
  BY RemaindersAre
<1>3. g[0] = 0 /\ \A k \in 1..n : g[k] = (10 * g[k - 1] + b[k]) % 97
  BY RemaindersAre
<1>4. \A k \in 1..n : k <= q => b[k] = a[k]
  OBVIOUS
<1> HIDE DEF f, g, n
<1>5. 0 \in T
  BY <1>1, <1>2, <1>3
<1>6. ASSUME NEW k \in 1..n, k - 1 \in T PROVE k \in T
  <2>1. k \in 0..n /\ k - 1 \in 0..n
    BY <1>1
  <2>2. k <= q => k - 1 <= q
    BY <1>1
  <2> QED BY <1>2, <1>3, <1>4, <1>6, <2>1, <2>2
<1>7. 0..n \subseteq T
  <2> HIDE DEF T
  <2> QED BY <1>1, <1>5, <1>6, Climb
<1>8. f[q] = g[q]
  BY <1>1, <1>7
<1> QED BY <1>8 DEF f, g

LEMMA Mod97Tells ==
    ASSUME NEW a, NEW b, NEW p, NEW x \in 0..9, NEW d \in 0..9, Spelt(a, b, p, x, d), d # x
    PROVE  Mod97(a) # Mod97(b)
<1>1. /\ a \in Seq(0..9) /\ b \in Seq(0..9) /\ Len(b) = Len(a) /\ p \in 1..Len(a) /\ a[p] = x /\ b[p] = d
      /\ \A k \in 1..Len(a) : k # p => b[k] = a[k]
  BY DEF Spelt
<1>2. p - 1 \in 0..Len(a) /\ p \in 0..Len(a) /\ \A k \in 1..Len(a) : k <= p - 1 => k # p
  BY <1>1
<1>3. Remainders(a)[p - 1] = Remainders(b)[p - 1]
  BY <1>1, <1>2, StayTogether
<1>4. /\ Remainders(a)[p - 1] \in 0..96
      /\ Remainders(a)[p] = (10 * Remainders(a)[p - 1] + x) % 97
  BY <1>1, <1>2, RemaindersAre
<1>5. Remainders(b)[p] = (10 * Remainders(b)[p - 1] + d) % 97
  BY <1>1, <1>2, RemaindersAre
<1>6. Remainders(a)[p] # Remainders(b)[p]
  BY <1>3, <1>4, <1>5, AnotherDigit
<1>7. \A k \in 1..Len(a) : k > p => b[k] = a[k]
  BY <1>1
<1> QED BY <1>1, <1>2, <1>6, <1>7, StayApart

\* Two digits of a spelling are in each other's place.
Swapped(a, b, p, q, x, y) ==
    /\ a \in Seq(0..9) /\ b \in Seq(0..9) /\ Len(b) = Len(a)
    /\ p \in 1..Len(a) /\ q \in 1..Len(a) /\ p # q
    /\ a[p] = x /\ a[q] = y /\ b[p] = y /\ b[q] = x
    /\ \A k \in 1..Len(a) : k # p /\ k # q => b[k] = a[k]

LEMMA SpeltTwice ==
    ASSUME NEW a, NEW b, NEW c, NEW p, NEW q, NEW x, NEW y,
           Spelt(a, c, p, x, y), Spelt(c, b, q, y, x), p # q
    PROVE  Swapped(a, b, p, q, x, y)
<1>1. /\ a \in Seq(0..9) /\ c \in Seq(0..9) /\ Len(c) = Len(a) /\ p \in 1..Len(a)
      /\ a[p] = x /\ c[p] = y /\ \A k \in 1..Len(a) : k # p => c[k] = a[k]
  BY DEF Spelt
<1>2. /\ b \in Seq(0..9) /\ Len(b) = Len(a) /\ q \in 1..Len(a)
      /\ c[q] = y /\ b[q] = x /\ \A k \in 1..Len(a) : k # q => b[k] = c[k]
  BY <1>1 DEF Spelt
<1>3. a[q] = y /\ b[p] = y /\ \A k \in 1..Len(a) : k # p /\ k # q => b[k] = a[k]
  BY <1>1, <1>2
<1> QED BY <1>1, <1>2, <1>3 DEF Swapped

\* Two digits next to each other.
LEMMA Mod97TellsNeighbours ==
    ASSUME NEW a, NEW b, NEW p, NEW x \in 0..9, NEW y \in 0..9, x # y, Swapped(a, b, p, p + 1, x, y)
    PROVE  Mod97(a) # Mod97(b)
<1>1. /\ a \in Seq(0..9) /\ b \in Seq(0..9) /\ Len(b) = Len(a) /\ p \in 1..Len(a) /\ p + 1 \in 1..Len(a)
      /\ a[p] = x /\ a[p + 1] = y /\ b[p] = y /\ b[p + 1] = x
      /\ \A k \in 1..Len(a) : k # p /\ k # p + 1 => b[k] = a[k]
  BY DEF Swapped
<1>2. /\ p - 1 \in 0..Len(a) /\ p \in 0..Len(a) /\ p + 1 \in 0..Len(a) /\ (p + 1) - 1 = p
      /\ \A k \in 1..Len(a) : k <= p - 1 => k # p /\ k # p + 1
      /\ \A k \in 1..Len(a) : k > p + 1 => k # p /\ k # p + 1
  BY <1>1
<1>3. Remainders(a)[p - 1] = Remainders(b)[p - 1]
  BY <1>1, <1>2, StayTogether
<1> DEFINE u == Remainders(a)[p - 1]
<1>4. /\ u \in 0..96
      /\ Remainders(a)[p] = (10 * u + x) % 97
      /\ Remainders(a)[p + 1] = (10 * Remainders(a)[p] + y) % 97
  <2>1. u \in 0..96 /\ Remainders(a)[p] = (10 * u + x) % 97
    BY <1>1, RemainderStep
  <2>2. Remainders(a)[p + 1] = (10 * Remainders(a)[(p + 1) - 1] + y) % 97
    BY <1>1, RemainderStep
  <2> QED BY <1>2, <2>1, <2>2
<1>5. /\ Remainders(b)[p] = (10 * u + y) % 97
      /\ Remainders(b)[p + 1] = (10 * Remainders(b)[p] + x) % 97
  <2>1. Remainders(b)[p] = (10 * u + y) % 97
    BY <1>1, <1>3, RemainderStep
  <2>2. Remainders(b)[p + 1] = (10 * Remainders(b)[(p + 1) - 1] + x) % 97
    BY <1>1, RemainderStep
  <2> QED BY <1>2, <2>1, <2>2
<1> HIDE DEF u
<1>6. Remainders(a)[p + 1] # Remainders(b)[p + 1]
  BY <1>4, <1>5, DigitsSwapped
<1>7. \A k \in 1..Len(a) : k > p + 1 => b[k] = a[k]
  BY <1>1, <1>2
<1> QED BY <1>1, <1>2, <1>6, <1>7, StayApart

\* The powers of ten modulo 97, one for each digit an account number may have.
Powers ==
 << 1, 10,  3, 30,  9, 90, 27, 76, 81, 34, 49,  5, 50, 15, 53, 45, 62,
   38, 89, 17, 73, 51, 25, 56, 75, 71, 31, 19, 93, 57, 85, 74, 61, 28,
   86, 84, 64, 58, 95, 77, 91, 37, 79, 14, 43, 42, 32, 29, 96, 87, 94,
   67, 88,  7, 70, 21, 16, 63, 48, 92, 47, 82, 44, 52, 35, 59,  8, 80>>

LEMMA PowersAre ==
    /\ Powers[1] = 1
    /\ \A k \in 1..68 : Powers[k] \in 1..96 /\ (k > 1 => Powers[k] # 1)
    /\ \A k \in 1..67 : Powers[k + 1] = (10 * Powers[k]) % 97
<1>1. Powers[1] = 1
  BY DEF Powers
<1>2. \A k \in 1..68 : Powers[k] \in 1..96 /\ (k > 1 => Powers[k] # 1)
  BY DEF Powers
<1>3. \A k \in 1..67 : Powers[k + 1] = (10 * Powers[k]) % 97
  BY DEF Powers
<1> QED BY <1>1, <1>2, <1>3

LEMMA NotAMultiple ==
    ASSUME NEW e \in -9..9, e # 0, NEW w \in 1..95, NEW m \in Int
    PROVE  e * w # 97 * m
<1>1. /\ \A v \in 1..95, k \in Int : v # 97 * k
      /\ \A v \in 1..95, k \in Int : 2 * v # 97 * k
      /\ \A v \in 1..95, k \in Int : 3 * v # 97 * k
      /\ \A v \in 1..95, k \in Int : 4 * v # 97 * k
      /\ \A v \in 1..95, k \in Int : 5 * v # 97 * k
      /\ \A v \in 1..95, k \in Int : 6 * v # 97 * k
      /\ \A v \in 1..95, k \in Int : 7 * v # 97 * k
      /\ \A v \in 1..95, k \in Int : 8 * v # 97 * k
      /\ \A v \in 1..95, k \in Int : 9 * v # 97 * k
  OBVIOUS
<1>2. ASSUME NEW a \in 1..9, NEW k \in Int PROVE a * w # 97 * k
  <2>1. CASE a = 1
    BY <1>1, <2>1
  <2>2. CASE a = 2
    BY <1>1, <2>2
  <2>3. CASE a = 3
    BY <1>1, <2>3
  <2>4. CASE a = 4
    BY <1>1, <2>4
  <2>5. CASE a = 5
    BY <1>1, <2>5
  <2>6. CASE a = 6
    BY <1>1, <2>6
  <2>7. CASE a = 7
    BY <1>1, <2>7
  <2>8. CASE a = 8
    BY <1>1, <2>8
  <2>9. CASE a = 9
    BY <1>1, <2>9
  <2> QED BY <2>1, <2>2, <2>3, <2>4, <2>5, <2>6, <2>7, <2>8, <2>9
<1>3. CASE e > 0
  <2>1. e \in 1..9
    BY <1>3
  <2> QED BY <1>2, <2>1
<1>4. CASE ~(e > 0)
  <2>1. -e \in 1..9 /\ -m \in Int
    BY <1>4
  <2>2. (-e) * w # 97 * (-m)
    BY <1>2, <2>1
  <2>3. \A a \in Int, b \in Int, k \in Int : a * b = 97 * k => (-a) * b = 97 * (-k)
    OBVIOUS
  <2>4. e \in Int /\ w \in Int
    OBVIOUS
  <2> QED BY <2>2, <2>3, <2>4
<1> QED BY <1>3, <1>4

LEMMA Quotient ==
    ASSUME NEW u \in Int
    PROVE  \E q \in Int : u = 97 * q + (u % 97)
<1>1. u = 97 * (u \div 97) + (u % 97) /\ u \div 97 \in Int
  OBVIOUS
<1> QED BY <1>1

Far(u, v, e, w) ==
    u \in Int /\ v \in Int /\ e \in Int /\ w \in Int /\ \E q \in Int : u = v + e * w + 97 * q

LEMMA FarStep ==
    ASSUME NEW u, NEW v, NEW e, NEW w, NEW z \in 0..9, Far(u, v, e, w)
    PROVE  Far((10 * u + z) % 97, (10 * v + z) % 97, e, (10 * w) % 97)
<1> DEFINE uu == (10 * u + z) % 97
           vv == (10 * v + z) % 97
           ww == (10 * w) % 97
<1>0. u \in Int /\ v \in Int /\ e \in Int /\ w \in Int /\ z \in Int
  BY DEF Far
<1>1. PICK q \in Int : u = v + e * w + 97 * q
  BY DEF Far
<1>2. 10 * u + z \in Int /\ 10 * v + z \in Int /\ 10 * w \in Int
  BY <1>0
<1>3. PICK a \in Int : 10 * u + z = 97 * a + uu
  BY <1>2, Quotient
<1>4. PICK b \in Int : 10 * v + z = 97 * b + vv
  BY <1>2, Quotient
<1>5. PICK r \in Int : 10 * w = 97 * r + ww
  BY <1>2, Quotient
<1>6. uu \in Int /\ vv \in Int /\ ww \in Int
  BY <1>2
<1> HIDE DEF uu, vv, ww
<1>7. e * w \in Int /\ e * ww \in Int /\ e * r \in Int
  BY <1>0, <1>6
<1>8. 10 * (e * w) = 97 * (e * r) + e * ww
  <2>1. 10 * (e * w) = e * (10 * w)
    BY <1>0
  <2>2. e * (97 * r + ww) = 97 * (e * r) + e * ww
    BY <1>0, <1>6
  <2> QED BY <1>5, <2>1, <2>2
<1>9. uu = vv + e * ww + 97 * (10 * q + e * r + b - a)
  BY <1>0, <1>1, <1>3, <1>4, <1>6, <1>7, <1>8
<1>10. 10 * q + e * r + b - a \in Int
  BY <1>7
<1>11. Far(uu, vv, e, ww)
  BY <1>0, <1>6, <1>9, <1>10 DEF Far
<1> QED BY <1>11 DEF uu, vv, ww

LEMMA FarFirst ==
    ASSUME NEW x \in 0..9, NEW y \in 0..9
    PROVE  Far(y, x, y - x, 1)
<1>1. x \in Int /\ y \in Int /\ y - x \in Int /\ y = x + (y - x) * 1 + 97 * 0 /\ 0 \in Int
  OBVIOUS
<1>2. \E q \in Int : y = x + (y - x) * 1 + 97 * q
  BY <1>1
<1> QED BY <1>1, <1>2 DEF Far

EndApart(u, v, x, y) == (10 * u + x) % 97 # (10 * v + y) % 97

\* The remainders differ once a last digit is the one the first was.
LEMMA FarEnd ==
    ASSUME NEW u, NEW v, NEW x \in 0..9, NEW y \in 0..9, x # y, NEW w, NEW e,
           e = y - x, Far(u, v, e, w), (10 * w) % 97 \in 2..96
    PROVE  EndApart(u, v, x, y)
<1> DEFINE uu == (10 * u + x) % 97
           vv == (10 * v + y) % 97
           ww == (10 * w) % 97
<1>0. u \in Int /\ v \in Int /\ w \in Int
  BY DEF Far
<1>1. PICK q \in Int : u = v + e * w + 97 * q
  BY DEF Far
<1>2. 10 * u + x \in Int /\ 10 * v + y \in Int /\ 10 * w \in Int /\ e \in -9..9 /\ e # 0
  BY <1>0
<1>3. PICK a \in Int : 10 * u + x = 97 * a + uu
  BY <1>2, Quotient
<1>4. PICK b \in Int : 10 * v + y = 97 * b + vv
  BY <1>2, Quotient
<1>5. PICK r \in Int : 10 * w = 97 * r + ww
  BY <1>2, Quotient
<1>6. uu \in Int /\ vv \in Int /\ ww \in 2..96 /\ ww - 1 \in 1..95
  BY <1>2
<1>7. x = y - e /\ x \in Int /\ y \in Int
  OBVIOUS
<1> HIDE DEF uu, vv, ww
<1>8. e \in Int /\ e * w \in Int /\ e * ww \in Int /\ e * r \in Int
  BY <1>0, <1>2, <1>6
<1>9. 10 * (e * w) = 97 * (e * r) + e * ww
  <2>1. 10 * (e * w) = e * (10 * w)
    BY <1>0, <1>8
  <2>2. e * (97 * r + ww) = 97 * (e * r) + e * ww
    BY <1>6, <1>8
  <2> QED BY <1>5, <2>1, <2>2
<1>10. SUFFICES ASSUME uu = vv PROVE FALSE
  BY DEF EndApart, uu, vv
<1>11. e * ww - e = 97 * (a - b - 10 * q - e * r)
  BY <1>0, <1>1, <1>3, <1>4, <1>6, <1>7, <1>8, <1>9, <1>10
<1>12. e * (ww - 1) = e * ww - e
  BY <1>6, <1>8
<1> DEFINE m == a - b - 10 * q - e * r
           z == ww - 1
<1>13. m \in Int /\ z \in 1..95 /\ e * z = 97 * m
  BY <1>6, <1>8, <1>11, <1>12
<1> HIDE DEF m, z
<1> QED BY <1>2, <1>13, NotAMultiple

\* The first and the last digit.
LEMMA Mod97TellsEnds ==
    ASSUME NEW a, NEW b, NEW n \in 2..68, Len(a) = n, NEW x \in 0..9, NEW y \in 0..9, x # y,
           Swapped(a, b, n, 1, x, y)
    PROVE  Mod97(a) # Mod97(b)
<1>1. /\ a \in Seq(0..9) /\ b \in Seq(0..9) /\ Len(b) = n
      /\ a[n] = x /\ a[1] = y /\ b[n] = y /\ b[1] = x
      /\ \A k \in 1..n : k # n /\ k # 1 => b[k] = a[k]
  BY DEF Swapped
<1> DEFINE f == Remainders(a)
           g == Remainders(b)
           e == y - x
           T == {k \in 0..(n - 1) : k > 0 => Far(f[k], g[k], e, Powers[k])}
<1>2. f[0] = 0 /\ \A k \in 1..n : f[k - 1] \in 0..96 /\ f[k] = (10 * f[k - 1] + a[k]) % 97
  <2>1. f[0] = 0
    BY <1>1, RemaindersAre
  <2>2. ASSUME NEW k \in 1..n PROVE f[k - 1] \in 0..96 /\ f[k] = (10 * f[k - 1] + a[k]) % 97
    BY <1>1, RemainderStep
  <2> QED BY <2>1, <2>2
<1>3. g[0] = 0 /\ \A k \in 1..n : g[k - 1] \in 0..96 /\ g[k] = (10 * g[k - 1] + b[k]) % 97
  <2>1. g[0] = 0
    BY <1>1, RemaindersAre
  <2>2. ASSUME NEW k \in 1..n PROVE g[k - 1] \in 0..96 /\ g[k] = (10 * g[k - 1] + b[k]) % 97
    <3>1. k \in 1..Len(b)
      BY <1>1
    <3> QED BY <1>1, <3>1, RemainderStep
  <2> QED BY <2>1, <2>2
<1>4. \A k \in 1..n : a[k] \in 0..9 /\ b[k] \in 0..9
  BY <1>1
<1>5. e \in Int /\ n - 1 \in Nat /\ 1 \in 1..n /\ n \in 1..n
  OBVIOUS
<1> HIDE DEF f, g
<1>6. 0 \in T
  BY <1>5
<1>7. ASSUME NEW k \in 1..(n - 1), k - 1 \in T PROVE k \in T
  <2>1. k \in 1..n /\ k \in 0..(n - 1) /\ k > 0 /\ k # n
    OBVIOUS
  <2>2. CASE k = 1
    <3>1. f[0] = 0 /\ g[0] = 0 /\ f[1] = (10 * f[0] + y) % 97 /\ g[1] = (10 * g[0] + x) % 97
      BY <1>1, <1>2, <1>3, <1>5
    <3>2. f[1] = y /\ g[1] = x
      BY <3>1
    <3>4. Far(f[1], g[1], e, 1)
      BY <3>2, FarFirst
    <3> QED BY <2>1, <2>2, <3>4, PowersAre
  <2>3. CASE k # 1
    <3>1. k - 1 > 0 /\ k - 1 \in 1..67 /\ (k - 1) + 1 = k /\ k - 1 \in 1..68
      BY <2>1, <2>3
    <3>2. Far(f[k - 1], g[k - 1], e, Powers[k - 1])
      BY <1>7, <3>1
    <3>3. Powers[k] = (10 * Powers[k - 1]) % 97
      <4>1. Powers[(k - 1) + 1] = (10 * Powers[k - 1]) % 97
        BY <3>1, PowersAre
      <4> QED BY <3>1, <4>1
    <3>5. f[k] = (10 * f[k - 1] + a[k]) % 97 /\ g[k] = (10 * g[k - 1] + a[k]) % 97 /\ a[k] \in 0..9
      BY <1>1, <1>2, <1>3, <1>4, <2>1, <2>3
    <3> HIDE DEF e
    <3>6. Far((10 * f[k - 1] + a[k]) % 97, (10 * g[k - 1] + a[k]) % 97, e, (10 * Powers[k - 1]) % 97)
      BY <3>2, <3>5, FarStep
    <3>7. Far(f[k], g[k], e, Powers[k])
      BY <3>3, <3>5, <3>6
    <3> QED BY <2>1, <3>7
  <2> QED BY <2>2, <2>3
<1>8. 0..(n - 1) \subseteq T
  <2> HIDE DEF T
  <2> QED BY <1>5, <1>6, <1>7, Climb
<1>9. Far(f[n - 1], g[n - 1], e, Powers[n - 1])
  <2>1. n - 1 \in 0..(n - 1) /\ n - 1 > 0
    OBVIOUS
  <2> QED BY <1>8, <2>1
<1>10. (10 * Powers[n - 1]) % 97 \in 2..96
  <2>1. n - 1 \in 1..67 /\ n \in 1..68 /\ n > 1 /\ (n - 1) + 1 = n
    OBVIOUS
  <2>2. Powers[(n - 1) + 1] = (10 * Powers[n - 1]) % 97
    BY <2>1, PowersAre
  <2>3. Powers[n] \in 1..96 /\ Powers[n] # 1
    BY <2>1, PowersAre
  <2>4. \A z \in 1..96 : z # 1 => z \in 2..96
    OBVIOUS
  <2> QED BY <2>1, <2>2, <2>3, <2>4
<1>11. EndApart(f[n - 1], g[n - 1], x, y)
  <2>1. e = y - x
    OBVIOUS
  <2> HIDE DEF e, T
  <2> QED BY <1>9, <1>10, <2>1, FarEnd
<1>12. f[n] = (10 * f[n - 1] + x) % 97 /\ g[n] = (10 * g[n - 1] + y) % 97
  BY <1>1, <1>2, <1>3, <1>5
<1>13. f[n] # g[n]
  BY <1>11, <1>12 DEF EndApart
<1> QED BY <1>1, <1>13 DEF Mod97, f, g
-----------------------------------------------------------------------------
(* Two digits of an identifier, and of its spelling *)

LEMMA SpelledSwap ==
    ASSUME NEW s \in Seq(0..35), NEW i \in 1..Len(s), NEW j \in 1..Len(s), i # j,
           s[i] \in 0..9, s[j] \in 0..9, Len(Spellings(s)[i]) # Len(Spellings(s)[j])
    PROVE  Swapped(InBase36(s), InBase36(Typo(Typo(s, i, s[j]), j, s[i])),
                   Len(Spellings(s)[i]), Len(Spellings(s)[j]), s[i], s[j])
<1> DEFINE m == Typo(s, i, s[j])
           t == Typo(m, j, s[i])
           p == Len(Spellings(s)[i])
           q == Len(Spellings(s)[j])
<1>1. m \in Seq(0..35) /\ Len(m) = Len(s) /\ m[j] = s[j]
  <2>1. IsTypo(s, m, Len(s), i, s[j])
    BY Mistyped
  <2> QED BY <2>1 DEF IsTypo
<1>2. Spelt(InBase36(s), InBase36(m), p, s[i], s[j]) /\ Len(Spellings(m)[j]) = q
  <2>1. j \in 0..Len(s)
    OBVIOUS
  <2> QED BY <2>1, SpelledTypo
<1> HIDE DEF m
<1>3. Spelt(InBase36(m), InBase36(t), q, s[j], s[i])
  BY <1>1, <1>2, SpelledTypo
<1> HIDE DEF t, p, q
<1>4. p # q
  BY DEF p, q
<1>5. Swapped(InBase36(s), InBase36(t), p, q, s[i], s[j])
  BY <1>2, <1>3, <1>4, SpeltTwice
<1> QED BY <1>5 DEF m, t, p, q

\* Where the digits are in the spelling.
LEMMA SpellingGrows ==
    ASSUME NEW s \in Seq(0..35), NEW k \in 1..Len(s)
    PROVE  /\ Len(Spellings(s)[k - 1]) \in Nat
           /\ Len(Spellings(s)[k]) = Len(Spellings(s)[k - 1]) + Len(Decimal(s[k]))
           /\ Len(Decimal(s[k])) \in 1..2
           /\ s[k] \in 0..9 => Len(Decimal(s[k])) = 1
<1>1. k - 1 \in 0..Len(s) /\ s[k] \in 0..35
  <2>1. s[k] \in 0..35
    BY ElementOfSeq
  <2> QED BY <2>1
<1>2. Spellings(s)[k - 1] \in Seq(0..9) /\ Spellings(s)[k] = Spellings(s)[k - 1] \o Decimal(s[k])
  BY <1>1, SpellingsAre
<1>3. /\ Decimal(s[k]) \in Seq(0..9) /\ Len(Decimal(s[k])) \in 1..2
      /\ s[k] < 10 => Decimal(s[k]) = <<s[k]>>
  BY <1>1, DecimalIs
<1>4. s[k] \in 0..9 => Len(Decimal(s[k])) = 1
  BY <1>3
<1>5. Len(Spellings(s)[k - 1] \o Decimal(s[k])) = Len(Spellings(s)[k - 1]) + Len(Decimal(s[k]))
  BY <1>2, <1>3, ConcatProperties
<1> QED BY <1>2, <1>3, <1>4, <1>5

LEMMA SpellingLength ==
    ASSUME NEW s \in Seq(0..35)
    PROVE  Len(InBase36(s)) \in Len(s)..(2 * Len(s))
<1> DEFINE n == Len(s)
           L(k) == Len(Spellings(s)[k])
           T == {k \in 0..n : L(k) \in k..(2 * k)}
<1>1. n \in Nat
  OBVIOUS
<1>2. L(0) = 0
  <2>1. Spellings(s)[0] = <<>>
    BY SpellingsAre
  <2> QED BY <2>1
<1>3. ASSUME NEW k \in 1..n PROVE \E d \in 1..2 : L(k) = L(k - 1) + d
  BY SpellingGrows
<1> HIDE DEF L
<1>4. 0 \in T
  BY <1>1, <1>2
<1>5. ASSUME NEW k \in 1..n, k - 1 \in T PROVE k \in T
  <2>1. PICK d \in 1..2 : L(k) = L(k - 1) + d
    BY <1>3
  <2>2. L(k - 1) \in (k - 1)..(2 * (k - 1))
    BY <1>5
  <2> QED BY <1>1, <2>1, <2>2
<1>6. 0..n \subseteq T
  <2> HIDE DEF T, n
  <2> QED BY <1>1, <1>4, <1>5, Climb
<1>7. L(n) \in n..(2 * n)
  BY <1>1, <1>6
<1> QED BY <1>7 DEF L, InBase36
-----------------------------------------------------------------------------
(* Account numbers: the first four characters move behind the others *)

Place(i, n) == IF i > 4 THEN i - 4 ELSE n - 4 + i

IsMoved(s, m, n) ==
    /\ m \in Seq(0..35) /\ Len(m) = n
    /\ \A i \in 1..n : Place(i, n) \in 1..n /\ m[Place(i, n)] = s[i]
    /\ \A k \in 1..n : \E i \in 1..n : k = Place(i, n)

LEMMA MovedIs ==
    ASSUME NEW s \in Seq(0..35), Len(s) > 4
    PROVE  IsMoved(s, Moved(s), Len(s))
<1> DEFINE n == Len(s)
           a == SubSeq(s, 5, n)
           b == SubSeq(s, 1, 4)
<1>1. n \in Nat /\ n > 4 /\ 4 \in 1..n /\ \A k \in 5..n : s[k] \in 0..35
  <2>1. \A k \in 1..n : s[k] \in 0..35
    BY ElementOfSeq
  <2>2. \A k \in 5..n : k \in 1..n
    OBVIOUS
  <2> QED BY <2>1, <2>2
<1>2. b \in Seq(0..35) /\ Len(b) = 4 /\ \A k \in 1..4 : b[k] = s[k]
  BY <1>1, FirstOnes
<1>3. a \in Seq(0..35) /\ Len(a) = n - 4 /\ \A k \in 1..(n - 4) : a[k] = s[k + 4]
  <2> HIDE DEF n
  <2>1. n \in Int /\ 5 \in Int /\ 5 <= n /\ n - 5 + 1 = n - 4
    BY <1>1
  <2>2. /\ a \in Seq(0..35)
        /\ Len(a) = IF 5 <= n THEN n - 5 + 1 ELSE 0
        /\ \A k \in 1..(n - 5 + 1) : a[k] = s[5 + k - 1]
    BY <1>1, <2>1, SubSeqProperties
  <2>3. \A k \in 1..(n - 4) : 5 + k - 1 = k + 4
    BY <1>1
  <2> QED BY <2>1, <2>2, <2>3
<1>4. Moved(s) = a \o b
  BY DEF Moved
<1> HIDE DEF a, b, n
<1>5. /\ a \o b \in Seq(0..35) /\ Len(a \o b) = n
      /\ \A k \in 1..n : (a \o b)[k] = IF k <= n - 4 THEN a[k] ELSE b[k - (n - 4)]
  <2>1. /\ a \o b \in Seq(0..35) /\ Len(a \o b) = Len(a) + Len(b)
        /\ \A k \in 1..(Len(a) + Len(b)) : (a \o b)[k] = IF k <= Len(a) THEN a[k] ELSE b[k - Len(a)]
    BY <1>2, <1>3, ConcatProperties
  <2>2. Len(a) = n - 4 /\ Len(a) + Len(b) = n
    BY <1>1, <1>2, <1>3
  <2> QED BY <2>1, <2>2
<1>6. ASSUME NEW i \in 1..n PROVE Place(i, n) \in 1..n /\ (a \o b)[Place(i, n)] = s[i]
  <2>1. CASE i > 4
    <3>1. Place(i, n) = i - 4 /\ i - 4 \in 1..n /\ i - 4 <= n - 4 /\ i - 4 \in 1..(n - 4) /\ (i - 4) + 4 = i
      BY <1>1, <2>1 DEF Place
    <3> QED BY <1>3, <1>5, <3>1
  <2>2. CASE ~(i > 4)
    <3>1. Place(i, n) = n - 4 + i /\ n - 4 + i \in 1..n /\ ~(n - 4 + i <= n - 4)
          /\ (n - 4 + i) - (n - 4) = i /\ i \in 1..4
      BY <1>1, <2>2 DEF Place
    <3> QED BY <1>2, <1>5, <3>1
  <2> QED BY <2>1, <2>2
<1>7. ASSUME NEW k \in 1..n PROVE \E i \in 1..n : k = Place(i, n)
  <2>1. CASE k <= n - 4
    <3>1. k + 4 \in 1..n /\ Place(k + 4, n) = k
      BY <1>1, <2>1 DEF Place
    <3> QED BY <3>1
  <2>2. CASE ~(k <= n - 4)
    <3>1. k - (n - 4) \in 1..n /\ Place(k - (n - 4), n) = k
      BY <1>1, <2>2 DEF Place
    <3> QED BY <3>1
  <2> QED BY <2>1, <2>2
<1> QED BY <1>4, <1>5, <1>6, <1>7 DEF IsMoved, n

LEMMA MovedTypo ==
    ASSUME NEW s \in Seq(0..35), Len(s) > 4, NEW i \in 1..Len(s), NEW d \in 0..9
    PROVE  /\ Moved(Typo(s, i, d)) = Typo(Moved(s), Place(i, Len(s)), d)
           /\ Moved(s) \in Seq(0..35) /\ Len(Moved(s)) = Len(s)
           /\ Place(i, Len(s)) \in 1..Len(s) /\ Moved(s)[Place(i, Len(s))] = s[i]
<1> DEFINE t == Typo(s, i, d)
           n == Len(s)
           m == Moved(s)
           q == Place(i, n)
           z == Typo(m, q, d)
<1>1. IsTypo(s, t, n, i, d) /\ n \in Nat /\ i \in 1..n
  BY Mistyped
<1>2. t \in Seq(0..35) /\ Len(t) = n /\ t[i] = d /\ \A k \in 1..n : k # i => t[k] = s[k]
  BY <1>1 DEF IsTypo
<1>3. IsMoved(s, m, n)
  BY MovedIs
<1> HIDE DEF t, m, n
<1>4. IsMoved(t, Moved(t), n)
  <2>1. Len(t) > 4
    BY <1>2 DEF n
  <2> QED BY <1>2, <2>1, MovedIs
<1>5. /\ m \in Seq(0..35) /\ Len(m) = n /\ q \in 1..n /\ m[q] = s[i]
      /\ \A k \in 1..n : Place(k, n) \in 1..n /\ m[Place(k, n)] = s[k]
      /\ \A k \in 1..n : \E j \in 1..n : k = Place(j, n)
  BY <1>1, <1>3 DEF IsMoved
<1>6. /\ Moved(t) \in Seq(0..35) /\ Len(Moved(t)) = n
      /\ \A k \in 1..n : Moved(t)[Place(k, n)] = t[k]
  BY <1>4 DEF IsMoved
<1>7. z \in Seq(0..35) /\ Len(z) = n /\ z[q] = d /\ \A k \in 1..n : k # q => z[k] = m[k]
  <2>1. IsTypo(m, z, Len(m), q, d)
    BY <1>5, Mistyped
  <2> QED BY <1>5, <2>1 DEF IsTypo
<1> HIDE DEF z
<1>8. ASSUME NEW k \in 1..n PROVE Moved(t)[k] = z[k]
  <2>1. PICK j \in 1..n : k = Place(j, n)
    BY <1>5
  <2>2. Moved(t)[k] = t[j] /\ m[k] = s[j]
    BY <1>5, <1>6, <2>1
  <2>3. CASE j = i
    <3>1. k = q
      BY <2>1, <2>3
    <3> QED BY <1>2, <1>7, <2>2, <2>3, <3>1
  <2>4. CASE j # i
    <3>1. k # q
      BY <1>1, <2>1, <2>4 DEF Place
    <3> QED BY <1>2, <1>7, <2>2, <2>4, <3>1
  <2> QED BY <2>3, <2>4
<1>9. Moved(t) = z
  <2>1. SameCodes(Moved(t), z, n)
    BY <1>6, <1>7, <1>8 DEF SameCodes
  <2> QED BY <2>1, SameCode
<1> QED BY <1>5, <1>9 DEF t, z, m, n

IbanRest(s) == Mod97(InBase36(Moved(s)))

\* compute_iban
LEMMA IbanCatches ==
    ASSUME NEW s \in Seq(0..35), Len(s) > 4, NEW i \in 1..Len(s), s[i] \in 0..9,
           NEW d \in 0..9, d # s[i]
    PROVE  IbanRest(s) # IbanRest(Typo(s, i, d))
<1> DEFINE m == Moved(s)
           q == Place(i, Len(s))
<1>1. /\ Moved(Typo(s, i, d)) = Typo(m, q, d) /\ m \in Seq(0..35) /\ Len(m) = Len(s)
      /\ q \in 1..Len(s) /\ m[q] = s[i]
  BY MovedTypo
<1> HIDE DEF m, q
<1>2. Spelt(InBase36(m), InBase36(Typo(m, q, d)), Len(Spellings(m)[q]), s[i], d)
  BY <1>1, SpelledTypo
<1>3. Mod97(InBase36(m)) # Mod97(InBase36(Typo(m, q, d)))
  BY <1>2, Mod97Tells
<1> QED BY <1>1, <1>3 DEF IbanRest, m

\* Digits next to each other in the number are next to each other in what is
\* spelled, or one is its first digit and the other its last.
LEMMA IbanCatchesSwaps ==
    ASSUME NEW s \in Seq(0..35), Len(s) \in 15..34, NEW i \in 1..Len(s), i + 1 \in 1..Len(s),
           s[i] \in 0..9, s[i + 1] \in 0..9, s[i] # s[i + 1]
    PROVE  IbanRest(s) # IbanRest(Typo(Typo(s, i, s[i + 1]), i + 1, s[i]))
<1> DEFINE n == Len(s)
           r == Typo(s, i, s[i + 1])
           m == Moved(s)
           p == Place(i, n)
           q == Place(i + 1, n)
           x == s[i]
           y == s[i + 1]
           t == Typo(r, i + 1, x)
           z == Typo(Typo(m, p, y), q, x)
<1>0. Len(s) > 4
  <2>1. \A u \in 15..34 : u > 4
    OBVIOUS
  <2> QED BY <2>1
<1>1. /\ Moved(r) = Typo(m, p, y) /\ m \in Seq(0..35) /\ Len(m) = n
      /\ p \in 1..n /\ m[p] = x
  <2>1. /\ Moved(Typo(s, i, y)) = Typo(Moved(s), Place(i, Len(s)), y)
        /\ Moved(s) \in Seq(0..35) /\ Len(Moved(s)) = Len(s)
        /\ Place(i, Len(s)) \in 1..Len(s) /\ Moved(s)[Place(i, Len(s))] = s[i]
    BY <1>0, MovedTypo
  <2> QED BY <2>1
<1>2. q \in 1..n /\ m[q] = y
  <2>1. Place(i + 1, Len(s)) \in 1..Len(s) /\ Moved(s)[Place(i + 1, Len(s))] = s[i + 1]
    BY <1>0, MovedTypo
  <2> QED BY <2>1
<1>3. r \in Seq(0..35) /\ Len(r) = n
  <2>1. IsTypo(s, r, n, i, y)
    BY Mistyped
  <2> QED BY <2>1 DEF IsTypo
<1>4. x \in 0..9 /\ y \in 0..9 /\ x # y /\ n \in 15..34 /\ i \in 1..n /\ i + 1 \in 1..n
  OBVIOUS
<1>5. Moved(t) = z
  <2> HIDE DEF r, n, x, m
  <2>1. Len(r) > 4 /\ i + 1 \in 1..Len(r)
    BY <1>3, <1>4
  <2>2. Moved(Typo(r, i + 1, x)) = Typo(Moved(r), Place(i + 1, Len(r)), x)
    BY <1>3, <1>4, <2>1, MovedTypo
  <2> QED BY <1>1, <1>3, <2>2
<1>6. Moved(s) = m
  OBVIOUS
<1> DEFINE P == Len(Spellings(m)[p])
           Q == Len(Spellings(m)[q])
           A == InBase36(m)
           B == InBase36(z)
<1> HIDE DEF m, r, n, x, y, z, t
<1>7. P # Q => Swapped(A, B, P, Q, x, y)
  <2>1. p # q
    BY <1>4 DEF Place
  <2> HIDE DEF p, q
  <2> QED BY <1>1, <1>2, <1>4, <2>1, SpelledSwap DEF z
<1>8. A \in Seq(0..9) /\ Len(A) \in 15..68
  <2>1. A \in Seq(0..9) /\ Len(A) \in n..(2 * n)
    BY <1>1, SpellingIs, SpellingLength
  <2>2. \A u \in 15..34 : \A v \in u..(2 * u) : v \in 15..68
    OBVIOUS
  <2> HIDE DEF A
  <2> QED BY <1>4, <2>1, <2>2
<1>9. CASE i = 4
  <2>1. p = n /\ q = 1
    BY <1>4, <1>9 DEF Place
  <2>2. P = Len(A)
    BY <1>1, <2>1 DEF InBase36
  <2>3. Q = 1
    <3>1. 1 \in 1..Len(m) /\ 1 - 1 = 0 /\ m[1] = y
      BY <1>1, <1>2, <1>4, <2>1
    <3>2. Len(Spellings(m)[0]) = 0
      <4>1. Spellings(m)[0] = <<>>
        BY <1>1, SpellingsAre
      <4> QED BY <4>1
    <3>3. /\ Len(Spellings(m)[1]) = Len(Spellings(m)[1 - 1]) + Len(Decimal(m[1]))
          /\ Len(Decimal(m[1])) = 1
      BY <1>1, <1>4, <3>1, SpellingGrows
    <3>4. Len(Spellings(m)[1]) = 1
      BY <3>1, <3>2, <3>3
    <3> QED BY <2>1, <3>4
  <2> HIDE DEF A, B, P, Q
  <2>6. P # Q /\ Len(A) \in 2..68
    <3>1. \A u \in 15..68 : u # 1 /\ u \in 2..68
      OBVIOUS
    <3> QED BY <1>8, <2>2, <2>3, <3>1
  <2>4. Swapped(A, B, Len(A), 1, x, y) /\ Len(A) \in 2..68
    BY <1>7, <2>2, <2>3, <2>6
  <2>5. Mod97(A) # Mod97(B)
    BY <1>4, <2>4, Mod97TellsEnds
  <2> QED BY <1>5, <1>6, <2>5 DEF IbanRest, A, B, t, r, x, y
<1>10. CASE i # 4
  <2>1. q = p + 1 /\ (p + 1) - 1 = p
    BY <1>4, <1>10 DEF Place
  <2>2. Q = P + 1
    <3> HIDE DEF p, q
    <3>1. p + 1 \in 1..Len(m) /\ m[p + 1] \in 0..9
      BY <1>1, <1>2, <1>4, <2>1
    <3>2. /\ Len(Spellings(m)[p + 1]) = Len(Spellings(m)[(p + 1) - 1]) + Len(Decimal(m[p + 1]))
          /\ Len(Decimal(m[p + 1])) = 1
      BY <1>1, <3>1, SpellingGrows
    <3> QED BY <2>1, <3>2
  <2>3. P \in Nat
    <3>1. p \in 0..Len(m)
      BY <1>1
    <3>2. Spellings(m)[p] \in Seq(0..9)
      BY <1>1, <3>1, SpellingsAre
    <3> QED BY <3>2
  <2> HIDE DEF A, B, P, Q
  <2>4. Swapped(A, B, P, P + 1, x, y)
    BY <1>7, <2>2, <2>3
  <2>5. Mod97(A) # Mod97(B)
    BY <1>4, <2>4, Mod97TellsNeighbours
  <2> QED BY <1>5, <1>6, <2>5 DEF IbanRest, A, B, t, r, x, y
<1> QED BY <1>9, <1>10
-----------------------------------------------------------------------------
(* Every checksum route *)

Call(slug, s) == [slug |-> slug, code |-> s]

LEMMA CheckIs ==
    ASSUME NEW slug, NEW s
    PROVE  /\ Call(slug, s).slug = slug /\ Call(slug, s).code = s
           /\ slug = "iban" => Check(Call(slug, s)) = Iban(Call(slug, s))
           /\ slug = "vin" => Check(Call(slug, s)) = Vin(Call(slug, s))
           /\ slug = "isbn" => Check(Call(slug, s)) = Isbn(Call(slug, s))
           /\ slug = "ean" => Check(Call(slug, s)) = Ean(Call(slug, s))
           /\ slug = "routing" => Check(Call(slug, s)) = Routing(Call(slug, s))
           /\ slug = "luhn" => Check(Call(slug, s)) = Luhn(Call(slug, s))
           /\ slug = "imei" => Check(Call(slug, s)) = Imei(Call(slug, s))
           /\ slug = "siret" => Check(Call(slug, s)) = Siret(Call(slug, s))
           /\ slug = "isin" => Check(Call(slug, s)) = Isin(Call(slug, s))
<1>1. Call(slug, s).slug = slug /\ Call(slug, s).code = s
  BY DEF Call
<1>2. slug = "iban" => Check(Call(slug, s)) = Iban(Call(slug, s))
  BY <1>1 DEF Check
<1>3. slug = "vin" => Check(Call(slug, s)) = Vin(Call(slug, s))
  BY <1>1 DEF Check
<1>4. slug = "isbn" => Check(Call(slug, s)) = Isbn(Call(slug, s))
  BY <1>1 DEF Check
<1>5. slug = "ean" => Check(Call(slug, s)) = Ean(Call(slug, s))
  BY <1>1 DEF Check
<1>6. slug = "routing" => Check(Call(slug, s)) = Routing(Call(slug, s))
  BY <1>1 DEF Check
<1>7. slug = "luhn" => Check(Call(slug, s)) = Luhn(Call(slug, s))
  BY <1>1 DEF Check
<1>8. slug = "imei" => Check(Call(slug, s)) = Imei(Call(slug, s))
  BY <1>1 DEF Check
<1>9. slug = "siret" => Check(Call(slug, s)) = Siret(Call(slug, s))
  BY <1>1 DEF Check
<1>10. slug = "isin" => Check(Call(slug, s)) = Isin(Call(slug, s))
  BY <1>1 DEF Check
<1> QED BY <1>1, <1>2, <1>3, <1>4, <1>5, <1>6, <1>7, <1>8, <1>9, <1>10

LEMMA IbanAccepts ==
    ASSUME NEW s, Accepts(Iban(Call("iban", s)))
    PROVE  Len(s) \in 15..34 /\ IbanRest(s) = 1
<1>1. Call("iban", s).code = s
  BY CheckIs
<1>2. Len(s) \in 15..34 /\ s[1] > 9 /\ s[2] > 9 /\ s[3] < 10 /\ s[4] < 10
  BY <1>1, RefusedIsNot DEF Iban
<1>3. Iban(Call("iban", s)) = Paid(IbanRest(s) = 1)
  BY <1>1, <1>2 DEF Iban, IbanRest
<1> QED BY <1>2, <1>3, AcceptsPaid

\* Where a code may be mistyped.
LEMMA DigitsOf ==
    ASSUME NEW s \in Seq(0..35), NEW i \in Digits(s)
    PROVE  i \in 1..Len(s) /\ s[i] \in 0..9
<1>1. i \in 1..Len(s) /\ s[i] < 10
  BY DEF Digits
<1>2. s[i] \in 0..35
  BY <1>1, ElementOfSeq
<1>3. \A x \in 0..35 : x < 10 => x \in 0..9
  OBVIOUS
<1> QED BY <1>1, <1>2, <1>3

LEMMA CodesAreSequences ==
    ASSUME NEW slug \in Checksummed, NEW s \in Codes(slug)
    PROVE  s \in Seq(0..35)
<1>1. CASE slug \in {"iban", "isbn"}
  BY <1>1 DEF Codes
<1>2. CASE slug = "isin"
  BY <1>2 DEF Codes
<1>3. CASE slug = "vin"
  <2>1. s \in Seq((0..35) \ {18, 24, 26})
    BY <1>3 DEF Codes
  <2> QED BY <2>1
<1>4. CASE slug \in {"ean", "routing", "luhn", "imei", "siret"}
  <2>1. s \in Seq(0..9)
    BY <1>4 DEF Codes
  <2> QED BY <2>1
<1> QED BY <1>1, <1>2, <1>3, <1>4 DEF Checksummed

\* One character of a code is another digit.
OtherDigit(s, i, d) ==
    s \in Seq(0..35) /\ i \in 1..Len(s) /\ s[i] \in 0..9 /\ d \in 0..9 /\ d # s[i]

LEMMA VinAnswer ==
    ASSUME NEW s
    PROVE  Check(Call("vin", s)) = Paid(s[9] = VinCheck(SumOf(VinTerms(s))))
<1>1. Check(Call("vin", s)) = Vin(Call("vin", s)) /\ Call("vin", s).code = s
  BY CheckIs
<1>2. Vin(Call("vin", s)) = Paid(s[9] = VinCheck(SumOf(VinTerms(s))))
  <2> DEFINE c == Call("vin", s)
  <2>1. c.code = s
    BY <1>1
  <2> HIDE DEF c
  <2>2. SumOf([k \in 1..17 |-> VinTrans[c.code[k]] * VinWeights[k]]) = SumOf(VinTerms(s))
    BY <2>1 DEF VinTerms
  <2>3. Vin(c) = Paid(s[9] = VinCheck(SumOf(VinTerms(s))))
    BY <2>1, <2>2 DEF Vin, VinCheck
  <2> QED BY <2>3 DEF c
<1> QED BY <1>1, <1>2

LEMMA VinRoute ==
    ASSUME NEW s, NEW i, NEW d, OtherDigit(s, i, d), Len(s) = 17, Accepts(Check(Call("vin", s)))
    PROVE  ~Accepts(Check(Call("vin", Typo(s, i, d))))
<1> DEFINE t == Typo(s, i, d)
<1>1. s \in Seq(0..35) /\ i \in 1..17 /\ s[i] \in 0..9 /\ d \in 0..9 /\ d # s[i]
  BY DEF OtherDigit
<1>2. s[9] = VinCheck(SumOf(VinTerms(s)))
  BY VinAnswer, AcceptsPaid
<1>3. t[9] # VinCheck(SumOf(VinTerms(t)))
  BY <1>1, <1>2, VinCatches
<1> QED BY <1>3, VinAnswer, AcceptsPaid

LEMMA IsbnAnswer ==
    ASSUME NEW s
    PROVE  /\ Len(s) = 10 => Check(Call("isbn", s)) = Isbn10(s)
           /\ Len(s) = 13 => Check(Call("isbn", s)) = Isbn13(s)
           /\ Len(s) \notin {10, 13} => Check(Call("isbn", s)) = Refused("invalid_length")
<1> DEFINE c == Call("isbn", s)
<1>1. Check(c) = Isbn(c) /\ c.code = s
  BY CheckIs
<1> HIDE DEF c
<1>2. ASSUME Len(s) = 10 PROVE Isbn(c) = Isbn10(s)
  BY <1>1, <1>2 DEF Isbn
<1>3. ASSUME Len(s) = 13 PROVE Isbn(c) = Isbn13(s)
  BY <1>1, <1>3 DEF Isbn
<1>4. ASSUME Len(s) \notin {10, 13} PROVE Isbn(c) = Refused("invalid_length")
  BY <1>1, <1>4 DEF Isbn
<1> QED BY <1>1, <1>2, <1>3, <1>4 DEF c

LEMMA IsbnRoute ==
    ASSUME NEW s, NEW i, NEW d, OtherDigit(s, i, d), Accepts(Check(Call("isbn", s)))
    PROVE  ~Accepts(Check(Call("isbn", Typo(s, i, d))))
<1> DEFINE t == Typo(s, i, d)
<1>1. s \in Seq(0..35) /\ i \in 1..Len(s) /\ s[i] \in 0..9 /\ d \in 0..9 /\ d # s[i]
  BY DEF OtherDigit
<1>2. Len(t) = Len(s)
  <2>1. IsTypo(s, t, Len(s), i, d)
    BY <1>1, Mistyped
  <2> QED BY <2>1 DEF IsTypo
<1> HIDE DEF t
<1>3. CASE Len(s) = 10
  <2>1. Accepts(Isbn10(s)) /\ Check(Call("isbn", t)) = Isbn10(t)
    BY <1>2, <1>3, IsbnAnswer
  <2>2. ~Accepts(Isbn10(t))
    BY <1>1, <1>3, <2>1, Isbn10Catches DEF t
  <2> QED BY <2>1, <2>2 DEF t
<1>4. CASE Len(s) = 13
  <2>1. Accepts(Isbn13(s)) /\ Check(Call("isbn", t)) = Isbn13(t)
    BY <1>2, <1>4, IsbnAnswer
  <2>2. ~Accepts(Isbn13(t))
    BY <1>1, <1>4, <2>1, Isbn13Catches DEF t
  <2> QED BY <2>1, <2>2 DEF t
<1>5. CASE Len(s) \notin {10, 13}
  <2>1. Check(Call("isbn", t)) = Refused("invalid_length")
    BY <1>2, <1>5, IsbnAnswer
  <2> QED BY <2>1, RefusedIsNot DEF t
<1> QED BY <1>3, <1>4, <1>5

LEMMA EanRoute ==
    ASSUME NEW s \in Seq(0..9), NEW i, NEW d, OtherDigit(s, i, d), Len(s) \in {8, 13},
           Accepts(Check(Call("ean", s)))
    PROVE  ~Accepts(Check(Call("ean", Typo(s, i, d))))
<1> DEFINE c == Call("ean", s)
           e == Call("ean", Typo(s, i, d))
<1>1. /\ c.code = s /\ e.code = [s EXCEPT ![i] = d]
      /\ Check(c) = Ean(c) /\ Check(e) = Ean(e)
  BY CheckIs DEF Typo
<1>2. i \in 1..Len(s) /\ d \in 0..9 /\ d # s[i]
  BY DEF OtherDigit
<1>3. Accepts(Ean(c))
  BY <1>1
<1> HIDE DEF c, e
<1>4. /\ c.code \in Seq(0..9) /\ Len(c.code) \in {8, 13} /\ i \in 1..Len(c.code)
      /\ e.code = [c.code EXCEPT ![i] = d] /\ d # c.code[i]
  BY <1>1, <1>2
<1>5. ~Accepts(Ean(e))
  BY <1>2, <1>3, <1>4, EanCatches
<1> QED BY <1>1, <1>5 DEF e

LEMMA RoutingRoute ==
    ASSUME NEW s \in Seq(0..9), NEW i, NEW d, OtherDigit(s, i, d), Len(s) = 9,
           Accepts(Check(Call("routing", s)))
    PROVE  ~Accepts(Check(Call("routing", Typo(s, i, d))))
<1> DEFINE c == Call("routing", s)
           e == Call("routing", Typo(s, i, d))
<1>1. /\ c.code = s /\ e.code = [s EXCEPT ![i] = d]
      /\ Check(c) = Routing(c) /\ Check(e) = Routing(e)
  BY CheckIs DEF Typo
<1>2. i \in 1..9 /\ d \in 0..9 /\ d # s[i]
  BY DEF OtherDigit
<1>3. Accepts(Routing(c))
  BY <1>1
<1> HIDE DEF c, e
<1>4. /\ c.code \in Seq(0..9) /\ Len(c.code) = 9
      /\ e.code = [c.code EXCEPT ![i] = d] /\ d # c.code[i]
  BY <1>1, <1>2
<1>5. ~Accepts(Routing(e))
  BY <1>2, <1>3, <1>4, RoutingCatches
<1> QED BY <1>1, <1>5 DEF e

LEMMA LuhnAnswer ==
    ASSUME NEW slug \in {"luhn", "imei", "siret"}, NEW s
    PROVE  Accepts(Check(Call(slug, s))) <=> LuhnValid(s)
<1>1. Check(Call(slug, s)) = Paid(LuhnValid(s))
  BY CheckIs DEF Luhn, Imei, Siret
<1>2. LuhnValid(s) \in BOOLEAN
  BY DEF LuhnValid
<1> QED BY <1>1, <1>2, AcceptsPaid

LEMMA LuhnRoute ==
    ASSUME NEW slug \in {"luhn", "imei", "siret"}, NEW s \in Seq(0..9), NEW i, NEW d,
           OtherDigit(s, i, d), Accepts(Check(Call(slug, s)))
    PROVE  ~Accepts(Check(Call(slug, Typo(s, i, d))))
<1>1. i \in 1..Len(s) /\ d \in 0..9 /\ d # s[i]
  BY DEF OtherDigit
<1>2. LuhnValid(s)
  BY LuhnAnswer
<1>3. ~LuhnValid(Typo(s, i, d))
  BY <1>1, <1>2, LuhnCatches DEF Typo
<1> QED BY <1>3, LuhnAnswer

LEMMA IsinAnswer ==
    ASSUME NEW s
    PROVE  Accepts(Check(Call("isin", s))) <=> LuhnValid(IsinDigits(s))
<1> DEFINE c == Call("isin", s)
<1>1. Check(c) = Isin(c) /\ c.code = s
  BY CheckIs
<1> HIDE DEF c
<1>2. Isin(c) = Paid(LuhnValid(IsinDigits(s)))
  BY <1>1 DEF Isin, IsinDigits
<1>3. LuhnValid(IsinDigits(s)) \in BOOLEAN
  BY DEF LuhnValid
<1> QED BY <1>1, <1>2, <1>3, AcceptsPaid DEF c

LEMMA IsinRoute ==
    ASSUME NEW s, NEW i, NEW d, OtherDigit(s, i, d), Len(s) = 12, s[12] < 10,
           Accepts(Check(Call("isin", s)))
    PROVE  ~Accepts(Check(Call("isin", Typo(s, i, d))))
<1>1. s \in Seq(0..35) /\ i \in 1..12 /\ s[i] \in 0..9 /\ d \in 0..9 /\ d # s[i]
  BY DEF OtherDigit
<1>2. s[12] \in 0..9
  <2>1. 12 \in 1..Len(s)
    OBVIOUS
  <2>2. s[12] \in 0..35
    BY <1>1, <2>1, ElementOfSeq
  <2> QED BY <2>2
<1>3. LuhnValid(IsinDigits(s))
  BY IsinAnswer
<1>4. ~LuhnValid(IsinDigits(Typo(s, i, d)))
  BY <1>1, <1>2, <1>3, IsinCatches
<1> QED BY <1>4, IsinAnswer

LEMMA IbanRoute ==
    ASSUME NEW s, NEW i, NEW d, OtherDigit(s, i, d), Accepts(Check(Call("iban", s)))
    PROVE  ~Accepts(Check(Call("iban", Typo(s, i, d))))
<1> DEFINE t == Typo(s, i, d)
<1>1. s \in Seq(0..35) /\ i \in 1..Len(s) /\ s[i] \in 0..9 /\ d \in 0..9 /\ d # s[i]
  BY DEF OtherDigit
<1>2. Len(s) \in 15..34 /\ IbanRest(s) = 1
  BY CheckIs, IbanAccepts
<1>3. IbanRest(s) # IbanRest(t)
  <2>1. Len(s) > 4
    <3>1. \A u \in 15..34 : u > 4
      OBVIOUS
    <3> QED BY <1>2, <3>1
  <2> QED BY <1>1, <2>1, IbanCatches
<1>4. Accepts(Iban(Call("iban", t))) => IbanRest(t) = 1
  BY IbanAccepts
<1> QED BY <1>2, <1>3, <1>4, CheckIs

LEMMA SubstitutionCaught ==
    ASSUME NEW slug \in Checksummed, NEW s \in Codes(slug), NEW i \in Digits(s),
           NEW d \in 0..9, d # s[i], Accepts(Check(Call(slug, s)))
    PROVE  ~Accepts(Check(Call(slug, Typo(s, i, d))))
<1>1. OtherDigit(s, i, d)
  BY CodesAreSequences, DigitsOf DEF OtherDigit
<1>2. CASE slug = "iban"
  BY <1>1, <1>2, IbanRoute
<1>3. CASE slug = "vin"
  <2>1. Len(s) = 17
    BY <1>3 DEF Codes
  <2> QED BY <1>1, <1>3, <2>1, VinRoute
<1>4. CASE slug = "isbn"
  BY <1>1, <1>4, IsbnRoute
<1>5. CASE slug = "ean"
  <2>1. s \in Seq(0..9) /\ Len(s) \in {8, 13}
    BY <1>5 DEF Codes
  <2> QED BY <1>1, <1>5, <2>1, EanRoute
<1>6. CASE slug = "routing"
  <2>1. s \in Seq(0..9) /\ Len(s) = 9
    BY <1>6 DEF Codes
  <2> QED BY <1>1, <1>6, <2>1, RoutingRoute
<1>7. CASE slug \in {"luhn", "imei", "siret"}
  <2>1. s \in Seq(0..9)
    BY <1>7 DEF Codes
  <2> QED BY <1>1, <1>7, <2>1, LuhnRoute
<1>8. CASE slug = "isin"
  <2>1. Len(s) = 12 /\ s[12] < 10
    BY <1>8 DEF Codes
  <2> QED BY <1>1, <1>8, <2>1, IsinRoute
<1> QED BY <1>2, <1>3, <1>4, <1>5, <1>6, <1>7, <1>8 DEF Checksummed

LEMMA SwapCaught ==
    ASSUME NEW slug \in {"iban", "isbn"}, NEW s \in Seq(0..35), slug = "isbn" => Len(s) = 10,
           NEW i \in Digits(s), i + 1 \in Digits(s), s[i] # s[i + 1], Accepts(Check(Call(slug, s)))
    PROVE  ~Accepts(Check(Call(slug, [s EXCEPT ![i] = s[i + 1], ![i + 1] = s[i]])))
<1> DEFINE t == [s EXCEPT ![i] = s[i + 1], ![i + 1] = s[i]]
<1>1. /\ i \in 1..Len(s) /\ s[i] \in 0..9
      /\ i + 1 \in 1..Len(s) /\ s[i + 1] \in 0..9
  BY DigitsOf
<1>2. t = Typo(Typo(s, i, s[i + 1]), i + 1, s[i])
  BY DEF Typo
<1>3. CASE slug = "iban"
  <2>1. Len(s) \in 15..34 /\ IbanRest(s) = 1
    BY <1>3, CheckIs, IbanAccepts
  <2>2. IbanRest(s) # IbanRest(t)
    BY <1>1, <1>2, <2>1, IbanCatchesSwaps
  <2>3. Accepts(Iban(Call("iban", t))) => IbanRest(t) = 1
    BY IbanAccepts
  <2>4. Check(Call(slug, t)) = Iban(Call("iban", t))
    BY <1>3, CheckIs
  <2> QED BY <2>1, <2>2, <2>3, <2>4
<1>4. CASE slug = "isbn"
  <2>1. Len(s) = 10 /\ Len(t) = 10
    BY <1>4
  <2> HIDE DEF t
  <2>2. Check(Call(slug, s)) = Isbn10(s) /\ Check(Call(slug, t)) = Isbn10(t)
    BY <1>4, <2>1, IsbnAnswer
  <2>3. i \in 1..9
    <3>1. i \in 1..10 /\ i + 1 \in 1..10
      BY <1>1, <2>1
    <3> QED BY <3>1
  <2>4. ~Accepts(Isbn10(t))
    BY <1>1, <2>1, <2>2, <2>3, Isbn10CatchesSwaps DEF t
  <2> QED BY <2>2, <2>4 DEF t
<1> QED BY <1>3, <1>4

\* A call that was answered was answered with its checksum.
Answered ==
    /\ call \in Inputs
    /\ call.slug \in Checksummed => answer = Waiting \/ answer = Check(call)

LEMMA AnsweredSafe == CheckSpec => []Answered
<1>1. Init => Answered
  BY DEF Init, Answered
<1>2. Answered /\ [CheckCode \/ Elsewhere]_<<call, answer>> => Answered'
  BY DEF Answered, CheckCode, Elsewhere
<1> QED BY <1>1, <1>2, PTL DEF CheckSpec

\* One mistyped digit makes an identifier invalid whatever its length, on every
\* checksum route, and so do two neighbouring digits of an account number or an
\* ISBN-10 that are swapped (app/purecalc/routes/validations.py).
THEOREM TypingErrorsAreCaught == CheckSpec => []ErrorsAreCaught
<1>1. Answered => ErrorsAreCaught
  <2> SUFFICES ASSUME Answered, call.slug \in Checksummed, Accepts(answer)
               PROVE  /\ \A s \in Substitutions(call.code) : ~Accepts(Check([call EXCEPT !.code = s]))
                      /\ (call.slug = "iban" \/ (call.slug = "isbn" /\ Len(call.code) = 10)) =>
                            \A s \in Swaps(call.code) : ~Accepts(Check([call EXCEPT !.code = s]))
    BY DEF ErrorsAreCaught
  <2> DEFINE code == call.code
             slug == call.slug
  <2>1. code \in Codes(slug) /\ call = Call(slug, code)
    BY CodesAreRead DEF Answered, Call
  <2>2. Accepts(Check(Call(slug, code)))
    <3>1. ~Accepts(Waiting)
      BY DEF Accepts, Waiting
    <3>2. answer = Check(call)
      BY <3>1 DEF Answered
    <3> QED BY <2>1, <3>2
  <2>3. ASSUME NEW s PROVE [call EXCEPT !.code = s] = Call(slug, s)
    <3>1. [[slug |-> slug, code |-> code] EXCEPT !.code = s] = [slug |-> slug, code |-> s]
      OBVIOUS
    <3> QED BY <2>1, <3>1 DEF Call
  <2> HIDE DEF code, slug
  <2>4. ASSUME NEW s \in Substitutions(code) PROVE ~Accepts(Check(Call(slug, s)))
    <3>1. PICK i \in Digits(code), d \in 0..9 : d # code[i] /\ s = [code EXCEPT ![i] = d]
      BY DEF Substitutions
    <3>2. s = Typo(code, i, d)
      BY <3>1 DEF Typo
    <3>3. ~Accepts(Check(Call(slug, Typo(code, i, d))))
      BY <2>1, <2>2, <3>1, SubstitutionCaught DEF slug
    <3> QED BY <3>2, <3>3
  <2>5. ASSUME slug = "iban" \/ (slug = "isbn" /\ Len(code) = 10), NEW s \in Swaps(code)
        PROVE  ~Accepts(Check(Call(slug, s)))
    <3>1. PICK i \in Digits(code) : /\ i + 1 \in Digits(code) /\ code[i] # code[i + 1]
                                    /\ s = [code EXCEPT ![i] = code[i + 1], ![i + 1] = code[i]]
      BY DEF Swaps
    <3>2. code \in Seq(0..35) /\ slug \in {"iban", "isbn"} /\ (slug = "isbn" => Len(code) = 10)
      BY <2>1, <2>5 DEF Codes
    <3> QED BY <2>2, <3>1, <3>2, SwapCaught
  <2> QED BY <2>3, <2>4, <2>5 DEF code, slug
<1> QED BY <1>1, AnsweredSafe, PTL
=============================================================================
