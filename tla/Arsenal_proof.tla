--------------------------- MODULE Arsenal_proof ---------------------------
(***************************************************************************)
(* The economy, the cached tower stats, the pairs of matrix towers and the *)
(* buff accumulators stay consistent, for any catalogue on offer, any      *)
(* grid, any amounts and any bounds.                                       *)
(***************************************************************************)
EXTENDS Arsenal, FiniteSetTheorems, WellFoundedInduction, TLAPS

(***************************************************************************)
(* Counting up                                                             *)
(***************************************************************************)
\* Numbers have a least one.
LEMMA ArLeast == ASSUME NEW T, T \subseteq Nat, T # {} PROVE \E n \in T : \A m \in T : n <= m
<1> DEFINE R == OpToRel(<, Nat)
<1>1. IsWellFoundedOn(R, Nat)
  BY NatLessThanWellFounded
<1>2. \A m, n \in Nat : m < n => <<m, n>> \in R
  BY DEF OpToRel
<1> HIDE DEF R
<1>3. PICK n \in T : \A m \in T : ~(<<m, n>> \in R)
  BY <1>1, WFMin
<1>4. ASSUME NEW m \in T PROVE n <= m
  <2>1. m \in Nat /\ n \in Nat
    OBVIOUS
  <2>2. ~(m < n)
    BY <1>2, <1>3, <2>1
  <2> QED BY <2>1, <2>2
<1> QED BY <1>4

\* What holds of 0 and passes from each number to the next holds of all.
LEMMA ArInduct == ASSUME NEW T, 0 \in T, \A n \in Nat : n \in T => n + 1 \in T PROVE Nat \subseteq T
<1> SUFFICES ASSUME ~(Nat \subseteq T) PROVE FALSE
  OBVIOUS
<1> DEFINE U == Nat \ T
<1>1. PICK n \in U : \A m \in U : n <= m
  <2>1. U \subseteq Nat /\ U # {}
    OBVIOUS
  <2> HIDE DEF U
  <2> QED BY <2>1, ArLeast
<1>2. n \in Nat \ {0} /\ n - 1 \in Nat /\ n - 1 + 1 = n
  BY <1>1
<1>3. n - 1 \notin U
  BY <1>1, <1>2
<1> QED BY <1>1, <1>2, <1>3

(***************************************************************************)
(* The sum of the running buffs                                            *)
(***************************************************************************)
Lasting == DOMAIN Deltas \cup {"SHIELD"}
Buff == [effect : Lasting, left : Int]

LEMMA ArPart == ASSUME NEW b \in Buff, NEW stat PROVE Part(b, stat) \in Int
BY DEF Part, Buff, Lasting, Deltas

\* The partial sums of a list of buffs.
Sums(f, buffs, stat) ==
  f = [n \in 0..Len(buffs) |-> IF n = 0 THEN 0 ELSE f[n - 1] + Part(buffs[n], stat)]

LEMMA ArSums ==
  ASSUME NEW buffs \in Seq(Buff), NEW stat
  PROVE  \E f \in [0 .. Len(buffs) -> Int] : Sums(f, buffs, stat) /\ SumOf(buffs, stat) = f[Len(buffs)]
<1> DEFINE L == Len(buffs)
           At(f, n) == f = [i \in 0 .. n |-> IF i = 0 THEN 0 ELSE f[i - 1] + Part(buffs[i], stat)]
           T == {n \in Nat : n <= L => \E f \in [0 .. n -> Int] : At(f, n)}
<1>1. L \in Nat /\ \A i \in 1 .. L : buffs[i] \in Buff
  OBVIOUS
<1>2. Nat \subseteq T
  <2>1. 0 \in T
    <3> DEFINE z == [i \in 0 .. 0 |-> 0]
    <3>1. \A i \in 0 .. 0 : i = 0 /\ z[i] = 0
      OBVIOUS
    <3>2. z \in [0 .. 0 -> Int]
      BY <3>1
    <3>3. z = [i \in 0 .. 0 |-> IF i = 0 THEN 0 ELSE z[i - 1] + Part(buffs[i], stat)]
      BY <3>1
    <3> HIDE DEF z, At
    <3> QED BY <3>2, <3>3 DEF At
  <2>2. ASSUME NEW n \in Nat, n \in T PROVE n + 1 \in T
    <3>1. SUFFICES ASSUME n + 1 <= L PROVE \E f \in [0 .. n + 1 -> Int] : At(f, n + 1)
      <4> HIDE DEF At, L
      <4> QED OBVIOUS
    <3>2. PICK f \in [0 .. n -> Int] : At(f, n)
      BY <2>2, <3>1, <1>1
    <3> DEFINE z == [i \in 0 .. n + 1 |-> IF i = n + 1 THEN f[n] + Part(buffs[n + 1], stat) ELSE f[i]]
    <3>3. Part(buffs[n + 1], stat) \in Int
      BY <1>1, <3>1, ArPart
    <3>4. z \in [0 .. n + 1 -> Int]
      BY <3>3
    <3>5. ASSUME NEW i \in 0 .. n + 1 PROVE z[i] = IF i = 0 THEN 0 ELSE z[i - 1] + Part(buffs[i], stat)
      <4>1. CASE i = n + 1
        BY <4>1
      <4>2. CASE i # n + 1
        <5>1. i \in 0 .. n /\ f[i] = (IF i = 0 THEN 0 ELSE f[i - 1] + Part(buffs[i], stat))
          BY <3>2, <4>2
        <5>2. z[i] = f[i] /\ (i # 0 => z[i - 1] = f[i - 1])
          BY <4>2, <5>1
        <5> HIDE DEF z
        <5> QED BY <5>1, <5>2
      <4> QED BY <4>1, <4>2
    <3> HIDE DEF z
    <3>6. At(z, n + 1)
      BY <3>4, <3>5
    <3> QED BY <3>4, <3>6
  <2> HIDE DEF T
  <2> QED BY <2>1, <2>2, ArInduct
<1> DEFINE S == CHOOSE f : Sums(f, buffs, stat)
<1>3. L \in T
  BY <1>1, <1>2
<1>4. PICK f \in [0 .. L -> Int] : Sums(f, buffs, stat)
  BY <1>1, <1>3 DEF Sums
<1>5. Sums(S, buffs, stat) /\ SumOf(buffs, stat) = S[L]
  BY <1>4 DEF SumOf, Sums
<1>6. S \in [0 .. L -> Int]
  <2> HIDE DEF S, L
  <2>1. DOMAIN S = 0 .. L /\ S = [i \in 0 .. L |-> S[i]]
    BY <1>5 DEF Sums, L
  <2> DEFINE E == {n \in Nat : n <= L => S[n] \in Int}
  <2>2. 0 \in E
    BY <1>1, <1>5 DEF Sums, L
  <2>3. ASSUME NEW n \in Nat, n \in E PROVE n + 1 \in E
    <3>1. SUFFICES ASSUME n + 1 <= L PROVE S[n + 1] \in Int
      OBVIOUS
    <3>2. n + 1 \in 1 .. L /\ n + 1 # 0 /\ n + 1 - 1 = n /\ S[n] \in Int
      BY <2>3, <3>1, <1>1
    <3>3. S[n + 1] = S[n] + Part(buffs[n + 1], stat)
      BY <1>5, <3>2 DEF Sums, L
    <3>4. Part(buffs[n + 1], stat) \in Int
      BY <1>1, <3>2, ArPart
    <3> QED BY <3>2, <3>3, <3>4
  <2>4. Nat \subseteq E
    <3> HIDE DEF E
    <3> QED BY <2>2, <2>3, ArInduct
  <2> QED BY <1>1, <2>1, <2>4
<1> HIDE DEF S
<1> QED BY <1>5, <1>6

\* What the partial sums are, one entry at a time.
Adds(f, buffs, stat) ==
  f[0] = 0 /\ \A n \in 1 .. Len(buffs) : f[n] = f[n - 1] + Part(buffs[n], stat)

LEMMA ArSumStep ==
  ASSUME NEW buffs \in Seq(Buff), NEW stat
  PROVE  \E f \in [0 .. Len(buffs) -> Int] :
           Adds(f, buffs, stat) /\ SumOf(buffs, stat) = f[Len(buffs)]
<1>1. PICK f \in [0 .. Len(buffs) -> Int] : Sums(f, buffs, stat) /\ SumOf(buffs, stat) = f[Len(buffs)]
  BY ArSums
<1>2. Len(buffs) \in Nat
  OBVIOUS
<1>3. f[0] = 0
  BY <1>1, <1>2 DEF Sums
<1>4. ASSUME NEW n \in 1 .. Len(buffs) PROVE f[n] = f[n - 1] + Part(buffs[n], stat)
  BY <1>1, <1>2 DEF Sums
<1>5. Adds(f, buffs, stat)
  BY <1>3, <1>4 DEF Adds
<1> QED BY <1>1, <1>5

\* Equal effects up to a position give equal sums up to it.
LEMMA ArSameSums ==
  ASSUME NEW b \in Seq(Buff), NEW c \in Seq(Buff), NEW stat, NEW k \in Nat, k <= Len(b), k <= Len(c),
         \A n \in 1 .. k : c[n].effect = b[n].effect,
         NEW f, NEW h, Adds(f, b, stat), Adds(h, c, stat)
  PROVE  \A n \in 0 .. k : h[n] = f[n]
<1> DEFINE E == {n \in Nat : n <= k => h[n] = f[n]}
<1>1. 0 \in E
  BY DEF Adds
<1>2. ASSUME NEW n \in Nat, n \in E PROVE n + 1 \in E
  <2>1. SUFFICES ASSUME n + 1 <= k PROVE h[n + 1] = f[n + 1]
    OBVIOUS
  <2>2. n + 1 \in 1 .. k /\ n + 1 \in 1 .. Len(b) /\ n + 1 \in 1 .. Len(c) /\ n + 1 - 1 = n /\ h[n] = f[n]
    BY <1>2, <2>1
  <2>3. Part(c[n + 1], stat) = Part(b[n + 1], stat)
    BY <2>2 DEF Part
  <2> QED BY <2>2, <2>3 DEF Adds
<1>3. Nat \subseteq E
  <2> HIDE DEF E
  <2> QED BY <1>1, <1>2, ArInduct
<1> QED BY <1>3

LEMMA ArRemoveAt ==
  ASSUME NEW s \in Seq(Buff), NEW i \in 1 .. Len(s)
  PROVE  /\ RemoveAt(s, i) \in Seq(Buff) /\ Len(RemoveAt(s, i)) = Len(s) - 1
         /\ \A j \in 1 .. Len(s) - 1 : RemoveAt(s, i)[j] = IF j < i THEN s[j] ELSE s[j + 1]
<1> DEFINE p == SubSeq(s, 1, i - 1)
           q == SubSeq(s, i + 1, Len(s))
<1>1. Len(s) \in Nat /\ i \in Nat
  OBVIOUS
<1>2. p \in Seq(Buff) /\ Len(p) = i - 1 /\ \A j \in 1 .. i - 1 : p[j] = s[j]
  OBVIOUS
<1>3. q \in Seq(Buff) /\ Len(q) = Len(s) - i /\ \A j \in 1 .. Len(s) - i : q[j] = s[j + i]
  OBVIOUS
<1>4. RemoveAt(s, i) = p \o q
  BY DEF RemoveAt
<1> HIDE DEF p, q
<1>5. p \o q \in Seq(Buff) /\ Len(p \o q) = Len(s) - 1
  <2>1. p \in Seq(Buff) /\ q \in Seq(Buff)
    BY <1>2, <1>3
  <2>2. p \o q \in Seq(Buff) /\ Len(p \o q) = Len(p) + Len(q)
    BY <2>1
  <2> QED BY <1>1, <1>2, <1>3, <2>2
<1>6. ASSUME NEW j \in 1 .. Len(s) - 1 PROVE (p \o q)[j] = IF j < i THEN s[j] ELSE s[j + 1]
  <2>1. CASE j < i
    BY <1>1, <1>2, <1>3, <2>1
  <2>2. CASE ~(j < i)
    <3>1. j - Len(p) \in 1 .. Len(s) - i /\ j - Len(p) + i = j + 1
      BY <1>1, <1>2, <2>2
    <3>2. (p \o q)[j] = q[j - Len(p)]
      BY <1>1, <1>2, <1>3, <2>2
    <3> QED BY <1>3, <3>1, <3>2, <2>2
  <2> QED BY <2>1, <2>2
<1> QED BY <1>4, <1>5, <1>6

LEMMA ArSumEmpty == ASSUME NEW stat PROVE SumOf(<<>>, stat) = 0
<1>1. <<>> \in Seq(Buff) /\ Len(<<>>) = 0
  OBVIOUS
<1>2. PICK f : Adds(f, <<>>, stat) /\ SumOf(<<>>, stat) = f[Len(<<>>)]
  BY <1>1, ArSumStep
<1> QED BY <1>1, <1>2 DEF Adds

\* Entries that only aged add up to what they did.
LEMMA ArSumAged ==
  ASSUME NEW b \in Seq(Buff), NEW c \in Seq(Buff), NEW stat,
         Len(c) = Len(b), \A n \in 1 .. Len(b) : c[n].effect = b[n].effect
  PROVE  SumOf(c, stat) = SumOf(b, stat)
<1>1. PICK f : Adds(f, b, stat) /\ SumOf(b, stat) = f[Len(b)]
  BY ArSumStep
<1>2. PICK h : Adds(h, c, stat) /\ SumOf(c, stat) = h[Len(c)]
  BY ArSumStep
<1>3. Len(b) \in Nat /\ Len(b) <= Len(b) /\ Len(b) <= Len(c)
  OBVIOUS
<1>4. \A n \in 0 .. Len(b) : h[n] = f[n]
  BY <1>1, <1>2, <1>3, ArSameSums
<1> QED BY <1>1, <1>2, <1>3, <1>4

LEMMA ArSumAppend ==
  ASSUME NEW b \in Seq(Buff), NEW x \in Buff, NEW stat
  PROVE  SumOf(Append(b, x), stat) = SumOf(b, stat) + Part(x, stat)
<1> DEFINE c == Append(b, x)
<1>1. c \in Seq(Buff) /\ Len(c) = Len(b) + 1 /\ c[Len(b) + 1] = x /\ Len(b) \in Nat
      /\ \A n \in 1 .. Len(b) : c[n] = b[n]
  OBVIOUS
<1> HIDE DEF c
<1>2. PICK f : Adds(f, b, stat) /\ SumOf(b, stat) = f[Len(b)]
  BY ArSumStep
<1>3. PICK h : Adds(h, c, stat) /\ SumOf(c, stat) = h[Len(c)]
  BY <1>1, ArSumStep
<1>4. \A n \in 0 .. Len(b) : h[n] = f[n]
  <2>1. /\ c \in Seq(Buff) /\ Len(b) \in Nat /\ Len(b) <= Len(b) /\ Len(b) <= Len(c)
        /\ \A n \in 1 .. Len(b) : c[n].effect = b[n].effect
    BY <1>1
  <2> QED BY <1>2, <1>3, <2>1, ArSameSums
<1>5. h[Len(b)] = f[Len(b)] /\ h[Len(b) + 1] = h[Len(b)] + Part(x, stat)
  <2>1. Len(b) + 1 \in 1 .. Len(c) /\ Len(b) + 1 - 1 = Len(b) /\ Len(b) \in 0 .. Len(b)
    BY <1>1
  <2> QED BY <1>1, <1>3, <1>4, <2>1 DEF Adds
<1>6. SumOf(c, stat) = SumOf(b, stat) + Part(x, stat)
  BY <1>1, <1>2, <1>3, <1>5
<1> QED BY <1>6 DEF c

LEMMA ArSumRemove ==
  ASSUME NEW b \in Seq(Buff), NEW i \in 1 .. Len(b), NEW stat
  PROVE  SumOf(RemoveAt(b, i), stat) = SumOf(b, stat) - Part(b[i], stat)
<1> DEFINE c == RemoveAt(b, i)
           x == Part(b[i], stat)
<1>1. c \in Seq(Buff) /\ Len(c) = Len(b) - 1
      /\ \A j \in 1 .. Len(b) - 1 : c[j] = IF j < i THEN b[j] ELSE b[j + 1]
  BY ArRemoveAt
<1>2. Len(b) \in Nat /\ i \in Nat /\ 1 <= i /\ i <= Len(b)
  OBVIOUS
<1>3. b[i] \in Buff
  OBVIOUS
<1>4. x \in Int
  BY <1>3, ArPart
<1> HIDE DEF c
<1>5. PICK f \in [0 .. Len(b) -> Int] : Adds(f, b, stat) /\ SumOf(b, stat) = f[Len(b)]
  BY ArSumStep
<1>6. PICK h : Adds(h, c, stat) /\ SumOf(c, stat) = h[Len(c)]
  BY <1>1, ArSumStep
<1> DEFINE E == {n \in Nat : n <= Len(b) - 1 => h[n] = IF n < i THEN f[n] ELSE f[n + 1] - x}
<1>7. 0 \in E
  BY <1>2, <1>5, <1>6 DEF Adds
<1>8. f[i] = f[i - 1] + x /\ \A n \in 0 .. Len(b) : f[n] \in Int
  BY <1>2, <1>5 DEF Adds
<1> HIDE DEF x
<1>9. ASSUME NEW n \in Nat, n \in E PROVE n + 1 \in E
  <2>1. SUFFICES ASSUME n + 1 <= Len(b) - 1
                 PROVE  h[n + 1] = IF n + 1 < i THEN f[n + 1] ELSE f[n + 1 + 1] - x
    OBVIOUS
  <2>2. /\ n + 1 \in 1 .. Len(c) /\ n + 1 \in 1 .. Len(b) - 1 /\ n + 1 - 1 = n
        /\ n + 1 \in 1 .. Len(b) /\ n + 1 + 1 \in 1 .. Len(b) /\ n + 1 + 1 - 1 = n + 1
    BY <1>1, <1>2, <2>1
  <2>3. h[n] = IF n < i THEN f[n] ELSE f[n + 1] - x
    BY <1>9, <2>1, <1>2
  <2>4. h[n + 1] = h[n] + Part(c[n + 1], stat)
    BY <1>6, <2>2 DEF Adds
  <2>5. f[n + 1] = f[n] + Part(b[n + 1], stat) /\ f[n + 1 + 1] = f[n + 1] + Part(b[n + 1 + 1], stat)
    BY <1>5, <2>2 DEF Adds
  <2>6. f[n] \in Int /\ f[n + 1] \in Int /\ f[n + 1 + 1] \in Int
    BY <1>8, <2>2
  <2>7. CASE n + 1 < i
    <3>1. c[n + 1] = b[n + 1] /\ h[n] = f[n]
      BY <1>1, <1>2, <2>2, <2>3, <2>7
    <3> QED BY <3>1, <2>4, <2>5, <2>7
  <2>8. CASE ~(n + 1 < i)
    <3>1. c[n + 1] = b[n + 1 + 1]
      BY <1>1, <2>2, <2>8
    <3>2. h[n] = f[n + 1] - x
      <4>1. CASE n < i
        <5>1. i = n + 1 /\ h[n] = f[n] /\ i - 1 = n
          BY <1>2, <2>3, <2>8, <4>1
        <5>2. f[n + 1] = f[n] + x
          BY <1>8, <5>1
        <5> QED BY <5>1, <5>2, <2>6, <1>4
      <4>2. CASE ~(n < i)
        BY <2>3, <4>2
      <4> QED BY <4>1, <4>2
    <3>3. b[n + 1 + 1] \in Buff
      BY <2>2
    <3>4. Part(b[n + 1 + 1], stat) \in Int
      BY <3>3, ArPart
    <3>5. h[n + 1] = f[n + 1 + 1] - x
      BY <3>1, <3>2, <3>4, <2>4, <2>5, <2>6, <1>4
    <3> QED BY <3>5, <2>8
  <2> QED BY <2>7, <2>8
<1>10. Nat \subseteq E
  <2> HIDE DEF E
  <2> QED BY <1>7, <1>9, ArInduct
<1>11. Len(b) - 1 \in Nat
  BY <1>2
<1>12. h[Len(b) - 1] = IF Len(b) - 1 < i THEN f[Len(b) - 1] ELSE f[Len(b) - 1 + 1] - x
  BY <1>10, <1>11
<1>13. h[Len(b) - 1] = f[Len(b)] - x
  <2>1. CASE Len(b) - 1 < i
    <3>1. i = Len(b)
      BY <1>2, <2>1
    <3> QED BY <1>8, <1>12, <2>1, <3>1, <1>4, <1>2
  <2>2. CASE ~(Len(b) - 1 < i)
    BY <1>12, <2>2, <1>2
  <2> QED BY <2>1, <2>2
<1> QED BY <1>1, <1>5, <1>6, <1>13 DEF c, x

\* The tower and gold bonuses only ever add.
LEMMA ArSumNat ==
  ASSUME NEW b \in Seq(Buff), NEW stat \in Stats \ {"foeSpeed", "vuln"}
  PROVE  SumOf(b, stat) \in Nat
<1>1. PICK f \in [0 .. Len(b) -> Int] : Adds(f, b, stat) /\ SumOf(b, stat) = f[Len(b)]
  BY ArSumStep
<1>2. Len(b) \in Nat
  OBVIOUS
<1> DEFINE E == {n \in Nat : n <= Len(b) => f[n] \in Nat}
<1>3. 0 \in E
  BY <1>1 DEF Adds
<1>4. ASSUME NEW n \in Nat, n \in E PROVE n + 1 \in E
  <2>1. SUFFICES ASSUME n + 1 <= Len(b) PROVE f[n + 1] \in Nat
    OBVIOUS
  <2>2. n + 1 \in 1 .. Len(b) /\ n + 1 - 1 = n /\ f[n] \in Nat
    BY <1>2, <1>4, <2>1
  <2>3. Part(b[n + 1], stat) \in Nat
    BY DEF Part, Deltas, Stats
  <2> QED BY <1>1, <2>2, <2>3 DEF Adds
<1>5. Nat \subseteq E
  <2> HIDE DEF E
  <2> QED BY <1>3, <1>4, ArInduct
<1> QED BY <1>1, <1>2, <1>5

LEMMA ArSumInt == ASSUME NEW b \in Seq(Buff), NEW stat PROVE SumOf(b, stat) \in Int
<1>1. PICK f \in [0 .. Len(b) -> Int] : SumOf(b, stat) = f[Len(b)]
  BY ArSumStep
<1>2. Len(b) \in Nat
  OBVIOUS
<1> QED BY <1>1, <1>2

(***************************************************************************)
(* The inductive invariant                                                 *)
(***************************************************************************)
TowerRec ==
  [ id : Nat, type : Types, cell : Cells, level : 1 .. 3, spend : Nat, magic : BOOLEAN,
    near : 0 .. InterferenceCap, damage : Nat \X BOOLEAN \X Nat \X Int, range : Nat \X Int,
    pair : 0 .. MaxTowers, mode : {"debuff", "buff"}, curve : SUBSET Cells, exponent : Nat,
    chained : BOOLEAN ]

Fleet == UNION {[D -> TowerRec] : D \in SUBSET (1 .. MaxTowers)}

Pet == [owner : Nat, exponent : Nat, level : Nat, magic : BOOLEAN, phase : Phases]

GameRec ==
  [ phase : Phases, gold : Nat, cost : Int, hp : 0 .. FullHp, towers : Fleet,
    nextId : 1 .. MaxTowers + 1, pets : SUBSET Pet, lasers : SUBSET (SUBSET Nat),
    buffs : Seq(Buff), bonus : [Stats -> Int], shieldHits : 0 .. 3, free : Nat,
    cds : [Spells -> Nat], layoutDirty : BOOLEAN ]

\* A tower stands under its own id, and the next id is free.
IdsOk(g) == \A i \in Standing(g) : g.towers[i].id = i /\ i < g.nextId

DamageFresh(g) == \A i \in Standing(g) : g.towers[i].damage = DamageOf(g, g.towers[i])
RangeFresh(g)  == \A i \in Standing(g) : g.towers[i].range = RangeOf(g, g.towers[i])
NearFresh(g)   == \A i \in Standing(g) : g.towers[i].near = AtMost(InterferenceCap, Neighbours(g, g.towers[i]))

\* Partners point at each other.
PairsOk(g) ==
  \A i \in Standing(g) : LET p == g.towers[i].pair IN
    p # 0 => p \in Standing(g) \ {i} /\ g.towers[p].pair = i

\* A laser joins a tower and the partner it has now.
LasersOk(g) ==
  \A l \in g.lasers : \E i \in Standing(g) : g.towers[i].pair # 0 /\ l = {i, g.towers[i].pair}

Shields(buffs) == {i \in DOMAIN buffs : buffs[i].effect = "SHIELD"}

BonusOk(g)  == \A stat \in Stats : g.bonus[stat] = SumOf(g.buffs, stat)
ShieldOk(g) == /\ g.shieldHits > 0 <=> Shields(g.buffs) # {}
               /\ \A i, j \in Shields(g.buffs) : i = j

\* What holds between any two calls, within a frame too.
Fitted(g) ==
  /\ g \in GameRec /\ IdsOk(g)
  /\ DamageFresh(g) /\ RangeFresh(g) /\ NearFresh(g)
  /\ PairsOk(g) /\ LasersOk(g)

Sound(g) == Fitted(g) /\ BonusOk(g) /\ ShieldOk(g)

LeftOk(g)  == \A i \in DOMAIN g.buffs : g.buffs[i].left > 0
MagicOk(g) == g.phase = "WAVE" \/ \A i \in Standing(g) : ~g.towers[i].magic

\* What holds between two actions of a run.
Rested(g) == Sound(g) /\ LeftOk(g) /\ MagicOk(g)

ArsenalInv ==
  /\ Rested(game) /\ LedgerBalanced
  /\ earned \in Int /\ {ops, waves, kills} \subseteq Nat

(***************************************************************************)
(* The catalogues and the types                                            *)
(***************************************************************************)
LEMMA ArLow == \A low, n : AtLeast(low, n) = (IF n < low THEN low ELSE n)
BY DEF AtLeast

LEMMA ArHigh == \A high, n : AtMost(high, n) = (IF n > high THEN high ELSE n)
BY DEF AtMost

LEMMA ArFleet ==
  ASSUME NEW f \in Fleet
  PROVE  /\ DOMAIN f \subseteq 1 .. MaxTowers /\ f \in [DOMAIN f -> TowerRec]
         /\ \A i \in DOMAIN f : f[i] \in TowerRec
<1>1. PICK D \in SUBSET (1 .. MaxTowers) : f \in [D -> TowerRec]
  BY DEF Fleet
<1> HIDE DEF TowerRec
<1> QED BY <1>1

LEMMA ArIsFleet ==
  ASSUME NEW D \in SUBSET (1 .. MaxTowers), NEW f \in [D -> TowerRec]
  PROVE  f \in Fleet
BY DEF Fleet

LEMMA ArStanding ==
  ASSUME NEW g \in GameRec
  PROVE  /\ Standing(g) \subseteq 1 .. MaxTowers /\ Standing(g) \subseteq Nat /\ 0 \notin Standing(g)
         /\ g.towers \in [Standing(g) -> TowerRec]
         /\ \A i \in Standing(g) : g.towers[i] \in TowerRec
<1>1. g.towers \in Fleet
  BY DEF GameRec
<1> QED BY <1>1, ArFleet DEF Standing

LEMMA ArDamageType ==
  ASSUME NEW g \in GameRec, NEW t \in TowerRec
  PROVE  DamageOf(g, t) \in Nat \X BOOLEAN \X Nat \X Int /\ RangeOf(g, t) \in Nat \X Int
<1>1. t.level \in Nat /\ t.magic \in BOOLEAN /\ t.near \in Nat
  BY DEF TowerRec, InterferenceCap
<1>2. g.bonus.damage \in Int /\ g.bonus.range \in Int
  BY DEF GameRec, Stats
<1> QED BY <1>1, <1>2 DEF DamageOf, RangeOf

\* Nothing the neighbourhood of a tower is made of has changed.
LEMMA ArNeighbours ==
  ASSUME NEW g, NEW h, NEW t, NEW u, Standing(h) = Standing(g),
         u.id = t.id, u.type = t.type, u.cell = t.cell,
         \A i \in Standing(g) : h.towers[i].type = g.towers[i].type /\ h.towers[i].cell = g.towers[i].cell
  PROVE  Neighbours(h, u) = Neighbours(g, t)
BY DEF Neighbours, Distance

LEMMA ArNearType ==
  ASSUME NEW g \in GameRec, NEW t PROVE AtMost(InterferenceCap, Neighbours(g, t)) \in 0 .. InterferenceCap
<1> DEFINE S == {i \in Standing(g) \ {t.id} : /\ g.towers[i].type = t.type
                                              /\ Distance(t, g.towers[i]) <= InterferenceRadius}
<1>1. Standing(g) \subseteq 1 .. MaxTowers /\ MaxTowers \in Nat
  BY ArStanding, ArsenalAssumption
<1>2. IsFiniteSet(1 .. MaxTowers)
  BY <1>1, FS_Interval
<1>3. S \subseteq 1 .. MaxTowers
  BY <1>1
<1> HIDE DEF S
<1>4. IsFiniteSet(S)
  BY <1>2, <1>3, FS_Subset
<1>5. Cardinality(S) \in Nat
  BY <1>4, FS_CardinalityType
<1> QED BY <1>5 DEF S, Neighbours, AtMost, InterferenceCap

(***************************************************************************)
(* What leaves the fleet and the buffs alone                               *)
(***************************************************************************)
Alike(g, h) == /\ h.towers = g.towers /\ h.nextId = g.nextId /\ h.lasers = g.lasers
               /\ h.buffs = g.buffs /\ h.bonus = g.bonus /\ h.shieldHits = g.shieldHits

LEMMA ArCarry ==
  ASSUME NEW g, NEW h \in GameRec, Sound(g), Alike(g, h)
  PROVE  Sound(h) /\ (LeftOk(g) => LeftOk(h))
<1>1. Standing(h) = Standing(g)
  BY DEF Alike, Standing
<1>2. IdsOk(h) /\ PairsOk(h) /\ LasersOk(h)
  BY <1>1 DEF Alike, Sound, Fitted, IdsOk, PairsOk, LasersOk
<1>3. DamageFresh(h) /\ RangeFresh(h)
  BY <1>1 DEF Alike, Sound, Fitted, DamageFresh, RangeFresh, DamageOf, RangeOf
<1>4. NearFresh(h)
  <2>1. ASSUME NEW i \in Standing(g) PROVE Neighbours(h, h.towers[i]) = Neighbours(g, g.towers[i])
    BY <1>1, ArNeighbours DEF Alike
  <2> QED BY <1>1, <2>1 DEF Alike, Sound, Fitted, NearFresh
<1>5. BonusOk(h) /\ ShieldOk(h)
  BY DEF Alike, Sound, Fitted, BonusOk, ShieldOk
<1>6. LeftOk(g) => LeftOk(h)
  BY DEF Alike, LeftOk
<1> QED BY <1>2, <1>3, <1>4, <1>5, <1>6 DEF Sound, Fitted

\* Gold and cost move by what is asked, the gold no lower than nothing.
LEMMA ArMoney ==
  ASSUME NEW g \in GameRec, NEW d \in Int, NEW c \in Int
  PROVE  LET h == AddCost(ChangeGold(g, d), c) IN
         /\ h \in GameRec /\ Alike(g, h) /\ h.phase = g.phase /\ h.hp = g.hp /\ h.free = g.free
         /\ h.gold = AtLeast(0, g.gold + d) /\ h.cost = g.cost + c
         /\ h.cds = g.cds /\ h.pets = g.pets /\ h.layoutDirty = g.layoutDirty
<1>1. g.gold \in Nat /\ g.cost \in Int
  BY DEF GameRec
<1>2. AtLeast(0, g.gold + d) \in Nat /\ g.cost + c \in Int
  BY <1>1 DEF AtLeast
<1> DEFINE a == AtLeast(0, g.gold + d)
           k == [g EXCEPT !.gold = a]
<1>3. ChangeGold(g, d) = k
  BY DEF ChangeGold
<1> HIDE DEF a
<1>4. k \in GameRec /\ Alike(g, k) /\ k.phase = g.phase /\ k.hp = g.hp /\ k.free = g.free
      /\ k.gold = a /\ k.cost = g.cost /\ k.cds = g.cds /\ k.pets = g.pets /\ k.layoutDirty = g.layoutDirty
  BY <1>2 DEF GameRec, Alike, a
<1> HIDE DEF k
<1> DEFINE e == k.cost + c
           h == [k EXCEPT !.cost = e]
<1>5. AddCost(k, c) = h
  BY DEF AddCost
<1>6. e \in Int
  BY <1>2, <1>4
<1> HIDE DEF e
<1>7. h \in GameRec /\ Alike(k, h) /\ h.phase = k.phase /\ h.hp = k.hp /\ h.free = k.free
      /\ h.gold = k.gold /\ h.cost = e /\ h.cds = k.cds /\ h.pets = k.pets /\ h.layoutDirty = k.layoutDirty
  BY <1>4, <1>6 DEF GameRec, Alike
<1> HIDE DEF h
<1>8. Alike(g, h)
  BY <1>4, <1>7 DEF Alike
<1> QED BY <1>3, <1>4, <1>5, <1>7, <1>8 DEF a, e

LEMMA ArChangeGold ==
  ASSUME NEW g \in GameRec, NEW d \in Int
  PROVE  LET h == ChangeGold(g, d) IN
         /\ h \in GameRec /\ Alike(g, h) /\ h.phase = g.phase
         /\ h.gold = AtLeast(0, g.gold + d) /\ h.cost = g.cost
<1>1. g.gold \in Nat
  BY DEF GameRec
<1> DEFINE a == AtLeast(0, g.gold + d)
<1>2. a \in Nat
  BY <1>1 DEF AtLeast
<1> HIDE DEF a
<1>3. [g EXCEPT !.gold = a] \in GameRec /\ Alike(g, [g EXCEPT !.gold = a])
      /\ [g EXCEPT !.gold = a].gold = a /\ [g EXCEPT !.gold = a].cost = g.cost
      /\ [g EXCEPT !.gold = a].phase = g.phase
  BY <1>2 DEF GameRec, Alike
<1> QED BY <1>3 DEF ChangeGold, a

LEMMA ArSetPhase ==
  ASSUME NEW g \in GameRec, NEW to \in Phases
  PROVE  LET h == SetPhase(g, to) IN
         /\ h \in GameRec /\ Alike(g, h) /\ h.gold = g.gold /\ h.cost = g.cost
         /\ h.phase = (IF CanTransition(g.phase, to) THEN to ELSE g.phase) /\ h.hp = g.hp
BY DEF SetPhase, GameRec, Alike

LEMMA ArChangeHp ==
  ASSUME NEW g \in GameRec, NEW d \in Int
  PROVE  LET h == ChangeHp(g, d) IN
         /\ h \in GameRec /\ Alike(g, h) /\ h.gold = g.gold /\ h.cost = g.cost
         /\ h.phase \in {g.phase, "GAME_OVER"}
<1> DEFINE hp == AtLeast(0, AtMost(FullHp, g.hp + d))
           k == [g EXCEPT !.hp = hp]
<1>1. hp \in 0 .. FullHp
  BY ArsenalAssumption DEF GameRec, AtLeast, AtMost
<1> HIDE DEF hp
<1>2. k \in GameRec /\ Alike(g, k) /\ k.gold = g.gold /\ k.cost = g.cost /\ k.phase = g.phase
  BY <1>1 DEF GameRec, Alike
<1> HIDE DEF k
<1>3. "GAME_OVER" \in Phases
  BY DEF Phases, AllowedTransitions
<1>4. /\ SetPhase(k, "GAME_OVER") \in GameRec /\ Alike(k, SetPhase(k, "GAME_OVER"))
      /\ SetPhase(k, "GAME_OVER").gold = k.gold /\ SetPhase(k, "GAME_OVER").cost = k.cost
      /\ SetPhase(k, "GAME_OVER").phase \in {k.phase, "GAME_OVER"}
  BY <1>2, <1>3, ArSetPhase
<1>5. ChangeHp(g, d) = IF hp = 0 THEN SetPhase(k, "GAME_OVER") ELSE k
  BY DEF ChangeHp, k, hp
<1> QED BY <1>2, <1>4, <1>5 DEF Alike

(***************************************************************************)
(* Pets, and the stats computed again                                      *)
(***************************************************************************)
Steady(g, h)    == h.phase = g.phase /\ h.gold = g.gold /\ h.cost = g.cost
SameBuffs(g, h) == h.buffs = g.buffs /\ h.bonus = g.bonus /\ h.shieldHits = g.shieldHits
Look(t, u)      == u.id = t.id /\ u.type = t.type /\ u.cell = t.cell /\ u.pair = t.pair
Magics(g, h)    == Standing(h) = Standing(g) /\ \A i \in Standing(g) : h.towers[i].magic = g.towers[i].magic

\* The same towers, each where it was and with the partner it had.
Reshaped(g, h) ==
  /\ Standing(h) = Standing(g) /\ h.nextId = g.nextId /\ h.lasers = g.lasers
  /\ \A i \in Standing(g) : Look(g.towers[i], h.towers[i])

LEMMA ArPets ==
  ASSUME NEW g \in GameRec, NEW ts \in SUBSET TowerRec
  PROVE  LET h == RespawnPets(g, ts) IN h \in GameRec /\ Alike(g, h) /\ Steady(g, h)
<1> DEFINE pets == {p \in g.pets : p.owner \notin {t.id : t \in ts}} \cup {PetsOf(g, t) : t \in ts}
           k == [g EXCEPT !.pets = pets]
<1>1. RespawnPets(g, ts) = k
  BY DEF RespawnPets
<1>2. g.pets \subseteq Pet /\ g.phase \in Phases
  BY DEF GameRec
<1>3. ASSUME NEW t \in ts PROVE PetsOf(g, t) \in Pet
  <2>1. t.id \in Nat /\ t.exponent \in Nat /\ t.level \in Nat /\ t.magic \in BOOLEAN
    BY DEF TowerRec
  <2> QED BY <1>2, <2>1 DEF PetsOf, Pet
<1>4. pets \subseteq Pet
  BY <1>2, <1>3
<1> HIDE DEF pets
<1>5. k \in GameRec /\ Alike(g, k) /\ Steady(g, k)
  BY <1>4 DEF GameRec, Alike, Steady
<1> QED BY <1>1, <1>5

LEMMA ArBuffsChanged ==
  ASSUME NEW g \in GameRec
  PROVE  LET h == ActiveBuffsChanged(g) IN h \in GameRec /\ Alike(g, h) /\ Steady(g, h)
<1> DEFINE ts == {g.towers[i] : i \in {j \in Standing(g) : HasFunction(g.towers[j])}}
<1>1. ts \in SUBSET TowerRec
  BY ArStanding
<1>2. ActiveBuffsChanged(g) = RespawnPets(g, ts)
  BY DEF ActiveBuffsChanged
<1> HIDE DEF ts
<1> QED BY <1>1, <1>2, ArPets

\* The towers are refitted one by one.
LEMMA ArRefit ==
  ASSUME NEW g \in GameRec, NEW f \in [Standing(g) -> TowerRec]
  PROVE  LET h == [g EXCEPT !.towers = f] IN
         /\ h \in GameRec /\ h.towers = f /\ Standing(h) = Standing(g)
         /\ Steady(g, h) /\ SameBuffs(g, h) /\ h.nextId = g.nextId /\ h.lasers = g.lasers
         /\ h.free = g.free /\ h.hp = g.hp /\ h.cds = g.cds
<1>1. f \in Fleet
  <2>1. Standing(g) \in SUBSET (1 .. MaxTowers)
    BY ArStanding
  <2> QED BY <2>1, ArIsFleet
<1>2. [g EXCEPT !.towers = f] \in GameRec
  BY <1>1 DEF GameRec
<1>3. [g EXCEPT !.towers = f].towers = f /\ DOMAIN f = Standing(g)
  BY DEF GameRec
<1> QED BY <1>2, <1>3 DEF GameRec, Standing, Steady, SameBuffs

LEMMA ArSameNear ==
  ASSUME NEW g, NEW h, Reshaped(g, h)
  PROVE  \A i \in Standing(g) : Neighbours(h, h.towers[i]) = Neighbours(g, g.towers[i])
<1>1. \A j \in Standing(g) : Look(g.towers[j], h.towers[j])
  BY DEF Reshaped
<1>2. \A j \in Standing(g) : h.towers[j].type = g.towers[j].type /\ h.towers[j].cell = g.towers[j].cell
  BY <1>1 DEF Look
<1>3. ASSUME NEW i \in Standing(g) PROVE Neighbours(h, h.towers[i]) = Neighbours(g, g.towers[i])
  <2>1. /\ h.towers[i].id = g.towers[i].id /\ h.towers[i].type = g.towers[i].type
        /\ h.towers[i].cell = g.towers[i].cell /\ Standing(h) = Standing(g)
    BY <1>1 DEF Look, Reshaped
  <2> QED BY <1>2, <2>1, ArNeighbours
<1> QED BY <1>3

LEMMA ArReshaped ==
  ASSUME NEW g, NEW h, IdsOk(g), PairsOk(g), LasersOk(g), Reshaped(g, h)
  PROVE  /\ IdsOk(h) /\ PairsOk(h) /\ LasersOk(h)
         /\ \A i \in Standing(g) : Neighbours(h, h.towers[i]) = Neighbours(g, g.towers[i])
<1>1. IdsOk(h)
  BY DEF Reshaped, Look, IdsOk
<1>2. PairsOk(h)
  BY DEF Reshaped, Look, PairsOk
<1>3. LasersOk(h)
  BY DEF Reshaped, Look, LasersOk
<1> QED BY <1>1, <1>2, <1>3, ArSameNear

LEMMA ArRecalcDamage ==
  ASSUME NEW g \in GameRec
  PROVE  LET h == RecalcDamage(g) IN
         /\ h \in GameRec /\ Steady(g, h) /\ SameBuffs(g, h) /\ Reshaped(g, h) /\ DamageFresh(h)
         /\ \A i \in Standing(g) : /\ h.towers[i].level = g.towers[i].level
                                   /\ h.towers[i].magic = g.towers[i].magic
                                   /\ h.towers[i].near = g.towers[i].near
                                   /\ h.towers[i].range = g.towers[i].range
<1> DEFINE f == [i \in Standing(g) |-> WithDamage(g, g.towers[i])]
           h == [g EXCEPT !.towers = f]
<1>1. RecalcDamage(g) = h
  BY DEF RecalcDamage
<1>2. ASSUME NEW i \in Standing(g)
      PROVE  LET t == g.towers[i]
                 u == WithDamage(g, t)
             IN /\ u \in TowerRec /\ u.damage = DamageOf(g, t) /\ Look(t, u)
                /\ u.level = t.level /\ u.magic = t.magic /\ u.near = t.near /\ u.range = t.range
  <2>1. g.towers[i] \in TowerRec
    BY ArStanding
  <2>2. DamageOf(g, g.towers[i]) \in Nat \X BOOLEAN \X Nat \X Int
    BY <2>1, ArDamageType
  <2> DEFINE d == DamageOf(g, g.towers[i])
             t == g.towers[i]
  <2>3. WithDamage(g, t) = [t EXCEPT !.damage = d]
    BY DEF WithDamage
  <2> HIDE DEF d, t
  <2>4. [t EXCEPT !.damage = d] \in TowerRec
    BY <2>1, <2>2 DEF TowerRec, d, t
  <2>5. LET u == [t EXCEPT !.damage = d] IN
          u.damage = d /\ Look(t, u) /\ u.level = t.level /\ u.magic = t.magic /\ u.near = t.near /\ u.range = t.range
    BY <2>1 DEF TowerRec, Look, t
  <2> QED BY <2>3, <2>4, <2>5 DEF d, t
<1>3. f \in [Standing(g) -> TowerRec]
  BY <1>2
<1>4. \A i \in Standing(g) : f[i] = WithDamage(g, g.towers[i])
  OBVIOUS
<1> HIDE DEF f
<1>5. /\ h \in GameRec /\ h.towers = f /\ Standing(h) = Standing(g)
      /\ Steady(g, h) /\ SameBuffs(g, h) /\ h.nextId = g.nextId /\ h.lasers = g.lasers
  BY <1>3, ArRefit
<1> HIDE DEF h
<1>6. Reshaped(g, h)
  BY <1>2, <1>4, <1>5 DEF Reshaped
<1>7. DamageFresh(h)
  <2>1. ASSUME NEW i \in Standing(g) PROVE h.towers[i].damage = DamageOf(h, h.towers[i])
    BY <1>2, <1>4, <1>5 DEF DamageOf, SameBuffs
  <2> QED BY <1>5, <2>1 DEF DamageFresh
<1> QED BY <1>1, <1>2, <1>4, <1>5, <1>6, <1>7

LEMMA ArRecalcRange ==
  ASSUME NEW g \in GameRec
  PROVE  LET h == RecalcRange(g) IN
         /\ h \in GameRec /\ Steady(g, h) /\ SameBuffs(g, h) /\ Reshaped(g, h) /\ RangeFresh(h)
         /\ \A i \in Standing(g) : /\ h.towers[i].level = g.towers[i].level
                                   /\ h.towers[i].magic = g.towers[i].magic
                                   /\ h.towers[i].near = g.towers[i].near
                                   /\ h.towers[i].damage = g.towers[i].damage
<1> DEFINE f == [i \in Standing(g) |-> WithRange(g, g.towers[i])]
           h == [g EXCEPT !.towers = f]
<1>1. RecalcRange(g) = h
  BY DEF RecalcRange
<1>2. ASSUME NEW i \in Standing(g)
      PROVE  LET t == g.towers[i]
                 u == WithRange(g, t)
             IN /\ u \in TowerRec /\ u.range = RangeOf(g, t) /\ Look(t, u)
                /\ u.level = t.level /\ u.magic = t.magic /\ u.near = t.near /\ u.damage = t.damage
  <2>1. g.towers[i] \in TowerRec
    BY ArStanding
  <2>2. RangeOf(g, g.towers[i]) \in Nat \X Int
    BY <2>1, ArDamageType
  <2> DEFINE d == RangeOf(g, g.towers[i])
             t == g.towers[i]
  <2>3. WithRange(g, t) = [t EXCEPT !.range = d]
    BY DEF WithRange
  <2> HIDE DEF d, t
  <2>4. [t EXCEPT !.range = d] \in TowerRec
    BY <2>1, <2>2 DEF TowerRec, d, t
  <2>5. LET u == [t EXCEPT !.range = d] IN
          u.range = d /\ Look(t, u) /\ u.level = t.level /\ u.magic = t.magic /\ u.near = t.near /\ u.damage = t.damage
    BY <2>1 DEF TowerRec, Look, t
  <2> QED BY <2>3, <2>4, <2>5 DEF d, t
<1>3. f \in [Standing(g) -> TowerRec]
  BY <1>2
<1>4. \A i \in Standing(g) : f[i] = WithRange(g, g.towers[i])
  OBVIOUS
<1> HIDE DEF f
<1>5. /\ h \in GameRec /\ h.towers = f /\ Standing(h) = Standing(g)
      /\ Steady(g, h) /\ SameBuffs(g, h) /\ h.nextId = g.nextId /\ h.lasers = g.lasers
  BY <1>3, ArRefit
<1> HIDE DEF h
<1>6. Reshaped(g, h)
  BY <1>2, <1>4, <1>5 DEF Reshaped
<1>7. RangeFresh(h)
  <2>1. ASSUME NEW i \in Standing(g) PROVE h.towers[i].range = RangeOf(h, h.towers[i])
    BY <1>2, <1>4, <1>5 DEF RangeOf, SameBuffs
  <2> QED BY <1>5, <2>1 DEF RangeFresh
<1> QED BY <1>1, <1>2, <1>4, <1>5, <1>6, <1>7

(***************************************************************************)
(* Buffs come and go                                                       *)
(***************************************************************************)
\* An accumulator moves and what was computed from it is computed again.
LEMMA ArShift ==
  ASSUME NEW g, Fitted(g), NEW stat \in Stats, NEW x \in Int
  PROVE  LET h == Recalc([g EXCEPT !.bonus[stat] = x], stat) IN
         /\ Fitted(h) /\ Steady(g, h) /\ Magics(g, h)
         /\ h.bonus = [g.bonus EXCEPT ![stat] = x] /\ h.buffs = g.buffs /\ h.shieldHits = g.shieldHits
<1> DEFINE b == [g.bonus EXCEPT ![stat] = x]
           k == [g EXCEPT !.bonus[stat] = x]
           h == Recalc(k, stat)
<1>1. g \in GameRec
  BY DEF Fitted
<1>2. b \in [Stats -> Int] /\ b[stat] = x /\ \A s \in Stats \ {stat} : b[s] = g.bonus[s]
  BY <1>1 DEF GameRec
<1>3. k = [g EXCEPT !.bonus = b]
  BY <1>1 DEF GameRec
<1> HIDE DEF b, k
<1>4. /\ k \in GameRec /\ k.bonus = b /\ k.towers = g.towers /\ k.nextId = g.nextId /\ k.lasers = g.lasers
      /\ k.buffs = g.buffs /\ k.shieldHits = g.shieldHits /\ Steady(g, k)
  BY <1>1, <1>2, <1>3 DEF GameRec, Steady
<1>5. Standing(k) = Standing(g) /\ Reshaped(g, k) /\ Magics(g, k)
  BY <1>4 DEF Standing, Reshaped, Look, Magics
<1>6. stat = "damage" \/ DamageFresh(k)
  BY <1>2, <1>4, <1>5 DEF Fitted, DamageFresh, DamageOf, Stats
<1>7. stat = "range" \/ RangeFresh(k)
  BY <1>2, <1>4, <1>5 DEF Fitted, RangeFresh, RangeOf, Stats
<1>8. IdsOk(k) /\ PairsOk(k) /\ LasersOk(k) /\ NearFresh(k)
  <2>1. IdsOk(k) /\ PairsOk(k) /\ LasersOk(k)
        /\ \A i \in Standing(g) : Neighbours(k, k.towers[i]) = Neighbours(g, g.towers[i])
    BY <1>5, ArReshaped DEF Fitted
  <2>2. NearFresh(k)
    BY <1>4, <1>5, <2>1 DEF NearFresh, Fitted
  <2> QED BY <2>1, <2>2
<1>9. /\ h \in GameRec /\ Steady(k, h) /\ SameBuffs(k, h) /\ Reshaped(k, h) /\ DamageFresh(h) /\ RangeFresh(h)
      /\ \A i \in Standing(k) : h.towers[i].magic = k.towers[i].magic /\ h.towers[i].near = k.towers[i].near
  <2>1. CASE stat = "damage"
    <3>1. h = RecalcDamage(k)
      BY <2>1 DEF Recalc
    <3>2. /\ h \in GameRec /\ Steady(k, h) /\ SameBuffs(k, h) /\ Reshaped(k, h) /\ DamageFresh(h)
          /\ \A i \in Standing(k) : /\ h.towers[i].level = k.towers[i].level
                                    /\ h.towers[i].magic = k.towers[i].magic
                                    /\ h.towers[i].near = k.towers[i].near
                                    /\ h.towers[i].range = k.towers[i].range
      BY <1>4, <3>1, ArRecalcDamage
    <3>3. RangeFresh(h)
      BY <1>7, <2>1, <3>2 DEF RangeFresh, RangeOf, SameBuffs, Reshaped
    <3> QED BY <3>2, <3>3
  <2>2. CASE stat = "range"
    <3>1. h = RecalcRange(k)
      BY <2>2 DEF Recalc
    <3>2. /\ h \in GameRec /\ Steady(k, h) /\ SameBuffs(k, h) /\ Reshaped(k, h) /\ RangeFresh(h)
          /\ \A i \in Standing(k) : /\ h.towers[i].level = k.towers[i].level
                                    /\ h.towers[i].magic = k.towers[i].magic
                                    /\ h.towers[i].near = k.towers[i].near
                                    /\ h.towers[i].damage = k.towers[i].damage
      BY <1>4, <3>1, ArRecalcRange
    <3>3. DamageFresh(h)
      BY <1>6, <2>2, <3>2 DEF DamageFresh, DamageOf, SameBuffs, Reshaped
    <3> QED BY <3>2, <3>3
  <2>3. CASE stat # "damage" /\ stat # "range"
    <3>1. h = k
      BY <2>3 DEF Recalc
    <3> QED BY <1>4, <1>6, <1>7, <2>3, <3>1 DEF Steady, SameBuffs, Reshaped, Look
  <2> QED BY <2>1, <2>2, <2>3
<1> HIDE DEF h
<1>10. IdsOk(h) /\ PairsOk(h) /\ LasersOk(h) /\ NearFresh(h)
  <2>1. IdsOk(h) /\ PairsOk(h) /\ LasersOk(h)
        /\ \A i \in Standing(k) : Neighbours(h, h.towers[i]) = Neighbours(k, k.towers[i])
    BY <1>8, <1>9, ArReshaped
  <2>2. NearFresh(h)
    BY <1>8, <1>9, <2>1 DEF NearFresh, Reshaped
  <2> QED BY <2>1, <2>2
<1>11. Fitted(h)
  BY <1>9, <1>10 DEF Fitted
<1>12. Steady(g, h) /\ Magics(g, h) /\ h.bonus = b /\ h.buffs = g.buffs /\ h.shieldHits = g.shieldHits
  BY <1>4, <1>5, <1>9 DEF Steady, Magics, SameBuffs, Reshaped
<1> QED BY <1>11, <1>12 DEF h, k, b

\* The list of buffs and the shield's hits are nothing the fleet depends on.
LEMMA ArRelist ==
  ASSUME NEW g, Fitted(g), NEW buffs \in Seq(Buff), NEW hits \in 0 .. 3,
         NEW h \in GameRec, h.towers = g.towers, h.nextId = g.nextId, h.lasers = g.lasers, h.bonus = g.bonus
  PROVE  Fitted(h) /\ Magics(g, h)
<1>1. Standing(h) = Standing(g) /\ Reshaped(g, h) /\ Magics(g, h)
  BY DEF Standing, Reshaped, Look, Magics
<1>2. IdsOk(h) /\ PairsOk(h) /\ LasersOk(h)
      /\ \A i \in Standing(g) : Neighbours(h, h.towers[i]) = Neighbours(g, g.towers[i])
  BY <1>1, ArReshaped DEF Fitted
<1>3. DamageFresh(h) /\ RangeFresh(h) /\ NearFresh(h)
  BY <1>1, <1>2 DEF Fitted, DamageFresh, RangeFresh, NearFresh, DamageOf, RangeOf
<1> QED BY <1>1, <1>2, <1>3 DEF Fitted

LEMMA ArShieldsRemove ==
  ASSUME NEW s \in Seq(Buff), NEW i \in 1 .. Len(s), \A j, k \in Shields(s) : j = k
  PROVE  LET r == RemoveAt(s, i) IN
         /\ \A j, k \in Shields(r) : j = k
         /\ s[i].effect = "SHIELD" => Shields(r) = {}
         /\ s[i].effect # "SHIELD" => (Shields(r) # {} <=> Shields(s) # {})
<1> DEFINE r == RemoveAt(s, i)
<1>1. /\ Len(s) \in Nat /\ DOMAIN s = 1 .. Len(s) /\ r \in Seq(Buff) /\ Len(r) = Len(s) - 1
      /\ \A j \in 1 .. Len(s) - 1 : r[j] = IF j < i THEN s[j] ELSE s[j + 1]
  BY ArRemoveAt
<1>2. DOMAIN r = 1 .. Len(s) - 1
  BY <1>1
<1> HIDE DEF r
<1> DEFINE old(j) == IF j < i THEN j ELSE j + 1
<1>3. ASSUME NEW j \in Shields(r) PROVE j \in 1 .. Len(s) - 1 /\ old(j) \in Shields(s) /\ old(j) # i
  BY <1>1, <1>2 DEF Shields
<1>4. \A j, k \in Shields(r) : j = k
  <2>1. ASSUME NEW j \in Shields(r), NEW k \in Shields(r) PROVE j = k
    <3>1. old(j) = old(k) /\ j \in Int /\ k \in Int /\ i \in Int
      BY <1>3
    <3> QED BY <3>1
  <2> QED BY <2>1
<1>5. s[i].effect = "SHIELD" => Shields(r) = {}
  <2>1. ASSUME s[i].effect = "SHIELD", NEW j \in Shields(r) PROVE FALSE
    <3>1. i \in Shields(s)
      BY <1>1, <2>1 DEF Shields
    <3> QED BY <1>3, <3>1
  <2> QED BY <2>1
<1>6. ASSUME s[i].effect # "SHIELD", NEW j \in Shields(s) PROVE Shields(r) # {}
  <2>1. j \in 1 .. Len(s) /\ s[j].effect = "SHIELD" /\ j # i
    BY <1>1, <1>6 DEF Shields
  <2>2. CASE j < i
    <3>1. j \in 1 .. Len(s) - 1 /\ r[j] = s[j]
      BY <1>1, <2>1, <2>2
    <3> QED BY <1>2, <2>1, <3>1 DEF Shields
  <2>3. CASE ~(j < i)
    <3>1. j - 1 \in 1 .. Len(s) - 1 /\ ~(j - 1 < i) /\ j - 1 + 1 = j
      BY <1>1, <2>1, <2>3
    <3>2. r[j - 1] = s[j]
      BY <1>1, <3>1
    <3> QED BY <1>2, <2>1, <3>1, <3>2 DEF Shields
  <2> QED BY <2>2, <2>3
<1>7. s[i].effect # "SHIELD" => (Shields(r) # {} <=> Shields(s) # {})
  BY <1>3, <1>6
<1> QED BY <1>4, <1>5, <1>7 DEF r

LEMMA ArHits ==
  ASSUME NEW g \in GameRec, NEW hits \in 0 .. 3
  PROVE  LET h == [g EXCEPT !.shieldHits = hits] IN
         /\ h \in GameRec /\ h.towers = g.towers /\ h.nextId = g.nextId /\ h.lasers = g.lasers
         /\ h.bonus = g.bonus /\ h.buffs = g.buffs /\ h.shieldHits = hits /\ Steady(g, h)
BY DEF GameRec, Steady

\* An entry goes and what it added goes with it.
Drop(g, i) == [RevertEffect(g, g.buffs[i].effect) EXCEPT !.buffs = RemoveAt(@, i)]

LEMMA ArDrop ==
  ASSUME NEW g, Fitted(g), BonusOk(g), NEW i \in DOMAIN g.buffs,
         \A j, n \in Shields(g.buffs) : j = n, ShieldOk(g) \/ g.buffs[i].effect = "SHIELD"
  PROVE  LET h == Drop(g, i) IN
         Sound(h) /\ Steady(g, h) /\ Magics(g, h) /\ h.buffs = RemoveAt(g.buffs, i)
<1> DEFINE e == g.buffs[i].effect
           k == RevertEffect(g, e)
           r == RemoveAt(g.buffs, i)
<1>1. g \in GameRec /\ g.buffs \in Seq(Buff) /\ g.bonus \in [Stats -> Int] /\ g.shieldHits \in 0 .. 3
  BY DEF Fitted, GameRec
<1>2. i \in 1 .. Len(g.buffs) /\ g.buffs[i] \in Buff /\ e \in Lasting
  <2>1. i \in 1 .. Len(g.buffs)
    BY <1>1
  <2>2. g.buffs[i] \in Buff
    BY <1>1, <2>1
  <2> QED BY <2>1, <2>2 DEF Buff
<1>3. r \in Seq(Buff) /\ \A s : SumOf(r, s) = SumOf(g.buffs, s) - Part(g.buffs[i], s)
  BY <1>1, <1>2, ArRemoveAt, ArSumRemove
<1>4. \A s : Part(g.buffs[i], s) \in Int /\ SumOf(g.buffs, s) \in Int
  BY <1>1, <1>2, ArPart, ArSumInt
<1>5. /\ \A j, n \in Shields(r) : j = n
      /\ e = "SHIELD" => Shields(r) = {}
      /\ e # "SHIELD" => (Shields(r) # {} <=> Shields(g.buffs) # {})
  BY <1>1, <1>2, ArShieldsRemove
<1> HIDE DEF r, e
<1>6. /\ Fitted(k) /\ Steady(g, k) /\ Magics(g, k) /\ k.buffs = g.buffs
      /\ \A s \in Stats : k.bonus[s] = SumOf(r, s)
      /\ k.shieldHits = IF e = "SHIELD" THEN 0 ELSE g.shieldHits
  <2>1. CASE e = "SHIELD"
    <3> DEFINE z == [g EXCEPT !.shieldHits = 0]
    <3>0. z \in GameRec /\ z.towers = g.towers /\ z.nextId = g.nextId /\ z.lasers = g.lasers
          /\ z.bonus = g.bonus /\ z.buffs = g.buffs /\ z.shieldHits = 0 /\ Steady(g, z)
      <4>1. g \in GameRec /\ 0 \in 0 .. 3
        BY <1>1
      <4> HIDE DEF k
      <4> QED BY <4>1, ArHits
    <3>1. k = z
      BY <2>1 DEF RevertEffect
    <3> HIDE DEF k, z
    <3>2. k \in GameRec /\ k.towers = g.towers /\ k.nextId = g.nextId /\ k.lasers = g.lasers
          /\ k.bonus = g.bonus /\ k.buffs = g.buffs /\ k.shieldHits = 0 /\ Steady(g, k)
      BY <3>0, <3>1
    <3>3. Fitted(k) /\ Magics(g, k)
      BY <1>1, <3>2, ArRelist
    <3>4. ASSUME NEW s \in Stats PROVE k.bonus[s] = SumOf(r, s)
      <4>1. Part(g.buffs[i], s) = 0
        BY <2>1 DEF Part, Deltas, e
      <4> QED BY <1>3, <1>4, <3>2, <4>1 DEF BonusOk
    <3> QED BY <2>1, <3>2, <3>3, <3>4
  <2>2. CASE e # "SHIELD"
    <3> DEFINE stat == Deltas[e].stat
               by == Deltas[e].by
               left == g.bonus[stat] - by
               x == IF stat \in {"foeSpeed", "vuln"} THEN left ELSE AtLeast(0, left)
    <3>1. e \in DOMAIN Deltas
      BY <1>2, <2>2 DEF Lasting
    <3>2. stat \in Stats /\ by \in Int
      BY <3>1 DEF Deltas, Stats
    <3>3. Part(g.buffs[i], stat) = by /\ \A s \in Stats \ {stat} : Part(g.buffs[i], s) = 0
      BY <3>1 DEF Part, e
    <3>4. k = Recalc([g EXCEPT !.bonus[stat] = x], stat)
      BY <2>2 DEF RevertEffect
    <3> HIDE DEF stat, by, k
    <3>5. left = SumOf(r, stat)
      BY <1>3, <3>2, <3>3 DEF BonusOk
    <3>6. x = SumOf(r, stat) /\ x \in Int
      <4>1. SumOf(r, stat) \in Int
        BY <1>3, ArSumInt
      <4>2. stat \in {"foeSpeed", "vuln"} \/ SumOf(r, stat) \in Nat
        BY <1>3, <3>2, ArSumNat
      <4> QED BY <3>5, <4>1, <4>2 DEF AtLeast
    <3> HIDE DEF x, left
    <3>7. /\ Fitted(k) /\ Steady(g, k) /\ Magics(g, k)
          /\ k.bonus = [g.bonus EXCEPT ![stat] = x] /\ k.buffs = g.buffs /\ k.shieldHits = g.shieldHits
      BY <3>2, <3>4, <3>6, ArShift
    <3>8. ASSUME NEW s \in Stats PROVE k.bonus[s] = SumOf(r, s)
      <4>1. CASE s = stat
        BY <1>1, <3>6, <3>7, <4>1
      <4>2. CASE s # stat
        <5>1. k.bonus[s] = g.bonus[s] /\ Part(g.buffs[i], s) = 0
          BY <1>1, <3>3, <3>7, <4>2
        <5> QED BY <1>3, <1>4, <5>1 DEF BonusOk
      <4> QED BY <4>1, <4>2
    <3> QED BY <2>2, <3>7, <3>8
  <2> QED BY <2>1, <2>2
<1> DEFINE h == [k EXCEPT !.buffs = r]
<1>7. h = Drop(g, i)
  BY <1>6 DEF Drop, r, k, e
<1> HIDE DEF k
<1>8. /\ h \in GameRec /\ h.towers = k.towers /\ h.nextId = k.nextId /\ h.lasers = k.lasers /\ h.bonus = k.bonus
      /\ h.buffs = r /\ h.shieldHits = k.shieldHits /\ Steady(k, h)
  BY <1>3, <1>6 DEF Fitted, GameRec, Steady
<1> HIDE DEF h
<1>9. Fitted(h) /\ Magics(k, h)
  BY <1>1, <1>6, <1>8, ArRelist
<1>10. BonusOk(h)
  BY <1>6, <1>8 DEF BonusOk
<1>11. ShieldOk(h)
  <2>1. CASE e = "SHIELD"
    BY <1>5, <1>6, <1>8, <2>1 DEF ShieldOk
  <2>2. CASE e # "SHIELD"
    <3>1. ShieldOk(g)
      BY <2>2 DEF e
    <3> QED BY <1>5, <1>6, <1>8, <2>2, <3>1 DEF ShieldOk
  <2> QED BY <2>1, <2>2
<1>12. Steady(g, h) /\ Magics(g, h)
  BY <1>6, <1>8, <1>9 DEF Steady, Magics
<1> QED BY <1>7, <1>8, <1>9, <1>10, <1>11, <1>12 DEF Sound, r

LEMMA ArTicks == ASSUME NEW secs \in Nat \ {0} PROVE Ticks(secs) \in Nat \ {0}
<1>1. TickSecs \in Nat \ {0}
  BY ArsenalAssumption
<1> DEFINE n == secs + TickSecs - 1
<1>2. n \in Nat /\ n >= TickSecs
  BY <1>1
<1> HIDE DEF n
<1>3. n \div TickSecs \in Nat /\ n \div TickSecs >= 1
  BY <1>1, <1>2
<1> QED BY <1>3 DEF Ticks, n

LEMMA ArShieldsAppend ==
  ASSUME NEW s \in Seq(Buff), NEW x \in Buff, \A j, n \in Shields(s) : j = n,
         x.effect = "SHIELD" => Shields(s) = {}
  PROVE  LET r == Append(s, x) IN
         /\ \A j, n \in Shields(r) : j = n
         /\ Shields(r) # {} <=> Shields(s) # {} \/ x.effect = "SHIELD"
<1> DEFINE r == Append(s, x)
<1>1. /\ Len(s) \in Nat /\ DOMAIN s = 1 .. Len(s) /\ DOMAIN r = 1 .. Len(s) + 1
      /\ \A j \in 1 .. Len(s) : r[j] = s[j]
  OBVIOUS
<1>2. r[Len(s) + 1] = x
  OBVIOUS
<1> HIDE DEF r
<1>3. \A j \in Shields(r) : j \in Shields(s) \/ (j = Len(s) + 1 /\ x.effect = "SHIELD")
  BY <1>1, <1>2 DEF Shields
<1>4. Shields(s) \subseteq Shields(r)
  BY <1>1 DEF Shields
<1>5. x.effect = "SHIELD" => Len(s) + 1 \in Shields(r)
  BY <1>1, <1>2 DEF Shields
<1> QED BY <1>3, <1>4, <1>5 DEF r

\* A buff that lasts is applied and listed.
LEMMA ArApply ==
  ASSUME NEW g, Sound(g), NEW e \in Lasting, NEW secs \in Nat \ {0},
         e = "SHIELD" => Shields(g.buffs) = {}
  PROVE  LET h == ApplyExternalBuff(g, e, secs) IN
         Sound(h) /\ Steady(g, h) /\ Magics(g, h) /\ (LeftOk(g) => LeftOk(h))
<1> DEFINE x == [effect |-> e, left |-> Ticks(secs)]
           r == Append(g.buffs, x)
           k == ApplyEffect(g, e)
<1>1. g \in GameRec /\ g.buffs \in Seq(Buff) /\ g.bonus \in [Stats -> Int] /\ g.shieldHits \in 0 .. 3
  BY DEF Sound, Fitted, GameRec
<1>2. x \in Buff /\ x.effect = e /\ x.left > 0
  <2>1. Ticks(secs) \in Nat \ {0}
    BY ArTicks
  <2> QED BY <2>1 DEF Buff
<1> HIDE DEF x
<1>3. r \in Seq(Buff) /\ \A s : SumOf(r, s) = SumOf(g.buffs, s) + Part(x, s)
  BY <1>1, <1>2, ArSumAppend
<1>4. \A s : Part(x, s) \in Int /\ SumOf(g.buffs, s) \in Int
  BY <1>1, <1>2, ArPart, ArSumInt
<1>5. (\A j, n \in Shields(r) : j = n) /\ (Shields(r) # {} <=> Shields(g.buffs) # {} \/ e = "SHIELD")
  <2>1. \A j, n \in Shields(g.buffs) : j = n
    BY DEF Sound, ShieldOk
  <2> QED BY <1>1, <1>2, <2>1, ArShieldsAppend
<1>6. LeftOk(g) => \A n \in DOMAIN r : r[n].left > 0
  <2>1. /\ DOMAIN g.buffs = 1 .. Len(g.buffs) /\ DOMAIN r = 1 .. Len(g.buffs) + 1
        /\ r[Len(g.buffs) + 1] = x /\ \A n \in 1 .. Len(g.buffs) : r[n] = g.buffs[n]
    BY <1>1, <1>2
  <2>2. Len(g.buffs) \in Nat
    BY <1>1
  <2> HIDE DEF r
  <2> QED BY <1>2, <2>1, <2>2 DEF LeftOk
<1> HIDE DEF r
<1>7. /\ Fitted(k) /\ Steady(g, k) /\ Magics(g, k) /\ k.buffs = g.buffs
      /\ \A s \in Stats : k.bonus[s] = SumOf(r, s)
      /\ k.shieldHits = IF e = "SHIELD" THEN 3 ELSE g.shieldHits
  <2>1. CASE e = "SHIELD"
    <3> DEFINE z == [g EXCEPT !.shieldHits = 3]
    <3>1. z \in GameRec /\ z.towers = g.towers /\ z.nextId = g.nextId /\ z.lasers = g.lasers
          /\ z.bonus = g.bonus /\ z.buffs = g.buffs /\ z.shieldHits = 3 /\ Steady(g, z)
      <4>1. g \in GameRec /\ 3 \in 0 .. 3
        BY <1>1
      <4> HIDE DEF k
      <4> QED BY <4>1, ArHits
    <3>2. k = z
      BY <2>1 DEF ApplyEffect, Deltas, Heals
    <3> HIDE DEF k, z
    <3>3. Fitted(k) /\ Magics(g, k)
      BY <1>1, <3>1, <3>2, ArRelist DEF Sound
    <3>4. ASSUME NEW s \in Stats PROVE k.bonus[s] = SumOf(r, s)
      <4>1. Part(x, s) = 0
        BY <2>1, <1>2 DEF Part, Deltas
      <4> QED BY <1>3, <1>4, <3>1, <3>2, <4>1 DEF BonusOk, Sound
    <3> QED BY <2>1, <3>1, <3>2, <3>3, <3>4
  <2>2. CASE e # "SHIELD"
    <3> DEFINE stat == Deltas[e].stat
               by == Deltas[e].by
               y == g.bonus[stat] + by
    <3>1. e \in DOMAIN Deltas
      BY <2>2 DEF Lasting
    <3>2. stat \in Stats /\ by \in Int
      BY <3>1 DEF Deltas, Stats
    <3>3. Part(x, stat) = by /\ \A s \in Stats \ {stat} : Part(x, s) = 0
      BY <1>2, <3>1 DEF Part
    <3>4. k = Recalc([g EXCEPT !.bonus[stat] = y], stat)
      <4>1. e \notin DOMAIN Heals /\ e # "SHIELD" /\ e # "FREE_TOWERS"
        BY <3>1 DEF Deltas, Heals
      <4>2. k = Recalc([g EXCEPT !.bonus[Deltas[e].stat] = @ + Deltas[e].by], Deltas[e].stat)
        BY <3>1, <4>1 DEF ApplyEffect
      <4>3. [g EXCEPT !.bonus[Deltas[e].stat] = @ + Deltas[e].by] = [g EXCEPT !.bonus[stat] = y]
        BY <1>1, <3>2 DEF GameRec
      <4> HIDE DEF k
      <4> QED BY <4>2, <4>3
    <3> HIDE DEF stat, by, k
    <3>5. y = SumOf(r, stat) /\ y \in Int
      BY <1>3, <1>4, <3>2, <3>3 DEF BonusOk, Sound
    <3> HIDE DEF y
    <3>6. /\ Fitted(k) /\ Steady(g, k) /\ Magics(g, k)
          /\ k.bonus = [g.bonus EXCEPT ![stat] = y] /\ k.buffs = g.buffs /\ k.shieldHits = g.shieldHits
      BY <3>2, <3>4, <3>5, ArShift DEF Sound
    <3>7. ASSUME NEW s \in Stats PROVE k.bonus[s] = SumOf(r, s)
      <4>1. CASE s = stat
        BY <1>1, <3>5, <3>6, <4>1
      <4>2. CASE s # stat
        <5>1. k.bonus[s] = g.bonus[s] /\ Part(x, s) = 0
          BY <1>1, <3>3, <3>6, <4>2
        <5> QED BY <1>3, <1>4, <5>1 DEF BonusOk, Sound
      <4> QED BY <4>1, <4>2
    <3> QED BY <2>2, <3>6, <3>7
  <2> QED BY <2>1, <2>2
<1> DEFINE w == [k EXCEPT !.buffs = r]
<1>8. ApplyExternalBuff(g, e, secs) = ActiveBuffsChanged(w)
  BY <1>7 DEF ApplyExternalBuff, r, x, k
<1> HIDE DEF k
<1>9. /\ w \in GameRec /\ w.towers = k.towers /\ w.nextId = k.nextId /\ w.lasers = k.lasers /\ w.bonus = k.bonus
      /\ w.buffs = r /\ w.shieldHits = k.shieldHits /\ Steady(k, w)
  BY <1>3, <1>7 DEF Fitted, GameRec, Steady
<1> HIDE DEF w
<1>10. Fitted(w) /\ Magics(k, w)
  BY <1>1, <1>7, <1>9, ArRelist
<1>11. BonusOk(w)
  BY <1>7, <1>9 DEF BonusOk
<1>12. ShieldOk(w)
  <2>1. g.shieldHits > 0 <=> Shields(g.buffs) # {}
    BY DEF Sound, ShieldOk
  <2> QED BY <1>1, <1>5, <1>7, <1>9, <2>1 DEF ShieldOk
<1>13. Sound(w) /\ Steady(g, w) /\ Magics(g, w) /\ (LeftOk(g) => LeftOk(w))
  BY <1>6, <1>7, <1>9, <1>10, <1>11, <1>12 DEF Sound, Steady, Magics, LeftOk
<1>14. LET h == ActiveBuffsChanged(w) IN h \in GameRec /\ Alike(w, h) /\ Steady(w, h)
  BY <1>9, ArBuffsChanged
<1> DEFINE h == ActiveBuffsChanged(w)
<1> HIDE DEF h
<1>15. h \in GameRec /\ Alike(w, h) /\ Steady(w, h)
  BY <1>14 DEF h
<1>16. Sound(h) /\ (LeftOk(w) => LeftOk(h))
  BY <1>13, <1>15, ArCarry
<1>17. Steady(g, h) /\ Magics(g, h)
  BY <1>13, <1>15 DEF Steady, Magics, Alike, Standing
<1> QED BY <1>8, <1>13, <1>16, <1>17 DEF h

\* A heal or a door's free towers: nothing is listed.
LEMMA ArInstant ==
  ASSUME NEW g, Sound(g), NEW e \in DOMAIN Heals \cup {"FREE_TOWERS"}
  PROVE  LET h == ApplyExternalBuff(g, e, 0) IN
         /\ Sound(h) /\ (LeftOk(g) => LeftOk(h)) /\ Magics(g, h)
         /\ h.gold = g.gold /\ h.cost = g.cost /\ h.phase \in {g.phase, "GAME_OVER"}
<1> DEFINE h == ApplyExternalBuff(g, e, 0)
<1>1. g \in GameRec
  BY DEF Sound, Fitted
<1>2. h = ApplyEffect(g, e)
  BY DEF ApplyExternalBuff
<1>3. e \notin DOMAIN Deltas /\ e # "SHIELD"
  BY DEF Deltas, Heals
<1> HIDE DEF h
<1>4. h \in GameRec /\ Alike(g, h) /\ h.gold = g.gold /\ h.cost = g.cost /\ h.phase \in {g.phase, "GAME_OVER"}
  <2>1. CASE e \in DOMAIN Heals
    <3>1. Heals[e] \in Int
      BY <2>1, ArsenalAssumption DEF Heals
    <3>2. h = ChangeHp(g, Heals[e])
      <4>1. e # "FREE_TOWERS"
        BY <2>1 DEF Heals
      <4> QED BY <1>2, <1>3, <2>1, <4>1 DEF ApplyEffect
    <3> QED BY <1>1, <3>1, <3>2, ArChangeHp
  <2>2. CASE e = "FREE_TOWERS"
    <3> DEFINE a == g.free + 2
               k == [g EXCEPT !.free = a]
    <3>1. h = k
      BY <1>2, <1>3, <2>2 DEF ApplyEffect, Heals
    <3>2. a \in Nat
      BY <1>1 DEF GameRec
    <3> HIDE DEF a
    <3>3. k \in GameRec /\ Alike(g, k) /\ k.gold = g.gold /\ k.cost = g.cost /\ k.phase = g.phase
      BY <1>1, <3>2 DEF GameRec, Alike
    <3> HIDE DEF k
    <3> QED BY <3>1, <3>3
  <2> QED BY <2>1, <2>2
<1>5. Sound(h) /\ (LeftOk(g) => LeftOk(h))
  BY <1>4, ArCarry
<1>6. Magics(g, h)
  BY <1>4 DEF Alike, Magics, Standing
<1> QED BY <1>4, <1>5, <1>6 DEF h

\* Timers run down: the entries keep their effects.
LEMMA ArAged ==
  ASSUME NEW g, Sound(g)
  PROVE  LET h == [g EXCEPT !.buffs = [i \in DOMAIN g.buffs |-> [g.buffs[i] EXCEPT !.left = @ - 1]]] IN
         Sound(h) /\ Steady(g, h) /\ Magics(g, h) /\ Len(h.buffs) = Len(g.buffs)
<1> DEFINE r == [i \in DOMAIN g.buffs |-> [g.buffs[i] EXCEPT !.left = @ - 1]]
           h == [g EXCEPT !.buffs = r]
<1>1. g \in GameRec /\ g.buffs \in Seq(Buff) /\ Fitted(g)
  BY DEF Sound, Fitted, GameRec
<1>2. Len(g.buffs) \in Nat /\ DOMAIN g.buffs = 1 .. Len(g.buffs)
  BY <1>1
<1>3. ASSUME NEW i \in 1 .. Len(g.buffs)
      PROVE  [g.buffs[i] EXCEPT !.left = @ - 1] \in Buff /\ [g.buffs[i] EXCEPT !.left = @ - 1].effect = g.buffs[i].effect
  <2>1. g.buffs[i] \in Buff
    BY <1>1
  <2> QED BY <2>1 DEF Buff
<1>4. r \in Seq(Buff) /\ Len(r) = Len(g.buffs)
  BY <1>2, <1>3
<1>5. \A i \in 1 .. Len(g.buffs) : r[i].effect = g.buffs[i].effect
  BY <1>2, <1>3
<1>6. DOMAIN r = DOMAIN g.buffs
  OBVIOUS
<1> HIDE DEF r
<1>7. Shields(r) = Shields(g.buffs)
  BY <1>2, <1>5, <1>6 DEF Shields
<1>8. \A s : SumOf(r, s) = SumOf(g.buffs, s)
  BY <1>1, <1>4, <1>5, ArSumAged
<1>9. /\ h \in GameRec /\ h.towers = g.towers /\ h.nextId = g.nextId /\ h.lasers = g.lasers /\ h.bonus = g.bonus
      /\ h.buffs = r /\ h.shieldHits = g.shieldHits /\ Steady(g, h)
  BY <1>1, <1>4 DEF GameRec, Steady
<1> HIDE DEF h
<1>10. Fitted(h) /\ Magics(g, h)
  <2>1. g.shieldHits \in 0 .. 3
    BY <1>1 DEF GameRec
  <2> QED BY <1>1, <1>9, <2>1, ArRelist
<1>11. BonusOk(h) /\ ShieldOk(h)
  BY <1>7, <1>8, <1>9 DEF Sound, BonusOk, ShieldOk
<1> QED BY <1>4, <1>9, <1>10, <1>11 DEF Sound, h, r

\* The timers of a frame, entry by entry.
Ageing(f, g, aged) ==
  f = [n \in 0..Len(g.buffs) |-> IF n = 0 THEN aged ELSE Expire(f[n - 1], Len(g.buffs) + 1 - n)]

LEMMA ArAgeing ==
  ASSUME NEW g, Len(g.buffs) \in Nat, NEW aged
  PROVE  \E f : Ageing(f, g, aged)
<1> DEFINE L == Len(g.buffs)
           At(f, n) == f = [i \in 0 .. n |-> IF i = 0 THEN aged ELSE Expire(f[i - 1], L + 1 - i)]
           T == {n \in Nat : \E f : At(f, n)}
<1>1. 0 \in T
  <2> DEFINE z == [i \in 0 .. 0 |-> aged]
  <2>1. At(z, 0)
    OBVIOUS
  <2> HIDE DEF z, At
  <2> QED BY <2>1
<1>2. ASSUME NEW n \in Nat, n \in T PROVE n + 1 \in T
  <2>1. PICK f : At(f, n)
    BY <1>2
  <2> DEFINE z == [i \in 0 .. n + 1 |-> IF i = n + 1 THEN Expire(f[n], L + 1 - (n + 1)) ELSE f[i]]
  <2>2. ASSUME NEW i \in 0 .. n + 1 PROVE z[i] = IF i = 0 THEN aged ELSE Expire(z[i - 1], L + 1 - i)
    <3>1. CASE i = n + 1
      <4>1. z[i] = Expire(f[n], L + 1 - i) /\ i # 0 /\ z[i - 1] = f[n]
        BY <3>1
      <4> HIDE DEF z
      <4> QED BY <4>1
    <3>2. CASE i # n + 1
      <4>1. i \in 0 .. n /\ f[i] = (IF i = 0 THEN aged ELSE Expire(f[i - 1], L + 1 - i))
        BY <2>1, <3>2
      <4>2. i # 0 => i - 1 \in 0 .. n + 1 /\ i - 1 # n + 1
        BY <4>1
      <4>3. z[i] = f[i] /\ (i # 0 => z[i - 1] = f[i - 1])
        BY <3>2, <4>2
      <4> HIDE DEF z
      <4> QED BY <4>1, <4>3
    <3> QED BY <3>1, <3>2
  <2>3. z = [i \in 0 .. n + 1 |-> z[i]]
    OBVIOUS
  <2> HIDE DEF z, L
  <2>4. At(z, n + 1)
    BY <2>2, <2>3
  <2> HIDE DEF At
  <2> QED BY <2>4
<1>3. L \in T
  <2> HIDE DEF T
  <2> QED BY <1>1, <1>2, ArInduct
<1> QED BY <1>3 DEF Ageing

\* A frame retires exactly the buffs whose time is over.
LEMMA ArBuffUpdate ==
  ASSUME NEW g, Sound(g), LeftOk(g)
  PROVE  LET h == BuffUpdate(g) IN Sound(h) /\ Steady(g, h) /\ Magics(g, h) /\ LeftOk(h)
<1> DEFINE aged == [g EXCEPT !.buffs = [i \in DOMAIN g.buffs |-> [g.buffs[i] EXCEPT !.left = @ - 1]]]
           L == Len(g.buffs)
           after == CHOOSE f : Ageing(f, g, aged)
           done == after[L]
           h == BuffUpdate(g)
<1>1. g.buffs \in Seq(Buff) /\ L \in Nat
  BY DEF Sound, Fitted, GameRec
<1>2. Sound(aged) /\ Steady(g, aged) /\ Magics(g, aged) /\ Len(aged.buffs) = L
  BY ArAged
<1>3. h = IF g.phase # "WAVE" THEN g ELSE IF Len(done.buffs) < L THEN ActiveBuffsChanged(done) ELSE done
  BY DEF BuffUpdate, Ageing
<1>4. Ageing(after, g, aged)
  <2>1. \E f : Ageing(f, g, aged)
    BY <1>1, ArAgeing
  <2> HIDE DEF aged, L
  <2> QED BY <2>1
<1> HIDE DEF after, aged
<1>5. after[0] = aged /\ \A n \in 1 .. L : after[n] = Expire(after[n - 1], L + 1 - n)
  <2>1. after = [n \in 0..L |-> IF n = 0 THEN aged ELSE Expire(after[n - 1], L + 1 - n)]
    BY <1>4 DEF Ageing
  <2> HIDE DEF L, h
  <2>2. after[0] = aged
    BY <1>1, <2>1
  <2>3. ASSUME NEW n \in 1 .. L PROVE after[n] = Expire(after[n - 1], L + 1 - n)
    <3>1. n \in 0 .. L /\ n # 0
      BY <1>1
    <3> QED BY <2>1, <3>1
  <2> QED BY <2>2, <2>3
<1> HIDE DEF L, h
<1> DEFINE Ok(k, n) == /\ Sound(k) /\ Steady(g, k) /\ Magics(g, k) /\ L - n <= Len(k.buffs)
                       /\ \A j \in DOMAIN k.buffs : j > L - n => k.buffs[j].left > 0
           E == {n \in Nat : n <= L => Ok(after[n], n)}
<1>6. 0 \in E
  <2>1. aged.buffs \in Seq(Buff)
    BY <1>2 DEF Sound, Fitted, GameRec
  <2>2. \A j \in DOMAIN aged.buffs : ~(j > L - 0)
    BY <1>1, <1>2, <2>1
  <2> QED BY <1>1, <1>2, <1>5, <2>2
<1>7. ASSUME NEW n \in Nat, n \in E PROVE n + 1 \in E
  <2>1. SUFFICES ASSUME n + 1 <= L PROVE Ok(after[n + 1], n + 1)
    OBVIOUS
  <2> DEFINE k == after[n]
             i == L - n
  <2>2. Ok(k, n)
    BY <1>1, <1>7, <2>1
  <2>3. n + 1 \in 1 .. L /\ n + 1 - 1 = n /\ L + 1 - (n + 1) = i /\ i \in Nat \ {0} /\ L - (n + 1) = i - 1
    BY <1>1, <2>1
  <2>4. after[n + 1] = Expire(k, i)
    BY <1>5, <2>3
  <2>5. k.buffs \in Seq(Buff)
    BY <2>2 DEF Sound, Fitted, GameRec
  <2> HIDE DEF k, i
  <2>6. i \in 1 .. Len(k.buffs) /\ DOMAIN k.buffs = 1 .. Len(k.buffs) /\ Len(k.buffs) \in Nat
    BY <2>2, <2>3, <2>5 DEF i
  <2>7. /\ Sound(k) /\ Steady(g, k) /\ Magics(g, k)
        /\ \A j \in DOMAIN k.buffs : j > i => k.buffs[j].left > 0
    BY <2>2 DEF i
  <2> HIDE DEF Ok
  <2>8. CASE k.buffs[i].left > 0
    <3>1. after[n + 1] = k
      BY <2>4, <2>8 DEF Expire
    <3>2. \A j \in DOMAIN k.buffs : j > i - 1 => k.buffs[j].left > 0
      BY <2>3, <2>6, <2>7, <2>8
    <3> QED BY <2>3, <2>6, <2>7, <3>1, <3>2 DEF Ok
  <2>9. CASE ~(k.buffs[i].left > 0)
    <3> DEFINE z == Drop(k, i)
    <3>1. after[n + 1] = z
      BY <2>4, <2>9 DEF Expire, Drop
    <3>2. Sound(z) /\ Steady(k, z) /\ Magics(k, z) /\ z.buffs = RemoveAt(k.buffs, i)
      BY <2>6, <2>7, ArDrop DEF Sound, ShieldOk
    <3> HIDE DEF z
    <3>3. /\ z.buffs \in Seq(Buff) /\ Len(z.buffs) = Len(k.buffs) - 1
          /\ \A j \in 1 .. Len(k.buffs) - 1 : z.buffs[j] = IF j < i THEN k.buffs[j] ELSE k.buffs[j + 1]
      BY <2>5, <2>6, <3>2, ArRemoveAt
    <3>4. ASSUME NEW j \in DOMAIN z.buffs, j > i - 1 PROVE z.buffs[j].left > 0
      <4>1. j \in 1 .. Len(k.buffs) - 1 /\ ~(j < i) /\ j + 1 \in DOMAIN k.buffs /\ j + 1 > i
        BY <2>3, <2>6, <3>3, <3>4
      <4> QED BY <2>7, <3>3, <4>1
    <3>5. Steady(g, z) /\ Magics(g, z)
      BY <2>7, <3>2 DEF Steady, Magics
    <3> QED BY <2>3, <2>6, <3>1, <3>2, <3>3, <3>4, <3>5 DEF Ok
  <2> QED BY <2>8, <2>9
<1>8. Ok(done, L)
  <2>1. Nat \subseteq E
    <3> HIDE DEF E
    <3> QED BY <1>6, <1>7, ArInduct
  <2>2. L \in E /\ L <= L
    BY <1>1, <2>1
  <2> HIDE DEF Ok
  <2> QED BY <2>2
<1>9. Sound(done) /\ Steady(g, done) /\ Magics(g, done) /\ LeftOk(done)
  <2>1. done.buffs \in Seq(Buff)
    BY <1>8 DEF Sound, Fitted, GameRec
  <2>2. \A j \in DOMAIN done.buffs : j > L - L
    BY <1>1, <2>1
  <2> HIDE DEF done
  <2> QED BY <1>8, <2>2 DEF LeftOk
<1> HIDE DEF done, Ok
<1>10. CASE h = ActiveBuffsChanged(done)
  <2>1. done \in GameRec
    BY <1>9 DEF Sound, Fitted
  <2>2. h \in GameRec /\ Alike(done, h) /\ Steady(done, h)
    BY <1>10, <2>1, ArBuffsChanged
  <2>3. Sound(h) /\ LeftOk(h)
    BY <1>9, <2>2, ArCarry
  <2>4. Steady(g, h) /\ Magics(g, h)
    BY <1>9, <2>2 DEF Steady, Magics, Alike, Standing
  <2> QED BY <2>3, <2>4 DEF h
<1>11. CASE h = done
  BY <1>9, <1>11 DEF h
<1>12. CASE h = g
  BY <1>12 DEF Steady, Magics, h
<1> QED BY <1>3, <1>10, <1>11, <1>12

(***************************************************************************)
(* One frame                                                               *)
(***************************************************************************)
\* The factors of all towers are counted again and their damage with them.
LEMMA ArInterfere ==
  ASSUME NEW g \in GameRec, RangeFresh(g)
  PROVE  LET h == RecomputeInterference(g) IN
         /\ h \in GameRec /\ Steady(g, h) /\ SameBuffs(g, h) /\ Reshaped(g, h) /\ Magics(g, h)
         /\ DamageFresh(h) /\ RangeFresh(h) /\ NearFresh(h)
<1> DEFINE f == [i \in Standing(g) |-> WithNear(g, g.towers[i])]
           k == [g EXCEPT !.towers = f]
           h == RecalcDamage(k)
<1>1. RecomputeInterference(g) = h
  BY DEF RecomputeInterference
<1>2. ASSUME NEW i \in Standing(g)
      PROVE  LET t == g.towers[i]
                 u == WithNear(g, t)
             IN /\ u \in TowerRec /\ u.near = AtMost(InterferenceCap, Neighbours(g, t)) /\ Look(t, u)
                /\ u.level = t.level /\ u.magic = t.magic /\ u.range = t.range
  <2>1. g.towers[i] \in TowerRec
    BY ArStanding
  <2>2. AtMost(InterferenceCap, Neighbours(g, g.towers[i])) \in 0 .. InterferenceCap
    BY ArNearType
  <2> DEFINE d == AtMost(InterferenceCap, Neighbours(g, g.towers[i]))
             t == g.towers[i]
  <2>3. WithNear(g, t) = [t EXCEPT !.near = d]
    BY DEF WithNear
  <2> HIDE DEF d, t
  <2>4. [t EXCEPT !.near = d] \in TowerRec
    BY <2>1, <2>2 DEF TowerRec, d, t
  <2>5. LET u == [t EXCEPT !.near = d] IN
          u.near = d /\ Look(t, u) /\ u.level = t.level /\ u.magic = t.magic /\ u.range = t.range
    BY <2>1 DEF TowerRec, Look, t
  <2> QED BY <2>3, <2>4, <2>5 DEF d, t
<1>3. f \in [Standing(g) -> TowerRec]
  BY <1>2
<1>4. \A i \in Standing(g) : f[i] = WithNear(g, g.towers[i])
  OBVIOUS
<1> HIDE DEF f
<1>5. /\ k \in GameRec /\ k.towers = f /\ Standing(k) = Standing(g)
      /\ Steady(g, k) /\ SameBuffs(g, k) /\ k.nextId = g.nextId /\ k.lasers = g.lasers
  BY <1>3, ArRefit
<1> HIDE DEF k
<1>6. /\ h \in GameRec /\ Steady(k, h) /\ SameBuffs(k, h) /\ Reshaped(k, h) /\ DamageFresh(h)
      /\ \A i \in Standing(k) : /\ h.towers[i].level = k.towers[i].level
                                /\ h.towers[i].magic = k.towers[i].magic
                                /\ h.towers[i].near = k.towers[i].near
                                /\ h.towers[i].range = k.towers[i].range
  BY <1>5, ArRecalcDamage
<1> HIDE DEF h
<1>7. Reshaped(g, h) /\ Magics(g, h) /\ Steady(g, h) /\ SameBuffs(g, h)
  BY <1>2, <1>4, <1>5, <1>6 DEF Reshaped, Look, Magics, Steady, SameBuffs
<1>8. ASSUME NEW i \in Standing(g)
      PROVE  /\ h.towers[i].range = RangeOf(h, h.towers[i])
             /\ h.towers[i].near = AtMost(InterferenceCap, Neighbours(h, h.towers[i]))
  <2>1. h.towers[i].near = AtMost(InterferenceCap, Neighbours(g, g.towers[i]))
    BY <1>2, <1>4, <1>5, <1>6
  <2>2. h.towers[i].range = g.towers[i].range /\ h.towers[i].level = g.towers[i].level
    BY <1>2, <1>4, <1>5, <1>6
  <2>3. Neighbours(h, h.towers[i]) = Neighbours(g, g.towers[i])
    BY <1>7, ArSameNear
  <2>4. RangeOf(h, h.towers[i]) = RangeOf(g, g.towers[i])
    BY <1>7, <2>2 DEF RangeOf, SameBuffs
  <2> QED BY <2>1, <2>2, <2>3, <2>4 DEF RangeFresh
<1>9. RangeFresh(h) /\ NearFresh(h)
  BY <1>7, <1>8 DEF RangeFresh, NearFresh, Reshaped
<1> QED BY <1>1, <1>6, <1>7, <1>9

\* A fit game with its pairs as they were is fit.
LEMMA ArSoundAgain ==
  ASSUME NEW g, Sound(g), NEW h \in GameRec, SameBuffs(g, h), Reshaped(g, h),
         DamageFresh(h), RangeFresh(h), NearFresh(h)
  PROVE  Sound(h) /\ (LeftOk(g) => LeftOk(h))
<1>1. IdsOk(h) /\ PairsOk(h) /\ LasersOk(h)
  BY ArReshaped DEF Sound, Fitted
<1>2. BonusOk(h) /\ ShieldOk(h) /\ (LeftOk(g) => LeftOk(h))
  BY DEF Sound, BonusOk, ShieldOk, SameBuffs, LeftOk
<1> QED BY <1>1, <1>2 DEF Sound, Fitted

LEMMA ArDirty ==
  ASSUME NEW g \in GameRec, NEW d \in BOOLEAN
  PROVE  LET h == [g EXCEPT !.layoutDirty = d] IN h \in GameRec /\ Alike(g, h) /\ Steady(g, h)
BY DEF GameRec, Alike, Steady

LEMMA ArInterferenceUpdate ==
  ASSUME NEW g, Sound(g), LeftOk(g)
  PROVE  LET h == InterferenceUpdate(g) IN Sound(h) /\ LeftOk(h) /\ Steady(g, h)
<1> DEFINE h == InterferenceUpdate(g)
           k == [g EXCEPT !.layoutDirty = FALSE]
<1>1. h = g \/ h = RecomputeInterference(k)
  BY DEF InterferenceUpdate
<1>2. g \in GameRec
  BY DEF Sound, Fitted
<1>3. k \in GameRec /\ Alike(g, k) /\ Steady(g, k)
  BY <1>2, ArDirty
<1> HIDE DEF h, k
<1>4. Sound(k) /\ LeftOk(k)
  BY <1>3, ArCarry
<1>5. CASE h = RecomputeInterference(k)
  <2>1. RangeFresh(k)
    BY <1>4 DEF Sound, Fitted
  <2>2. /\ h \in GameRec /\ Steady(k, h) /\ SameBuffs(k, h) /\ Reshaped(k, h)
        /\ DamageFresh(h) /\ RangeFresh(h) /\ NearFresh(h)
    BY <1>3, <1>5, <2>1, ArInterfere
  <2>3. Sound(h) /\ LeftOk(h)
    BY <1>4, <2>2, ArSoundAgain
  <2> QED BY <1>3, <2>2, <2>3 DEF Steady, h
<1>6. CASE h = g
  BY <1>6 DEF Steady, h
<1> QED BY <1>1, <1>5, <1>6

\* The zones light their towers, and only in a wave.
LEMMA ArMagicUpdate ==
  ASSUME NEW g, Sound(g), LeftOk(g)
  PROVE  LET h == MagicUpdate(g) IN Sound(h) /\ LeftOk(h) /\ Steady(g, h) /\ MagicOk(h)
<1> DEFINE f == [i \in Standing(g) |-> WithMagic(g, g.towers[i])]
           k == [g EXCEPT !.towers = f]
           h == RecalcDamage(k)
<1>1. MagicUpdate(g) = h
  BY DEF MagicUpdate
<1>2. g \in GameRec
  BY DEF Sound, Fitted
<1>3. ASSUME NEW i \in Standing(g)
      PROVE  LET t == g.towers[i]
                 u == WithMagic(g, t)
             IN /\ u \in TowerRec /\ Look(t, u) /\ u.level = t.level /\ u.near = t.near /\ u.range = t.range
                /\ u.magic => g.phase = "WAVE"
  <2>1. g.towers[i] \in TowerRec
    BY <1>2, ArStanding
  <2> DEFINE t == g.towers[i]
             d == (g.phase = "WAVE" /\ Lit(g, t))
  <2>2. WithMagic(g, t) = [t EXCEPT !.magic = d]
    BY DEF WithMagic
  <2>3. d \in BOOLEAN /\ (d => g.phase = "WAVE")
    OBVIOUS
  <2> HIDE DEF d, t
  <2>4. [t EXCEPT !.magic = d] \in TowerRec
    BY <2>1, <2>3 DEF TowerRec, t
  <2>5. LET u == [t EXCEPT !.magic = d] IN
          Look(t, u) /\ u.level = t.level /\ u.near = t.near /\ u.range = t.range /\ u.magic = d
    BY <2>1 DEF TowerRec, Look, t
  <2> QED BY <2>2, <2>3, <2>4, <2>5 DEF t
<1>4. f \in [Standing(g) -> TowerRec]
  BY <1>3
<1>5. \A i \in Standing(g) : f[i] = WithMagic(g, g.towers[i])
  OBVIOUS
<1> HIDE DEF f
<1>6. /\ k \in GameRec /\ k.towers = f /\ Standing(k) = Standing(g)
      /\ Steady(g, k) /\ SameBuffs(g, k) /\ k.nextId = g.nextId /\ k.lasers = g.lasers
  BY <1>2, <1>4, ArRefit
<1> HIDE DEF k
<1>7. /\ h \in GameRec /\ Steady(k, h) /\ SameBuffs(k, h) /\ Reshaped(k, h) /\ DamageFresh(h)
      /\ \A i \in Standing(k) : /\ h.towers[i].level = k.towers[i].level
                                /\ h.towers[i].magic = k.towers[i].magic
                                /\ h.towers[i].near = k.towers[i].near
                                /\ h.towers[i].range = k.towers[i].range
  BY <1>6, ArRecalcDamage
<1> HIDE DEF h
<1>8. Reshaped(g, h) /\ Steady(g, h) /\ SameBuffs(g, h)
  BY <1>3, <1>5, <1>6, <1>7 DEF Reshaped, Look, Steady, SameBuffs
<1>9. ASSUME NEW i \in Standing(g)
      PROVE  /\ h.towers[i].range = g.towers[i].range /\ h.towers[i].level = g.towers[i].level
             /\ h.towers[i].near = g.towers[i].near /\ (h.towers[i].magic => g.phase = "WAVE")
  BY <1>3, <1>5, <1>6, <1>7
<1>10. RangeFresh(h)
  BY <1>8, <1>9 DEF Sound, Fitted, RangeFresh, RangeOf, SameBuffs, Reshaped
<1>11. NearFresh(h)
  <2>1. \A i \in Standing(g) : Neighbours(h, h.towers[i]) = Neighbours(g, g.towers[i])
    BY <1>8, ArSameNear
  <2> QED BY <1>8, <1>9, <2>1 DEF Sound, Fitted, NearFresh, Reshaped
<1>12. MagicOk(h)
  BY <1>8, <1>9 DEF MagicOk, Steady, Reshaped
<1>13. Sound(h) /\ LeftOk(h)
  BY <1>7, <1>8, <1>10, <1>11, ArSoundAgain
<1> QED BY <1>1, <1>8, <1>12, <1>13

\* A change of the lasers leaves the rest as it was.
LEMMA ArBeams ==
  ASSUME NEW g, Sound(g), NEW ls \in SUBSET (SUBSET Nat),
         \A l \in ls : \E i \in Standing(g) : g.towers[i].pair # 0 /\ l = {i, g.towers[i].pair}
  PROVE  LET h == [g EXCEPT !.lasers = ls] IN
         Sound(h) /\ Steady(g, h) /\ Magics(g, h) /\ (LeftOk(g) => LeftOk(h)) /\ h.lasers = ls /\ h.towers = g.towers
<1> DEFINE h == [g EXCEPT !.lasers = ls]
<1>1. /\ h \in GameRec /\ h.towers = g.towers /\ h.nextId = g.nextId /\ h.lasers = ls
      /\ SameBuffs(g, h) /\ Steady(g, h)
  BY DEF Sound, Fitted, GameRec, SameBuffs, Steady
<1> HIDE DEF h
<1>2. Standing(h) = Standing(g) /\ Magics(g, h)
  BY <1>1 DEF Standing, Magics
<1>3. IdsOk(h) /\ PairsOk(h) /\ LasersOk(h)
  BY <1>1, <1>2 DEF Sound, Fitted, IdsOk, PairsOk, LasersOk
<1>4. DamageFresh(h) /\ RangeFresh(h)
  BY <1>1, <1>2 DEF Sound, Fitted, DamageFresh, RangeFresh, DamageOf, RangeOf, SameBuffs
<1>5. NearFresh(h)
  <2>1. ASSUME NEW i \in Standing(g) PROVE Neighbours(h, h.towers[i]) = Neighbours(g, g.towers[i])
    BY <1>1, <1>2, ArNeighbours
  <2> QED BY <1>1, <1>2, <2>1 DEF Sound, Fitted, NearFresh
<1>6. BonusOk(h) /\ ShieldOk(h) /\ (LeftOk(g) => LeftOk(h))
  BY <1>1 DEF Sound, BonusOk, ShieldOk, SameBuffs, LeftOk
<1> QED BY <1>1, <1>2, <1>3, <1>4, <1>5, <1>6 DEF Sound, Fitted, h

LEMMA ArMatrixUpdate ==
  ASSUME NEW g, Rested(g)
  PROVE  LET h == MatrixUpdate(g) IN Rested(h) /\ Steady(g, h)
<1> DEFINE new == {{i, g.towers[i].pair} : i \in {j \in Standing(g) : g.towers[j].pair \in Standing(g)}}
           ls == g.lasers \cup new
           h == MatrixUpdate(g)
           k == [g EXCEPT !.lasers = ls]
<1>1. h = g \/ h = k
  BY DEF MatrixUpdate
<1>2. Sound(g) /\ g \in GameRec
  BY DEF Rested, Sound, Fitted
<1>3. Standing(g) \subseteq Nat /\ 0 \notin Standing(g)
  BY <1>2, ArStanding
<1>4. new \subseteq SUBSET Nat /\ g.lasers \subseteq SUBSET Nat
  BY <1>2, <1>3 DEF GameRec
<1>5. ASSUME NEW l \in ls PROVE \E i \in Standing(g) : g.towers[i].pair # 0 /\ l = {i, g.towers[i].pair}
  <2>1. CASE l \in g.lasers
    BY <1>2, <2>1 DEF Sound, Fitted, LasersOk
  <2>2. CASE l \in new
    BY <1>3, <2>2
  <2> QED BY <2>1, <2>2
<1>6. ls \in SUBSET (SUBSET Nat)
  BY <1>4
<1> HIDE DEF ls, new, h
<1>7. Sound(k) /\ Steady(g, k) /\ Magics(g, k) /\ (LeftOk(g) => LeftOk(k))
  BY <1>2, <1>5, <1>6, ArBeams
<1> HIDE DEF k
<1>8. Rested(k)
  BY <1>7 DEF Rested, MagicOk, Steady, Magics
<1> QED BY <1>1, <1>7, <1>8 DEF h, Steady

LEMMA ArSpellUpdate ==
  ASSUME NEW g, Rested(g)
  PROVE  LET h == SpellUpdate(g) IN Rested(h) /\ Steady(g, h)
<1> DEFINE cds == [s \in Spells |-> AtLeast(0, g.cds[s] - 1)]
           h == SpellUpdate(g)
           k == [g EXCEPT !.cds = cds]
<1>1. h = g \/ h = k
  BY DEF SpellUpdate
<1>2. Sound(g) /\ g \in GameRec
  BY DEF Rested, Sound, Fitted
<1>3. cds \in [Spells -> Nat]
  BY <1>2 DEF GameRec, AtLeast
<1> HIDE DEF h, cds
<1>4. k \in GameRec /\ Alike(g, k) /\ Steady(g, k)
  BY <1>2, <1>3 DEF GameRec, Alike, Steady
<1> HIDE DEF k
<1>5. Sound(k) /\ (LeftOk(g) => LeftOk(k))
  BY <1>2, <1>4, ArCarry
<1>6. Rested(k)
  BY <1>4, <1>5 DEF Rested, MagicOk, Steady, Alike, Standing
<1> QED BY <1>1, <1>4, <1>6 DEF h, Steady

LEMMA ArFrame ==
  ASSUME NEW g, Sound(g), LeftOk(g)
  PROVE  LET h == RestOfFrame(g) IN Rested(h) /\ Steady(g, h)
<1> DEFINE a == BuffUpdate(g)
           b == InterferenceUpdate(a)
           c == MagicUpdate(b)
           d == MatrixUpdate(c)
           h == SpellUpdate(d)
<1>1. RestOfFrame(g) = h
  BY DEF RestOfFrame
<1>2. Sound(a) /\ LeftOk(a) /\ Steady(g, a)
  BY ArBuffUpdate
<1> HIDE DEF a
<1>3. Sound(b) /\ LeftOk(b) /\ Steady(a, b)
  BY <1>2, ArInterferenceUpdate
<1> HIDE DEF b
<1>4. Sound(c) /\ LeftOk(c) /\ Steady(b, c) /\ MagicOk(c)
  BY <1>3, ArMagicUpdate
<1> HIDE DEF c
<1>5. Rested(d) /\ Steady(c, d)
  BY <1>4, ArMatrixUpdate DEF Rested
<1> HIDE DEF d
<1>6. Rested(h) /\ Steady(d, h)
  BY <1>5, ArSpellUpdate
<1> HIDE DEF h
<1> QED BY <1>1, <1>2, <1>3, <1>4, <1>5, <1>6 DEF Steady

\* An enemy gets through: the shield takes it, and its entry goes with its last hit.
LEMMA ArLeaked ==
  ASSUME NEW g, Sound(g), LeftOk(g)
  PROVE  LET h == Leaked(g) IN
         /\ Sound(h) /\ LeftOk(h) /\ h.gold = g.gold /\ h.cost = g.cost
         /\ h.phase \in {g.phase, "GAME_OVER"}
<1> DEFINE hits == g.shieldHits - 1
           down == [g EXCEPT !.shieldHits = 0]
           worn == [g EXCEPT !.shieldHits = hits]
           k == IF g.shieldHits = 0 THEN g ELSE IF hits > 0 THEN worn ELSE RetireActiveBuff(down, "SHIELD")
           damage == IF g.shieldHits = 0 THEN LeakDamage ELSE (LeakDamage + 1) \div 2
<1>1. Leaked(g) = ChangeHp(k, -damage)
  BY DEF Leaked
<1>2. g \in GameRec /\ g.shieldHits \in 0 .. 3 /\ g.buffs \in Seq(Buff)
  BY DEF Sound, Fitted, GameRec
<1>3. -damage \in Int
  BY ArsenalAssumption
<1>4. Sound(k) /\ LeftOk(k) /\ Steady(g, k)
  <2>1. CASE g.shieldHits = 0
    <3>1. k = g
      BY <2>1
    <3> HIDE DEF k
    <3> QED BY <3>1 DEF Steady
  <2>2. CASE g.shieldHits # 0 /\ hits > 0
    <3>1. k = worn /\ hits \in 0 .. 3
      BY <1>2, <2>2
    <3>2. hits > 0 /\ g.shieldHits > 0
      BY <1>2, <2>2
    <3> HIDE DEF k, hits
    <3>3. /\ worn \in GameRec /\ worn.towers = g.towers /\ worn.nextId = g.nextId /\ worn.lasers = g.lasers
          /\ worn.bonus = g.bonus /\ worn.buffs = g.buffs /\ worn.shieldHits = hits /\ Steady(g, worn)
      BY <1>2, <3>1, ArHits
    <3> HIDE DEF worn
    <3>4. Fitted(worn)
      BY <1>2, <3>3, ArRelist DEF Sound
    <3>5. BonusOk(worn) /\ ShieldOk(worn) /\ LeftOk(worn)
      BY <3>2, <3>3 DEF Sound, BonusOk, ShieldOk, LeftOk
    <3> QED BY <3>1, <3>3, <3>4, <3>5 DEF Sound
  <2>3. CASE g.shieldHits # 0 /\ ~(hits > 0)
    <3>1. k = RetireActiveBuff(down, "SHIELD")
      BY <2>3
    <3> HIDE DEF k
    <3>2. g.shieldHits > 0
      BY <1>2, <2>3
    <3>3. /\ down \in GameRec /\ down.towers = g.towers /\ down.nextId = g.nextId /\ down.lasers = g.lasers
          /\ down.bonus = g.bonus /\ down.buffs = g.buffs /\ Steady(g, down)
      <4>1. g \in GameRec /\ 0 \in 0 .. 3
        BY <1>2
      <4> QED BY <4>1, ArHits
    <3> HIDE DEF down
    <3>4. Fitted(down) /\ BonusOk(down) /\ \A j, n \in Shields(down.buffs) : j = n
      <4>1. Fitted(down)
        BY <1>2, <3>3, ArRelist DEF Sound
      <4> QED BY <3>3, <4>1 DEF Sound, BonusOk, ShieldOk
    <3> DEFINE at == Shields(down.buffs)
               i == CHOOSE j \in at : \A n \in at : j <= n
               z == Drop(down, i)
    <3>5. at # {} /\ at \subseteq Nat
      <4>1. DOMAIN g.buffs \subseteq Nat
        BY <1>2
      <4> QED BY <3>2, <3>3, <4>1 DEF Sound, ShieldOk, Shields
    <3>6. i \in at
      <4>1. \E j \in at : \A n \in at : j <= n
        <5> HIDE DEF at
        <5> QED BY <3>5, ArLeast
      <4> HIDE DEF at
      <4> QED BY <4>1
    <3>7. i \in DOMAIN down.buffs /\ down.buffs[i].effect = "SHIELD"
      <4> HIDE DEF i
      <4> QED BY <3>6 DEF Shields
    <3>8. k = ActiveBuffsChanged(z)
      BY <3>1, <3>5, <3>7 DEF RetireActiveBuff, Drop, Shields
    <3> HIDE DEF i
    <3>9. Sound(z) /\ Steady(down, z) /\ z.buffs = RemoveAt(down.buffs, i)
      BY <3>4, <3>7, ArDrop
    <3> HIDE DEF z
    <3>10. LeftOk(z)
      <4>1. i \in 1 .. Len(g.buffs) /\ Len(g.buffs) \in Nat
        BY <1>2, <3>3, <3>7
      <4>2. /\ z.buffs \in Seq(Buff) /\ Len(z.buffs) = Len(g.buffs) - 1
            /\ \A j \in 1 .. Len(g.buffs) - 1 : z.buffs[j] = IF j < i THEN g.buffs[j] ELSE g.buffs[j + 1]
        BY <1>2, <3>3, <3>9, <4>1, ArRemoveAt
      <4>3. ASSUME NEW j \in DOMAIN z.buffs PROVE z.buffs[j].left > 0
        <5>1. j \in 1 .. Len(g.buffs) - 1 /\ j \in DOMAIN g.buffs /\ j + 1 \in DOMAIN g.buffs
          BY <1>2, <4>1, <4>2
        <5>2. g.buffs[j].left > 0 /\ g.buffs[j + 1].left > 0
          BY <5>1 DEF LeftOk
        <5> QED BY <4>2, <5>1, <5>2
      <4> QED BY <4>3 DEF LeftOk
    <3>11. z \in GameRec
      BY <3>9 DEF Sound, Fitted
    <3>12. k \in GameRec /\ Alike(z, k) /\ Steady(z, k)
      BY <3>8, <3>11, ArBuffsChanged
    <3>13. Sound(k) /\ LeftOk(k)
      BY <3>9, <3>10, <3>12, ArCarry
    <3> QED BY <3>3, <3>9, <3>12, <3>13 DEF Steady
  <2> QED BY <2>1, <2>2, <2>3
<1> HIDE DEF k, damage
<1> DEFINE h == ChangeHp(k, -damage)
<1>5. k \in GameRec
  BY <1>4 DEF Sound, Fitted
<1>6. /\ h \in GameRec /\ Alike(k, h) /\ h.gold = k.gold /\ h.cost = k.cost
      /\ h.phase \in {k.phase, "GAME_OVER"}
  BY <1>3, <1>5, ArChangeHp
<1> HIDE DEF h
<1>7. Sound(h) /\ LeftOk(h)
  BY <1>4, <1>6, ArCarry
<1> QED BY <1>1, <1>4, <1>6, <1>7 DEF h, Steady

(***************************************************************************)
(* One tower, or two                                                       *)
(***************************************************************************)
\* A tower is replaced by one of the same place whose stats are fresh.
LEMMA ArUpdate ==
  ASSUME NEW g, Rested(g), NEW i \in Standing(g), NEW u \in TowerRec, Look(g.towers[i], u),
         u.damage = DamageOf(g, u), u.range = RangeOf(g, u),
         u.near = g.towers[i].near, u.magic = g.towers[i].magic
  PROVE  LET h == Update(g, u) IN Rested(h) /\ Steady(g, h) /\ h.towers[i] = u
<1> DEFINE f == [g.towers EXCEPT ![i] = u]
           h == [g EXCEPT !.towers = f]
<1>1. g \in GameRec /\ Sound(g)
  BY DEF Rested, Sound, Fitted
<1>2. g.towers \in [Standing(g) -> TowerRec]
  BY <1>1, ArStanding
<1>3. u.id = i
  BY <1>1 DEF Sound, Fitted, IdsOk, Look
<1>4. Update(g, u) = h
  BY <1>1, <1>3 DEF Update, GameRec
<1>5. f \in [Standing(g) -> TowerRec] /\ f[i] = u /\ \A j \in Standing(g) \ {i} : f[j] = g.towers[j]
  BY <1>2
<1> HIDE DEF f
<1>6. /\ h \in GameRec /\ h.towers = f /\ Standing(h) = Standing(g)
      /\ Steady(g, h) /\ SameBuffs(g, h) /\ h.nextId = g.nextId /\ h.lasers = g.lasers
  BY <1>1, <1>5, ArRefit
<1> HIDE DEF h
<1>7. Reshaped(g, h)
  BY <1>5, <1>6 DEF Reshaped, Look
<1>8. DamageFresh(h)
  BY <1>1, <1>5, <1>6 DEF Sound, Fitted, DamageFresh, DamageOf, SameBuffs
<1>9. RangeFresh(h)
  BY <1>1, <1>5, <1>6 DEF Sound, Fitted, RangeFresh, RangeOf, SameBuffs
<1>10. NearFresh(h)
  <2>1. \A j \in Standing(g) : Neighbours(h, h.towers[j]) = Neighbours(g, g.towers[j])
    BY <1>7, ArSameNear
  <2>2. \A j \in Standing(g) : h.towers[j].near = g.towers[j].near
    BY <1>5, <1>6
  <2> QED BY <1>1, <1>6, <2>1, <2>2 DEF Sound, Fitted, NearFresh
<1>11. Sound(h) /\ (LeftOk(g) => LeftOk(h))
  BY <1>1, <1>6, <1>7, <1>8, <1>9, <1>10, ArSoundAgain
<1>12. MagicOk(g) => MagicOk(h)
  BY <1>5, <1>6 DEF MagicOk, Steady
<1> QED BY <1>4, <1>5, <1>6, <1>11, <1>12 DEF Rested

\* Two towers become partners; the one's old partner is let go, and no laser of the two stays.
SameBut(t, u) == /\ u.id = t.id /\ u.type = t.type /\ u.cell = t.cell /\ u.level = t.level /\ u.magic = t.magic
                 /\ u.near = t.near /\ u.damage = t.damage /\ u.range = t.range

LEMMA ArJoin ==
  ASSUME NEW g, Sound(g), NEW a \in Standing(g), NEW b \in Standing(g), a # b, g.towers[b].pair = 0,
         NEW h \in GameRec, Standing(h) = Standing(g), h.nextId = g.nextId, SameBuffs(g, h), Steady(g, h),
         \A i \in Standing(g) : SameBut(g.towers[i], h.towers[i]),
         h.towers[a].pair = b, h.towers[b].pair = a,
         \A i \in Standing(g) \ {a, b} : h.towers[i].pair = IF i = g.towers[a].pair THEN 0 ELSE g.towers[i].pair,
         h.lasers = {l \in g.lasers : a \notin l /\ b \notin l}
  PROVE  Sound(h) /\ Magics(g, h) /\ (LeftOk(g) => LeftOk(h))
<1>1. Magics(g, h)
  BY DEF Magics, SameBut
<1>2. IdsOk(h)
  BY DEF Sound, Fitted, IdsOk, SameBut
<1>3. Standing(g) \subseteq Nat /\ 0 \notin Standing(g)
  BY ArStanding DEF Sound, Fitted
<1>4. \A i \in Standing(g) : g.towers[i].pair # 0 =>
        g.towers[i].pair \in Standing(g) \ {i} /\ g.towers[g.towers[i].pair].pair = i
  BY DEF Sound, Fitted, PairsOk
<1>5. PairsOk(h)
  <2> SUFFICES ASSUME NEW i \in Standing(g), h.towers[i].pair # 0
               PROVE  h.towers[i].pair \in Standing(g) \ {i} /\ h.towers[h.towers[i].pair].pair = i
    BY DEF PairsOk
  <2>1. CASE i = a \/ i = b
    BY <2>1
  <2>2. CASE i # a /\ i # b
    <3> DEFINE p == g.towers[i].pair
    <3>1. i # g.towers[a].pair /\ h.towers[i].pair = p
      BY <2>2
    <3> HIDE DEF p
    <3>2. p \in Standing(g) \ {i} /\ g.towers[p].pair = i
      BY <1>4, <3>1 DEF p
    <3>3. p # a /\ p # b
      BY <1>3, <3>1, <3>2
    <3>4. p # g.towers[a].pair
      BY <1>3, <1>4, <2>2, <3>2
    <3>5. h.towers[p].pair = i
      BY <3>2, <3>3, <3>4
    <3> QED BY <3>1, <3>2, <3>5
  <2> QED BY <2>1, <2>2
<1>6. LasersOk(h)
  <2> SUFFICES ASSUME NEW l \in h.lasers
               PROVE  \E i \in Standing(g) : h.towers[i].pair # 0 /\ l = {i, h.towers[i].pair}
    BY DEF LasersOk
  <2>1. l \in g.lasers /\ a \notin l /\ b \notin l
    OBVIOUS
  <2>2. PICK i \in Standing(g) : g.towers[i].pair # 0 /\ l = {i, g.towers[i].pair}
    BY <2>1 DEF Sound, Fitted, LasersOk
  <2>3. i # a /\ i # b /\ g.towers[i].pair # a
    BY <2>1, <2>2
  <2>4. i # g.towers[a].pair
    BY <1>3, <1>4, <2>2, <2>3
  <2> QED BY <2>2, <2>3, <2>4
<1>7. DamageFresh(h) /\ RangeFresh(h)
  BY DEF Sound, Fitted, DamageFresh, RangeFresh, DamageOf, RangeOf, SameBut, SameBuffs
<1>8. NearFresh(h)
  <2>1. ASSUME NEW i \in Standing(g) PROVE Neighbours(h, h.towers[i]) = Neighbours(g, g.towers[i])
    <3>1. \A j \in Standing(g) : h.towers[j].type = g.towers[j].type /\ h.towers[j].cell = g.towers[j].cell
      BY DEF SameBut
    <3>2. /\ h.towers[i].id = g.towers[i].id /\ h.towers[i].type = g.towers[i].type
          /\ h.towers[i].cell = g.towers[i].cell
      BY DEF SameBut
    <3> QED BY <3>1, <3>2, ArNeighbours
  <2> QED BY <2>1 DEF Sound, Fitted, NearFresh, SameBut
<1>9. BonusOk(h) /\ ShieldOk(h) /\ (LeftOk(g) => LeftOk(h))
  BY DEF Sound, BonusOk, ShieldOk, SameBuffs, LeftOk
<1> QED BY <1>1, <1>2, <1>5, <1>6, <1>7, <1>8, <1>9 DEF Sound, Fitted

LEMMA ArSetPair ==
  ASSUME NEW t \in TowerRec, NEW p \in 0 .. MaxTowers
  PROVE  LET u == [t EXCEPT !.pair = p] IN u \in TowerRec /\ SameBut(t, u) /\ u.pair = p
BY DEF TowerRec, SameBut

\* Pair as it changes a fleet.
LEMMA ArPair ==
  ASSUME NEW g \in GameRec, NEW a \in Standing(g), NEW b \in Standing(g), a # b
  PROVE  LET h == Pair(g, a, b) IN
         /\ h \in GameRec /\ Standing(h) = Standing(g) /\ h.nextId = g.nextId /\ h.lasers = g.lasers
         /\ SameBuffs(g, h) /\ Steady(g, h)
         /\ \A i \in Standing(g) : SameBut(g.towers[i], h.towers[i])
         /\ h.towers[a].pair = b /\ h.towers[b].pair = a
         /\ \A i \in Standing(g) \ {a, b} : h.towers[i] = g.towers[i]
<1> DEFINE u == [g.towers[a] EXCEPT !.pair = b]
           w == [g.towers[b] EXCEPT !.pair = a]
           f == [g.towers EXCEPT ![a] = u, ![b] = w]
           h == [g EXCEPT !.towers = f]
<1>1. g.towers \in [Standing(g) -> TowerRec] /\ Standing(g) \subseteq 1 .. MaxTowers
  BY ArStanding
<1>2. MaxTowers \in Nat
  BY ArsenalAssumption
<1>3. a \in 0 .. MaxTowers /\ b \in 0 .. MaxTowers /\ g.towers[a] \in TowerRec /\ g.towers[b] \in TowerRec
  BY <1>1, <1>2
<1>4. Pair(g, a, b) = h
  BY <1>1 DEF Pair, GameRec
<1>5. u \in TowerRec /\ SameBut(g.towers[a], u) /\ u.pair = b /\ w \in TowerRec /\ SameBut(g.towers[b], w) /\ w.pair = a
  BY <1>3, ArSetPair
<1> HIDE DEF u, w
<1>6. f \in [Standing(g) -> TowerRec] /\ f[a] = u /\ f[b] = w /\ \A i \in Standing(g) \ {a, b} : f[i] = g.towers[i]
  BY <1>1, <1>5
<1> HIDE DEF f
<1>7. /\ h \in GameRec /\ h.towers = f /\ Standing(h) = Standing(g)
      /\ Steady(g, h) /\ SameBuffs(g, h) /\ h.nextId = g.nextId /\ h.lasers = g.lasers
  BY <1>6, ArRefit
<1> HIDE DEF h
<1>8. \A i \in Standing(g) : SameBut(g.towers[i], h.towers[i])
  BY <1>5, <1>6, <1>7 DEF SameBut
<1> QED BY <1>4, <1>5, <1>6, <1>7, <1>8

\* The nearest free tower exists when one is free.
LEMMA ArBest ==
  ASSUME NEW g \in GameRec, NEW t \in TowerRec, NEW free, free \subseteq Standing(g), free # {}
  PROVE  \E i \in free : \A j \in free :
           \/ Distance(t, g.towers[i]) < Distance(t, g.towers[j])
           \/ Distance(t, g.towers[i]) = Distance(t, g.towers[j]) /\ i <= j
<1> DEFINE d(i) == Distance(t, g.towers[i])
           D == {d(i) : i \in free}
<1>1. free \subseteq Nat /\ \A i \in free : g.towers[i] \in TowerRec
  BY ArStanding
<1>2. \A i \in free : d(i) \in Nat
  <2>1. Cells \subseteq Int
    BY ArsenalAssumption
  <2>2. ASSUME NEW i \in free PROVE d(i) \in Nat
    <3>1. t.cell \in Int /\ g.towers[i].cell \in Int
      BY <1>1, <2>1 DEF TowerRec
    <3> QED BY <3>1 DEF Distance
  <2> QED BY <2>2
<1> HIDE DEF d
<1>3. D \subseteq Nat /\ D # {}
  BY <1>2
<1>4. PICK m \in D : \A n \in D : m <= n
  <2> HIDE DEF D
  <2> QED BY <1>3, ArLeast
<1> DEFINE N == {i \in free : d(i) = m}
<1>5. N \subseteq Nat /\ N # {}
  BY <1>1, <1>4
<1>6. PICK i \in N : \A j \in N : i <= j
  <2> HIDE DEF N
  <2> QED BY <1>5, ArLeast
<1>7. ASSUME NEW j \in free PROVE d(i) < d(j) \/ (d(i) = d(j) /\ i <= j)
  <2>1. m <= d(j) /\ d(i) = m /\ d(i) \in Nat /\ d(j) \in Nat
    BY <1>2, <1>4, <1>6
  <2>2. d(j) = m => i <= j
    BY <1>6
  <2> QED BY <2>1, <2>2
<1>8. i \in free
  BY <1>6
<1> QED BY <1>7, <1>8 DEF d

LEMMA ArAutoPair ==
  ASSUME NEW g, Sound(g), NEW t \in TowerRec, t.id \in Standing(g), g.towers[t.id].pair = 0
  PROVE  LET h == AutoPair(g, t) IN Sound(h) /\ Steady(g, h) /\ Magics(g, h) /\ (LeftOk(g) => LeftOk(h))
<1> DEFINE free == {i \in Standing(g) \ {t.id} : g.towers[i].type = "MATRIX" /\ g.towers[i].pair = 0}
           best == CHOOSE i \in free : \A j \in free :
                     \/ Distance(t, g.towers[i]) < Distance(t, g.towers[j])
                     \/ Distance(t, g.towers[i]) = Distance(t, g.towers[j]) /\ i <= j
           h == Pair(g, t.id, best)
<1>1. g \in GameRec
  BY DEF Sound, Fitted
<1>2. AutoPair(g, t) = IF free = {} THEN g ELSE h
  BY DEF AutoPair
<1>3. CASE free = {}
  BY <1>2, <1>3 DEF Steady, Magics
<1>4. CASE free # {}
  <2>1. best \in free
    <3>1. free \subseteq Standing(g)
      OBVIOUS
    <3> HIDE DEF free
    <3>2. \E i \in free : \A j \in free :
            \/ Distance(t, g.towers[i]) < Distance(t, g.towers[j])
            \/ Distance(t, g.towers[i]) = Distance(t, g.towers[j]) /\ i <= j
      BY <1>1, <1>4, <3>1, ArBest
    <3> QED BY <3>2
  <2> HIDE DEF best
  <2> DEFINE a == t.id
  <2>2. a \in Standing(g) /\ best \in Standing(g) /\ a # best /\ g.towers[a].pair = 0 /\ g.towers[best].pair = 0
    BY <2>1
  <2> HIDE DEF a, free
  <2> DEFINE k == Pair(g, a, best)
  <2>3. /\ k \in GameRec /\ Standing(k) = Standing(g) /\ k.nextId = g.nextId /\ k.lasers = g.lasers
        /\ SameBuffs(g, k) /\ Steady(g, k)
        /\ \A i \in Standing(g) : SameBut(g.towers[i], k.towers[i])
        /\ k.towers[a].pair = best /\ k.towers[best].pair = a
        /\ \A i \in Standing(g) \ {a, best} : k.towers[i] = g.towers[i]
    BY <1>1, <2>2, ArPair
  <2> HIDE DEF k
  <2>4. Standing(g) \subseteq Nat /\ 0 \notin Standing(g)
    BY <1>1, ArStanding
  <2>5. \A i \in Standing(g) \ {a, best} : k.towers[i].pair = IF i = g.towers[a].pair THEN 0 ELSE g.towers[i].pair
    BY <2>2, <2>3, <2>4
  <2>6. k.lasers = {l \in g.lasers : a \notin l /\ best \notin l}
    <3>1. ASSUME NEW l \in g.lasers, a \in l \/ best \in l PROVE FALSE
      <4>1. PICK i \in Standing(g) : g.towers[i].pair # 0 /\ l = {i, g.towers[i].pair}
        BY DEF Sound, Fitted, LasersOk
      <4>2. g.towers[i].pair \in Standing(g) /\ g.towers[g.towers[i].pair].pair = i
        BY <4>1 DEF Sound, Fitted, PairsOk
      <4>3. i # 0
        BY <2>4
      <4> QED BY <2>2, <3>1, <4>1, <4>2, <4>3
    <3> QED BY <2>3, <3>1
  <2>7. Sound(k) /\ Magics(g, k) /\ (LeftOk(g) => LeftOk(k))
    BY <2>2, <2>3, <2>5, <2>6, ArJoin
  <2>8. AutoPair(g, t) = k
    BY <1>2, <1>4 DEF k, a, free
  <2> QED BY <2>3, <2>7, <2>8
<1> QED BY <1>3, <1>4

(***************************************************************************)
(* What the player buys and sells                                          *)
(***************************************************************************)
LEMMA ArCharge ==
  ASSUME NEW g \in GameRec, NEW c \in Int, g.gold >= c
  PROVE  LET h == Charge(g, c) IN
         /\ h \in GameRec /\ Alike(g, h) /\ h.phase = g.phase /\ h.hp = g.hp /\ h.free = g.free
         /\ h.gold = g.gold - c /\ h.cost = g.cost + c /\ h.cds = g.cds
<1>1. -c \in Int /\ g.gold \in Nat
  BY DEF GameRec
<1>2. AtLeast(0, g.gold + (-c)) = g.gold - c
  BY <1>1 DEF AtLeast
<1> QED BY <1>1, <1>2, ArMoney DEF Charge

Evened(g, h) == h.gold + h.cost = g.gold + g.cost

LEMMA ArPaid ==
  ASSUME NEW g, Rested(g), NEW c \in Int, g.gold >= c
  PROVE  LET h == Charge(g, c) IN
         /\ Rested(h) /\ Evened(g, h) /\ Alike(g, h) /\ h.phase = g.phase /\ h.cds = g.cds /\ h.free = g.free
         /\ h.gold = g.gold - c /\ h.cost = g.cost + c
<1> DEFINE h == Charge(g, c)
<1>1. g \in GameRec /\ Sound(g)
  BY DEF Rested, Sound, Fitted
<1>2. /\ h \in GameRec /\ Alike(g, h) /\ h.phase = g.phase /\ h.hp = g.hp /\ h.free = g.free
      /\ h.gold = g.gold - c /\ h.cost = g.cost + c /\ h.cds = g.cds
  BY <1>1, ArCharge
<1> HIDE DEF h
<1>3. Sound(h) /\ (LeftOk(g) => LeftOk(h))
  BY <1>1, <1>2, ArCarry
<1>4. Rested(h)
  BY <1>2, <1>3 DEF Rested, MagicOk, Alike, Standing
<1>5. Evened(g, h)
  <2>1. g.gold \in Int /\ g.cost \in Int
    BY <1>1 DEF GameRec
  <2> QED BY <1>2, <2>1 DEF Evened
<1> QED BY <1>2, <1>4, <1>5 DEF h

LEMMA ArNewTower ==
  ASSUME NEW g \in GameRec, NEW type \in Types, NEW cell \in Cells
  PROVE  LET t == NewTower(g, type, cell) IN
         /\ t \in TowerRec /\ t.id = g.nextId /\ t.type = type /\ t.pair = 0 /\ t.magic = FALSE
         /\ t.range = RangeOf(g, t)
<1> DEFINE b == BareTower(g, type, cell)
           d == DamageOf(g, b)
           r == RangeOf(g, b)
           t == [b EXCEPT !.damage = d, !.range = r]
<1>1. g.nextId \in Nat /\ MaxTowers \in Nat /\ g.bonus.damage \in Int /\ g.bonus.range \in Int
  <2>1. MaxTowers \in Nat
    BY ArsenalAssumption
  <2>2. g.bonus.damage \in Int /\ g.bonus.range \in Int
    BY DEF GameRec, Stats
  <2>3. g.nextId \in Nat
    BY <2>1 DEF GameRec
  <2> QED BY <2>1, <2>2, <2>3
<1>2. d \in Nat \X BOOLEAN \X Nat \X Int /\ r \in Nat \X Int /\ r = <<1, g.bonus.range>>
  BY <1>1 DEF BareTower, DamageOf, RangeOf
<1>3. NewTower(g, type, cell) = [b EXCEPT !.damage = d, !.range = r]
  BY DEF NewTower
<1> HIDE DEF d, r
<1>4. /\ b \in [ id : Nat, type : Types, cell : Cells, level : 1 .. 3, spend : Nat, magic : BOOLEAN,
                 near : 0 .. InterferenceCap, damage : {<<>>}, range : {<<>>},
                 pair : 0 .. MaxTowers, mode : {"debuff", "buff"}, curve : SUBSET Cells, exponent : Nat,
                 chained : BOOLEAN ]
      /\ b.id = g.nextId /\ b.type = type /\ b.pair = 0 /\ b.magic = FALSE /\ b.level = 1
  BY <1>1 DEF BareTower, InterferenceCap
<1> HIDE DEF b
<1>5. t \in TowerRec
  BY <1>2, <1>4 DEF TowerRec
<1>6. t.id = g.nextId /\ t.type = type /\ t.pair = 0 /\ t.magic = FALSE /\ t.range = r /\ t.level = 1
  BY <1>4
<1> HIDE DEF t
<1>7. t.range = RangeOf(g, t)
  BY <1>2, <1>6 DEF RangeOf
<1> QED BY <1>3, <1>5, <1>6, <1>7 DEF t

LEMMA ArTowerCost == \A type \in Types : TowerCost[type] \in Nat
BY ArsenalAssumption DEF TowerCost

LEMMA ArPlace ==
  ASSUME NEW g, Rested(g), NEW type \in Types, NEW cell \in Cells, g.nextId <= MaxTowers,
         g.free > 0 \/ g.gold >= TowerCost[type]
  PROVE  LET h == CommitPlacement(g, NewTower(g, type, cell)) IN
         Rested(h) /\ Evened(g, h) /\ h.phase = g.phase
<1> DEFINE t == NewTower(g, type, cell)
           c == IF g.free > 0 THEN 0 ELSE TowerCost[t.type]
           p == Charge(g, c)
           D == Standing(g) \cup {t.id}
           f == [i \in D |-> IF i = t.id THEN t ELSE g.towers[i]]
           n == g.nextId + 1
           m == AtLeast(0, g.free - 1)
           k == [p EXCEPT !.towers = f, !.nextId = n, !.free = m, !.layoutDirty = TRUE]
           u == RecomputeInterference(k)
           h == IF t.type = "MATRIX" THEN AutoPair(u, t) ELSE u
<1>1. g \in GameRec /\ Sound(g) /\ g.nextId \in Nat /\ g.free \in Nat /\ g.gold \in Nat /\ MaxTowers \in Nat
  BY ArsenalAssumption DEF Rested, Sound, Fitted, GameRec
<1>2. t \in TowerRec /\ t.id = g.nextId /\ t.type = type /\ t.pair = 0 /\ t.magic = FALSE /\ t.range = RangeOf(g, t)
  BY <1>1, ArNewTower
<1> HIDE DEF t
<1>3. c \in Int /\ g.gold >= c
  BY <1>1, <1>2, ArTowerCost
<1> HIDE DEF c
<1>4. /\ Rested(p) /\ Evened(g, p) /\ Alike(g, p) /\ p.phase = g.phase /\ p.free = g.free
  BY <1>3, ArPaid
<1>5. CommitPlacement(g, t) = h
  <2>1. Charge(g, IF g.free > 0 THEN 0 ELSE TowerCost[t.type]) = p
    BY DEF c
  <2>2. p.nextId = g.nextId /\ p.free = g.free
    BY <1>4 DEF Alike
  <2>3. p \in GameRec
    BY <1>4 DEF Rested, Sound, Fitted
  <2> HIDE DEF p
  <2>4. [p EXCEPT !.towers = f, !.nextId = @ + 1, !.free = AtLeast(0, @ - 1), !.layoutDirty = TRUE] = k
    BY <2>2, <2>3 DEF GameRec
  <2> QED BY <2>1, <2>4 DEF CommitPlacement
<1> HIDE DEF p
<1>6. p \in GameRec
  BY <1>4 DEF Rested, Sound, Fitted
<1>7. Standing(g) \subseteq 1 .. MaxTowers /\ g.towers \in [Standing(g) -> TowerRec]
  BY <1>1, ArStanding
<1>8. t.id \in 1 .. MaxTowers /\ t.id \notin Standing(g)
  <2>1. g.nextId \in 1 .. MaxTowers
    BY <1>1 DEF GameRec
  <2>2. \A i \in Standing(g) : i < g.nextId
    BY <1>1 DEF Sound, Fitted, IdsOk
  <2> QED BY <1>1, <1>2, <2>1, <2>2
<1>9. D \in SUBSET (1 .. MaxTowers) /\ f \in [D -> TowerRec] /\ f \in Fleet
  <2>1. D \in SUBSET (1 .. MaxTowers)
    BY <1>7, <1>8
  <2>2. f \in [D -> TowerRec]
    BY <1>2, <1>7
  <2> QED BY <2>1, <2>2, ArIsFleet
<1>10. f[t.id] = t /\ \A i \in Standing(g) : f[i] = g.towers[i]
  BY <1>8
<1>11. n \in 1 .. MaxTowers + 1 /\ m \in Nat /\ n = g.nextId + 1
  BY <1>1 DEF AtLeast
<1> HIDE DEF f, n, m
<1>12. /\ k \in GameRec /\ k.towers = f /\ k.nextId = n /\ k.lasers = p.lasers
       /\ SameBuffs(p, k) /\ Steady(p, k)
  BY <1>6, <1>9, <1>11 DEF GameRec, SameBuffs, Steady
<1> HIDE DEF k
<1>13. Standing(k) = D
  BY <1>9, <1>12 DEF Standing
<1>14. SameBuffs(g, k) /\ k.lasers = g.lasers
  BY <1>4, <1>12 DEF SameBuffs, Alike
<1>15. \A i \in D : i = t.id \/ (i \in Standing(g) /\ i # t.id /\ k.towers[i] = g.towers[i])
  BY <1>8, <1>10, <1>12
<1>16. k.towers[t.id] = t /\ t.id \in D
  BY <1>10, <1>12
<1>17. RangeFresh(k)
  <2>1. \A i \in Standing(g) : g.towers[i].range = RangeOf(g, g.towers[i])
    BY <1>1 DEF Sound, Fitted, RangeFresh
  <2> QED BY <1>2, <1>13, <1>14, <1>15, <1>16, <2>1 DEF RangeFresh, RangeOf, SameBuffs
<1>18. IdsOk(k)
  <2>1. \A i \in Standing(g) : g.towers[i].id = i /\ i < g.nextId /\ i \in Nat
    BY <1>1, <1>7 DEF Sound, Fitted, IdsOk
  <2> QED BY <1>1, <1>2, <1>11, <1>12, <1>13, <1>15, <1>16, <2>1 DEF IdsOk
<1>19. PairsOk(k)
  <2>1. \A i \in Standing(g) : g.towers[i].pair # 0 =>
          g.towers[i].pair \in Standing(g) \ {i} /\ g.towers[g.towers[i].pair].pair = i
    BY <1>1 DEF Sound, Fitted, PairsOk
  <2> QED BY <1>2, <1>8, <1>13, <1>15, <1>16, <2>1 DEF PairsOk
<1>20. LasersOk(k)
  <2>1. \A l \in g.lasers : \E i \in Standing(g) : g.towers[i].pair # 0 /\ l = {i, g.towers[i].pair}
    BY <1>1 DEF Sound, Fitted, LasersOk
  <2>2. \A i \in Standing(g) : i \in Standing(k) /\ k.towers[i] = g.towers[i]
    BY <1>8, <1>13, <1>15
  <2> QED BY <1>14, <2>1, <2>2 DEF LasersOk
<1>21. /\ u \in GameRec /\ Steady(k, u) /\ SameBuffs(k, u) /\ Reshaped(k, u) /\ Magics(k, u)
       /\ DamageFresh(u) /\ RangeFresh(u) /\ NearFresh(u)
  BY <1>12, <1>17, ArInterfere
<1> HIDE DEF u
<1>22. IdsOk(u) /\ PairsOk(u) /\ LasersOk(u)
  BY <1>18, <1>19, <1>20, <1>21, ArReshaped
<1>23. SameBuffs(g, u)
  BY <1>14, <1>21 DEF SameBuffs
<1>24. BonusOk(u) /\ ShieldOk(u) /\ LeftOk(u)
  BY <1>1, <1>23 DEF SameBuffs, Rested, Sound, BonusOk, ShieldOk, LeftOk
<1>25. Sound(u)
  BY <1>21, <1>22, <1>24 DEF Sound, Fitted
<1>26. MagicOk(u)
  <2>2. g.phase = "WAVE" \/ \A i \in Standing(k) : ~k.towers[i].magic
    BY <1>2, <1>13, <1>15, <1>16 DEF Rested, MagicOk
  <2>3. u.phase = g.phase
    BY <1>4, <1>12, <1>21 DEF Steady
  <2> QED BY <1>21, <2>2, <2>3 DEF MagicOk, Magics
<1>27. Sound(h) /\ LeftOk(h) /\ Steady(u, h) /\ Magics(u, h)
  <2>1. CASE t.type = "MATRIX"
    <3>1. t.id \in Standing(u) /\ u.towers[t.id].pair = 0
      BY <1>2, <1>13, <1>16, <1>21 DEF Reshaped, Look
    <3>2. h = AutoPair(u, t)
      BY <2>1
    <3> HIDE DEF h
    <3> QED BY <1>2, <1>24, <1>25, <3>1, <3>2, ArAutoPair
  <2>2. CASE t.type # "MATRIX"
    <3>1. h = u
      BY <2>2
    <3> HIDE DEF h
    <3> QED BY <1>24, <1>25, <3>1 DEF Steady, Magics
  <2> QED BY <2>1, <2>2
<1> HIDE DEF h
<1>28. Rested(h)
  BY <1>26, <1>27 DEF Rested, MagicOk, Steady, Magics
<1>29. Evened(g, h) /\ h.phase = g.phase
  BY <1>4, <1>12, <1>21, <1>27 DEF Evened, Steady
<1> QED BY <1>5, <1>28, <1>29 DEF t

LEMMA ArUpgradeCost ==
  ASSUME NEW t \in TowerRec, t.level <= Len(UpgradePercent)
  PROVE  t.level \in {1, 2} /\ UpgradeCost(t) \in Nat
<1>1. t.level \in 1 .. 3 /\ t.type \in Types
  BY DEF TowerRec
<1>2. Len(UpgradePercent) = 2 /\ UpgradePercent[1] = 60 /\ UpgradePercent[2] = 100
  BY DEF UpgradePercent
<1>3. t.level \in {1, 2}
  BY <1>1, <1>2
<1>4. UpgradePercent[t.level] \in Nat /\ TowerCost[t.type] \in Nat
  BY <1>1, <1>2, <1>3, ArTowerCost
<1> DEFINE n == TowerCost[t.type] * UpgradePercent[t.level]
<1>5. n \in Nat
  BY <1>4
<1> HIDE DEF n
<1>6. n \div 100 \in Int
  BY <1>5
<1>7. AtLeast(1, n \div 100) \in Nat
  BY <1>6 DEF AtLeast
<1> QED BY <1>3, <1>7 DEF UpgradeCost, n

LEMMA ArRestedPets ==
  ASSUME NEW g, Rested(g), NEW ts \in SUBSET TowerRec
  PROVE  LET h == RespawnPets(g, ts) IN Rested(h) /\ Steady(g, h)
<1>1. g \in GameRec /\ Sound(g)
  BY DEF Rested, Sound, Fitted
<1> DEFINE h == RespawnPets(g, ts)
<1>2. h \in GameRec /\ Alike(g, h) /\ Steady(g, h)
  BY <1>1, ArPets
<1> HIDE DEF h
<1>3. Sound(h) /\ (LeftOk(g) => LeftOk(h))
  BY <1>1, <1>2, ArCarry
<1>4. Rested(h)
  BY <1>2, <1>3 DEF Rested, MagicOk, Alike, Standing, Steady
<1> QED BY <1>2, <1>4 DEF h

LEMMA ArUpgraded ==
  ASSUME NEW g, Rested(g), NEW i \in Standing(g), g.towers[i].level <= Len(UpgradePercent),
         g.gold >= UpgradeCost(g.towers[i])
  PROVE  LET h == Upgraded(g, g.towers[i]) IN Rested(h) /\ Evened(g, h) /\ h.phase = g.phase
<1> DEFINE t == g.towers[i]
           c == UpgradeCost(t)
           u == [t EXCEPT !.level = @ + 1, !.spend = @ + c]
           d == DamageOf(g, u)
           r == RangeOf(g, u)
           w == [u EXCEPT !.damage = d, !.range = r]
           p == Charge(g, c)
           k == Update(p, w)
           h == IF HasFunction(t) THEN RespawnPets(k, {k.towers[t.id]}) ELSE k
<1>1. g \in GameRec /\ Sound(g)
  BY DEF Rested, Sound, Fitted
<1>2. t \in TowerRec /\ t.id = i
  BY <1>1, ArStanding DEF Sound, Fitted, IdsOk
<1>3. Upgraded(g, t) = h
  BY DEF Upgraded
<1>4. t.level \in {1, 2} /\ c \in Nat
  BY <1>2, ArUpgradeCost
<1> HIDE DEF t, c
<1>5. /\ u \in TowerRec /\ Look(t, u) /\ u.near = t.near /\ u.magic = t.magic /\ u.level = t.level + 1
  <2> DEFINE n == t.level + 1
             m == t.spend + c
  <2>1. n \in 1 .. 3 /\ m \in Nat /\ n = t.level + 1
    BY <1>2, <1>4 DEF TowerRec
  <2>2. u = [t EXCEPT !.level = n, !.spend = m]
    OBVIOUS
  <2> HIDE DEF n, m, u
  <2> QED BY <1>2, <2>1, <2>2 DEF TowerRec, Look
<1> HIDE DEF u
<1>6. d \in Nat \X BOOLEAN \X Nat \X Int /\ r \in Nat \X Int
  BY <1>1, <1>5, ArDamageType
<1> HIDE DEF d, r
<1>7. /\ w \in TowerRec /\ Look(t, w) /\ w.near = t.near /\ w.magic = t.magic
      /\ w.level = u.level /\ w.near = u.near /\ w.magic = u.magic /\ w.damage = d /\ w.range = r
  BY <1>5, <1>6 DEF TowerRec, Look
<1> HIDE DEF w
<1>8. Rested(p) /\ Evened(g, p) /\ Alike(g, p) /\ p.phase = g.phase
  <2>1. g.gold >= c
    BY DEF c, t
  <2> QED BY <1>4, <2>1, ArPaid
<1> HIDE DEF p
<1>9. w.damage = DamageOf(p, w) /\ w.range = RangeOf(p, w)
  BY <1>7, <1>8 DEF d, r, DamageOf, RangeOf, Alike
<1>10. i \in Standing(p) /\ p.towers[i] = t
  BY <1>8 DEF Alike, Standing, t
<1>11. Rested(k) /\ Steady(p, k) /\ k.towers[i] = w
  BY <1>7, <1>8, <1>9, <1>10, ArUpdate
<1> HIDE DEF k
<1>12. Rested(h) /\ Steady(k, h)
  <2>1. CASE HasFunction(t)
    <3>1. h = RespawnPets(k, {w})
      BY <1>2, <1>11, <2>1
    <3>2. {w} \in SUBSET TowerRec
      BY <1>7
    <3> HIDE DEF h
    <3> QED BY <1>11, <3>1, <3>2, ArRestedPets
  <2>2. CASE ~HasFunction(t)
    <3>1. h = k
      BY <2>2
    <3> HIDE DEF h
    <3> QED BY <1>11, <3>1 DEF Steady
  <2> QED BY <2>1, <2>2
<1> HIDE DEF h
<1>13. Evened(g, h) /\ h.phase = g.phase
  BY <1>8, <1>11, <1>12 DEF Evened, Steady
<1> QED BY <1>3, <1>12, <1>13 DEF t

\* One tower is left without a partner.
LEMMA ArUnpair ==
  ASSUME NEW g \in GameRec, NEW p \in Standing(g)
  PROVE  LET h == [g EXCEPT !.towers[p].pair = 0] IN
         /\ h \in GameRec /\ Standing(h) = Standing(g) /\ h.nextId = g.nextId /\ h.lasers = g.lasers
         /\ SameBuffs(g, h) /\ Steady(g, h)
         /\ \A i \in Standing(g) : SameBut(g.towers[i], h.towers[i])
         /\ h.towers[p].pair = 0 /\ \A i \in Standing(g) \ {p} : h.towers[i] = g.towers[i]
<1> DEFINE u == [g.towers[p] EXCEPT !.pair = 0]
           f == [g.towers EXCEPT ![p] = u]
           h == [g EXCEPT !.towers = f]
<1>1. g.towers \in [Standing(g) -> TowerRec] /\ g.towers[p] \in TowerRec
  BY ArStanding
<1>2. 0 \in 0 .. MaxTowers
  BY ArsenalAssumption
<1>3. [g EXCEPT !.towers[p].pair = 0] = h
  BY <1>1 DEF GameRec
<1>4. u \in TowerRec /\ SameBut(g.towers[p], u) /\ u.pair = 0
  BY <1>1, <1>2, ArSetPair
<1> HIDE DEF u
<1>5. f \in [Standing(g) -> TowerRec] /\ f[p] = u /\ \A i \in Standing(g) \ {p} : f[i] = g.towers[i]
  BY <1>1, <1>4
<1> HIDE DEF f
<1>6. /\ h \in GameRec /\ h.towers = f /\ Standing(h) = Standing(g)
      /\ Steady(g, h) /\ SameBuffs(g, h) /\ h.nextId = g.nextId /\ h.lasers = g.lasers
  BY <1>5, ArRefit
<1> HIDE DEF h
<1>7. \A i \in Standing(g) : SameBut(g.towers[i], h.towers[i])
  BY <1>4, <1>5, <1>6 DEF SameBut
<1> QED BY <1>3, <1>4, <1>5, <1>6, <1>7

\* What PairWith does to a game.
LEMMA ArPairWith ==
  ASSUME NEW g, Rested(g), NEW a \in Standing(g), NEW b \in Standing(g), a # b, g.towers[b].pair = 0
  PROVE  LET freed == IF g.towers[a].pair = 0 THEN g ELSE [g EXCEPT !.towers[g.towers[a].pair].pair = 0]
             stale == {l \in g.lasers : a \in l \/ b \in l}
             h == Pair([freed EXCEPT !.lasers = @ \ stale], a, b)
         IN Rested(h) /\ Steady(g, h)
<1> DEFINE p == g.towers[a].pair
           freed == IF p = 0 THEN g ELSE [g EXCEPT !.towers[p].pair = 0]
           stale == {l \in g.lasers : a \in l \/ b \in l}
           ls == freed.lasers \ stale
           z == [freed EXCEPT !.lasers = ls]
           h == Pair(z, a, b)
<1>1. g \in GameRec /\ Sound(g)
  BY DEF Rested, Sound, Fitted
<1>2. Standing(g) \subseteq Nat /\ 0 \notin Standing(g)
  BY <1>1, ArStanding
<1>3. p = 0 \/ p \in Standing(g)
  BY <1>1 DEF Sound, Fitted, PairsOk
<1> HIDE DEF p
<1>4. /\ freed \in GameRec /\ Standing(freed) = Standing(g) /\ freed.nextId = g.nextId /\ freed.lasers = g.lasers
      /\ SameBuffs(g, freed) /\ Steady(g, freed)
      /\ \A i \in Standing(g) : SameBut(g.towers[i], freed.towers[i])
      /\ \A i \in Standing(g) : freed.towers[i].pair = IF i = p THEN 0 ELSE g.towers[i].pair
  <2>1. CASE p = 0
    <3>1. freed = g
      BY <2>1
    <3> HIDE DEF freed
    <3> QED BY <1>1, <1>2, <2>1, <3>1 DEF SameBuffs, Steady, SameBut
  <2>2. CASE p # 0
    <3>1. freed = [g EXCEPT !.towers[p].pair = 0] /\ p \in Standing(g)
      BY <1>3, <2>2
    <3> HIDE DEF freed
    <3>2. /\ freed \in GameRec /\ Standing(freed) = Standing(g) /\ freed.nextId = g.nextId
          /\ freed.lasers = g.lasers /\ SameBuffs(g, freed) /\ Steady(g, freed)
          /\ \A i \in Standing(g) : SameBut(g.towers[i], freed.towers[i])
          /\ freed.towers[p].pair = 0 /\ \A i \in Standing(g) \ {p} : freed.towers[i] = g.towers[i]
      BY <1>1, <3>1, ArUnpair
    <3> QED BY <3>2
  <2> QED BY <2>1, <2>2
<1> HIDE DEF freed
<1>5. ls = {l \in g.lasers : a \notin l /\ b \notin l}
  BY <1>4
<1>6. ls \in SUBSET (SUBSET Nat)
  BY <1>1, <1>5 DEF GameRec
<1> HIDE DEF ls
<1>7. /\ z \in GameRec /\ z.towers = freed.towers /\ z.nextId = freed.nextId /\ z.lasers = ls
      /\ SameBuffs(freed, z) /\ Steady(freed, z)
  BY <1>4, <1>6 DEF GameRec, SameBuffs, Steady
<1> HIDE DEF z
<1>8. Standing(z) = Standing(g)
  BY <1>4, <1>7 DEF Standing
<1>9. /\ h \in GameRec /\ Standing(h) = Standing(z) /\ h.nextId = z.nextId /\ h.lasers = z.lasers
      /\ SameBuffs(z, h) /\ Steady(z, h)
      /\ \A i \in Standing(z) : SameBut(z.towers[i], h.towers[i])
      /\ h.towers[a].pair = b /\ h.towers[b].pair = a
      /\ \A i \in Standing(z) \ {a, b} : h.towers[i] = z.towers[i]
  <2>1. z \in GameRec /\ a \in Standing(z) /\ b \in Standing(z) /\ a # b
    BY <1>7, <1>8
  <2> QED BY <2>1, ArPair
<1> HIDE DEF h
<1>10. SameBuffs(g, h) /\ Steady(g, h) /\ h.nextId = g.nextId
  BY <1>4, <1>7, <1>9 DEF SameBuffs, Steady
<1>11. \A i \in Standing(g) : SameBut(g.towers[i], h.towers[i])
  BY <1>4, <1>7, <1>8, <1>9 DEF SameBut
<1>12. \A i \in Standing(g) \ {a, b} : h.towers[i].pair = IF i = g.towers[a].pair THEN 0 ELSE g.towers[i].pair
  BY <1>4, <1>7, <1>8, <1>9 DEF p
<1>13. h.lasers = {l \in g.lasers : a \notin l /\ b \notin l}
  BY <1>5, <1>7, <1>9
<1>14. Sound(h) /\ Magics(g, h) /\ (LeftOk(g) => LeftOk(h))
  BY <1>1, <1>8, <1>9, <1>10, <1>11, <1>12, <1>13, ArJoin
<1>15. Rested(h)
  BY <1>10, <1>14 DEF Rested, MagicOk, Magics, Steady
<1>16. h = Pair([freed EXCEPT !.lasers = @ \ stale], a, b)
  BY DEF h, z, ls
<1> QED BY <1>10, <1>15, <1>16 DEF freed, p

LEMMA ArGoldFactor == ASSUME NEW g, Sound(g) PROVE GoldFactor(g) \in Nat
<1>1. g.buffs \in Seq(Buff) /\ "gold" \in Stats \ {"foeSpeed", "vuln"}
  BY DEF Sound, Fitted, GameRec, Stats
<1>2. SumOf(g.buffs, "gold") \in Nat
  BY <1>1, ArSumNat
<1>3. g.bonus["gold"] = SumOf(g.buffs, "gold")
  BY <1>1 DEF Sound, BonusOk
<1> QED BY <1>2, <1>3 DEF GoldFactor

LEMMA ArProduct == \A m, n \in Nat : m * n \in Nat
OBVIOUS

LEMMA ArRefundGold ==
  ASSUME NEW g, Sound(g), NEW t \in TowerRec
  PROVE  RefundBase(t) \in Nat /\ RefundGold(g, t) \in Nat
<1>1. t.spend \in Nat /\ TowerCost[t.type] \in Nat
  BY ArTowerCost DEF TowerRec
<1>2. t.spend \div 2 \in Nat /\ TowerCost[t.type] \div 2 \in Nat
  BY <1>1
<1>3. RefundBase(t) \in Nat
  BY <1>2 DEF RefundBase
<1>4. RefundBase(t) * GoldFactor(g) \in Nat
  BY <1>3, ArGoldFactor, ArProduct
<1> QED BY <1>1, <1>3, <1>4 DEF RefundGold, AtMost

LEMMA ArRefunded ==
  ASSUME NEW g, Rested(g), NEW id \in Standing(g), g.phase # "WAVE"
  PROVE  LET t == g.towers[id]
             h == Refunded(g, t)
         IN /\ Rested(h) /\ h.phase = g.phase
            /\ h.gold = g.gold + RefundGold(g, t) /\ h.cost = g.cost - RefundBase(t)
<1> DEFINE t == g.towers[id]
           D == Standing(g) \ {id}
           f == [i \in D |-> g.towers[i]]
           sold == [g EXCEPT !.towers = f]
           r == RefundGold(g, t)
           b == RefundBase(t)
           paid == AddCost(ChangeGold(sold, r), -b)
           k == [paid EXCEPT !.layoutDirty = TRUE]
           u == RecomputeInterference(k)
           at == {i \in Standing(u) : u.towers[i].pair = id}
           n == CHOOSE i \in at : \A j \in at : i <= j
           ls == {l \in u.lasers : id \notin l}
           v == [u EXCEPT !.lasers = ls]
           h == IF at = {} THEN v ELSE [v EXCEPT !.towers[n].pair = 0]
<1>1. g \in GameRec /\ Sound(g) /\ g.gold \in Nat /\ g.cost \in Int
  BY DEF Rested, Sound, Fitted, GameRec
<1>2. t \in TowerRec /\ t.id = id
  BY <1>1, ArStanding DEF Sound, Fitted, IdsOk
<1>3. r \in Nat /\ b \in Nat
  BY <1>1, <1>2, ArRefundGold
<1>4. Refunded(g, t) = h
  BY <1>2 DEF Refunded, FreePartner
<1> HIDE DEF t, r, b
<1>5. Standing(g) \subseteq 1 .. MaxTowers /\ Standing(g) \subseteq Nat /\ 0 \notin Standing(g)
      /\ \A i \in Standing(g) : g.towers[i] \in TowerRec
  BY <1>1, ArStanding
<1>6. f \in Fleet /\ DOMAIN f = D /\ \A i \in D : f[i] = g.towers[i]
  <2>1. D \in SUBSET (1 .. MaxTowers) /\ f \in [D -> TowerRec]
    BY <1>5
  <2> QED BY <2>1, ArIsFleet
<1> HIDE DEF f
<1>7. /\ sold \in GameRec /\ sold.towers = f /\ sold.nextId = g.nextId /\ sold.lasers = g.lasers
      /\ SameBuffs(g, sold) /\ Steady(g, sold)
  BY <1>1, <1>6 DEF GameRec, SameBuffs, Steady
<1> HIDE DEF sold
<1>8. /\ paid \in GameRec /\ Alike(sold, paid) /\ paid.phase = g.phase
      /\ paid.gold = g.gold + r /\ paid.cost = g.cost - b
  <2>1. -b \in Int /\ r \in Int
    BY <1>3
  <2>2. /\ paid \in GameRec /\ Alike(sold, paid) /\ paid.phase = sold.phase
        /\ paid.gold = AtLeast(0, sold.gold + r) /\ paid.cost = sold.cost + (-b)
    BY <1>7, <2>1, ArMoney
  <2>3. AtLeast(0, g.gold + r) = g.gold + r /\ g.cost + (-b) = g.cost - b
    BY <1>1, <1>3 DEF AtLeast
  <2> HIDE DEF paid
  <2> QED BY <1>7, <2>2, <2>3 DEF Steady
<1> HIDE DEF paid
<1>9. k \in GameRec /\ Alike(paid, k) /\ Steady(paid, k)
  BY <1>8, ArDirty
<1> HIDE DEF k
<1>10. /\ k.towers = f /\ Standing(k) = D /\ k.nextId = g.nextId /\ k.lasers = g.lasers
       /\ SameBuffs(g, k) /\ k.gold = g.gold + r /\ k.cost = g.cost - b /\ k.phase = g.phase
  BY <1>6, <1>7, <1>8, <1>9 DEF Alike, Steady, SameBuffs, Standing
<1>11. RangeFresh(k)
  <2>1. ASSUME NEW i \in D PROVE k.towers[i].range = RangeOf(k, k.towers[i])
    <3>1. g.towers[i].range = RangeOf(g, g.towers[i])
      BY <1>1 DEF Sound, Fitted, RangeFresh
    <3> QED BY <1>6, <1>10, <3>1 DEF RangeOf, SameBuffs
  <2> QED BY <1>10, <2>1 DEF RangeFresh
<1>12. /\ u \in GameRec /\ Steady(k, u) /\ SameBuffs(k, u) /\ Reshaped(k, u) /\ Magics(k, u)
       /\ DamageFresh(u) /\ RangeFresh(u) /\ NearFresh(u)
  BY <1>9, <1>11, ArInterfere
<1> HIDE DEF u
<1>13. /\ Standing(u) = D /\ u.lasers = g.lasers /\ u.nextId = g.nextId
       /\ \A i \in D : u.towers[i].pair = g.towers[i].pair /\ u.towers[i].id = g.towers[i].id
                       /\ u.towers[i].magic = g.towers[i].magic
  BY <1>6, <1>10, <1>12 DEF Reshaped, Look, Magics
<1>14. \A i \in Standing(g) : g.towers[i].pair # 0 =>
         g.towers[i].pair \in Standing(g) \ {i} /\ g.towers[g.towers[i].pair].pair = i
  BY <1>1 DEF Sound, Fitted, PairsOk
<1>15. \A i \in D : g.towers[i].pair = id <=> i \in at
  BY <1>13
<1>16. \A i \in at : i \in D /\ i = g.towers[id].pair
  <2>1. \A i \in at : i \in D /\ g.towers[i].pair = id
    BY <1>13
  <2> HIDE DEF at
  <2> QED BY <1>5, <1>14, <2>1
<1>17. at # {} => n \in at
  <2>1. at \subseteq Nat
    BY <1>5, <1>16
  <2>2. at # {} => \E i \in at : \A j \in at : i <= j
    <3> HIDE DEF at
    <3> QED BY <2>1, ArLeast
  <2> HIDE DEF at
  <2> QED BY <2>2
<1> HIDE DEF n
<1>18. ls \in SUBSET (SUBSET Nat) /\ ls = {l \in g.lasers : id \notin l}
  BY <1>1, <1>13 DEF GameRec
<1> HIDE DEF ls
<1>19. /\ v \in GameRec /\ v.towers = u.towers /\ v.nextId = u.nextId /\ v.lasers = ls
       /\ SameBuffs(u, v) /\ Steady(u, v)
  BY <1>12, <1>18 DEF GameRec, SameBuffs, Steady
<1> HIDE DEF v
<1>20. Standing(v) = D
  BY <1>13, <1>19 DEF Standing
<1>21. /\ h \in GameRec /\ Standing(h) = D /\ h.nextId = g.nextId /\ h.lasers = ls
       /\ SameBuffs(u, h) /\ Steady(u, h)
       /\ \A i \in D : SameBut(u.towers[i], h.towers[i])
       /\ \A i \in D : h.towers[i].pair = IF g.towers[i].pair = id THEN 0 ELSE g.towers[i].pair
  <2>1. CASE at = {}
    <3>1. h = v
      BY <2>1
    <3>2. \A i \in D : g.towers[i].pair # id
      BY <1>15, <2>1
    <3> HIDE DEF h, at
    <3> QED BY <1>13, <1>19, <1>20, <3>1, <3>2 DEF SameBut
  <2>2. CASE at # {}
    <3>1. h = [v EXCEPT !.towers[n].pair = 0]
      BY <2>2
    <3>2. n \in at
      BY <1>17, <2>2
    <3> HIDE DEF h, at
    <3>3. n \in D /\ g.towers[n].pair = id /\ \A i \in D : g.towers[i].pair = id => i = n
      BY <1>15, <1>16, <3>2
    <3>4. n \in Standing(v)
      BY <1>20, <3>3
    <3>5. /\ h \in GameRec /\ Standing(h) = Standing(v) /\ h.nextId = v.nextId /\ h.lasers = v.lasers
          /\ SameBuffs(v, h) /\ Steady(v, h)
          /\ \A i \in Standing(v) : SameBut(v.towers[i], h.towers[i])
          /\ h.towers[n].pair = 0 /\ \A i \in Standing(v) \ {n} : h.towers[i] = v.towers[i]
      BY <1>19, <3>1, <3>4, ArUnpair
    <3>6. SameBuffs(u, h) /\ Steady(u, h)
      BY <1>19, <3>5 DEF SameBuffs, Steady
    <3>7. \A i \in D : h.towers[i].pair = IF g.towers[i].pair = id THEN 0 ELSE g.towers[i].pair
      BY <1>13, <1>19, <1>20, <3>3, <3>5
    <3> QED BY <1>13, <1>19, <1>20, <3>5, <3>6, <3>7
  <2> QED BY <2>1, <2>2
<1> HIDE DEF h, at
<1>22. IdsOk(h)
  <2>1. \A i \in D : g.towers[i].id = i /\ i < g.nextId
    BY <1>1 DEF Sound, Fitted, IdsOk
  <2> QED BY <1>13, <1>21, <2>1 DEF IdsOk, SameBut
<1>23. PairsOk(h)
  <2> SUFFICES ASSUME NEW i \in D, h.towers[i].pair # 0
               PROVE  h.towers[i].pair \in D \ {i} /\ h.towers[h.towers[i].pair].pair = i
    BY <1>21 DEF PairsOk
  <2> DEFINE p == g.towers[i].pair
  <2>1. h.towers[i].pair = p /\ p # id /\ p # 0
    BY <1>21
  <2>2. p \in Standing(g) \ {i} /\ g.towers[p].pair = i
    BY <1>14, <2>1
  <2> HIDE DEF p
  <2>3. p \in D /\ i # id
    BY <2>1, <2>2
  <2> QED BY <1>21, <2>1, <2>2, <2>3
<1>24. LasersOk(h)
  <2> SUFFICES ASSUME NEW l \in h.lasers
               PROVE  \E i \in D : h.towers[i].pair # 0 /\ l = {i, h.towers[i].pair}
    BY <1>21 DEF LasersOk
  <2>1. l \in g.lasers /\ id \notin l
    BY <1>18, <1>21
  <2>2. PICK i \in Standing(g) : g.towers[i].pair # 0 /\ l = {i, g.towers[i].pair}
    BY <1>1, <2>1 DEF Sound, Fitted, LasersOk
  <2>3. i \in D /\ g.towers[i].pair # id
    BY <2>1, <2>2
  <2> QED BY <1>21, <2>2, <2>3
<1>25. DamageFresh(h) /\ RangeFresh(h)
  BY <1>12, <1>13, <1>21 DEF DamageFresh, RangeFresh, DamageOf, RangeOf, SameBut, SameBuffs
<1>26. NearFresh(h)
  <2>1. ASSUME NEW i \in D PROVE Neighbours(h, h.towers[i]) = Neighbours(u, u.towers[i])
    <3>1. \A j \in Standing(u) : h.towers[j].type = u.towers[j].type /\ h.towers[j].cell = u.towers[j].cell
      BY <1>13, <1>21 DEF SameBut
    <3>2. /\ h.towers[i].id = u.towers[i].id /\ h.towers[i].type = u.towers[i].type
          /\ h.towers[i].cell = u.towers[i].cell
      BY <1>21 DEF SameBut
    <3>3. Standing(h) = Standing(u) /\ Standing(u) = D
      BY <1>13, <1>21
    <3> DEFINE new == h.towers[i]
               old == u.towers[i]
    <3>4. new.id = old.id /\ new.type = old.type /\ new.cell = old.cell
      BY <3>2
    <3>5. Standing(h) = Standing(u)
      BY <3>3
    <3> HIDE DEF new, old
    <3>6. Neighbours(h, new) = Neighbours(u, old)
      BY <3>1, <3>4, <3>5, ArNeighbours
    <3> QED BY <3>6 DEF new, old
  <2> QED BY <1>12, <1>13, <1>21, <2>1 DEF NearFresh, SameBut
<1>27. SameBuffs(g, h)
  BY <1>10, <1>12, <1>21 DEF SameBuffs
<1>28. BonusOk(h) /\ ShieldOk(h) /\ LeftOk(h)
  BY <1>1, <1>27 DEF SameBuffs, Rested, Sound, BonusOk, ShieldOk, LeftOk
<1>29. h.phase = g.phase /\ h.gold = g.gold + r /\ h.cost = g.cost - b
  BY <1>10, <1>12, <1>21 DEF Steady
<1>30. MagicOk(h)
  <2>1. \A i \in Standing(g) : ~g.towers[i].magic
    BY DEF Rested, MagicOk
  <2> QED BY <1>13, <1>21, <2>1 DEF MagicOk, SameBut
<1>31. Rested(h)
  BY <1>21, <1>22, <1>23, <1>24, <1>25, <1>26, <1>28, <1>30 DEF Rested, Sound, Fitted
<1> QED BY <1>4, <1>29, <1>31 DEF t, r, b

(***************************************************************************)
(* The actions                                                             *)
(***************************************************************************)
LEMMA ArFresh ==
  /\ Rested(FreshGame) /\ Standing(FreshGame) = {} /\ FreshGame.gold = 0 /\ FreshGame.cost = 0
  /\ FreshGame.phase = "MENU"
<1> DEFINE g == FreshGame
<1>1. /\ g.phase = "MENU" /\ g.gold = 0 /\ g.cost = 0 /\ g.towers = <<>> /\ g.nextId = 1 /\ g.lasers = {}
      /\ g.buffs = <<>> /\ g.bonus = NoBonus /\ g.shieldHits = 0
  BY DEF FreshGame
<1>2. <<>> \in Fleet /\ DOMAIN <<>> = {}
  <2>1. <<>> \in [{} -> TowerRec] /\ {} \in SUBSET (1 .. MaxTowers)
    OBVIOUS
  <2> QED BY <2>1, ArIsFleet
<1>3. <<>> \in Seq(Buff) /\ NoBonus \in [Stats -> Int] /\ "MENU" \in Phases
  BY DEF NoBonus, Phases, AllowedTransitions
<1>4. FullHp \in 0 .. FullHp /\ 1 \in 1 .. MaxTowers + 1
  BY ArsenalAssumption
<1>5. g \in GameRec
  BY <1>2, <1>3, <1>4 DEF GameRec, FreshGame
<1>6. Standing(g) = {} /\ Shields(g.buffs) = {}
  BY <1>1, <1>2 DEF Standing, Shields
<1> HIDE DEF g
<1>7. Fitted(g)
  BY <1>1, <1>5, <1>6 DEF Fitted, IdsOk, DamageFresh, RangeFresh, NearFresh, PairsOk, LasersOk
<1>8. BonusOk(g) /\ ShieldOk(g)
  BY <1>1, <1>6, ArSumEmpty DEF BonusOk, ShieldOk, NoBonus
<1>9. LeftOk(g) /\ MagicOk(g)
  BY <1>1, <1>2, <1>6 DEF LeftOk, MagicOk
<1> QED BY <1>1, <1>6, <1>7, <1>8, <1>9 DEF Rested, Sound, g

\* What is spent is counted as cost: the balance stays.
LEMMA ArKeep ==
  ASSUME ArsenalInv, Rested(game'), Evened(game, game'), game.phase # "MENU", earned' = earned,
         {ops', waves', kills'} \subseteq Nat
  PROVE  ArsenalInv'
BY DEF ArsenalInv, LedgerBalanced, Evened

\* What comes in is earned.
LEMMA ArEarn ==
  ASSUME ArsenalInv, Rested(game'), game.phase # "MENU", NEW n \in Int, earned' = earned + n,
         game'.gold + game'.cost = game.gold + game.cost + n,
         {ops', waves', kills'} \subseteq Nat
  PROVE  ArsenalInv'
<1>1. game \in GameRec
  BY DEF ArsenalInv, Rested, Sound, Fitted
<1>2. game.gold + game.cost \in Int
  BY <1>1 DEF GameRec
<1> QED BY <1>2, ArsenalAssumption DEF ArsenalInv, LedgerBalanced, SkipCost

LEMMA ArCount == ASSUME ArsenalInv, ops' = ops \/ Spend, waves' = waves, kills' = kills
                 PROVE  {ops', waves', kills'} \subseteq Nat
BY DEF ArsenalInv, Spend

LEMMA ArPhases ==
  /\ {"BUILD", "WAVE", "MONTY_HALL", "LEVEL_END", "GAME_OVER", "MENU"} \subseteq Phases
  /\ CanTransition("MENU", "BUILD") /\ CanTransition("BUILD", "WAVE") /\ CanTransition("MONTY_HALL", "BUILD")
BY DEF Phases, AllowedTransitions, CanTransition

\* Away from a wave every change of phase keeps a game at rest, and so does the start of one.
LEMMA ArRestedPhase ==
  ASSUME NEW g, Rested(g), NEW to \in Phases,
         (CanTransition(g.phase, to) /\ to = "WAVE") \/ \A i \in Standing(g) : ~g.towers[i].magic
  PROVE  LET h == SetPhase(g, to) IN Rested(h) /\ Evened(g, h)
<1> DEFINE h == SetPhase(g, to)
<1>1. g \in GameRec /\ Sound(g)
  BY DEF Rested, Sound, Fitted
<1>2. /\ h \in GameRec /\ Alike(g, h) /\ h.gold = g.gold /\ h.cost = g.cost
      /\ h.phase = (IF CanTransition(g.phase, to) THEN to ELSE g.phase)
  BY <1>1, ArSetPhase
<1> HIDE DEF h
<1>3. Sound(h) /\ (LeftOk(g) => LeftOk(h))
  BY <1>1, <1>2, ArCarry
<1> QED BY <1>2, <1>3 DEF Rested, MagicOk, Evened, Alike, Standing, h

LEMMA ArStartLevel == ASSUME ArsenalInv, StartLevel PROVE ArsenalInv'
<1> DEFINE asked == IF PaidEntry THEN Charge(FreshGame, SkipCost) ELSE FreshGame
           k == [asked EXCEPT !.gold = StartGold]
           h == SetPhase(k, "BUILD")
<1>1. game' = h /\ earned' = StartGold /\ UNCHANGED <<ops, waves, kills>>
  BY DEF StartLevel
<1>2. StartGold \in Nat /\ PaidEntry \in BOOLEAN
  BY ArsenalAssumption
<1>3. FreshGame \in GameRec /\ Sound(FreshGame)
  BY ArFresh DEF Rested, Sound, Fitted
<1>4. /\ asked \in GameRec /\ Alike(FreshGame, asked)
      /\ asked.cost = IF PaidEntry THEN SkipCost ELSE 0
  <2>1. CASE PaidEntry
    <3>1. asked = AddCost(ChangeGold(FreshGame, -SkipCost), SkipCost) /\ SkipCost \in Int /\ -SkipCost \in Int
      BY <2>1 DEF Charge, SkipCost
    <3> HIDE DEF asked
    <3>2. asked \in GameRec /\ Alike(FreshGame, asked) /\ asked.cost = FreshGame.cost + SkipCost
      BY <1>3, <3>1, ArMoney
    <3> QED BY <2>1, <3>1, <3>2, ArFresh
  <2>2. CASE ~PaidEntry
    <3>1. asked = FreshGame
      BY <2>2
    <3> HIDE DEF asked
    <3> QED BY <1>3, <2>2, <3>1, ArFresh DEF Alike
  <2> QED BY <1>2, <2>1, <2>2
<1> HIDE DEF asked
<1>5. k \in GameRec /\ Alike(asked, k) /\ k.gold = StartGold /\ k.cost = asked.cost
  BY <1>2, <1>4 DEF GameRec, Alike
<1> HIDE DEF k
<1>6. "BUILD" \in Phases
  BY ArPhases
<1>7. h \in GameRec /\ Alike(k, h) /\ h.gold = k.gold /\ h.cost = k.cost
  BY <1>5, <1>6, ArSetPhase
<1> HIDE DEF h
<1>8. Alike(FreshGame, h)
  BY <1>4, <1>5, <1>7 DEF Alike
<1>9. Sound(h) /\ LeftOk(h)
  BY <1>3, <1>7, <1>8, ArCarry, ArFresh DEF Rested
<1>10. Standing(h) = {}
  BY <1>8, ArFresh DEF Alike, Standing
<1>11. Rested(h)
  BY <1>9, <1>10 DEF Rested, MagicOk
<1>12. h.gold + h.cost = earned' + (IF PaidEntry THEN SkipCost ELSE 0)
  BY <1>1, <1>4, <1>5, <1>7
<1> QED BY <1>1, <1>2, <1>11, <1>12 DEF ArsenalInv, LedgerBalanced

LEMMA ArPlaceStep ==
  ASSUME ArsenalInv, NEW type \in Types, NEW cell \in Cells, Place(type, cell)
  PROVE  ArsenalInv'
<1>1. /\ game.phase = "BUILD" /\ game.nextId <= MaxTowers
      /\ (game.free > 0 \/ game.gold >= TowerCost[type])
      /\ game' = CommitPlacement(game, NewTower(game, type, cell))
      /\ earned' = earned /\ ops' = ops /\ waves' = waves /\ kills' = kills
  BY DEF Place, Play
<1>2. Rested(game)
  BY DEF ArsenalInv
<1>3. Rested(game') /\ Evened(game, game')
  BY <1>1, <1>2, ArPlace
<1>4. {ops', waves', kills'} \subseteq Nat
  BY <1>1, ArCount
<1> QED BY <1>1, <1>3, <1>4, ArKeep

LEMMA ArUpgradeStep ==
  ASSUME ArsenalInv, NEW id \in Standing(game), Upgrade(id)
  PROVE  ArsenalInv'
<1>1. /\ game.phase \in {"BUILD", "WAVE"} /\ Spend
      /\ game.towers[id].level <= Len(UpgradePercent) /\ game.gold >= UpgradeCost(game.towers[id])
      /\ game' = Upgraded(game, game.towers[id])
      /\ earned' = earned /\ waves' = waves /\ kills' = kills
  BY DEF Upgrade, Play
<1>2. Rested(game)
  BY DEF ArsenalInv
<1>3. Rested(game') /\ Evened(game, game')
  BY <1>1, <1>2, ArUpgraded
<1>4. {ops', waves', kills'} \subseteq Nat
  BY <1>1, ArCount
<1> QED BY <1>1, <1>3, <1>4, ArKeep

LEMMA ArRefundStep ==
  ASSUME ArsenalInv, NEW id \in Standing(game), Refund(id)
  PROVE  ArsenalInv'
<1> DEFINE t == game.towers[id]
           r == RefundGold(game, t)
           b == RefundBase(t)
<1>1. /\ game.phase = "BUILD" /\ Spend /\ game' = Refunded(game, t) /\ earned' = earned + r - b
      /\ waves' = waves /\ kills' = kills
  BY DEF Refund
<1>2. Rested(game) /\ game \in GameRec /\ Sound(game)
  BY DEF ArsenalInv, Rested, Sound, Fitted
<1>3. Rested(game') /\ game'.gold = game.gold + r /\ game'.cost = game.cost - b
  BY <1>1, <1>2, ArRefunded
<1>4. t \in TowerRec
  BY <1>2, ArStanding
<1>5. r \in Nat /\ b \in Nat
  BY <1>2, <1>4, ArRefundGold
<1> HIDE DEF t, r, b
<1>6. game.gold \in Int /\ game.cost \in Int /\ earned \in Int
  BY <1>2 DEF GameRec, ArsenalInv
<1>7. /\ r - b \in Int /\ earned' = earned + (r - b)
      /\ game'.gold + game'.cost = game.gold + game.cost + (r - b)
  BY <1>1, <1>3, <1>5, <1>6
<1>8. {ops', waves', kills'} \subseteq Nat
  BY <1>1, ArCount
<1> QED BY <1>1, <1>3, <1>7, <1>8, ArEarn

LEMMA ArPairStep ==
  ASSUME ArsenalInv, NEW id \in Standing(game), NEW other \in Standing(game), PairWith(id, other)
  PROVE  ArsenalInv'
<1> DEFINE freed == IF game.towers[id].pair = 0 THEN game ELSE [game EXCEPT !.towers[game.towers[id].pair].pair = 0]
           stale == {l \in game.lasers : id \in l \/ other \in l}
           h == Pair([freed EXCEPT !.lasers = @ \ stale], id, other)
<1>1. /\ game.phase \in {"BUILD", "WAVE"} /\ Spend /\ id # other /\ game.towers[other].pair = 0
      /\ game' = h /\ earned' = earned /\ waves' = waves /\ kills' = kills
  BY DEF PairWith, Play
<1>2. Rested(game)
  BY DEF ArsenalInv
<1>3. Rested(h) /\ Steady(game, h)
  BY <1>1, <1>2, ArPairWith
<1> HIDE DEF h
<1>4. Rested(game') /\ Evened(game, game')
  BY <1>1, <1>3 DEF Steady, Evened
<1>5. {ops', waves', kills'} \subseteq Nat
  BY <1>1, ArCount
<1> QED BY <1>1, <1>4, <1>5, ArKeep

\* A tower whose programme alone changes.
LEMMA ArTouch ==
  ASSUME NEW g, Rested(g), NEW i \in Standing(g), NEW u \in TowerRec,
         SameBut(g.towers[i], u), u.pair = g.towers[i].pair
  PROVE  LET h == Update(g, u) IN Rested(h) /\ Steady(g, h) /\ h.towers[i] = u
<1> DEFINE t == g.towers[i]
<1>1. t.damage = DamageOf(g, t) /\ t.range = RangeOf(g, t)
  BY DEF Rested, Sound, Fitted, DamageFresh, RangeFresh
<1>2. SameBut(t, u) /\ u.pair = t.pair
  OBVIOUS
<1> HIDE DEF t
<1>3. u.damage = DamageOf(g, u) /\ u.range = RangeOf(g, u) /\ u.near = t.near /\ u.magic = t.magic /\ Look(t, u)
  BY <1>1, <1>2 DEF SameBut, DamageOf, RangeOf, Look
<1> QED BY <1>3, ArUpdate DEF t

\* The step of an action that changes one tower's programme.
LEMMA ArTouchStep ==
  ASSUME ArsenalInv, game.phase \in {"BUILD", "WAVE"}, Spend, NEW id \in Standing(game), NEW u \in TowerRec,
         SameBut(game.towers[id], u), u.pair = game.towers[id].pair, Play(Update(game, u))
  PROVE  ArsenalInv'
<1>1. game' = Update(game, u) /\ earned' = earned /\ waves' = waves /\ kills' = kills
  BY DEF Play
<1>2. Rested(game)
  BY DEF ArsenalInv
<1>3. Rested(game') /\ Evened(game, game')
  BY <1>1, <1>2, ArTouch DEF Steady, Evened
<1>4. {ops', waves', kills'} \subseteq Nat
  BY <1>1, ArCount
<1> QED BY <1>1, <1>3, <1>4, ArKeep

LEMMA ArStandingTower ==
  ASSUME ArsenalInv, NEW id \in Standing(game)
  PROVE  game.towers[id] \in TowerRec /\ game.towers[id].id = id
BY ArStanding DEF ArsenalInv, Rested, Sound, Fitted, IdsOk

LEMMA ArSelectStep ==
  ASSUME ArsenalInv, NEW id \in Standing(game), NEW curve \in Curves, SelectFunction(id, curve)
  PROVE  ArsenalInv'
<1> DEFINE t == game.towers[id]
           u == [t EXCEPT !.curve = curve]
<1>1. game.phase \in {"BUILD", "WAVE"} /\ Spend /\ Play(Update(game, u))
  BY DEF SelectFunction
<1>2. t \in TowerRec
  BY ArStandingTower
<1>3. curve \in SUBSET Cells
  BY ArsenalAssumption
<1> HIDE DEF t
<1>4. u \in TowerRec /\ SameBut(t, u) /\ u.pair = t.pair
  BY <1>2, <1>3 DEF TowerRec, SameBut
<1> HIDE DEF u
<1> QED BY <1>1, <1>4, ArTouchStep DEF t

LEMMA ArModeStep ==
  ASSUME ArsenalInv, NEW id \in Standing(game), ChangeMode(id)
  PROVE  ArsenalInv'
<1> DEFINE t == game.towers[id]
           u == [t EXCEPT !.mode = IF @ = "buff" THEN "debuff" ELSE "buff"]
<1>1. game.phase \in {"BUILD", "WAVE"} /\ Spend /\ Play(Update(game, u))
  BY DEF ChangeMode
<1>2. t \in TowerRec
  BY ArStandingTower
<1> HIDE DEF t
<1>3. u \in TowerRec /\ SameBut(t, u) /\ u.pair = t.pair
  BY <1>2 DEF TowerRec, SameBut
<1> HIDE DEF u
<1> QED BY <1>1, <1>3, ArTouchStep DEF t

LEMMA ArPresetStep ==
  ASSUME ArsenalInv, NEW id \in Standing(game), NEW n \in 1 .. 2, SelectPreset(id, n)
  PROVE  ArsenalInv'
<1> DEFINE t == game.towers[id]
           u == [t EXCEPT !.exponent = n]
<1>1. game.phase \in {"BUILD", "WAVE"} /\ Spend /\ Play(Update(game, u))
  BY DEF SelectPreset
<1>2. t \in TowerRec
  BY ArStandingTower
<1> HIDE DEF t
<1>3. u \in TowerRec /\ SameBut(t, u) /\ u.pair = t.pair
  <2>1. n \in Nat
    OBVIOUS
  <2> QED BY <1>2, <2>1 DEF TowerRec, SameBut
<1> HIDE DEF u
<1> QED BY <1>1, <1>3, ArTouchStep DEF t

\* An operation is paid for but the first, and one that collapses gives the price back.
LEMMA ArOperationStep ==
  ASSUME ArsenalInv, NEW id \in Standing(game), NEW op \in {"derivative", "derivative2", "integral"},
         ApplyOperation(id, op)
  PROVE  ArsenalInv'
<1> DEFINE t == game.towers[id]
           n == ApplyCalcOp(t.exponent, op)
           paid == IF t.chained THEN Charge(game, CalculusOpCost) ELSE game
           u == IF n = 0 THEN [t EXCEPT !.exponent = 1] ELSE [t EXCEPT !.exponent = n, !.chained = TRUE]
           k == Update(paid, u)
           done == RespawnPets(k, {u})
           h == IF n = 0 /\ t.chained THEN CollapseRefund(done) ELSE done
<1>1. /\ game.phase \in {"BUILD", "WAVE"} /\ Spend /\ (t.chained => game.gold >= CalculusOpCost)
      /\ game' = h /\ earned' = earned /\ waves' = waves /\ kills' = kills
  BY DEF ApplyOperation, Play
<1>2. t \in TowerRec /\ t.chained \in BOOLEAN /\ t.exponent \in Nat
  <2>1. t \in TowerRec
    BY ArStandingTower
  <2> HIDE DEF t
  <2> QED BY <2>1 DEF TowerRec
<1>3. n \in Nat
  <2>1. CASE op = "derivative"
    BY <1>2, <2>1 DEF ApplyCalcOp, AtLeast
  <2>2. CASE op = "derivative2"
    BY <1>2, <2>2 DEF ApplyCalcOp, AtLeast
  <2>3. CASE op = "integral"
    BY <1>2, <2>3 DEF ApplyCalcOp
  <2> QED BY <2>1, <2>2, <2>3
<1>4. Rested(game) /\ Evened(game, game) /\ Alike(game, game)
  BY DEF ArsenalInv, Evened, Alike
<1>5. CalculusOpCost \in Int /\ -CalculusOpCost \in Int
  BY DEF CalculusOpCost
<1>6. Rested(paid) /\ Evened(game, paid) /\ Alike(game, paid)
  <2>1. CASE t.chained
    <3>1. paid = Charge(game, CalculusOpCost) /\ game.gold >= CalculusOpCost
      BY <1>1, <2>1
    <3> HIDE DEF paid
    <3> QED BY <1>4, <1>5, <3>1, ArPaid
  <2>2. CASE ~t.chained
    <3>1. paid = game
      BY <2>2
    <3> HIDE DEF paid
    <3> QED BY <1>4, <3>1
  <2> QED BY <2>1, <2>2
<1> HIDE DEF paid
<1> HIDE DEF t, n
<1>7. u \in TowerRec /\ SameBut(t, u) /\ u.pair = t.pair
  <2>1. 1 \in Nat
    OBVIOUS
  <2> QED BY <1>2, <1>3, <2>1 DEF TowerRec, SameBut
<1> HIDE DEF u
<1>8. id \in Standing(paid) /\ paid.towers[id] = t
  BY <1>6 DEF Alike, Standing, t
<1>9. Rested(k) /\ Steady(paid, k)
  BY <1>6, <1>7, <1>8, ArTouch
<1> HIDE DEF k
<1>10. Rested(done) /\ Steady(k, done)
  <2>1. {u} \in SUBSET TowerRec
    BY <1>7
  <2> QED BY <1>9, <2>1, ArRestedPets
<1> HIDE DEF done
<1>11. Rested(h) /\ Evened(done, h)
  <2>1. CASE n = 0 /\ t.chained
    <3>1. h = Charge(done, -CalculusOpCost)
      BY <2>1 DEF CollapseRefund
    <3> HIDE DEF h
    <3>2. done.gold >= -CalculusOpCost
      BY <1>10 DEF Rested, Sound, Fitted, GameRec, CalculusOpCost
    <3> QED BY <1>5, <1>10, <3>1, <3>2, ArPaid
  <2>2. CASE ~(n = 0 /\ t.chained)
    <3>1. h = done
      BY <2>2
    <3> HIDE DEF h
    <3> QED BY <1>10, <3>1 DEF Evened
  <2> QED BY <2>1, <2>2
<1> HIDE DEF h
<1>12. Evened(game, h)
  BY <1>6, <1>9, <1>10, <1>11 DEF Evened, Steady
<1>13. {ops', waves', kills'} \subseteq Nat
  BY <1>1, ArCount
<1> QED BY <1>1, <1>11, <1>12, <1>13, ArKeep

NoMagic(g) == \A i \in Standing(g) : ~g.towers[i].magic

\* What a shop item, a spell or a door may apply, and for how long.
Offered(e, secs) == \/ e \in Lasting /\ secs \in Nat \ {0}
                    \/ e \in DOMAIN Heals \cup {"FREE_TOWERS"} /\ secs = 0

LEMMA ArShop ==
  \A item \in Items : ShopItems[item].cost \in Nat /\ Offered(ShopItems[item].effect, ShopItems[item].secs)
BY ArsenalAssumption DEF ShopItems, Offered, Lasting, Deltas, Heals

LEMMA ArDoors ==
  \A r \in Rewards : /\ Offered(DoorRewards[r].effect, DoorRewards[r].secs)
                     /\ DoorRewards[r].effect # "SHIELD"
BY ArsenalAssumption DEF DoorRewards, Offered, Lasting, Deltas, Heals

LEMMA ArBook ==
  \A s \in Spells : SpellBook[s].cost \in Nat /\ SpellBook[s].cooldown \in Nat \ {0}
BY ArsenalAssumption DEF SpellBook

LEMMA ArReward ==
  ASSUME NEW g, Rested(g), NoMagic(g), NEW e, NEW secs, Offered(e, secs),
         e = "SHIELD" => Shields(g.buffs) = {}
  PROVE  LET h == ApplyExternalBuff(g, e, secs) IN Rested(h) /\ NoMagic(h) /\ Evened(g, h)
<1> DEFINE h == ApplyExternalBuff(g, e, secs)
<1>1. Sound(g) /\ LeftOk(g)
  BY DEF Rested
<1>2. Sound(h) /\ LeftOk(h) /\ Magics(g, h) /\ h.gold = g.gold /\ h.cost = g.cost
  <2>1. CASE e \in Lasting /\ secs \in Nat \ {0}
    <3>1. Sound(h) /\ Steady(g, h) /\ Magics(g, h) /\ (LeftOk(g) => LeftOk(h))
      BY <1>1, <2>1, ArApply
    <3> QED BY <1>1, <3>1 DEF Steady
  <2>2. CASE e \in DOMAIN Heals \cup {"FREE_TOWERS"} /\ secs = 0
    BY <1>1, <2>2, ArInstant
  <2> QED BY <2>1, <2>2 DEF Offered
<1> HIDE DEF h
<1>3. NoMagic(h)
  BY <1>2 DEF NoMagic, Magics
<1>4. Rested(h) /\ Evened(g, h)
  BY <1>2, <1>3 DEF Rested, MagicOk, NoMagic, Evened
<1> QED BY <1>3, <1>4 DEF h

LEMMA ArPurchaseStep ==
  ASSUME ArsenalInv, NEW item \in Items, Purchase(item)
  PROVE  ArsenalInv'
<1> DEFINE e == ShopItems[item].effect
           secs == ShopItems[item].secs
           c == ShopItems[item].cost
           p == Charge(game, c)
           h == ApplyExternalBuff(p, e, secs)
<1>1. /\ game.phase = "BUILD" /\ Spend /\ game.gold >= c
      /\ \A i \in DOMAIN game.buffs : game.buffs[i].effect # e
      /\ game' = h /\ earned' = earned /\ waves' = waves /\ kills' = kills
  BY DEF Purchase, Play
<1>2. c \in Int /\ Offered(e, secs)
  BY ArShop
<1> HIDE DEF e, secs, c
<1>3. Rested(game)
  BY DEF ArsenalInv
<1>4. Rested(p) /\ Evened(game, p) /\ Alike(game, p)
  BY <1>1, <1>2, <1>3, ArPaid
<1> HIDE DEF p
<1>5. NoMagic(p)
  BY <1>1, <1>3, <1>4 DEF NoMagic, Rested, MagicOk, Alike, Standing
<1>6. e = "SHIELD" => Shields(p.buffs) = {}
  BY <1>1, <1>4 DEF Shields, Alike
<1>7. Rested(h) /\ Evened(p, h)
  BY <1>2, <1>4, <1>5, <1>6, ArReward
<1> HIDE DEF h
<1>8. Rested(game') /\ Evened(game, game')
  BY <1>1, <1>4, <1>7 DEF Evened
<1>9. {ops', waves', kills'} \subseteq Nat
  BY <1>1, ArCount
<1> QED BY <1>1, <1>8, <1>9, ArKeep

\* Cooldowns are nothing the other parts look at.
LEMMA ArCooldown ==
  ASSUME NEW g, Rested(g), NEW s \in Spells, NEW n \in Nat
  PROVE  LET h == [g EXCEPT !.cds[s] = n] IN Rested(h) /\ Alike(g, h) /\ Steady(g, h)
<1> DEFINE cds == [g.cds EXCEPT ![s] = n]
           h == [g EXCEPT !.cds = cds]
<1>1. g \in GameRec /\ Sound(g)
  BY DEF Rested, Sound, Fitted
<1>2. [g EXCEPT !.cds[s] = n] = h
  OBVIOUS
<1>3. cds \in [Spells -> Nat]
  BY <1>1 DEF GameRec
<1> HIDE DEF cds
<1>4. h \in GameRec /\ Alike(g, h) /\ Steady(g, h)
  BY <1>1, <1>3 DEF GameRec, Alike, Steady
<1> HIDE DEF h
<1>5. Sound(h) /\ (LeftOk(g) => LeftOk(h))
  BY <1>1, <1>4, ArCarry
<1>6. Rested(h)
  BY <1>4, <1>5 DEF Rested, MagicOk, Alike, Steady, Standing
<1> QED BY <1>2, <1>4, <1>6

\* A spell that hit nothing gives its whole price back.
LEMMA ArCastStep ==
  ASSUME ArsenalInv, NEW s \in Spells, NEW hit \in BOOLEAN, CastSpell(s, hit)
  PROVE  ArsenalInv'
<1> DEFINE c == SpellBook[s].cost
           n == Ticks(SpellBook[s].cooldown)
           p == Charge(game, c)
           cast == [p EXCEPT !.cds[s] = n]
           back == Charge(cast, -c)
           missed == [back EXCEPT !.cds[s] = 0]
           haste == ApplyExternalBuff(cast, "DAMAGE_1_5", HasteSecs)
<1>1. /\ game.phase = "WAVE" /\ game.gold >= c /\ Spend
      /\ game' \in {cast, missed, haste} /\ earned' = earned /\ waves' = waves /\ kills' = kills
  BY DEF CastSpell, Play, RefundSpell
<1>2. c \in Nat /\ n \in Nat
  <2>1. c \in Nat /\ SpellBook[s].cooldown \in Nat \ {0}
    BY ArBook
  <2> QED BY <2>1, ArTicks
<1> HIDE DEF c, n
<1>3. Rested(game)
  BY DEF ArsenalInv
<1>4. Rested(p) /\ Evened(game, p) /\ p.phase = "WAVE"
  BY <1>1, <1>2, <1>3, ArPaid
<1> HIDE DEF p
<1>5. Rested(cast) /\ Steady(p, cast)
  BY <1>2, <1>4, ArCooldown
<1> HIDE DEF cast
<1>6. Rested(back) /\ Evened(cast, back)
  <2>1. cast.gold \in Nat
    BY <1>5 DEF Rested, Sound, Fitted, GameRec
  <2>2. -c \in Int /\ cast.gold >= -c
    BY <1>2, <2>1
  <2> QED BY <1>5, <2>2, ArPaid
<1> HIDE DEF back
<1>7. Rested(missed) /\ Steady(back, missed)
  BY <1>6, ArCooldown
<1> HIDE DEF missed
<1>8. Rested(haste) /\ Steady(cast, haste)
  <2>1. "DAMAGE_1_5" \in Lasting /\ HasteSecs \in Nat \ {0} /\ Sound(cast) /\ LeftOk(cast)
    BY <1>5 DEF Lasting, Deltas, HasteSecs, Rested
  <2>2. Sound(haste) /\ Steady(cast, haste) /\ (LeftOk(cast) => LeftOk(haste))
    BY <2>1, ArApply
  <2> HIDE DEF haste
  <2> QED BY <1>4, <1>5, <2>1, <2>2 DEF Rested, MagicOk, Steady
<1> HIDE DEF haste
<1>9. Rested(game') /\ Evened(game, game')
  BY <1>1, <1>4, <1>5, <1>6, <1>7, <1>8 DEF Evened, Steady
<1>10. {ops', waves', kills'} \subseteq Nat
  BY <1>1, ArCount
<1> QED BY <1>1, <1>9, <1>10, ArKeep

LEMMA ArStartWaveStep == ASSUME ArsenalInv, StartWave PROVE ArsenalInv'
<1> DEFINE k == [game EXCEPT !.layoutDirty = TRUE]
           h == SetPhase(k, "WAVE")
<1>1. game.phase = "BUILD" /\ waves' = waves + 1 /\ game' = h /\ UNCHANGED <<earned, ops, kills>>
  BY DEF StartWave
<1>2. Rested(game) /\ game \in GameRec /\ Sound(game)
  BY DEF ArsenalInv, Rested, Sound, Fitted
<1>3. k \in GameRec /\ Alike(game, k) /\ Steady(game, k)
  BY <1>2, ArDirty
<1> HIDE DEF k
<1>4. Sound(k) /\ (LeftOk(game) => LeftOk(k))
  BY <1>2, <1>3, ArCarry
<1>5. Rested(k)
  BY <1>2, <1>3, <1>4 DEF Rested, MagicOk, Alike, Steady, Standing
<1>6. "WAVE" \in Phases /\ CanTransition(k.phase, "WAVE")
  BY <1>1, <1>3, ArPhases DEF Steady
<1>7. Rested(h) /\ Evened(k, h)
  BY <1>5, <1>6, ArRestedPhase
<1> HIDE DEF h
<1>8. Rested(game') /\ Evened(game, game')
  BY <1>1, <1>3, <1>7 DEF Evened, Steady
<1>9. {ops', waves', kills'} \subseteq Nat
  BY <1>1 DEF ArsenalInv
<1> QED BY <1>1, <1>8, <1>9, ArKeep

LEMMA ArDoorStep == ASSUME ArsenalInv, TakeDoor PROVE ArsenalInv'
<1> DEFINE won(r) == ApplyExternalBuff(game, DoorRewards[r].effect, DoorRewards[r].secs)
<1>1. /\ game.phase = "MONTY_HALL" /\ ops' = ops /\ earned' = earned /\ waves' = waves /\ kills' = kills
      /\ \/ game' = SetPhase(game, "BUILD")
         \/ \E r \in Rewards : game' = SetPhase(won(r), "BUILD")
  BY DEF TakeDoor, Play
<1>2. Rested(game) /\ NoMagic(game)
  BY <1>1 DEF ArsenalInv, Rested, MagicOk, NoMagic
<1>3. \A r \in Rewards : Rested(won(r)) /\ NoMagic(won(r)) /\ Evened(game, won(r))
  BY <1>2, ArDoors, ArReward
<1>4. PICK k : Rested(k) /\ NoMagic(k) /\ Evened(game, k) /\ game' = SetPhase(k, "BUILD")
  <2>1. CASE game' = SetPhase(game, "BUILD")
    BY <1>2, <2>1 DEF Evened
  <2>2. CASE \E r \in Rewards : game' = SetPhase(won(r), "BUILD")
    <3> HIDE DEF won
    <3> QED BY <1>3, <2>2
  <2> QED BY <1>1, <2>1, <2>2
<1>5. "BUILD" \in Phases
  BY ArPhases
<1>6. Rested(game') /\ Evened(k, game')
  BY <1>4, <1>5, ArRestedPhase DEF NoMagic
<1>7. Evened(game, game')
  BY <1>4, <1>6 DEF Evened
<1>8. {ops', waves', kills'} \subseteq Nat
  BY <1>1, ArCount
<1> QED BY <1>1, <1>6, <1>7, <1>8, ArKeep

\* Gold that comes in, whatever else of the game is left alone.
LEMMA ArIncome ==
  ASSUME NEW g, Sound(g), LeftOk(g), NEW n \in Nat
  PROVE  LET h == ChangeGold(g, n) IN
         Sound(h) /\ LeftOk(h) /\ h.gold = g.gold + n /\ h.cost = g.cost /\ h.phase = g.phase /\ h \in GameRec
<1> DEFINE h == ChangeGold(g, n)
<1>1. g \in GameRec /\ n \in Int
  BY DEF Sound, Fitted
<1>2. h \in GameRec /\ Alike(g, h) /\ h.phase = g.phase /\ h.gold = AtLeast(0, g.gold + n) /\ h.cost = g.cost
  BY <1>1, ArChangeGold
<1> HIDE DEF h
<1>3. g.gold \in Nat
  BY <1>1 DEF GameRec
<1>4. h.gold = g.gold + n
  BY <1>2, <1>3 DEF AtLeast
<1>5. Sound(h) /\ (LeftOk(g) => LeftOk(h))
  BY <1>1, <1>2, ArCarry
<1> QED BY <1>2, <1>4, <1>5 DEF h

\* One enemy through, or three: nothing is paid and nothing is lost but health.
LEMMA ArLeaks ==
  ASSUME NEW g, Sound(g), LeftOk(g)
  PROVE  \A h \in Leaks(g) : Sound(h) /\ LeftOk(h) /\ h.gold = g.gold /\ h.cost = g.cost
<1> DEFINE a == Leaked(g)
           b == Leaked(a)
           c == Leaked(b)
<1>1. Leaks(g) = {a, c}
  BY DEF Leaks
<1>2. Sound(a) /\ LeftOk(a) /\ a.gold = g.gold /\ a.cost = g.cost
  BY ArLeaked
<1> HIDE DEF a
<1>3. Sound(b) /\ LeftOk(b) /\ b.gold = a.gold /\ b.cost = a.cost
  BY <1>2, ArLeaked
<1> HIDE DEF b
<1>4. Sound(c) /\ LeftOk(c) /\ c.gold = b.gold /\ c.cost = b.cost
  BY <1>3, ArLeaked
<1> QED BY <1>1, <1>2, <1>3, <1>4

LEMMA ArFrameStep == ASSUME ArsenalInv, Frame PROVE ArsenalInv'
<1>1. game.phase = "WAVE" /\ ops' = ops /\ waves' = waves
  BY DEF Frame
<1>2. Sound(game) /\ LeftOk(game) /\ game \in GameRec /\ game.gold \in Int /\ game.cost \in Int
  BY DEF ArsenalInv, Rested, Sound, Fitted, GameRec
<1>3. GoldFactor(game) \in Nat /\ KillGold \in Nat /\ WaveBonus \in Nat
  BY <1>2, ArGoldFactor, ArsenalAssumption
<1> DEFINE n == KillGold * GoldFactor(game)
<1>4. n \in Nat
  BY <1>3, ArProduct
<1>5. {ops', waves'} \subseteq Nat /\ kills \in Nat
  BY <1>1 DEF ArsenalInv
\* Whatever the enemies did, the rest of the frame leaves a game at rest.
<1>6. ASSUME NEW k, NEW d \in Int, Sound(k), LeftOk(k), k.gold + k.cost = game.gold + game.cost + d,
             game' = RestOfFrame(k), earned' = earned + d, kills' \in Nat
      PROVE  ArsenalInv'
  <2>1. Rested(game') /\ Steady(k, game')
    BY <1>6, ArFrame
  <2>2. game'.gold + game'.cost = game.gold + game.cost + d
    BY <1>6, <2>1 DEF Steady
  <2>3. {ops', waves', kills'} \subseteq Nat /\ game.phase # "MENU"
    BY <1>1, <1>5, <1>6
  <2> QED BY <1>6, <2>1, <2>2, <2>3, ArEarn
<1>7. CASE game' = RestOfFrame(game) /\ UNCHANGED <<earned, kills>>
  <2>1. game.gold + game.cost = game.gold + game.cost + 0 /\ earned' = earned + 0 /\ 0 \in Int /\ kills' \in Nat
    BY <1>2, <1>5, <1>7 DEF ArsenalInv
  <2> QED BY <1>2, <1>6, <1>7, <2>1
<1>8. CASE kills' = kills + 1 /\ game' = RestOfFrame(Killed(game)) /\ earned' = earned + n
  <2> DEFINE k == Killed(game)
  <2>1. k = ChangeGold(game, n)
    BY DEF Killed
  <2> HIDE DEF k
  <2> HIDE DEF n
  <2>2. Sound(k) /\ LeftOk(k) /\ k.gold = game.gold + n /\ k.cost = game.cost
    BY <1>2, <1>4, <2>1, ArIncome
  <2>3. n \in Int /\ k.gold + k.cost = game.gold + game.cost + n /\ kills' \in Nat
    BY <1>2, <1>4, <1>5, <1>8, <2>2
  <2>4. game' = RestOfFrame(k) /\ earned' = earned + n
    BY <1>8 DEF k
  <2> QED BY <1>6, <2>2, <2>3, <2>4
<1>9. CASE (\E h \in Leaks(game) : game' = RestOfFrame(h)) /\ UNCHANGED <<earned, kills>>
  <2>1. PICK h \in Leaks(game) : game' = RestOfFrame(h)
    BY <1>9
  <2>2. Sound(h) /\ LeftOk(h) /\ h.gold = game.gold /\ h.cost = game.cost
    BY <1>2, ArLeaks
  <2>3. h.gold + h.cost = game.gold + game.cost + 0 /\ earned' = earned + 0 /\ 0 \in Int /\ kills' \in Nat
    BY <1>2, <1>5, <1>9, <2>2 DEF ArsenalInv
  <2> QED BY <1>6, <2>1, <2>2, <2>3
<1>10. CASE /\ \E to \in {"LEVEL_END", "BUILD", "MONTY_HALL"} : game' = RestOfFrame(WaveEnded(game, to))
            /\ earned' = earned + WaveBonus /\ kills' = kills
  <2>1. PICK to \in {"LEVEL_END", "BUILD", "MONTY_HALL"} : game' = RestOfFrame(WaveEnded(game, to))
    BY <1>10
  <2> DEFINE k == ChangeGold(game, WaveBonus)
             h == SetPhase(k, to)
  <2>2. WaveEnded(game, to) = h
    BY DEF WaveEnded
  <2>3. Sound(k) /\ LeftOk(k) /\ k.gold = game.gold + WaveBonus /\ k.cost = game.cost /\ k \in GameRec
    BY <1>2, <1>3, ArIncome
  <2> HIDE DEF k
  <2>4. to \in Phases
    BY ArPhases
  <2>5. h \in GameRec /\ Alike(k, h) /\ h.gold = k.gold /\ h.cost = k.cost
    BY <2>3, <2>4, ArSetPhase
  <2> HIDE DEF h
  <2>6. Sound(h) /\ LeftOk(h)
    BY <2>3, <2>5, ArCarry
  <2>7. WaveBonus \in Int /\ h.gold + h.cost = game.gold + game.cost + WaveBonus /\ kills' \in Nat
    BY <1>2, <1>3, <1>5, <1>10, <2>3, <2>5
  <2> QED BY <1>6, <1>10, <2>1, <2>2, <2>6, <2>7
<1> QED BY <1>7, <1>8, <1>9, <1>10 DEF Frame

(***************************************************************************)
(* The theorems                                                            *)
(***************************************************************************)
LEMMA ArTowerStep ==
  ASSUME ArsenalInv, NEW id \in Standing(game), Tower(id)
  PROVE  ArsenalInv'
<1>1. CASE Upgrade(id)
  BY <1>1, ArUpgradeStep
<1>2. CASE Refund(id)
  BY <1>2, ArRefundStep
<1>3. CASE ChangeMode(id)
  BY <1>3, ArModeStep
<1>4. CASE \E o \in Standing(game) : PairWith(id, o)
  BY <1>4, ArPairStep
<1>5. CASE \E c \in Curves : SelectFunction(id, c)
  BY <1>5, ArSelectStep
<1>6. CASE \E n \in 1 .. 2 : SelectPreset(id, n)
  BY <1>6, ArPresetStep
<1>7. CASE \E op \in {"derivative", "derivative2", "integral"} : ApplyOperation(id, op)
  BY <1>7, ArOperationStep
<1> QED BY <1>1, <1>2, <1>3, <1>4, <1>5, <1>6, <1>7 DEF Tower

LEMMA ArsenalNext == ASSUME ArsenalInv, [Next]_vars PROVE ArsenalInv'
<1>1. CASE StartLevel
  BY <1>1, ArStartLevel
<1>2. CASE StartWave
  BY <1>2, ArStartWaveStep
<1>3. CASE Frame
  BY <1>3, ArFrameStep
<1>4. CASE TakeDoor
  BY <1>4, ArDoorStep
<1>5. CASE \E type \in Types, cell \in Cells : Place(type, cell)
  BY <1>5, ArPlaceStep
<1>6. CASE \E id \in Standing(game) : Tower(id)
  BY <1>6, ArTowerStep
<1>7. CASE \E item \in Items : Purchase(item)
  BY <1>7, ArPurchaseStep
<1>8. CASE \E s \in Spells, hit \in BOOLEAN : CastSpell(s, hit)
  BY <1>8, ArCastStep
<1>9. CASE UNCHANGED vars
  BY <1>9 DEF vars, ArsenalInv, LedgerBalanced
<1> QED BY <1>1, <1>2, <1>3, <1>4, <1>5, <1>6, <1>7, <1>8, <1>9 DEF Next

LEMMA ArsenalInit == ASSUME Init PROVE ArsenalInv
BY ArFresh DEF Init, ArsenalInv, LedgerBalanced

\* What every caller in the run relies on: the towers stand under their own ids
\* with fresh caches, partners and lasers are mutual, the accumulators match the
\* timers, a tower is lit in a wave only, and the ledger balances.
THEOREM ArsenalInvHolds == Spec => []ArsenalInv
<1>1. Init => ArsenalInv
  BY ArsenalInit
<1>2. ArsenalInv /\ [Next]_vars => ArsenalInv'
  BY ArsenalNext
<1> QED BY <1>1, <1>2, PTL DEF Spec

\* However purchases, door rewards, spells, expiries and the shield's early end
\* overlap, each accumulator of BuffSystem is the sum of the buffs that run.
THEOREM BonusesHold == Spec => []BonusesMatchBuffs
<1>1. ArsenalInv => BonusesMatchBuffs
  <2> SUFFICES ASSUME ArsenalInv PROVE BonusesMatchBuffs
    OBVIOUS
  <2>1. BonusOk(game) /\ ShieldOk(game) /\ LeftOk(game)
    BY DEF ArsenalInv, Rested, Sound
  <2>2. game.shieldHits > 0 <=> \E i \in DOMAIN game.buffs : game.buffs[i].effect = "SHIELD"
    BY <2>1 DEF ShieldOk, Shields
  <2> QED BY <2>1, <2>2 DEF BonusesMatchBuffs, BonusOk, LeftOk
<1> QED BY <1>1, ArsenalInvHolds, PTL

\* No order of upgrades, placements, sales, zones and buffs leaves a tower with a
\* cached damage, range or neighbour count that its present state does not give.
THEOREM StatsHold == Spec => []StatsFresh
<1>1. ArsenalInv => StatsFresh
  BY DEF ArsenalInv, Rested, Sound, Fitted, DamageFresh, RangeFresh, NearFresh, MagicOk, StatsFresh
<1> QED BY <1>1, ArsenalInvHolds, PTL

\* Pairing by hand, by placement and by frame, and selling, keep the matrix towers
\* matched two by two: no laser and no partner outlives a sale.
THEOREM PairsHold == Spec => []PairsMatched
<1>1. ArsenalInv => PairsMatched
  BY DEF ArsenalInv, Rested, Sound, Fitted, PairsOk, LasersOk, PairsMatched
<1> QED BY <1>1, ArsenalInvHolds, PTL

\* Gold in hand and the cost counted against the score stay the two sides of one
\* account through every charge, refund, collapse and missed cast.
THEOREM LedgerHolds == Spec => []LedgerBalanced
<1>1. ArsenalInv => LedgerBalanced
  BY DEF ArsenalInv
<1> QED BY <1>1, ArsenalInvHolds, PTL
=====================================
