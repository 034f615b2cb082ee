------------------------- MODULE GameFlow_proof -------------------------
(***************************************************************************)
(* A run has one verdict, loses no enemy and keeps its clock exact, for    *)
(* any waves, thresholds, hit points, speeds and bounds.                   *)
(***************************************************************************)
EXTENDS GameFlow, FiniteSetTheorems, WellFoundedInduction, TLAPS

(***************************************************************************)
(* Loops                                                                   *)
(***************************************************************************)
\* Numbers have a least one.
LEMMA GfLeast == ASSUME NEW T, T \subseteq Nat, T # {} PROVE \E n \in T : \A m \in T : n <= m
<1> DEFINE R == OpToRel(<, Nat)
<1>1. IsWellFoundedOn(R, Nat)
  BY NatLessThanWellFounded
<1>2. \A m, n \in Nat : m < n => <<m, n>> \in R
  BY DEF OpToRel
<1> HIDE DEF R
<1>3. PICK n \in T : \A m \in T : ~(<<m, n>> \in R)
  BY <1>1, WFMin
<1>4. ASSUME NEW m \in T PROVE n <= m
  <2>1. m \in Nat /\ n \in Nat
    OBVIOUS
  <2>2. ~(m < n)
    BY <1>2, <1>3, <2>1
  <2> QED BY <2>1, <2>2
<1> QED BY <1>4

\* What holds of 0 and passes from each number to the next holds of all.
LEMMA GfInduct == ASSUME NEW T, 0 \in T, \A n \in Nat : n \in T => n + 1 \in T PROVE Nat \subseteq T
<1> SUFFICES ASSUME ~(Nat \subseteq T) PROVE FALSE
  OBVIOUS
<1> DEFINE U == Nat \ T
<1>1. PICK n \in U : \A m \in U : n <= m
  <2>1. U \subseteq Nat /\ U # {}
    OBVIOUS
  <2> HIDE DEF U
  <2> QED BY <2>1, GfLeast
<1>2. n \in Nat \ {0} /\ n - 1 \in Nat /\ n - 1 + 1 = n
  BY <1>1
<1>3. n - 1 \notin U
  BY <1>1, <1>2
<1> QED BY <1>1, <1>2, <1>3

\* G repeated from h: the states after 0, 1, 2, ... turns.
Repeats(f, h, G) == f = [n \in Nat |-> IF n = 0 THEN h ELSE G[<<f[n - 1], n>>]]

LEMMA GfRuns ==
  ASSUME NEW S, NEW h \in S, NEW G \in [S \X Nat -> S]
  PROVE  \E f \in [Nat -> S] : Repeats(f, h, G)
<1> DEFINE Upto(n) == {f \in [0 .. n -> S] : f[0] = h /\ \A i \in 1 .. n : f[i] = G[<<f[i - 1], i>>]}
           T == {n \in Nat : Upto(n) # {}}
<1>1. Nat \subseteq T
  <2>1. 0 \in T
    <3> DEFINE z == [i \in 0 .. 0 |-> h]
    <3>1. z \in [0 .. 0 -> S] /\ z[0] = h /\ 1 .. 0 = {}
      OBVIOUS
    <3>2. z \in Upto(0)
      BY <3>1
    <3> QED BY <3>2
  <2>2. ASSUME NEW n \in Nat, n \in T PROVE n + 1 \in T
    <3>1. PICK f : f \in Upto(n)
      BY <2>2
    <3> DEFINE z == [i \in 0 .. n + 1 |-> IF i = n + 1 THEN G[<<f[n], n + 1>>] ELSE f[i]]
    <3>2. f \in [0 .. n -> S] /\ f[0] = h /\ \A i \in 1 .. n : f[i] = G[<<f[i - 1], i>>]
      BY <3>1
    <3>3. f[n] \in S /\ G[<<f[n], n + 1>>] \in S
      BY <3>2
    <3>4. z \in [0 .. n + 1 -> S]
      BY <3>2, <3>3
    <3>5. z[0] = h
      BY <3>2
    <3>6. ASSUME NEW i \in 1 .. n + 1 PROVE z[i] = G[<<z[i - 1], i>>]
      <4>1. i - 1 \in 0 .. n /\ z[i - 1] = f[i - 1]
        OBVIOUS
      <4>2. CASE i = n + 1
        <5>1. i - 1 = n /\ z[i] = G[<<f[n], n + 1>>]
          BY <4>2
        <5> HIDE DEF z
        <5> QED BY <4>1, <4>2, <5>1
      <4>3. CASE i # n + 1
        <5>1. i \in 1 .. n /\ z[i] = f[i]
          BY <4>3
        <5> HIDE DEF z
        <5> QED BY <3>2, <4>1, <5>1
      <4> QED BY <4>2, <4>3
    <3> HIDE DEF z
    <3>7. z \in Upto(n + 1)
      BY <3>4, <3>5, <3>6
    <3> QED BY <3>7
  <2> HIDE DEF T
  <2> QED BY <2>1, <2>2, GfInduct
<1>2. ASSUME NEW m \in Nat, NEW n \in Nat, NEW f \in Upto(m), NEW k \in Upto(n)
      PROVE  \A i \in Nat : i <= m /\ i <= n => f[i] = k[i]
  <2> DEFINE E == {i \in Nat : i <= m /\ i <= n => f[i] = k[i]}
  <2>1. 0 \in E
    OBVIOUS
  <2>2. ASSUME NEW i \in Nat, i \in E PROVE i + 1 \in E
    <3>1. CASE i + 1 <= m /\ i + 1 <= n
      <4>1. f[i] = k[i] /\ i + 1 \in 1 .. m /\ i + 1 \in 1 .. n /\ i + 1 - 1 = i
        BY <2>2, <3>1
      <4>2. f[i + 1] = G[<<f[i + 1 - 1], i + 1>>] /\ k[i + 1] = G[<<k[i + 1 - 1], i + 1>>]
        BY <4>1
      <4> QED BY <4>1, <4>2
    <3> QED BY <3>1
  <2>3. Nat \subseteq E
    <3> HIDE DEF E
    <3> QED BY <2>1, <2>2, GfInduct
  <2> QED BY <2>3
<1> DEFINE run == [n \in Nat |-> (CHOOSE f : f \in Upto(n))[n]]
<1>3. ASSUME NEW n \in Nat PROVE (CHOOSE f : f \in Upto(n)) \in Upto(n)
  <2>1. \E f : f \in Upto(n)
    BY <1>1
  <2> HIDE DEF Upto
  <2> QED BY <2>1
<1>4. run \in [Nat -> S]
  <2>1. ASSUME NEW n \in Nat PROVE (CHOOSE f : f \in Upto(n))[n] \in S
    <3> DEFINE f == CHOOSE e : e \in Upto(n)
    <3>1. f \in Upto(n)
      BY <1>3
    <3> HIDE DEF f
    <3>2. f[n] \in S
      BY <3>1
    <3> QED BY <3>2 DEF f
  <2> HIDE DEF Upto
  <2> QED BY <2>1
<1>5. ASSUME NEW n \in Nat PROVE run[n] = IF n = 0 THEN h ELSE G[<<run[n - 1], n>>]
  <2> DEFINE f == CHOOSE e : e \in Upto(n)
             k == CHOOSE e : e \in Upto(n - 1)
  <2>1. f \in Upto(n) /\ run[n] = f[n]
    BY <1>3
  <2>2. ASSUME n # 0 PROVE n - 1 \in Nat /\ k \in Upto(n - 1) /\ run[n - 1] = k[n - 1]
    <3>1. n - 1 \in Nat
      BY <2>2
    <3> QED BY <1>3, <3>1
  <2> HIDE DEF f, k, run
  <2>3. CASE n = 0
    BY <2>1, <2>3
  <2>4. CASE n # 0
    <3>1. f[n - 1] = k[n - 1]
      <4>1. n - 1 \in Nat /\ n - 1 <= n
        BY <2>4
      <4> HIDE DEF Upto
      <4> QED BY <1>2, <2>1, <2>2, <2>4, <4>1
    <3>2. f[n] = G[<<f[n - 1], n>>]
      <4>1. n \in 1 .. n
        BY <2>4
      <4> QED BY <2>1, <4>1
    <3> HIDE DEF Upto
    <3> QED BY <2>1, <2>2, <2>4, <3>1, <3>2
  <2> QED BY <2>3, <2>4
<1> HIDE DEF run
<1>6. run = [n \in Nat |-> IF n = 0 THEN h ELSE G[<<run[n - 1], n>>]]
  BY <1>4, <1>5
<1> QED BY <1>4, <1>6 DEF Repeats

\* A loop stays among the states its body stays among: hits,
LEMMA GfStrikes ==
  ASSUME NEW S, NEW h \in S, h.created \in Nat, NEW ids,
         \A x \in S : \A n \in ids \cap Int : ApplyDamage(x, n) \in S
  PROVE  InTurn(ApplyDamage, h, ids) \in S
<1> DEFINE G == [p \in S \X Nat |-> IF p[2] \in ids THEN ApplyDamage(p[1], p[2]) ELSE p[1]]
           after == CHOOSE f : f = [n \in Nat |-> IF n = 0 THEN h
                                     ELSE IF n \in ids THEN Turn(ApplyDamage, f[n - 1], n) ELSE f[n - 1]]
<1>1. \A x, n : Turn(ApplyDamage, x, n) = ApplyDamage(x, n)
  BY DEF Turn
<1>2. InTurn(ApplyDamage, h, ids) = after[h.created]
  BY DEF InTurn
<1>3. G \in [S \X Nat -> S]
  <2>1. ASSUME NEW x \in S, NEW n \in Nat PROVE (IF n \in ids THEN ApplyDamage(x, n) ELSE x) \in S
    <3>1. n \in Int
      OBVIOUS
    <3> QED BY <3>1
  <2> QED BY <2>1
<1>4. \A x \in S : \A n \in Nat :
        G[<<x, n>>] = IF n \in ids THEN Turn(ApplyDamage, x, n) ELSE x
  BY <1>1
<1> HIDE DEF G, after
<1>5. PICK f \in [Nat -> S] : Repeats(f, h, G)
  BY <1>3, GfRuns
<1>6. f = [n \in Nat |-> IF n = 0 THEN h
                        ELSE IF n \in ids THEN Turn(ApplyDamage, f[n - 1], n) ELSE f[n - 1]]
  <2>1. ASSUME NEW n \in Nat
        PROVE  f[n] = IF n = 0 THEN h
                      ELSE IF n \in ids THEN Turn(ApplyDamage, f[n - 1], n) ELSE f[n - 1]
    <3>1. f[n] = IF n = 0 THEN h ELSE G[<<f[n - 1], n>>]
      BY <1>5 DEF Repeats
    <3>2. n # 0 => n - 1 \in Nat /\ f[n - 1] \in S
      OBVIOUS
    <3> QED BY <1>4, <3>1, <3>2
  <2> QED BY <2>1
<1>7. after = [n \in Nat |-> IF n = 0 THEN h
                            ELSE IF n \in ids THEN Turn(ApplyDamage, after[n - 1], n) ELSE after[n - 1]]
  BY <1>6 DEF after

<1> DEFINE T == {n \in Nat : after[n] \in S}
<1>8. 0 \in T
  <2>1. after[0] = h
    BY <1>7
  <2> QED BY <2>1
<1>9. ASSUME NEW n \in Nat, n \in T PROVE n + 1 \in T
  <2>1. n + 1 \in Nat /\ n + 1 # 0 /\ n + 1 - 1 = n /\ after[n] \in S /\ (n + 1) \in Int
    BY <1>9
  <2>2. after[n + 1] = IF (n + 1) \in ids THEN Turn(ApplyDamage, after[n], (n + 1)) ELSE after[n]
    BY <1>7, <2>1
  <2> QED BY <1>1, <2>1, <2>2
<1>10. Nat \subseteq T
  <2> HIDE DEF T
  <2> QED BY <1>8, <1>9, GfInduct
<1> QED BY <1>2, <1>10

\* questions asked,
LEMMA GfAsks ==
  ASSUME NEW S, NEW h \in S, h.created \in Nat, NEW ids,
         \A x \in S : \A n \in ids \cap Int : TriggerChainRule(x, n) \in S
  PROVE  InTurn(TriggerChainRule, h, ids) \in S
<1> DEFINE G == [p \in S \X Nat |-> IF p[2] \in ids THEN TriggerChainRule(p[1], p[2]) ELSE p[1]]
           after == CHOOSE f : f = [n \in Nat |-> IF n = 0 THEN h
                                     ELSE IF n \in ids THEN Turn(TriggerChainRule, f[n - 1], n) ELSE f[n - 1]]
<1>1. \A x, n : Turn(TriggerChainRule, x, n) = TriggerChainRule(x, n)
  BY DEF Turn
<1>2. InTurn(TriggerChainRule, h, ids) = after[h.created]
  BY DEF InTurn
<1>3. G \in [S \X Nat -> S]
  <2>1. ASSUME NEW x \in S, NEW n \in Nat PROVE (IF n \in ids THEN TriggerChainRule(x, n) ELSE x) \in S
    <3>1. n \in Int
      OBVIOUS
    <3> QED BY <3>1
  <2> QED BY <2>1
<1>4. \A x \in S : \A n \in Nat :
        G[<<x, n>>] = IF n \in ids THEN Turn(TriggerChainRule, x, n) ELSE x
  BY <1>1
<1> HIDE DEF G, after
<1>5. PICK f \in [Nat -> S] : Repeats(f, h, G)
  BY <1>3, GfRuns
<1>6. f = [n \in Nat |-> IF n = 0 THEN h
                        ELSE IF n \in ids THEN Turn(TriggerChainRule, f[n - 1], n) ELSE f[n - 1]]
  <2>1. ASSUME NEW n \in Nat
        PROVE  f[n] = IF n = 0 THEN h
                      ELSE IF n \in ids THEN Turn(TriggerChainRule, f[n - 1], n) ELSE f[n - 1]
    <3>1. f[n] = IF n = 0 THEN h ELSE G[<<f[n - 1], n>>]
      BY <1>5 DEF Repeats
    <3>2. n # 0 => n - 1 \in Nat /\ f[n - 1] \in S
      OBVIOUS
    <3> QED BY <1>4, <3>1, <3>2
  <2> QED BY <2>1
<1>7. after = [n \in Nat |-> IF n = 0 THEN h
                            ELSE IF n \in ids THEN Turn(TriggerChainRule, after[n - 1], n) ELSE after[n - 1]]
  BY <1>6 DEF after

<1> DEFINE T == {n \in Nat : after[n] \in S}
<1>8. 0 \in T
  <2>1. after[0] = h
    BY <1>7
  <2> QED BY <2>1
<1>9. ASSUME NEW n \in Nat, n \in T PROVE n + 1 \in T
  <2>1. n + 1 \in Nat /\ n + 1 # 0 /\ n + 1 - 1 = n /\ after[n] \in S /\ (n + 1) \in Int
    BY <1>9
  <2>2. after[n + 1] = IF (n + 1) \in ids THEN Turn(TriggerChainRule, after[n], (n + 1)) ELSE after[n]
    BY <1>7, <2>1
  <2> QED BY <1>1, <2>1, <2>2
<1>10. Nat \subseteq T
  <2> HIDE DEF T
  <2> QED BY <1>8, <1>9, GfInduct
<1> QED BY <1>2, <1>10

\* and enemies at the goal.
LEMMA GfArrives ==
  ASSUME NEW S, NEW h \in S, h.created \in Nat, NEW ids,
         \A x \in S : \A n \in ids \cap Int : ReachOrigin(x, n) \in S
  PROVE  InReverse(ReachOrigin, h, ids) \in S
<1> DEFINE G == [p \in S \X Nat |-> IF (h.created + 1 - p[2]) \in ids THEN ReachOrigin(p[1], (h.created + 1 - p[2])) ELSE p[1]]
           after == CHOOSE f : f = [n \in Nat |-> IF n = 0 THEN h
                                     ELSE IF (h.created + 1 - n) \in ids THEN Turn(ReachOrigin, f[n - 1], (h.created + 1 - n)) ELSE f[n - 1]]
<1>1. \A x, n : Turn(ReachOrigin, x, n) = ReachOrigin(x, n)
  BY DEF Turn
<1>2. InReverse(ReachOrigin, h, ids) = after[h.created]
  BY DEF InReverse
<1>3. G \in [S \X Nat -> S]
  <2>1. ASSUME NEW x \in S, NEW n \in Nat PROVE (IF (h.created + 1 - n) \in ids THEN ReachOrigin(x, (h.created + 1 - n)) ELSE x) \in S
    <3>1. (h.created + 1 - n) \in Int
      OBVIOUS
    <3> QED BY <3>1
  <2> QED BY <2>1
<1>4. \A x \in S : \A n \in Nat :
        G[<<x, n>>] = IF (h.created + 1 - n) \in ids THEN Turn(ReachOrigin, x, (h.created + 1 - n)) ELSE x
  BY <1>1
<1> HIDE DEF G, after
<1>5. PICK f \in [Nat -> S] : Repeats(f, h, G)
  BY <1>3, GfRuns
<1>6. f = [n \in Nat |-> IF n = 0 THEN h
                        ELSE IF (h.created + 1 - n) \in ids THEN Turn(ReachOrigin, f[n - 1], (h.created + 1 - n)) ELSE f[n - 1]]
  <2>1. ASSUME NEW n \in Nat
        PROVE  f[n] = IF n = 0 THEN h
                      ELSE IF (h.created + 1 - n) \in ids THEN Turn(ReachOrigin, f[n - 1], (h.created + 1 - n)) ELSE f[n - 1]
    <3>1. f[n] = IF n = 0 THEN h ELSE G[<<f[n - 1], n>>]
      BY <1>5 DEF Repeats
    <3>2. n # 0 => n - 1 \in Nat /\ f[n - 1] \in S
      OBVIOUS
    <3> QED BY <1>4, <3>1, <3>2
  <2> QED BY <2>1
<1>7. after = [n \in Nat |-> IF n = 0 THEN h
                            ELSE IF (h.created + 1 - n) \in ids THEN Turn(ReachOrigin, after[n - 1], (h.created + 1 - n)) ELSE after[n - 1]]
  BY <1>6 DEF after

<1> DEFINE T == {n \in Nat : after[n] \in S}
<1>8. 0 \in T
  <2>1. after[0] = h
    BY <1>7
  <2> QED BY <2>1
<1>9. ASSUME NEW n \in Nat, n \in T PROVE n + 1 \in T
  <2>1. n + 1 \in Nat /\ n + 1 # 0 /\ n + 1 - 1 = n /\ after[n] \in S /\ (h.created + 1 - (n + 1)) \in Int
    BY <1>9
  <2>2. after[n + 1] = IF (h.created + 1 - (n + 1)) \in ids THEN Turn(ReachOrigin, after[n], (h.created + 1 - (n + 1))) ELSE after[n]
    BY <1>7, <2>1
  <2> QED BY <1>1, <2>1, <2>2
<1>10. Nat \subseteq T
  <2> HIDE DEF T
  <2> QED BY <1>8, <1>9, GfInduct
<1> QED BY <1>2, <1>10

(***************************************************************************)
(* Enemies                                                                 *)
(***************************************************************************)
\* Nothing of the run changes but its enemies and what they are worth.
SameRun(h, k) ==
  /\ k.phase = h.phase /\ k.wave = h.wave /\ k.hp = h.hp /\ k.queue = h.queue
  /\ k.question = h.question /\ k.door = h.door /\ k.levelEnds = h.levelEnds
  /\ k.time = h.time /\ k.prep = h.prep /\ k.pause = h.pause /\ k.excluded = h.excluded
  /\ k.inWave = h.inWave /\ k.late = h.late /\ k.opening = h.opening

SameFoes(h, k) == k.foes = h.foes /\ k.created = h.created /\ k.removed = h.removed

LEMMA GfKinds ==
  \A kind \in DOMAIN Kinds : /\ Kinds[kind].hp \in Nat \ {0} /\ Kinds[kind].togo \in Int
                             /\ Kinds[kind].kill \in Nat /\ Kinds[kind].bite \in Nat \ {0}
<1> QED BY DEF Kinds

LEMMA GfKindNames == {"GENERAL", "FAST", "STRONG", "SPLIT", "BOSS_B"} = DOMAIN Kinds
<1> QED BY DEF Kinds

LEMMA GfFields ==
  ASSUME NEW h \in RunState
  PROVE  /\ h.phase \in Phases /\ h.wave \in Nat /\ h.hp \in Nat /\ h.killValue \in Nat
         /\ h.queue \in Seq(DOMAIN Kinds) /\ h.foes \in SUBSET FoeOf /\ h.question \in FoeOf \cup {NoFoe}
         /\ h.minions \in Nat /\ h.next \in Nat \ {0} /\ h.pending \in BOOLEAN /\ h.door \in DoorOf
         /\ h.time \in Nat /\ h.prep \in Nat /\ h.pause \in Nat /\ h.excluded \in Int
         /\ h.credit \in Int /\ h.speed \in Nat /\ h.idle \in Nat /\ h.created \in Nat /\ h.removed \in Nat
         /\ h.inWave \in Nat /\ h.late \in Nat /\ h.opening \in Nat /\ h.levelEnds \in Nat
<1> QED BY DEF RunState

LEMMA GfSpawn ==
  ASSUME NEW h \in RunState, FoesOk(h), NEW kind \in DOMAIN Kinds, NEW togo \in Int, NEW depth \in Nat
  PROVE  LET k == Spawn(h, kind, togo, depth)
         IN  k \in RunState /\ FoesOk(k) /\ SameRun(h, k) /\ Ids(h) \subseteq Ids(k)
<1> DEFINE f == [id |-> h.created + 1, kind |-> kind, hp |-> Kinds[kind].hp, togo |-> togo,
                 depth |-> depth, asked |-> FALSE]
           k == [h EXCEPT !.created = @ + 1, !.foes = @ \cup {f}]
<1>1. Spawn(h, kind, togo, depth) = k
  BY DEF Spawn
<1>2. f \in FoeOf /\ f.id = h.created + 1
  BY GfFields, GfKinds DEF FoeOf
<1> HIDE DEF f
<1>3. k \in RunState
  <2>1. h.created + 1 \in Nat /\ h.foes \cup {f} \in SUBSET FoeOf
    BY <1>2, GfFields
  <2> QED BY <2>1 DEF RunState
<1>4. SameRun(h, k) /\ k.created = h.created + 1 /\ k.removed = h.removed /\ k.foes = h.foes \cup {f}
  BY GfFields DEF SameRun, RunState
<1> HIDE DEF k
<1>5. FoesOk(k)
  <2>1. h.created \in Nat /\ h.removed \in Nat /\ \A e \in h.foes : e.id \in Nat /\ e.id <= h.created
    BY GfFields DEF FoesOk, FoeOf
  <2>2. f \notin h.foes
    BY <1>2, <2>1
  <2>3. IsFiniteSet(h.foes \cup {f}) /\ Cardinality(h.foes \cup {f}) = Cardinality(h.foes) + 1 /\ Cardinality(h.foes) \in Nat
    BY <2>2, FS_AddElement, FS_CardinalityType DEF FoesOk
  <2>4. \A e \in h.foes : e.id # f.id
    BY <1>2, <2>1
  <2>5. k.created = k.removed + Cardinality(k.foes)
    BY <1>4, <2>1, <2>3 DEF FoesOk
  <2>6. \A d, e \in k.foes : d.id = e.id => d = e
    BY <1>4, <2>4 DEF FoesOk
  <2>7. \A e \in k.foes : e.id <= k.created
    BY <1>2, <1>4, <2>1
  <2> QED BY <1>4, <2>3, <2>5, <2>6, <2>7 DEF FoesOk
<1> QED BY <1>1, <1>3, <1>4, <1>5 DEF Ids

\* The enemy with an id is the one on the board.
LEMMA GfFoe ==
  ASSUME NEW h \in RunState, NEW id \in Ids(h)
  PROVE  Foe(h, id) \in h.foes /\ Foe(h, id).id = id /\ Foe(h, id) \in FoeOf
<1>1. \E f \in h.foes : f.id = id
  BY DEF Ids
<1>2. Foe(h, id) \in h.foes /\ Foe(h, id).id = id
  BY <1>1 DEF Foe
<1> QED BY <1>2, GfFields

LEMMA GfBury ==
  ASSUME NEW h \in RunState, FoesOk(h), NEW f, f.id \in Ids(h)
  PROVE  LET k == Bury(h, f) IN k \in RunState /\ FoesOk(k) /\ SameRun(h, k)
<1> DEFINE left == {e \in h.foes : e.id # f.id}
           k == [h EXCEPT !.foes = left, !.removed = @ + 1]
<1>1. Bury(h, f) = k
  BY DEF Bury
<1>2. PICK d \in h.foes : d.id = f.id
  BY DEF Ids
<1>3. left = h.foes \ {d}
  BY <1>2 DEF FoesOk
<1>4. IsFiniteSet(left) /\ Cardinality(left) = Cardinality(h.foes) - 1 /\ Cardinality(h.foes) \in Nat
  BY <1>2, <1>3, FS_RemoveElement, FS_CardinalityType DEF FoesOk
<1>5. left \subseteq h.foes
  OBVIOUS
<1> HIDE DEF left
<1>6. k \in RunState
  <2>1. h.removed + 1 \in Nat /\ left \in SUBSET FoeOf
    BY <1>5, GfFields
  <2> QED BY <2>1 DEF RunState
<1>7. SameRun(h, k) /\ k.created = h.created /\ k.removed = h.removed + 1 /\ k.foes = left
  BY GfFields DEF SameRun, RunState
<1> HIDE DEF k
<1>8. k.created = k.removed + Cardinality(k.foes)
  <2>1. h.created = h.removed + Cardinality(h.foes) /\ h.removed \in Nat
    BY GfFields DEF FoesOk
  <2> HIDE DEF Bury
  <2> QED BY <1>4, <1>7, <2>1
<1>9. FoesOk(k)
  BY <1>4, <1>5, <1>7, <1>8 DEF FoesOk
<1> QED BY <1>1, <1>6, <1>7, <1>9

\* An enemy whose fields change stays the same enemy.
LEMMA GfSwap ==
  ASSUME NEW h \in RunState, FoesOk(h), NEW f \in h.foes, NEW e \in FoeOf, e.id = f.id
  PROVE  LET k == [h EXCEPT !.foes = (@ \ {f}) \cup {e}]
         IN  k \in RunState /\ FoesOk(k) /\ SameRun(h, k) /\ Ids(k) = Ids(h) /\ k.foes = (h.foes \ {f}) \cup {e}
<1> DEFINE new == (h.foes \ {f}) \cup {e}
           k == [h EXCEPT !.foes = new]
<1>1. e \notin h.foes \ {f}
  BY DEF FoesOk
<1>2. IsFiniteSet(h.foes \ {f}) /\ Cardinality(h.foes \ {f}) = Cardinality(h.foes) - 1 /\ Cardinality(h.foes) \in Nat
  BY FS_RemoveElement, FS_CardinalityType DEF FoesOk
<1>3. IsFiniteSet(new) /\ Cardinality(new) = Cardinality(h.foes \ {f}) + 1
  BY <1>1, <1>2, FS_AddElement
<1>4. new \subseteq FoeOf
  BY GfFields
<1>5. \A d, c \in new : d.id = c.id => d = c
  BY DEF FoesOk
<1>6. \A d \in new : d.id <= h.created
  BY DEF FoesOk
<1>7. {d.id : d \in new} = Ids(h)
  <2>1. ASSUME NEW i \in Ids(h) PROVE i \in {d.id : d \in new}
    <3>1. PICK d \in h.foes : d.id = i
      BY DEF Ids
    <3>2. CASE d = f
      BY <3>1, <3>2
    <3>3. CASE d # f
      BY <3>1, <3>3
    <3> QED BY <3>2, <3>3
  <2>2. ASSUME NEW d \in new PROVE d.id \in Ids(h)
    BY DEF Ids
  <2> HIDE DEF new
  <2> QED BY <2>1, <2>2
<1> HIDE DEF new
<1>8. k \in RunState
  BY <1>4 DEF RunState
<1>9. SameRun(h, k) /\ k.created = h.created /\ k.removed = h.removed /\ k.foes = new
  BY GfFields DEF SameRun, RunState
<1>10. [h EXCEPT !.foes = (@ \ {f}) \cup {e}] = k
  BY DEF new
<1> HIDE DEF k
<1>11. k.created = k.removed + Cardinality(k.foes)
  BY <1>2, <1>3, <1>9, GfFields DEF FoesOk
<1>12. FoesOk(k)
  BY <1>3, <1>5, <1>6, <1>9, <1>11 DEF FoesOk
<1> QED BY <1>7, <1>8, <1>9, <1>10, <1>12 DEF Ids, new

(***************************************************************************)
(* Kills                                                                   *)
(***************************************************************************)
\* What a hit may leave behind: sound enemies, and the run as it was.
Kept(h, k) == k \in RunState /\ FoesOk(k) /\ SameRun(h, k)

LEMMA GfKeptOn == ASSUME NEW h, NEW k, NEW m, Kept(h, k), Kept(k, m) PROVE Kept(h, m)
<1> QED BY DEF Kept, SameRun

LEMMA GfKeptSpawn ==
  ASSUME NEW h, NEW k, Kept(h, k), NEW kind \in DOMAIN Kinds, NEW togo \in Int, NEW depth \in Nat
  PROVE  Kept(h, Spawn(k, kind, togo, depth)) /\ Ids(k) \subseteq Ids(Spawn(k, kind, togo, depth))
<1> DEFINE m == Spawn(k, kind, togo, depth)
<1>1. k \in RunState /\ FoesOk(k)
  BY DEF Kept
<1>2. m \in RunState /\ FoesOk(m) /\ SameRun(k, m) /\ Ids(k) \subseteq Ids(m)
  BY <1>1, GfSpawn
<1> HIDE DEF m
<1>3. Kept(k, m)
  BY <1>2 DEF Kept
<1> QED BY <1>2, <1>3, GfKeptOn DEF m

LEMMA GfSplitBoss ==
  ASSUME NEW h, NEW k, Kept(h, k), NEW f \in FoeOf
  PROVE  Kept(h, SplitBoss(k, f)) /\ Ids(k) \subseteq Ids(SplitBoss(k, f))
<1> DEFINE one == Spawn(k, "STRONG", f.togo, 0)
           two == Spawn(one, "FAST", f.togo, 0)
<1>1. f.togo \in Int /\ {"STRONG", "FAST"} \subseteq DOMAIN Kinds /\ 0 \in Nat
  BY GfKindNames DEF FoeOf
<1>2. Kept(h, one) /\ Ids(k) \subseteq Ids(one)
  BY <1>1, GfKeptSpawn
<1>3. SplitBoss(k, f) = two
  BY DEF SplitBoss
<1> HIDE DEF one
<1>4. Kept(h, two) /\ Ids(one) \subseteq Ids(two)
  BY <1>1, <1>2, GfKeptSpawn
<1> HIDE DEF two
<1> QED BY <1>2, <1>3, <1>4

LEMMA GfSpawnChildren ==
  ASSUME NEW h, NEW k, Kept(h, k), NEW f \in FoeOf
  PROVE  Kept(h, SpawnChildren(k, f))
<1> DEFINE one == Spawn(k, "GENERAL", f.togo, f.depth + 1)
           two == Spawn(one, "GENERAL", f.togo, f.depth + 1)
<1>1. f.togo \in Int /\ "GENERAL" \in DOMAIN Kinds /\ f.depth + 1 \in Nat
  BY GfKindNames DEF FoeOf
<1>2. Kept(h, one)
  BY <1>1, GfKeptSpawn
<1>3. SpawnChildren(k, f) = two
  BY DEF SpawnChildren
<1> HIDE DEF one
<1>4. Kept(h, two)
  BY <1>1, <1>2, GfKeptSpawn
<1> HIDE DEF two
<1> QED BY <1>3, <1>4

LEMMA GfAddKillValue ==
  ASSUME NEW h, NEW k, Kept(h, k), NEW v \in Nat
  PROVE  Kept(h, AddKillValue(k, v))
<1> DEFINE due == k.pending \/ (k.next <= Len(Thresholds) /\ k.killValue + v >= Thresholds[k.next].kill)
           sum == k.killValue + v
           m == [k EXCEPT !.killValue = sum, !.pending = due]
<1>1. AddKillValue(k, v) = m
  BY DEF AddKillValue
<1>2. k \in RunState /\ FoesOk(k)
  BY DEF Kept
<1>3. due \in BOOLEAN /\ sum \in Nat
  BY <1>2, GfFields
<1> HIDE DEF due, sum
<1>4. m \in RunState
  BY <1>2, <1>3 DEF RunState
<1>5. SameRun(k, m) /\ m.foes = k.foes /\ m.created = k.created /\ m.removed = k.removed
  BY <1>2 DEF SameRun, RunState
<1> HIDE DEF m
<1>6. Kept(k, m)
  BY <1>2, <1>4, <1>5 DEF Kept, FoesOk
<1> QED BY <1>1, <1>6, GfKeptOn

LEMMA GfKillEnemy ==
  ASSUME NEW h, NEW k, Kept(h, k), NEW f \in FoeOf, f.id \in Ids(k), NEW answered \in BOOLEAN
  PROVE  Kept(h, KillEnemy(k, f, answered))
<1> DEFINE gone == Bury(k, f)
           dead == AddKillValue(gone, Kinds[f.kind].kill)
           own  == IF f.kind = "BOSS_B" /\ ~answered THEN SplitBoss(dead, f) ELSE dead
<1>1. k \in RunState /\ FoesOk(k) /\ Kinds[f.kind].kill \in Nat
  BY GfKinds DEF Kept, FoeOf
<1>2. Kept(k, gone)
  BY <1>1, GfBury DEF Kept
<1>3. KillEnemy(k, f, answered) = IF ShouldSplit(f) THEN SpawnChildren(own, f) ELSE own
  BY DEF KillEnemy
<1> HIDE DEF gone
<1>4. Kept(h, gone)
  BY <1>2, GfKeptOn
<1>5. Kept(h, dead)
  BY <1>1, <1>4, GfAddKillValue
<1> HIDE DEF dead
<1>6. Kept(h, own)
  <2>1. Kept(h, SplitBoss(dead, f))
    BY <1>5, GfSplitBoss
  <2> QED BY <1>5, <2>1
<1> HIDE DEF own
<1>7. Kept(h, SpawnChildren(own, f))
  BY <1>6, GfSpawnChildren
<1> QED BY <1>3, <1>6, <1>7

LEMMA GfApplyDamage ==
  ASSUME NEW h, NEW k, Kept(h, k), NEW id
  PROVE  Kept(h, ApplyDamage(k, id))
<1>1. k \in RunState /\ FoesOk(k)
  BY DEF Kept
<1>2. CASE id \notin Ids(k)
  BY <1>2 DEF ApplyDamage
<1>3. CASE id \in Ids(k)
  <2> DEFINE f == Foe(k, id)
             e == [f EXCEPT !.hp = @ - 1]
             hurt == [k EXCEPT !.foes = (@ \ {f}) \cup {e}]
  <2>1. f \in k.foes /\ f.id = id /\ f \in FoeOf
    BY <1>1, <1>3, GfFoe
  <2>2. ApplyDamage(k, id) = IF f.hp = 1 THEN KillEnemy(k, f, FALSE) ELSE hurt
    BY <1>3 DEF ApplyDamage
  <2> HIDE DEF f
  <2>3. Kept(h, KillEnemy(k, f, FALSE))
    BY <1>3, <2>1, GfKillEnemy
  <2>4. ASSUME f.hp # 1 PROVE Kept(h, hurt)
    <3>1. e \in FoeOf /\ e.id = f.id
      BY <2>1, <2>4 DEF FoeOf
    <3> HIDE DEF e
    <3>2. hurt \in RunState /\ FoesOk(hurt) /\ SameRun(k, hurt)
      BY <1>1, <2>1, <3>1, GfSwap
    <3> HIDE DEF hurt
    <3>3. Kept(k, hurt)
      BY <3>2 DEF Kept
    <3> QED BY <3>3, GfKeptOn
  <2> HIDE DEF hurt
  <2> QED BY <2>2, <2>3, <2>4
<1> QED BY <1>2, <1>3

\* A run whose enemies stay sound is as sound as it was.
LEMMA GfStillOk ==
  ASSUME NEW h, NEW k, RunOk(h), Kept(h, k), h.phase # "CHAIN_RULE" \/ Ids(h) \subseteq Ids(k)
  PROVE  RunOk(k)
<1>1. VerdictOk(k) /\ ClockOk(k)
  BY DEF RunOk, Kept, SameRun, VerdictOk, ClockOk, Away
<1>2. PhaseOk(k)
  BY DEF RunOk, Kept, SameRun, PhaseOk
<1> QED BY <1>1, <1>2 DEF RunOk, Kept

LEMMA GfStrike ==
  ASSUME NEW h \in RunState, RunOk(h), NEW ids
  PROVE  /\ Kept(h, Strike(h, ids)) /\ RunOk(Strike(h, ids))
         /\ h.foes = {} => Strike(h, ids).foes = {}
<1>1. Kept(h, h) /\ h.created \in Nat
  BY GfFields DEF Kept, RunOk, SameRun
<1>2. CASE h.phase # "WAVE"
  BY <1>1, <1>2 DEF Strike
<1>3. CASE h.phase = "WAVE"
  <2> DEFINE S == {x \in RunState : Kept(h, x) /\ (h.foes = {} => x.foes = {})}
             k == InTurn(ApplyDamage, h, ids)
  <2>1. h \in S
    BY <1>1
  <2>2. ASSUME NEW x \in S, NEW n \in ids \cap Int PROVE ApplyDamage(x, n) \in S
    <3>1. Kept(h, ApplyDamage(x, n))
      BY <2>2, GfApplyDamage
    <3>2. x.foes = {} => ApplyDamage(x, n) = x
      BY DEF ApplyDamage, Ids
    <3> QED BY <3>1, <3>2 DEF Kept
  <2>3. k \in S
    <3> HIDE DEF S
    <3> QED BY <1>1, <2>1, <2>2, GfStrikes
  <2>4. Strike(h, ids) = k
    BY <1>3 DEF Strike
  <2> HIDE DEF k
  <2>5. Kept(h, k) /\ (h.foes = {} => k.foes = {})
    BY <2>3
  <2>6. RunOk(k)
    BY <1>3, <2>5, GfStillOk
  <2> QED BY <2>4, <2>5, <2>6
<1> QED BY <1>2, <1>3

(***************************************************************************)
(* Phases and the clock                                                    *)
(***************************************************************************)
\* All that a change of phase leaves alone.
SameRest(h, k) ==
  /\ SameFoes(h, k) /\ k.wave = h.wave /\ k.hp = h.hp /\ k.queue = h.queue
  /\ k.question = h.question /\ k.door = h.door /\ k.levelEnds = h.levelEnds
  /\ k.time = h.time /\ k.inWave = h.inWave /\ k.late = h.late /\ k.opening = h.opening

PrepAfter(h, to)  == IF to = "BUILD" /\ h.wave > 0 THEN h.time ELSE h.prep
PauseAfter(h, to) == IF to \in Pauses THEN h.time ELSE IF h.phase \in Pauses THEN 0 ELSE h.pause
ExcludedAfter(h, to) ==
  h.excluded + (IF h.phase = "BUILD" /\ PrepAfter(h, to) > 0 THEN h.time - PrepAfter(h, to) ELSE 0)
             + (IF h.phase \in Pauses /\ h.pause > 0 THEN h.time - h.pause ELSE 0)

LEMMA GfGo ==
  ASSUME NEW h \in RunState, NEW to \in Phases, CanTransition(h.phase, to)
  PROVE  LET k == Go(h, to)
         IN  /\ k \in RunState /\ SameRest(h, k) /\ k.phase = to
             /\ k.prep = (IF h.phase = "BUILD" THEN 0 ELSE PrepAfter(h, to))
             /\ k.pause = PauseAfter(h, to) /\ k.excluded = ExcludedAfter(h, to)
<1> DEFINE prep  == IF h.phase = "BUILD" THEN 0 ELSE PrepAfter(h, to)
           pause == PauseAfter(h, to)
           excl  == ExcludedAfter(h, to)
           m     == [SetPhase(h, to) EXCEPT !.idle = 0]
           k     == [m EXCEPT !.prep = prep, !.pause = pause, !.excluded = excl]
<1>1. m = [[h EXCEPT !.phase = to] EXCEPT !.idle = 0]
  BY DEF SetPhase
<1>2. m \in RunState
  BY <1>1 DEF RunState
<1>3. /\ m.phase = to /\ m.prep = h.prep /\ m.pause = h.pause /\ m.excluded = h.excluded
      /\ SameRest(h, m)
  BY <1>1 DEF RunState, SameRest, SameFoes
<1> HIDE DEF m
<1>4. Go(h, to) = ExcludeIntervals(m, h.phase, to)
  BY DEF Go, m
<1>5. m.time = h.time /\ m.wave = h.wave
  BY <1>3 DEF SameRest
<1>6. ExcludeIntervals(m, h.phase, to) = k
  BY <1>3, <1>5 DEF ExcludeIntervals, PrepAfter, PauseAfter, ExcludedAfter
<1>7. prep \in Nat /\ pause \in Nat /\ excl \in Int
  BY GfFields DEF PrepAfter, PauseAfter, ExcludedAfter
<1>8. /\ k \in RunState
      /\ k.phase = to /\ k.prep = prep /\ k.pause = pause /\ k.excluded = excl
      /\ SameRest(h, k)
  <2> HIDE DEF prep, pause, excl
  <2>1. k \in RunState
    BY <1>2, <1>7 DEF RunState
  <2>2. /\ k.phase = m.phase /\ k.prep = prep /\ k.pause = pause /\ k.excluded = excl
        /\ SameRest(m, k)
    BY <1>2 DEF RunState, SameRest, SameFoes
  <2> HIDE DEF k
  <2>3. SameRest(h, k)
    BY <1>3, <2>2 DEF SameRest, SameFoes
  <2> QED BY <1>3, <2>1, <2>2, <2>3
<1> HIDE DEF k
<1> QED BY <1>4, <1>6, <1>8

LEMMA GfPhases ==
  /\ Phases = {"MENU", "LEVEL_SELECT", "BUILD", "WAVE", "MONTY_HALL", "CHAIN_RULE", "LEVEL_END", "GAME_OVER"}
  /\ \A to : CanTransition("WAVE", to) <=> to \in {"MONTY_HALL", "BUILD", "LEVEL_END", "GAME_OVER", "CHAIN_RULE"}
  /\ \A to : CanTransition("BUILD", to) <=> to \in {"WAVE", "GAME_OVER", "MENU"}
  /\ \A to : CanTransition("MONTY_HALL", to) <=> to \in {"BUILD", "GAME_OVER"}
  /\ \A to : CanTransition("CHAIN_RULE", to) <=> to \in {"WAVE", "GAME_OVER"}
  /\ \A to : CanTransition("MENU", to) <=> to \in {"LEVEL_SELECT", "BUILD"}
  /\ ~CanTransition("GAME_OVER", "GAME_OVER")
<1> QED BY DEF Phases, CanTransition, AllowedTransitions

\* A phase left in the middle of a run closes its interval and opens the next one's.
LEMMA GfGoClock ==
  ASSUME NEW h \in RunState, ClockOk(h), h.inWave > 0, h.wave > 0, NEW to,
         \/ h.phase = "WAVE" /\ to \in {"MONTY_HALL", "BUILD", "LEVEL_END", "GAME_OVER", "CHAIN_RULE"}
         \/ h.phase = "CHAIN_RULE" /\ to = "WAVE"
         \/ h.phase = "MONTY_HALL" /\ to = "BUILD"
         \/ h.phase = "BUILD" /\ to = "WAVE"
  PROVE  ClockOk(Go(h, to)) /\ Go(h, to) \in RunState /\ SameRest(h, Go(h, to)) /\ Go(h, to).phase = to
<1> DEFINE k == Go(h, to)
<1>1. to \in Phases /\ CanTransition(h.phase, to)
  BY GfPhases
<1>2. /\ k \in RunState /\ SameRest(h, k) /\ k.phase = to
      /\ k.prep = (IF h.phase = "BUILD" THEN 0 ELSE PrepAfter(h, to))
      /\ k.pause = PauseAfter(h, to) /\ k.excluded = ExcludedAfter(h, to)
  BY <1>1, GfGo
<1> HIDE DEF k
<1>3. /\ h.time \in Nat /\ h.prep \in Nat /\ h.pause \in Nat /\ h.excluded \in Int
      /\ h.inWave \in Nat /\ h.late \in Nat /\ h.opening \in Nat /\ h.wave \in Nat
  BY GfFields
<1>4. k.inWave = h.inWave /\ k.time = h.time /\ \A t : Away(k, t) = Away(h, t)
  BY <1>2 DEF SameRest, Away
<1>5. h.time > 0 /\ k.inWave > 0 /\ k.inWave # 0
  BY <1>3, <1>4 DEF ClockOk
<1>6. ASSUME h.phase = "WAVE" PROVE ClockOk(k)
  <2>1. h.prep = 0 /\ h.pause = 0 /\ h.excluded = Away(h, h.time)
    BY <1>6 DEF ClockOk
  <2>2. /\ k.prep = IF to = "BUILD" THEN h.time ELSE 0
        /\ k.pause = IF to \in Pauses THEN h.time ELSE 0
        /\ k.excluded = h.excluded
    BY <1>2, <1>3, <1>6, <2>1 DEF Pauses, PrepAfter, PauseAfter, ExcludedAfter
  <2> QED BY <1>2, <1>4, <1>5, <1>6, <2>1, <2>2 DEF ClockOk, Pauses
<1>7. ASSUME h.phase = "CHAIN_RULE" /\ to = "WAVE" PROVE ClockOk(k)
  <2>1. h.prep = 0 /\ h.pause > 0 /\ h.excluded = Away(h, h.pause)
    BY <1>7 DEF ClockOk, Pauses
  <2>2. k.prep = 0 /\ k.pause = 0 /\ k.excluded = h.excluded + (h.time - h.pause)
    BY <1>2, <1>3, <1>7, <2>1 DEF Pauses, PrepAfter, PauseAfter, ExcludedAfter
  <2>3. Away(h, h.time) = Away(h, h.pause) + (h.time - h.pause)
    BY <1>3 DEF Away
  <2> QED BY <1>2, <1>4, <1>5, <1>7, <2>1, <2>2, <2>3 DEF ClockOk, Pauses
<1>8. ASSUME h.phase = "MONTY_HALL" /\ to = "BUILD" PROVE ClockOk(k)
  <2>1. h.prep = 0 /\ h.pause > 0 /\ h.excluded = Away(h, h.pause)
    BY <1>8 DEF ClockOk, Pauses
  <2>2. k.prep = h.time /\ k.pause = 0 /\ k.excluded = h.excluded + (h.time - h.pause)
    BY <1>2, <1>3, <1>8, <2>1 DEF Pauses, PrepAfter, PauseAfter, ExcludedAfter
  <2>3. Away(h, h.time) = Away(h, h.pause) + (h.time - h.pause)
    BY <1>3 DEF Away
  <2> QED BY <1>2, <1>4, <1>5, <1>8, <2>1, <2>2, <2>3 DEF ClockOk, Pauses
<1>9. ASSUME h.phase = "BUILD" /\ to = "WAVE" PROVE ClockOk(k)
  <2>1. h.prep > 0 /\ h.pause = 0 /\ h.excluded = Away(h, h.prep)
    BY <1>9 DEF ClockOk
  <2>2. k.prep = 0 /\ k.pause = 0 /\ k.excluded = h.excluded + (h.time - h.prep)
    BY <1>2, <1>3, <1>9, <2>1 DEF Pauses, PrepAfter, PauseAfter, ExcludedAfter
  <2>3. Away(h, h.time) = Away(h, h.prep) + (h.time - h.prep)
    BY <1>3 DEF Away
  <2> QED BY <1>2, <1>4, <1>5, <1>9, <2>1, <2>2, <2>3 DEF ClockOk, Pauses
<1>10. ClockOk(k)
  BY <1>6, <1>7, <1>8, <1>9
<1> QED BY <1>2, <1>10 DEF k

(***************************************************************************)
(* The systems of a frame                                                  *)
(***************************************************************************)
LEMMA GfLens == Len(Waves) \in Nat /\ \A i \in 1 .. Len(Waves) : Waves[i] \in Seq(DOMAIN Kinds) \ {<<>>}
<1> QED BY GameFlowAssumption

LEMMA GfAsk ==
  ASSUME NEW h \in RunState, RunOk(h), h.phase \in {"WAVE", "CHAIN_RULE"}, h.inWave > 0, NEW id
  PROVE  LET k == TriggerChainRule(h, id)
         IN  k \in RunState /\ RunOk(k) /\ k.phase \in {"WAVE", "CHAIN_RULE"} /\ k.inWave > 0
<1> DEFINE k == TriggerChainRule(h, id)
<1>1. CASE id \notin Ids(h)
  BY <1>1 DEF TriggerChainRule
<1>2. CASE id \in Ids(h)
  <2> DEFINE f == Foe(h, id)
             e == [f EXCEPT !.asked = TRUE]
             b == [h EXCEPT !.foes = (@ \ {f}) \cup {e}]
             a == [b EXCEPT !.question = f]
  <2>1. f \in h.foes /\ f.id = id /\ f \in FoeOf
    BY <1>2, GfFoe
  <2>2. k = Go(a, "CHAIN_RULE")
    BY <1>2 DEF TriggerChainRule
  <2> HIDE DEF f
  <2>3. e \in FoeOf /\ e.id = f.id
    BY <2>1 DEF FoeOf
  <2> HIDE DEF e
  <2>4. b \in RunState /\ FoesOk(b) /\ SameRun(h, b) /\ Ids(b) = Ids(h)
    BY <2>1, <2>3, GfSwap DEF RunOk
  <2> HIDE DEF b
  <2>5. a \in RunState
    BY <2>1, <2>4 DEF RunState
  <2>6. /\ SameFoes(b, a) /\ a.question = f /\ a.phase = h.phase /\ a.wave = h.wave /\ a.hp = h.hp
        /\ a.door = h.door /\ a.levelEnds = h.levelEnds /\ a.time = h.time /\ a.prep = h.prep
        /\ a.pause = h.pause /\ a.excluded = h.excluded /\ a.inWave = h.inWave /\ a.late = h.late
        /\ a.opening = h.opening
    BY <2>4 DEF RunState, SameRun, SameFoes
  <2> HIDE DEF a
  <2>7. FoesOk(a) /\ Ids(a) = Ids(h)
    BY <2>4, <2>6 DEF FoesOk, SameFoes, Ids
  <2>8. ClockOk(a) /\ VerdictOk(a)
    BY <2>6 DEF RunOk, ClockOk, VerdictOk, Away
  <2>9. h.wave > 0 /\ h.levelEnds = 0 /\ h.hp # 0 /\ h.door = NoDoor
    BY DEF RunOk, PhaseOk, VerdictOk
  <2>10. CASE h.phase = "WAVE"
    <3>1. ClockOk(k) /\ k \in RunState /\ SameRest(a, k) /\ k.phase = "CHAIN_RULE"
      BY <2>2, <2>5, <2>6, <2>8, <2>9, <2>10, GfGoClock
    <3> HIDE DEF k
    <3>2. FoesOk(k) /\ Ids(k) = Ids(h)
      BY <2>7, <3>1 DEF SameRest, SameFoes, FoesOk, Ids
    <3>3. VerdictOk(k) /\ PhaseOk(k)
      BY <1>2, <2>1, <2>6, <2>9, <3>1, <3>2 DEF SameRest, VerdictOk, PhaseOk
    <3> QED BY <2>6, <3>1, <3>2, <3>3 DEF RunOk, SameRest, k
  <2>11. CASE h.phase = "CHAIN_RULE"
    <3>1. k = a
      BY <2>2, <2>6, <2>11, GfPhases DEF Go
    <3> HIDE DEF k
    <3>2. PhaseOk(a)
      BY <1>2, <2>1, <2>6, <2>7, <2>9, <2>11 DEF PhaseOk
    <3> QED BY <2>5, <2>6, <2>7, <2>8, <2>11, <3>1, <3>2 DEF RunOk, k
  <2> QED BY <2>10, <2>11
<1> QED BY <1>1, <1>2

\* The abilities may open a question, but not in the frame that opens the run.
LEMMA GfEnemyAbility ==
  ASSUME NEW h \in RunState, RunOk(h), FirstFrame(h), NEW call \in BOOLEAN
  PROVE  LET k == EnemyAbility(h, call)
         IN  /\ k \in RunState /\ RunOk(k) /\ FirstFrame(k)
             /\ IF h.phase = "WAVE" THEN k.inWave = 0 => k.phase = "WAVE" ELSE k = h
<1> DEFINE boss == {f \in h.foes : f.kind = "BOSS_B"}
           b    == CHOOSE f \in boss : TRUE
           up   == [h EXCEPT !.minions = @ + 1]
           born == Spawn(up, "FAST", b.togo, 0)
           more == IF call /\ boss # {} /\ h.minions < MaxMinions THEN born ELSE h
           ids  == {f.id : f \in DueBosses(h)}
           k    == EnemyAbility(h, call)
<1>1. k = IF h.phase # "WAVE" THEN h ELSE InTurn(TriggerChainRule, more, ids)
  BY DEF EnemyAbility
<1> HIDE DEF k
<1>2. CASE h.phase # "WAVE"
  BY <1>1, <1>2 DEF k
<1>3. CASE h.phase = "WAVE" /\ h.inWave = 0
  <2>1. h.foes = {}
    BY <1>3 DEF FirstFrame
  <2>2. more = h /\ ids = {}
    BY <2>1 DEF DueBosses
  <2> HIDE DEF more, ids
  <2>3. InTurn(TriggerChainRule, h, {}) \in {h}
    <3> DEFINE S == {h}
    <3>1. h \in S /\ h.created \in Nat /\ \A x \in S : \A n \in {} \cap Int : TriggerChainRule(x, n) \in S
      BY GfFields
    <3> HIDE DEF S
    <3>2. InTurn(TriggerChainRule, h, {}) \in S
      BY <3>1, GfAsks
    <3> QED BY <3>2 DEF S
  <2>4. k = h
    BY <1>1, <1>3, <2>2, <2>3
  <2> QED BY <1>3, <2>4 DEF k
<1>4. CASE h.phase = "WAVE" /\ h.inWave # 0
  <2>1. h.inWave > 0 /\ Kept(h, h)
    BY <1>4, GfFields DEF Kept, RunOk, SameRun
  <2>2. Kept(h, more)
    <3>1. ASSUME boss # {} PROVE Kept(h, born)
      <4>1. b \in FoeOf
        BY <3>1, GfFields
      <4>2. b.togo \in Int /\ "FAST" \in DOMAIN Kinds /\ h.minions + 1 \in Nat /\ 0 \in Nat
        BY <4>1, GfKindNames, GfFields DEF FoeOf
      <4> HIDE DEF b
      <4>3. up \in RunState
        BY <4>2 DEF RunState
      <4>4. SameRun(h, up) /\ SameFoes(h, up)
        BY DEF RunState, SameRun, SameFoes
      <4> HIDE DEF up
      <4>5. Kept(h, up)
        BY <4>3, <4>4 DEF Kept, RunOk, FoesOk, SameFoes
      <4> QED BY <4>2, <4>5, GfKeptSpawn
    <3> HIDE DEF born, boss
    <3> QED BY <2>1, <3>1
  <2> HIDE DEF more, ids
  <2>3. RunOk(more) /\ more \in RunState /\ more.phase = "WAVE" /\ more.inWave > 0 /\ more.created \in Nat
    <3>1. RunOk(more)
      BY <1>4, <2>2, GfStillOk
    <3> QED BY <1>4, <2>1, <2>2, <3>1, GfFields DEF Kept, SameRun
  <2> DEFINE S == {x \in RunState : RunOk(x) /\ x.phase \in {"WAVE", "CHAIN_RULE"} /\ x.inWave > 0}
  <2>4. more \in S
    BY <2>3
  <2>5. ASSUME NEW x \in S, NEW n \in ids \cap Int PROVE TriggerChainRule(x, n) \in S
    BY GfAsk
  <2>6. k \in S
    <3> HIDE DEF S
    <3>1. InTurn(TriggerChainRule, more, ids) \in S
      BY <2>3, <2>4, <2>5, GfAsks
    <3> QED BY <1>1, <1>4, <3>1
  <2>7. k.inWave # 0
    BY <2>6, GfFields
  <2> QED BY <1>4, <2>6, <2>7 DEF FirstFrame, k
<1> QED BY <1>2, <1>3, <1>4

\* An enemy at the goal takes hit points, and the last of them ends the run.
LEMMA GfReach ==
  ASSUME NEW h \in RunState, RunOk(h), h.phase \in {"WAVE", "GAME_OVER"}, h.inWave > 0, NEW id
  PROVE  LET k == ReachOrigin(h, id)
         IN  k \in RunState /\ RunOk(k) /\ k.phase \in {"WAVE", "GAME_OVER"} /\ k.inWave > 0
<1> DEFINE k == ReachOrigin(h, id)
<1>1. CASE id \notin Ids(h)
  BY <1>1 DEF ReachOrigin
<1>2. CASE id \in Ids(h)
  <2> DEFINE f  == Foe(h, id)
             b  == Bury(h, f)
             d  == Kinds[f.kind].bite
             hp == IF b.hp > d THEN b.hp - d ELSE 0
             a  == [b EXCEPT !.hp = hp]
  <2>1. f \in h.foes /\ f.id = id /\ f \in FoeOf
    BY <1>2, GfFoe
  <2>2. k = IF hp = 0 THEN Go(a, "GAME_OVER") ELSE a
    BY <1>2 DEF ReachOrigin, ChangeHp
  <2> HIDE DEF k, f
  <2>3. b \in RunState /\ FoesOk(b) /\ SameRun(h, b)
    BY <1>2, <2>1, GfBury DEF RunOk
  <2> HIDE DEF b
  <2>4. d \in Nat \ {0}
    BY <2>1, GfKinds DEF FoeOf
  <2> HIDE DEF d
  <2>5. hp \in Nat
    BY <2>3, <2>4, GfFields
  <2>6. b.hp = 0 => hp = 0
    BY <2>3, <2>4, GfFields
  <2> HIDE DEF hp
  <2>7. a \in RunState
    BY <2>3, <2>5 DEF RunState
  <2>8. /\ SameFoes(b, a) /\ a.hp = hp /\ a.question = h.question /\ a.phase = h.phase /\ a.wave = h.wave
        /\ a.door = h.door /\ a.levelEnds = h.levelEnds /\ a.time = h.time /\ a.prep = h.prep
        /\ a.pause = h.pause /\ a.excluded = h.excluded /\ a.inWave = h.inWave /\ a.late = h.late
        /\ a.opening = h.opening
    BY <2>3 DEF RunState, SameRun, SameFoes
  <2> HIDE DEF a
  <2>9. FoesOk(a) /\ ClockOk(a)
    BY <2>3, <2>8 DEF FoesOk, SameFoes, RunOk, ClockOk, Away
  <2>10. h.levelEnds = 0 /\ h.door = NoDoor /\ h.question = NoFoe /\ (h.hp = 0 <=> h.phase = "GAME_OVER") /\ b.hp = h.hp
    BY <2>3 DEF RunOk, PhaseOk, VerdictOk, SameRun
  <2>11. CASE h.phase = "WAVE" /\ hp = 0
    <3>1. h.wave > 0
      BY <2>11 DEF RunOk, PhaseOk
    <3>2. k = Go(a, "GAME_OVER")
      BY <2>2, <2>11
    <3>3. ClockOk(k) /\ k \in RunState /\ SameRest(a, k) /\ k.phase = "GAME_OVER"
      BY <2>7, <2>8, <2>9, <2>11, <3>1, <3>2, GfGoClock
    <3>4. FoesOk(k)
      BY <2>9, <3>3 DEF SameRest, SameFoes, FoesOk
    <3>5. VerdictOk(k) /\ PhaseOk(k)
      BY <2>8, <2>10, <2>11, <3>3 DEF SameRest, VerdictOk, PhaseOk
    <3> QED BY <2>8, <3>3, <3>4, <3>5 DEF RunOk, SameRest, k
  <2>12. CASE h.phase = "GAME_OVER" \/ hp # 0
    <3>1. k = a
      <4>1. CASE hp # 0
        BY <2>2, <4>1
      <4>2. CASE h.phase = "GAME_OVER"
        <5>1. Go(a, "GAME_OVER") = a
          BY <2>8, <4>2, GfPhases DEF Go
        <5> QED BY <2>2, <5>1
      <4> QED BY <2>12, <4>1, <4>2
    <3>2. h.phase = "GAME_OVER" <=> hp = 0
      BY <2>6, <2>10, <2>12
    <3>3. VerdictOk(a) /\ PhaseOk(a)
      BY <2>8, <2>10, <3>2 DEF RunOk, VerdictOk, PhaseOk
    <3> QED BY <2>7, <2>8, <2>9, <3>1, <3>3 DEF RunOk, k
  <2> QED BY <2>11, <2>12
<1> QED BY <1>1, <1>2

\* A step of every enemy moves none off the board.
LEMMA GfWalk ==
  ASSUME NEW h \in RunState, FoesOk(h)
  PROVE  LET k == [h EXCEPT !.foes = {[f EXCEPT !.togo = @ - 1] : f \in @}]
         IN  Kept(h, k) /\ (h.foes = {} => k.foes = {}) /\ k.created \in Nat
<1> DEFINE new  == {[f EXCEPT !.togo = @ - 1] : f \in h.foes}
           Step == [f \in h.foes |-> [f EXCEPT !.togo = @ - 1]]
           k    == [h EXCEPT !.foes = new]
<1>1. \A f \in h.foes : [f EXCEPT !.togo = @ - 1] \in FoeOf /\ [f EXCEPT !.togo = @ - 1].id = f.id
  <2>1. ASSUME NEW f \in FoeOf PROVE [f EXCEPT !.togo = @ - 1] \in FoeOf /\ [f EXCEPT !.togo = @ - 1].id = f.id
    BY DEF FoeOf
  <2> QED BY <2>1, GfFields
<1>2. new \subseteq FoeOf /\ \A e \in new : \E f \in h.foes : e = [f EXCEPT !.togo = @ - 1] /\ e.id = f.id
  BY <1>1
<1>3. Step \in Bijection(h.foes, new)
  <2>1. Step \in [h.foes -> new] /\ \A f \in h.foes : Step[f].id = f.id
    BY <1>1
  <2>2. \A d, e \in h.foes : Step[d] = Step[e] => d = e
    <3> HIDE DEF Step
    <3> QED BY <2>1 DEF FoesOk
  <2>3. \A e \in new : \E f \in h.foes : Step[f] = e
    OBVIOUS
  <2> HIDE DEF Step, new
  <2> QED BY <2>1, <2>2, <2>3 DEF Bijection, Injection, Surjection, IsInjective
<1>4. ExistsBijection(h.foes, new)
  <2> HIDE DEF Step, new
  <2> QED BY <1>3 DEF ExistsBijection
<1>5. h.foes = {} => new = {}
  OBVIOUS
<1>6. \A d, e \in new : d.id = e.id => d = e
  <2>1. ASSUME NEW d \in new, NEW e \in new, d.id = e.id PROVE d = e
    <3>1. PICK f \in h.foes : d = [f EXCEPT !.togo = @ - 1] /\ d.id = f.id
      BY <1>2
    <3>2. PICK c \in h.foes : e = [c EXCEPT !.togo = @ - 1] /\ e.id = c.id
      BY <1>2
    <3>3. f = c
      BY <2>1, <3>1, <3>2 DEF FoesOk
    <3> QED BY <3>1, <3>2, <3>3
  <2> QED BY <2>1
<1>7. \A e \in new : e.id <= h.created
  BY <1>2 DEF FoesOk
<1> HIDE DEF Step, new
<1>8. IsFiniteSet(new) /\ Cardinality(new) = Cardinality(h.foes)
  BY <1>4, FS_Bijection DEF FoesOk
<1>9. k \in RunState
  BY <1>2 DEF RunState
<1>10. SameRun(h, k) /\ k.foes = new /\ k.created = h.created /\ k.removed = h.removed
  BY DEF RunState, SameRun
<1>11. k = [h EXCEPT !.foes = {[f EXCEPT !.togo = @ - 1] : f \in @}]
  BY DEF new
<1> HIDE DEF k
<1>12. FoesOk(k)
  BY <1>6, <1>7, <1>8, <1>10 DEF FoesOk
<1> QED BY <1>5, <1>9, <1>10, <1>11, <1>12, GfFields DEF Kept

LEMMA GfMovement ==
  ASSUME NEW h \in RunState, RunOk(h), FirstFrame(h)
  PROVE  LET k == Movement(h)
         IN  /\ k \in RunState /\ RunOk(k) /\ FirstFrame(k)
             /\ IF h.phase = "WAVE" THEN k.inWave = 0 => k.phase = "WAVE" ELSE k = h
<1> DEFINE walked == [h EXCEPT !.foes = {[f EXCEPT !.togo = @ - 1] : f \in @}]
           ids    == {f.id : f \in {e \in walked.foes : e.togo = 0}}
           k      == Movement(h)
<1>1. k = IF h.phase # "WAVE" THEN h ELSE InReverse(ReachOrigin, walked, ids)
  BY DEF Movement
<1> HIDE DEF k
<1>2. CASE h.phase # "WAVE"
  BY <1>1, <1>2 DEF k
<1>3. Kept(h, walked) /\ (h.foes = {} => walked.foes = {}) /\ walked.created \in Nat
  BY GfWalk DEF RunOk
<1>4. walked.foes = {} => ids = {}
  OBVIOUS
<1> HIDE DEF walked, ids
<1>5. CASE h.phase = "WAVE" /\ h.inWave = 0
  <2>1. walked.foes = {} /\ ids = {}
    BY <1>3, <1>4, <1>5 DEF FirstFrame
  <2>2. InReverse(ReachOrigin, walked, {}) \in {walked}
    <3> DEFINE S == {walked}
    <3>1. walked \in S /\ \A x \in S : \A n \in {} \cap Int : ReachOrigin(x, n) \in S
      OBVIOUS
    <3> HIDE DEF S
    <3>2. InReverse(ReachOrigin, walked, {}) \in S
      BY <1>3, <3>1, GfArrives
    <3> QED BY <3>2 DEF S
  <2>3. k = walked
    BY <1>1, <1>5, <2>1, <2>2
  <2>4. RunOk(walked)
    BY <1>3, <1>5, GfStillOk
  <2> QED BY <1>3, <1>5, <2>1, <2>3, <2>4 DEF Kept, SameRun, FirstFrame, k
<1>6. CASE h.phase = "WAVE" /\ h.inWave # 0
  <2> DEFINE S == {x \in RunState : RunOk(x) /\ x.phase \in {"WAVE", "GAME_OVER"} /\ x.inWave > 0}
  <2>1. RunOk(walked)
    BY <1>3, <1>6, GfStillOk
  <2>2. walked \in S
    BY <1>3, <1>6, <2>1, GfFields DEF Kept, SameRun
  <2>3. ASSUME NEW x \in S, NEW n \in ids \cap Int PROVE ReachOrigin(x, n) \in S
    BY GfReach
  <2>4. k \in S
    <3> HIDE DEF S
    <3>1. InReverse(ReachOrigin, walked, ids) \in S
      BY <1>3, <2>2, <2>3, GfArrives
    <3> QED BY <1>1, <1>6, <3>1
  <2>5. k.inWave # 0
    BY <2>4, GfFields
  <2> QED BY <1>6, <2>4, <2>5 DEF FirstFrame, k
<1> QED BY <1>2, <1>5, <1>6

\* The run after an empty board: the level's end, an event that is due, or a build phase.
LEMMA GfEndWave ==
  ASSUME NEW h \in RunState, RunOk(h), h.phase = "WAVE", h.inWave > 0
  PROVE  EndWave(h) \in RunState /\ RunOk(EndWave(h)) /\ EndWave(h).inWave > 0
<1> DEFINE k == EndWave(h)
<1>1. /\ h.wave > 0 /\ h.levelEnds = 0 /\ h.hp # 0 /\ h.door = NoDoor /\ h.question = NoFoe
      /\ FoesOk(h) /\ ClockOk(h) /\ h.wave \in Nat
  BY GfFields DEF RunOk, PhaseOk, VerdictOk
<1>2. CASE h.wave >= Len(Waves)
  <2> DEFINE n == h.levelEnds + 1
             a == [h EXCEPT !.levelEnds = n]
  <2>1. k = Go(a, "LEVEL_END")
    BY <1>2 DEF EndWave
  <2>2. n \in Nat /\ n = 1
    BY <1>1
  <2> HIDE DEF n, k
  <2>3. a \in RunState /\ a.levelEnds = 1
    BY <2>2 DEF RunState
  <2>4. /\ SameFoes(h, a) /\ a.hp = h.hp /\ a.question = h.question /\ a.phase = h.phase /\ a.wave = h.wave
        /\ a.door = h.door /\ a.time = h.time /\ a.prep = h.prep /\ a.queue = h.queue
        /\ a.pause = h.pause /\ a.excluded = h.excluded /\ a.inWave = h.inWave /\ a.late = h.late
        /\ a.opening = h.opening
    BY DEF RunState, SameFoes
  <2> HIDE DEF a
  <2>5. ClockOk(a)
    BY <1>1, <2>4 DEF ClockOk, Away
  <2>6. ClockOk(k) /\ k \in RunState /\ SameRest(a, k) /\ k.phase = "LEVEL_END"
    BY <1>1, <2>1, <2>3, <2>4, <2>5, GfGoClock
  <2>7. FoesOk(k)
    BY <1>1, <2>4, <2>6 DEF SameRest, SameFoes, FoesOk
  <2>8. VerdictOk(k) /\ PhaseOk(k)
    BY <1>1, <2>3, <2>4, <2>6 DEF SameRest, VerdictOk, PhaseOk
  <2> QED BY <2>4, <2>6, <2>7, <2>8 DEF RunOk, SameRest, k
<1>3. CASE h.wave < Len(Waves) /\ h.pending /\ h.next <= Len(Thresholds)
  <2> DEFINE n == h.next + 1
             d == [stage |-> "select", count |-> Thresholds[h.next].doors]
             a == [h EXCEPT !.pending = FALSE, !.next = n, !.door = d]
  <2>1. k = Go(a, "MONTY_HALL")
    <3>1. ~(h.wave >= Len(Waves))
      BY <1>1, <1>3, GfLens
    <3> QED BY <1>3, <3>1 DEF EndWave, TriggerPendingEvent
  <2>2. n \in Nat \ {0}
    BY GfFields
  <2>3. d \in DoorOf
    <3>1. h.next \in 1 .. Len(Thresholds)
      BY <1>3, GfFields, GameFlowAssumption
    <3>2. Thresholds[h.next].doors \in Nat
      <4> DEFINE T == [kill : Nat, doors : Nat \ 0 .. 2]
      <4>1. Thresholds \in Seq(T)
        BY GameFlowAssumption
      <4>2. \A t \in T : t.doors \in Nat
        OBVIOUS
      <4> HIDE DEF T
      <4>3. Thresholds[h.next] \in T
        BY <3>1, <4>1
      <4> QED BY <4>2, <4>3
    <3> QED BY <3>2 DEF DoorOf
  <2> HIDE DEF n, d, k
  <2>4. a \in RunState
    BY <2>2, <2>3 DEF RunState
  <2>5. /\ SameFoes(h, a) /\ a.hp = h.hp /\ a.question = h.question /\ a.phase = h.phase /\ a.wave = h.wave
        /\ a.time = h.time /\ a.prep = h.prep /\ a.queue = h.queue /\ a.levelEnds = h.levelEnds
        /\ a.pause = h.pause /\ a.excluded = h.excluded /\ a.inWave = h.inWave /\ a.late = h.late
        /\ a.opening = h.opening
    BY DEF RunState, SameFoes
  <2> HIDE DEF a
  <2>6. ClockOk(a)
    BY <1>1, <2>5 DEF ClockOk, Away
  <2>7. ClockOk(k) /\ k \in RunState /\ SameRest(a, k) /\ k.phase = "MONTY_HALL"
    BY <1>1, <2>1, <2>4, <2>5, <2>6, GfGoClock
  <2>8. FoesOk(k)
    BY <1>1, <2>5, <2>7 DEF SameRest, SameFoes, FoesOk
  <2>9. VerdictOk(k) /\ PhaseOk(k)
    BY <1>1, <1>3, <2>5, <2>7 DEF SameRest, VerdictOk, PhaseOk
  <2> QED BY <2>5, <2>7, <2>8, <2>9 DEF RunOk, SameRest, k
<1>4. CASE h.wave < Len(Waves) /\ ~(h.pending /\ h.next <= Len(Thresholds))
  <2>1. k = Go(h, "BUILD")
    <3>1. ~(h.wave >= Len(Waves))
      BY <1>1, <1>4, GfLens
    <3> QED BY <1>4, <3>1 DEF EndWave
  <2> HIDE DEF k
  <2>2. ClockOk(k) /\ k \in RunState /\ SameRest(h, k) /\ k.phase = "BUILD"
    BY <1>1, <2>1, GfGoClock
  <2>3. FoesOk(k)
    BY <1>1, <2>2 DEF SameRest, SameFoes, FoesOk
  <2>4. VerdictOk(k) /\ PhaseOk(k)
    BY <1>1, <1>4, <2>2 DEF SameRest, VerdictOk, PhaseOk
  <2> QED BY <2>2, <2>3, <2>4 DEF RunOk, SameRest, k
<1> QED BY <1>1, <1>2, <1>3, <1>4, GfLens

LEMMA GfWaveUpdate ==
  ASSUME NEW h \in RunState, RunOk(h), FirstFrame(h)
  PROVE  LET k == WaveUpdate(h)
         IN  /\ k \in RunState /\ RunOk(k)
             /\ IF h.phase = "WAVE" THEN k.inWave = 0 => k.phase = "WAVE" ELSE k = h
<1> DEFINE k == WaveUpdate(h)
<1>1. CASE h.phase # "WAVE"
  BY <1>1 DEF WaveUpdate
<1>2. CASE h.phase = "WAVE" /\ h.queue # <<>>
  <2> DEFINE kind == Head(h.queue)
             togo == Kinds[kind].togo
             rest == Tail(h.queue)
             a == [h EXCEPT !.queue = rest]
  <2>1. k = Spawn(a, kind, togo, 0)
    BY <1>2 DEF WaveUpdate
  <2>2. kind \in DOMAIN Kinds /\ rest \in Seq(DOMAIN Kinds)
    <3>1. h.queue \in Seq(DOMAIN Kinds) /\ h.queue # <<>>
      BY <1>2, GfFields
    <3> DEFINE K == DOMAIN Kinds
    <3> HIDE DEF K
    <3>2. h.queue \in Seq(K)
      BY <3>1 DEF K
    <3>3. kind \in K /\ rest \in Seq(K)
      BY <3>1, <3>2
    <3> QED BY <3>3 DEF K
  <2>3. togo \in Int
    BY <2>2, GfKinds
  <2> HIDE DEF kind, rest, togo, k
  <2>4. a \in RunState
    BY <2>2 DEF RunState
  <2>5. /\ SameFoes(h, a) /\ a.hp = h.hp /\ a.question = h.question /\ a.phase = h.phase /\ a.wave = h.wave
        /\ a.door = h.door /\ a.levelEnds = h.levelEnds /\ a.time = h.time /\ a.prep = h.prep
        /\ a.pause = h.pause /\ a.excluded = h.excluded /\ a.inWave = h.inWave /\ a.late = h.late
        /\ a.opening = h.opening
    BY DEF RunState, SameFoes
  <2> HIDE DEF a
  <2>6. RunOk(a)
    BY <2>5 DEF RunOk, FoesOk, SameFoes, VerdictOk, PhaseOk, ClockOk, Away, Ids
  <2>7. Kept(a, k)
    <3>1. Kept(a, a) /\ 0 \in Nat
      BY <2>4, <2>6 DEF Kept, RunOk, SameRun
    <3> QED BY <2>1, <2>2, <2>3, <3>1, GfKeptSpawn
  <2>8. RunOk(k)
    BY <1>2, <2>5, <2>6, <2>7, GfStillOk
  <2> QED BY <1>2, <2>5, <2>7, <2>8 DEF Kept, SameRun, k
<1>3. CASE h.phase = "WAVE" /\ h.queue = <<>>
  <2>1. h.inWave > 0
    <3>1. h.inWave # 0
      BY <1>3 DEF FirstFrame
    <3> QED BY <3>1, GfFields
  <2>2. k = IF h.foes = {} THEN EndWave(h) ELSE h
    BY <1>3 DEF WaveUpdate
  <2> HIDE DEF k
  <2>3. EndWave(h) \in RunState /\ RunOk(EndWave(h)) /\ EndWave(h).inWave > 0
    BY <1>3, <2>1, GfEndWave
  <2>4. k \in RunState /\ RunOk(k) /\ k.inWave > 0
    BY <2>1, <2>2, <2>3
  <2> QED BY <1>3, <2>4 DEF k
<1> QED BY <1>1, <1>2, <1>3

LEMMA GfEconomyUpdate ==
  ASSUME NEW h \in RunState, RunOk(h)
  PROVE  LET k == EconomyUpdate(h)
         IN  k \in RunState /\ RunOk(k) /\ k.phase = h.phase /\ k.inWave = h.inWave /\ (h.phase # "WAVE" => k = h)
<1> DEFINE k == EconomyUpdate(h)
           a == [h EXCEPT !.total = h.time]
<1>1. CASE h.phase # "WAVE"
  BY <1>1 DEF EconomyUpdate
<1>2. CASE h.phase = "WAVE"
  <2>1. k = a
    BY <1>2 DEF EconomyUpdate
  <2>2. a \in RunState
    BY GfFields DEF RunState
  <2>3. SameRun(h, a) /\ SameFoes(h, a)
    BY DEF RunState, SameRun, SameFoes
  <2> HIDE DEF a
  <2>4. Kept(h, a)
    BY <2>2, <2>3 DEF Kept, SameFoes, RunOk, FoesOk
  <2>5. RunOk(a)
    BY <1>2, <2>4, GfStillOk
  <2> QED BY <1>2, <2>1, <2>2, <2>3, <2>5 DEF SameRun
<1> QED BY <1>1, <1>2

(***************************************************************************)
(* A frame                                                                 *)
(***************************************************************************)
LEMMA GfUpdate ==
  ASSUME NEW h \in RunState, RunOk(h), FirstFrame(h), NEW call \in BOOLEAN, NEW combat, NEW towers,
         NEW k \in Update(h, call, combat, towers)
  PROVE  /\ k \in RunState /\ RunOk(k)
         /\ IF h.phase = "WAVE" THEN k.inWave = 0 => k.phase = "WAVE" ELSE k = h
<1> DEFINE able    == EnemyAbility(h, call)
           fought  == Strike(able, combat)
           walked  == Movement(fought)
           waved   == WaveUpdate(walked)
           counted == EconomyUpdate(waved)
<1>1. k = Strike(counted, towers)
  BY DEF Update, Then
<1>2. /\ able \in RunState /\ RunOk(able) /\ FirstFrame(able)
      /\ IF h.phase = "WAVE" THEN able.inWave = 0 => able.phase = "WAVE" ELSE able = h
  BY GfEnemyAbility
<1> HIDE DEF able
<1>3. /\ fought \in RunState /\ RunOk(fought) /\ FirstFrame(fought)
      /\ fought.phase = able.phase /\ fought.inWave = able.inWave
      /\ able.phase # "WAVE" => fought = able
  <2>1. Kept(able, fought) /\ RunOk(fought) /\ (able.foes = {} => fought.foes = {})
    BY <1>2, GfStrike
  <2>2. able.phase # "WAVE" => fought = able
    BY DEF Strike
  <2> HIDE DEF fought
  <2> QED BY <1>2, <2>1, <2>2 DEF Kept, SameRun, FirstFrame
<1> HIDE DEF fought
<1>4. /\ walked \in RunState /\ RunOk(walked) /\ FirstFrame(walked)
      /\ IF fought.phase = "WAVE" THEN walked.inWave = 0 => walked.phase = "WAVE" ELSE walked = fought
  BY <1>3, GfMovement
<1> HIDE DEF walked
<1>5. /\ waved \in RunState /\ RunOk(waved)
      /\ IF walked.phase = "WAVE" THEN waved.inWave = 0 => waved.phase = "WAVE" ELSE waved = walked
  BY <1>4, GfWaveUpdate
<1> HIDE DEF waved
<1>6. /\ counted \in RunState /\ RunOk(counted) /\ counted.phase = waved.phase /\ counted.inWave = waved.inWave
      /\ waved.phase # "WAVE" => counted = waved
  BY <1>5, GfEconomyUpdate
<1> HIDE DEF counted
<1>7. /\ k \in RunState /\ RunOk(k) /\ k.phase = counted.phase /\ k.inWave = counted.inWave
      /\ counted.phase # "WAVE" => k = counted
  <2>1. Kept(counted, k) /\ RunOk(k)
    BY <1>1, <1>6, GfStrike
  <2>2. counted.phase # "WAVE" => k = counted
    BY <1>1 DEF Strike
  <2> QED BY <2>1, <2>2 DEF Kept, SameRun
<1>8. CASE h.phase = "WAVE"
  BY <1>2, <1>3, <1>4, <1>5, <1>6, <1>7, <1>8
<1>9. CASE h.phase # "WAVE"
  BY <1>2, <1>3, <1>4, <1>5, <1>6, <1>7, <1>9
<1> QED BY <1>8, <1>9

\* The step a frame spends is counted in the wave it began in, and as late when
\* the wave was over at its end.
LEMMA GfSpend ==
  ASSUME NEW h \in RunState, NEW k \in RunState, RunOk(k),
         IF h.phase = "WAVE" THEN k.inWave = 0 => k.phase = "WAVE" ELSE k = h /\ FirstFrame(k)
  PROVE  LET n == SpendCredit(h, k) IN n \in RunState /\ RunOk(n) /\ FirstFrame(n)
<1> DEFINE time   == k.time + 1
           credit == IF k.phase = "WAVE" THEN k.credit - 2 ELSE 0
           inWave == IF h.phase = "WAVE" THEN k.inWave + 1 ELSE k.inWave
           late   == IF h.phase = "WAVE" /\ k.phase # "WAVE" THEN k.late + 1 ELSE k.late
           n      == [k EXCEPT !.time = time, !.credit = credit, !.inWave = inWave, !.late = late]
<1>1. SpendCredit(h, k) = n
  BY DEF SpendCredit
<1>2. time \in Nat /\ credit \in Int /\ inWave \in Nat /\ late \in Nat
  BY GfFields
<1>3. /\ time = k.time + 1
      /\ inWave = IF h.phase = "WAVE" THEN k.inWave + 1 ELSE k.inWave
      /\ late = IF h.phase = "WAVE" /\ k.phase # "WAVE" THEN k.late + 1 ELSE k.late
  OBVIOUS
<1> HIDE DEF time, credit, inWave, late
<1>4. n \in RunState
  BY <1>2 DEF RunState
<1>5. /\ SameFoes(k, n) /\ n.phase = k.phase /\ n.wave = k.wave /\ n.hp = k.hp /\ n.queue = k.queue
      /\ n.question = k.question /\ n.door = k.door /\ n.levelEnds = k.levelEnds
      /\ n.prep = k.prep /\ n.pause = k.pause /\ n.excluded = k.excluded /\ n.opening = k.opening
      /\ n.time = time /\ n.inWave = inWave /\ n.late = late
  BY DEF RunState, SameFoes
<1> HIDE DEF n
<1>6. FoesOk(n) /\ VerdictOk(n)
  BY <1>5 DEF RunOk, FoesOk, SameFoes, VerdictOk
<1>7. k.phase = "MENU" => h.phase # "WAVE"
  <2>1. k.phase = "MENU" => k.inWave = 0
    BY DEF RunOk, PhaseOk
  <2> QED BY <2>1
<1>8. PhaseOk(n)
  BY <1>3, <1>5, <1>7 DEF RunOk, PhaseOk, SameFoes, Ids
<1>9. /\ k.time \in Nat /\ k.prep \in Nat /\ k.pause \in Nat /\ k.excluded \in Int
      /\ k.inWave \in Nat /\ k.late \in Nat /\ k.opening \in Nat
  BY GfFields
<1>10. ClockOk(n) /\ FirstFrame(n)
  <2>1. CASE h.phase # "WAVE"
    <3>1. k.phase # "WAVE" /\ inWave = k.inWave /\ late = k.late /\ time = k.time + 1
      BY <1>3, <2>1
    <3>2. \A t : Away(n, t) = Away(k, t)
      BY <1>5, <3>1 DEF Away
    <3> QED BY <1>5, <1>9, <2>1, <3>1, <3>2 DEF RunOk, ClockOk, FirstFrame, SameFoes
  <2>2. CASE h.phase = "WAVE" /\ k.phase = "WAVE"
    <3>1. inWave = k.inWave + 1 /\ late = k.late /\ time = k.time + 1
      BY <1>3, <2>2
    <3>2. n.inWave > 0 /\ n.inWave # 0 /\ n.time > 0
      BY <1>5, <1>9, <3>1
    <3>3. k.prep = 0 /\ k.pause = 0 /\ k.excluded = Away(n, n.time)
      <4>1. CASE k.inWave = 0
        <5>1. k.excluded = 0 /\ k.late = 0 /\ k.prep = 0 /\ k.pause = 0 /\ k.opening = k.time
          BY <2>2, <4>1 DEF RunOk, ClockOk
        <5>2. Away(n, n.time) = (k.time + 1) - k.time - (0 + 1) + 0
          BY <1>5, <3>1, <4>1, <5>1 DEF Away
        <5> QED BY <1>9, <5>1, <5>2
      <4>2. CASE k.inWave # 0
        <5>1. k.inWave > 0
          BY <1>9, <4>2
        <5>2. k.prep = 0 /\ k.pause = 0 /\ k.excluded = k.time - k.opening - k.inWave + k.late
          BY <2>2, <5>1 DEF RunOk, ClockOk, Away
        <5>3. Away(n, n.time) = (k.time + 1) - k.opening - (k.inWave + 1) + k.late
          BY <1>5, <3>1 DEF Away
        <5> QED BY <1>9, <5>2, <5>3
      <4> QED BY <4>1, <4>2
    <3> QED BY <1>5, <2>2, <3>2, <3>3 DEF ClockOk, FirstFrame, Pauses
  <2>3. CASE h.phase = "WAVE" /\ k.phase # "WAVE"
    <3>1. inWave = k.inWave + 1 /\ late = k.late + 1 /\ time = k.time + 1 /\ k.inWave > 0
      BY <1>3, <1>9, <2>3
    <3>2. n.inWave > 0 /\ n.inWave # 0 /\ n.time > 0
      BY <1>5, <1>9, <3>1
    <3>3. \A t \in Int : Away(n, t) = Away(k, t)
      <4>1. ASSUME NEW t \in Int PROVE Away(n, t) = Away(k, t)
        <5>1. Away(n, t) = t - k.opening - (k.inWave + 1) + (k.late + 1)
          BY <1>5, <3>1 DEF Away
        <5> QED BY <1>9, <5>1 DEF Away
      <4> QED BY <4>1
    <3> QED BY <1>5, <1>9, <2>3, <3>1, <3>2, <3>3 DEF RunOk, ClockOk, FirstFrame
  <2> QED BY <2>1, <2>2, <2>3
<1> QED BY <1>1, <1>4, <1>6, <1>8, <1>10 DEF RunOk

LEMMA GfFrame == ASSUME RunInv, Frame PROVE RunInv'
<1> DEFINE h == IF g.credit >= 2 THEN g ELSE Grant
<1>1. Grant \in RunState /\ RunOk(Grant) /\ FirstFrame(Grant)
  <2> DEFINE c == IF g.phase = "WAVE" THEN g.credit + g.speed ELSE 2
             i == IF g.phase \in Resting THEN g.idle + 1 ELSE g.idle
             k == [g EXCEPT !.credit = c, !.idle = i]
  <2>1. Grant = k
    BY DEF Grant
  <2>2. c \in Int /\ i \in Nat
    BY GfFields DEF RunInv
  <2> HIDE DEF c, i
  <2>3. k \in RunState
    BY <2>2 DEF RunInv, RunState
  <2>4. SameRun(g, k) /\ SameFoes(g, k)
    BY DEF RunInv, RunState, SameRun, SameFoes
  <2> HIDE DEF k
  <2>5. Kept(g, k) /\ Ids(g) \subseteq Ids(k)
    BY <2>3, <2>4 DEF Kept, RunInv, RunOk, FoesOk, SameFoes, Ids
  <2>6. RunOk(k)
    BY <2>5, GfStillOk DEF RunInv
  <2> QED BY <2>1, <2>3, <2>4, <2>6 DEF RunInv, FirstFrame, SameRun, SameFoes
<1>2. h \in RunState /\ RunOk(h) /\ FirstFrame(h)
  BY <1>1 DEF RunInv
<1>3. \/ g' = h
      \/ \E call \in BOOLEAN, combat \in Targets(h), towers \in Targets(h) :
           g' \in Then(LAMBDA k : SpendCredit(h, k), Update(h, call, combat, towers))
  BY DEF Frame
<1> HIDE DEF h
<1>4. CASE g' = h
  BY <1>2, <1>4 DEF RunInv
<1>5. ASSUME NEW call \in BOOLEAN, NEW combat, NEW towers, NEW k \in Update(h, call, combat, towers),
             g' = SpendCredit(h, k)
      PROVE  RunInv'
  <2>1. /\ k \in RunState /\ RunOk(k)
        /\ IF h.phase = "WAVE" THEN k.inWave = 0 => k.phase = "WAVE" ELSE k = h
    BY <1>2, GfUpdate
  <2>2. IF h.phase = "WAVE" THEN k.inWave = 0 => k.phase = "WAVE" ELSE k = h /\ FirstFrame(k)
    BY <1>2, <2>1
  <2> DEFINE n == SpendCredit(h, k)
  <2>3. n \in RunState /\ RunOk(n) /\ FirstFrame(n)
    BY <1>2, <2>1, <2>2, GfSpend
  <2> HIDE DEF n
  <2>4. g' = n
    BY <1>5 DEF n
  <2> QED BY <2>3, <2>4 DEF RunInv
<1>6. g' = h \/ \E call \in BOOLEAN, combat \in Targets(h), towers \in Targets(h) :
                  \E k \in Update(h, call, combat, towers) : g' = SpendCredit(h, k)
  BY <1>3 DEF Then
<1> QED BY <1>4, <1>5, <1>6

(***************************************************************************)
(* The player                                                              *)
(***************************************************************************)
LEMMA GfInit == ASSUME Init PROVE RunInv
<1>1. g = Fresh
  BY DEF Init
<1>2. Fresh \in RunState
  <2>1. "MENU" \in Phases /\ FullHp \in Nat /\ <<>> \in Seq(DOMAIN Kinds) /\ NoDoor \in DoorOf
    BY GameFlowAssumption, GfPhases DEF DoorOf
  <2> QED BY <2>1 DEF Fresh, RunState
<1>3. FoesOk(Fresh)
  BY FS_EmptySet DEF Fresh, FoesOk
<1>4. VerdictOk(Fresh) /\ PhaseOk(Fresh) /\ ClockOk(Fresh) /\ FirstFrame(Fresh)
  BY GameFlowAssumption DEF Fresh, VerdictOk, PhaseOk, ClockOk, FirstFrame, Pauses
<1> QED BY <1>1, <1>2, <1>3, <1>4 DEF RunInv, RunOk

LEMMA GfStartLevel == ASSUME RunInv, NEW first \in FirstWaves, StartLevel(first) PROVE RunInv'
<1> DEFINE w == first - 1
           m == Go(g, "BUILD")
           k == [m EXCEPT !.wave = w]
<1>1. g \in RunState /\ g.phase = "MENU" /\ g' = k
  BY DEF StartLevel, RunInv
<1>2. first \in 1 .. Len(Waves) /\ Len(Waves) \in Nat
  BY GameFlowAssumption
<1>3. w \in Nat /\ w < Len(Waves)
  BY <1>2
<1>4. /\ m \in RunState /\ SameRest(g, m) /\ m.phase = "BUILD"
      /\ m.prep = PrepAfter(g, "BUILD") /\ m.pause = PauseAfter(g, "BUILD") /\ m.excluded = ExcludedAfter(g, "BUILD")
  BY <1>1, GfPhases, GfGo
<1> HIDE DEF m, w
<1>5. /\ g.wave = 0 /\ g.inWave = 0 /\ g.excluded = 0 /\ g.late = 0 /\ g.prep = 0 /\ g.pause = 0
      /\ g.hp # 0 /\ g.levelEnds = 0 /\ g.door = NoDoor /\ g.question = NoFoe /\ FoesOk(g)
      /\ g.foes = {}
  BY <1>1 DEF RunInv, RunOk, ClockOk, PhaseOk, VerdictOk, FirstFrame
<1>6. m.prep = 0 /\ m.pause = 0 /\ m.excluded = 0
  BY <1>1, <1>4, <1>5 DEF PrepAfter, PauseAfter, ExcludedAfter, Pauses
<1>7. k \in RunState
  BY <1>3, <1>4 DEF RunState
<1>8. /\ k.wave = w /\ k.phase = "BUILD" /\ k.prep = 0 /\ k.pause = 0 /\ k.excluded = 0
      /\ k.inWave = 0 /\ k.late = 0 /\ k.hp = g.hp /\ k.levelEnds = 0 /\ k.door = NoDoor
      /\ k.question = NoFoe /\ SameFoes(g, k)
  BY <1>4, <1>5, <1>6 DEF RunState, SameRest, SameFoes
<1> HIDE DEF k
<1>9. FoesOk(k) /\ VerdictOk(k) /\ PhaseOk(k) /\ ClockOk(k) /\ FirstFrame(k)
  <2>1. FoesOk(k) /\ FirstFrame(k)
    BY <1>5, <1>8 DEF FoesOk, SameFoes, FirstFrame
  <2>2. VerdictOk(k) /\ ClockOk(k)
    BY <1>5, <1>8 DEF VerdictOk, ClockOk, Pauses
  <2>3. PhaseOk(k)
    BY <1>3, <1>8 DEF PhaseOk
  <2> QED BY <2>1, <2>2, <2>3
<1> QED BY <1>1, <1>7, <1>9 DEF RunInv, RunOk

LEMMA GfStartWave == ASSUME RunInv, StartWave PROVE RunInv'
<1> DEFINE w == g.wave + 1
           q == Waves[w]
           o == IF g.inWave = 0 THEN g.time ELSE g.opening
           a == [g EXCEPT !.wave = w, !.queue = q, !.opening = o]
           k == Go(a, "WAVE")
<1>1. g \in RunState /\ RunOk(g) /\ g.phase = "BUILD" /\ g' = k
  BY DEF StartWave, RunInv
<1>2. w \in 1 .. Len(Waves) /\ w \in Nat /\ w > 0
  BY <1>1, GfFields, GfLens DEF RunOk, PhaseOk
<1>3. q \in Seq(DOMAIN Kinds) /\ q # <<>> /\ o \in Nat
  BY <1>1, <1>2, GfFields, GfLens
<1>4. o = IF g.inWave = 0 THEN g.time ELSE g.opening
  OBVIOUS
<1> HIDE DEF w, q, o
<1>5. a \in RunState
  BY <1>1, <1>2, <1>3 DEF RunState
<1>6. /\ SameFoes(g, a) /\ a.phase = "BUILD" /\ a.wave = w /\ a.queue = q /\ a.opening = o
      /\ a.hp = g.hp /\ a.question = g.question /\ a.door = g.door /\ a.levelEnds = g.levelEnds
      /\ a.time = g.time /\ a.prep = g.prep /\ a.pause = g.pause /\ a.excluded = g.excluded
      /\ a.inWave = g.inWave /\ a.late = g.late
  BY <1>1 DEF RunState, SameFoes
<1> HIDE DEF a
<1>7. /\ k \in RunState /\ SameRest(a, k) /\ k.phase = "WAVE"
      /\ k.prep = 0 /\ k.pause = PauseAfter(a, "WAVE") /\ k.excluded = ExcludedAfter(a, "WAVE")
  BY <1>5, <1>6, GfPhases, GfGo
<1>8. ClockOk(k)
  <2>1. CASE g.inWave = 0
    <3>1. g.excluded = 0 /\ g.late = 0 /\ g.prep = 0 /\ g.pause = 0
      BY <1>1, <2>1 DEF RunOk, ClockOk
    <3>2. k.pause = 0 /\ k.excluded = 0
      BY <1>6, <1>7, <3>1 DEF PrepAfter, PauseAfter, ExcludedAfter, Pauses
    <3> HIDE DEF k
    <3> QED BY <1>4, <1>6, <1>7, <2>1, <3>1, <3>2 DEF SameRest, ClockOk
  <2>2. CASE g.inWave # 0
    <3>1. g.inWave > 0 /\ o = g.opening
      BY <1>1, <1>4, <2>2, GfFields
    <3>2. ClockOk(a)
      <4>1. Away(a, a.prep) = Away(g, g.prep)
        BY <1>6, <3>1 DEF Away
      <4>2. a.inWave # 0
        BY <1>6, <2>2
      <4> QED BY <1>1, <1>6, <3>1, <4>1, <4>2 DEF RunOk, ClockOk, Pauses
    <3> QED BY <1>2, <1>5, <1>6, <3>1, <3>2, GfGoClock
  <2> QED BY <2>1, <2>2
<1> HIDE DEF k
<1>9. g.hp # 0 /\ g.levelEnds = 0 /\ g.door = NoDoor /\ g.question = NoFoe /\ FoesOk(g)
  BY <1>1 DEF RunOk, PhaseOk, VerdictOk
<1>10. FoesOk(k) /\ VerdictOk(k) /\ PhaseOk(k)
  BY <1>2, <1>6, <1>7, <1>9 DEF SameRest, SameFoes, FoesOk, VerdictOk, PhaseOk
<1>11. FirstFrame(k)
  <2>1. ASSUME k.inWave = 0 PROVE k.queue # <<>> /\ k.foes = {}
    <3>1. k.foes = g.foes /\ k.queue = q /\ g.inWave = 0
      BY <1>6, <1>7, <2>1 DEF SameRest, SameFoes
    <3> QED BY <1>1, <1>3, <3>1 DEF RunInv, FirstFrame
  <2> QED BY <2>1 DEF FirstFrame
<1> QED BY <1>1, <1>7, <1>8, <1>10, <1>11 DEF RunInv, RunOk

LEMMA GfSetSpeed == ASSUME RunInv, NEW s \in Speeds, SetSpeed(s) PROVE RunInv'
<1> DEFINE k == [g EXCEPT !.speed = s]
<1>1. g \in RunState /\ RunOk(g) /\ FirstFrame(g) /\ g' = k
  BY DEF SetSpeed, RunInv
<1>2. k \in RunState
  <2>1. s \in Nat
    BY GameFlowAssumption
  <2> QED BY <1>1, <2>1 DEF RunState
<1>3. SameRun(g, k) /\ SameFoes(g, k)
  BY <1>1 DEF RunState, SameRun, SameFoes
<1> HIDE DEF k
<1>4. Kept(g, k) /\ Ids(g) \subseteq Ids(k)
  BY <1>1, <1>2, <1>3 DEF Kept, RunOk, FoesOk, SameFoes, Ids
<1>5. RunOk(k) /\ FirstFrame(k)
  BY <1>1, <1>3, <1>4, GfStillOk DEF FirstFrame, SameRun, SameFoes
<1> QED BY <1>1, <1>2, <1>5 DEF RunInv

LEMMA GfCastSpell == ASSUME RunInv, NEW id \in Ids(g), CastSpell(id) PROVE RunInv'
<1> DEFINE k == ApplyDamage(g, id)
<1>1. g \in RunState /\ RunOk(g) /\ FirstFrame(g) /\ g.phase = "WAVE" /\ g' = k
  BY DEF CastSpell, RunInv
<1>2. Kept(g, g)
  BY <1>1 DEF Kept, RunOk, SameRun
<1>3. Kept(g, k)
  BY <1>2, GfApplyDamage
<1>4. g.inWave # 0
  BY <1>1 DEF FirstFrame, Ids
<1> HIDE DEF k
<1>5. RunOk(k) /\ FirstFrame(k)
  BY <1>1, <1>3, <1>4, GfStillOk DEF Kept, SameRun, FirstFrame
<1> QED BY <1>1, <1>3, <1>5 DEF RunInv, Kept

LEMMA GfChainRuleAnswer == ASSUME RunInv, NEW correct \in BOOLEAN, ChainRuleAnswer(correct) PROVE RunInv'
<1> DEFINE f     == g.question
           open  == [g EXCEPT !.question = NoFoe]
           split == SplitBoss(open, f)
           dead  == KillEnemy(split, f, TRUE)
           a     == IF correct THEN dead ELSE open
           k     == Go(a, "WAVE")
<1>1. g \in RunState /\ RunOk(g) /\ FirstFrame(g) /\ g.phase = "CHAIN_RULE" /\ f # NoFoe /\ g' = k
  BY DEF ChainRuleAnswer, RunInv
<1>2. f \in FoeOf /\ f.id \in Ids(g)
  BY <1>1, GfFields DEF RunOk, PhaseOk
<1>3. open \in RunState
  BY <1>1 DEF RunState
<1>4. /\ SameFoes(g, open) /\ open.phase = "CHAIN_RULE" /\ open.question = NoFoe /\ open.wave = g.wave
      /\ open.hp = g.hp /\ open.door = g.door /\ open.levelEnds = g.levelEnds /\ open.time = g.time
      /\ open.prep = g.prep /\ open.pause = g.pause /\ open.excluded = g.excluded
      /\ open.inWave = g.inWave /\ open.late = g.late /\ open.opening = g.opening
  BY <1>1 DEF RunState, SameFoes
<1> HIDE DEF f, open
<1>5. FoesOk(open) /\ f.id \in Ids(open)
  BY <1>1, <1>2, <1>4 DEF RunOk, FoesOk, SameFoes, Ids
<1>6. Kept(open, a)
  <2>1. Kept(open, open)
    BY <1>3, <1>5 DEF Kept, SameRun
  <2>2. Kept(open, split) /\ Ids(open) \subseteq Ids(split)
    BY <1>2, <2>1, GfSplitBoss
  <2> HIDE DEF split
  <2>3. Kept(open, dead)
    BY <1>2, <1>5, <2>2, GfKillEnemy
  <2> HIDE DEF dead
  <2> QED BY <2>1, <2>3
<1> HIDE DEF a
<1>7. /\ a \in RunState /\ FoesOk(a) /\ SameRun(open, a)
      /\ a.phase = "CHAIN_RULE" /\ a.wave = g.wave /\ a.inWave = g.inWave
  BY <1>4, <1>6 DEF Kept, SameRun
<1>8. ClockOk(a)
  BY <1>1, <1>4, <1>7 DEF RunOk, SameRun, ClockOk, Away
<1>9. /\ g.wave > 0 /\ g.inWave > 0 /\ g.inWave # 0 /\ g.hp # 0 /\ g.levelEnds = 0 /\ g.door = NoDoor
  BY <1>1, GfFields DEF RunOk, PhaseOk, VerdictOk, ClockOk
<1>10. ClockOk(k) /\ k \in RunState /\ SameRest(a, k) /\ k.phase = "WAVE"
  BY <1>7, <1>8, <1>9, GfGoClock
<1> HIDE DEF k
<1>11. FoesOk(k)
  BY <1>7, <1>10 DEF SameRest, SameFoes, FoesOk
<1>12. VerdictOk(k) /\ PhaseOk(k) /\ FirstFrame(k)
  BY <1>4, <1>7, <1>9, <1>10 DEF SameRun, SameRest, VerdictOk, PhaseOk, FirstFrame
<1> QED BY <1>1, <1>10, <1>11, <1>12 DEF RunInv, RunOk

\* What happens behind a door leaves the run alone.
LEMMA GfDoor ==
  ASSUME RunInv, NEW d \in DoorOf, g.phase = "MONTY_HALL", g' = [g EXCEPT !.door = d]
  PROVE  RunInv'
<1> DEFINE k == [g EXCEPT !.door = d]
<1>1. g \in RunState /\ RunOk(g) /\ FirstFrame(g) /\ g' = k
  BY DEF RunInv
<1>2. k \in RunState
  BY <1>1 DEF RunState
<1>3. /\ SameFoes(g, k) /\ k.phase = "MONTY_HALL" /\ k.question = g.question /\ k.wave = g.wave
      /\ k.hp = g.hp /\ k.levelEnds = g.levelEnds /\ k.time = g.time /\ k.queue = g.queue
      /\ k.prep = g.prep /\ k.pause = g.pause /\ k.excluded = g.excluded
      /\ k.inWave = g.inWave /\ k.late = g.late /\ k.opening = g.opening
  BY <1>1 DEF RunState, SameFoes
<1> HIDE DEF k
<1>4. RunOk(k) /\ FirstFrame(k)
  BY <1>1, <1>3 DEF RunOk, FoesOk, SameFoes, VerdictOk, PhaseOk, ClockOk, Away, FirstFrame
<1> QED BY <1>1, <1>2, <1>4 DEF RunInv

LEMMA GfDoorPhase == ASSUME RunInv, g.door # NoDoor PROVE g.phase = "MONTY_HALL" /\ g.door \in DoorOf
<1> QED BY GfFields DEF RunInv, RunOk, PhaseOk

LEMMA GfDoorSelected == ASSUME RunInv, NEW door \in 1 .. 5, DoorSelected(door) PROVE RunInv'
<1>1. g.door # NoDoor
  BY DEF DoorSelected, NoDoor
<1>2. g.phase = "MONTY_HALL" /\ g.door \in DoorOf
  BY <1>1, GfDoorPhase
<1>3. PICK d \in RevealDoor(g.door, door) : g' = [g EXCEPT !.door = d]
  BY DEF DoorSelected
<1>4. g.door.count \in Nat
  BY <1>2 DEF DoorSelected, DoorOf, NoDoor
<1>5. d \in DoorOf
  <2> DEFINE c == g.door.count
  <2>1. d \in [stage : {"switch"}, count : {c}, prize : 1 .. c, chosen : {door},
               revealed : {s \in SUBSET ((1 .. c) \ {door}) : Cardinality(s) = c - 2}]
    BY DEF RevealDoor
  <2>2. c \in Nat /\ 1 .. c \subseteq Nat /\ door \in Nat
    BY <1>4
  <2> HIDE DEF c
  <2> QED BY <2>1, <2>2 DEF DoorOf
<1> QED BY <1>2, <1>3, <1>5, GfDoor

LEMMA GfSwitchDecision == ASSUME RunInv, NEW switch \in BOOLEAN, SwitchDecision(switch) PROVE RunInv'
<1> DEFINE won == FinalDoor(g.door, switch) = g.door.prize
           d   == [stage |-> "result", won |-> won]
<1>1. g.door # NoDoor /\ g' = [g EXCEPT !.door = d]
  BY DEF SwitchDecision, NoDoor
<1>2. won \in BOOLEAN
  OBVIOUS
<1> HIDE DEF won
<1>3. d \in DoorOf
  BY <1>2 DEF DoorOf
<1> HIDE DEF d
<1>4. g.phase = "MONTY_HALL"
  BY <1>1, GfDoorPhase
<1> QED BY <1>1, <1>3, <1>4, GfDoor

LEMMA GfFinishEvent == ASSUME RunInv, FinishEvent PROVE RunInv'
<1> DEFINE a == [g EXCEPT !.door = NoDoor]
           k == Go(a, "BUILD")
<1>1. g \in RunState /\ RunOk(g) /\ g.door # NoDoor /\ g' = k
  BY DEF FinishEvent, NoDoor, RunInv
<1>2. g.phase = "MONTY_HALL"
  BY <1>1, GfDoorPhase
<1>3. a \in RunState
  BY <1>1 DEF RunState, DoorOf
<1>4. /\ SameFoes(g, a) /\ a.phase = "MONTY_HALL" /\ a.door = NoDoor /\ a.question = g.question /\ a.wave = g.wave
      /\ a.hp = g.hp /\ a.levelEnds = g.levelEnds /\ a.time = g.time
      /\ a.prep = g.prep /\ a.pause = g.pause /\ a.excluded = g.excluded
      /\ a.inWave = g.inWave /\ a.late = g.late /\ a.opening = g.opening
  BY <1>1, <1>2 DEF RunState, SameFoes
<1> HIDE DEF a
<1>5. /\ g.wave > 0 /\ g.inWave > 0 /\ g.inWave # 0 /\ g.hp # 0 /\ g.levelEnds = 0
      /\ g.question = NoFoe /\ g.wave < Len(Waves) /\ FoesOk(g)
  BY <1>1, <1>2, GfFields DEF RunOk, PhaseOk, VerdictOk, ClockOk
<1>6. ClockOk(a)
  BY <1>1, <1>2, <1>4 DEF RunOk, ClockOk, Away
<1>7. ClockOk(k) /\ k \in RunState /\ SameRest(a, k) /\ k.phase = "BUILD"
  BY <1>3, <1>4, <1>5, <1>6, GfGoClock
<1> HIDE DEF k
<1>8. FoesOk(k) /\ VerdictOk(k) /\ PhaseOk(k) /\ FirstFrame(k)
  BY <1>4, <1>5, <1>7 DEF SameRest, SameFoes, FoesOk, VerdictOk, PhaseOk, FirstFrame
<1> QED BY <1>1, <1>7, <1>8 DEF RunInv, RunOk

(***************************************************************************)
(* The run                                                                 *)
(***************************************************************************)
\* Every step keeps the enemies, the verdict, the phase's belongings and the
\* open interval of the clock sound.
THEOREM RunInvHolds == Spec => []RunInv
<1>1. Init => RunInv
  BY GfInit
<1>2. RunInv /\ [Next]_vars => RunInv'
  <2> SUFFICES ASSUME RunInv, [Next]_vars PROVE RunInv'
    OBVIOUS
  <2>1. CASE \E first \in FirstWaves : StartLevel(first)
    BY <2>1, GfStartLevel
  <2>2. CASE StartWave
    BY <2>2, GfStartWave
  <2>3. CASE Frame
    BY <2>3, GfFrame
  <2>4. CASE Answer
    BY <2>4, GfChainRuleAnswer, GfDoorSelected, GfSwitchDecision, GfFinishEvent DEF Answer
  <2>5. CASE \E s \in Speeds : SetSpeed(s)
    BY <2>5, GfSetSpeed
  <2>6. CASE \E id \in Ids(g) : CastSpell(id)
    BY <2>6, GfCastSpell
  <2>7. CASE UNCHANGED vars
    BY <2>7 DEF vars, RunInv
  <2> QED BY <2>1, <2>2, <2>3, <2>4, <2>5, <2>6, <2>7 DEF Next
<1> QED BY <1>1, <1>2, PTL DEF Spec

\* A run is won or lost once, and every enemy that appeared stands or was removed
\* once, whatever the waves, the splits and the bosses call in.
THEOREM RunSettledHolds == Spec => []RunSettled
<1>1. RunInv => RunSettled
  BY DEF RunInv, RunOk, VerdictOk, FoesOk, RunSettled, OneVerdict, EveryFoeOnce
<1> QED BY <1>1, RunInvHolds, PTL

\* The score's clock excludes every interval between waves, and each of them once.
THEOREM ClockExactHolds == Spec => []ClockExact
<1>1. RunInv => ClockExact
  BY DEF RunInv, RunOk, ClockOk, ClockExact, Away
<1> QED BY <1>1, RunInvHolds, PTL

=====================================
