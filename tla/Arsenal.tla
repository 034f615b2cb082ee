------------------------------ MODULE Arsenal ------------------------------
(***************************************************************************)
(* What the player buys in a run: towers, upgrades, shop buffs, spells and *)
(* Monty Hall rewards, and the values the systems cache from them.  The    *)
(* engine is single threaded: an action is a player event with every       *)
(* listener it reaches, or one frame with the systems in the order they    *)
(* are registered.  A cached number is kept as the tuple of what it was    *)
(* computed from, so that a stale cache is visible whatever the formula.   *)
(***************************************************************************)
EXTENDS Integers, FiniteSets, SequencesExt, GamePhases

CONSTANTS
  Types,       \* tower types on offer
  Cells,       \* legal cells, along one line of the grid
  Curves,      \* expressions a magic tower may get, as the cells they light
  Items, Spells, Rewards,   \* shop items, spells and door rewards on offer
  StartGold, WaveBonus, KillGold, FullHp, LeakDamage,
  PaidEntry,   \* whether the initial answer was skipped for 50 gold
  TickSecs,    \* seconds a modelled frame stands for
  MaxWaves,    \* waves of the level
  MaxTowers, MaxOps, MaxKills   \* bounds of the exploration

VARIABLES
  game,        \* Game.state, the entity lists and the systems' own fields
  earned,      \* history: gold that came in, the starting gold included
  ops, waves, kills         \* what the bounds count
vars == <<game, earned, ops, waves, kills>>

(* ---- the catalogues -------------------------------------------------------- *)
TowerCost == [MAGIC |-> 60, RADAR_A |-> 50, MATRIX |-> 80, CALCULUS |-> 100]

\* Percent of the tower's cost, by the level the upgrade starts from.
UpgradePercent == <<60, 100>>

\* Effects that move an accumulator; the other effects are instant.
Deltas ==
  [ DAMAGE_1_2 |-> [stat |-> "damage", by |-> 20],  DAMAGE_1_5 |-> [stat |-> "damage", by |-> 50],
    DAMAGE_2   |-> [stat |-> "damage", by |-> 100], SPEED_1_15 |-> [stat |-> "speed", by |-> 15],
    RANGE_1_15 |-> [stat |-> "range", by |-> 15],   RANGE_1_5  |-> [stat |-> "range", by |-> 50],
    ENEMY_0_85 |-> [stat |-> "foeSpeed", by |-> -15], ENEMY_0_6 |-> [stat |-> "foeSpeed", by |-> -40],
    VULN_1_1   |-> [stat |-> "vuln", by |-> 10],
    GOLD_DOUBLE |-> [stat |-> "gold", by |-> 1],    GOLD_TRIPLE |-> [stat |-> "gold", by |-> 2] ]

Stats == {"damage", "speed", "range", "foeSpeed", "vuln", "gold"}

Heals == [HEAL_5 |-> 5, HEAL_10 |-> 10, HEAL_FULL |-> FullHp]

ShopItems ==
  [ atk_20     |-> [cost |-> 80,  secs |-> 60, effect |-> "DAMAGE_1_2"],
    speed_15   |-> [cost |-> 100, secs |-> 45, effect |-> "SPEED_1_15"],
    range_15   |-> [cost |-> 70,  secs |-> 50, effect |-> "RANGE_1_15"],
    slow_15    |-> [cost |-> 90,  secs |-> 30, effect |-> "ENEMY_0_85"],
    weak_10    |-> [cost |-> 110, secs |-> 40, effect |-> "VULN_1_1"],
    heal_5     |-> [cost |-> 60,  secs |-> 0,  effect |-> "HEAL_5"],
    heal_10    |-> [cost |-> 100, secs |-> 0,  effect |-> "HEAL_10"],
    shield     |-> [cost |-> 120, secs |-> 30, effect |-> "SHIELD"],
    gold_mult  |-> [cost |-> 50,  secs |-> 30, effect |-> "GOLD_DOUBLE"] ]

SpellBook ==
  [ fireball  |-> [cost |-> 80,  cooldown |-> 12, aimed |-> TRUE],
    slow      |-> [cost |-> 60,  cooldown |-> 15, aimed |-> TRUE],
    lightning |-> [cost |-> 100, cooldown |-> 18, aimed |-> TRUE],
    haste     |-> [cost |-> 120, cooldown |-> 25, aimed |-> FALSE] ]

DoorRewards ==
  [ atk_double  |-> [secs |-> 30, effect |-> "DAMAGE_2"],
    range_up    |-> [secs |-> 25, effect |-> "RANGE_1_5"],
    slow_all    |-> [secs |-> 20, effect |-> "ENEMY_0_6"],
    gold_rush   |-> [secs |-> 20, effect |-> "GOLD_TRIPLE"],
    heal_full   |-> [secs |-> 0,  effect |-> "HEAL_FULL"],
    free_towers |-> [secs |-> 0,  effect |-> "FREE_TOWERS"] ]

HasteSecs == 8
SkipCost == 50
CalculusOpCost == 50
InterferenceRadius == 2      \* 2.5 between grid cells of one line
InterferenceCap == 4         \* the factor stays at its floor from here on

ASSUME ArsenalAssumption ==
  /\ Cells \subseteq Int /\ Curves \subseteq SUBSET Cells /\ PaidEntry \in BOOLEAN
  /\ {StartGold, WaveBonus, KillGold} \subseteq Nat
  /\ {FullHp, LeakDamage, TickSecs} \subseteq Nat \ {0}
  /\ {MaxTowers, MaxOps, MaxWaves, MaxKills} \subseteq Nat
  /\ Types \subseteq DOMAIN TowerCost /\ Items \subseteq DOMAIN ShopItems
  /\ Spells \subseteq DOMAIN SpellBook /\ Rewards \subseteq DOMAIN DoorRewards

Ticks(secs) == (secs + TickSecs - 1) \div TickSecs
AtLeast(low, n) == IF n < low THEN low ELSE n
AtMost(high, n) == IF n > high THEN high ELSE n

(* ---- the run before it starts ---------------------------------------------- *)
NoBonus == [s \in Stats |-> 0]

FreshGame ==
  [ phase |-> "MENU", gold |-> 0, cost |-> 0, hp |-> FullHp,
    towers |-> <<>>, nextId |-> 1, pets |-> {}, lasers |-> {},
    buffs |-> <<>>, bonus |-> NoBonus, shieldHits |-> 0, free |-> 0,
    cds |-> [s \in Spells |-> 0], layoutDirty |-> TRUE ]

(* ---- EconomySystem --------------------------------------------------------- *)
ChangeGold(g, d) == [g EXCEPT !.gold = AtLeast(0, @ + d)]
AddCost(g, d)    == [g EXCEPT !.cost = @ + d]
Charge(g, c)     == AddCost(ChangeGold(g, -c), c)

ChangeHp(g, d) ==
  LET hp == AtLeast(0, AtMost(FullHp, g.hp + d))
      h  == [g EXCEPT !.hp = hp]
  IN IF hp = 0 THEN SetPhase(h, "GAME_OVER") ELSE h

GoldFactor(g) == 1 + g.bonus.gold

(* ---- cached tower stats ---------------------------------------------------- *)
\* recomputeEffectiveDamage and the effectiveRange product.
DamageOf(g, t) == <<t.level, t.magic, t.near, g.bonus.damage>>
RangeOf(g, t)  == <<t.level, g.bonus.range>>

\* game.towers is appended to and filtered: its order is that of the ids.
Standing(g)  == DOMAIN g.towers
Update(g, t) == [g EXCEPT !.towers[t.id] = t]

WithDamage(g, t) == [t EXCEPT !.damage = DamageOf(g, t)]
WithRange(g, t)  == [t EXCEPT !.range = RangeOf(g, t)]

RecalcDamage(g) == [g EXCEPT !.towers = [i \in Standing(g) |-> WithDamage(g, g.towers[i])]]
RecalcRange(g)  == [g EXCEPT !.towers = [i \in Standing(g) |-> WithRange(g, g.towers[i])]]

Distance(t, u) == IF t.cell < u.cell THEN u.cell - t.cell ELSE t.cell - u.cell

Neighbours(g, t) ==
  Cardinality({i \in Standing(g) \ {t.id} : /\ g.towers[i].type = t.type
                                            /\ Distance(t, g.towers[i]) <= InterferenceRadius})

\* TowerInterferenceSystem._recomputeAll
WithNear(g, t) == [t EXCEPT !.near = AtMost(InterferenceCap, Neighbours(g, t))]
RecomputeInterference(g) ==
  RecalcDamage([g EXCEPT !.towers = [i \in Standing(g) |-> WithNear(g, g.towers[i])]])

(* ---- calculus pets --------------------------------------------------------- *)
\* The pets of a tower are one record: they are spawned and dismissed together.
PetsOf(g, t) == [owner |-> t.id, exponent |-> t.exponent, level |-> t.level,
                 magic |-> t.magic, phase |-> g.phase]

HasFunction(t) == t.type = "CALCULUS" /\ t.exponent > 0

RespawnPets(g, ts) ==
  [g EXCEPT !.pets = {p \in @ : p.owner \notin {t.id : t \in ts}} \cup {PetsOf(g, t) : t \in ts}]

ActiveBuffsChanged(g) ==
  RespawnPets(g, {g.towers[i] : i \in {j \in Standing(g) : HasFunction(g.towers[j])}})

(* ---- BuffSystem ------------------------------------------------------------ *)
Recalc(g, stat) == CASE stat = "damage" -> RecalcDamage(g)
                     [] stat = "range"  -> RecalcRange(g)
                     [] OTHER           -> g

ApplyEffect(g, e) ==
  CASE e \in DOMAIN Deltas -> Recalc([g EXCEPT !.bonus[Deltas[e].stat] = @ + Deltas[e].by], Deltas[e].stat)
    [] e \in DOMAIN Heals  -> ChangeHp(g, Heals[e])
    [] e = "SHIELD"        -> [g EXCEPT !.shieldHits = 3]
    [] e = "FREE_TOWERS"   -> [g EXCEPT !.free = @ + 2]

\* The tower and gold accumulators are clamped at zero, the enemy ones are not.
RevertEffect(g, e) ==
  IF e = "SHIELD" THEN [g EXCEPT !.shieldHits = 0]
  ELSE LET stat == Deltas[e].stat
           left == g.bonus[stat] - Deltas[e].by
       IN Recalc([g EXCEPT !.bonus[stat] =
                    IF stat \in {"foeSpeed", "vuln"} THEN left ELSE AtLeast(0, left)], stat)

ApplyExternalBuff(g, e, secs) ==
  LET h == ApplyEffect(g, e)
  IN IF secs = 0 THEN h
     ELSE ActiveBuffsChanged([h EXCEPT !.buffs = Append(@, [effect |-> e, left |-> Ticks(secs)])])

\* Mutant: the shield's counter runs out and its entry stays (BUG-001).
RetireNothing(g, e) == g

RetireActiveBuff(g, e) ==
  LET at == {i \in DOMAIN g.buffs : g.buffs[i].effect = e}
      i  == CHOOSE j \in at : \A k \in at : j <= k
  IN IF at = {} THEN g
     ELSE ActiveBuffsChanged([RevertEffect(g, e) EXCEPT !.buffs = RemoveAt(@, i)])

Expire(g, i) == IF g.buffs[i].left > 0 THEN g
                ELSE [RevertEffect(g, g.buffs[i].effect) EXCEPT !.buffs = RemoveAt(@, i)]

\* One frame of the timers, the last entry first.
BuffUpdate(g) ==
  LET aged == [g EXCEPT !.buffs = [i \in DOMAIN g.buffs |-> [g.buffs[i] EXCEPT !.left = @ - 1]]]
      after[n \in 0..Len(g.buffs)] ==
        IF n = 0 THEN aged ELSE Expire(after[n - 1], Len(g.buffs) + 1 - n)
      done == after[Len(g.buffs)]
  IN IF g.phase # "WAVE" THEN g
     ELSE IF Len(done.buffs) < Len(g.buffs) THEN ActiveBuffsChanged(done) ELSE done

(* ---- towers ---------------------------------------------------------------- *)
BareTower(g, type, cell) ==
  [id |-> g.nextId, type |-> type, cell |-> cell, level |-> 1, spend |-> 0,
   magic |-> FALSE, near |-> 0, damage |-> <<>>, range |-> <<>>,
   pair |-> 0, mode |-> "debuff", curve |-> {}, exponent |-> 0, chained |-> FALSE]

\* Mutant: createTower is not given the running buffs (Bug #1).
NewTowerBare(g, type, cell) ==
  LET t == BareTower(g, type, cell)
  IN [t EXCEPT !.damage = DamageOf(g, t), !.range = <<1, 0>>]

NewTower(g, type, cell) ==
  LET t == BareTower(g, type, cell)
  IN [t EXCEPT !.damage = DamageOf(g, t), !.range = RangeOf(g, t)]

Pair(g, a, b) == [g EXCEPT !.towers[a].pair = b, !.towers[b].pair = a]

\* The nearest unpaired matrix tower, the oldest of those at one distance.
AutoPair(g, t) ==
  LET free == {i \in Standing(g) \ {t.id} : g.towers[i].type = "MATRIX" /\ g.towers[i].pair = 0}
      best == CHOOSE i \in free : \A j \in free :
                \/ Distance(t, g.towers[i]) < Distance(t, g.towers[j])
                \/ Distance(t, g.towers[i]) = Distance(t, g.towers[j]) /\ i <= j
  IN IF free = {} THEN g ELSE Pair(g, t.id, best)

CommitPlacement(g, t) ==
  LET placed == [Charge(g, IF g.free > 0 THEN 0 ELSE TowerCost[t.type]) EXCEPT
                   !.towers = [i \in Standing(g) \cup {t.id} |-> IF i = t.id THEN t ELSE g.towers[i]],
                   !.nextId = @ + 1,
                   !.free = AtLeast(0, @ - 1), !.layoutDirty = TRUE]
      counted == RecomputeInterference(placed)
  IN IF t.type = "MATRIX" THEN AutoPair(counted, t) ELSE counted

UpgradeCost(t) == AtLeast(1, (TowerCost[t.type] * UpgradePercent[t.level]) \div 100)

Upgraded(g, t) ==
  LET u == [t EXCEPT !.level = @ + 1, !.spend = @ + UpgradeCost(t)]
      h == Update(Charge(g, UpgradeCost(t)),
                  [u EXCEPT !.damage = DamageOf(g, u), !.range = RangeOf(g, u)])
  IN IF HasFunction(t) THEN RespawnPets(h, {h.towers[t.id]}) ELSE h

RefundBase(t) == (TowerCost[t.type] \div 2) + (t.spend \div 2)
RefundGold(g, t) == AtMost(TowerCost[t.type] + t.spend, RefundBase(t) * GoldFactor(g))

\* Mutant: the partner keeps pointing at the tower that was sold.
FreePartnerNever(g, id) == [g EXCEPT !.lasers = {l \in @ : id \notin l}]

\* MatrixTowerSystem on TOWER_REFUND_RESULT: only the first partner is freed.
FreePartner(g, id) ==
  LET at == {i \in Standing(g) : g.towers[i].pair = id}
      i  == CHOOSE j \in at : \A k \in at : j <= k
      h  == [g EXCEPT !.lasers = {l \in @ : id \notin l}]
  IN IF at = {} THEN h ELSE [h EXCEPT !.towers[i].pair = 0]

Refunded(g, t) ==
  LET sold == [g EXCEPT !.towers = [i \in Standing(g) \ {t.id} |-> g.towers[i]]]
      paid == AddCost(ChangeGold(sold, RefundGold(g, t)), -RefundBase(t))
  IN FreePartner(RecomputeInterference([paid EXCEPT !.layoutDirty = TRUE]), t.id)

(* ---- one frame ------------------------------------------------------------- *)

\* Every buff is dropped, then in a wave the buff zones light their towers.
Lit(g, t) == \E i \in Standing(g) \ {t.id} : LET m == g.towers[i] IN
               m.type = "MAGIC" /\ m.mode = "buff" /\ t.cell \in m.curve
WithMagic(g, t) == [t EXCEPT !.magic = (g.phase = "WAVE" /\ Lit(g, t))]
MagicUpdate(g) == RecalcDamage([g EXCEPT !.towers = [i \in Standing(g) |-> WithMagic(g, g.towers[i])]])

InterferenceUpdate(g) ==
  IF g.phase = "WAVE" /\ g.layoutDirty THEN RecomputeInterference([g EXCEPT !.layoutDirty = FALSE]) ELSE g

MatrixUpdate(g) ==
  IF g.phase # "WAVE" THEN g
  ELSE [g EXCEPT !.lasers = @ \cup {{i, g.towers[i].pair} :
          i \in {j \in Standing(g) : g.towers[j].pair \in Standing(g)}}]

SpellUpdate(g) == IF g.phase # "WAVE" THEN g
                  ELSE [g EXCEPT !.cds = [s \in Spells |-> AtLeast(0, @[s] - 1)]]

\* The systems from "buff" on, in the order register-systems.ts adds them.
RestOfFrame(g) == SpellUpdate(MatrixUpdate(MagicUpdate(InterferenceUpdate(BuffUpdate(g)))))

\* ENEMY_KILLED, ENEMY_REACHED_ORIGIN and WAVE_END as EconomySystem hears them.
Killed(g) == ChangeGold(g, KillGold * GoldFactor(g))

Leaked(g) ==
  LET hits == g.shieldHits - 1
      h == IF g.shieldHits = 0 THEN g
           ELSE IF hits > 0 THEN [g EXCEPT !.shieldHits = hits]
           ELSE RetireActiveBuff([g EXCEPT !.shieldHits = 0], "SHIELD")
      damage == IF g.shieldHits = 0 THEN LeakDamage ELSE (LeakDamage + 1) \div 2
  IN ChangeHp(h, -damage)

\* One enemy gets through, or three in one frame.
Leaks(g) == {Leaked(g)} \cup {Leaked(h) : h \in {Leaked(k) : k \in {Leaked(g)}}}

WaveEnded(g, to) == SetPhase(ChangeGold(g, WaveBonus), to)

(* ---- actions --------------------------------------------------------------- *)
Init == /\ game = FreshGame /\ earned = 0 /\ ops = 0 /\ waves = 0 /\ kills = 0

Spend == ops < MaxOps /\ ops' = ops + 1
Play(g) == game' = g /\ UNCHANGED <<earned, waves, kills>>

\* LEVEL_START: useGameLoop's listener runs first and EconomySystem's after it.
StartLevel ==
  /\ game.phase = "MENU"
  /\ LET asked == IF PaidEntry THEN Charge(FreshGame, SkipCost) ELSE FreshGame
     IN game' = SetPhase([asked EXCEPT !.gold = StartGold], "BUILD")
  /\ earned' = StartGold /\ UNCHANGED <<ops, waves, kills>>

Place(type, cell) ==
  /\ game.phase = "BUILD" /\ game.nextId <= MaxTowers
  /\ \A i \in Standing(game) : game.towers[i].cell # cell
  /\ game.free > 0 \/ game.gold >= TowerCost[type]
  /\ Play(CommitPlacement(game, NewTower(game, type, cell))) /\ UNCHANGED ops

Upgrade(id) ==
  /\ game.phase \in {"BUILD", "WAVE"} /\ Spend
  /\ LET t == game.towers[id]
     IN /\ t.level <= Len(UpgradePercent) /\ game.gold >= UpgradeCost(t)
        /\ Play(Upgraded(game, t))

\* The panel sells in the build phase; what a buff adds to the price is income.
Refund(id) ==
  /\ game.phase = "BUILD" /\ Spend
  /\ LET t == game.towers[id]
     IN /\ game' = Refunded(game, t)
        /\ earned' = earned + RefundGold(game, t) - RefundBase(t)
  /\ UNCHANGED <<waves, kills>>

\* The panel frees the old partner and lists unpaired towers only.
PairWith(id, other) ==
  /\ game.phase \in {"BUILD", "WAVE"} /\ id # other /\ Spend
  /\ LET t == game.towers[id]
         o == game.towers[other]
         freed == IF t.pair = 0 THEN game ELSE [game EXCEPT !.towers[t.pair].pair = 0]
         stale == {l \in game.lasers : id \in l \/ other \in l}
     IN /\ t.type = "MATRIX" /\ o.type = "MATRIX" /\ o.pair = 0
        /\ Play(Pair([freed EXCEPT !.lasers = @ \ stale], id, other))

SelectFunction(id, curve) ==
  /\ game.phase \in {"BUILD", "WAVE"} /\ Spend
  /\ game.towers[id].type = "MAGIC" /\ game.towers[id].curve # curve
  /\ Play(Update(game, [game.towers[id] EXCEPT !.curve = curve]))

ChangeMode(id) ==
  /\ game.phase \in {"BUILD", "WAVE"} /\ Spend /\ game.towers[id].type = "MAGIC"
  /\ Play(Update(game, [game.towers[id] EXCEPT !.mode = IF @ = "buff" THEN "debuff" ELSE "buff"]))

\* A first operation is free; the exponent alone decides whether one collapses.
SelectPreset(id, n) ==
  /\ game.phase \in {"BUILD", "WAVE"} /\ Spend
  /\ LET t == game.towers[id]
     IN t.type = "CALCULUS" /\ t.exponent = 0 /\ Play(Update(game, [t EXCEPT !.exponent = n]))

ApplyCalcOp(n, op) == CASE op = "derivative"  -> AtLeast(0, n - 1)
                        [] op = "derivative2" -> AtLeast(0, n - 2)
                        [] op = "integral"    -> n + 1

CollapseRefund(g) == Charge(g, -CalculusOpCost)

ApplyOperation(id, op) ==
  /\ game.phase \in {"BUILD", "WAVE"} /\ Spend
  /\ LET t == game.towers[id]
         n == ApplyCalcOp(t.exponent, op)
         paid == IF t.chained THEN Charge(game, CalculusOpCost) ELSE game
         u == IF n = 0 THEN [t EXCEPT !.exponent = 1] ELSE [t EXCEPT !.exponent = n, !.chained = TRUE]
         done == RespawnPets(Update(paid, u), {u})
     IN /\ HasFunction(t) /\ (t.chained => game.gold >= CalculusOpCost)
        /\ Play(IF n = 0 /\ t.chained THEN CollapseRefund(done) ELSE done)

\* The shop opens in the build phase and disables a buff that is running.
Purchase(item) ==
  LET def == ShopItems[item] IN
  /\ game.phase = "BUILD" /\ Spend /\ game.gold >= def.cost
  /\ \A i \in DOMAIN game.buffs : game.buffs[i].effect # def.effect
  /\ def.effect \in DOMAIN Heals => game.hp < FullHp
  /\ Play(ApplyExternalBuff(Charge(game, def.cost), def.effect, def.secs))

\* Mutant: a cast that hit nothing gives the gold back and keeps the cost.
RefundSpellGold(g, s) == [ChangeGold(g, SpellBook[s].cost) EXCEPT !.cds[s] = 0]

RefundSpell(g, s) == [Charge(g, -SpellBook[s].cost) EXCEPT !.cds[s] = 0]

CastSpell(s, hit) ==
  LET def == SpellBook[s]
      cast == [Charge(game, def.cost) EXCEPT !.cds[s] = Ticks(def.cooldown)]
  IN /\ game.phase = "WAVE" /\ game.gold >= def.cost /\ game.cds[s] = 0 /\ Spend
     /\ \/ def.aimed /\ Play(IF hit THEN cast ELSE RefundSpell(cast, s))
        \/ ~def.aimed /\ Play(ApplyExternalBuff(cast, "DAMAGE_1_5", HasteSecs))

StartWave ==
  /\ game.phase = "BUILD" /\ waves' = waves + 1
  /\ game' = SetPhase([game EXCEPT !.layoutDirty = TRUE], "WAVE")
  /\ UNCHANGED <<earned, ops, kills>>

\* What the enemies did before the buffs are ticked in the same frame.
Frame ==
  /\ game.phase = "WAVE"
  /\ \/ game' = RestOfFrame(game) /\ UNCHANGED <<earned, kills>>
     \/ /\ kills < MaxKills /\ kills' = kills + 1
        /\ game' = RestOfFrame(Killed(game))
        /\ earned' = earned + KillGold * GoldFactor(game)
     \/ \E h \in Leaks(game) : game' = RestOfFrame(h) /\ UNCHANGED <<earned, kills>>
     \/ \E to \in IF waves = MaxWaves THEN {"LEVEL_END"} ELSE {"BUILD", "MONTY_HALL"} :
          /\ game' = RestOfFrame(WaveEnded(game, to))
          /\ earned' = earned + WaveBonus /\ UNCHANGED kills
  /\ UNCHANGED <<ops, waves>>

\* MONTY_HALL: a lost door only goes back to building.
TakeDoor ==
  /\ game.phase = "MONTY_HALL"
  /\ \/ Play(SetPhase(game, "BUILD"))
     \/ \E r \in Rewards :
          Play(SetPhase(ApplyExternalBuff(game, DoorRewards[r].effect, DoorRewards[r].secs), "BUILD"))
  /\ UNCHANGED ops

Tower(id) == Upgrade(id) \/ Refund(id) \/ ChangeMode(id)
             \/ \E o \in Standing(game) : PairWith(id, o)
             \/ \E c \in Curves : SelectFunction(id, c)
             \/ \E n \in 1..2 : SelectPreset(id, n)
             \/ \E op \in {"derivative", "derivative2", "integral"} : ApplyOperation(id, op)

Next ==
  \/ StartLevel \/ StartWave \/ Frame \/ TakeDoor
  \/ \E type \in Types, cell \in Cells : Place(type, cell)
  \/ \E id \in Standing(game) : Tower(id)
  \/ \E item \in Items : Purchase(item)
  \/ \E s \in Spells, hit \in BOOLEAN : CastSpell(s, hit)

Spec == Init /\ [][Next]_vars

(* ---- properties ------------------------------------------------------------ *)
Part(b, stat) == IF b.effect \in DOMAIN Deltas /\ Deltas[b.effect].stat = stat THEN Deltas[b.effect].by ELSE 0
SumOf(buffs, stat) ==
  LET sum[n \in 0..Len(buffs)] == IF n = 0 THEN 0 ELSE sum[n - 1] + Part(buffs[n], stat)
  IN sum[Len(buffs)]

\* Every accumulator is the sum of the buffs still running, however purchases,
\* door rewards, spells, expiries and early retirements overlapped, and the
\* shield is up exactly while its entry runs.
BonusesMatchBuffs ==
  /\ \A stat \in Stats : game.bonus[stat] = SumOf(game.buffs, stat)
  /\ game.shieldHits > 0 <=> \E i \in DOMAIN game.buffs : game.buffs[i].effect = "SHIELD"
  /\ \A i \in DOMAIN game.buffs : game.buffs[i].left > 0

\* A tower's cached damage and range are those its level, neighbours, magic zone
\* and the running buffs give, whichever of them changed last.
StatsFresh == \A i \in Standing(game) : LET t == game.towers[i] IN
  /\ t.damage = DamageOf(game, t) /\ t.range = RangeOf(game, t)
  /\ t.near = AtMost(InterferenceCap, Neighbours(game, t))
  /\ t.magic => game.phase = "WAVE"

\* Matrix towers are matched two by two among those standing, and a laser joins
\* two towers that are a pair now.
PairsMatched ==
  /\ \A i \in Standing(game) : LET p == game.towers[i].pair IN
       p # 0 => p \in Standing(game) \ {i} /\ game.towers[p].pair = i
  /\ \A l \in game.lasers : \E i \in Standing(game) : l = {i, game.towers[i].pair}

\* Gold in hand plus the cost the score divides by is the gold that came in: no
\* charge, refund, collapse or missed cast reaches one and not the other.  Only
\* the 50 gold of a skipped initial answer reach the cost alone: the gold they
\* are taken from is set to the starting gold by the next listener.
LedgerBalanced ==
  game.phase # "MENU" => game.gold + game.cost = earned + (IF PaidEntry THEN SkipCost ELSE 0)
=============================================================================
