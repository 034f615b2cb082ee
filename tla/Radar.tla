------------------------------- MODULE Radar -------------------------------
(***************************************************************************)
(* The sweep of a Radar A tower: the needle that circles, or wipes inside  *)
(* a restricted arc, the hit an enemy takes when the needle's band first   *)
(* reaches it, the pulse that replaces it where the arc is narrower than   *)
(* the band, and the panel, upgrades and sales that move the arc or the    *)
(* band between waves.  Angles are whole units of a circle of RdCircle and *)
(* time is counted in ticks of the simulation.  The needle moves the same  *)
(* for every enemy: one that stays where it is stands for all of them.     *)
(* Names start with Rd, this module being composed with others in Play.    *)
(***************************************************************************)
EXTENDS Integers

CONSTANTS
  RdCircle,  \* units of a full circle
  RdArcs,    \* <<start, end>> pairs entered in the panel
  RdSpeeds,  \* units a tick, before and after upgrades
  RdWidths,  \* half-widths of the band, before and after upgrades
  RdCalls    \* bound on the changes made between waves

ASSUME RdAssumption ==
  /\ RdCircle \in Nat \ {0} /\ RdCalls \in Nat
  /\ RdArcs \subseteq (0 .. RdCircle) \X (0 .. RdCircle)
  /\ RdSpeeds \subseteq 1 .. RdCircle /\ RdWidths \subseteq 1 .. RdCircle
  \* A tick's step (4 rad/s at 60 ticks a second) is less than the band (half a radian
  \* and more to each side) and fits in what the band leaves free of the circle.
  /\ \A speed \in RdSpeeds, width \in RdWidths : speed < 2 * width /\ speed + 2 * width <= RdCircle

VARIABLES
  rdTower,   \* the tower and its upgrades
  rdSystem,  \* the entry of each map of RadarTowerSystem
  rdFoe      \* an enemy, and the ticks since it was last hit
rdVars == <<rdTower, rdSystem, rdFoe>>

(* ---- angles ----------------------------------------------------------------------- *)
RdTurn(a) == a % RdCircle                    \* normalizeTwoPi
RdRel(angle, start) == RdTurn(angle - start)
RdSpan(start, end) ==
  LET raw == end - start
  IN IF raw \in {-RdCircle, RdCircle} THEN RdCircle ELSE IF raw < 0 THEN raw + RdCircle ELSE raw
RdInArc(angle, t) == RdRel(angle, t.start) <= RdSpan(t.start, t.end)
RdGap(a, b) == LET d == RdTurn(a - b) IN IF d <= RdCircle - d THEN d ELSE RdCircle - d

\* The arc is narrower than the band.
RdNeverNarrow(t) == FALSE
RdNarrow(t) == t.restrict /\ RdSpan(t.start, t.end) < 2 * t.width

(* ---- the system ------------------------------------------------------------------- *)
RdNowhere == RdCircle  \* no entry in _sweepAngles
RdForgotten == [angle |-> RdNowhere, dir |-> 1, band |-> FALSE, timer |-> 0]

\* _advanceNeedle: a wall is always touched.
RdAdvanced(sy, t) ==
  LET from == IF sy.angle # RdNowhere THEN sy.angle ELSE IF t.restrict THEN t.start ELSE 0
      span == RdSpan(t.start, t.end)
      at == IF RdRel(from, t.start) > span THEN span ELSE RdRel(from, t.start)
      s == at + sy.dir * t.speed
  IN CASE ~t.restrict -> [sy EXCEPT !.angle = RdTurn(from + t.speed)]
       [] t.restrict /\ s >= span -> [sy EXCEPT !.angle = RdTurn(t.start + span), !.dir = -1]
       [] t.restrict /\ s < span /\ s <= 0 -> [sy EXCEPT !.angle = t.start % RdCircle, !.dir = 1]
       [] OTHER -> [sy EXCEPT !.angle = RdTurn(t.start + s)]

\* Whether the enemy is within what the tower may hit, and under the band.
RdAimed(t) == rdFoe.here /\ (t.restrict => RdInArc(rdFoe.at, t))
RdUnder(sy, t) == RdAimed(t) /\ RdGap(rdFoe.at, sy.angle) < t.width

\* The enemy is hit, or its ticks are counted; an enemy out of reach is not waiting.
RdHit == rdFoe' = [rdFoe EXCEPT !.hit = TRUE, !.since = 0]
RdSpared == rdFoe' = [rdFoe EXCEPT !.since = IF RdAimed(rdTower) THEN @ + 1 ELSE 0, !.hit = @ /\ RdAimed(rdTower)]

\* A rising edge: the band of the last tick did not hold the enemy.
RdRises(sy) == RdUnder(sy, rdTower) /\ ~sy.band
RdSweep ==
  LET moved == RdAdvanced(rdSystem, rdTower)
  IN /\ ~RdNarrow(rdTower)
     /\ rdSystem' = [moved EXCEPT !.band = RdUnder(moved, rdTower)]
     /\ IF RdRises(moved) THEN RdHit ELSE RdSpared
\* _pulseNarrowArc: the overshoot is carried over; _inBand is left alone.
RdPulse ==
  LET moved == RdAdvanced(rdSystem, rdTower)
      due == rdSystem.timer - 1 <= 0
      interval == (2 * rdTower.width) \div rdTower.speed
  IN /\ RdNarrow(rdTower)
     /\ rdSystem' = [moved EXCEPT !.timer = IF due THEN @ - 1 + interval ELSE @ - 1]
     /\ IF due /\ RdAimed(rdTower) THEN RdHit ELSE RdSpared

RdTick ==
  /\ rdTower.phase = "WAVE" /\ rdTower.built /\ rdTower.configured /\ ~rdTower.disabled
  /\ RdSweep \/ RdPulse
  /\ UNCHANGED rdTower

(* ---- between waves, and around the tower ----------------------------------------- *)
RdInit ==
  /\ rdTower \in [phase : {"BUILD"}, built : {TRUE}, configured : {FALSE}, disabled : {FALSE}, start : {0},
                  end : {RdCircle \div 4}, restrict : {FALSE}, speed : RdSpeeds, width : RdWidths, calls : {0}]
  /\ rdSystem = RdForgotten
  /\ rdFoe = [at |-> 0, here |-> FALSE, hit |-> FALSE, since |-> 0]

RdPanel == rdTower.phase = "BUILD" /\ rdTower.built /\ rdTower.calls < RdCalls
RdApply ==
  /\ RdPanel
  /\ \E arc \in RdArcs, restrict \in BOOLEAN :
       /\ restrict => arc[1] # arc[2]
       /\ rdTower' = [rdTower EXCEPT !.start = arc[1], !.end = arc[2], !.restrict = restrict,
                                     !.configured = TRUE, !.calls = @ + 1]
  /\ rdSystem' = RdForgotten
  /\ UNCHANGED rdFoe
\* TowerUpgradeSystem: the maps of the radar keep their entries.
RdUpgrade ==
  /\ rdTower.phase = "BUILD" /\ rdTower.built /\ rdTower.calls < RdCalls
  /\ \E speed \in RdSpeeds, width \in RdWidths :
       /\ speed >= rdTower.speed /\ width >= rdTower.width
       /\ rdTower' = [rdTower EXCEPT !.speed = speed, !.width = width, !.calls = @ + 1]
  /\ UNCHANGED <<rdSystem, rdFoe>>
RdSold ==
  /\ rdTower.phase = "BUILD" /\ rdTower.built
  /\ rdTower' = [rdTower EXCEPT !.built = FALSE]
  /\ rdSystem' = RdForgotten
  /\ UNCHANGED rdFoe
RdWaveStart ==
  /\ rdTower.phase = "BUILD"
  /\ rdTower' = [rdTower EXCEPT !.phase = "WAVE"]
  /\ UNCHANGED <<rdSystem, rdFoe>>
\* The enemy comes within range, stays, and leaves it, dies, or is the last of its wave.
RdComes ==
  /\ rdTower.phase = "WAVE" /\ ~rdFoe.here
  /\ \E at \in 0 .. RdCircle - 1 : rdFoe' = [at |-> at, here |-> TRUE, hit |-> FALSE, since |-> 0]
  /\ rdSystem' = [rdSystem EXCEPT !.band = FALSE]
  /\ UNCHANGED rdTower
RdGoes ==
  /\ rdFoe.here
  /\ rdFoe' = [at |-> 0, here |-> FALSE, hit |-> FALSE, since |-> 0]
  /\ rdSystem' = [rdSystem EXCEPT !.band = FALSE]
  /\ UNCHANGED rdTower
RdWaveEnd ==
  /\ rdTower.phase = "WAVE" /\ ~rdFoe.here
  /\ rdTower' = [rdTower EXCEPT !.phase = "BUILD"]
  /\ UNCHANGED <<rdSystem, rdFoe>>
\* A buff bought in the shop disables a tower for a while.
RdDisable ==
  /\ rdTower.built
  /\ rdTower' = [rdTower EXCEPT !.disabled = ~@]
  /\ UNCHANGED <<rdSystem, rdFoe>>

RdNext ==
  \/ RdTick \/ RdApply \/ RdUpgrade \/ RdSold \/ RdWaveStart \/ RdComes \/ RdGoes \/ RdWaveEnd \/ RdDisable
RdSpec == RdInit /\ [][RdNext]_rdVars

(* ---- properties ------------------------------------------------------------------- *)
\* The ticks the needle takes to come back: a turn, a wipe there and back, or the pulse at
\* the slowest needle, an interval begun before an upgrade being counted out.
RdCeil(a, b) == (a + b - 1) \div b
RdPeriod(t) ==
  IF RdNarrow(t) THEN 2 * t.width
  ELSE IF t.restrict THEN 2 * RdCeil(RdSpan(t.start, t.end), t.speed)
  ELSE RdCeil(RdCircle, t.speed)

\* No enemy the tower may hit is forgotten: it is struck again within the time the needle
\* takes to come back, however the arc is restricted ("the rising-edge model would ping it
\* exactly once and then fall silent").
NoFoeForgotten == rdFoe.since <= RdPeriod(rdTower)
============================================================================
