-------------------------------- MODULE Hud --------------------------------
(***************************************************************************)
(* The game page around its engine: gameStore, a copy of the state of the  *)
(* engine kept by the listeners it registers after those of the systems;   *)
(* the HUD, the tower bar and the spell bar, which act on what the copy    *)
(* says; the checkpoint of a five-star run and the run resumed from it.    *)
(* The Monty Hall doors and the boss are left to GameFlow, the towers to   *)
(* Arsenal.  A tower, a spell and a kill are worth one gold, and so is the *)
(* skipped initial answer.  Names start with Hu, this module being         *)
(* composed with others in Play.                                           *)
(***************************************************************************)
EXTENDS Integers

CONSTANTS
  HuWaves,  \* waves of a level
  HuFoes,   \* enemies of a wave
  HuGold,   \* gold a level starts with
  HuHp,     \* INITIAL_HP
  HuBoots   \* bound on the engines booted

ASSUME HuAssumption ==
  /\ HuWaves \in Nat \ {0} /\ HuFoes \in Nat \ {0}
  /\ HuGold \in Nat /\ HuHp \in Nat \ {0} /\ HuBoots \in Nat

VARIABLES
  huEng,    \* Game.state and the counts of Game.enemies
  huStore,  \* gameStore
  huPage    \* GameView, SpellBar's castingSpell, uiStore's selection, the session created
huVars == <<huEng, huStore, huPage>>

HuNoCheckpoint == [wave |-> 0, gold |-> 0, hp |-> 0, cost |-> 0, value |-> 0]

(* ---- the engine ------------------------------------------------------------------ *)
HuInitialState ==
  [phase |-> "MENU", star |-> 1, wave |-> 0, gold |-> HuGold, hp |-> HuHp, kills |-> 0, value |-> 0,
   cost |-> 0, origin |-> HuHp, alive |-> 0, dying |-> 0, left |-> 0, cool |-> FALSE]
\* startLevel and the listeners of LEVEL_START: useGameLoop's takes the 50 gold of a skipped
\* answer, then EconomySystem's sets the gold of the level.
HuStarted(star, paid) ==
  [HuInitialState EXCEPT !.phase = "BUILD", !.star = star, !.cost = IF paid THEN 1 ELSE 0]
HuRestored(e, cp) ==
  [e EXCEPT !.gold = cp.gold, !.hp = cp.hp, !.origin = cp.hp, !.cost = cp.cost, !.value = cp.value,
            !.wave = cp.wave - 1]
HuListed(e) == e.alive + e.dying  \* game.enemies.length

(* ---- the store ------------------------------------------------------------------- *)
HuBlank ==
  [bound |-> FALSE, phase |-> "MENU", star |-> 1, wave |-> 0, gold |-> HuGold, hp |-> HuHp, kills |-> 0,
   value |-> 0, cost |-> 0, origin |-> HuHp, foes |-> 0, cool |-> FALSE, cp |-> HuNoCheckpoint, resumed |-> FALSE]
HuUnbound(s) == [s EXCEPT !.bound = FALSE, !.cp = HuNoCheckpoint, !.resumed = FALSE]
HuSynced(s, e) ==
  [s EXCEPT !.phase = e.phase, !.star = e.star, !.wave = e.wave, !.gold = e.gold, !.hp = e.hp,
            !.kills = e.kills, !.value = e.value, !.cost = e.cost, !.origin = e.origin]
HuBound(s, e) == [HuSynced(HuUnbound(s), e) EXCEPT !.bound = TRUE]
\* PHASE_CHANGED, GOLD_CHANGED and LEVEL_START, the last of which resets the cost.
HuLevelStart(s, e) ==
  [s EXCEPT !.phase = e.phase, !.gold = e.gold, !.star = e.star, !.wave = 0, !.kills = 0, !.value = 0,
            !.cost = 0, !.origin = e.origin, !.foes = 0, !.cool = FALSE]
\* useGameLoop: what follows restoreFromCheckpoint.  bindEngine dropped the checkpoint: in the
\* mutant it is not put back.
HuResumedBare(s, e, cp) == [HuSynced(s, e) EXCEPT !.resumed = TRUE]
HuResumedFrom(s, e, cp) == [HuSynced(s, e) EXCEPT !.resumed = TRUE, !.cp = cp]
\* GOLD_CHANGED and COST_TOTAL_CHANGED, of changeGold and addCost.
HuSpent(s, e) == [s EXCEPT !.gold = e.gold, !.cost = e.cost]
HuCleared(s, e) ==
  IF e.star = 5
  THEN [s EXCEPT !.cp = [wave |-> e.wave + 1, gold |-> e.gold, hp |-> e.hp, cost |-> e.cost, value |-> e.value]]
  ELSE s

(* ---- the page -------------------------------------------------------------------- *)
HuInit ==
  /\ huEng = HuInitialState
  /\ huStore = HuBlank
  /\ huPage = [at |-> "away", star |-> 1, paid |-> FALSE, slider |-> FALSE, asked |-> HuNoCheckpoint,
               armed |-> FALSE, tower |-> FALSE, session |-> "none", note |-> "idle", boots |-> 0]

HuPlaying(phase) == huPage.at = "game" /\ huEng.phase = phase

\* GameView is mounted with its options: the stars, the initial answer skipped or not, the sliders.
HuOpen ==
  /\ huPage.at = "away" /\ huPage.boots < HuBoots
  /\ \E star \in {1, 5}, paid, slider \in BOOLEAN :
       huPage' = [huPage EXCEPT !.at = "boot", !.boots = @ + 1, !.star = star, !.paid = paid, !.slider = slider,
                                !.asked = HuNoCheckpoint]
  /\ UNCHANGED <<huEng, huStore>>

\* wireEngine: bindEngine, startLevel and, asked for, the checkpoint; the session is created by a
\* listener of LEVEL_START, with the practice mode of the sliders.
HuBooted ==
  LET begun == HuStarted(huPage.star, huPage.paid)
      store == HuLevelStart(HuBound(huStore, HuInitialState), begun)
      cp == huPage.asked
  IN /\ huPage.at = "boot"
     /\ huEng' = IF cp = HuNoCheckpoint THEN begun ELSE HuRestored(begun, cp)
     /\ huStore' = IF cp = HuNoCheckpoint THEN store ELSE HuResumedFrom(store, huEng', cp)
     /\ huPage' = [huPage EXCEPT !.at = "game", !.asked = HuNoCheckpoint, !.note = "idle",
                                 !.session = IF huPage.slider THEN "practice" ELSE "class"]

\* initWasm or the talents fail before the engine is built, or the wiring fails after.
HuBootFails ==
  /\ huPage.at = "boot"
  /\ huStore' \in {huStore, HuUnbound(huStore)}
  /\ huPage' = [huPage EXCEPT !.at = "error"]
  /\ UNCHANGED huEng
HuRetry ==
  /\ huPage.at = "error" /\ huPage.boots < HuBoots
  /\ huPage' = [huPage EXCEPT !.at = "boot", !.boots = @ + 1]
  /\ UNCHANGED <<huEng, huStore>>

\* The retry dialog of a lost five-star run.  HUD and SpellBar go with the engine.
HuResume ==
  /\ HuPlaying("GAME_OVER") /\ huStore.star = 5 /\ huStore.cp # HuNoCheckpoint
  /\ huPage.boots < HuBoots
  /\ huPage' = [huPage EXCEPT !.at = "boot", !.boots = @ + 1, !.asked = huStore.cp, !.armed = FALSE]
  /\ UNCHANGED <<huEng, huStore>>

HuLeave ==
  /\ huPage.at # "away"
  /\ huStore' = HuUnbound(huStore)
  /\ huPage' = [huPage EXCEPT !.at = "away", !.armed = FALSE, !.session = "none", !.note = "idle"]
  /\ UNCHANGED huEng

(* ---- the run --------------------------------------------------------------------- *)
HuStartWave ==
  /\ HuPlaying("BUILD")
  /\ huEng' = [huEng EXCEPT !.wave = @ + 1, !.phase = "WAVE", !.left = HuFoes]
  /\ huStore' = [huStore EXCEPT !.phase = "WAVE", !.wave = huEng'.wave, !.foes = HuListed(huEng)]
  /\ UNCHANGED huPage
HuSpawn ==
  /\ HuPlaying("WAVE") /\ huEng.left > 0
  /\ huEng' = [huEng EXCEPT !.left = @ - 1, !.alive = @ + 1]
  /\ huStore' = [huStore EXCEPT !.foes = HuListed(huEng')]
  /\ UNCHANGED huPage

HuKill ==
  /\ HuPlaying("WAVE") /\ huEng.alive > 0
  /\ huEng' = [huEng EXCEPT !.alive = @ - 1, !.dying = @ + 1, !.kills = @ + 1, !.value = @ + 1, !.gold = @ + 1]
  /\ huStore' = [huStore EXCEPT !.kills = huEng'.kills, !.value = huEng'.value, !.gold = huEng'.gold,
                                !.foes = HuListed(huEng')]
  /\ UNCHANGED huPage
\* The corpse is taken out of game.enemies after its animation, with no event.
HuBury ==
  /\ huPage.at = "game" /\ huEng.dying > 0
  /\ huEng' = [huEng EXCEPT !.dying = @ - 1]
  /\ UNCHANGED <<huStore, huPage>>
\* ENEMY_REACHED_ORIGIN is emitted before the enemy is taken out of game.enemies.
HuReach ==
  /\ HuPlaying("WAVE") /\ huEng.alive > 0
  /\ huEng' = [huEng EXCEPT !.alive = @ - 1, !.hp = @ - 1, !.phase = IF huEng.hp = 1 THEN "GAME_OVER" ELSE @]
  /\ huStore' = [huStore EXCEPT !.hp = huEng'.hp, !.phase = huEng'.phase, !.foes = HuListed(huEng)]
  /\ UNCHANGED huPage

\* _endWave: the snapshot is taken before EconomySystem pays the wave; the store keeps it.
HuWaveEnds ==
  /\ HuPlaying("WAVE") /\ huEng.left = 0 /\ huEng.alive = 0
  /\ huEng' = [huEng EXCEPT !.gold = @ + 1, !.phase = IF huEng.wave >= HuWaves THEN "LEVEL_END" ELSE "BUILD"]
  /\ huStore' = [HuCleared(huStore, huEng) EXCEPT !.gold = huEng'.gold, !.phase = huEng'.phase]
  /\ UNCHANGED huPage

(* ---- tower bar and spell bar ------------------------------------------------------ *)
\* What a button of either bar is enabled by, or refuses to be clicked without.
HuAffords == huPage.at = "game" /\ huStore.gold >= 1
HuPick ==
  /\ HuAffords /\ huStore.phase = "BUILD"
  /\ huPage' = [huPage EXCEPT !.tower = ~@]
  /\ UNCHANGED <<huEng, huStore>>
HuArm ==
  /\ HuAffords /\ ~huStore.cool
  /\ huPage' = [huPage EXCEPT !.armed = ~@]
  /\ UNCHANGED <<huEng, huStore>>

\* A click on the canvas goes to TowerPlacementSystem, then to the SpellBar: the armed spell is
\* spent on the engine's refusal too, and a spell that hits nothing is refunded.
HuPlaced(e) == [e EXCEPT !.gold = @ - 1, !.cost = @ + 1]
HuCast(e) == [e EXCEPT !.gold = @ - 1, !.cost = @ + 1, !.cool = TRUE]
HuCastable(e) == e.phase = "WAVE" /\ e.gold >= 1 /\ ~e.cool
HuClick ==
  /\ huPage.at = "game" /\ (huPage.tower \/ huPage.armed)
  /\ \E legal, hits \in BOOLEAN :
       LET places == huPage.tower /\ legal /\ huEng.phase = "BUILD" /\ huEng.gold >= 1
           casts == huPage.armed /\ hits /\ huEng.alive > 0 /\ HuCastable(huEng)
       IN /\ huEng' = IF places THEN HuPlaced(huEng) ELSE IF casts THEN HuCast(huEng) ELSE huEng
          /\ huStore' = IF places \/ casts THEN HuSpent(huStore, huEng') ELSE huStore
          /\ huPage' = [huPage EXCEPT !.armed = FALSE, !.tower = @ /\ ~places]
HuRecharged ==
  /\ HuPlaying("WAVE") /\ huEng.cool
  /\ huEng' = [huEng EXCEPT !.cool = FALSE]
  /\ UNCHANGED <<huStore, huPage>>
\* The timing mirror, every 30th frame.
HuTick ==
  /\ huPage.at = "game" /\ huStore.cool # huEng.cool
  /\ huStore' = [huStore EXCEPT !.cool = huEng.cool]
  /\ UNCHANGED <<huEng, huPage>>

(* ---- the result ------------------------------------------------------------------ *)
HuReflect ==
  /\ HuPlaying("LEVEL_END") /\ huPage.note \in {"idle", "error"}
  /\ huPage' = [huPage EXCEPT !.note = "submitting"]
  /\ UNCHANGED <<huEng, huStore>>
HuReflected ==
  /\ huPage.note = "submitting"
  /\ \E answer \in {"saved", "error"} : huPage' = [huPage EXCEPT !.note = answer]
  /\ UNCHANGED <<huEng, huStore>>

HuNext ==
  \/ HuOpen \/ HuBooted \/ HuBootFails \/ HuRetry \/ HuResume \/ HuLeave
  \/ HuStartWave \/ HuSpawn \/ HuKill \/ HuBury \/ HuReach \/ HuWaveEnds
  \/ HuPick \/ HuArm \/ HuClick \/ HuRecharged \/ HuTick \/ HuReflect \/ HuReflected
HuSpec == HuInit /\ [][HuNext]_huVars

\* What the HUD shows, and the bars are enabled by.
HuShown(s) ==
  [phase |-> s.phase, star |-> s.star, wave |-> s.wave, hp |-> s.hp, origin |-> s.origin, gold |-> s.gold,
   kills |-> s.kills, value |-> s.value]

(* ---- properties ------------------------------------------------------------------- *)
\* What the page shows is the state of the engine it runs: after a boot, a resumed
\* checkpoint, a kill whose gold and count come from a system that hears it too, a leak, a
\* wave's bonus, a purchase (gameStore.ts: "read-only mirror of Game.state").
HudMirrors == huPage.at = "game" => HuShown(huStore) = HuShown(huEng)

\* A lost five-star run is offered the wave it was lost in, whether it was begun there or
\* reached it, with what it had when it cleared the one before; lost in wave one, nothing.
RetryOfLostWave ==
  HuPlaying("GAME_OVER") /\ huEng.star = 5 =>
    /\ huStore.cp.wave = (IF huEng.wave = 1 THEN 0 ELSE huEng.wave)
    /\ huEng.wave > 1 => huStore.cp.hp > 0 /\ huStore.cp.hp <= huEng.origin /\ huStore.cp.value <= huEng.value

\* The copy is the engine's state, and the checkpoint the run's.
CopyHolds == HudMirrors /\ RetryOfLostWave

\* "Checkpoint runs are flagged as practice (not eligible for class leaderboards)."
CheckpointRunIsPractice == huPage.at = "game" /\ huStore.resumed => huPage.session = "practice"

(* ---- the inductive invariant -------------------------------------------------------- *)
HuPhases == {"MENU", "BUILD", "WAVE", "GAME_OVER", "LEVEL_END"}
HuCpOf == [wave : Nat, gold : Int, hp : Int, cost : Int, value : Int]
HuEngOf ==
  [phase : HuPhases, star : {1, 5}, wave : Nat, gold : Int, hp : Int, kills : Nat, value : Int, cost : Int,
   origin : Int, alive : Nat, dying : Nat, left : Nat, cool : BOOLEAN]
HuStoreOf ==
  [bound : BOOLEAN, phase : HuPhases, star : {1, 5}, wave : Nat, gold : Int, hp : Int, kills : Nat, value : Int,
   cost : Int, origin : Int, foes : Nat, cool : BOOLEAN, cp : HuCpOf, resumed : BOOLEAN]
HuPageOf ==
  [at : {"away", "boot", "game", "error"}, star : {1, 5}, paid : BOOLEAN, slider : BOOLEAN, asked : HuCpOf,
   armed : BOOLEAN, tower : BOOLEAN, session : {"none", "practice", "class"},
   note : {"idle", "submitting", "saved", "error"}, boots : Nat]
HuTypeOK == huEng \in HuEngOf /\ huStore \in HuStoreOf /\ huPage \in HuPageOf

\* A checkpoint is of a wave after the first, and of a run that is not lost.
HuWorth(cp) == cp = HuNoCheckpoint \/ (cp.wave >= 2 /\ cp.hp > 0)

\* A run that goes on has health left, and is past wave one when a wave has begun.
HuRunSound ==
  huPage.at = "game" =>
    /\ huEng.phase # "MENU" /\ huEng.hp <= huEng.origin
    /\ huEng.phase \in {"BUILD", "WAVE"} => huEng.hp > 0
    /\ huEng.phase # "BUILD" => huEng.wave >= 1

\* The checkpoint kept is that of the wave to come, or of the wave going on or lost: none
\* in wave one.
HuKeptWave(e) ==
  IF e.phase \in {"WAVE", "GAME_OVER"} THEN (IF e.wave = 1 THEN 0 ELSE e.wave)
  ELSE IF e.wave = 0 THEN 0 ELSE e.wave + 1
HuKept ==
  huPage.at = "game" /\ huEng.star = 5 =>
    /\ HuWorth(huStore.cp) /\ huStore.cp.wave = HuKeptWave(huEng)
    /\ huStore.cp.wave # 0 => huStore.cp.hp <= huEng.origin /\ huStore.cp.value <= huEng.value

HudInv == HuTypeOK /\ HuWorth(huPage.asked) /\ HuRunSound /\ HuKept /\ HudMirrors
============================================================================
