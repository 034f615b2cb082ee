------------------------------ MODULE GameFlow ------------------------------
(***************************************************************************)
(* A run from LEVEL_START to its verdict: waves, enemies, the boss         *)
(* question, the Monty Hall doors and the clock the score divides by.  A   *)
(* frame is one fixed time step through every system in the order          *)
(* register-systems.ts gives; between two real frames the player acts.     *)
(* Damage lands on any enemies; walking is a countdown to the goal.        *)
(***************************************************************************)
EXTENDS Integers, FiniteSets, Sequences, GamePhases

CONSTANTS
  Waves,       \* what each wave spawns, a sequence of sequences of kinds
  Thresholds,  \* [kill, doors] of each Monty Hall event
  FullHp,
  Speeds,      \* perceived speeds, in half steps of simulation per frame
  FirstWaves,  \* waves a run may start at: 1, or a checkpoint's
  MaxMinions,  \* minions the bosses call in
  MaxHits,     \* enemies one system hits in one frame
  MaxIdle      \* frames spent in one build, door or question phase

Kinds == [ GENERAL |-> [hp |-> 1, togo |-> 2, kill |-> 2, bite |-> 1],
           FAST    |-> [hp |-> 1, togo |-> 1, kill |-> 1, bite |-> 1],
           STRONG  |-> [hp |-> 1, togo |-> 2, kill |-> 2, bite |-> 2],
           SPLIT   |-> [hp |-> 1, togo |-> 2, kill |-> 1, bite |-> 1],
           BOSS_B  |-> [hp |-> 2, togo |-> 3, kill |-> 3, bite |-> 99] ]

MaxSplitDepth == 2

ASSUME GameFlowAssumption ==
  /\ Waves \in Seq(Seq(DOMAIN Kinds) \ {<<>>}) /\ FirstWaves \subseteq 1..Len(Waves)
  /\ Thresholds \in Seq([kill : Nat, doors : Nat \ 0..2])
  /\ Speeds \subseteq {1, 2, 4, 6} /\ FullHp \in Nat \ {0} /\ {MaxMinions, MaxHits, MaxIdle} \subseteq Nat

VARIABLES
  g  \* Game.state, game.enemies and the fields of the systems
vars == <<g>>

NoDoor == [stage |-> "closed"]
NoFoe  == [id |-> 0]

Fresh == [ phase |-> "MENU", wave |-> 0, hp |-> FullHp, killValue |-> 0,
           queue |-> <<>>, foes |-> {}, question |-> NoFoe, minions |-> 0,
           next |-> 1, pending |-> FALSE, door |-> NoDoor,
           time |-> 0, total |-> 0, prep |-> 0, pause |-> 0, excluded |-> 0,
           credit |-> 0, speed |-> 2, idle |-> 0,
           created |-> 0, removed |-> 0, inWave |-> 0, late |-> 0, opening |-> 0, levelEnds |-> 0 ]

(* ---- the clock, useEngineUiBridges on PHASE_CHANGED ------------------------ *)
Pauses == {"MONTY_HALL", "CHAIN_RULE"}

\* Mutant: an interval is pushed again by the next phase change.
ExcludeIntervalsTwice(h, from, to) ==
  [h EXCEPT !.prep  = IF to = "BUILD" /\ h.wave > 0 THEN h.time ELSE @,
            !.pause = IF to \in Pauses THEN h.time ELSE IF from \in Pauses THEN 0 ELSE @,
            !.excluded = @ + (IF h.prep > 0 THEN h.time - h.prep ELSE 0)
                           + (IF from \in Pauses /\ h.pause > 0 THEN h.time - h.pause ELSE 0)]

\* The first build phase of a run, or of a checkpoint, opens no interval.
ExcludeIntervals(h, from, to) ==
  LET prep == IF to = "BUILD" /\ h.wave > 0 THEN h.time ELSE h.prep
  IN [h EXCEPT !.prep  = IF from = "BUILD" THEN 0 ELSE prep,
               !.pause = IF to \in Pauses THEN h.time ELSE IF from \in Pauses THEN 0 ELSE @,
               !.excluded = @ + (IF from = "BUILD" /\ prep > 0 THEN h.time - prep ELSE 0)
                              + (IF from \in Pauses /\ h.pause > 0 THEN h.time - h.pause ELSE 0)]

Go(h, to) == IF CanTransition(h.phase, to)
             THEN ExcludeIntervals([SetPhase(h, to) EXCEPT !.idle = 0], h.phase, to) ELSE h

(* ---- enemies --------------------------------------------------------------- *)
Spawn(h, kind, togo, depth) ==
  [h EXCEPT !.created = @ + 1,
            !.foes = @ \cup {[id |-> h.created + 1, kind |-> kind, hp |-> Kinds[kind].hp, togo |-> togo,
                              depth |-> depth, asked |-> FALSE]}]

Ids(h)     == {f.id : f \in h.foes}
Targets(h) == {ids \in SUBSET Ids(h) : Cardinality(ids) <= MaxHits}
Foe(h, id) == CHOOSE f \in h.foes : f.id = id
Bury(h, f) == [h EXCEPT !.foes = {e \in @ : e.id # f.id}, !.removed = @ + 1]

\* KILL_VALUE_CHANGED marks an event due; only the next threshold is looked at.
AddKillValue(h, v) ==
  [h EXCEPT !.killValue = @ + v,
            !.pending = @ \/ (h.next <= Len(Thresholds) /\ h.killValue + v >= Thresholds[h.next].kill)]

SplitBoss(h, f) == Spawn(Spawn(h, "STRONG", f.togo, 0), "FAST", f.togo, 0)

ShouldSplit(f) == f.kind = "SPLIT" /\ f.depth < MaxSplitDepth

SpawnChildren(h, f) == LET one == Spawn(h, "GENERAL", f.togo, f.depth + 1)
                       IN Spawn(one, "GENERAL", f.togo, f.depth + 1)

\* ENEMY_KILLED reaches the economy and the boss's own split before the children.
KillEnemy(h, f, answered) ==
  LET dead == AddKillValue(Bury(h, f), Kinds[f.kind].kill)
      own  == IF f.kind = "BOSS_B" /\ ~answered THEN SplitBoss(dead, f) ELSE dead
  IN IF ShouldSplit(f) THEN SpawnChildren(own, f) ELSE own

ApplyDamage(h, id) ==
  IF id \notin Ids(h) THEN h
  ELSE LET f == Foe(h, id) IN
       IF f.hp = 1 THEN KillEnemy(h, f, FALSE)
       ELSE [h EXCEPT !.foes = (@ \ {f}) \cup {[f EXCEPT !.hp = @ - 1]}]

\* Op(x, id), with x evaluated once and not at every place Op names it.
Turn(Op(_, _), x, id) == CHOOSE k \in {Op(y, id) : y \in {x}} : TRUE

\* A loop over the list of enemies, in which the youngest is the last.
InTurn(Op(_, _), h, ids) ==
  LET after[n \in Nat] == IF n = 0 THEN h ELSE IF n \in ids THEN Turn(Op, after[n - 1], n) ELSE after[n - 1]
  IN after[h.created]

Strike(h, ids) == IF h.phase # "WAVE" THEN h ELSE InTurn(ApplyDamage, h, ids)

(* ---- the boss question ----------------------------------------------------- *)
DueBosses(h) == {f \in h.foes : f.kind = "BOSS_B" /\ ~f.asked /\ f.hp = 1}

TriggerChainRule(h, id) ==
  IF id \notin Ids(h) THEN h
  ELSE LET f == Foe(h, id) IN
       Go([h EXCEPT !.foes = (@ \ {f}) \cup {[f EXCEPT !.asked = TRUE]}, !.question = f], "CHAIN_RULE")

\* The phase is looked at once, before the loop over the enemies.
EnemyAbility(h, call) ==
  LET boss == {f \in h.foes : f.kind = "BOSS_B"}
      more == IF call /\ boss # {} /\ h.minions < MaxMinions
              THEN LET b == CHOOSE f \in boss : TRUE
                   IN Spawn([h EXCEPT !.minions = @ + 1], "FAST", b.togo, 0)
              ELSE h
  IN IF h.phase # "WAVE" THEN h
     ELSE InTurn(TriggerChainRule, more, {f.id : f \in DueBosses(h)})

(* ---- walking, spawning, the end of a wave ---------------------------------- *)
ChangeHp(h, d) == LET hp == IF h.hp > d THEN h.hp - d ELSE 0
                      hurt == [h EXCEPT !.hp = hp]
                  IN IF hp = 0 THEN Go(hurt, "GAME_OVER") ELSE hurt

ReachOrigin(h, id) ==
  IF id \notin Ids(h) THEN h ELSE ChangeHp(Bury(h, Foe(h, id)), Kinds[Foe(h, id).kind].bite)

\* The enemies walk from the end of the list.
InReverse(Op(_, _), h, ids) ==
  LET after[n \in Nat] ==
        LET id == h.created + 1 - n
        IN IF n = 0 THEN h ELSE IF id \in ids THEN Turn(Op, after[n - 1], id) ELSE after[n - 1]
  IN after[h.created]

Movement(h) ==
  LET walked == [h EXCEPT !.foes = {[f EXCEPT !.togo = @ - 1] : f \in @}]
  IN IF h.phase # "WAVE" THEN h
     ELSE InReverse(ReachOrigin, walked, {f.id : f \in {e \in walked.foes : e.togo = 0}})

TriggerPendingEvent(h) ==
  Go([h EXCEPT !.pending = FALSE, !.next = @ + 1,
               !.door = [stage |-> "select", count |-> Thresholds[h.next].doors]], "MONTY_HALL")

EndWave(h) ==
  IF h.wave >= Len(Waves) THEN Go([h EXCEPT !.levelEnds = @ + 1], "LEVEL_END")
  ELSE IF h.pending /\ h.next <= Len(Thresholds) THEN TriggerPendingEvent(h)
  ELSE Go(h, "BUILD")

\* Mutant: a wave that ends whatever the frame did to the phase.
WaveUpdateAlways(h) ==
  IF h.queue # <<>>
  THEN LET kind == Head(h.queue) IN Spawn([h EXCEPT !.queue = Tail(@)], kind, Kinds[kind].togo, 0)
  ELSE IF h.foes = {} /\ h.phase # "BUILD" THEN EndWave(h) ELSE h

\* One spawn per frame; an emptied queue is looked through in the same frame.
WaveUpdate(h) ==
  IF h.phase # "WAVE" THEN h
  ELSE IF h.queue # <<>>
  THEN LET kind == Head(h.queue) IN Spawn([h EXCEPT !.queue = Tail(@)], kind, Kinds[kind].togo, 0)
  ELSE IF h.foes = {} THEN EndWave(h) ELSE h

EconomyUpdate(h) == IF h.phase = "WAVE" THEN [h EXCEPT !.total = h.time] ELSE h

\* The systems in turn, each on the state the one before it left.
Then(F(_), S) == {F(h) : h \in S}
Update(h, call, combat, towers) ==
  LET able    == {EnemyAbility(h, call)}
      fought  == Then(LAMBDA a : Strike(a, combat), able)
      counted == Then(EconomyUpdate, Then(WaveUpdate, Then(Movement, fought)))
  IN Then(LAMBDA c : Strike(c, towers), counted)

(* ---- Game._loop ------------------------------------------------------------ *)
\* inWave counts the steps a wave ran, late those at whose end it was over.
SpendCredit(before, h) ==
  [h EXCEPT !.time = @ + 1, !.credit = IF h.phase = "WAVE" THEN @ - 2 ELSE 0,
            !.inWave = IF before.phase = "WAVE" THEN @ + 1 ELSE @,
            !.late = IF before.phase = "WAVE" /\ h.phase # "WAVE" THEN @ + 1 ELSE @]

Resting == {"BUILD", "MONTY_HALL", "CHAIN_RULE", "LEVEL_END", "GAME_OVER"}

\* A real frame: credit is granted, then spent one step at a time.
Grant == [g EXCEPT !.credit = IF g.phase = "WAVE" THEN @ + g.speed ELSE 2,
                   !.idle = IF g.phase \in Resting THEN @ + 1 ELSE @]

Frame ==
  /\ g.phase \in Resting \cup {"WAVE"}
  /\ g.phase \in Resting => g.idle < MaxIdle
  /\ LET h == IF g.credit >= 2 THEN g ELSE Grant IN
       IF h.credit < 2 THEN g' = h
       ELSE \E call \in BOOLEAN, combat \in Targets(h), towers \in Targets(h) :
              g' \in Then(LAMBDA k : SpendCredit(h, k), Update(h, call, combat, towers))

(* ---- the player, between two real frames ----------------------------------- *)
Player == g.credit < 2

\* startLevel, and restoreFromCheckpoint when the run resumes at a later wave.
StartLevel(first) ==
  /\ g.phase = "MENU"
  /\ g' = [Go(g, "BUILD") EXCEPT !.wave = first - 1]

StartWave ==
  /\ g.phase = "BUILD" /\ Player
  /\ g' = Go([g EXCEPT !.wave = @ + 1, !.queue = Waves[g.wave + 1],
                       !.opening = IF g.inWave = 0 THEN g.time ELSE @], "WAVE")

SetSpeed(s) == g.phase \in {"BUILD", "WAVE"} /\ s # g.speed /\ Player /\ g' = [g EXCEPT !.speed = s]

\* A spell, or a pet's hit: damage outside the frame.
CastSpell(id) == g.phase = "WAVE" /\ Player /\ g' = ApplyDamage(g, id)

\* Mutant: a wrong answer leaves the phase alone.
ChainRuleAnswerStuck(correct) ==
  /\ g.phase = "CHAIN_RULE" /\ g.question # NoFoe /\ Player
  /\ LET f    == g.question
         open == [g EXCEPT !.question = NoFoe]
     IN g' = IF correct THEN Go(KillEnemy(SplitBoss(open, f), f, TRUE), "WAVE") ELSE open

ChainRuleAnswer(correct) ==
  /\ g.phase = "CHAIN_RULE" /\ g.question # NoFoe /\ Player
  /\ LET f    == g.question
         open == [g EXCEPT !.question = NoFoe]
     IN g' = Go(IF correct THEN KillEnemy(SplitBoss(open, f), f, TRUE) ELSE open, "WAVE")

\* Every door but the player's and one other is opened, never the prize.  The
\* prize was drawn when the event began and shows only from here on.
RevealDoor(d, door) ==
  {e \in [stage : {"switch"}, count : {d.count}, prize : 1..d.count, chosen : {door},
          revealed : {s \in SUBSET ((1..d.count) \ {door}) : Cardinality(s) = d.count - 2}] :
     e.prize \notin e.revealed}

DoorSelected(door) ==
  /\ g.door.stage = "select" /\ door <= g.door.count /\ Player
  /\ \E d \in RevealDoor(g.door, door) : g' = [g EXCEPT !.door = d]

FinalDoor(d, switch) ==
  IF ~switch THEN d.chosen
  ELSE CHOOSE i \in 1..d.count : /\ i # d.chosen /\ i \notin d.revealed
                                 /\ \A j \in 1..(i - 1) : j = d.chosen \/ j \in d.revealed

SwitchDecision(switch) ==
  /\ g.door.stage = "switch" /\ Player
  /\ LET won == FinalDoor(g.door, switch) = g.door.prize
     IN g' = [g EXCEPT !.door = [stage |-> "result", won |-> won]]

FinishEvent ==
  /\ g.door.stage = "result" /\ Player
  /\ g' = Go([g EXCEPT !.door = NoDoor], "BUILD")

Init == g = Fresh

Answer == \/ \E correct \in BOOLEAN : ChainRuleAnswer(correct)
          \/ \E door \in 1..5 : DoorSelected(door)
          \/ \E switch \in BOOLEAN : SwitchDecision(switch)
          \/ FinishEvent

Next == \/ \E first \in FirstWaves : StartLevel(first)
        \/ StartWave \/ Frame \/ Answer
        \/ \E s \in Speeds : SetSpeed(s)
        \/ \E id \in Ids(g) : CastSpell(id)

\* requestAnimationFrame keeps calling the loop; the player starts the level and
\* its waves and answers what is asked.
Fairness == /\ WF_vars(Frame) /\ WF_vars(Answer) /\ WF_vars(StartWave)
            /\ WF_vars(\E first \in FirstWaves : StartLevel(first))
Spec == Init /\ [][Next]_vars /\ Fairness

(* ---- properties ------------------------------------------------------------ *)
\* A run has one verdict: it is lost exactly when no hit point is left, and the
\* level ends once, only for a player who is alive, although the enemy that
\* takes the last hit point may also be the last of the last wave.
OneVerdict ==
  /\ g.hp = 0 <=> g.phase = "GAME_OVER"
  /\ g.levelEnds = IF g.phase = "LEVEL_END" THEN 1 ELSE 0

\* Every enemy that ever appeared is on the board or was removed once, by a
\* kill or by reaching the goal: nothing pays or bites twice, and no child,
\* minion or half of a boss gets lost.
EveryFoeOnce == g.created = g.removed + Cardinality(g.foes)

\* The run is settled once and fairly: one verdict, and every enemy accounted for.
RunSettled == OneVerdict /\ EveryFoeOnce

\* While a wave runs, the excluded time is exactly the time since the first wave
\* began that no wave was running, and the step in which each wave stopped: no
\* interval is lost or counted twice by builds, doors and questions.
ClockExact ==
  g.phase = "WAVE" /\ g.inWave > 0 => g.excluded = g.time - g.opening - g.inWave + g.late

(* ---- the inductive invariant of RunSettled and ClockExact ------------------ *)
FoeOf  == [id : Nat \ {0}, kind : DOMAIN Kinds, hp : Nat \ {0}, togo : Int, depth : Nat, asked : BOOLEAN]
DoorOf == {NoDoor} \cup [stage : {"select"}, count : Nat] \cup [stage : {"result"}, won : BOOLEAN]
          \cup [stage : {"switch"}, count : Nat, prize : Nat, chosen : Nat, revealed : SUBSET Nat]
RunState ==
  [ phase : Phases, wave : Nat, hp : Nat, killValue : Nat, queue : Seq(DOMAIN Kinds),
    foes : SUBSET FoeOf, question : FoeOf \cup {NoFoe}, minions : Nat,
    next : Nat \ {0}, pending : BOOLEAN, door : DoorOf,
    time : Nat, total : Nat, prep : Nat, pause : Nat, excluded : Int,
    credit : Int, speed : Nat, idle : Nat,
    created : Nat, removed : Nat, inWave : Nat, late : Nat, opening : Nat, levelEnds : Nat ]

\* No two enemies share an id, and each is on the board or was removed.
FoesOk(h) == /\ IsFiniteSet(h.foes) /\ h.created = h.removed + Cardinality(h.foes)
             /\ \A e, f \in h.foes : e.id = f.id => e = f
             /\ \A f \in h.foes : f.id <= h.created

VerdictOk(h) == /\ h.hp = 0 <=> h.phase = "GAME_OVER"
                /\ h.levelEnds = IF h.phase = "LEVEL_END" THEN 1 ELSE 0

\* Doors and questions belong to their phases, and a boss that asks is alive.
PhaseOk(h) == /\ h.phase # "LEVEL_SELECT"
              /\ h.phase # "MONTY_HALL" => h.door = NoDoor
              /\ h.question # NoFoe => h.phase = "CHAIN_RULE" /\ h.question.id \in Ids(h)
              /\ h.phase \in {"BUILD", "MONTY_HALL"} => h.wave < Len(Waves)
              /\ h.phase \in {"WAVE", "MONTY_HALL", "CHAIN_RULE"} => h.wave > 0
              /\ h.phase = "MENU" => h.wave = 0 /\ h.inWave = 0

\* The time up to t that no wave ran, and the step in which each wave stopped.
Away(h, t) == t - h.opening - h.inWave + h.late

\* What is excluded when the open interval, if there is one, began.
ClockOk(h) ==
  /\ h.inWave = 0 => /\ h.phase \in {"MENU", "BUILD", "WAVE"}
                     /\ h.excluded = 0 /\ h.late = 0 /\ h.prep = 0 /\ h.pause = 0
                     /\ h.phase = "WAVE" => h.opening = h.time
  /\ h.inWave > 0 =>
       /\ h.time > 0
       /\ h.phase = "WAVE"  => h.prep = 0 /\ h.pause = 0 /\ h.excluded = Away(h, h.time)
       /\ h.phase = "BUILD" => h.prep > 0 /\ h.pause = 0 /\ h.excluded = Away(h, h.prep)
       /\ h.phase \in Pauses => h.prep = 0 /\ h.pause > 0 /\ h.excluded = Away(h, h.pause)

\* The first frame of the first wave finds enemies to spawn, and none to fight.
FirstFrame(h) == h.inWave = 0 => h.foes = {} /\ (h.phase = "WAVE" => h.queue # <<>>)

RunOk(h) == FoesOk(h) /\ VerdictOk(h) /\ PhaseOk(h) /\ ClockOk(h)
RunInv   == g \in RunState /\ RunOk(g) /\ FirstFrame(g)

\* Every run comes to a verdict.
RunEnds == <>(g.phase \in {"LEVEL_END", "GAME_OVER"})
=============================================================================
