# Math Defense in TLA+

Math Defense is a tower-defence game for mathematics classes: a Vue/TypeScript
client runs the game, a FastAPI/PostgreSQL server keeps play sessions, replay
logs, leaderboards, classes and classroom competitions ("Grabbing Territory").
This directory holds TLA+ models of the server's transactions, of the engine's
bookkeeping and of the pages that talk to the server, the TLC configurations
that check them on small instances, and proofs for every size of the system.

Paths below are relative to the repository (`backend/app/...` stands for
`src/backend/app/...`). `PROJECT.json` maps every definition to its lines.

    tlc -workers 2 -config Sessions_rows.cfg MCSessions.tla     # a run
    tlapm Sessions_proof.tla                                    # the proofs of a module

## 1. The system and its parts

| Part | State | Operations | Works with |
|---|---|---|---|
| **Play sessions** `application/session_service.py`, `domain/session/aggregate.py`, `infrastructure/persistence/session_repository.py` | `game_sessions` rows, partial unique index `uq_one_active_per_user`, per-user advisory lock | create, PATCH progress, end, abandon, attach reflection, GET active (abandons a stale session), retry of end | browser over HTTP, replay log, post-commit handlers |
| **Post-commit handlers** `application/session_event_handlers.py` | `leaderboard_entries`, achievements, `ia_recent_accuracy` | leaderboard insert, achievement check, accuracy refresh, leaderboard catch-up | dispatched by `end_session` after its commit |
| **Replay log and recorder** `application/replay_service.py`, `session_event_repository.py`, `frontend/src/engine/replay/*` | `session_events` ordered by `seq`; the tab's buffer, next number, failures | record, flush, resend, beacon, give up; append or refuse a batch; read, play back | `end_session` (counts its waves), spectators |
| **Spectate hub** `infrastructure/spectate_hub.py`, `routers/replay.py`, `SpectatorClient.ts` | a bounded queue per subscriber | snapshot, subscribe, publish, drop, reconnect | replay log |
| **Grabbing Territory** `application/territory_service.py`, `domain/territory/*`, `territory_repository.py` | activities, slots, occupations, session uses, ranking snapshots | play, settle, settle expired, create, list, rank | play sessions, class membership, scheduler |
| **Class membership** `application/class_service.py` | classes, memberships, removals, invites, groups, co-teachers | create, join by code, add, bulk add, claim invites, remove, move, group, archive, transfer, delete | territory (a removal deletes occupations) |
| **Settlement scheduler** `infrastructure/scheduler.py` | none | calls `settle_expired` periodically | territory |
| **Run synchronisation** `frontend/src/composables/useSessionSync.ts`, `services/sessionLifecycleService.ts` | session id, generations, pending snapshot, promises under way | create, push snapshot, end, abandon, clean up an orphan | game events, HTTP client, play sessions |
| **Game phases and waves** `engine/PhaseStateMachine.ts`, `Game.ts`, `systems/WaveSystem.ts`, `MontyHallSystem.ts`, `composables/useEngineUiBridges.ts` | phase, wave, spawn queue, enemies, hit points, clock | start level, start wave, frame, split, question, doors, verdict | every other system through the event bus |
| **Economy, towers, spells** `systems/*` | gold, cost, towers with cached stats, buffs, pairs, charges | place, upgrade, refund, buy, cast, expire | phases |
| **Radar** `systems/RadarTowerSystem.ts` | needle, arc, per-enemy band memory | sweep, wipe, pulse, move the arc | enemies, build panel |
| **Game page** `views/GameView.vue`, `composables/useGameLoop.ts`, `useStartRun.ts`, `stores/uiStore.ts` | engine and its boots, loop, cards, the one modal | start, boot, retry, pause, card, ask, exit | router, engine, session |
| **HUD and store** `stores/gameStore.ts`, `components/game/HUD.vue` | a copy of the engine's state, checkpoint | hear an event, copy all, act on the copy | engine |
| **Level and board** `domain/level/*`, `math/WasmBridge.ts`, `domain/placement/*` | level, decoys, placeable cells, cursor | generate, paint, place, regenerate for a replay | game page, replay |
| **Music** `engine/audio/AssetManager.ts`, `composables/useGlobalMusic.ts` | beds, playlist, fades, first gesture | play, fade, rescale, unlock, clip ends | routes, phases |
| **Requests and sign-in** `services/api.ts`, `stores/authStore.ts`, `application/auth_service.py` | cookies, access and refresh tokens, lock between tabs, one refresh per tab | request, refresh, resend, rotate, detect reuse, sign in and out | every page |
| **Settings** `stores/uiStore.ts`, `views/ProfileView.vue` | endpoint marker here and on the server, name | change, debounce, PUT, hydrate | requests |
| **Rankings, leaderboard, administration views** | lists on show, the selection, fetch ids | select, load, poll, abort | requests |
| **Class desk** `views/ClassView.vue` | selected class, roster, panels, QR | select, add, remove, group, delete, reload | class membership |
| **Territory pages** `stores/territoryStore.ts`, `views/Territory*.vue` | detail, outcome per session, the run under way | open, create, play, post the outcome, settle | territory, play sessions |
| **Talents** `application/talent_service.py`, `stores/talentStore.ts` | stored levels, the copy a game plays by | allocate, reset, load | towers |
| Achievements, assessment, study, scoring | counters, Beta parameters, none | evaluate, update, compute | handlers |
| Leaderboards, seasons, challenges, recommendations, administration, audit (server) | one row each | queries and single-row administration | |
| Rendering | none | draws the engine's state | |

### What is hard here

* A request is one transaction at READ COMMITTED. `update_session`,
  `end_session` and `attach_reflection` read their row with `FOR UPDATE`;
  `abandon_session`, `get_active_for_user` and the stale-session sweep of
  `create_session` do not, and save what they read later. The ORM then writes
  the columns that differ from the row as `save()` reads it again.
* `end_session` commits and only then runs three handlers, each in its own
  transaction; each may fail, the worker may die between them, and the client
  retries.
* The replay log is written by other requests while a session ends, and its
  wave count decides what `end_session` accepts.
* A territory play locks the activity, then reads membership, occupation,
  session use and slot counts in separate statements. Teacher, scheduler,
  class removal and other plays commit in between.
* In the browser everything waits on something: a boot on its assets, a create
  call on its answer, a modal on the player. Meanwhile the page is left, the run
  retried, the class changed, and nothing in an answer says whom it is for.
* Tabs share cookies. A refresh token may be used once; a second use revokes all.
* The engine is single threaded, but its systems cache numbers that other
  systems change, and a frame goes on after the phase changed in its middle.

### What makes the parts correct

* *Play sessions*: at most one active session per user; progress of a live
  session is monotone; COMPLETED and ABANDONED are terminal; every request
  ends.
* *Handlers*: effects at most once; the board lists ranked, completed sessions
  only, and lists all of them in the end.
* *Replay log*: what was recorded, in order, nothing twice, nothing silently lost.
* *Territory*: plays are atomic; the cap holds; an activity is settled once and
  its standings then stand; an expired one is settled.
* *Run synchronisation*: the page writes to the session of its own latest create
  call; the end comes last; no session is left active.
* *Game*: one verdict per run; each enemy counted once; caches equal what they
  cache; the gold spent is the gold the score divides by; the clock is exact.
* *Page*: one engine; the loop stands exactly when something says so; every
  question is settled; HUD, board, replay and music show what runs.
* *Pages with the server*: a refresh is never taken for theft without a fault, a
  write is applied once, and a list answers what is selected.

## 2. Modules

| Module | What it is |
|---|---|
| `SessionAggregate` | the pure rules of `GameSession`: which updates and completions are accepted and what they change |
| `Sessions` | sessions of one user under concurrent requests, with handlers, retries, crashes; the inductive invariant |
| `ActiveSlot` | abstract: one slot, freshly opened, never reopened |
| `TerritoryBoard` | abstract: atomic captures, settling, leaving |
| `Territory` | play, settlement, scheduler and membership, statement by statement |
| `GamePhases` | the transition table of `PhaseStateMachine` |
| `Arsenal` | towers, upgrades, buffs, spells, pairs, and the values cached from them |
| `GameFlow` | a run from LEVEL_START to its verdict, frame by frame |
| `GamePage` | boots, loop, cards, modals and navigation of the game page |
| `LevelMap` | a level from its seed to the painted board, the keyboard cursor and the replay |
| `Hud` | the store's copy of the engine, and the checkpoint taken from it |
| `Radar` | needle, band, arc and pulse of a Radar A tower, tick by tick |
| `Audio` | the asset manager's beds and playlist under routes and phases |
| `ReplayLog` | recorder, server log, spectator, player of a stored log |
| `ApiAuth` | the request wrapper and refresh token rotation over the tabs of a browser |
| `Settings`, `Rankings`, `ClassDesk`, `TerritoryDesk`, `Talents` | a page each, with the server rows it reads and writes |
| `ClassRegister` | `class_service`: every request on a class, in three steps that overlap with others |
| `RunSync` | `useSessionSync` over the runs of a page, with the server's one-active rule |
| `Play` | composition of `GamePage`, `LevelMap`, `Hud`, `Radar`, `Audio`, `ReplayLog` |
| `Pages` | composition of `ApiAuth`, `Settings`, `Rankings`, `ClassDesk`, `TerritoryDesk`, `Talents`, `RunSync` |
| `Classroom` | composition of `Territory` and `ClassRegister` |
| `MCSessions`, `MCTerritory`, `MCClassroom`, `MCArsenal`, `MCGameFlow`, `MCPlay`, `MCPages` | instances for TLC |
| `Sessions_proof`, `Classroom_proof`, `RunSync_proof`, `Pages_proof`, `ReplayLog_proof`, `Play_proof`, `GameFlow_proof`, `Arsenal_proof` | theorems |

`Sessions` extends `SessionAggregate`; `ActiveSlot` and `TerritoryBoard` are
abstract specifications instantiated under a refinement mapping (`SlotRefined`
maps the slot to the one active row; `BoardRefined` is the identity on `occ`
and `settled`, the other variables being hidden).

`Play` and `Pages` put modules beside each other that share no state in the code:
the radar does not touch the music, the rankings do not touch the talents. A behaviour is about one of them, chosen at the start (`part`), the
others stay at one of their initial states, and the states of the parts add up
instead of multiplying. Parts that do share state are in one module: the
recorder with server log and spectator (`ReplayLog`), tabs with cookies and
token table (`ApiAuth`), the pages with the rows behind them. Every name of a
composed module starts with the two letters of its module. `Classroom` does the same for
`Territory` and `ClassRegister`, which do share the memberships in the code: a removal
deletes in both. Each has the memberships its rules depend on, and neither looks at the
other's tables.

Definitions called *Mutant* in a comment are deliberately broken variants of the
operator that follows them. No action uses one; each shows that some property
would notice that mistake.

### 2.1 Sessions

**State.** `rows` are the committed rows; `rowLock` and `userLock` are
PostgreSQL's row locks and `pg_advisory_xact_lock`. A request `r` has a
statement counter `pc[r]`, the session it works on, the session it found
(`cur`), the aggregate in memory (`snap`) and the row as read again by `save()`
(`seen`). `board`, `checked` and `iaSeen` are what the handlers did; `result`
remembers, as history, the entry each session completed with.

**Steps.** Two statements of one transaction are two steps whenever another
commit between them can change the outcome. Locked requests therefore take two
steps, the lock and the commit. The unlocked ones take four: read, re-read in
`save()`, UPDATE (which waits for the lock), commit. The re-read is a real
statement because the ORM's identity map holds rows weakly: the row object of
`find_by_id` is dropped once it was converted to an aggregate. `Written` then
changes the columns in which the aggregate differs from the re-read row. An
UPDATE without changed columns is not sent by the code, while the model waits
for the row lock; the model has more waiting and no other outcome.

**create_session.** `CreateBegin` takes the advisory lock, `CreateFindStale`
reads the stale session, `SaveReread`/`SaveFlush` write its abandonment,
`CreateFindActive` reads the active row `FOR UPDATE`, `CreateInsert` abandons
it, inserts and commits. One user has at most one active session, so the sweep
has at most one stale session to save. The model contains no unique index:
`OneActive` shows that it is never needed.

**end_session.** `EndLock` decides between the stale path (abandon, commit,
error), the retry path (leaderboard only) and completion. `EndCommit` takes the
wave count from the replay log when there is one, checks the bounds and commits.
`BoardHandler`, `AchievementHandler`, `IaCompute`, `IaSave` follow in the code's
order. An `/end` on an abandoned row is refused without effect and has no step.

**Data.** A total score is a choice over what `_verify_score` can return (0
without evidence, cleared, or a value). Kills, gold and lives are bounded the
way the score is and feed the total alone. Challenge validation and star ratings
are requests that are refused earlier, without effect. Ids are never reused.

### 2.2 Territory

**State.** `occ[s]` is the session that holds slot `s`; it names the student and
the score. `used` is `territory_session_uses`, which outlives an occupation.
`snaps` counts ranking snapshots, `due` is the id list of a running batch,
`captures` counts committed plays per session as history. Locks are not stored:
a play keeps what it locked until it is idle, so `ActFree` and `RowFree` follow
from the statement counters.

**Steps.** `PlayLock` (activity `FOR UPDATE`, open and before its deadline),
`PlayMember`, `PlayRow` (occupation `FOR UPDATE`), `PlayUsed`, `PlayAttempt`
(compare scores, count slots, look up the use for `merge()`), `PlayWrite` (the
inserts, which may collide with unique keys). `RemoveRead`/`RemoveCommit` are the
removal of a student. `SettleActivity` is the teacher, `SettleScan` and
`SettleNext` the scheduler's batch.

### 2.3 The engine

**GameFlow.** A frame is one fixed step through the systems in the order
`register-systems.ts` gives: wave, movement, damage, deaths, splits. Walking is a
countdown, damage lands on any enemies. Between frames the player starts waves,
answers the boss's question, chooses a door, idles or changes speed. `g` holds
phase, spawn queue, foes, hit points, what was created and removed, and the clock
of `useEngineUiBridges`: `time` passes, `excluded` is what the code will
subtract, and `opening`, `inWave`, `late` are history that says what it should be.
The loops of a frame (over the foes in array order, over the spawn queue) are recursive
functions on the number of turns left. `RunState` and `RunOk` are the inductive invariant.

**Arsenal.** An action is one click with every listener it reaches, or one frame
of buff and spell timers. A cached number (a tower's damage, range, interference)
is kept as the tuple of what it was computed from, so that staleness shows
whatever the formula; percentages are whole units. `earned` is history, all gold
that ever came in. Towers are a function of their ids. The catalogues of towers, items,
spells and rewards are definitions of the module, since the rules depend on their numbers;
which of them are on offer, the gold and the limits of the level are constants. `PaidEntry`
says whether the run began with a paid initial answer, whose 50 gold reach `costTotal` and
not the purse: `LedgerBalanced` has them as `SkipCost`.

**Radar.** Angles are units of a circle, time is ticks. One enemy that stays where
it is stands for all, since the needle moves the same for each; `since` counts the
ticks since its last hit while it may be hit. `RdAssumption` says that one tick's step is
less than the band and fits in what the band leaves free of the circle: the code turns by
less than 4 rad/s (2 rad/s, plus the upgrades and the talent of `tower-defs.ts:119` and
`talent-defs.ts:26`) at 60 ticks a second, and its band reaches 0.5 to 1 radian to each
side. Without it the needle could step over an enemy.

**LevelMap.** Curves are quadratics with integer samples; the generator's
rejections are in, the random choice is a choice. Two engines (WASM and
JavaScript) may answer differently for one seed, and either may find no level for it: then
the player stays on the level select, and a replay is refused. The replay regenerates
the level from the session's row. `lmHist.by` and `lmHist.load` are history: the engine
that made the level and the load of the page it was made in.

### 2.4 The page

**GamePage.** `pgEng` has the boots under way by generation and the engines alive;
`pgSlot` is the one modal, `pgAsks` the `showConfirm` promises that wait. A card,
the pause key, the manual and a modal each stop or start the loop on their own,
as in the code; `PgOk` and `PgCancel` are the player's answer.

**Hud.** `huEng` is the engine's state, `huStore` the copy. The listeners of the
store run after those of the systems, so that an event copies what the systems
made of it; SYNC copies everything. The checkpoint is taken from the copy.

**Audio.** A bed is off, at its volume, or fading out with a stop at the end of its
fade, and a fade may be cut. `useEngineAudio` drives beds by phase,
`useGlobalMusic` the playlist by route; nothing sounds before the first gesture.

**ReplayLog.** An event is its number, `Script` its type. `rlTab` is the recorder,
`rlPosts` the batches on their way, each with what became of it, `rlServer` the log,
`rlViewer` the spectator's socket with its bounded queue and what it got.

### 2.5 The pages and the server

**ApiAuth.** `auCalls` are requests with their retries; `auRefresh` is the one
refresh a tab shares, `auLock` the lock `mg-auth-refresh` between tabs, `auServer`
the table of refresh tokens. A request is handled and answered in two steps; either
may be lost.

**RunSync.** `sync` holds the module variables of the composable (`id` the session,
`cgen` the create generation, `sgen` the snapshot generation, `pending` the
one-place queue), `creates`, `loop`, `enders`, `strays` and `cleanup` the calls
under way. The server is the one-active rule over `rows`; its transactions are
`Sessions`.

**Settings, Rankings, ClassDesk, TerritoryDesk, Talents.** Each has the page, the
rows it is about, and the set of calls under way. A call remembers what it was
sent for only when the code does (`fetchId`, abort signal, sequence number), so
answers may meet a page that has moved on. A list is modelled by the question it
answers. `Settings` starts when somebody has just signed in; the sign-in view is open at any
time the app is mounted, also while a `/me` that refreshes the player before is under way. There
`seHist.owed` says that the last change of the marker is the server's to have, and
`seHist.replaced` that the last `/me` put somebody else on the page than the cookie's owner.

**ClassRegister.** A request loads its class and asks whether the requester may, reads
what it checks, writes and commits: three steps (`CrBegins`, `CrReads`, `CrCommits`). What
was read is not locked, so it may have changed at the write; unique and foreign keys are
guards of the write, and `CrFails` rolls a request back anywhere. `crRow` has the columns
of a class that a rule looks at, `crIn` the tables that refer to it, which the database
empties with it. `crHist.overtaken` is history: the kinds of check that had been
overtaken when a write relied on them. A save assigns every field of the aggregate it
loaded (`CrSaved`), or inserts the row again when it is gone.

## 3. What is checked

| Run | Shows | States |
|---|---|---|
| `Sessions_rows` | two requests of every kind but replay batches on two sessions: `OneActive`, `ReflectedCompleted`, `LiveProgress`, and `SlotRefined` | 1.8 M |
| `Sessions_effects` | create, end, retry and replay batches with one crash or failing handler: `Inv` (with `TypeOK`), `EffectsOnce`, `BoardOnlyRanked` | 1.3 M |
| `Sessions_live` | fair requests: `RequestsEnd` (no deadlock or starvation between advisory lock and row locks), `BoardReached` | 12 k |
| `Sessions_terminal` | *violated*: `OnlyAllowedTransitions` | |
| `Territory_board` | two requests play, settle and remove: `Inv`, `BoardRefined`, `CapHeld`, `SettledOnce`, `OneSlotPerSession`, `StandingsStand`; beside them the register of classes: `RegisterHolds` | 2.3 M |
| `Territory_live` | `ExpiredSettled` with one failed batch or crash | 20 k |
| `Territory_once` | *violated*: `CapturedOnce` | |
| `Arsenal_caches` | building, selling, buffs and spells in any order: `BonusesMatchBuffs`, `StatsFresh`, `PairsMatched`, `LedgerBalanced` | 3.6 M |
| `GameFlow_run` | a run of two waves: `RunSettled` (`OneVerdict`, `EveryFoeOnce`), `ClockExact`, and under fair frames `RunEnds` | 70 k |
| `Play_parts` | `PageInStep`, `LevelAgrees`, `CopyHolds`, `NoFoeForgotten`, `MusicOfPage`, `LogFaithful`, each about one part of `Play` | 4.3 M |
| `Pages_parts` | `ReuseOnlyAfterFault`, `AppliedOnce`, `SettingsSaved`, `ShownIsWanted`, `RosterOfSelected`, `OutcomeKept`, `TalentsHold`, `LatestAdopted`, `NothingLeftActive`, `EndAfterPushes`, each about one part of `Pages` | 2.3 M |
| `Hud_checkpoint` | *violated*: `CheckpointRunIsPractice` | |

What some of the properties join:

* `PageInStep`: the only engine alive is the one of the page (`OneEngine`); the
  loop stands exactly while the pause overlay or a card is up (`StoppedIffShown`);
  who waits for the player is whom the modal asks for (`ConfirmsSettled`).
* `LevelAgrees`: towers stand off the paths and decoys of the level on the page, and while
  the paths are shown what is painted buildable, or under the cursor, can be placed on
  (`BoardAgrees`); a replay shows the level that was played, with the exception below
  (`ReplayShowsRun`).
* `CopyHolds`: the HUD shows the engine (`HudMirrors`); the retry offered is that of
  the lost wave (`RetryOfLostWave`).
* `LogFaithful`: log and spectator get events in order and at most once
  (`StreamsInOrder`); a recorder that did not admit a loss lost nothing
  (`NothingForgotten`).
* `TalentsHold`: the stored tree is legal whatever two tabs do (`TreeLegal`); a game
  plays by it (`BonusesOfTree`).
* `RegisterHolds`: whoever is in a group is in the class (`GroupedAreMembers`); who was
  removed stays out (`BlockedStayOut`); no class is filled beyond its capacity
  (`WithinCapacity`); the owner is no co-teacher (`OneRole`); a replaced code opens
  nothing (`RevokedCodes`). Sequences of requests keep all of them; a check that was
  overtaken by another commit breaks its own promise and no other.

Properties with an exception name it: `SettingsSaved` leaves out a change whose PUT was lost,
overtaken, or never sent because the player left within the debounce, and, as to who is on
the page, a late `/me` that replaced the player who had signed in; `ReplayShowsRun` a run whose page was reloaded
between the making of its level and its session and got another engine in that reload;
`ShownIsWanted` what was picked before the view had come up,
`RosterOfSelected` two loads that crossed, `OutcomeKept` a page opened while the
first post was under way, `BonusesOfTree` two loads that crossed, `StoppedIffShown`
a run retried under an open card, `NothingLeftActive` the second run of a page,
each conjunct of `RegisterHolds` the overtaken checks of its kind. Each
exception is a behaviour of the code that really breaks the plain statement; they
are listed below.

### What the violated runs found

1. **A completed session becomes ABANDONED.** `/abandon` (and the stale sweep of
   GET active) reads the row without a lock; an `/end` commits in between; the
   save then writes ABANDONED. The aggregate calls COMPLETED terminal.
   The leaderboard entry stays, the row disagrees with it. The save writes every column
   back in which the aggregate differs (`session_repository.py:95-110`): the total, and a
   reflection that was attached in between, are gone as well.
2. **One session captures twice**: both plays pass `is_session_used`; the second
   one's `merge()` finds the row and updates it silently.
   `uq_territory_occupation_session` only stops it while the first capture stands.
3. **A checkpoint run is ranked.** The page and the manual say that a run resumed
   from a checkpoint is practice; `useSessionSync.ts:91` sends the slider setting
   as `practiceMode` and nothing else.

### Disagreements met on the way, not turned into runs

Server.
* The log of an ended session can grow: `append_events` checks the status and
  inserts later (`replay_service.py:85`), against "only ACTIVE sessions accept new
  replay events." It also promises that a retried batch returns 0, and refuses its
  sequence numbers.
* A retry of `/end` replays the leaderboard alone (`session_service.py:410`); the
  accuracy does not re-converge as the docstring at line 381 says.
* A play that checked the membership before a removal and commits after it leaves
  the slot with a student who is no member (`territory_service.py:258`).
* A retry of a successful play is refused as a used session although
  `attempt_occupation` has a branch for duplicates; a removal after settlement
  deletes occupations although `docs/v2_implementation/phase-6-classroom-competition.md`
  speaks of frozen standings (`StandingsStand` states what the code does keep).

* `class_service.py` saves an aggregate as it was loaded: a rename that overlaps with an
  archiving, a new join code, or a transfer writes the old value back if it reads the row
  after that commit, although `ClassView.vue:238` says of a new code that "only the old
  code stops working for new joiners"; and it inserts a class that was deleted meanwhile.
* The capacity is read before the insert, so that two joins fill the last place; a student
  who is put into a group while being removed stays in it (`class_service.py:351`, `:919`);
  a join that overlaps with a removal leaves a member who is listed as removed; a teacher
  who is added as co-teacher during a transfer to them has both roles; `join_by_code` and
  `move_student` leave the invite of the student behind.

Run, economy, clock.
* The 50 gold of a paid initial answer are not charged: `useGameLoop.ts:235`
  subtracts them before `EconomySystem.ts:69` sets the gold of the level.
* Refunding a tower that was free makes `costTotal` smaller than what was spent,
  down to negative values (`TowerUpgradeSystem.ts:89`).
* The first build phase counts as active time (`useEngineUiBridges.ts:56`), the manual
  excludes it; the result screen reads `timeExcludePrepare`, which is only
  written at LEVEL_START and at a full copy (`ScoreResultView.vue:39`).
* Pets of a Calculus tower do not carry damage buffs, and fight on after a sale; a
  resumed checkpoint starts the door thresholds anew; only the shop's button
  prevents a second shield; the tower bar refuses an unaffordable tower even with
  free charges left; the Limit tower walks `game.enemies` while `killEnemy` appends.

Page, HUD, board, music.
* A card shown does not always stop the loop; a sticky modal can be replaced; a
  late `startRun` pushes from any page; Space on the OK button of a modal toggles the
  pause as well; a confirmed exit hides the overlay and leaves the loop stopped.
* HUD: enemies remaining counts dying ones; the cost shown is 0 after a paid initial
  answer; `SpellBar` clears an armed spell that was refused; an armed spell and a
  selected tower both act on one click; `totalWaves` is not copied before the
  first wave; cooldowns are up to 30 frames old.
* A session is tagged with the engine of the load that begins it, whatever engine made its level.
  When the page is reloaded in between (`history.state` keeps the level) and the WASM module
  loads in one of the two loads only, the tag names the other engine, and the replay
  generates another level or none. `levelGenerationService.ts:10` says of its own tag
  that "This matches the tag useSessionSync stamps on the server-side session row, keeping
  replay reconstruction in sync", line 38 asks callers to avoid just this pair, and
  `ReplayView.vue:101` says that the same seed "reproduces the exact GeneratedLevel the live run saw".
  Nobody passes the tag on from `generate` to the session. `ReplayShowsRun` names the case.
* A tower may stand near a path between two half-unit samples
  (`legal-positions.ts:17`); decoys are unseeded for territory runs; a failed WASM load is
  cached; a replay never reveals paths and never deducts a paid answer.
* `playMusic` of a bed that exists returns before it stops the others; a change of
  volume drops a fade-out, and so does the first gesture.
* `Math_Defense_Spec.md:139` describes the radar's earlier mode. The arc panel clears
  the band memory, which is harmless because it opens between waves only. The first
  interval of a pulse is a tick short.

Session and log.
* GET `/active` of the clean-up leaves in the same task as POST `/sessions` of the new
  run, so that it may find, and abandon, the new session.
* With two runs of a page, the draining end of the old one can end the new session;
  the guard against a second end skips the new run's end; the "will retry on next
  end event" of `useSessionSync.ts:242` has no next event; an old run's `finally` drops
  a newer snapshot; a PATCH answered with 401 forgets the session.
* Recorder: a beacon that fails drops its batch, and may overtake a flush; `destroy`
  does not flush while one is under way; a batch that was stored but not answered is
  refused until the recorder gives up; the LEVEL_END batch races `/end`.
* Spectator: a reconnect adds the snapshot's towers to those on the page and an ended
  session stays 'live'; 4404 is retried; a batch between snapshot and subscription is
  missed (`routers/replay.py:146`); a full queue drops the subscriber and leaves its
  socket open. The player of a stored log ignores TOWER_PLACED and never reaches 'ended'.

Pages.
* `api.ts:161` counts a failure of the network (`ApiError.status === 0`) among what is
  retried, but the TypeError of `fetch` is thrown as it is and never becomes one. A late
  answer may sign a tab in again that has signed out. It may also replace another player:
  `refreshProfile` looks at the user before it waits only (`authStore.ts:180-183`), nobody
  waits for it, and when its player has logged out and another has signed in, the page
  shows the former under the cookie of the latter; what is set then goes to the latter's row.
  `SettingsSaved` names the case.
* Rankings: a spinner may stay, the scope selector of one tab is not shown, and
  `onMounted` overrides a tab picked early. Settings: `useAuth.login` does not hydrate the
  marker, two PUTs may arrive in the wrong order, the debounce is dropped on leaving.
  Class desk: the QR of the previous code stays, two selections may cross. Territory:
  an error of one activity is shown on another's page, a run may be begun with the slot
  of an activity left before, a masked outcome, a late `loadDetail` after signing out.
  Talents: two loads of the store may cross.

### Bounds, and why they are enough

* *Sessions: two sessions, two requests.* Every rule relates one session to at most
  one other (the old active and the new one), and every hazard listed needs a reader
  and a writer. Three requests only matter for properties that mix two stale
  saves of one row; `BoardOnlyRanked` and the others are proved for any number.
  "The board entry equals the row's result" is not claimed: with three requests
  two stale saves can combine into a row no request computed.
* `LevelScore = 1` in `Sessions_rows` gives a score that can advance and go back.
  The wave of a live session follows the same guard and write as the score, so
  `MaxWave = 0` there. `ScoreDelta` is never the tighter bound in these runs.
* `WaveCaps = {0, 1}`, `LevelWaves = 1`, `MaxLog = 2` in `Sessions_effects`: the
  log may prove more waves than a challenge, or the level, allows.
* `MaxFaults = 1`: one crash or failing handler, anywhere. Retries are free, so
  every recovery is explored.
* *Territory*: a student with two sessions, below and above another student's, two
  slots in a class activity and one in an inter-class activity, `Cap = 1`.
  Smaller instances cannot show the cap (two slots), a counter-seize (three
  scores) or one session in two activities.
* *Arsenal*: two cells within interference and laser range and a curve that lights
  both; three towers, three paid operations, two waves. `StartGold = 290` lets some
  purchases fail, and `TickSecs = 30` lets a buff run out in the middle of a wave.
  Three towers are the least for a pair that is matched anew.
* *GameFlow*: a wave with a splitting enemy, a wave with a fast enemy and a boss; the
  first threshold is met in wave one, the second by the last kill; 3 hit points, so
  that a leak may leave one or none; both speeds, both starts (fresh, checkpoint).
* *Play*: three moves and two boots overlap a boot with a departure and a retry; two
  foe types queue two cards; a grid of 4 holds a line, a steep line, a flat one and
  a parabola, with two decoys; a circle of 24 with bands of 3 and 4, needles of 1 and 2
  and four arcs, among them one across zero, the full circle and one short of
  it; a script of three events with a buffer of 2, a log of 3, a queue of
  1 and two failures to give up, so that each limit is met.
* *Pages*: two requests of one tab or of two tabs, one expiry, sign-in, retry and fault;
  two changes of the marker, two players whose rows have a style and no effect (so that
  hydration takes the one and leaves the other), and two visits, so that one may sign in
  while the `/me` of the other is under way; four loads, four calls; two activities over five pages
  and two runs; five points and five clicks fill a tree of
  three nodes, one behind a level and one behind a full level; two runs
  of one wave each, two tries, three sessions.
* *ClassRegister* (in `Territory_board`): three requests, two of them at a time, on a class in
  use with a student in a group and on a class with one place, or one still to be created
  and a student still to register. Two requests at a time overtake each other's checks;
  the third lets a removed student be taken twice. Each of the five kinds of overtaken
  check is reached.
* Symmetry is used for runs of `Sessions`, `Territory` and `Pages` without liveness
  properties only. The two sessions, and the requests, are interchangeable; in `MCTerritory`
  just the requests are, since sessions and slots differ in score and activity; in `MCPages`
  the two users of the settings.
* Deadlock is not checked: when every id, visit or click is used up, the model has no
  step to take, which is the bound and not the system. That no accepted request is stuck is
  `RequestsEnd`, that no run is stuck is `RunEnds`.

### Fairness

`Proceed(r)` is weakly fair: a worker thread runs an accepted request to its end.
Whether a client sends a request is not fair, nor is the passing of time or a
fault. The lock waits `SaveFlush`, `CreateFindActive`, `RemoveCommit` and
`SettleNext` are strongly fair: PostgreSQL queues the waiters of a lock, so a
waiter cannot be overtaken for ever. `SettleScan` is weakly fair because the
scheduler task loops until shutdown and survives a failing round.

In `GameFlow`, `Frame` is weakly fair because the browser keeps calling
`requestAnimationFrame` while the loop runs. `StartLevel`, `StartWave` and `Answer` are
the player's: `RunEnds` says that a run whose player goes on comes to a verdict, and
not that a player goes on. The other modules of the browser have no fairness and no
liveness property: whether an answer ever arrives is up to the network.

## 4. What is proved

Every safety property of the passing runs is a theorem, for all values of the constants
that the module's assumption admits. Each proof module states one inductive invariant per
component, proves that the initial states have it and that every action keeps it, and
reads the properties off it. None of the properties below is inductive by itself; what
the invariants add is why they hold.

### 4.1 Sessions

`Sessions_proof` proves for every finite or infinite set of sessions and requests,
every workload and every bound, from the assumptions `BoundsAssumption` and
`IdsAssumption` (the bounds are natural numbers, `NoSid` and `NoReq` are no
members):

| Theorem | Statement |
|---|---|
| `SessionsInv` | `Spec => []Inv` |
| `TypeCorrect`, `OneActiveHolds`, `EffectsOnceHolds`, `BoardOnlyRankedHolds`, `ReflectedCompletedHolds` | the conjuncts worth citing by themselves |
| `LiveProgressHolds` | `Spec => LiveProgress` |
| `ImplementsSlot` | `Spec => SlotRefined`: every step opens the slot with a fresh session, closes it, or leaves it alone |

`Inv` adds to what is stated:

* `CreatorAlone` - who is inside `create_session` holds the advisory lock, so
  there is one creator. `InsertReady` - at the insert, every active row is one the
  creator is about to abandon. With `Writing` (it holds the locks of those rows)
  this gives `OneActive`.
* `HoldsLive` - past `FOR UPDATE` the row stays live and locked, so `EndCommit`
  completes a session that is still active. Hence `CheckDue`: an achievement check
  is due at most once per ended session, and `EffectsOnce`.
* `Saving` - what an unlocked save writes is an ended session. A stale save may
  exchange one ended status for the other, and cannot revive a session. Without
  it `HoldsLive` and `OneActive` fail at `SaveCommit`.
* `ResultKept` - whatever is or was completed has a result, in the row and in
  memory. This gives `BoardOnlyRanked` and `ReflectedCompleted`, also for the row
  that finding 1 turned into ABANDONED. It also says that a completed aggregate in
  memory means that its row has ended; without it a save could complete a live row
  with old values, and `LiveProgress` would fail.
* `Named` - which requests name a session, and that it exists.

The proof has one lemma per action. `RowsFollow` is shared by the actions that
write rows: no row disappears, changes its ranking, or leaves an ended status for
the active one. `LiveProgress` and `SlotRefined` speak of steps: `RowWriters`
lists the actions that write a row, `SavedRow` shows that an unlocked save turns a
live row into an abandoned one and nothing else, and `NoOpening` that only
`CreateInsert` brings a session to life.

### 4.2 The classroom

`Classroom_proof` proves for any number of activities, students, sessions and
requests, any finite set of slots and any cap (`TerritoryAssumption`), and for any
classes, teachers, groups, finite set of students and number of requests (`CrAssumption`):

| Theorem | Statement |
|---|---|
| `TerritoryInv` | `Spec => []Inv` |
| `TypeCorrect`, `CapHolds`, `SettledOnceHolds`, `OneSlotHolds` | conjuncts of `Inv` |
| `StandingsStandHolds` | `Spec => StandingsStand` |
| `ImplementsBoard` | `Spec => BoardRefined`: every step is a step of `TerritoryBoard` or a stutter |
| `RoomParts` | `RoomSpec => Spec /\ CrSpec`: a behaviour of the composition is one of each part |
| `RegisterInvHolds` | `CrSpec => []RegisterInv` |
| `RegisterHoldsAlways` | `RoomSpec => []RegisterHolds` |

`Inv` adds three facts to what is stated:

* `Open` - the activity of a play is not settled, since settling waits for its row.
* `PlaysAlone` - the row lock of the activity admits one play at a time.
* `Admitted` - what `attempt_occupation` decided is still true at the write. Plays
  of other activities do not touch these slots (`PlaysAlone`), and a removal waits
  for the slot and for the rows that were counted (`RowFree`).

`CapHeld` then follows by counting (`TakingKeepsCap`, `VacatingKeepsCap`), and the
write of a play is `Capture`, the commit of a removal `Leave`, a settlement
`Settle`. The count is over a set, so the slots must be finite; nothing else is.

`RegisterInv` adds what a request was let through for (`CrPassed`: at its write it has
seen a class with a place left) and who a code belongs to (`CrCodesSound`: a code is of
one class, of now or of before, or of one request that has issued and not yet written
it). Each conjunct of `RegisterHolds` is kept by every commit whose check has not been
overtaken; where it has, the commit itself writes that down in `crHist.overtaken`, and the
proof splits each commit on this.

### 4.3 Run synchronisation

`RunSync_proof` proves for any number of runs, waves, attempts, sessions and faults
(`RunSyncAssumption`: the bounds are natural numbers):

| Theorem | Statement |
|---|---|
| `SyncInvHolds`, `FirstRunInvHolds` | `SyncSpec => []SyncInv`, `SyncSpec => []FirstRunInv` |
| `SyncTypeCorrect`, `LatestAdoptedHolds` | conjuncts of `SyncInv` |
| `EndAfterPushesHolds` | `SyncSpec => EndAfterPushes` |
| `NothingLeftActiveHolds` | `SyncSpec => []NothingLeftActive` |

`LatestAdopted` rests on `CallsNamed` (a call that is answered names the session opened
for its own generation), and on the server's rows only growing and never changing
their generation (`Kept`): an adopted session stays that of its call. A call is adopted
only while its generation is the latest. `EndAfterPushes` is about the snapshot under
way, so `TurnsInv` says when there may be none: each call has a generation of its own
(`OneCallEach`), and while the create call of an end is the current one and nothing was
lost, there is no session and no snapshot under way (`EndsQuiet`).

`NothingLeftActive` says what is left in the end, so `FirstRunInv` says who owes it:
while nothing is lost in the first run of a page, every active session on the server has
someone under way who will close it (`Owed`) - an abandon, an end at its post, the
answer of the call that opened it, a call that opens another, or the run that still
plays it. `OneEnd` and `NoneLate` say that these do not lose track of each other: a run is
ended once, only when over, and a page that was left has no session. Before the first run
nothing was asked (`Untouched`).

### 4.4 The pages

`Pages_proof` proves for any tabs and layout of requests, and any number of retries,
expiries, sign-ins, faults, users, visits, lists, classes, runs, points and clicks (the
`Assumption` of each part):

| Theorem | Statement |
|---|---|
| `AuInvHolds` | `AuSpec => [](AuInv /\ AuCallsInv)` |
| `ReuseOnlyAfterFaultHolds`, `AppliedOnceHolds` | `AuSpec => []ReuseOnlyAfterFault`, `AuSpec => []AppliedOnce` |
| `PagesParts` | `PaSpec => AuSpec /\ SyncSpec`: what is proved of sign-in and run synchronisation holds in the composition |
| `SettingsSavedHolds`, `ShownIsWantedHolds`, `RosterOfSelectedHolds`, `OutcomeKeptHolds`, `TalentsHoldHolds` | `PaSpec => []` the property of that name, through `SettingsInv`, `RankingsInv`, `ClassDeskInv`, `OutcomeInv`, `TalentsInv` |

* *Sign-in.* `AuLockInv`: the lock has one holder, the tab whose refresh is past it.
  `AuTokensInv`, while no answer was lost: a refresh under way carries a live token or none,
  an answered one brings a live token, and the cookie's token is live unless such an
  answer is about to replace it. A second tab therefore reads the cookie when it holds
  what the first one got. `AuOnce`: a write that was applied has an answer that nothing
  sends again.
* *Settings.* `LastChangeSent`: the last change of the marker is on its way under the last
  number with the values on show, or was the last the server took, and the row of the
  cookie's owner has it; the numbers are distinct (`PutsNumbered`). `OneIdentity`: while the
  browser holds a cookie, whoever is on the page is its owner or was put there by a
  late `/me`. Every change sets `owed`; the actions that clear it are the named exceptions,
  a change that takes its place, and the loss of the account.
* *Rankings.* `LatestWanted`: the request with the latest number is about what is selected
  now, and older ones are dropped. The board has a loader for each table, so `BoardWanted`
  speaks of the requests for the table of the tab: they ask what is selected, since a new
  load drops the one before it.
* *Class desk.* `OneRoster` and `RosterFollows`: the one roster asked for is that of the
  selected class, and an answered one is what the server keeps or is due to be read again.
* *Territory pages.* `OutcomesTrue`: what was answered, cached or heard is what the server
  decided. `OwnAnswer`: a result page hears its own session.
* *Talents.* `LockHeld`: who holds the row has read the stored levels, so that what it
  writes is legal because what it read was. `StoreFollows` says when a store that is being
  loaded will have the stored levels. The tree is the one of three nodes of `Talents`, one
  behind a level and one behind a full level; the points to spend are a constant.

### 4.5 The game page

`Play_proof` proves, each for `PlSpec`, the composition, and any moves, boots, enemies,
levels, engines, arcs, speeds, tracks and games; `ReplayLog_proof` for every script, buffer,
cap, queue and number of faults (`RlAssumption`):

| Theorem | Statement |
|---|---|
| `PgInvHolds`, `PageInStepHolds` | `PlSpec => []PgInv`, `PlSpec => []PageInStep` |
| `LevelAgreesHolds` | `PlSpec => []LevelAgrees`, through `LevelInv` |
| `CopyHoldsAlways` | `PlSpec => []CopyHolds`, through `HudInv` |
| `RadarInvHolds`, `NoFoeForgottenHolds` | `PlSpec => []RadarInv`, `PlSpec => []NoFoeForgotten` |
| `MuInvHolds`, `MusicOfPageHolds` | `PlSpec => []MuInv`, `PlSpec => []MusicOfPage` |
| `RlInvHolds`, `LogFaithfulHolds` | `RlSpec => []RlInv`, `RlSpec => []LogFaithful` |
| `PlayLog` | `PlSpec => RlInit /\ [][RlNext]_rlVars`: a behaviour of the page is one of the log |

* *Page.* `PgBootsInv`: the boots under way have generations from 1 to the latest; the latest
  is under way only on a game page that has no engine yet; an expired login keeps the
  player off the pages a game is begun from. So whatever boot completes, either it is the
  wanted one and the page is there without an engine, or it destroys what it made.
  `PgLoopInv`: without an engine nothing runs, pauses or offers a checkpoint; who pauses a
  wave has no card open, so resuming and acknowledging the last card cannot start the loop
  twice or under each other. `SlotChanges` is the one lemma about questions: whoever takes
  the modal slot settles the question that had it.
* *Board.* `LmBoardKept`: what the context, the placement and the keyboard keep is worked out
  from one level and one draw of decoys, the cursor stands on what it walks, and the
  towers on what the placement accepts. `LmSourceKept`: the level is what the engine that
  made it makes of the seed; that engine is the one of this load if the level was made in it;
  so a row is tagged with it, unless page and engine changed in between (`crossed`).
* *HUD.* `HuKept` says of which wave the checkpoint is in each phase; `HuRunSound` that a run
  that goes on has health left. Events copy part of the engine's state, so each lemma says
  which fields an action of the engine changes and which its listeners copy.
* *Radar.* A property about time becomes one about what is left of it: `RadarInv` says that
  the ticks since the last hit and those the needle still needs (`RaLeft`) never exceed the
  period and one. `RaLeft` is given in closed form for the turning needle, the pulse, and
  the wiper in each of three cases (the band leaves the enemy at its far side, at its near
  side, or the arc is the whole circle); `RaTick` shows that a tick of the wiper takes one
  off it or brings the band onto an enemy it did not hold, and `RaWaitBounds` that a way
  round is never longer than the period. The band of the last tick holds an enemy only if
  it still covers it, and is empty while the tower pulses, so a rising edge is not missed.
* *Music.* `MuMenu` and `MuGame` say who sounds on either side: on the menu one track and no
  other, in a game no track and nothing that hands over to one. `MuWaiting`: what waits for
  the first gesture was not stopped since, so the unlock brings nothing back. The lemmas
  are about the operators of the asset manager (`PlayedBed`, `StoppedBeds`, `RaisedBeds`,
  `TrackBegun`, `ListBegun`, `ListEnded`); a step of a page is one or two of them.
* *Log.* `RlPostInv`: a batch under way is in order, of numbers given out; a flushed one comes
  before everything in the buffer, so a refused batch can be put back in front; a stored
  one is in the log. `RlTabInv`: there is one flush at a time, and nothing is missing from
  buffer, posts and log while the recorder admits no loss. `RlViewInv`: what the spectator
  got, followed by its queue, is an ordered part of the log. The server accepts a batch
  only above its last number, which keeps the log in order when a beacon overtook a flush.

### 4.6 The engine

`GameFlow_proof` proves for any waves of any kinds, thresholds, speeds, hit points and bounds
(`GameFlowAssumption`), `Arsenal_proof` for any cells, curves, gold, limits and any choice
of towers, items, spells and rewards of the catalogues (`ArsenalAssumption`):

| Theorem | Statement |
|---|---|
| `RunInvHolds` | `Spec => []RunInv` |
| `RunSettledHolds`, `ClockExactHolds` | `Spec => []RunSettled`, `Spec => []ClockExact` |
| `ArsenalInvHolds` | `Spec => []ArsenalInv` |
| `BonusesHold`, `StatsHold`, `PairsHold`, `LedgerHolds` | `Spec => []` of `BonusesMatchBuffs`, `StatsFresh`, `PairsMatched`, `LedgerBalanced` |

* *Run.* A frame is one action, and within it the phase may change at any enemy. `RunOk` is
  what every part of a frame keeps: an id is one enemy's and each enemy created is on the
  board or was removed (`FoesOk`), the verdict is there when the hit points are gone or the
  level has ended (`VerdictOk`), doors and questions belong to their phases (`PhaseOk`), and
  `ClockOk` gives the excluded time in each phase as a function of when the open interval
  began. `FirstFrame` holds between frames only: the first wave begins with an empty board,
  so it cannot end in the frame that begins its clock.
* *Arsenal.* `Sound` holds between any two calls, also within a frame: towers stand under
  their own ids; damage, range and interference are what the present state gives; partners
  are mutual and a laser joins a tower to the partner it has now; each accumulator is the
  sum of the buffs that run, and there is at most one shield, up just while its buff runs.
  `Rested` adds what holds between actions: no buff is spent, and a tower is lit in a wave
  only. The catalogues enter by finite facts (which effects there are, that costs are
  positive); the sums over buffs by `SumOf` lemmas.

### 4.7 Induction over data, and what is only model-checked

The library's induction theorems cannot be used with these provers. Where a proof needs
induction, over the turns of a loop in a frame (`GameFlow_proof`) or the length of a list
of buffs (`Arsenal_proof`), it goes by the least counterexample: the set of numbers where
the claim fails has a least element (`WFMin` with `NatLessThanWellFounded`), which is not 0
and whose predecessor is no counterexample. The first cell of the cursor's walk exists by
the same fact (`Play_proof`).

**Model-checked only**: the liveness properties `RequestsEnd`, `BoardReached`,
`ExpiredSettled` and `RunEnds`, since the prover does not support reasoning under fairness.
The three violated runs are counterexamples and have nothing to prove.

## 5. Plan

1. The occupations that `delete_class` and `move_student` delete, in `Territory`; groups and
   invites in `ClassDesk`.
2. The occupations of a student who is removed while a play of theirs is under way
   (`territory_service.py:258`), as a property with its exception.
3. Achievement counters over retried ends, and the queries of the server's leaderboards as
   operators against a reference definition.

## 6. What is not modelled, and why

* Rendering draws the engine's state and changes none.
* Combat numbers, positions along a path, trigonometric and logarithmic curves, the C code
  behind the WASM bridge: real-valued. The choice they make (who is hit, who leaks, which
  cell is free) is a choice or an integer instance in the modules.
* Scoring, assessment and study use floating-point formulas; `Sessions` treats the score
  as a choice.
* Passwords, the second factor, mail, the login guard, administration, audit, seasons,
  challenges, recommendations, deployment: I/O, or a transaction on one row each.
* The queries behind leaderboards and rankings: they read committed rows; what reaches the
  board is in `Sessions`, what a page shows in `Rankings`.
* Renaming classes and groups, colours, listings: single fields no rule looks at. The
  occupations that `delete_class` and `move_student` delete, which repeat the removal's
  pattern in `Territory`. Territory's creation, listing and ranking queries: they write no
  occupation beside a play.
* Reading a log page by page, purging old logs, roles and rate limits of the spectator's
  socket.
