------------------------------ MODULE LevelMap ------------------------------
(***************************************************************************)
(* A level from its seed to the board: which engine generates it (the WASM *)
(* module or the JavaScript fallback), the curves through the endpoint,    *)
(* the decoys, the cells painted buildable, those a tower may take, the    *)
(* keyboard cursor, and the replay that generates the level again.  A curve*)
(* is a x^2/2 + b x/2 + c/128; abscissas are in eighths, ordinates in      *)
(* 128ths, so that every sample the code takes is an integer.  Cubics are  *)
(* left out, and so are levels whose exits fall between two eighths.       *)
(* Names start with Lm, this module being composed in Play.                *)
(***************************************************************************)
EXTENDS Integers, FiniteSets, FiniteSetsExt

CONSTANTS
  LmGrid,      \* half width of the board (14 in the code)
  LmEnds,      \* endpoints offered to the generator, in halves
  LmSlopes,    \* candidates for b, in halves
  LmSquares,   \* candidates for a, in halves
  LmDecoyCap,  \* DECOY_HARD_CAP (35 in the code)
  LmClicks,    \* cells the mouse reaches
  LmArrows,    \* bound on the arrow keys of one game
  LmTowers,    \* bound on the towers of one game
  LmLoads,     \* bound on the loads of the page
  LmRuns       \* bound on the levels asked for

ASSUME LmAssumption ==
  /\ LmGrid \in Nat /\ LmDecoyCap \in Nat /\ LmArrows \in Nat
  /\ LmTowers \in Nat /\ LmLoads \in Nat \ {0} /\ LmRuns \in Nat

VARIABLES
  lmMade,  \* what each engine makes of the seed
  lmWasm,  \* of this load of the page: loading, wasm or js
  lmPage,  \* the page shown, the loads and the runs asked for so far
  lmHist,  \* history.state: the level and the answer; beside it, engine and load it comes from
  lmGame,  \* the game on the page
  lmRow    \* the stored session; beside it, the level really played
lmVars == <<lmMade, lmWasm, lmPage, lmHist, lmGame, lmRow>>

LmNoLevel == [line |-> [a |-> 0, b |-> 0, c |-> 0], parab |-> [a |-> 0, b |-> 0, c |-> 0], end |-> <<>>]
LmNowhere == <<>>  \* no cursor
LmEngines == {"wasm", "js"}
LmBoard == (-LmGrid..LmGrid) \X (-LmGrid..LmGrid)

(* ---- generating a level ---------------------------------------------------- *)
LmY(c, k) == c.a * k * k + 8 * c.b * k + c.c
LmThrough(a, b, e) ==
  LET k == 4 * e[1] IN [a |-> a, b |-> b, c |-> 64 * e[2] - a * k * k - 8 * b * k]

\* The slopes at the endpoint are multiples of a half: apart by 0.3, or equal.
LmSlopesApart(l) == l.line.a * l.end[1] + l.line.b # l.parab.a * l.end[1] + l.parab.b

\* Marching from the endpoint, the first abscissa on an edge or past one.
LmLeaves(c, k) == LmY(c, k) >= 128 * LmGrid \/ LmY(c, k) <= -128 * LmGrid
LmRight(c, e) == Min({k \in (4 * e[1])..(8 * LmGrid) : k = 8 * LmGrid \/ LmLeaves(c, k)})
LmLeft(c, e) == Max({k \in (-8 * LmGrid)..(4 * e[1]) : k = -8 * LmGrid \/ LmLeaves(c, k)})
LmExact(c, k) == LmY(c, k) \in (-128 * LmGrid)..(128 * LmGrid)
LmPath(c, e) == [curve |-> c, lo |-> LmLeft(c, e), hi |-> LmRight(c, e)]
LmPaths(l) == {LmPath(l.line, l.end), LmPath(l.parab, l.end)}

\* The region: the widest half extent around the endpoint in which the scan for a
\* change of sign finds one common point.  Its band of ordinates holds the endpoint.
LmDiff(l, k) == LmY(l.line, k) - LmY(l.parab, k)
LmCommon(l, lo, hi) ==
  {k \in lo..hi : LmDiff(l, k) = 0 \/ (k < hi /\ LmDiff(l, k) * LmDiff(l, k + 1) < 0)}
LmSpan(l, h) == [lo |-> Max({-8 * LmGrid, 4 * (l.end[1] - h)}), hi |-> Min({8 * LmGrid, 4 * (l.end[1] + h)})]
LmExtents(l) == {h \in 1..6 : Cardinality(LmCommon(l, LmSpan(l, h).lo, LmSpan(l, h).hi)) = 1}
LmInRegion(l, p) ==
  LET h == Max(LmExtents(l)) IN
    2 * p[1] \in (l.end[1] - h - 1)..(l.end[1] + h + 1) /\ 2 * p[2] \in (l.end[2] - h - 1)..(l.end[2] + h + 1)

LmLevels ==
  {l \in [line : {LmThrough(0, b, e) : b \in LmSlopes, e \in LmEnds},
          parab : {LmThrough(a, b, e) : a \in LmSquares, b \in LmSlopes, e \in LmEnds}, end : LmEnds] :
     /\ LmY(l.line, 4 * l.end[1]) = 64 * l.end[2] /\ LmY(l.parab, 4 * l.end[1]) = 64 * l.end[2]
     /\ LmSlopesApart(l)
     /\ \A w \in LmPaths(l) : LmExact(w.curve, w.lo) /\ LmExact(w.curve, w.hi)
     /\ LmExtents(l) # {}}

(* ---- the board of a level ----------------------------------------------------- *)
LmNear(p, w, stride, reach) ==
  \E k \in w.lo..w.hi :
    /\ (k - w.lo) % stride = 0
    /\ (128 * p[1] - 16 * k) ^ 2 + (128 * p[2] - LmY(w.curve, k)) ^ 2 < reach ^ 2

\* Cells a curve passes at an integral abscissa.
LmPathCells(l) ==
  {p \in LmBoard : \E w \in LmPaths(l) :
     8 * p[1] \in w.lo..w.hi /\ p[2] = (LmY(w.curve, 8 * p[1]) + 64) \div 128}

LmTarget(l) ==
  Min({LmDecoyCap, (4 * Cardinality({p \in LmPathCells(l) : p[2] < LmGrid}) + 5) \div 10})
LmCandidates(l) ==
  {p \in LmBoard : /\ p[1] < LmGrid /\ p[2] < LmGrid /\ ~LmInRegion(l, p)
                   /\ \A w \in LmPaths(l) : ~LmNear(p, w, 4, 192)}
LmGapKept(p, q) == 4 * ((p[1] - q[1]) ^ 2 + (p[2] - q[2]) ^ 2) >= 9
\* What a shuffle by Math.random may leave: enough decoys, or no room for another.
LmDecoySets(l) ==
  LET cells == LmCandidates(l)
      target == LmTarget(l) IN
    {d \in UNION {kSubset(n, cells) : n \in 0..target} :
       /\ \A p \in d, q \in d : p # q => LmGapKept(p, q)
       /\ Cardinality(d) = target \/ \A q \in cells \ d : \E p \in d : ~LmGapKept(p, q)}

LmClear(l) == {p \in LmBoard : \A w \in LmPaths(l) : ~LmNear(p, w, 4, 128)}

\* Of each level: the cells clear of its paths, those its paths cross, its decoys
\* (as enumerated sets: TLC then works them out once).
LmSites ==
  {[level |-> l, clear |-> {p : p \in LmClear(l)}, crossed |-> {p : p \in LmPathCells(l)},
    decoys |-> {d : d \in LmDecoySets(l)}] : l \in LmLevels}
LmSite(l) == CHOOSE s \in LmSites : s.level = l
LmLegal(l, decoys) == LmSite(l).clear \ decoys
LmPainted(l, decoys) == LmLegal(l, decoys) \ LmSite(l).crossed
LmPlaceable(l, decoys) == LmLegal(l, decoys)
LmWalk(l, decoys, concealed) == IF concealed THEN LmBoard ELSE LmLegal(l, decoys)

(* ---- pages and engines -------------------------------------------------------- *)
LmNoGame == [on |-> FALSE, level |-> LmNoLevel, decoys |-> {}, placeable |-> {}, walk |-> {},
             concealed |-> FALSE, phase |-> "end", held |-> FALSE, towers |-> {}, cursor |-> LmNowhere, keys |-> 0]
LmNoHist == [level |-> LmNoLevel, by |-> "none", load |-> 0, answer |-> "none"]
LmNoRow == [tag |-> 0, level |-> LmNoLevel, crossed |-> FALSE]

\* Either engine may find no level for the seed within its attempts.
LmInit ==
  /\ lmMade \in [LmEngines -> LmLevels \cup {LmNoLevel}]
  /\ lmWasm = "loading"
  /\ lmPage = [at |-> "select", loads |-> 1, runs |-> 0]
  /\ lmHist = LmNoHist /\ lmGame = LmNoGame /\ lmRow = LmNoRow

LmSettled ==
  /\ lmWasm = "loading" /\ lmWasm' \in LmEngines
  /\ UNCHANGED <<lmMade, lmPage, lmHist, lmGame, lmRow>>

\* startRun, from the level select.
LmAsk ==
  /\ lmPage.at = "select" /\ lmPage.runs < LmRuns
  /\ lmPage' = [lmPage EXCEPT !.at = "asking", !.runs = @ + 1]
  /\ UNCHANGED <<lmMade, lmWasm, lmHist, lmGame, lmRow>>
\* generate awaits the engine; without a level the player stays where they are, told by
\* a modal when it was the WASM engine (LevelGenerationFailedError), and no other engine
\* is asked.
LmGenerated ==
  /\ lmPage.at = "asking" /\ lmWasm # "loading"
  /\ LET made == lmMade[lmWasm] IN
       /\ lmPage' = [lmPage EXCEPT !.at = IF made = LmNoLevel THEN "select" ELSE "answer"]
       /\ lmHist' = IF made = LmNoLevel THEN lmHist
                    ELSE [level |-> made, by |-> lmWasm, load |-> lmPage.loads, answer |-> "none"]
  /\ UNCHANGED <<lmMade, lmWasm, lmGame, lmRow>>
LmAnswer ==
  /\ lmPage.at = "answer"
  /\ \E a \in {"correct", "wrong", "paid", "ignored"} : lmHist' = [lmHist EXCEPT !.answer = a]
  /\ lmPage' = [lmPage EXCEPT !.at = "booting"]
  /\ UNCHANGED <<lmMade, lmWasm, lmGame, lmRow>>

\* A reload: history.state survives, the engine is loaded anew, the game starts over.
LmReload ==
  /\ lmPage.loads < LmLoads
  /\ lmWasm' = "loading"
  /\ lmPage' = [lmPage EXCEPT !.loads = @ + 1,
                  !.at = CASE @ = "game" -> "booting" [] @ = "asking" -> "select"
                           [] @ \in {"replay", "refused"} -> "replaying" [] OTHER -> @]
  /\ lmGame' = LmNoGame
  /\ UNCHANGED <<lmMade, lmHist, lmRow>>
LmLeave ==
  /\ lmPage.at \in {"answer", "booting", "game", "replaying", "replay", "refused"}
  /\ lmPage' = [lmPage EXCEPT !.at = "select"]
  /\ lmGame' = LmNoGame
  /\ UNCHANGED <<lmMade, lmWasm, lmHist, lmRow>>

\* The keyboard cursor of a build phase: a player who used the arrows finds it again.
LmRank(p) == (p[1] + LmGrid) * (2 * LmGrid + 1) + p[2] + LmGrid
LmFirst(walk) == CHOOSE p \in walk : \A q \in walk : LmRank(p) <= LmRank(q)
LmSeen(keys, walk) == IF keys > 0 /\ walk # {} THEN LmFirst(walk) ELSE LmNowhere
LmStarted(l, decoys, concealed) ==
  [LmNoGame EXCEPT !.on = TRUE, !.level = l, !.decoys = decoys,
     !.placeable = LmPlaceable(l, decoys), !.walk = LmWalk(l, decoys, concealed),
     !.concealed = concealed, !.phase = "build", !.keys = lmGame.keys,
     !.cursor = LmSeen(lmGame.keys, LmWalk(l, decoys, concealed))]

\* bootEngine after initWasm: LEVEL_START builds the context; the session is created
\* with the engine of this load, whatever engine made the level.
LmBoot ==
  /\ lmPage.at = "booting" /\ lmWasm # "loading"
  /\ \E d \in LmSite(lmHist.level).decoys : lmGame' = LmStarted(lmHist.level, d, lmHist.answer = "ignored")
  /\ lmPage' = [lmPage EXCEPT !.at = "game"]
  /\ lmRow' = [tag |-> IF lmWasm = "wasm" THEN 2 ELSE 1, level |-> lmHist.level,
               crossed |-> lmHist.load # lmPage.loads /\ lmHist.by # lmWasm]
  /\ UNCHANGED <<lmMade, lmWasm, lmHist>>

(* ---- placing towers -------------------------------------------------------------- *)
LmPlaying == lmPage.at = "game" /\ lmGame.on
LmHold ==
  /\ LmPlaying /\ lmGame.phase = "build"
  /\ lmGame' = [lmGame EXCEPT !.held = ~@]
  /\ UNCHANGED <<lmMade, lmWasm, lmPage, lmHist, lmRow>>

\* CANVAS_CLICK: a cell with a tower is selected, a cell not placeable refused, and so
\* is a tower that is not afforded (Arsenal).
LmPlaced(p) ==
  /\ LmPlaying /\ lmGame.phase = "build" /\ lmGame.held
  /\ p \notin lmGame.towers /\ p \in lmGame.placeable
  /\ Cardinality(lmGame.towers) < LmTowers
  /\ lmGame' = [lmGame EXCEPT !.towers = @ \cup {p}, !.held = FALSE]
  /\ UNCHANGED <<lmMade, lmWasm, lmPage, lmHist, lmRow>>
LmClick == \E p \in LmClicks : LmPlaced(p)
LmEnter == lmGame.cursor # LmNowhere /\ LmPlaced(lmGame.cursor)

\* The cursor appears at the first point of the walk, then moves to the point of the
\* asked side with the least drift.
LmSize(n) == IF n < 0 THEN -n ELSE n
LmScore(cur, d, p) ==
  LET x == LmSize(p[1] - cur[1])  y == LmSize(p[2] - cur[2]) IN IF d[1] # 0 THEN x + 4 * y ELSE y + 4 * x
LmStep(cur, walk, d) ==
  LET ahead == {p \in walk : d[1] * (p[1] - cur[1]) + d[2] * (p[2] - cur[2]) > 0}
      best == {p \in ahead : \A q \in ahead : LmScore(cur, d, p) <= LmScore(cur, d, q)} IN
    IF ahead = {} THEN cur ELSE LmFirst(best)
LmArrow ==
  /\ LmPlaying /\ lmGame.phase = "build" /\ lmGame.walk # {} /\ lmGame.keys < LmArrows
  /\ \E d \in {<<0, 1>>, <<0, -1>>, <<1, 0>>, <<-1, 0>>} :
       lmGame' = [lmGame EXCEPT !.keys = @ + 1,
                    !.cursor = IF @ = LmNowhere THEN LmFirst(lmGame.walk) ELSE LmStep(@, lmGame.walk, d)]
  /\ UNCHANGED <<lmMade, lmWasm, lmPage, lmHist, lmRow>>

\* PHASE_CHANGED: the cursor leaves with the build phase and returns to a keyboard player.
LmWave ==
  /\ LmPlaying /\ lmGame.phase = "build"
  /\ lmGame' = [lmGame EXCEPT !.phase = "wave", !.cursor = LmNowhere]
  /\ UNCHANGED <<lmMade, lmWasm, lmPage, lmHist, lmRow>>
LmBuild ==
  /\ LmPlaying /\ lmGame.phase = "wave"
  /\ LET walk == LmWalk(lmGame.level, lmGame.decoys, lmGame.concealed) IN
       lmGame' = [lmGame EXCEPT !.phase = "build", !.walk = walk,
                    !.cursor = LmSeen(lmGame.keys, walk)]
  /\ UNCHANGED <<lmMade, lmWasm, lmPage, lmHist, lmRow>>
\* LEVEL_END drops the context; what TowerPlacementSystem computed stays.
LmEnd ==
  /\ LmPlaying /\ lmGame.phase = "wave"
  /\ lmGame' = [lmGame EXCEPT !.phase = "end", !.on = FALSE]
  /\ UNCHANGED <<lmMade, lmWasm, lmPage, lmHist, lmRow>>

\* After a defeat the game is booted again from the checkpoint, in the same page.
LmRestore ==
  /\ lmPage.at = "game" /\ ~lmGame.on
  /\ lmPage' = [lmPage EXCEPT !.at = "booting"]
  /\ lmGame' = [LmNoGame EXCEPT !.keys = lmGame.keys]
  /\ UNCHANGED <<lmMade, lmWasm, lmHist, lmRow>>

(* ---- replay ----------------------------------------------------------------------- *)
LmWatch ==
  /\ lmPage.at = "select" /\ lmRow.tag # 0
  /\ lmPage' = [lmPage EXCEPT !.at = "replaying"]
  /\ UNCHANGED <<lmMade, lmWasm, lmHist, lmGame, lmRow>>
LmRegeneratedHere(tag) == lmMade[lmWasm]
LmRegenerated(tag) == lmMade[IF tag = 2 THEN "wasm" ELSE "js"]
\* boot: a recording tagged 2 needs the WASM engine, and a seed may give no level.
LmReplayBoot ==
  /\ lmPage.at = "replaying" /\ lmWasm # "loading"
  /\ LET l == LmRegenerated(lmRow.tag)
         refused == (lmRow.tag = 2 /\ lmWasm # "wasm") \/ l = LmNoLevel IN
       /\ lmPage' = [lmPage EXCEPT !.at = IF refused THEN "refused" ELSE "replay"]
       /\ \E d \in IF refused THEN {{}} ELSE LmSite(l).decoys :
            lmGame' = IF refused THEN lmGame ELSE LmStarted(l, d, TRUE)
  /\ UNCHANGED <<lmMade, lmWasm, lmHist, lmRow>>

LmNext ==
  \/ LmSettled \/ LmAsk \/ LmGenerated \/ LmAnswer \/ LmReload \/ LmLeave \/ LmBoot
  \/ LmHold \/ LmClick \/ LmEnter \/ LmArrow \/ LmWave \/ LmBuild \/ LmEnd \/ LmRestore
  \/ LmWatch \/ LmReplayBoot
LmSpec == LmInit /\ [][LmNext]_lmVars

(* ---- properties --------------------------------------------------------------------- *)
\* Three places work out where a tower may stand: the painted board, the placement
\* and the keyboard (generated-level-context.ts: "All sides now derive 'buildable' from
\* the same geometric rule").  While the paths are shown, a cell painted buildable and
\* the cell under the cursor are ones the placement accepts.  Shown or concealed, every
\* tower of the game stands off the paths and the decoys of the level on the page,
\* whichever wave it was built in and by mouse or keyboard.
BoardAgrees ==
  lmPage.at = "game" /\ lmGame.on =>
    /\ lmGame.towers \subseteq LmLegal(lmGame.level, lmGame.decoys)
    /\ ~lmGame.concealed =>
         /\ LmPainted(lmGame.level, lmGame.decoys) \subseteq lmGame.placeable
         /\ lmGame.cursor # LmNowhere => lmGame.cursor \in lmGame.placeable

\* A replay regenerates the level from the seed and the version of the row: it shows the
\* level that was played, on any later load of the page and with either engine.  Left out
\* is a run whose page was reloaded after its level was made and got another engine this
\* time: the session is tagged with the engine of the new load, against
\* levelGenerationService.ts:10-12 and :38-41, and the replay shows another level.
ReplayShowsRun ==
  lmPage.at = "replay" /\ ~lmRow.crossed => lmGame.level = lmRow.level

\* Wherever the level is worked out, it is the same one.
LevelAgrees == BoardAgrees /\ ReplayShowsRun

(* ---- the inductive invariant ---------------------------------------------------------- *)
LmLevelOf == LmLevels \cup {LmNoLevel}
LmPageOf ==
  [at : {"select", "asking", "answer", "booting", "game", "replaying", "replay", "refused"}, loads : Nat, runs : Nat]
LmHistOf == [level : LmLevelOf, by : LmEngines \cup {"none"}, load : Nat, answer : {"none", "correct", "wrong", "paid", "ignored"}]
LmGameOf ==
  [on : BOOLEAN, level : LmLevelOf, decoys : SUBSET LmBoard, placeable : SUBSET LmBoard, walk : SUBSET LmBoard,
   concealed : BOOLEAN, phase : {"build", "wave", "end"}, held : BOOLEAN, towers : SUBSET LmBoard,
   cursor : LmBoard \cup {LmNowhere}, keys : Nat]
LmRowOf == [tag : 0..2, level : LmLevelOf, crossed : BOOLEAN]
LmTypeOK ==
  /\ lmMade \in [LmEngines -> LmLevelOf] /\ lmWasm \in LmEngines \cup {"loading"}
  /\ lmPage \in LmPageOf /\ lmHist \in LmHistOf /\ lmGame \in LmGameOf /\ lmRow \in LmRowOf

\* What the context, the placement and the keyboard keep is worked out from one level and
\* one draw of decoys, and the cursor stands on the walk.
LmBoardKept ==
  lmGame.on =>
    /\ lmGame.placeable = LmPlaceable(lmGame.level, lmGame.decoys)
    /\ lmGame.walk = LmWalk(lmGame.level, lmGame.decoys, lmGame.concealed)
    /\ lmGame.level \in LmLevels /\ lmGame.cursor \in lmGame.walk \cup {LmNowhere}
    /\ lmGame.towers \subseteq lmGame.placeable

\* The level is what its engine makes of the seed; one that was generated in this load
\* comes from the engine of this load, and a row whose engines did not cross names the
\* one that makes its level.
LmSourceKept ==
  /\ lmHist.load <= lmPage.loads
  /\ lmHist.by # "none" => lmHist.level = lmMade[lmHist.by]
  /\ lmHist.load = lmPage.loads => lmWasm # "loading" /\ lmHist.by = lmWasm
  /\ lmPage.at \in {"answer", "booting", "game"} => lmHist.by # "none" /\ lmHist.level \in LmLevels
  /\ lmRow.tag # 0 /\ ~lmRow.crossed => lmRow.level = LmRegenerated(lmRow.tag)
  /\ lmPage.at \in {"replaying", "replay", "refused"} => lmRow.tag # 0

LevelInv == LmTypeOK /\ LmBoardKept /\ LmSourceKept /\ ReplayShowsRun
=============================================================================
