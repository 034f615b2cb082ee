------------------------------ MODULE GamePage ------------------------------
(***************************************************************************)
(* The way of a player through the pages of a run: level selection,        *)
(* initial answer, the game page and away again.  useGameLoop boots the    *)
(* engine behind awaits, three owners stop and start its loop (the pause   *)
(* key, the first-encounter cards, a retry), and everything that asks or   *)
(* tells the player something does it through the one modal slot of        *)
(* uiStore.  Names start with Pg, this module being composed with others   *)
(* in Play.                                                                *)
(***************************************************************************)
EXTENDS Integers, Sequences, FiniteSets, SequencesExt

CONSTANTS
  PgFoes,    \* counter-enemy types, each with a card of its own
  PgMoves,   \* bound on navigations
  PgBoots,   \* bound on boots of the engine
  PgStarts   \* bound on startRun calls

ASSUME PgAssumption == {PgMoves, PgBoots, PgStarts} \subseteq Nat

VARIABLES
  pgPage,    \* the route, what its view remembers, the pending navigation
  pgStarts,  \* startRun calls under way
  pgEng,     \* boots under way, the page's engine, the engines that are alive
  pgGame,    \* phase and loop of the engine, and the flags of GameView
  pgCards,   \* first-encounter cards: waiting ones, the types seen before
  pgSlot,    \* the modal
  pgAsks,    \* showConfirm promises that are not settled
  pgUser     \* the login has expired, a sync has failed, the run was retried
pgVars == <<pgPage, pgStarts, pgEng, pgGame, pgCards, pgSlot, pgAsks, pgUser>>

PgClosed == [kind |-> "none", who |-> <<"nobody", 0>>, sticky |-> FALSE]
\* The overlay of the modal takes every click; keys and the browser's buttons pass.
PgFree == pgSlot.kind = "none"
PgActive == pgGame.phase \in {"BUILD", "WAVE"}

(* ---- uiStore: the modal slot --------------------------------------------- *)
\* The promise that whoever takes the slot settles as cancelled.
PgSuperseded == IF pgSlot.kind = "confirm" THEN {pgSlot.who} ELSE {}

PgAsk(who) ==
  /\ pgSlot' = [kind |-> "confirm", who |-> who, sticky |-> FALSE]
  /\ pgAsks' = (pgAsks \ PgSuperseded) \cup {who}

PgTell(what, sticky) ==
  /\ pgSlot' = [kind |-> "notice", who |-> <<what, 0>>, sticky |-> sticky]
  /\ pgAsks' = pgAsks \ PgSuperseded

PgDismiss == pgSlot' = PgClosed /\ pgAsks' = pgAsks \ PgSuperseded

(* ---- navigation ------------------------------------------------------------- *)
PgNoGame == [phase |-> "none", running |-> FALSE, paused |-> FALSE, manual |-> FALSE,
             saved |-> FALSE, dialog |-> FALSE, cursor |-> FALSE, arrows |-> FALSE]

\* onUnmounted of useGameLoop; the boots under way find out later.
PgUnmounted(e) == [e EXCEPT !.gen = @ + 1, !.alive = @ \ {e.id}, !.id = 0, !.error = FALSE]
PgBooted(e) == [e EXCEPT !.gen = @ + 1, !.boots = @ \cup {e.gen + 1}, !.error = FALSE]

\* beforeEach takes the modal down; a protected page needs a login.
PgGoTo(dest) ==
  /\ PgDismiss
  /\ pgPage' = [pgPage EXCEPT !.at = IF pgUser.expired THEN "away" ELSE dest,
       !.moves = @ + 1, !.leaving = FALSE, !.bypass = FALSE, !.busy = 0, !.dest = "away",
       !.ia = IF dest = "game" THEN @ ELSE "none"]
  /\ pgEng' = IF pgPage.at = "game" THEN PgUnmounted(pgEng)
              ELSE IF dest = "game" THEN PgBooted(pgEng) ELSE pgEng
  /\ pgGame' = PgNoGame
  /\ pgCards' = [pgCards EXCEPT !.queue = <<>>]

\* onBeforeRouteLeave of the game asks first, unless the player was asked already,
\* the login is gone or nothing is lost.
PgNavigate(dest) ==
  IF pgPage.at = "game" /\ ~pgPage.bypass /\ ~pgUser.expired /\ PgActive
  THEN /\ PgAsk(<<"leave", 0>>)
       /\ pgPage' = [pgPage EXCEPT !.dest = dest]
       /\ UNCHANGED <<pgEng, pgGame, pgCards>>
  ELSE PgGoTo(dest)

PgLink(dest) ==
  /\ pgPage.moves < PgMoves /\ dest # pgPage.at
  /\ PgNavigate(dest)
  /\ UNCHANGED <<pgStarts, pgUser>>

(* ---- LevelSelectView, startRun, InitialAnswerView ------------------------------ *)
\* The button is disabled while a run is being prepared, by this visit of the view.
PgStart ==
  /\ PgFree /\ pgPage.at = "select" /\ pgPage.busy = 0 /\ pgPage.begun < PgStarts
  /\ pgPage' = [pgPage EXCEPT !.begun = @ + 1, !.busy = pgPage.begun + 1]
  /\ pgStarts' = pgStarts \cup {[n |-> pgPage.begun + 1, stage |-> "checking"]}
  /\ UNCHANGED <<pgEng, pgGame, pgCards, pgSlot, pgAsks, pgUser>>

PgStage(s, stage) == pgStarts' = (pgStarts \ {s}) \cup {[s EXCEPT !.stage = stage]}

\* An active session is asked about; a check that fails is passed over.
PgChecked(s) ==
  /\ s.stage = "checking"
  /\ \/ PgStage(s, "asked") /\ PgAsk(<<"start", s.n>>)
     \/ PgStage(s, "making") /\ UNCHANGED <<pgSlot, pgAsks>>
  /\ UNCHANGED <<pgPage, pgEng, pgGame, pgCards, pgUser>>

PgDeclined(s) ==
  /\ s.stage = "asked" /\ <<"start", s.n>> \notin pgAsks
  /\ pgStarts' = pgStarts \ {s}
  /\ pgPage' = [pgPage EXCEPT !.busy = IF @ = s.n THEN 0 ELSE @]
  /\ UNCHANGED <<pgEng, pgGame, pgCards, pgSlot, pgAsks, pgUser>>

\* The level is there, wherever the player is by now; or there is none.
PgMade(s) ==
  /\ s.stage = "making" /\ pgStarts' = pgStarts \ {s}
  /\ \/ pgPage.moves < PgMoves /\ PgNavigate("answer")
     \/ /\ PgTell("failed", FALSE) /\ UNCHANGED <<pgEng, pgGame, pgCards>>
        /\ pgPage' = [pgPage EXCEPT !.busy = IF @ = s.n THEN 0 ELSE @]
  /\ UNCHANGED pgUser

\* submitAnswer, payToSkip, ignoreAndProceed: once; then the game may be started.
PgAnswer ==
  /\ PgFree /\ pgPage.at = "answer" /\ pgPage.ia = "none"
  /\ \E r \in {"correct", "ignored"} : pgPage' = [pgPage EXCEPT !.ia = r]
  /\ UNCHANGED <<pgStarts, pgEng, pgGame, pgCards, pgSlot, pgAsks, pgUser>>

PgPlay ==
  /\ PgFree /\ pgPage.at = "answer" /\ pgPage.ia # "none"
  /\ pgPage.moves < PgMoves /\ pgEng.gen < PgBoots
  /\ PgGoTo("game")
  /\ UNCHANGED <<pgStarts, pgUser>>

(* ---- useGameLoop: boot, retry, teardown ------------------------------------------ *)
\* Mutant: a boot does not look whether it is still wanted.
PgBootDoneAnyway(b) ==
  /\ pgEng' = [pgEng EXCEPT !.boots = @ \ {b}, !.id = b, !.alive = (@ \ {pgEng.id}) \cup {b}]
  /\ pgGame' = [pgGame EXCEPT !.phase = "BUILD", !.running = TRUE, !.cursor = pgGame.arrows]
  /\ UNCHANGED <<pgPage, pgStarts, pgCards, pgSlot, pgAsks, pgUser>>

\* wireEngine tears the old engine down, starts the new one and its level.
PgBootDone(b) ==
  /\ IF b # pgEng.gen
     THEN pgEng' = [pgEng EXCEPT !.boots = @ \ {b}] /\ UNCHANGED pgGame
     ELSE /\ pgEng' = [pgEng EXCEPT !.boots = @ \ {b}, !.id = b, !.alive = (@ \ {pgEng.id}) \cup {b}]
          /\ pgGame' = [pgGame EXCEPT !.phase = "BUILD", !.running = TRUE, !.cursor = pgGame.arrows]
  /\ UNCHANGED <<pgPage, pgStarts, pgCards, pgSlot, pgAsks, pgUser>>

PgBootFailed(b) ==
  /\ pgEng' = [pgEng EXCEPT !.boots = @ \ {b}, !.error = @ \/ b = pgEng.gen]
  /\ UNCHANGED <<pgPage, pgStarts, pgGame, pgCards, pgSlot, pgAsks, pgUser>>

PgTorn == [PgBooted(pgEng) EXCEPT !.alive = @ \ {pgEng.id}, !.id = 0]

PgRetryLoad ==
  /\ PgFree /\ pgEng.error /\ pgPage.at = "game" /\ pgEng.gen < PgBoots
  /\ pgEng' = PgTorn
  /\ UNCHANGED <<pgPage, pgStarts, pgGame, pgCards, pgSlot, pgAsks, pgUser>>

PgRetryCheckpoint ==
  /\ PgFree /\ pgGame.dialog /\ pgEng.id # 0 /\ pgEng.gen < PgBoots
  /\ pgEng' = PgTorn
  /\ pgGame' = [pgGame EXCEPT !.dialog = FALSE, !.running = FALSE]
  /\ pgUser' = [pgUser EXCEPT !.retried = pgCards.queue # <<>>]
  /\ UNCHANGED <<pgPage, pgStarts, pgCards, pgSlot, pgAsks>>

PgGiveUp ==
  /\ PgFree /\ pgGame.dialog /\ pgPage.moves < PgMoves
  /\ PgNavigate("away")
  /\ UNCHANGED <<pgStarts, pgUser>>

(* ---- the loop and those who stop it ------------------------------------------------- *)
PgStartWave ==
  /\ PgFree /\ pgEng.id # 0 /\ pgGame.phase = "BUILD"
  /\ pgGame' = [pgGame EXCEPT !.phase = "WAVE", !.cursor = FALSE]
  /\ UNCHANGED <<pgPage, pgStarts, pgEng, pgCards, pgSlot, pgAsks, pgUser>>

\* onSpawn: a type with a card is queued unless it was seen or waits already; "plain" is
\* any enemy without one, or no enemy.
PgNoticed(queue, type) ==
  IF type \in PgFoes \ (pgCards.seen \cup ToSet(queue)) THEN Append(queue, type) ELSE queue

\* One frame of a wave: foes appear, and the wave or the run may end in the same
\* frame, for _loop finishes the frame in which the first card stopped it.
PgFrame(first, second, to) ==
  LET queue == PgNoticed(PgNoticed(pgCards.queue, first), second) IN
  /\ pgGame.running /\ pgGame.phase = "WAVE"
  /\ pgCards' = [pgCards EXCEPT !.queue = queue]
  /\ pgGame' = [pgGame EXCEPT !.phase = to,
       !.running = pgCards.queue # <<>> \/ queue = <<>>,
       !.saved = @ \/ (to = "BUILD" /\ pgPage.star5),
       !.cursor = to = "BUILD" /\ pgGame.arrows,
       !.dialog = to = "OVER" /\ pgGame.saved]
  /\ IF to = "OVER" /\ ~pgGame.saved THEN PgTell("over", FALSE) ELSE UNCHANGED <<pgSlot, pgAsks>>
  /\ UNCHANGED <<pgPage, pgStarts, pgEng, pgUser>>

PgDismissCard ==
  /\ PgFree /\ pgCards.queue # <<>>
  /\ pgCards' = [queue |-> Tail(pgCards.queue), seen |-> pgCards.seen \cup {Head(pgCards.queue)}]
  /\ pgGame' = [pgGame EXCEPT !.running = @ \/ (Len(pgCards.queue) = 1 /\ pgEng.id # 0)]
  /\ UNCHANGED <<pgPage, pgStarts, pgEng, pgSlot, pgAsks, pgUser>>

\* togglePause: outside a wave it only resumes.
PgToggled ==
  IF pgGame.paused THEN [pgGame EXCEPT !.running = TRUE, !.paused = FALSE]
  ELSE IF pgGame.phase = "WAVE" THEN [pgGame EXCEPT !.running = FALSE, !.paused = TRUE]
  ELSE pgGame

PgPauseKey ==
  /\ pgEng.id # 0 /\ pgCards.queue = <<>> /\ ~pgGame.manual
  /\ pgGame' = PgToggled
  /\ UNCHANGED <<pgPage, pgStarts, pgEng, pgCards, pgSlot, pgAsks, pgUser>>

\* The Resume button of the overlay.
PgResume ==
  /\ PgFree /\ pgEng.id # 0 /\ pgGame.paused
  /\ pgGame' = PgToggled
  /\ UNCHANGED <<pgPage, pgStarts, pgEng, pgCards, pgSlot, pgAsks, pgUser>>

PgManual ==
  /\ PgFree /\ pgEng.id # 0
  /\ pgGame' = [pgGame EXCEPT !.manual = ~@]
  /\ UNCHANGED <<pgPage, pgStarts, pgEng, pgCards, pgSlot, pgAsks, pgUser>>

\* useKeyboardPlacement: the first arrow shows the cursor and makes it come back.
PgArrow ==
  /\ pgEng.id # 0 /\ pgGame.phase = "BUILD"
  /\ pgGame' = [pgGame EXCEPT !.arrows = TRUE, !.cursor = TRUE]
  /\ UNCHANGED <<pgPage, pgStarts, pgEng, pgCards, pgSlot, pgAsks, pgUser>>

(* ---- what the page tells and asks ------------------------------------------------------ *)
\* The Exit button; after the answer the run is abandoned, which takes its time.
PgExit ==
  /\ PgFree /\ pgEng.id # 0 /\ PgActive /\ ~pgPage.leaving
  /\ PgAsk(<<"exit", 0>>)
  /\ UNCHANGED <<pgPage, pgStarts, pgEng, pgGame, pgCards, pgUser>>

PgExited ==
  /\ pgPage.leaving /\ pgPage.moves < PgMoves
  /\ PgGoTo("select")
  /\ UNCHANGED <<pgStarts, pgUser>>

\* A request of the page came back with 401 for good, or a snapshot was lost.
PgExpire ==
  /\ pgPage.at = "game" /\ ~pgUser.expired
  /\ pgUser' = [pgUser EXCEPT !.expired = TRUE] /\ PgTell("expired", TRUE)
  /\ UNCHANGED <<pgPage, pgStarts, pgEng, pgGame, pgCards>>

PgSyncFailed ==
  /\ pgEng.id # 0 /\ ~pgUser.lost
  /\ pgUser' = [pgUser EXCEPT !.lost = TRUE] /\ PgTell("lost", TRUE)
  /\ UNCHANGED <<pgPage, pgStarts, pgEng, pgGame, pgCards>>

\* closeModal: true for who asked, the callback of a notice.
PgOk ==
  /\ pgSlot.kind # "none"
  /\ CASE pgSlot.who[1] = "leave" \/ pgSlot.who[1] \in {"over", "expired"} ->
            /\ pgPage.moves < PgMoves
            /\ PgGoTo(IF pgSlot.who[1] = "leave" THEN pgPage.dest ELSE "away")
            /\ UNCHANGED pgStarts
       [] pgSlot.who[1] = "exit" ->
            /\ PgDismiss
            /\ pgPage' = [pgPage EXCEPT !.leaving = TRUE, !.bypass = TRUE]
            /\ pgGame' = [pgGame EXCEPT !.paused = FALSE]
            /\ UNCHANGED <<pgStarts, pgEng, pgCards>>
       [] pgSlot.who[1] = "start" ->
            /\ PgDismiss
            /\ pgStarts' = {IF s.n = pgSlot.who[2] THEN [s EXCEPT !.stage = "making"] ELSE s : s \in pgStarts}
            /\ UNCHANGED <<pgPage, pgEng, pgGame, pgCards>>
       [] OTHER -> PgDismiss /\ UNCHANGED <<pgPage, pgStarts, pgEng, pgGame, pgCards>>
  /\ UNCHANGED pgUser

PgCancel ==
  /\ pgSlot.kind = "confirm" /\ PgDismiss
  /\ UNCHANGED <<pgPage, pgStarts, pgEng, pgGame, pgCards, pgUser>>

(* ---- specification ------------------------------------------------------------------------ *)
PgInit ==
  /\ \E star5 \in BOOLEAN :
       pgPage = [at |-> "select", star5 |-> star5, busy |-> 0, begun |-> 0, ia |-> "none",
                 dest |-> "away", bypass |-> FALSE, leaving |-> FALSE, moves |-> 0]
  /\ pgStarts = {} /\ pgGame = PgNoGame
  /\ pgEng = [gen |-> 0, boots |-> {}, id |-> 0, alive |-> {}, error |-> FALSE]
  /\ pgCards = [queue |-> <<>>, seen |-> {}]
  /\ pgSlot = PgClosed /\ pgAsks = {}
  /\ pgUser = [expired |-> FALSE, lost |-> FALSE, retried |-> FALSE]

PgNext ==
  \/ \E dest \in {"select", "away"} : PgLink(dest)
  \/ PgStart \/ \E s \in pgStarts : PgChecked(s) \/ PgDeclined(s) \/ PgMade(s)
  \/ PgAnswer \/ PgPlay
  \/ \E b \in pgEng.boots : PgBootDone(b) \/ PgBootFailed(b)
  \/ PgRetryLoad \/ PgRetryCheckpoint \/ PgGiveUp \/ PgStartWave
  \/ \E first, second \in PgFoes \cup {"plain"}, to \in {"WAVE", "BUILD", "OVER", "END"} :
       PgFrame(first, second, to)
  \/ PgDismissCard \/ PgPauseKey \/ PgResume \/ PgManual \/ PgArrow
  \/ PgExit \/ PgExited \/ PgExpire \/ PgSyncFailed \/ PgOk \/ PgCancel

(* ---- properties ------------------------------------------------------------------------------ *)
\* However boots, retries and departures overlap, the only engine alive is the one of
\* the page, and none outlives the page.
OneEngine ==
  /\ pgEng.alive = {b \in {pgEng.id} : b # 0}
  /\ pgPage.at # "game" => pgEng.id = 0

\* But for a run retried under an open card, the loop stands exactly while the pause
\* overlay or a card is up, and the placement cursor shows only between waves.
StoppedIffShown ==
  /\ pgEng.id = 0 \/ pgPage.leaving \/ pgUser.retried \/
       (pgGame.running <=> ~pgGame.paused /\ pgCards.queue = <<>>)
  /\ pgGame.cursor => pgGame.phase = "BUILD"

\* Whoever waits for an answer of the player is the one the modal asks for.
ConfirmsSettled == pgAsks = PgSuperseded

\* What the page shows is in step with what runs under it, and whom it asks.
PageInStep == OneEngine /\ StoppedIffShown /\ ConfirmsSettled
=============================================================================
