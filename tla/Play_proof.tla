---------------------------- MODULE Play_proof ----------------------------
(***************************************************************************)
(* What the parts of Play keep for any moves, boots, foes, boards, waves,  *)
(* arcs, playlists and games: one inductive invariant for the page, the    *)
(* board, the HUD, the music and the radar each, then what they imply in   *)
(* the composition.                                                        *)
(* The event log has a module of its own, ReplayLog_proof.                 *)
(***************************************************************************)
EXTENDS Play, SequenceTheorems, WellFoundedInduction, TLAPS

(***************************************************************************)
(* THE PAGE                                                                *)
(***************************************************************************)

(***************************************************************************)
(* The invariant                                                           *)
(***************************************************************************)
PgPageOf ==
  [at : {"select", "answer", "game", "away"}, star5 : BOOLEAN, busy : Nat, begun : Nat,
   ia : {"none", "correct", "ignored"}, dest : {"select", "answer", "away"},
   bypass : BOOLEAN, leaving : BOOLEAN, moves : Nat]
PgEngOf == [gen : Nat, boots : SUBSET Nat, id : Nat, alive : SUBSET Nat, error : BOOLEAN]
PgGameOf ==
  [phase : {"none", "BUILD", "WAVE", "OVER", "END"}, running : BOOLEAN, paused : BOOLEAN,
   manual : BOOLEAN, saved : BOOLEAN, dialog : BOOLEAN, cursor : BOOLEAN, arrows : BOOLEAN]
PgCardsOf == [queue : Seq(PgFoes), seen : SUBSET PgFoes]
PgUserOf == [expired : BOOLEAN, lost : BOOLEAN, retried : BOOLEAN]

PgTypeOK ==
  /\ pgPage \in PgPageOf /\ pgEng \in PgEngOf /\ pgGame \in PgGameOf
  /\ pgCards \in PgCardsOf /\ pgUser \in PgUserOf

\* The boot that is still wanted belongs to a game page without an engine; a login that
\* has expired keeps the player off the pages a game is begun from.  The page of a failed
\* boot has no engine and none on its way.
PgBootsInv ==
  /\ \A b \in pgEng.boots : 0 < b /\ b <= pgEng.gen
  /\ pgEng.gen \in pgEng.boots => pgPage.at = "game" /\ pgEng.id = 0
  /\ pgEng.error => pgEng.gen \notin pgEng.boots /\ pgEng.id = 0
  /\ pgUser.expired => pgPage.at \in {"game", "away"}

\* Without an engine nothing runs, pauses or offers a checkpoint; who pauses a wave has
\* no card open; and the checkpoint is offered when the run is over.
PgLoopInv ==
  /\ pgEng.id = 0 =>
       ~pgGame.running /\ ~pgGame.paused /\ ~pgGame.dialog /\ (pgCards.queue = <<>> \/ pgUser.retried)
  /\ pgGame.paused => ~pgGame.running /\ pgCards.queue = <<>> /\ pgGame.phase = "WAVE"
  /\ pgGame.dialog => pgGame.phase = "OVER"

PgInv == PgTypeOK /\ PgBootsInv /\ PgLoopInv /\ PageInStep

(***************************************************************************)
(* Questions: whoever takes the slot settles who had it                    *)
(***************************************************************************)
LEMMA SlotChanges ==
  ASSUME ConfirmsSettled,
         \/ UNCHANGED <<pgSlot, pgAsks>>
         \/ \E who : PgAsk(who)
         \/ \E what, sticky : PgTell(what, sticky)
         \/ PgDismiss
  PROVE  ConfirmsSettled'
BY DEF ConfirmsSettled, PgAsk, PgTell, PgDismiss, PgSuperseded, PgClosed

LEMMA SlotMoves == ASSUME PgNext PROVE
         \/ UNCHANGED <<pgSlot, pgAsks>>
         \/ \E who : PgAsk(who)
         \/ \E what, sticky : PgTell(what, sticky)
         \/ PgDismiss
<1>1. ASSUME NEW dest, PgNavigate(dest) PROVE PgDismiss \/ PgAsk(<<"leave", 0>>)
  BY <1>1 DEF PgNavigate, PgGoTo
<1>2. ASSUME NEW dest, PgLink(dest) PROVE PgDismiss \/ PgAsk(<<"leave", 0>>)
  BY <1>1, <1>2 DEF PgLink
<1>3. ASSUME NEW s, PgChecked(s) PROVE UNCHANGED <<pgSlot, pgAsks>> \/ PgAsk(<<"start", s.n>>)
  BY <1>3 DEF PgChecked
<1>4. ASSUME NEW s, PgMade(s) PROVE PgDismiss \/ PgAsk(<<"leave", 0>>) \/ PgTell("failed", FALSE)
  BY <1>1, <1>4 DEF PgMade
<1>5. ASSUME NEW first, NEW second, NEW to, PgFrame(first, second, to)
      PROVE UNCHANGED <<pgSlot, pgAsks>> \/ PgTell("over", FALSE)
  BY <1>5 DEF PgFrame
<1>6. PgPlay \/ PgExited => PgDismiss
  BY DEF PgPlay, PgExited, PgGoTo
<1>7. PgGiveUp => PgDismiss \/ PgAsk(<<"leave", 0>>)
  BY <1>1 DEF PgGiveUp
<1>8. PgOk => PgDismiss
  BY DEF PgOk, PgGoTo
<1>9. PgStart \/ PgAnswer \/ PgRetryLoad \/ PgRetryCheckpoint \/ PgStartWave \/ PgDismissCard
        \/ PgPauseKey \/ PgResume \/ PgManual \/ PgArrow => UNCHANGED <<pgSlot, pgAsks>>
  BY DEF PgStart, PgAnswer, PgRetryLoad, PgRetryCheckpoint, PgStartWave, PgDismissCard,
         PgPauseKey, PgResume, PgManual, PgArrow
<1>10. ASSUME NEW b, PgBootDone(b) \/ PgBootFailed(b) PROVE UNCHANGED <<pgSlot, pgAsks>>
  BY <1>10 DEF PgBootDone, PgBootFailed
<1>11. ASSUME NEW s, PgDeclined(s) PROVE UNCHANGED <<pgSlot, pgAsks>>
  BY <1>11 DEF PgDeclined
<1>12. PgExit => PgAsk(<<"exit", 0>>)
  BY DEF PgExit
<1>13. PgExpire => PgTell("expired", TRUE)
  BY DEF PgExpire
<1>14. PgSyncFailed => PgTell("lost", TRUE)
  BY DEF PgSyncFailed
<1>15. PgCancel => PgDismiss
  BY DEF PgCancel
<1>. QED
  BY <1>2, <1>3, <1>4, <1>5, <1>6, <1>7, <1>8, <1>9, <1>10, <1>11, <1>12, <1>13, <1>14, <1>15
  DEF PgNext

(***************************************************************************)
(* Engine, loop and cards                                                  *)
(***************************************************************************)
PgCore == PgTypeOK /\ PgBootsInv /\ PgLoopInv /\ OneEngine /\ StoppedIffShown

\* Who only asks, tells, prepares or answers something else leaves the game alone.
LEMMA Bystander ==
  ASSUME PgCore, UNCHANGED <<pgEng, pgGame, pgCards>>,
         pgPage' \in PgPageOf, pgPage'.at = pgPage.at, pgPage'.leaving = pgPage.leaving,
         pgUser' \in PgUserOf, pgUser'.retried = pgUser.retried,
         pgUser'.expired => pgUser.expired \/ pgPage.at = "game"
  PROVE  PgCore'
<1>1. PgTypeOK'
  BY DEF PgCore, PgTypeOK
<1>2. PgBootsInv'
  BY DEF PgCore, PgBootsInv
<1>3. PgLoopInv'
  BY DEF PgCore, PgLoopInv
<1>4. OneEngine' /\ StoppedIffShown'
  BY DEF PgCore, OneEngine, StoppedIffShown
<1>. QED  BY <1>1, <1>2, <1>3, <1>4 DEF PgCore

LEMMA Preparing ==
  ASSUME PgCore,
         \/ PgStart \/ PgAnswer \/ PgExit \/ PgExpire \/ PgSyncFailed \/ PgCancel
         \/ \E s \in pgStarts : PgChecked(s) \/ PgDeclined(s)
  PROVE  PgCore'
<1>1. pgPage \in PgPageOf /\ pgUser \in PgUserOf
  BY DEF PgCore, PgTypeOK
<1>2. CASE PgStart
  <2>. DEFINE n == pgPage.begun + 1
  <2>1. pgPage' = [pgPage EXCEPT !.begun = n, !.busy = n] /\ UNCHANGED <<pgEng, pgGame, pgCards, pgUser>>
    BY <1>2 DEF PgStart
  <2>2. n \in Nat
    BY <1>1 DEF PgPageOf
  <2>. HIDE DEF n
  <2>3. pgPage' \in PgPageOf /\ pgPage'.at = pgPage.at /\ pgPage'.leaving = pgPage.leaving
    BY <1>1, <2>1, <2>2 DEF PgPageOf
  <2>. QED  BY <1>1, <2>1, <2>3, Bystander
<1>3. CASE PgAnswer
  <2>1. /\ \E r \in {"correct", "ignored"} : pgPage' = [pgPage EXCEPT !.ia = r]
        /\ UNCHANGED <<pgEng, pgGame, pgCards, pgUser>>
    BY <1>3 DEF PgAnswer
  <2>. QED  BY <1>1, <2>1, Bystander DEF PgPageOf
<1>4. CASE PgExit \/ PgCancel \/ \E s \in pgStarts : PgChecked(s)
  <2>1. UNCHANGED <<pgPage, pgEng, pgGame, pgCards, pgUser>>
    BY <1>4 DEF PgExit, PgCancel, PgChecked
  <2>. QED  BY <1>1, <2>1, Bystander
<1>5. CASE PgExpire
  <2>1. pgUser' = [pgUser EXCEPT !.expired = TRUE] /\ pgPage.at = "game"
        /\ UNCHANGED <<pgPage, pgEng, pgGame, pgCards>>
    BY <1>5 DEF PgExpire
  <2>. QED  BY <1>1, <2>1, Bystander DEF PgUserOf
<1>6. CASE PgSyncFailed
  <2>1. pgUser' = [pgUser EXCEPT !.lost = TRUE] /\ UNCHANGED <<pgPage, pgEng, pgGame, pgCards>>
    BY <1>6 DEF PgSyncFailed
  <2>. QED  BY <1>1, <2>1, Bystander DEF PgUserOf
<1>7. CASE \E s \in pgStarts : PgDeclined(s)
  <2>1. /\ \E s \in pgStarts : pgPage' = [pgPage EXCEPT !.busy = IF @ = s.n THEN 0 ELSE @]
        /\ UNCHANGED <<pgEng, pgGame, pgCards, pgUser>>
    BY <1>7 DEF PgDeclined
  <2>. QED  BY <1>1, <2>1, Bystander DEF PgPageOf
<1>. QED  BY <1>2, <1>3, <1>4, <1>5, <1>6, <1>7

LEMMA Unmounted ==
  ASSUME NEW e \in PgEngOf
  PROVE  LET u == PgUnmounted(e) IN
         /\ u \in PgEngOf /\ u.gen = e.gen + 1 /\ u.boots = e.boots /\ u.id = 0 /\ u.alive = e.alive \ {e.id}
         /\ u.error = FALSE
<1>. DEFINE n == e.gen + 1
            alive == e.alive \ {e.id}
            u == [e EXCEPT !.gen = n, !.alive = alive, !.id = 0, !.error = FALSE]
<1>1. PgUnmounted(e) = u
  BY DEF PgUnmounted
<1>2. n \in Nat /\ alive \in SUBSET Nat /\ 0 \in Nat
  BY DEF PgEngOf
<1>. HIDE DEF n, alive
<1>3. u \in PgEngOf /\ u.gen = n /\ u.boots = e.boots /\ u.id = 0 /\ u.alive = alive /\ u.error = FALSE
  BY <1>2 DEF PgEngOf
<1>. QED  BY <1>1, <1>3 DEF n, alive

LEMMA Booted ==
  ASSUME NEW e \in PgEngOf
  PROVE  LET u == PgBooted(e) IN
         /\ u \in PgEngOf /\ u.gen = e.gen + 1 /\ u.boots = e.boots \cup {e.gen + 1}
         /\ u.id = e.id /\ u.alive = e.alive /\ u.error = FALSE
<1>. DEFINE n == e.gen + 1
            boots == e.boots \cup {n}
            u == [e EXCEPT !.gen = n, !.boots = boots, !.error = FALSE]
<1>1. PgBooted(e) = u
  BY DEF PgBooted
<1>2. n \in Nat /\ boots \in SUBSET Nat
  BY DEF PgEngOf
<1>. HIDE DEF n, boots
<1>3. /\ u \in PgEngOf /\ u.gen = n /\ u.boots = boots /\ u.id = e.id /\ u.alive = e.alive
      /\ u.error = FALSE
  BY <1>2 DEF PgEngOf
<1>. QED  BY <1>1, <1>3 DEF n, boots

LEMMA Gone ==
  ASSUME PgCore, NEW dest, PgGoTo(dest), UNCHANGED pgUser,
         dest \in {"select", "answer", "away"} \/ (dest = "game" /\ pgPage.at = "answer")
  PROVE  PgCore'
<1>. USE DEF PgCore
<1>1. /\ pgPage \in PgPageOf /\ pgEng \in PgEngOf /\ pgCards \in PgCardsOf /\ pgUser \in PgUserOf
      /\ pgGame' = PgNoGame
  BY DEF PgTypeOK, PgGoTo
<1>2. /\ pgPage' \in PgPageOf /\ pgPage'.at = (IF pgUser.expired THEN "away" ELSE dest)
      /\ pgPage'.leaving = FALSE
  <2>. DEFINE n == pgPage.moves + 1
              at == IF pgUser.expired THEN "away" ELSE dest
              ia == IF dest = "game" THEN pgPage.ia ELSE "none"
  <2>1. pgPage' = [pgPage EXCEPT !.at = at, !.moves = n, !.leaving = FALSE, !.bypass = FALSE,
                     !.busy = 0, !.dest = "away", !.ia = ia]
    BY DEF PgGoTo
  <2>2. n \in Nat /\ at \in {"select", "answer", "game", "away"} /\ ia \in {"none", "correct", "ignored"}
    BY <1>1 DEF PgPageOf
  <2>3. 0 \in Nat
    OBVIOUS
  <2>. HIDE DEF n, at, ia
  <2>4. pgPage' \in PgPageOf /\ pgPage'.at = at /\ pgPage'.leaving = FALSE
    BY <1>1, <2>1, <2>2, <2>3 DEF PgPageOf
  <2>. QED  BY <2>4 DEF at
<1>3. pgCards' \in PgCardsOf /\ pgCards'.queue = <<>>
  <2>1. pgCards' = [pgCards EXCEPT !.queue = <<>>] /\ <<>> \in Seq(PgFoes)
    BY DEF PgGoTo
  <2>. QED  BY <1>1, <2>1 DEF PgCardsOf
<1>4. PgNoGame \in PgGameOf /\ ~PgNoGame.running /\ ~PgNoGame.paused /\ ~PgNoGame.dialog /\ ~PgNoGame.cursor
  BY DEF PgNoGame, PgGameOf
<1>5. CASE pgPage.at = "game"
  <2>1. pgEng' = PgUnmounted(pgEng) /\ dest # "game"
    BY <1>5 DEF PgGoTo
  <2>2. /\ pgEng' \in PgEngOf /\ pgEng'.gen = pgEng.gen + 1 /\ pgEng'.boots = pgEng.boots
        /\ pgEng'.id = 0 /\ pgEng'.alive = pgEng.alive \ {pgEng.id} /\ pgEng'.error = FALSE
    BY <1>1, <2>1, Unmounted
  <2>3. pgEng'.gen \notin pgEng'.boots /\ \A b \in pgEng'.boots : 0 < b /\ b <= pgEng'.gen
    BY <1>1, <2>2 DEF PgBootsInv, PgEngOf
  <2>4. pgEng'.alive = {}
    BY <2>2 DEF OneEngine
  <2>5. PgTypeOK' /\ PgBootsInv'
    BY <1>1, <1>2, <1>3, <1>4, <2>2, <2>3 DEF PgTypeOK, PgBootsInv
  <2>6. PgLoopInv' /\ StoppedIffShown'
    BY <1>1, <1>3, <1>4, <2>2 DEF PgLoopInv, StoppedIffShown
  <2>7. OneEngine'
    BY <2>2, <2>4 DEF OneEngine
  <2>. QED  BY <2>5, <2>6, <2>7
<1>6. CASE pgPage.at # "game" /\ dest = "game"
  <2>1. pgEng' = PgBooted(pgEng) /\ ~pgUser.expired
    BY <1>6 DEF PgGoTo, PgBootsInv
  <2>2. /\ pgEng' \in PgEngOf /\ pgEng'.gen = pgEng.gen + 1 /\ pgEng'.boots = pgEng.boots \cup {pgEng.gen + 1}
        /\ pgEng'.id = pgEng.id /\ pgEng'.alive = pgEng.alive /\ pgEng'.error = FALSE
    BY <1>1, <2>1, Booted
  <2>3. \A b \in pgEng'.boots : 0 < b /\ b <= pgEng'.gen
    BY <1>1, <2>2 DEF PgBootsInv, PgEngOf
  <2>4. pgEng.id = 0 /\ pgPage'.at = "game"
    BY <1>2, <1>6, <2>1 DEF OneEngine
  <2>5. PgTypeOK' /\ PgBootsInv'
    BY <1>1, <1>2, <1>3, <1>4, <2>2, <2>3, <2>4 DEF PgTypeOK, PgBootsInv
  <2>6. PgLoopInv' /\ StoppedIffShown'
    BY <1>1, <1>3, <1>4, <2>2, <2>4 DEF PgLoopInv, StoppedIffShown
  <2>7. OneEngine'
    BY <2>2, <2>4 DEF OneEngine
  <2>. QED  BY <2>5, <2>6, <2>7
<1>7. CASE pgPage.at # "game" /\ dest # "game"
  <2>1. pgEng' = pgEng /\ pgEng.id = 0 /\ pgEng.gen \notin pgEng.boots
    BY <1>7 DEF PgGoTo, OneEngine, PgBootsInv
  <2>5. PgTypeOK' /\ PgBootsInv'
    BY <1>1, <1>2, <1>3, <1>4, <2>1 DEF PgTypeOK, PgBootsInv
  <2>6. PgLoopInv' /\ StoppedIffShown'
    BY <1>1, <1>3, <1>4, <2>1 DEF PgLoopInv, StoppedIffShown
  <2>7. OneEngine'
    BY <2>1 DEF OneEngine
  <2>. QED  BY <2>5, <2>6, <2>7
<1>. QED  BY <1>5, <1>6, <1>7

LEMMA Navigated ==
  ASSUME PgCore, NEW dest \in {"select", "answer", "away"}, PgNavigate(dest), UNCHANGED pgUser
  PROVE  PgCore'
<1>1. CASE PgGoTo(dest)
  BY <1>1, Gone
<1>2. CASE pgPage' = [pgPage EXCEPT !.dest = dest] /\ UNCHANGED <<pgEng, pgGame, pgCards>>
  <2>1. pgPage \in PgPageOf /\ pgUser \in PgUserOf
    BY DEF PgCore, PgTypeOK
  <2>. QED  BY <1>2, <2>1, Bystander DEF PgPageOf
<1>. QED  BY <1>1, <1>2 DEF PgNavigate

LEMMA Moving ==
  ASSUME PgCore,
         \/ \E dest \in {"select", "away"} : PgLink(dest)
         \/ \E s \in pgStarts : PgMade(s)
         \/ PgPlay \/ PgGiveUp \/ PgExited \/ PgOk
  PROVE  PgCore'
<1>1. pgPage \in PgPageOf /\ pgUser \in PgUserOf /\ pgGame \in PgGameOf
  BY DEF PgCore, PgTypeOK
<1>2. CASE \E dest \in {"select", "away"} : PgLink(dest)
  BY <1>2, Navigated DEF PgLink
<1>3. CASE PgPlay
  BY <1>3, Gone DEF PgPlay
<1>4. CASE PgGiveUp
  BY <1>4, Navigated DEF PgGiveUp
<1>5. CASE PgExited
  BY <1>5, Gone DEF PgExited
<1>6. ASSUME NEW s \in pgStarts, PgMade(s) PROVE PgCore'
  <2>1. CASE PgNavigate("answer")
    BY <1>6, <2>1, Navigated DEF PgMade
  <2>2. CASE pgPage' = [pgPage EXCEPT !.busy = IF @ = s.n THEN 0 ELSE @] /\ UNCHANGED <<pgEng, pgGame, pgCards>>
    <3>1. UNCHANGED pgUser
      BY <1>6 DEF PgMade
    <3>. QED  BY <1>1, <2>2, <3>1, Bystander DEF PgPageOf
  <2>. QED  BY <1>6, <2>1, <2>2 DEF PgMade
<1>7. CASE PgOk
  <2>1. CASE \E dest \in {"select", "answer", "away"} : PgGoTo(dest) /\ UNCHANGED pgUser
    BY <2>1, Gone
  <2>2. CASE /\ pgPage' = [pgPage EXCEPT !.leaving = TRUE, !.bypass = TRUE]
             /\ pgGame' = [pgGame EXCEPT !.paused = FALSE]
             /\ UNCHANGED <<pgEng, pgCards, pgUser>>
    <3>1. pgPage' \in PgPageOf /\ pgPage'.at = pgPage.at /\ pgPage'.leaving
      BY <1>1, <2>2 DEF PgPageOf
    <3>2. /\ pgGame' \in PgGameOf /\ pgGame'.paused = FALSE /\ pgGame'.running = pgGame.running
          /\ pgGame'.dialog = pgGame.dialog /\ pgGame'.cursor = pgGame.cursor /\ pgGame'.phase = pgGame.phase
      BY <1>1, <2>2 DEF PgGameOf
    <3>3. PgTypeOK' /\ PgBootsInv'
      BY <2>2, <3>1, <3>2 DEF PgCore, PgTypeOK, PgBootsInv
    <3>4. PgLoopInv'
      BY <2>2, <3>2 DEF PgCore, PgLoopInv
    <3>5. OneEngine' /\ StoppedIffShown'
      BY <2>2, <3>1, <3>2 DEF PgCore, OneEngine, StoppedIffShown
    <3>. QED  BY <3>3, <3>4, <3>5 DEF PgCore
  <2>3. CASE UNCHANGED <<pgPage, pgEng, pgGame, pgCards, pgUser>>
    BY <1>1, <2>3, Bystander
  <2>4. pgPage.dest \in {"select", "answer", "away"}
    BY <1>1 DEF PgPageOf
  <2>. QED  BY <1>7, <2>1, <2>2, <2>3, <2>4 DEF PgOk
<1>. QED  BY <1>2, <1>3, <1>4, <1>5, <1>6, <1>7

LEMMA BootEnds ==
  ASSUME PgCore, NEW b \in pgEng.boots, PgBootDone(b) \/ PgBootFailed(b)
  PROVE  PgCore'
<1>. USE DEF PgCore
<1>1. pgEng \in PgEngOf /\ pgGame \in PgGameOf /\ b \in Nat /\ 0 < b /\ b <= pgEng.gen
  BY DEF PgTypeOK, PgEngOf, PgBootsInv
<1>2. UNCHANGED <<pgPage, pgCards, pgUser>>
  BY DEF PgBootDone, PgBootFailed
<1>3. ASSUME NEW error \in BOOLEAN, error => pgEng.error \/ b = pgEng.gen,
             pgEng' = [pgEng EXCEPT !.boots = @ \ {b}, !.error = error], pgGame' = pgGame
      PROVE  PgCore'
  <2>1. /\ pgEng' \in PgEngOf /\ pgEng'.gen = pgEng.gen /\ pgEng'.id = pgEng.id
        /\ pgEng'.alive = pgEng.alive /\ pgEng'.boots = pgEng.boots \ {b} /\ pgEng'.error = error
    <3>. DEFINE boots == pgEng.boots \ {b}
    <3>1. boots \in SUBSET Nat /\ pgEng' = [pgEng EXCEPT !.boots = boots, !.error = error]
      BY <1>1, <1>3 DEF PgEngOf
    <3>. HIDE DEF boots
    <3>2. /\ pgEng' \in PgEngOf /\ pgEng'.gen = pgEng.gen /\ pgEng'.id = pgEng.id
          /\ pgEng'.alive = pgEng.alive /\ pgEng'.boots = boots /\ pgEng'.error = error
      BY <1>1, <1>3, <3>1 DEF PgEngOf
    <3>. QED  BY <3>2 DEF boots
  <2>2. PgTypeOK' /\ PgBootsInv'
    BY <1>2, <1>3, <2>1 DEF PgTypeOK, PgBootsInv
  <2>3. PgLoopInv' /\ StoppedIffShown'
    BY <1>2, <1>3, <2>1 DEF PgLoopInv, StoppedIffShown
  <2>4. OneEngine'
    BY <1>2, <2>1 DEF OneEngine
  <2>. QED  BY <2>2, <2>3, <2>4
<1>4. CASE PgBootDone(b) /\ b = pgEng.gen
  <2>. DEFINE boots == pgEng.boots \ {b}
              alive == (pgEng.alive \ {pgEng.id}) \cup {b}
  <2>1. pgPage.at = "game" /\ pgEng.id = 0 /\ pgEng.alive = {}
    BY <1>4 DEF PgBootsInv, OneEngine
  <2>2. /\ pgEng' = [pgEng EXCEPT !.boots = boots, !.id = b, !.alive = alive]
        /\ pgGame' = [pgGame EXCEPT !.phase = "BUILD", !.running = TRUE, !.cursor = pgGame.arrows]
    BY <1>4 DEF PgBootDone
  <2>3. boots \in SUBSET Nat /\ alive = {b} /\ alive \in SUBSET Nat /\ b \notin boots /\ b # 0
    BY <1>1, <2>1 DEF PgEngOf
  <2>4. ~pgEng.error /\ \A c \in boots : 0 < c /\ c <= pgEng.gen
    BY <1>4 DEF PgBootsInv
  <2>. HIDE DEF boots, alive
  <2>5. /\ pgEng' \in PgEngOf /\ pgEng'.boots = boots /\ pgEng'.id = b /\ pgEng'.alive = alive
        /\ pgEng'.gen = pgEng.gen /\ pgEng'.error = pgEng.error
    BY <1>1, <2>2, <2>3 DEF PgEngOf
  <2>6. /\ pgGame' \in PgGameOf /\ pgGame'.phase = "BUILD" /\ pgGame'.running = TRUE
        /\ pgGame'.paused = pgGame.paused /\ pgGame'.dialog = pgGame.dialog
    BY <1>1, <2>2 DEF PgGameOf
  <2>7. ~pgGame.paused /\ ~pgGame.dialog /\ (pgCards.queue = <<>> \/ pgUser.retried)
    BY <2>1 DEF PgLoopInv
  <2>8. PgTypeOK' /\ PgBootsInv'
    BY <1>2, <1>4, <2>3, <2>4, <2>5, <2>6 DEF PgTypeOK, PgBootsInv
  <2>9. PgLoopInv' /\ StoppedIffShown'
    BY <1>2, <2>3, <2>5, <2>6, <2>7 DEF PgLoopInv, StoppedIffShown
  <2>10. OneEngine'
    BY <1>2, <2>1, <2>3, <2>5 DEF OneEngine
  <2>. QED  BY <2>8, <2>9, <2>10
<1>5. CASE PgBootDone(b) /\ b # pgEng.gen
  <2>1. pgEng' = [pgEng EXCEPT !.boots = @ \ {b}] /\ pgGame' = pgGame
    BY <1>5 DEF PgBootDone
  <2>2. [pgEng EXCEPT !.boots = @ \ {b}] = [pgEng EXCEPT !.boots = @ \ {b}, !.error = pgEng.error]
        /\ pgEng.error \in BOOLEAN
    BY <1>1 DEF PgEngOf
  <2>. QED  BY <1>3, <2>1, <2>2
<1>6. CASE PgBootFailed(b)
  <2>. DEFINE error == pgEng.error \/ b = pgEng.gen
  <2>1. pgEng' = [pgEng EXCEPT !.boots = @ \ {b}, !.error = error] /\ pgGame' = pgGame /\ error \in BOOLEAN
    BY <1>6 DEF PgBootFailed
  <2>. QED  BY <1>3, <2>1
<1>. QED  BY <1>4, <1>5, <1>6

LEMMA TornEngine ==
  ASSUME PgCore, pgPage.at = "game", pgEng' = PgTorn, pgPage' = pgPage, pgUser'.expired = pgUser.expired
  PROVE  pgEng' \in PgEngOf /\ pgEng'.id = 0 /\ PgBootsInv' /\ OneEngine'
<1>. DEFINE u == PgBooted(pgEng)
            alive == u.alive \ {pgEng.id}
<1>1. /\ u \in PgEngOf /\ u.gen = pgEng.gen + 1 /\ u.boots = pgEng.boots \cup {pgEng.gen + 1}
      /\ u.alive = pgEng.alive /\ u.error = FALSE /\ pgEng \in PgEngOf
  BY Booted DEF PgCore, PgTypeOK
<1>2. alive = {}
  BY <1>1 DEF PgCore, OneEngine
<1>3. pgEng' = [u EXCEPT !.alive = alive, !.id = 0]
  BY <1>1 DEF PgTorn
<1>. HIDE DEF u, alive
<1>4. 0 \in Nat /\ alive \in SUBSET Nat
  BY <1>2
<1>5. /\ pgEng' \in PgEngOf /\ pgEng'.id = 0 /\ pgEng'.alive = alive
      /\ pgEng'.gen = u.gen /\ pgEng'.boots = u.boots /\ pgEng'.error = u.error
  BY <1>1, <1>3, <1>4 DEF PgEngOf
<1>6. \A b \in u.boots : 0 < b /\ b <= u.gen
  BY <1>1 DEF PgCore, PgBootsInv, PgEngOf
<1>7. PgBootsInv'
  BY <1>1, <1>5, <1>6 DEF PgCore, PgBootsInv
<1>. QED  BY <1>2, <1>5, <1>7 DEF OneEngine

LEMMA Retried ==
  ASSUME PgCore, PgRetryLoad \/ PgRetryCheckpoint
  PROVE  PgCore'
<1>1. pgGame \in PgGameOf /\ pgUser \in PgUserOf
  BY DEF PgCore, PgTypeOK
<1>2. CASE PgRetryLoad
  <2>1. /\ pgEng.error /\ pgPage.at = "game" /\ pgEng' = PgTorn
        /\ UNCHANGED <<pgPage, pgGame, pgCards, pgUser>>
    BY <1>2 DEF PgRetryLoad
  <2>2. pgEng' \in PgEngOf /\ pgEng'.id = 0 /\ PgBootsInv' /\ OneEngine'
    BY <2>1, TornEngine
  <2>3. pgEng.id = 0
    BY <2>1 DEF PgCore, PgBootsInv
  <2>. QED  BY <2>1, <2>2, <2>3 DEF PgCore, PgTypeOK, PgLoopInv, StoppedIffShown
<1>3. CASE PgRetryCheckpoint
  <2>. DEFINE retried == pgCards.queue # <<>>
  <2>1. /\ pgGame.dialog /\ pgEng.id # 0 /\ pgEng' = PgTorn /\ UNCHANGED <<pgPage, pgCards>>
        /\ pgGame' = [pgGame EXCEPT !.dialog = FALSE, !.running = FALSE]
        /\ pgUser' = [pgUser EXCEPT !.retried = retried]
    BY <1>3 DEF PgRetryCheckpoint
  <2>2. pgPage.at = "game" /\ retried \in BOOLEAN
    BY <2>1 DEF PgCore, OneEngine
  <2>. HIDE DEF retried
  <2>3. pgUser' \in PgUserOf /\ pgUser'.retried = retried /\ pgUser'.expired = pgUser.expired
    BY <1>1, <2>1, <2>2 DEF PgUserOf
  <2>4. /\ pgGame' \in PgGameOf /\ pgGame'.dialog = FALSE /\ pgGame'.running = FALSE
        /\ pgGame'.paused = pgGame.paused /\ pgGame'.phase = pgGame.phase /\ pgGame'.cursor = pgGame.cursor
    BY <1>1, <2>1 DEF PgGameOf
  <2>5. pgEng' \in PgEngOf /\ pgEng'.id = 0 /\ PgBootsInv' /\ OneEngine'
    BY <2>1, <2>2, <2>3, TornEngine
  <2>6. ~pgGame.paused
    BY <2>1 DEF PgCore, PgLoopInv
  <2>7. PgTypeOK'
    BY <2>1, <2>3, <2>4, <2>5 DEF PgCore, PgTypeOK
  <2>8. PgLoopInv' /\ StoppedIffShown'
    BY <2>1, <2>3, <2>4, <2>5, <2>6 DEF PgCore, PgLoopInv, StoppedIffShown, retried
  <2>. QED  BY <2>5, <2>7, <2>8 DEF PgCore
<1>. QED  BY <1>2, <1>3

(***************************************************************************)
(* The loop                                                                *)
(***************************************************************************)
\* The game changes and the page, the engine and the player stay: what is left to show.
LEMMA LoopKeeps ==
  ASSUME PgCore, UNCHANGED <<pgPage, pgEng, pgUser>>,
         pgGame' \in PgGameOf, pgCards' \in PgCardsOf, PgLoopInv', StoppedIffShown'
  PROVE  PgCore'
<1>1. PgTypeOK'
  BY DEF PgCore, PgTypeOK
<1>2. PgBootsInv' /\ OneEngine'
  BY DEF PgCore, PgBootsInv, OneEngine
<1>. QED  BY <1>1, <1>2 DEF PgCore

LEMMA NoticedType ==
  ASSUME NEW queue \in Seq(PgFoes), NEW type
  PROVE  PgNoticed(queue, type) \in Seq(PgFoes)
BY DEF PgNoticed

LEMMA Framed ==
  ASSUME PgCore, NEW first, NEW second, NEW to \in {"WAVE", "BUILD", "OVER", "END"},
         PgFrame(first, second, to)
  PROVE  PgCore'
<1>. DEFINE queue == PgNoticed(PgNoticed(pgCards.queue, first), second)
            running == pgCards.queue # <<>> \/ queue = <<>>
            saved == pgGame.saved \/ (to = "BUILD" /\ pgPage.star5)
            cursor == to = "BUILD" /\ pgGame.arrows
            dialog == to = "OVER" /\ pgGame.saved
<1>1. pgGame \in PgGameOf /\ pgCards \in PgCardsOf /\ queue \in Seq(PgFoes)
  BY NoticedType DEF PgCore, PgTypeOK, PgCardsOf
<1>2. /\ pgGame.running
      /\ pgCards' = [pgCards EXCEPT !.queue = queue]
      /\ pgGame' = [pgGame EXCEPT !.phase = to, !.running = running, !.saved = saved,
                      !.cursor = cursor, !.dialog = dialog]
      /\ UNCHANGED <<pgPage, pgEng, pgUser>>
  BY DEF PgFrame
<1>3. pgEng.id # 0 /\ ~pgGame.paused
  BY <1>2 DEF PgCore, PgLoopInv
<1>4. pgPage.leaving \/ pgUser.retried \/ (running <=> queue = <<>>)
  BY <1>2, <1>3 DEF PgCore, StoppedIffShown
<1>5. (cursor => to = "BUILD") /\ (dialog => to = "OVER")
  OBVIOUS
<1>6. {running, saved, cursor, dialog} \subseteq BOOLEAN
  BY <1>1 DEF PgGameOf
<1>. HIDE DEF queue, running, saved, cursor, dialog
<1>7. pgCards' \in PgCardsOf /\ pgCards'.queue = queue
  BY <1>1, <1>2 DEF PgCardsOf
<1>8. /\ pgGame' \in PgGameOf /\ pgGame'.phase = to /\ pgGame'.running = running
      /\ pgGame'.cursor = cursor /\ pgGame'.dialog = dialog /\ pgGame'.paused = pgGame.paused
  BY <1>1, <1>2, <1>6 DEF PgGameOf
<1>9. PgLoopInv'
  BY <1>2, <1>3, <1>5, <1>8 DEF PgLoopInv
<1>10. StoppedIffShown'
  BY <1>2, <1>3, <1>4, <1>5, <1>7, <1>8 DEF StoppedIffShown
<1>. QED  BY <1>2, <1>7, <1>8, <1>9, <1>10, LoopKeeps

LEMMA LastCard ==
  ASSUME NEW queue \in Seq(PgFoes), queue # <<>>
  PROVE  /\ Tail(queue) \in Seq(PgFoes) /\ Head(queue) \in PgFoes
         /\ Len(queue) = 1 <=> Tail(queue) = <<>>
<1>1. Tail(queue) \in Seq(PgFoes) /\ Head(queue) \in PgFoes /\ Len(Tail(queue)) = Len(queue) - 1
  BY HeadTailProperties
<1>2. Len(queue) \in Nat /\ (Tail(queue) = <<>> <=> Len(Tail(queue)) = 0)
  BY <1>1, EmptySeq
<1>. QED  BY <1>1, <1>2

LEMMA Dismissed ==
  ASSUME PgCore, PgDismissCard
  PROVE  PgCore'
<1>. DEFINE queue == pgCards.queue
            running == pgGame.running \/ (Len(queue) = 1 /\ pgEng.id # 0)
<1>1. /\ pgGame \in PgGameOf /\ pgCards \in PgCardsOf
  BY DEF PgCore, PgTypeOK
<1>2. /\ queue # <<>> /\ pgGame' = [pgGame EXCEPT !.running = running]
      /\ pgCards' = [queue |-> Tail(queue), seen |-> pgCards.seen \cup {Head(queue)}]
      /\ UNCHANGED <<pgPage, pgEng, pgUser>>
  BY DEF PgDismissCard
<1>3. queue \in Seq(PgFoes) /\ pgCards.seen \in SUBSET PgFoes
  BY <1>1 DEF PgCardsOf
<1>4. /\ Tail(queue) \in Seq(PgFoes) /\ Head(queue) \in PgFoes
      /\ Len(queue) = 1 <=> Tail(queue) = <<>>
  BY <1>2, <1>3, LastCard
<1>5. /\ ~pgGame.paused
      /\ pgEng.id = 0 => ~running /\ ~pgGame.dialog /\ pgUser.retried
      /\ pgEng.id = 0 \/ pgPage.leaving \/ pgUser.retried \/ (running <=> Tail(queue) = <<>>)
  BY <1>2, <1>4 DEF PgCore, PgLoopInv, StoppedIffShown
<1>6. running \in BOOLEAN
  BY <1>1 DEF PgGameOf
<1>7. pgCards' \in PgCardsOf /\ pgCards'.queue = Tail(queue)
  BY <1>2, <1>3, <1>4 DEF PgCardsOf
<1>. HIDE DEF queue, running
<1>8. /\ pgGame' \in PgGameOf /\ pgGame'.phase = pgGame.phase /\ pgGame'.running = running
      /\ pgGame'.cursor = pgGame.cursor /\ pgGame'.dialog = pgGame.dialog /\ pgGame'.paused = pgGame.paused
  BY <1>1, <1>2, <1>6 DEF PgGameOf
<1>9. PgLoopInv'
  BY <1>2, <1>5, <1>8 DEF PgCore, PgLoopInv
<1>10. StoppedIffShown'
  BY <1>2, <1>5, <1>7, <1>8 DEF PgCore, StoppedIffShown
<1>. QED  BY <1>2, <1>7, <1>8, <1>9, <1>10, LoopKeeps

LEMMA Playing ==
  ASSUME PgCore, PgStartWave \/ PgPauseKey \/ PgResume \/ PgManual \/ PgArrow
  PROVE  PgCore'
<1>1. pgGame \in PgGameOf /\ pgCards \in PgCardsOf
  BY DEF PgCore, PgTypeOK
<1>2. UNCHANGED <<pgPage, pgEng, pgUser, pgCards>> /\ pgEng.id # 0
  BY DEF PgStartWave, PgPauseKey, PgResume, PgManual, PgArrow
<1>3. pgCards' \in PgCardsOf
  BY <1>1, <1>2
<1>4. SUFFICES pgGame' \in PgGameOf /\ PgLoopInv' /\ StoppedIffShown'
  BY <1>2, <1>3, LoopKeeps
<1>5. CASE pgGame' = pgGame
  BY <1>1, <1>2, <1>5 DEF PgCore, PgLoopInv, StoppedIffShown
<1>6. CASE PgStartWave
  <2>1. pgGame.phase = "BUILD" /\ pgGame' = [pgGame EXCEPT !.phase = "WAVE", !.cursor = FALSE]
    BY <1>6 DEF PgStartWave
  <2>2. /\ pgGame' \in PgGameOf /\ pgGame'.phase = "WAVE" /\ pgGame'.cursor = FALSE
        /\ pgGame'.running = pgGame.running /\ pgGame'.paused = pgGame.paused /\ pgGame'.dialog = pgGame.dialog
    BY <1>1, <2>1 DEF PgGameOf
  <2>3. ~pgGame.dialog /\ ~pgGame.paused
    BY <2>1 DEF PgCore, PgLoopInv
  <2>. QED  BY <1>2, <2>1, <2>2, <2>3 DEF PgCore, PgLoopInv, StoppedIffShown
<1>7. CASE pgGame.paused /\ pgGame' = [pgGame EXCEPT !.running = TRUE, !.paused = FALSE]
  <2>1. /\ pgGame' \in PgGameOf /\ pgGame'.phase = pgGame.phase /\ pgGame'.cursor = pgGame.cursor
        /\ pgGame'.running = TRUE /\ pgGame'.paused = FALSE /\ pgGame'.dialog = pgGame.dialog
    BY <1>1, <1>7 DEF PgGameOf
  <2>2. pgCards.queue = <<>>
    BY <1>7 DEF PgCore, PgLoopInv
  <2>. QED  BY <1>2, <2>1, <2>2 DEF PgCore, PgLoopInv, StoppedIffShown
<1>8. CASE /\ pgGame.phase = "WAVE" /\ pgCards.queue = <<>>
           /\ pgGame' = [pgGame EXCEPT !.running = FALSE, !.paused = TRUE]
  <2>1. /\ pgGame' \in PgGameOf /\ pgGame'.phase = pgGame.phase /\ pgGame'.cursor = pgGame.cursor
        /\ pgGame'.running = FALSE /\ pgGame'.paused = TRUE /\ pgGame'.dialog = pgGame.dialog
    BY <1>1, <1>8 DEF PgGameOf
  <2>. QED  BY <1>2, <1>8, <2>1 DEF PgCore, PgLoopInv, StoppedIffShown
<1>9. CASE PgManual
  <2>. DEFINE manual == ~pgGame.manual
  <2>1. pgGame' = [pgGame EXCEPT !.manual = manual] /\ manual \in BOOLEAN
    BY <1>9 DEF PgManual
  <2>. HIDE DEF manual
  <2>2. /\ pgGame' \in PgGameOf /\ pgGame'.phase = pgGame.phase /\ pgGame'.cursor = pgGame.cursor
        /\ pgGame'.running = pgGame.running /\ pgGame'.paused = pgGame.paused /\ pgGame'.dialog = pgGame.dialog
    BY <1>1, <2>1 DEF PgGameOf
  <2>. QED  BY <1>2, <2>2 DEF PgCore, PgLoopInv, StoppedIffShown
<1>10. CASE PgArrow
  <2>1. pgGame.phase = "BUILD" /\ pgGame' = [pgGame EXCEPT !.arrows = TRUE, !.cursor = TRUE]
    BY <1>10 DEF PgArrow
  <2>2. /\ pgGame' \in PgGameOf /\ pgGame'.phase = pgGame.phase
        /\ pgGame'.running = pgGame.running /\ pgGame'.paused = pgGame.paused /\ pgGame'.dialog = pgGame.dialog
    BY <1>1, <2>1 DEF PgGameOf
  <2>. QED  BY <1>2, <2>1, <2>2 DEF PgCore, PgLoopInv, StoppedIffShown
<1>11. CASE PgPauseKey
  BY <1>5, <1>7, <1>8, <1>11 DEF PgPauseKey, PgToggled
<1>12. CASE PgResume
  BY <1>7, <1>12 DEF PgResume, PgToggled
<1>. QED  BY <1>6, <1>9, <1>10, <1>11, <1>12

(***************************************************************************)
(* The theorems                                                            *)
(***************************************************************************)
LEMMA PgInitial == ASSUME PgInit PROVE PgInv
<1>1. PgTypeOK
  <2>1. PgNoGame \in PgGameOf
    BY DEF PgNoGame, PgGameOf
  <2>2. <<>> \in Seq(PgFoes) /\ 0 \in Nat
    OBVIOUS
  <2>3. pgCards \in PgCardsOf /\ pgUser \in PgUserOf /\ pgEng \in PgEngOf
    BY <2>2 DEF PgInit, PgCardsOf, PgUserOf, PgEngOf
  <2>4. pgPage \in PgPageOf
    BY <2>2 DEF PgInit, PgPageOf
  <2>. QED  BY <2>1, <2>3, <2>4 DEF PgInit, PgTypeOK
<1>2. PgBootsInv /\ OneEngine
  BY DEF PgInit, PgBootsInv, OneEngine
<1>3. PgLoopInv /\ StoppedIffShown
  BY DEF PgInit, PgNoGame, PgLoopInv, StoppedIffShown
<1>4. ConfirmsSettled
  BY DEF PgInit, PgClosed, ConfirmsSettled, PgSuperseded
<1>. QED  BY <1>1, <1>2, <1>3, <1>4 DEF PgInv, PageInStep

LEMMA PgStep == ASSUME PgInv, [PgNext]_pgVars PROVE PgInv'
<1>1. PgCore /\ ConfirmsSettled
  BY DEF PgInv, PageInStep, PgCore
<1>2. SUFFICES PgCore' /\ ConfirmsSettled'
  BY DEF PgInv, PageInStep, PgCore
<1>3. CASE UNCHANGED pgVars
  <2>1. ConfirmsSettled'
    BY <1>1, <1>3 DEF pgVars, ConfirmsSettled, PgSuperseded
  <2>2. PgCore'
    BY <1>1, <1>3, Bystander DEF pgVars, PgCore, PgTypeOK
  <2>. QED  BY <2>1, <2>2
<1>4. CASE PgNext
  <2>1. ConfirmsSettled'
    BY <1>1, <1>4, SlotMoves, SlotChanges
  <2>2. PgCore'
    BY <1>1, <1>4, Preparing, Moving, BootEnds, Retried, Framed, Dismissed, Playing DEF PgNext
  <2>. QED  BY <2>1, <2>2
<1>. QED  BY <1>3, <1>4

(***************************************************************************)
(* THE BOARD                                                               *)
(***************************************************************************)

LEMMA NatMin == ASSUME NEW T, T \subseteq Nat, T # {} PROVE \E n \in T : \A m \in T : n <= m
<1> DEFINE R == OpToRel(<, Nat)
<1>1. IsWellFoundedOn(R, Nat)
  BY NatLessThanWellFounded
<1>2. \A m, n \in Nat : m < n => <<m, n>> \in R
  BY DEF OpToRel
<1> HIDE DEF R
<1>3. PICK n \in T : \A m \in T : ~(<<m, n>> \in R)
  BY <1>1, WFMin
<1>4. ASSUME NEW m \in T PROVE n <= m
  <2>1. m \in Nat /\ n \in Nat
    OBVIOUS
  <2>2. ~(m < n)
    BY <1>2, <1>3, <2>1
  <2> QED BY <2>1, <2>2
<1> QED BY <1>4

(***************************************************************************)
(* The board                                                               *)
(***************************************************************************)
\* Of cells with a rank, one is the first.
LEMMA LmRanks == ASSUME NEW p \in LmBoard PROVE LmRank(p) \in Nat
<1> DEFINE x == p[1] + LmGrid
           y == p[2] + LmGrid
           w == 2 * LmGrid + 1
<1>1. x \in Nat /\ y \in Nat /\ w \in Nat /\ LmRank(p) = x * w + p[2] + LmGrid
  BY LmAssumption DEF LmBoard, LmRank
<1>2. \A i, j \in Nat : i * j \in Nat
  OBVIOUS
<1>3. x * w \in Nat
  BY <1>1, <1>2
<1>4. p[2] \in Int /\ LmGrid \in Int
  BY LmAssumption DEF LmBoard
<1> DEFINE z == x * w
<1>5. z \in Nat /\ LmRank(p) = z + p[2] + LmGrid
  BY <1>1, <1>3
<1> HIDE DEF x, w, z
<1> QED BY <1>1, <1>4, <1>5

LEMMA LmFirstIn == ASSUME NEW walk \in SUBSET LmBoard, walk # {} PROVE LmFirst(walk) \in walk
<1>1. {LmRank(p) : p \in walk} \subseteq Nat /\ {LmRank(p) : p \in walk} # {}
  BY LmRanks
<1>2. PICK n \in {LmRank(p) : p \in walk} : \A m \in {LmRank(p) : p \in walk} : n <= m
  BY <1>1, NatMin
<1>3. \E p \in walk : \A q \in walk : LmRank(p) <= LmRank(q)
  BY <1>2
<1> QED BY <1>3 DEF LmFirst

LEMMA LmScores ==
  ASSUME NEW cur \in LmBoard, NEW p \in LmBoard, NEW d
  PROVE  LmScore(cur, d, p) \in Nat
<1> DEFINE i == p[1] - cur[1]
           j == p[2] - cur[2]
<1>1. i \in Int /\ j \in Int
  BY LmAssumption DEF LmBoard
<1>2. \A n \in Int : LmSize(n) \in Nat
  BY DEF LmSize
<1>3. LmScore(cur, d, p) = IF d[1] # 0 THEN LmSize(i) + 4 * LmSize(j) ELSE LmSize(j) + 4 * LmSize(i)
  BY DEF LmScore
<1>4. LmSize(i) \in Nat /\ LmSize(j) \in Nat
  BY <1>1, <1>2
<1> QED BY <1>3, <1>4

\* An arrow leads from a cell of the walk to one of the walk.
LEMMA LmSteps ==
  ASSUME NEW walk \in SUBSET LmBoard, NEW cur \in walk, NEW d
  PROVE  LmStep(cur, walk, d) \in walk
<1> DEFINE ahead == {p \in walk : d[1] * (p[1] - cur[1]) + d[2] * (p[2] - cur[2]) > 0}
           best == {p \in ahead : \A q \in ahead : LmScore(cur, d, p) <= LmScore(cur, d, q)}
<1>1. LmStep(cur, walk, d) = IF ahead = {} THEN cur ELSE LmFirst(best)
  BY DEF LmStep
<1>2. ahead \subseteq walk
  OBVIOUS
<1>3. ASSUME ahead # {} PROVE LmFirst(best) \in walk
  <2> HIDE DEF ahead
  <2>1. {LmScore(cur, d, p) : p \in ahead} \subseteq Nat /\ {LmScore(cur, d, p) : p \in ahead} # {}
    BY <1>2, <1>3, LmScores
  <2>2. PICK n \in {LmScore(cur, d, p) : p \in ahead} : \A m \in {LmScore(cur, d, p) : p \in ahead} : n <= m
    BY <2>1, NatMin
  <2>3. best # {}
    BY <2>2
  <2>4. best \in SUBSET LmBoard /\ best \subseteq walk
    BY <1>2
  <2> HIDE DEF best
  <2>5. LmFirst(best) \in best
    BY <2>3, <2>4, LmFirstIn
  <2> QED BY <2>4, <2>5
<1> HIDE DEF ahead, best
<1> QED BY <1>1, <1>3

LEMMA LmBoardSites ==
  ASSUME NEW l \in LmLevels
  PROVE  LmSite(l).clear \subseteq LmBoard /\ \A d \in LmSite(l).decoys : d \subseteq LmBoard
<1> DEFINE s == [level |-> l, clear |-> {p : p \in LmClear(l)}, crossed |-> {p : p \in LmPathCells(l)},
                 decoys |-> {d : d \in LmDecoySets(l)}]
<1>0. s \in LmSites
  BY Zenon DEF LmSites
<1>1. \E t \in LmSites : t.level = l
  BY <1>0
<1>2. LmSite(l) \in LmSites
  BY <1>1 DEF LmSite
<1>3. PICK k \in LmLevels :
        LmSite(l) = [level |-> k, clear |-> {p : p \in LmClear(k)}, crossed |-> {p : p \in LmPathCells(k)},
                     decoys |-> {d : d \in LmDecoySets(k)}]
  BY <1>2 DEF LmSites
<1>4. LmSite(l).clear = {p : p \in LmClear(k)} /\ LmSite(l).decoys = {d : d \in LmDecoySets(k)}
  BY <1>3
<1>5. LmClear(k) \subseteq LmBoard
  BY DEF LmClear
<1>6. \A d \in LmDecoySets(k) : d \subseteq LmCandidates(k)
  BY DEF LmDecoySets, kSubset
<1>7. LmCandidates(k) \subseteq LmBoard
  BY DEF LmCandidates
<1> QED BY <1>4, <1>5, <1>6, <1>7

\* The cells of the board of a level.
LEMMA LmCells ==
  ASSUME NEW l \in LmLevels, NEW d, NEW hidden \in BOOLEAN
  PROVE  /\ LmPlaceable(l, d) \in SUBSET LmBoard /\ LmWalk(l, d, hidden) \in SUBSET LmBoard
         /\ ~hidden => LmWalk(l, d, hidden) = LmPlaceable(l, d)
         /\ LmPainted(l, d) \subseteq LmPlaceable(l, d)
<1>1. LmSite(l).clear \subseteq LmBoard
  BY LmBoardSites
<1> QED BY <1>1 DEF LmPlaceable, LmWalk, LmPainted, LmLegal

LEMMA LmShownCursor ==
  ASSUME NEW walk \in SUBSET LmBoard, NEW keys
  PROVE  LmSeen(keys, walk) \in walk \cup {LmNowhere}
BY LmFirstIn DEF LmSeen

LEMMA LmNone == LmNoGame \in LmGameOf /\ LmNoGame.on = FALSE
<1>1. LmNoLevel \in LmLevelOf /\ LmNowhere \in LmBoard \cup {LmNowhere}
  BY DEF LmLevelOf
<1> QED BY <1>1 DEF LmNoGame, LmGameOf

\* A game that begins.
LEMMA LmStarts ==
  ASSUME NEW l \in LmLevels, NEW d \in SUBSET LmBoard, NEW hidden \in BOOLEAN, lmGame \in LmGameOf
  PROVE  LET g == LmStarted(l, d, hidden) IN
           /\ g \in LmGameOf /\ g.level = l
           /\ g.placeable = LmPlaceable(g.level, g.decoys)
           /\ g.walk = LmWalk(g.level, g.decoys, g.concealed)
           /\ g.cursor \in g.walk \cup {LmNowhere} /\ g.towers = {}
<1> DEFINE p == LmPlaceable(l, d)
           w == LmWalk(l, d, hidden)
           k == lmGame.keys
           c == LmSeen(k, w)
           g == LmStarted(l, d, hidden)
           n == LmNoGame
<1>1. p \in SUBSET LmBoard /\ w \in SUBSET LmBoard
  BY LmCells
<1>2. k \in Nat
  BY DEF LmGameOf
<1>3. c \in w \cup {LmNowhere}
  BY <1>1, LmShownCursor
<1>4. l \in LmLevelOf /\ c \in LmBoard \cup {LmNowhere}
  BY <1>1, <1>3 DEF LmLevelOf
<1>5. g = [n EXCEPT !.on = TRUE, !.level = l, !.decoys = d, !.placeable = p, !.walk = w, !.concealed = hidden,
                    !.phase = "build", !.keys = k, !.cursor = c]
  BY DEF LmStarted
<1>6. n \in LmGameOf
  BY LmNone
<1>7. n.towers = {}
  BY DEF LmNoGame
<1> HIDE DEF p, w, k, c, g, n
<1>8. g \in LmGameOf
  BY <1>1, <1>2, <1>4, <1>5, <1>6 DEF LmGameOf
<1>9. /\ g.level = l /\ g.decoys = d /\ g.concealed = hidden /\ g.placeable = p /\ g.walk = w /\ g.cursor = c
      /\ g.towers = {}
  BY <1>5, <1>6, <1>7 DEF LmGameOf
<1> QED BY <1>3, <1>8, <1>9 DEF p, w, g

(***************************************************************************)
(* The steps                                                               *)
(***************************************************************************)
LEMMA LmInitial == ASSUME LmInit PROVE LevelInv
<1>1. lmPage \in LmPageOf /\ lmPage.at = "select" /\ lmPage.loads = 1 /\ lmWasm = "loading"
  BY DEF LmInit, LmPageOf
<1>2. lmHist \in LmHistOf /\ lmHist.load = 0 /\ lmHist.by = "none"
  BY DEF LmInit, LmNoHist, LmHistOf, LmLevelOf
<1>3. lmRow \in LmRowOf /\ lmRow.tag = 0
  BY DEF LmInit, LmNoRow, LmRowOf, LmLevelOf
<1>4. lmGame \in LmGameOf /\ lmGame.on = FALSE
  BY LmNone DEF LmInit
<1>5. lmMade \in [LmEngines -> LmLevelOf]
  BY DEF LmInit, LmLevelOf
<1> QED BY <1>1, <1>2, <1>3, <1>4, <1>5 DEF LevelInv, LmTypeOK, LmBoardKept, LmSourceKept, ReplayShowsRun

\* What is generated, answered or loaded anew before a game begins.
LEMMA LmPages ==
  ASSUME LevelInv, LmSettled \/ LmAsk \/ LmGenerated \/ LmAnswer \/ LmWatch
  PROVE  LevelInv'
<1> USE DEF LevelInv, LmTypeOK
<1>1. lmGame' = lmGame /\ lmRow' = lmRow /\ lmMade' = lmMade
  BY DEF LmSettled, LmAsk, LmGenerated, LmAnswer, LmWatch
<1>2. LmBoardKept'
  BY <1>1 DEF LmBoardKept
<1>3. LmTypeOK' /\ LmSourceKept' /\ ReplayShowsRun'
  <2>1. CASE LmSettled
    BY <2>1, <1>1 DEF LmSettled, LmEngines, LmSourceKept, ReplayShowsRun, LmRegenerated
  <2>2. CASE LmAsk
    <3> DEFINE r == lmPage.runs + 1
    <3>1. r \in Nat /\ lmPage' = [lmPage EXCEPT !.at = "asking", !.runs = r]
      BY <2>2 DEF LmAsk, LmPageOf
    <3> HIDE DEF r
    <3>2. lmPage' \in LmPageOf /\ lmPage'.at = "asking" /\ lmPage'.loads = lmPage.loads
      BY <3>1 DEF LmPageOf
    <3>3. lmWasm' = lmWasm /\ lmHist' = lmHist
      BY <2>2 DEF LmAsk
    <3> QED BY <1>1, <3>2, <3>3 DEF LmSourceKept, ReplayShowsRun, LmRegenerated
  <2>3. CASE LmGenerated
    <3> DEFINE made == lmMade[lmWasm]
    <3>1. made \in LmLevelOf /\ lmWasm \in LmEngines /\ lmWasm' = lmWasm /\ lmPage.loads \in Nat
      BY <2>3 DEF LmGenerated, LmPageOf, LmEngines
    <3>2. CASE made = LmNoLevel
      <4>1. lmPage' = [lmPage EXCEPT !.at = "select"] /\ lmHist' = lmHist
        BY <2>3, <3>2 DEF LmGenerated
      <4>2. lmPage' \in LmPageOf /\ lmPage'.at = "select" /\ lmPage'.loads = lmPage.loads
        BY <4>1 DEF LmPageOf
      <4> QED BY <1>1, <3>1, <4>1, <4>2 DEF LmSourceKept, ReplayShowsRun, LmRegenerated
    <3>3. CASE made # LmNoLevel
      <4>1. lmPage' = [lmPage EXCEPT !.at = "answer"]
            /\ lmHist' = [level |-> made, by |-> lmWasm, load |-> lmPage.loads, answer |-> "none"]
        BY <2>3, <3>3 DEF LmGenerated
      <4>2. lmPage' \in LmPageOf /\ lmPage'.at = "answer" /\ lmPage'.loads = lmPage.loads
        BY <4>1 DEF LmPageOf
      <4>3. made \in LmLevels
        BY <3>1, <3>3 DEF LmLevelOf
      <4> HIDE DEF made
      <4>4. lmHist' \in LmHistOf /\ lmHist'.level = made /\ lmHist'.load = lmPage.loads /\ lmHist'.by = lmWasm
        BY <3>1, <4>1 DEF LmHistOf
      <4>5. lmHist'.level = lmMade'[lmHist'.by] /\ lmWasm \notin {"loading", "none"}
        BY <1>1, <3>1, <4>4 DEF made, LmEngines
      <4> QED BY <1>1, <3>1, <4>2, <4>3, <4>4, <4>5 DEF LmSourceKept, ReplayShowsRun, LmRegenerated
    <3> QED BY <3>2, <3>3
  <2>4. CASE LmAnswer
    <3>1. PICK a \in {"correct", "wrong", "paid", "ignored"} : lmHist' = [lmHist EXCEPT !.answer = a]
      BY <2>4 DEF LmAnswer
    <3>2. lmHist' \in LmHistOf /\ lmHist'.level = lmHist.level /\ lmHist'.load = lmHist.load /\ lmHist'.by = lmHist.by
      BY <3>1 DEF LmHistOf
    <3>3. lmPage' \in LmPageOf /\ lmPage'.at = "booting" /\ lmPage'.loads = lmPage.loads
      BY <2>4 DEF LmAnswer, LmPageOf
    <3>4. lmWasm' = lmWasm /\ lmPage.at = "answer"
      BY <2>4 DEF LmAnswer
    <3> QED BY <1>1, <3>2, <3>3, <3>4 DEF LmSourceKept, ReplayShowsRun, LmRegenerated
  <2>5. CASE LmWatch
    <3>1. lmPage' \in LmPageOf /\ lmPage'.at = "replaying" /\ lmPage'.loads = lmPage.loads
      BY <2>5 DEF LmWatch, LmPageOf
    <3>2. lmWasm' = lmWasm /\ lmHist' = lmHist /\ lmRow.tag # 0
      BY <2>5 DEF LmWatch
    <3> QED BY <1>1, <3>1, <3>2 DEF LmSourceKept, ReplayShowsRun, LmRegenerated
  <2> QED BY <2>1, <2>2, <2>3, <2>4, <2>5
<1> QED BY <1>2, <1>3

\* Reloads and departures leave no game.
LEMMA LmGone ==
  ASSUME LevelInv, LmReload \/ LmLeave \/ LmRestore
  PROVE  LevelInv'
<1> USE DEF LevelInv, LmTypeOK
<1>1. lmRow' = lmRow /\ lmMade' = lmMade /\ lmHist' = lmHist
  BY DEF LmReload, LmLeave, LmRestore
<1>2. lmGame' \in LmGameOf /\ lmGame'.on = FALSE
  <2>1. lmGame' = LmNoGame \/ lmGame' = [LmNoGame EXCEPT !.keys = lmGame.keys]
    BY DEF LmReload, LmLeave, LmRestore
  <2> DEFINE k == lmGame.keys
             n == LmNoGame
  <2>2. k \in Nat /\ n \in LmGameOf /\ n.on = FALSE /\ (lmGame' = n \/ lmGame' = [n EXCEPT !.keys = k])
    BY <2>1, LmNone DEF LmGameOf
  <2> HIDE DEF k, n
  <2>3. CASE lmGame' = n
    BY <2>2, <2>3
  <2>4. CASE lmGame' = [n EXCEPT !.keys = k]
    BY <2>2, <2>4 DEF LmGameOf
  <2> QED BY <2>2, <2>3, <2>4
<1>3. LmBoardKept'
  BY <1>2 DEF LmBoardKept
<1>4. CASE LmReload
  <2> DEFINE n == lmPage.loads + 1
             a == CASE lmPage.at = "game" -> "booting" [] lmPage.at = "asking" -> "select"
                    [] lmPage.at \in {"replay", "refused"} -> "replaying" [] OTHER -> lmPage.at
  <2>1. n \in Nat /\ lmPage.loads < n /\ lmPage.loads \in Nat
    BY DEF LmPageOf
  <2>2. /\ a \in {"select", "answer", "booting", "replaying"}
        /\ a \in {"answer", "booting"} => lmPage.at \in {"answer", "booting", "game"}
        /\ a = "replaying" => lmPage.at \in {"replaying", "replay", "refused"}
    BY DEF LmPageOf
  <2>3. lmPage' = [lmPage EXCEPT !.loads = n, !.at = a] /\ lmWasm' = "loading"
    BY <1>4 DEF LmReload
  <2> HIDE DEF n, a
  <2>4. lmPage' \in LmPageOf /\ lmPage'.at = a /\ lmPage'.loads = n
    BY <2>1, <2>2, <2>3 DEF LmPageOf
  <2>5. lmHist.load \in Nat
    BY DEF LmHistOf
  <2>6. LmSourceKept'
    BY <1>1, <2>1, <2>2, <2>3, <2>4, <2>5 DEF LmSourceKept, LmRegenerated
  <2>7. ReplayShowsRun'
    BY <2>2, <2>4 DEF ReplayShowsRun
  <2> QED BY <1>1, <1>2, <1>3, <2>3, <2>4, <2>6, <2>7
<1>5. CASE LmLeave
  <2>1. lmPage' \in LmPageOf /\ lmPage'.at = "select" /\ lmPage'.loads = lmPage.loads /\ lmWasm' = lmWasm
    BY <1>5 DEF LmLeave, LmPageOf
  <2> QED BY <1>1, <1>2, <1>3, <2>1 DEF LmSourceKept, ReplayShowsRun, LmRegenerated
<1>6. CASE LmRestore
  <2>1. /\ lmPage' \in LmPageOf /\ lmPage'.at = "booting" /\ lmPage'.loads = lmPage.loads /\ lmWasm' = lmWasm
        /\ lmPage.at = "game"
    BY <1>6 DEF LmRestore, LmPageOf
  <2> QED BY <1>1, <1>2, <1>3, <2>1 DEF LmSourceKept, ReplayShowsRun, LmRegenerated
<1> QED BY <1>4, <1>5, <1>6

LEMMA LmBooting == ASSUME LevelInv, LmBoot PROVE LevelInv'
<1> USE DEF LevelInv, LmTypeOK
<1> DEFINE l == lmHist.level
           h == lmHist.answer = "ignored"
           t == IF lmWasm = "wasm" THEN 2 ELSE 1
           c == lmHist.load # lmPage.loads /\ lmHist.by # lmWasm
<1>1. l \in LmLevels /\ lmPage.at = "booting" /\ lmWasm \in LmEngines
  BY DEF LmBoot, LmSourceKept
<1>2. PICK d \in LmSite(l).decoys : lmGame' = LmStarted(l, d, h)
  BY DEF LmBoot
<1>3. d \in SUBSET LmBoard
  BY <1>1, <1>2, LmBoardSites
<1>4. /\ lmGame' \in LmGameOf /\ lmGame'.level = l
      /\ lmGame'.placeable = LmPlaceable(lmGame'.level, lmGame'.decoys)
      /\ lmGame'.walk = LmWalk(lmGame'.level, lmGame'.decoys, lmGame'.concealed)
      /\ lmGame'.cursor \in lmGame'.walk \cup {LmNowhere} /\ lmGame'.towers = {}
  <2>1. h \in BOOLEAN
    OBVIOUS
  <2> HIDE DEF h, l
  <2> QED BY <1>1, <1>2, <1>3, <2>1, LmStarts
<1>5. LmBoardKept'
  BY <1>1, <1>4 DEF LmBoardKept
<1>6. lmPage' \in LmPageOf /\ lmPage'.at = "game" /\ lmPage'.loads = lmPage.loads
  BY DEF LmBoot, LmPageOf
<1>7. lmRow' = [tag |-> t, level |-> l, crossed |-> c]
  BY DEF LmBoot
<1>8. /\ c \in BOOLEAN /\ t \in {1, 2} /\ l \in LmLevelOf
      /\ ~c => l = LmRegenerated(t)
  BY <1>1 DEF LmSourceKept, LmRegenerated, LmEngines, LmLevelOf
<1>9. lmMade' = lmMade /\ lmWasm' = lmWasm /\ lmHist' = lmHist
  BY DEF LmBoot
<1> HIDE DEF t, c
<1>10. lmRow' \in LmRowOf /\ lmRow'.tag = t /\ lmRow'.level = l /\ lmRow'.crossed = c
  BY <1>7, <1>8 DEF LmRowOf
<1>11. LmSourceKept'
  BY <1>1, <1>6, <1>8, <1>9, <1>10 DEF LmSourceKept, LmRegenerated
<1>12. ReplayShowsRun'
  BY <1>6 DEF ReplayShowsRun
<1> QED BY <1>4, <1>5, <1>6, <1>9, <1>10, <1>11, <1>12

LEMMA LmReplaying == ASSUME LevelInv, LmReplayBoot PROVE LevelInv'
<1> USE DEF LevelInv, LmTypeOK
<1> DEFINE l == LmRegenerated(lmRow.tag)
           refused == (lmRow.tag = 2 /\ lmWasm # "wasm") \/ l = LmNoLevel
<1>1. lmRow.tag # 0 /\ lmPage.at = "replaying" /\ lmMade' = lmMade /\ lmWasm' = lmWasm /\ lmHist' = lmHist /\ lmRow' = lmRow
  BY DEF LmReplayBoot, LmSourceKept
<1>2. /\ lmPage' = [lmPage EXCEPT !.at = IF refused THEN "refused" ELSE "replay"]
      /\ \E d \in IF refused THEN {{}} ELSE LmSite(l).decoys :
            lmGame' = IF refused THEN lmGame ELSE LmStarted(l, d, TRUE)
  BY DEF LmReplayBoot
<1>3. l \in LmLevelOf
  BY DEF LmRegenerated, LmEngines
<1> HIDE DEF l
<1>4. CASE refused
  <2>1. lmGame' = lmGame /\ lmPage' = [lmPage EXCEPT !.at = "refused"]
    BY <1>2, <1>4
  <2>2. lmPage' \in LmPageOf /\ lmPage'.at = "refused" /\ lmPage'.loads = lmPage.loads
    BY <2>1 DEF LmPageOf
  <2> QED BY <1>1, <2>1, <2>2 DEF LmBoardKept, LmSourceKept, ReplayShowsRun, LmRegenerated
<1>5. CASE ~refused
  <2>1. l \in LmLevels
    BY <1>3, <1>5 DEF LmLevelOf
  <2>2. PICK d \in LmSite(l).decoys : lmGame' = LmStarted(l, d, TRUE)
    BY <1>2, <1>5
  <2>3. d \in SUBSET LmBoard
    BY <2>1, <2>2, LmBoardSites
  <2>4. /\ lmGame' \in LmGameOf /\ lmGame'.level = l
        /\ lmGame'.placeable = LmPlaceable(lmGame'.level, lmGame'.decoys)
        /\ lmGame'.walk = LmWalk(lmGame'.level, lmGame'.decoys, lmGame'.concealed)
        /\ lmGame'.cursor \in lmGame'.walk \cup {LmNowhere} /\ lmGame'.towers = {}
    BY <2>1, <2>2, <2>3, LmStarts
  <2>5. lmPage' = [lmPage EXCEPT !.at = "replay"]
    BY <1>2, <1>5
  <2>6. lmPage' \in LmPageOf /\ lmPage'.at = "replay" /\ lmPage'.loads = lmPage.loads
    BY <2>5 DEF LmPageOf
  <2>7. LmSourceKept'
    BY <1>1, <2>6 DEF LmSourceKept, LmRegenerated
  <2>8. ReplayShowsRun'
    BY <1>1, <2>4 DEF ReplayShowsRun, LmSourceKept, l
  <2> QED BY <1>1, <2>1, <2>4, <2>6, <2>7, <2>8 DEF LmBoardKept
<1> QED BY <1>4, <1>5

\* A step of a game changes what is on its board, and nothing else.
LEMMA LmBoardSteps ==
  ASSUME LevelInv, UNCHANGED <<lmMade, lmWasm, lmPage, lmHist, lmRow>>, lmPage.at = "game",
         lmGame' \in LmGameOf, LmBoardKept'
  PROVE  LevelInv'
BY DEF LevelInv, LmTypeOK, LmSourceKept, ReplayShowsRun, LmRegenerated

LEMMA LmTowersStep == ASSUME LevelInv, LmHold \/ LmClick \/ LmEnter PROVE LevelInv'
<1>1. /\ UNCHANGED <<lmMade, lmWasm, lmPage, lmHist, lmRow>> /\ lmPage.at = "game"
      /\ lmGame \in LmGameOf /\ LmBoardKept
  BY DEF LevelInv, LmTypeOK, LmHold, LmClick, LmEnter, LmPlaced, LmPlaying
<1>2. lmGame.towers \subseteq lmGame.placeable
  BY DEF LevelInv, LmBoardKept, LmHold, LmClick, LmEnter, LmPlaced, LmPlaying
<1>3. PICK h \in BOOLEAN, ts \in SUBSET LmBoard :
        /\ ts \subseteq lmGame.placeable
        /\ lmGame' = [lmGame EXCEPT !.towers = ts, !.held = h]
  <2>1. CASE LmHold
    <3>1. lmGame' = [lmGame EXCEPT !.held = ~lmGame.held]
      BY <2>1 DEF LmHold
    <3> DEFINE h == ~lmGame.held
               ts == lmGame.towers
    <3>2. h \in BOOLEAN /\ ts \in SUBSET LmBoard
      BY <1>1 DEF LmGameOf
    <3>3. lmGame' = [lmGame EXCEPT !.towers = ts, !.held = h]
      BY <1>1, <3>1 DEF LmGameOf
    <3>4. ts \subseteq lmGame.placeable
      BY <1>2
    <3> HIDE DEF h, ts
    <3> QED BY <3>2, <3>3, <3>4
  <2>2. CASE LmClick \/ LmEnter
    <3>1. PICK p : p \in lmGame.placeable /\ lmGame' = [lmGame EXCEPT !.towers = lmGame.towers \cup {p}, !.held = FALSE]
      BY <2>2 DEF LmClick, LmEnter, LmPlaced
    <3> DEFINE ts == lmGame.towers \cup {p}
    <3>2. ts \in SUBSET LmBoard
      BY <1>1, <3>1 DEF LmGameOf
    <3>4. ts \subseteq lmGame.placeable
      BY <1>2, <3>1
    <3> HIDE DEF ts
    <3>3. lmGame' = [lmGame EXCEPT !.towers = ts, !.held = FALSE]
      BY <3>1 DEF ts
    <3> QED BY <3>2, <3>3, <3>4
  <2> QED BY <2>1, <2>2
<1>4. /\ lmGame' \in LmGameOf /\ (lmGame'.on = lmGame.on) /\ lmGame'.level = lmGame.level
      /\ lmGame'.decoys = lmGame.decoys /\ (lmGame'.concealed = lmGame.concealed)
      /\ lmGame'.placeable = lmGame.placeable /\ lmGame'.walk = lmGame.walk /\ lmGame'.cursor = lmGame.cursor
      /\ lmGame'.towers \subseteq lmGame.placeable
  BY <1>1, <1>3 DEF LmGameOf
<1>5. LmBoardKept'
  BY <1>1, <1>4 DEF LmBoardKept
<1> QED BY <1>1, <1>4, <1>5, LmBoardSteps

LEMMA LmCursorStep == ASSUME LevelInv, LmArrow PROVE LevelInv'
<1>1. /\ UNCHANGED <<lmMade, lmWasm, lmPage, lmHist, lmRow>> /\ lmPage.at = "game" /\ lmGame.on /\ lmGame.walk # {}
      /\ lmGame \in LmGameOf /\ LmBoardKept
  BY DEF LevelInv, LmTypeOK, LmArrow, LmPlaying
<1>2. PICK d : lmGame' = [lmGame EXCEPT !.keys = @ + 1,
                 !.cursor = IF @ = LmNowhere THEN LmFirst(lmGame.walk) ELSE LmStep(@, lmGame.walk, d)]
  BY DEF LmArrow
<1> DEFINE k == lmGame.keys + 1
           c == IF lmGame.cursor = LmNowhere THEN LmFirst(lmGame.walk) ELSE LmStep(lmGame.cursor, lmGame.walk, d)
<1>3. k \in Nat /\ lmGame.walk \in SUBSET LmBoard
  BY <1>1 DEF LmGameOf
<1>4. c \in lmGame.walk
  BY <1>1, <1>3, LmFirstIn, LmSteps DEF LmBoardKept
<1>5. lmGame' = [lmGame EXCEPT !.keys = k, !.cursor = c]
  BY <1>2
<1>6. c \in LmBoard \cup {LmNowhere}
  BY <1>3, <1>4
<1> HIDE DEF k, c
<1>7. /\ lmGame' \in LmGameOf /\ (lmGame'.on = lmGame.on) /\ lmGame'.level = lmGame.level
      /\ lmGame'.decoys = lmGame.decoys /\ (lmGame'.concealed = lmGame.concealed)
      /\ lmGame'.placeable = lmGame.placeable /\ lmGame'.walk = lmGame.walk /\ lmGame'.cursor = c
      /\ lmGame'.towers = lmGame.towers
  BY <1>1, <1>3, <1>5, <1>6 DEF LmGameOf
<1>8. LmBoardKept'
  BY <1>1, <1>4, <1>7 DEF LmBoardKept
<1> QED BY <1>1, <1>7, <1>8, LmBoardSteps

LEMMA LmPhaseStep == ASSUME LevelInv, LmWave \/ LmBuild \/ LmEnd PROVE LevelInv'
<1>1. /\ UNCHANGED <<lmMade, lmWasm, lmPage, lmHist, lmRow>> /\ lmPage.at = "game" /\ lmGame.on
      /\ lmGame \in LmGameOf /\ LmBoardKept
  BY DEF LevelInv, LmTypeOK, LmWave, LmBuild, LmEnd, LmPlaying
<1>2. CASE LmWave
  <2>1. lmGame' = [lmGame EXCEPT !.phase = "wave", !.cursor = LmNowhere]
    BY <1>2 DEF LmWave
  <2>2. /\ lmGame' \in LmGameOf /\ (lmGame'.on = lmGame.on) /\ lmGame'.level = lmGame.level
        /\ lmGame'.decoys = lmGame.decoys /\ (lmGame'.concealed = lmGame.concealed)
        /\ lmGame'.placeable = lmGame.placeable /\ lmGame'.walk = lmGame.walk /\ lmGame'.cursor = LmNowhere
        /\ lmGame'.towers = lmGame.towers
    BY <1>1, <2>1 DEF LmGameOf
  <2>3. LmBoardKept'
    BY <1>1, <2>2 DEF LmBoardKept
  <2> QED BY <1>1, <2>2, <2>3, LmBoardSteps
<1>3. CASE LmBuild
  <2> DEFINE w == LmWalk(lmGame.level, lmGame.decoys, lmGame.concealed)
             c == LmSeen(lmGame.keys, w)
  <2>1. lmGame' = [lmGame EXCEPT !.phase = "build", !.walk = w, !.cursor = c]
    BY <1>3 DEF LmBuild
  <2>2. w \in SUBSET LmBoard /\ w = lmGame.walk
    BY <1>1 DEF LmBoardKept, LmGameOf
  <2>3. c \in w \cup {LmNowhere}
    <3> HIDE DEF w
    <3> QED BY <2>2, LmShownCursor
  <2>4. c \in LmBoard \cup {LmNowhere}
    BY <2>2, <2>3
  <2> HIDE DEF w, c
  <2>5. /\ lmGame' \in LmGameOf /\ (lmGame'.on = lmGame.on) /\ lmGame'.level = lmGame.level
        /\ lmGame'.decoys = lmGame.decoys /\ (lmGame'.concealed = lmGame.concealed)
        /\ lmGame'.placeable = lmGame.placeable /\ lmGame'.walk = w /\ lmGame'.cursor = c
        /\ lmGame'.towers = lmGame.towers
    BY <1>1, <2>1, <2>2, <2>4 DEF LmGameOf
  <2>6. LmBoardKept'
    BY <1>1, <2>2, <2>3, <2>5 DEF LmBoardKept
  <2> QED BY <1>1, <2>5, <2>6, LmBoardSteps
<1>4. CASE LmEnd
  <2>1. lmGame' = [lmGame EXCEPT !.phase = "end", !.on = FALSE]
    BY <1>4 DEF LmEnd
  <2>2. lmGame' \in LmGameOf /\ lmGame'.on = FALSE
    BY <1>1, <2>1 DEF LmGameOf
  <2>3. LmBoardKept'
    BY <2>2 DEF LmBoardKept
  <2> QED BY <1>1, <2>2, <2>3, LmBoardSteps
<1> QED BY <1>2, <1>3, <1>4

LEMMA LmStepKeeps == ASSUME LevelInv, [LmNext]_lmVars PROVE LevelInv'
<1>1. CASE UNCHANGED lmVars
  BY <1>1 DEF lmVars, LevelInv, LmTypeOK, LmBoardKept, LmSourceKept, ReplayShowsRun, LmRegenerated
<1>2. CASE LmNext
  BY <1>2, LmPages, LmGone, LmBooting, LmReplaying, LmTowersStep, LmCursorStep, LmPhaseStep DEF LmNext
<1> QED BY <1>1, <1>2

LEMMA LmAgreed == ASSUME LevelInv PROVE LevelAgrees
<1>1. ReplayShowsRun
  BY DEF LevelInv
<1>2. ASSUME lmGame.on, ~lmGame.concealed
      PROVE  /\ LmPainted(lmGame.level, lmGame.decoys) \subseteq lmGame.placeable
             /\ lmGame.cursor # LmNowhere => lmGame.cursor \in lmGame.placeable
  <2>1. /\ lmGame.placeable = LmPlaceable(lmGame.level, lmGame.decoys)
        /\ lmGame.walk = LmWalk(lmGame.level, lmGame.decoys, FALSE)
        /\ lmGame.level \in LmLevels /\ lmGame.cursor \in lmGame.walk \cup {LmNowhere}
    BY <1>2 DEF LevelInv, LmBoardKept, LmWalk
  <2>2. /\ LmWalk(lmGame.level, lmGame.decoys, FALSE) = LmPlaceable(lmGame.level, lmGame.decoys)
        /\ LmPainted(lmGame.level, lmGame.decoys) \subseteq LmPlaceable(lmGame.level, lmGame.decoys)
    BY <2>1, LmCells
  <2> QED BY <2>1, <2>2
<1>3. ASSUME lmGame.on
      PROVE  lmGame.towers \subseteq LmLegal(lmGame.level, lmGame.decoys)
  BY <1>3 DEF LevelInv, LmBoardKept, LmPlaceable
<1>4. BoardAgrees
  BY <1>2, <1>3 DEF BoardAgrees
<1> QED BY <1>1, <1>4 DEF LevelAgrees

(***************************************************************************)
(* THE HUD                                                                 *)
(***************************************************************************)
LEMMA HuInitial == ASSUME HuInit PROVE HudInv
BY HuAssumption
DEF HuInit, HudInv, HuTypeOK, HuEngOf, HuStoreOf, HuPageOf, HuPhases, HuCpOf, HuInitialState, HuBlank,
    HuNoCheckpoint, HuWorth, HuRunSound, HuKept, HudMirrors

LEMMA HuNone == HuNoCheckpoint \in HuCpOf /\ HuWorth(HuNoCheckpoint) /\ HuNoCheckpoint.wave = 0
BY DEF HuNoCheckpoint, HuCpOf, HuWorth

LEMMA HuUnbinds ==
  ASSUME NEW s \in HuStoreOf
  PROVE  /\ HuUnbound(s) \in HuStoreOf /\ HuUnbound(s).cp = HuNoCheckpoint
         /\ HuUnbound(s).foes = s.foes /\ HuUnbound(s).cool = s.cool
BY HuNone DEF HuUnbound, HuStoreOf

\* While another page is shown, or the engine is built, nothing is promised but the checkpoint asked for.
LEMMA HuPageMoves ==
  ASSUME HudInv, HuOpen \/ HuBootFails \/ HuRetry \/ HuResume \/ HuLeave
  PROVE  HudInv'
<1> USE DEF HudInv, HuTypeOK
<1>1. huEng' \in HuEngOf /\ huStore' \in HuStoreOf
  <2>1. HuUnbound(huStore) \in HuStoreOf
    BY HuUnbinds
  <2> QED BY <2>1 DEF HuOpen, HuBootFails, HuRetry, HuResume, HuLeave
<1>2. huPage' \in HuPageOf /\ huPage'.at # "game"
  <2> DEFINE n == huPage.boots + 1
  <2>1. n \in Nat /\ HuNoCheckpoint \in HuCpOf /\ huStore.cp \in HuCpOf
    BY DEF HuPageOf, HuStoreOf, HuNoCheckpoint, HuCpOf
  <2> HIDE DEF n
  <2>2. CASE HuOpen
    <3>1. PICK star \in {1, 5}, paid \in BOOLEAN, slider \in BOOLEAN :
            huPage' = [huPage EXCEPT !.at = "boot", !.boots = n, !.star = star, !.paid = paid, !.slider = slider,
                                     !.asked = HuNoCheckpoint]
      BY <2>2 DEF HuOpen, n
    <3> QED BY <2>1, <3>1 DEF HuPageOf
  <2>3. CASE HuBootFails
    BY <2>3 DEF HuBootFails, HuPageOf
  <2>4. CASE HuRetry
    <3>1. huPage' = [huPage EXCEPT !.at = "boot", !.boots = n]
      BY <2>4 DEF HuRetry, n
    <3> QED BY <2>1, <3>1 DEF HuPageOf
  <2>5. CASE HuResume
    <3>1. huPage' = [huPage EXCEPT !.at = "boot", !.boots = n, !.asked = huStore.cp, !.armed = FALSE]
      BY <2>5 DEF HuResume, n
    <3> QED BY <2>1, <3>1 DEF HuPageOf
  <2>6. CASE HuLeave
    BY <2>6 DEF HuLeave, HuPageOf
  <2> QED BY <2>2, <2>3, <2>4, <2>5, <2>6
<1>3. HuWorth(huPage'.asked)
  <2>1. CASE HuResume
    <3>1. HuWorth(huStore.cp)
      BY <2>1 DEF HuResume, HuPlaying, HuKept, HudMirrors, HuShown
    <3> QED BY <2>1, <3>1 DEF HuResume, HuPageOf
  <2>2. CASE HuOpen \/ HuBootFails \/ HuRetry \/ HuLeave
    <3>1. huPage'.asked \in {huPage.asked, HuNoCheckpoint}
      BY <2>2 DEF HuOpen, HuBootFails, HuRetry, HuLeave, HuPageOf
    <3> QED BY <3>1 DEF HuWorth
  <2> QED BY <2>1, <2>2
<1> QED BY <1>1, <1>2, <1>3 DEF HuRunSound, HuKept, HudMirrors, HuWorth

LEMMA HuShownFields ==
  ASSUME NEW s, NEW e
  PROVE  HuShown(s) = HuShown(e) <=>
           /\ s.phase = e.phase /\ s.star = e.star /\ s.wave = e.wave /\ s.hp = e.hp /\ s.origin = e.origin
           /\ s.gold = e.gold /\ s.kills = e.kills /\ s.value = e.value
BY DEF HuShown

\* The store says of the engine what the engine says of itself, its other fields kept.
LEMMA HuSyncs ==
  ASSUME NEW s \in HuStoreOf, NEW e \in HuEngOf
  PROVE  /\ HuSynced(s, e) \in HuStoreOf /\ HuShown(HuSynced(s, e)) = HuShown(e)
         /\ HuSynced(s, e).cp = s.cp
<1> DEFINE ph == e.phase  st == e.star  w == e.wave  g == e.gold  h == e.hp  k == e.kills  v == e.value
           c == e.cost  o == e.origin
<1>1. /\ ph \in HuPhases /\ st \in {1, 5} /\ w \in Nat /\ g \in Int /\ h \in Int /\ k \in Nat /\ v \in Int
      /\ c \in Int /\ o \in Int
  BY DEF HuEngOf
<1>2. HuSynced(s, e) = [s EXCEPT !.phase = ph, !.star = st, !.wave = w, !.gold = g, !.hp = h, !.kills = k,
                                 !.value = v, !.cost = c, !.origin = o]
  BY DEF HuSynced
<1>3. HuShown(e) = [phase |-> ph, star |-> st, wave |-> w, hp |-> h, origin |-> o, gold |-> g, kills |-> k, value |-> v]
  BY DEF HuShown
<1> HIDE DEF ph, st, w, g, h, k, v, c, o
<1>4. HuSynced(s, e) \in HuStoreOf
  BY <1>1, <1>2 DEF HuStoreOf
<1>5. HuShown(HuSynced(s, e)) = HuShown(e) /\ HuSynced(s, e).cp = s.cp
  BY <1>1, <1>2, <1>3 DEF HuStoreOf, HuShown
<1> QED BY <1>4, <1>5

LEMMA HuBegun ==
  ASSUME NEW star \in {1, 5}, NEW paid \in BOOLEAN
  PROVE  LET e == HuStarted(star, paid) IN
           /\ e \in HuEngOf /\ e.phase = "BUILD" /\ e.star = star /\ e.wave = 0 /\ e.gold = HuGold /\ e.hp = HuHp
           /\ e.kills = 0 /\ e.value = 0 /\ e.origin = HuHp
<1> DEFINE i == HuInitialState
           c == IF paid THEN 1 ELSE 0
           e == HuStarted(star, paid)
<1>1. /\ i \in HuEngOf /\ i.wave = 0 /\ i.gold = HuGold /\ i.hp = HuHp
      /\ i.kills = 0 /\ i.value = 0 /\ i.origin = HuHp
  BY HuAssumption DEF HuInitialState, HuEngOf, HuPhases
<1>2. c \in Int /\ e = [i EXCEPT !.phase = "BUILD", !.star = star, !.cost = c]
  BY DEF HuStarted
<1> HIDE DEF i, c, e
<1> QED BY <1>1, <1>2 DEF e, HuEngOf, HuPhases

LEMMA HuLevelStarts ==
  ASSUME NEW s \in HuStoreOf, NEW star \in {1, 5}, NEW paid \in BOOLEAN
  PROVE  LET e == HuStarted(star, paid)
             x == HuLevelStart(HuBound(s, HuInitialState), e) IN
           x \in HuStoreOf /\ HuShown(x) = HuShown(e) /\ x.cp = HuNoCheckpoint
<1> DEFINE e == HuStarted(star, paid)
           y == HuSynced(HuUnbound(s), HuInitialState)
           z == HuBound(s, HuInitialState)
           x == HuLevelStart(z, e)
<1>1. HuUnbound(s) \in HuStoreOf /\ HuUnbound(s).cp = HuNoCheckpoint
  BY HuUnbinds
<1>2. HuInitialState \in HuEngOf
  BY HuAssumption DEF HuInitialState, HuEngOf, HuPhases
<1>3. y \in HuStoreOf /\ HuShown(y) = HuShown(HuInitialState) /\ y.cp = HuNoCheckpoint
  BY <1>1, <1>2, HuSyncs
<1>4. y.hp = HuHp
  BY <1>3, HuShownFields DEF HuInitialState
<1>5. z = [y EXCEPT !.bound = TRUE]
  BY DEF HuBound
<1>6. z \in HuStoreOf /\ z.hp = HuHp /\ z.cp = HuNoCheckpoint
  <2> HIDE DEF y, z
  <2> QED BY <1>3, <1>4, <1>5 DEF HuStoreOf
<1>7. /\ e \in HuEngOf /\ e.phase = "BUILD" /\ e.star = star /\ e.wave = 0 /\ e.gold = HuGold /\ e.hp = HuHp
      /\ e.kills = 0 /\ e.value = 0 /\ e.origin = HuHp
  BY HuBegun
<1> HIDE DEF e, y, z
<1>8. x = [z EXCEPT !.phase = e.phase, !.gold = e.gold, !.star = e.star, !.wave = 0, !.kills = 0, !.value = 0,
                    !.cost = 0, !.origin = e.origin, !.foes = 0, !.cool = FALSE]
  BY DEF HuLevelStart
<1> HIDE DEF x
<1> DEFINE ph == e.phase  g == e.gold  o == e.origin
<1>9. ph \in HuPhases /\ g \in Int /\ o \in Int /\ x = [z EXCEPT !.phase = ph, !.gold = g, !.star = star, !.wave = 0,
        !.kills = 0, !.value = 0, !.cost = 0, !.origin = o, !.foes = 0, !.cool = FALSE]
  BY <1>7, <1>8 DEF HuEngOf
<1>10. ph = "BUILD" /\ g = HuGold /\ o = HuHp
  BY <1>7
<1> HIDE DEF ph, g, o
<1>11. /\ x \in HuStoreOf /\ x.cp = z.cp /\ x.phase = ph /\ x.star = star /\ x.wave = 0 /\ x.hp = z.hp
       /\ x.origin = o /\ x.gold = g /\ x.kills = 0 /\ x.value = 0
  <2> DEFINE y1 == [z EXCEPT !.phase = ph, !.gold = g, !.star = star, !.origin = o, !.cool = FALSE]
             zero == 0
  <2>1. /\ y1 \in HuStoreOf /\ y1.cp = z.cp /\ y1.phase = ph /\ y1.star = star /\ y1.hp = z.hp
        /\ y1.origin = o /\ y1.gold = g
    BY <1>6, <1>9 DEF HuStoreOf
  <2>2. x = [y1 EXCEPT !.wave = zero, !.kills = zero, !.value = zero, !.cost = zero, !.foes = zero]
    BY <1>6, <1>9 DEF HuStoreOf
  <2>3. zero \in Nat /\ zero \in Int /\ zero = 0
    OBVIOUS
  <2> HIDE DEF y1, zero
  <2>4. /\ x \in HuStoreOf /\ x.cp = y1.cp /\ x.phase = y1.phase /\ x.star = y1.star /\ x.hp = y1.hp
        /\ x.origin = y1.origin /\ x.gold = y1.gold /\ x.wave = zero /\ x.kills = zero /\ x.value = zero
    BY <2>1, <2>2, <2>3 DEF HuStoreOf
  <2> QED BY <2>1, <2>3, <2>4
<1>12. HuShown(x) = HuShown(e)
  BY <1>6, <1>7, <1>10, <1>11, HuShownFields
<1> QED BY <1>6, <1>11, <1>12 DEF e, x, z

LEMMA HuRestores ==
  ASSUME NEW e \in HuEngOf, NEW cp \in HuCpOf, cp.wave >= 2
  PROVE  /\ HuRestored(e, cp) \in HuEngOf /\ HuRestored(e, cp).phase = e.phase
         /\ HuRestored(e, cp).hp = cp.hp /\ HuRestored(e, cp).origin = cp.hp
         /\ HuRestored(e, cp).wave = cp.wave - 1 /\ HuRestored(e, cp).value = cp.value
<1> DEFINE g == cp.gold  h == cp.hp  c == cp.cost  v == cp.value  w == cp.wave - 1
<1>1. g \in Int /\ h \in Int /\ c \in Int /\ v \in Int /\ w \in Nat
  BY DEF HuCpOf
<1>2. HuRestored(e, cp) =
        [e EXCEPT !.gold = g, !.hp = h, !.origin = h, !.cost = c, !.value = v, !.wave = w]
  BY DEF HuRestored
<1>3. /\ HuRestored(e, cp) \in HuEngOf /\ HuRestored(e, cp).phase = e.phase
      /\ HuRestored(e, cp).hp = h /\ HuRestored(e, cp).origin = h
      /\ HuRestored(e, cp).wave = w /\ HuRestored(e, cp).value = v
  <2> HIDE DEF g, h, c, v, w
  <2> QED BY <1>1, <1>2 DEF HuEngOf
<1> QED BY <1>3

LEMMA HuBooting == ASSUME HudInv, HuBooted PROVE HudInv'
<1> DEFINE begun == HuStarted(huPage.star, huPage.paid)
           store == HuLevelStart(HuBound(huStore, HuInitialState), begun)
           cp == huPage.asked
           as == IF huPage.slider THEN "practice" ELSE "class"
<1>1. /\ huEng' = IF cp = HuNoCheckpoint THEN begun ELSE HuRestored(begun, cp)
      /\ huStore' = IF cp = HuNoCheckpoint THEN store ELSE HuResumedFrom(store, huEng', cp)
      /\ huPage' = [huPage EXCEPT !.at = "game", !.asked = HuNoCheckpoint, !.note = "idle", !.session = as]
  BY DEF HuBooted
<1>2. /\ cp \in HuCpOf /\ huPage.star \in {1, 5} /\ huPage.paid \in BOOLEAN /\ HuWorth(cp)
      /\ huPage \in HuPageOf /\ huStore \in HuStoreOf /\ as \in {"practice", "class"}
  BY DEF HudInv, HuTypeOK, HuPageOf
<1>3. /\ begun \in HuEngOf /\ begun.phase = "BUILD" /\ begun.hp = HuHp /\ begun.origin = HuHp /\ begun.wave = 0
      /\ begun.value = 0
  BY <1>2, HuBegun
<1>4. store \in HuStoreOf /\ HuShown(store) = HuShown(begun) /\ store.cp = HuNoCheckpoint
  BY <1>2, HuLevelStarts
<1> HIDE DEF begun, store, cp, as
<1>5. huPage' \in HuPageOf /\ huPage'.at = "game" /\ huPage'.asked = HuNoCheckpoint
  BY <1>1, <1>2, HuNone DEF HuPageOf
<1>6. CASE cp = HuNoCheckpoint
  <2>1. huEng' = begun /\ huStore' = store
    BY <1>1, <1>6
  <2>2. HuRunSound' /\ HuKept'
    BY <1>3, <1>4, <2>1, HuNone, HuAssumption DEF HuRunSound, HuKept, HuKeptWave
  <2> QED BY <1>3, <1>4, <1>5, <2>1, <2>2, HuNone DEF HudInv, HuTypeOK, HudMirrors
<1>7. CASE cp # HuNoCheckpoint
  <2>1. huEng' = HuRestored(begun, cp) /\ huStore' = HuResumedFrom(store, huEng', cp)
    BY <1>1, <1>7
  <2>2. cp.wave >= 2 /\ cp.hp > 0 /\ cp.wave \in Nat /\ cp.hp \in Int /\ cp.value \in Int
    BY <1>2, <1>7 DEF HuWorth, HuCpOf
  <2>3. /\ huEng' \in HuEngOf /\ huEng'.phase = "BUILD" /\ huEng'.hp = cp.hp /\ huEng'.origin = cp.hp
        /\ huEng'.wave = cp.wave - 1 /\ huEng'.value = cp.value
    BY <1>2, <1>3, <2>1, <2>2, HuRestores
  <2> DEFINE synced == HuSynced(store, huEng')
  <2>4. synced \in HuStoreOf /\ HuShown(synced) = HuShown(huEng')
    BY <1>4, <2>3, HuSyncs
  <2> HIDE DEF synced
  <2>5. huStore' = [synced EXCEPT !.resumed = TRUE, !.cp = cp]
    BY <2>1 DEF HuResumedFrom, synced
  <2>6. huStore' \in HuStoreOf /\ HuShown(huStore') = HuShown(synced) /\ huStore'.cp = cp
    BY <1>2, <2>4, <2>5 DEF HuStoreOf, HuShown
  <2>7. HuKept'
    BY <1>2, <2>2, <2>3, <2>6 DEF HuKept, HuKeptWave
  <2>8. HuRunSound'
    BY <2>2, <2>3 DEF HuRunSound
  <2> QED BY <1>5, <2>3, <2>4, <2>6, <2>7, <2>8, HuNone DEF HudInv, HuTypeOK, HudMirrors
<1> QED BY <1>6, <1>7

\* What a step of a run leaves alone.
LEMMA HuSteps ==
  ASSUME HudInv, huPage.at = "game", huPage' \in HuPageOf, huPage'.at = "game", huPage'.asked = huPage.asked,
         huEng' \in HuEngOf, huStore' \in HuStoreOf, HuShown(huStore') = HuShown(huEng'),
         huEng'.star = huEng.star, huEng'.origin = huEng.origin,
         HuRunSound', HuKept'
  PROVE  HudInv'
BY DEF HudInv, HuTypeOK, HudMirrors

\* A step within a phase, in which nothing but gold, health, kills and the price of what was
\* killed moves.
LEMMA HuWithin ==
  ASSUME HudInv, huPage.at = "game", huPage' \in HuPageOf, huPage'.at = "game", huPage'.asked = huPage.asked,
         huEng' \in HuEngOf, huStore' \in HuStoreOf, HuShown(huStore') = HuShown(huEng'),
         huEng'.star = huEng.star, huEng'.origin = huEng.origin, huEng'.wave = huEng.wave,
         huEng'.phase = huEng.phase, huEng'.hp = huEng.hp, huEng'.value >= huEng.value,
         huStore'.cp = huStore.cp
  PROVE  HudInv'
<1>1. HuRunSound'
  BY DEF HudInv, HuRunSound
<1>2. HuKept'
  BY DEF HudInv, HuTypeOK, HuKept, HuKeptWave, HuEngOf, HuStoreOf, HuCpOf
<1> QED BY HuSteps, <1>1, <1>2

LEMMA HuFighting ==
  ASSUME HudInv, HuSpawn \/ HuKill \/ HuBury \/ HuRecharged \/ HuTick
  PROVE  HudInv'
<1>1. huPage.at = "game" /\ huPage' = huPage
  BY DEF HuSpawn, HuKill, HuBury, HuRecharged, HuTick, HuPlaying
<1>2. huEng \in HuEngOf /\ huStore \in HuStoreOf /\ huPage \in HuPageOf /\ HuShown(huStore) = HuShown(huEng)
  BY <1>1 DEF HudInv, HuTypeOK, HudMirrors
<1>3. /\ huEng.alive \in Nat /\ huEng.dying \in Nat /\ huEng.left \in Nat /\ huEng.kills \in Nat
      /\ huEng.value \in Int /\ huEng.gold \in Int
  BY <1>2 DEF HuEngOf
<1> SUFFICES /\ huEng' \in HuEngOf
             /\ huEng'.star = huEng.star /\ huEng'.origin = huEng.origin /\ huEng'.wave = huEng.wave
             /\ huEng'.phase = huEng.phase /\ huEng'.hp = huEng.hp /\ huEng'.value >= huEng.value
             /\ huStore' \in HuStoreOf /\ HuShown(huStore') = HuShown(huEng') /\ huStore'.cp = huStore.cp
  BY HuWithin, <1>1, <1>2
<1>4. CASE HuSpawn
  <2> DEFINE l == huEng.left - 1
             a == huEng.alive + 1
             f == HuListed(huEng')
  <2>1. l \in Nat /\ a \in Nat /\ huEng' = [huEng EXCEPT !.left = l, !.alive = a]
    BY <1>3, <1>4 DEF HuSpawn
  <2> HIDE DEF l, a
  <2>2. /\ huEng' \in HuEngOf
        /\ huEng'.star = huEng.star /\ huEng'.origin = huEng.origin /\ huEng'.wave = huEng.wave
        /\ huEng'.phase = huEng.phase /\ huEng'.hp = huEng.hp /\ huEng'.value = huEng.value
        /\ huEng'.kills = huEng.kills /\ huEng'.gold = huEng.gold
    BY <1>2, <2>1 DEF HuEngOf
  <2>3. f \in Nat
    BY <2>2 DEF HuListed, HuEngOf
  <2>4. huStore' = [huStore EXCEPT !.foes = f]
    BY <1>4 DEF HuSpawn
  <2> HIDE DEF f
  <2>5. huStore' \in HuStoreOf /\ HuShown(huStore') = HuShown(huStore) /\ huStore'.cp = huStore.cp
    BY <1>2, <2>3, <2>4 DEF HuStoreOf, HuShown
  <2> QED BY <1>2, <1>3, <2>2, <2>5, HuShownFields
<1>5. CASE HuKill
  <2> DEFINE a == huEng.alive - 1
             d == huEng.dying + 1
             k == huEng.kills + 1
             v == huEng.value + 1
             g == huEng.gold + 1
             f == HuListed(huEng')
  <2>1. /\ a \in Nat /\ d \in Nat /\ k \in Nat /\ v \in Int /\ g \in Int /\ v >= huEng.value
        /\ huEng' = [huEng EXCEPT !.alive = a, !.dying = d, !.kills = k, !.value = v, !.gold = g]
    BY <1>3, <1>5 DEF HuKill
  <2> HIDE DEF a, d, k, v, g
  <2>2. /\ huEng' \in HuEngOf /\ huEng'.star = huEng.star /\ huEng'.origin = huEng.origin
        /\ huEng'.wave = huEng.wave /\ huEng'.phase = huEng.phase /\ huEng'.hp = huEng.hp
        /\ huEng'.value = v /\ huEng'.kills = k /\ huEng'.gold = g
    BY <1>2, <2>1 DEF HuEngOf
  <2>3. f \in Nat
    BY <2>2 DEF HuListed, HuEngOf
  <2>4. huStore' = [huStore EXCEPT !.kills = k, !.value = v, !.gold = g, !.foes = f]
    BY <1>5, <2>2 DEF HuKill
  <2> HIDE DEF f
  <2>5. /\ huStore' \in HuStoreOf /\ huStore'.cp = huStore.cp /\ huStore'.star = huStore.star
        /\ huStore'.origin = huStore.origin /\ huStore'.wave = huStore.wave /\ huStore'.phase = huStore.phase
        /\ huStore'.hp = huStore.hp /\ huStore'.value = v /\ huStore'.kills = k /\ huStore'.gold = g
    BY <1>2, <2>1, <2>3, <2>4 DEF HuStoreOf
  <2>6. HuShown(huStore') = HuShown(huEng')
    BY <1>2, <2>2, <2>5, HuShownFields
  <2> QED BY <2>1, <2>2, <2>5, <2>6
<1>6. CASE HuBury
  <2> DEFINE d == huEng.dying - 1
  <2>1. d \in Nat /\ huEng' = [huEng EXCEPT !.dying = d] /\ huStore' = huStore
    BY <1>3, <1>6 DEF HuBury
  <2> HIDE DEF d
  <2> QED BY <1>2, <1>3, <2>1, HuShownFields DEF HuEngOf
<1>7. CASE HuRecharged
  <2>1. huEng' = [huEng EXCEPT !.cool = FALSE] /\ huStore' = huStore
    BY <1>7 DEF HuRecharged
  <2>2. huEng' \in HuEngOf
    BY <1>2, <2>1 DEF HuEngOf
  <2>3. HuShown(huEng') = HuShown(huEng)
    BY <1>2, <2>1 DEF HuEngOf, HuShown
  <2>4. /\ huEng'.star = huEng.star /\ huEng'.origin = huEng.origin /\ huEng'.wave = huEng.wave
        /\ huEng'.phase = huEng.phase /\ huEng'.hp = huEng.hp /\ huEng'.value = huEng.value
    BY <1>2, <2>1 DEF HuEngOf
  <2> QED BY <1>2, <1>3, <2>1, <2>2, <2>3, <2>4
<1>8. CASE HuTick
  <2>1. huEng.cool \in BOOLEAN /\ huEng' = huEng /\ huStore' = [huStore EXCEPT !.cool = huEng.cool]
    BY <1>2, <1>8 DEF HuTick, HuEngOf
  <2>2. huStore' \in HuStoreOf /\ HuShown(huStore') = HuShown(huStore) /\ huStore'.cp = huStore.cp
    BY <1>2, <2>1 DEF HuStoreOf, HuShown
  <2> QED BY <1>2, <1>3, <2>1, <2>2
<1> QED BY <1>4, <1>5, <1>6, <1>7, <1>8

LEMMA HuBars ==
  ASSUME HudInv, HuPick \/ HuArm \/ HuReflect \/ HuReflected
  PROVE  HudInv'
<1>1. UNCHANGED <<huEng, huStore>> /\ huPage'.at = huPage.at /\ huPage'.asked = huPage.asked /\ huPage' \in HuPageOf
  BY DEF HuPick, HuArm, HuReflect, HuReflected, HudInv, HuTypeOK, HuPageOf
<1> QED BY <1>1 DEF HudInv, HuTypeOK, HuRunSound, HuKept, HudMirrors

LEMMA HuClicked == ASSUME HudInv, HuClick PROVE HudInv'
<1>1. PICK legal \in BOOLEAN, hits \in BOOLEAN :
        LET places == huPage.tower /\ legal /\ huEng.phase = "BUILD" /\ huEng.gold >= 1
            casts == huPage.armed /\ hits /\ huEng.alive > 0 /\ HuCastable(huEng)
        IN /\ huEng' = IF places THEN HuPlaced(huEng) ELSE IF casts THEN HuCast(huEng) ELSE huEng
           /\ huStore' = IF places \/ casts THEN HuSpent(huStore, huEng') ELSE huStore
           /\ huPage' = [huPage EXCEPT !.armed = FALSE, !.tower = @ /\ ~places]
  BY DEF HuClick
<1>2. /\ huPage.at = "game" /\ huEng \in HuEngOf /\ huStore \in HuStoreOf /\ huPage \in HuPageOf
      /\ HuShown(huStore) = HuShown(huEng)
  BY DEF HudInv, HuTypeOK, HudMirrors, HuClick
<1>3. huEng' \in {huEng, HuPlaced(huEng), HuCast(huEng)}
  BY <1>1
<1>4. (huStore' = huStore /\ huEng' = huEng) \/ huStore' = HuSpent(huStore, huEng')
  BY <1>1
<1>5. huPage'.at = "game" /\ huPage'.asked = huPage.asked
  BY <1>1, <1>2 DEF HuPageOf
<1>6. huPage' \in HuPageOf
  <2>1. PICK t : huPage' = [huPage EXCEPT !.armed = FALSE, !.tower = huPage.tower /\ t]
    BY <1>1, <1>2 DEF HuPageOf
  <2> QED BY <2>1, <1>2 DEF HuPageOf
<1>7. /\ huEng' \in HuEngOf
      /\ huEng'.star = huEng.star /\ huEng'.origin = huEng.origin /\ huEng'.wave = huEng.wave
      /\ huEng'.phase = huEng.phase /\ huEng'.hp = huEng.hp 
      /\ huEng'.kills = huEng.kills /\ huEng'.value = huEng.value
  <2> DEFINE g == huEng.gold - 1
             c == huEng.cost + 1
  <2>1. g \in Int /\ c \in Int /\ huEng.value \in Int
    BY <1>2 DEF HuEngOf
  <2>2. \/ huEng' = huEng
        \/ huEng' = [huEng EXCEPT !.gold = g, !.cost = c]
        \/ huEng' = [huEng EXCEPT !.gold = g, !.cost = c, !.cool = TRUE]
    BY <1>3 DEF HuPlaced, HuCast
  <2> HIDE DEF g, c
  <2>3. CASE huEng' = huEng
    BY <1>2, <2>1, <2>3 DEF HuEngOf
  <2>4. CASE huEng' = [huEng EXCEPT !.gold = g, !.cost = c]
    BY <1>2, <2>1, <2>4 DEF HuEngOf
  <2>5. CASE huEng' = [huEng EXCEPT !.gold = g, !.cost = c, !.cool = TRUE]
    BY <1>2, <2>1, <2>5 DEF HuEngOf
  <2> QED BY <2>2, <2>3, <2>4, <2>5
<1>8. huStore' \in HuStoreOf /\ HuShown(huStore') = HuShown(huEng') /\ huStore'.cp = huStore.cp
  BY <1>2, <1>4, <1>7 DEF HuEngOf, HuStoreOf, HuShown, HuSpent
<1>9. huEng'.value >= huEng.value
  BY <1>2, <1>7 DEF HuEngOf
<1> QED BY HuWithin, <1>2, <1>5, <1>6, <1>7, <1>8, <1>9

LEMMA HuWaveBegins == ASSUME HudInv, HuStartWave PROVE HudInv'
<1> DEFINE w == huEng.wave + 1
           f == HuListed(huEng)
<1>1. huPage.at = "game" /\ huPage' = huPage /\ huEng.phase = "BUILD"
  BY DEF HuStartWave, HuPlaying
<1>2. /\ huEng \in HuEngOf /\ huStore \in HuStoreOf /\ huPage \in HuPageOf /\ HuShown(huStore) = HuShown(huEng)
      /\ HuRunSound /\ HuKept
  BY <1>1 DEF HudInv, HuTypeOK, HudMirrors
<1>3. w \in Nat /\ w >= 1 /\ f \in Nat /\ huEng.wave \in Nat
  BY <1>2 DEF HuListed, HuEngOf
<1>4. huEng' = [huEng EXCEPT !.wave = w, !.phase = "WAVE", !.left = HuFoes]
  BY DEF HuStartWave
<1>5. /\ huEng' \in HuEngOf /\ huEng'.star = huEng.star /\ huEng'.origin = huEng.origin
      /\ huEng'.value = huEng.value /\ huEng'.wave = w /\ huEng'.phase = "WAVE" /\ huEng'.hp = huEng.hp
      /\ huEng'.gold = huEng.gold /\ huEng'.kills = huEng.kills
  <2> HIDE DEF w
  <2> QED BY <1>2, <1>3, <1>4, HuAssumption DEF HuEngOf, HuPhases
<1>6. huStore' = [huStore EXCEPT !.phase = "WAVE", !.wave = w, !.foes = f]
  BY <1>5 DEF HuStartWave
<1>7. /\ huStore' \in HuStoreOf /\ huStore'.cp = huStore.cp /\ huStore'.phase = "WAVE" /\ huStore'.wave = w
      /\ huStore'.star = huStore.star /\ huStore'.hp = huStore.hp /\ huStore'.origin = huStore.origin
      /\ huStore'.gold = huStore.gold /\ huStore'.kills = huStore.kills /\ huStore'.value = huStore.value
  <2> HIDE DEF w, f
  <2> QED BY <1>2, <1>3, <1>6 DEF HuStoreOf, HuPhases
<1>8. HuShown(huStore') = HuShown(huEng')
  <2> HIDE DEF w
  <2> QED BY <1>2, <1>5, <1>7, HuShownFields
<1>9. HuRunSound'
  BY <1>1, <1>2, <1>3, <1>5 DEF HuRunSound
<1>10. HuKeptWave(huEng') = HuKeptWave(huEng)
  BY <1>1, <1>3, <1>5 DEF HuKeptWave
<1>11. HuKept'
  BY <1>1, <1>2, <1>5, <1>7, <1>10 DEF HuKept
<1> QED BY HuSteps, <1>1, <1>2, <1>5, <1>7, <1>8, <1>9, <1>11

LEMMA HuFoeReaches == ASSUME HudInv, HuReach PROVE HudInv'
<1> DEFINE a == huEng.alive - 1
           h == huEng.hp - 1
           p == IF huEng.hp = 1 THEN "GAME_OVER" ELSE huEng.phase
           f == HuListed(huEng)
<1>1. huPage.at = "game" /\ huPage' = huPage /\ huEng.phase = "WAVE" /\ huEng.alive > 0
  BY DEF HuReach, HuPlaying
<1>2. /\ huEng \in HuEngOf /\ huStore \in HuStoreOf /\ huPage \in HuPageOf /\ HuShown(huStore) = HuShown(huEng)
      /\ HuRunSound /\ HuKept
  BY <1>1 DEF HudInv, HuTypeOK, HudMirrors
<1>3. /\ a \in Nat /\ f \in Nat /\ h \in Int /\ p \in {"WAVE", "GAME_OVER"} /\ (p = "WAVE" => h > 0)
      /\ h <= huEng.hp /\ huEng.hp \in Int /\ huEng.origin \in Int /\ huEng.wave \in Nat
  BY <1>1, <1>2 DEF HuListed, HuEngOf, HuRunSound
<1>4. huEng' = [huEng EXCEPT !.alive = a, !.hp = h, !.phase = p]
  BY <1>2 DEF HuReach, HuEngOf
<1> HIDE DEF a, h, p, f
<1>5. /\ huEng' \in HuEngOf /\ huEng'.star = huEng.star /\ huEng'.origin = huEng.origin
      /\ huEng'.value = huEng.value /\ huEng'.wave = huEng.wave /\ huEng'.phase = p /\ huEng'.hp = h
      /\ huEng'.gold = huEng.gold /\ huEng'.kills = huEng.kills
  BY <1>2, <1>3, <1>4 DEF HuEngOf, HuPhases
<1>6. huStore' = [huStore EXCEPT !.hp = h, !.phase = p, !.foes = f]
  BY <1>5 DEF HuReach, f
<1>7. /\ huStore' \in HuStoreOf /\ huStore'.cp = huStore.cp /\ huStore'.phase = p /\ huStore'.hp = h
      /\ huStore'.star = huStore.star /\ huStore'.wave = huStore.wave /\ huStore'.origin = huStore.origin
      /\ huStore'.gold = huStore.gold /\ huStore'.kills = huStore.kills /\ huStore'.value = huStore.value
  BY <1>2, <1>3, <1>6 DEF HuStoreOf, HuPhases
<1>8. HuShown(huStore') = HuShown(huEng')
  BY <1>2, <1>5, <1>7, HuShownFields
<1>9. HuRunSound'
  BY <1>1, <1>2, <1>3, <1>5 DEF HuRunSound
<1>10. HuKeptWave(huEng') = HuKeptWave(huEng)
  BY <1>1, <1>3, <1>5 DEF HuKeptWave
<1>11. HuKept'
  BY <1>1, <1>2, <1>5, <1>7, <1>10 DEF HuKept
<1> QED BY HuSteps, <1>1, <1>2, <1>5, <1>7, <1>8, <1>9, <1>11

LEMMA HuWaveOver == ASSUME HudInv, HuWaveEnds PROVE HudInv'
<1>1. huPage.at = "game" /\ huPage' = huPage /\ huEng.phase = "WAVE"
  BY DEF HuWaveEnds, HuPlaying
<1>2. /\ huEng \in HuEngOf /\ huStore \in HuStoreOf /\ huPage \in HuPageOf /\ HuShown(huStore) = HuShown(huEng)
      /\ HuRunSound /\ HuKept
  BY <1>1 DEF HudInv, HuTypeOK, HudMirrors
<1>3. /\ huEng' \in HuEngOf /\ huEng'.wave = huEng.wave /\ huEng'.hp = huEng.hp /\ huEng'.kills = huEng.kills
      /\ huEng'.star = huEng.star /\ huEng'.origin = huEng.origin /\ huEng'.value = huEng.value
      /\ huEng'.phase \in {"BUILD", "LEVEL_END"}
  <2> DEFINE g == huEng.gold + 1
             p == IF huEng.wave >= HuWaves THEN "LEVEL_END" ELSE "BUILD"
  <2>1. g \in Int /\ p \in {"BUILD", "LEVEL_END"} /\ huEng' = [huEng EXCEPT !.gold = g, !.phase = p]
    BY <1>2 DEF HuWaveEnds, HuEngOf
  <2> HIDE DEF g, p
  <2> QED BY <1>2, <2>1 DEF HuEngOf, HuPhases
<1>4. huEng.wave >= 1 /\ huEng.hp > 0 /\ huEng.hp <= huEng.origin
  BY <1>1, <1>2 DEF HuRunSound
<1> DEFINE c == HuCleared(huStore, huEng)
<1>5. /\ c \in HuStoreOf /\ HuShown(c) = HuShown(huStore)
      /\ huEng.star = 5 => c.cp.wave = huEng.wave + 1 /\ c.cp.hp = huEng.hp /\ c.cp.value = huEng.value
  BY <1>2 DEF HuCleared, HuStoreOf, HuEngOf, HuCpOf, HuShown
<1> HIDE DEF c
<1>6. huStore' = [c EXCEPT !.gold = huEng'.gold, !.phase = huEng'.phase]
  BY DEF HuWaveEnds, c
<1>7. huStore' \in HuStoreOf /\ HuShown(huStore') = HuShown(huEng') /\ huStore'.cp = c.cp
  BY <1>2, <1>3, <1>5, <1>6 DEF HuEngOf, HuStoreOf, HuShown
<1>8. HuRunSound'
  BY <1>1, <1>3, <1>4 DEF HuRunSound
<1>9. HuKept'
  BY <1>1, <1>2, <1>3, <1>4, <1>5, <1>7 DEF HuKept, HuKeptWave, HuWorth, HuEngOf, HuStoreOf, HuCpOf
<1> QED BY HuSteps, <1>1, <1>2, <1>3, <1>7, <1>8, <1>9

LEMMA HuStep == ASSUME HudInv, [HuNext]_huVars PROVE HudInv'
<1>1. CASE UNCHANGED huVars
  BY <1>1 DEF huVars, HudInv, HuTypeOK, HuRunSound, HuKept, HudMirrors
<1>2. CASE HuNext
  BY <1>2, HuPageMoves, HuBooting, HuFighting, HuBars, HuClicked, HuWaveBegins, HuFoeReaches, HuWaveOver DEF HuNext
<1> QED BY <1>1, <1>2

\* The retry of a lost run is the checkpoint kept.
LEMMA HuKeptOffered == ASSUME HudInv PROVE CopyHolds
<1>1. HudMirrors
  BY DEF HudInv
<1>2. RetryOfLostWave
  <2>1. SUFFICES ASSUME HuPlaying("GAME_OVER"), huEng.star = 5
                 PROVE  /\ huStore.cp.wave = (IF huEng.wave = 1 THEN 0 ELSE huEng.wave)
                        /\ huEng.wave > 1 =>
                             huStore.cp.hp > 0 /\ huStore.cp.hp <= huEng.origin /\ huStore.cp.value <= huEng.value
    BY DEF RetryOfLostWave
  <2>2. HuWorth(huStore.cp) /\ huStore.cp.wave = (IF huEng.wave = 1 THEN 0 ELSE huEng.wave)
    BY <2>1 DEF HudInv, HuPlaying, HuKept, HuKeptWave
  <2>3. huStore.cp.wave # 0 => huStore.cp.hp <= huEng.origin /\ huStore.cp.value <= huEng.value
    BY <2>1 DEF HudInv, HuPlaying, HuKept
  <2> QED BY <2>2, <2>3 DEF HuWorth, HuNoCheckpoint, HudInv, HuTypeOK, HuEngOf
<1> QED BY <1>1, <1>2 DEF CopyHolds

(***************************************************************************)
(* THE MUSIC                                                               *)
(***************************************************************************)

(***************************************************************************)
(* The invariant                                                           *)
(***************************************************************************)
MuAudioOf ==
  [beds : [MuSlugs -> {"off", "full", "out"}], pending : SUBSET MuSlugs, unlocked : BOOLEAN,
   active : BOOLEAN, current : MuTracks \cup {MuNoTrack}, ended : MuTracks \cup {MuNoTrack}]

\* What waits for the first gesture was not stopped since.
MuWaiting(au) == \A s \in au.pending : au.beds[s] # "off"

\* A track sounds alone; a game has none, and nothing that would hand over to one.
MuMenu(au) ==
  /\ au.active /\ au.current \in MuTracks /\ au.ended = au.current /\ au.beds[au.current] = "full"
  /\ \A s \in MuSlugs \ {au.current} : au.beds[s] = "off"
MuGame(au, phase) ==
  /\ ~au.active /\ au.ended = MuNoTrack /\ \A s \in MuTracks : au.beds[s] = "off"
  /\ phase = "BUILD" => au.beds["ambient-build"] = "full"
  /\ phase = "WAVE" => au.beds["ambient-wave"] = "full"
  /\ phase \notin {"BUILD", "WAVE"} => \A s \in MuEngineBeds : au.beds[s] = "off"

MuInv ==
  /\ muAudio \in MuAudioOf /\ MuWaiting(muAudio)
  /\ muPage = [at |-> muPage.at, phase |-> muPage.phase, games |-> muPage.games]
  /\ muPage.at \in {"menu", "game"}
  /\ muPage.at = "menu" => muPage.phase = MuOff /\ MuMenu(muAudio)
  /\ muPage.at = "game" => MuGame(muAudio, muPage.phase)

(***************************************************************************)
(* Slugs and operations of the asset manager                               *)
(***************************************************************************)
LEMMA Slugs ==
  /\ MuTracks \subseteq MuSlugs /\ MuEngineBeds \subseteq MuSlugs
  /\ "ambient-build" \in MuEngineBeds /\ "ambient-wave" \in MuEngineBeds
  /\ MuTracks \cap MuEngineBeds = {} /\ MuNoTrack \notin MuTracks /\ MuTracks # {}
BY MuAssumption DEF MuSlugs, MuEngineBeds, MuNoTrack

\* The driver of the playlist is left alone.
MuSameList(a, b) == a.active = b.active /\ a.current = b.current /\ a.ended = b.ended

LEMMA PlayedBed ==
  ASSUME NEW au \in MuAudioOf, MuWaiting(au), NEW s \in MuSlugs
  PROVE  LET a == MuPlayed(au, s) IN
         /\ a \in MuAudioOf /\ MuWaiting(a) /\ MuSameList(a, au) /\ a.beds[s] = "full"
         /\ \A x \in MuSlugs \ {s} : au.beds[x] = "off" => a.beds[x] = "off"
<1>0. au.beds \in [MuSlugs -> {"off", "full", "out"}] /\ au.pending \in SUBSET MuSlugs
  BY DEF MuAudioOf
<1>1. CASE au.beds[s] = "off"
  <2>. DEFINE beds == [x \in MuSlugs |-> IF x = s THEN "full" ELSE IF au.beds[x] = "off" THEN "off" ELSE "out"]
              pending == IF au.unlocked THEN au.pending \ {s} ELSE au.pending \cup {s}
  <2>1. MuPlayed(au, s) = [au EXCEPT !.beds = beds, !.pending = pending]
    BY <1>1 DEF MuPlayed, MuAdded
  <2>2. beds \in [MuSlugs -> {"off", "full", "out"}] /\ pending \in SUBSET MuSlugs
    BY <1>0
  <2>3. /\ beds[s] = "full" /\ \A x \in MuSlugs \ {s} : au.beds[x] = "off" => beds[x] = "off"
        /\ \A x \in pending : beds[x] # "off"
    BY <1>0 DEF MuWaiting
  <2>. HIDE DEF beds, pending
  <2>. DEFINE a == MuPlayed(au, s)
  <2>4. a \in MuAudioOf /\ a.beds = beds /\ a.pending = pending /\ MuSameList(a, au)
    BY <2>1, <2>2 DEF MuAudioOf, MuSameList
  <2>. QED  BY <2>3, <2>4 DEF MuWaiting
<1>2. CASE au.beds[s] # "off"
  <2>. DEFINE beds == [au.beds EXCEPT ![s] = "full"]
              pending == au.pending
  <2>1. MuPlayed(au, s) = [au EXCEPT !.beds = beds, !.pending = pending]
    BY <1>2 DEF MuPlayed, MuExisting, MuAudioOf
  <2>2. beds \in [MuSlugs -> {"off", "full", "out"}] /\ pending \in SUBSET MuSlugs
    BY <1>0
  <2>3. /\ beds[s] = "full" /\ \A x \in MuSlugs \ {s} : au.beds[x] = "off" => beds[x] = "off"
        /\ \A x \in pending : beds[x] # "off"
    BY <1>0 DEF MuWaiting
  <2>. HIDE DEF beds, pending
  <2>. DEFINE a == MuPlayed(au, s)
  <2>4. a \in MuAudioOf /\ a.beds = beds /\ a.pending = pending /\ MuSameList(a, au)
    BY <2>1, <2>2 DEF MuAudioOf, MuSameList
  <2>. QED  BY <2>3, <2>4 DEF MuWaiting
<1>. QED  BY <1>1, <1>2

LEMMA StoppedBeds ==
  ASSUME NEW au \in MuAudioOf, MuWaiting(au), NEW gone
  PROVE  LET a == MuStopped(au, gone) IN
         /\ a \in MuAudioOf /\ MuWaiting(a) /\ MuSameList(a, au)
         /\ \A x \in MuSlugs : a.beds[x] = IF x \in gone THEN "off" ELSE au.beds[x]
<1>0. au.beds \in [MuSlugs -> {"off", "full", "out"}] /\ au.pending \in SUBSET MuSlugs
  BY DEF MuAudioOf
<1>. DEFINE beds == [x \in MuSlugs |-> IF x \in gone THEN "off" ELSE au.beds[x]]
            pending == au.pending \ gone
<1>1. MuStopped(au, gone) = [au EXCEPT !.beds = beds, !.pending = pending]
  BY DEF MuStopped
<1>2. beds \in [MuSlugs -> {"off", "full", "out"}] /\ pending \in SUBSET MuSlugs
  BY <1>0
<1>3. /\ \A x \in MuSlugs : beds[x] = IF x \in gone THEN "off" ELSE au.beds[x]
      /\ \A x \in pending : beds[x] # "off"
  BY <1>0 DEF MuWaiting
<1>. HIDE DEF beds, pending
<1>. DEFINE a == MuStopped(au, gone)
<1>4. a \in MuAudioOf /\ a.beds = beds /\ a.pending = pending /\ MuSameList(a, au)
  BY <1>1, <1>2 DEF MuAudioOf, MuSameList
<1>. QED  BY <1>3, <1>4 DEF MuWaiting

\* Cut fades and the first gesture: what is off stays off, what sounds goes on.
LEMMA RaisedBeds ==
  ASSUME NEW au \in MuAudioOf, MuWaiting(au)
  PROVE  LET a == MuRescaled(au) IN
         /\ a \in MuAudioOf /\ MuWaiting(a) /\ MuSameList(a, au)
         /\ \A x \in MuSlugs : (a.beds[x] = "off" <=> au.beds[x] = "off") /\ (au.beds[x] = "full" => a.beds[x] = "full")
<1>0. au.beds \in [MuSlugs -> {"off", "full", "out"}] /\ au.pending \in SUBSET MuSlugs
  BY DEF MuAudioOf
<1>. DEFINE beds == [x \in MuSlugs |-> IF au.beds[x] = "out" THEN "full" ELSE au.beds[x]]
            pending == au.pending
<1>1. MuRescaled(au) = [au EXCEPT !.beds = beds, !.pending = pending]
  BY DEF MuRescaled, MuAudioOf
<1>2. beds \in [MuSlugs -> {"off", "full", "out"}] /\ pending \in SUBSET MuSlugs
  BY <1>0
<1>3. /\ \A x \in MuSlugs : (beds[x] = "off" <=> au.beds[x] = "off") /\ (au.beds[x] = "full" => beds[x] = "full")
      /\ \A x \in pending : beds[x] # "off"
  BY <1>0 DEF MuWaiting
<1>. HIDE DEF beds, pending
<1>. DEFINE a == MuRescaled(au)
<1>4. a \in MuAudioOf /\ a.beds = beds /\ a.pending = pending /\ MuSameList(a, au)
  BY <1>1, <1>2 DEF MuAudioOf, MuSameList
<1>. QED  BY <1>3, <1>4 DEF MuWaiting

\* unlock: what waited is heard, at its volume; whoever drives the music does not notice.
MuHeard(au) ==
  [au EXCEPT !.unlocked = TRUE, !.pending = {},
     !.beds = [x \in MuSlugs |-> IF x \in au.pending THEN "full" ELSE au.beds[x]]]

\* Nothing begins or ends by the unlock, and nothing waits any more.
LEMMA Unlocked ==
  ASSUME NEW au \in MuAudioOf, MuWaiting(au)
  PROVE  LET a == MuHeard(au) IN
         /\ a \in MuAudioOf /\ MuWaiting(a) /\ MuSameList(a, au)
         /\ \A x \in MuSlugs : (a.beds[x] = "off" <=> au.beds[x] = "off") /\ (au.beds[x] = "full" => a.beds[x] = "full")
<1>0. au.beds \in [MuSlugs -> {"off", "full", "out"}] /\ au.pending \in SUBSET MuSlugs
  BY DEF MuAudioOf
<1>. DEFINE beds == [x \in MuSlugs |-> IF x \in au.pending THEN "full" ELSE au.beds[x]]
<1>1. MuHeard(au) = [au EXCEPT !.unlocked = TRUE, !.pending = {}, !.beds = beds]
  BY DEF MuHeard
<1>2. beds \in [MuSlugs -> {"off", "full", "out"}] /\ {} \in SUBSET MuSlugs
  BY <1>0
<1>3. \A x \in MuSlugs : (beds[x] = "off" <=> au.beds[x] = "off") /\ (au.beds[x] = "full" => beds[x] = "full")
  BY <1>0 DEF MuWaiting
<1>. HIDE DEF beds
<1>. DEFINE a == MuHeard(au)
<1>4. a \in MuAudioOf /\ a.beds = beds /\ a.pending = {} /\ MuSameList(a, au)
  BY <1>1, <1>2 DEF MuAudioOf, MuSameList
<1>. QED  BY <1>3, <1>4 DEF MuWaiting

\* playPlaylistTrack, where no track sounds: the engine's beds may still do.
LEMMA TrackBegun ==
  ASSUME NEW au \in MuAudioOf, MuWaiting(au), NEW s \in MuTracks,
         \A t \in MuTracks : au.beds[t] = "off"
  PROVE  LET a == MuTrack(au, s) IN
         /\ a \in MuAudioOf /\ MuWaiting(a) /\ a.active = au.active /\ a.current = s /\ a.ended = s
         /\ a.beds[s] = "full" /\ \A x \in MuSlugs \ {s} : au.beds[x] = "off" => a.beds[x] = "off"
<1>. DEFINE b == [au EXCEPT !.current = s]
            p == MuPlayed(b, s)
            a == [p EXCEPT !.ended = s]
<1>1. /\ b \in MuAudioOf /\ b.current = s /\ b.active = au.active /\ b.beds = au.beds /\ b.pending = au.pending
      /\ s \in MuSlugs
  BY Slugs DEF MuAudioOf
<1>2. MuWaiting(b)
  BY <1>1 DEF MuWaiting
<1>. HIDE DEF b
<1>3. /\ p \in MuAudioOf /\ MuWaiting(p) /\ MuSameList(p, b) /\ p.beds[s] = "full"
      /\ \A x \in MuSlugs \ {s} : b.beds[x] = "off" => p.beds[x] = "off"
  BY <1>1, <1>2, PlayedBed
<1>. HIDE DEF p
<1>4. /\ a \in MuAudioOf /\ a.ended = s /\ a.current = p.current /\ a.active = p.active
      /\ a.beds = p.beds /\ a.pending = p.pending
  BY <1>3 DEF MuAudioOf
<1>5. MuTrack(au, s) = a
  BY DEF MuTrack, b, p
<1>. HIDE DEF a
<1>. QED  BY <1>1, <1>3, <1>4, <1>5 DEF MuWaiting, MuSameList

LEMMA ListBegun ==
  ASSUME NEW au \in MuAudioOf, MuWaiting(au), ~au.active,
         \A t \in MuTracks : au.beds[t] = "off", NEW a \in MuListStarted(au)
  PROVE  /\ a \in MuAudioOf /\ MuWaiting(a) /\ a.active /\ a.current \in MuTracks /\ a.ended = a.current
         /\ a.beds[a.current] = "full"
         /\ \A x \in MuSlugs \ {a.current} : au.beds[x] = "off" => a.beds[x] = "off"
<1>. DEFINE b == [au EXCEPT !.active = TRUE]
<1>1. b \in MuAudioOf /\ b.active = TRUE /\ b.current = au.current /\ b.beds = au.beds /\ b.pending = au.pending
  BY DEF MuAudioOf
<1>2. PICK s \in MuTracks : a = MuTrack(b, s)
  BY DEF MuListStarted, MuChoices
<1>. HIDE DEF b
<1>3. MuWaiting(b)
  BY <1>1 DEF MuWaiting
<1>. QED  BY <1>1, <1>2, <1>3, TrackBegun

LEMMA ListEnded ==
  ASSUME NEW au \in MuAudioOf, MuWaiting(au), MuMenu(au)
  PROVE  LET a == MuListStopped(au) IN
         a \in MuAudioOf /\ MuWaiting(a) /\ ~a.active /\ a.ended = MuNoTrack /\ \A x \in MuSlugs : a.beds[x] = "off"
<1>. DEFINE b == MuStopped(au, {au.current})
            a == [b EXCEPT !.active = FALSE, !.ended = MuNoTrack, !.current = MuNoTrack]
<1>1. b \in MuAudioOf /\ MuWaiting(b) /\ \A x \in MuSlugs : b.beds[x] = "off"
  BY StoppedBeds DEF MuMenu
<1>2. MuListStopped(au) = a
  BY DEF MuListStopped
<1>. HIDE DEF b
<1>3. a \in MuAudioOf /\ a.active = FALSE /\ a.ended = MuNoTrack /\ a.beds = b.beds /\ a.pending = b.pending
  BY <1>1 DEF MuAudioOf
<1>. HIDE DEF a
<1>. QED  BY <1>1, <1>2, <1>3 DEF MuWaiting

(***************************************************************************)
(* The steps                                                               *)
(***************************************************************************)
LEMMA SilenceKept == MuSilence \in MuAudioOf /\ MuWaiting(MuSilence) /\ MuGame(MuSilence, MuOff)
                     /\ \A x \in MuSlugs : MuSilence.beds[x] = "off"
<1>. DEFINE beds == [s \in MuSlugs |-> "off"]
<1>1. beds \in [MuSlugs -> {"off", "full", "out"}] /\ \A x \in MuSlugs : beds[x] = "off"
  OBVIOUS
<1>2. MuSilence = [beds |-> beds, pending |-> {}, unlocked |-> FALSE,
                   active |-> FALSE, current |-> MuNoTrack, ended |-> MuNoTrack]
  BY DEF MuSilence
<1>. HIDE DEF beds
<1>3. MuSilence \in MuAudioOf /\ MuWaiting(MuSilence) /\ MuSilence.beds = beds
  BY <1>1, <1>2 DEF MuAudioOf, MuWaiting
<1>. QED  BY <1>1, <1>2, <1>3, Slugs DEF MuGame, MuOff

LEMMA MuInitial == ASSUME MuInit PROVE MuInv
<1>1. PICK at \in {"menu", "game"} :
        /\ muPage = [at |-> at, phase |-> MuOff, games |-> IF at = "game" THEN 1 ELSE 0]
        /\ IF at = "game" THEN muAudio = MuSilence ELSE muAudio \in MuListStarted(MuSilence)
  BY DEF MuInit
<1>2. CASE at = "game"
  BY <1>1, <1>2, SilenceKept DEF MuInv
<1>3. CASE at = "menu"
  <2>1. ~MuSilence.active /\ \A t \in MuTracks : MuSilence.beds[t] = "off"
    BY SilenceKept, Slugs DEF MuSilence
  <2>2. /\ muAudio \in MuAudioOf /\ MuWaiting(muAudio) /\ MuMenu(muAudio)
    BY <1>1, <1>3, <2>1, SilenceKept, ListBegun DEF MuMenu
  <2>. QED  BY <1>1, <1>3, <2>2 DEF MuInv
<1>. QED  BY <1>2, <1>3

\* Nothing that is off begins, nothing at its volume ends: whoever drives the music does not notice.
LEMMA Unnoticed ==
  ASSUME MuInv, muPage' = muPage, muAudio' \in MuAudioOf, MuWaiting(muAudio'), MuSameList(muAudio', muAudio),
         \A x \in MuSlugs : (muAudio.beds[x] = "off" => muAudio'.beds[x] = "off") /\ (muAudio.beds[x] = "full" => muAudio'.beds[x] = "full")
  PROVE  MuInv'
<1>1. ASSUME MuMenu(muAudio) PROVE MuMenu(muAudio')
  BY <1>1, Slugs DEF MuMenu, MuSameList
<1>2. ASSUME MuGame(muAudio, muPage.phase) PROVE MuGame(muAudio', muPage.phase)
  BY <1>2, Slugs DEF MuGame, MuSameList
<1>. QED  BY <1>1, <1>2 DEF MuInv

LEMMA Fading == ASSUME MuInv, MuFaded \/ MuUnlock \/ MuVolume PROVE MuInv'
<1>1. muAudio \in MuAudioOf /\ MuWaiting(muAudio)
  BY DEF MuInv
<1>2. muPage' = muPage
  BY DEF MuFaded, MuUnlock, MuVolume
<1>3. ASSUME NEW s \in MuSlugs, muAudio.beds[s] = "out", muAudio' = MuStopped(muAudio, {s}) PROVE MuInv'
  <2>1. /\ muAudio' \in MuAudioOf /\ MuWaiting(muAudio') /\ MuSameList(muAudio', muAudio)
        /\ \A x \in MuSlugs : muAudio'.beds[x] = IF x \in {s} THEN "off" ELSE muAudio.beds[x]
    BY <1>1, <1>3, StoppedBeds
  <2>. QED  BY <1>2, <1>3, <2>1, Unnoticed
<1>4. CASE MuUnlock
  <2>1. muAudio' = MuHeard(muAudio)
    BY <1>4 DEF MuUnlock, MuHeard
  <2>2. /\ muAudio' \in MuAudioOf /\ MuWaiting(muAudio') /\ MuSameList(muAudio', muAudio)
        /\ \A x \in MuSlugs : (muAudio'.beds[x] = "off" <=> muAudio.beds[x] = "off") /\ (muAudio.beds[x] = "full" => muAudio'.beds[x] = "full")
    BY <1>1, <2>1, Unlocked
  <2>. QED  BY <1>2, <2>2, Unnoticed
<1>5. CASE MuVolume
  <2>1. muAudio' = MuRescaled(muAudio)
    BY <1>5 DEF MuVolume
  <2>2. /\ muAudio' \in MuAudioOf /\ MuWaiting(muAudio') /\ MuSameList(muAudio', muAudio)
        /\ \A x \in MuSlugs : (muAudio'.beds[x] = "off" <=> muAudio.beds[x] = "off") /\ (muAudio.beds[x] = "full" => muAudio'.beds[x] = "full")
    BY <1>1, <2>1, RaisedBeds
  <2>. QED  BY <1>2, <2>2, Unnoticed
<1>. QED  BY <1>3, <1>4, <1>5 DEF MuFaded

\* The next track begins when the one that sounded has ended, and only on the menu.
LEMMA HandedOver == ASSUME MuInv, MuEnded PROVE MuInv'
<1>1. PICK s \in MuChoices(muAudio) : muAudio' = MuTrack(MuStopped(muAudio, {muAudio.ended}), s)
  BY DEF MuEnded
<1>2. /\ muPage' = muPage /\ muAudio.ended # MuNoTrack /\ muAudio \in MuAudioOf /\ MuWaiting(muAudio)
      /\ s \in MuTracks
  BY DEF MuEnded, MuInv, MuChoices
<1>3. muPage.at = "menu" /\ MuMenu(muAudio)
  BY <1>2 DEF MuInv, MuGame
<1>. DEFINE b == MuStopped(muAudio, {muAudio.ended})
<1>4. /\ b \in MuAudioOf /\ MuWaiting(b) /\ MuSameList(b, muAudio)
      /\ \A x \in MuSlugs : b.beds[x] = IF x \in {muAudio.ended} THEN "off" ELSE muAudio.beds[x]
  BY <1>2, StoppedBeds
<1>5. b.active /\ \A x \in MuSlugs : b.beds[x] = "off"
  BY <1>3, <1>4 DEF MuMenu, MuSameList
<1>6. muAudio' = MuTrack(b, s)
  BY <1>1
<1>. HIDE DEF b
<1>7. /\ muAudio' \in MuAudioOf /\ MuWaiting(muAudio') /\ muAudio'.active = b.active
      /\ muAudio'.current = s /\ muAudio'.ended = s
      /\ muAudio'.beds[s] = "full" /\ \A x \in MuSlugs \ {s} : b.beds[x] = "off" => muAudio'.beds[x] = "off"
  BY <1>2, <1>4, <1>5, <1>6, TrackBegun, Slugs
<1>8. MuMenu(muAudio')
  BY <1>2, <1>5, <1>7 DEF MuMenu
<1>. QED  BY <1>2, <1>3, <1>7, <1>8 DEF MuInv

\* What useEngineAudio makes of a phase, in a game.
LEMMA PhaseSounds ==
  ASSUME NEW au \in MuAudioOf, MuWaiting(au), NEW from, MuGame(au, from), NEW to
  PROVE  LET a == MuPhaseHeard(au, to) IN a \in MuAudioOf /\ MuWaiting(a) /\ MuGame(a, to)
<1>1. CASE to = "BUILD"
  <2>. DEFINE a == MuPlayed(au, "ambient-build")
  <2>1. MuPhaseHeard(au, to) = a
    BY <1>1 DEF MuPhaseHeard
  <2>2. /\ a \in MuAudioOf /\ MuWaiting(a) /\ MuSameList(a, au) /\ a.beds["ambient-build"] = "full"
        /\ \A x \in MuSlugs \ {"ambient-build"} : au.beds[x] = "off" => a.beds[x] = "off"
    BY PlayedBed, Slugs
  <2>. HIDE DEF a
  <2>3. MuGame(a, to)
    BY <1>1, <2>2, Slugs DEF MuGame, MuSameList
  <2>. QED  BY <2>1, <2>2, <2>3
<1>2. CASE to = "WAVE"
  <2>. DEFINE a == MuPlayed(au, "ambient-wave")
  <2>1. MuPhaseHeard(au, to) = a
    BY <1>2 DEF MuPhaseHeard
  <2>2. /\ a \in MuAudioOf /\ MuWaiting(a) /\ MuSameList(a, au) /\ a.beds["ambient-wave"] = "full"
        /\ \A x \in MuSlugs \ {"ambient-wave"} : au.beds[x] = "off" => a.beds[x] = "off"
    BY PlayedBed, Slugs
  <2>. HIDE DEF a
  <2>3. MuGame(a, to)
    BY <1>2, <2>2, Slugs DEF MuGame, MuSameList
  <2>. QED  BY <2>1, <2>2, <2>3
<1>3. CASE to \notin {"BUILD", "WAVE"}
  <2>1. MuPhaseHeard(au, to) = MuStopped(au, MuEngineBeds)
    BY <1>3 DEF MuPhaseHeard, MuEngineStopped
  <2>. QED  BY <1>3, <2>1, StoppedBeds, Slugs DEF MuGame, MuSameList
<1>. QED  BY <1>1, <1>2, <1>3

LEMMA Gaming == ASSUME MuInv, MuBoot \/ MuPhase \/ MuRetry PROVE MuInv'
<1>1. /\ muAudio \in MuAudioOf /\ MuWaiting(muAudio)
      /\ muPage = [at |-> muPage.at, phase |-> muPage.phase, games |-> muPage.games]
  BY DEF MuInv
<1>2. muPage.at = "game" /\ MuGame(muAudio, muPage.phase)
  BY DEF MuInv, MuBoot, MuPhase, MuRetry
<1>3. SUFFICES ASSUME NEW to, muPage' = [muPage EXCEPT !.phase = to],
                      muAudio' \in MuAudioOf, MuWaiting(muAudio'), MuGame(muAudio', to)
               PROVE  MuInv'
  <2>1. CASE MuBoot
    <3>. DEFINE b == MuRescaled(muAudio)
    <3>1. /\ b \in MuAudioOf /\ MuWaiting(b) /\ MuSameList(b, muAudio)
          /\ \A x \in MuSlugs : (b.beds[x] = "off" <=> muAudio.beds[x] = "off") /\ (muAudio.beds[x] = "full" => b.beds[x] = "full")
      BY <1>1, RaisedBeds
    <3>2. muAudio' = MuPhaseHeard(b, "BUILD") /\ muPage' = [muPage EXCEPT !.phase = "BUILD"]
      BY <2>1 DEF MuBoot
    <3>. HIDE DEF b
    <3>3. MuGame(b, muPage.phase)
      BY <1>2, <3>1, Slugs DEF MuGame, MuSameList
    <3>. QED  BY <1>3, <3>1, <3>2, <3>3, PhaseSounds
  <2>2. CASE MuPhase
    BY <1>1, <1>2, <1>3, <2>2, PhaseSounds DEF MuPhase
  <2>3. CASE MuRetry
    <3>1. muAudio' = MuPhaseHeard(muAudio, MuOff) /\ muPage' = [muPage EXCEPT !.phase = MuOff]
      BY <2>3 DEF MuRetry, MuPhaseHeard, MuOff
    <3>. QED  BY <1>1, <1>2, <1>3, <3>1, PhaseSounds
  <2>. QED  BY <2>1, <2>2, <2>3
<1>4. muPage'.at = "game" /\ muPage'.phase = to /\ muPage' = [at |-> muPage'.at, phase |-> muPage'.phase, games |-> muPage'.games]
  BY <1>1, <1>2, <1>3
<1>. QED  BY <1>3, <1>4 DEF MuInv

LEMMA Entering == ASSUME MuInv, MuEnter PROVE MuInv'
<1>1. /\ muPage' = [at |-> "game", phase |-> MuOff, games |-> muPage.games + 1]
      /\ muAudio' = MuListStopped(muAudio) /\ muAudio \in MuAudioOf /\ MuWaiting(muAudio) /\ MuMenu(muAudio)
  BY DEF MuInv, MuEnter
<1>2. /\ muAudio' \in MuAudioOf /\ MuWaiting(muAudio') /\ ~muAudio'.active /\ muAudio'.ended = MuNoTrack
      /\ \A x \in MuSlugs : muAudio'.beds[x] = "off"
  BY <1>1, ListEnded
<1>3. MuGame(muAudio', MuOff)
  BY <1>2, Slugs DEF MuGame, MuOff
<1>. QED  BY <1>1, <1>2, <1>3 DEF MuInv

LEMMA Leaving == ASSUME MuInv, MuLeave PROVE MuInv'
<1>1. /\ muPage = [at |-> muPage.at, phase |-> muPage.phase, games |-> muPage.games]
      /\ muPage' = [muPage EXCEPT !.at = "menu", !.phase = MuOff]
      /\ muAudio \in MuAudioOf /\ MuWaiting(muAudio) /\ MuGame(muAudio, muPage.phase)
  BY DEF MuInv, MuLeave
<1>2. PICK a \in MuListStarted(muAudio) : muAudio' = IF muPage.phase = MuOff THEN a ELSE MuEngineStopped(a)
  BY DEF MuLeave
<1>3. /\ a \in MuAudioOf /\ MuWaiting(a) /\ a.active /\ a.current \in MuTracks /\ a.ended = a.current
      /\ a.beds[a.current] = "full"
      /\ \A x \in MuSlugs \ {a.current} : muAudio.beds[x] = "off" => a.beds[x] = "off"
  BY <1>1, ListBegun DEF MuGame
<1>4. muAudio' \in MuAudioOf /\ MuWaiting(muAudio') /\ MuMenu(muAudio')
  <2>1. CASE muPage.phase = MuOff
    <3>1. \A x \in MuSlugs : muAudio.beds[x] = "off"
      BY <1>1, <2>1 DEF MuGame, MuOff, MuSlugs
    <3>. QED  BY <1>2, <1>3, <2>1, <3>1 DEF MuMenu
  <2>2. CASE muPage.phase # MuOff
    <3>1. /\ muAudio' \in MuAudioOf /\ MuWaiting(muAudio') /\ MuSameList(muAudio', a)
          /\ \A x \in MuSlugs : muAudio'.beds[x] = IF x \in MuEngineBeds THEN "off" ELSE a.beds[x]
      BY <1>2, <1>3, <2>2, StoppedBeds DEF MuEngineStopped
    <3>2. \A x \in MuSlugs \ {a.current} : muAudio'.beds[x] = "off"
      BY <1>1, <1>3, <3>1 DEF MuGame, MuSlugs
    <3>3. muAudio'.beds[a.current] = "full"
      BY <1>3, <3>1, Slugs
    <3>. QED  BY <1>3, <3>1, <3>2, <3>3 DEF MuMenu, MuSameList
  <2>. QED  BY <2>1, <2>2
<1>5. muPage'.at = "menu" /\ muPage'.phase = MuOff /\ muPage' = [at |-> muPage'.at, phase |-> muPage'.phase, games |-> muPage'.games]
  BY <1>1
<1>. QED  BY <1>4, <1>5 DEF MuInv

LEMMA MuStep == ASSUME MuInv, [MuNext]_muVars PROVE MuInv'
<1>1. CASE MuClip \/ MuInterval \/ MuClipEnds \/ UNCHANGED muVars
  <2>1. muAudio' = muAudio /\ muPage' = muPage
    BY <1>1 DEF MuClip, MuInterval, MuClipEnds, muVars
  <2>. QED  BY <2>1 DEF MuInv
<1>. QED  BY <1>1, Fading, HandedOver, Gaming, Entering, Leaving DEF MuNext

(***************************************************************************)
(* THE RADAR                                                               *)
(***************************************************************************)

(***************************************************************************)
(* Ticks to cover a distance                                               *)
(***************************************************************************)
LEMMA RaCeil ==
  ASSUME NEW s \in Nat \ {0}, NEW d \in Int
  PROVE  /\ RdCeil(d, s) \in Int /\ RdCeil(d - s, s) = RdCeil(d, s) - 1
         /\ (d >= 1 => RdCeil(d, s) >= 1) /\ (d >= 0 => RdCeil(d, s) >= 0)
BY DEF RdCeil

LEMMA RaCeilMono ==
  ASSUME NEW s \in Nat \ {0}, NEW d \in Int, NEW e \in Int, d <= e
  PROVE  RdCeil(d, s) <= RdCeil(e, s)
BY DEF RdCeil

LEMMA RaCeilSum ==
  ASSUME NEW s \in Nat \ {0}, NEW d \in Int, NEW e \in Int
  PROVE  RdCeil(d, s) + RdCeil(e, s) <= RdCeil(d + e, s) + 1
<1> DEFINE p == RdCeil(d, s)
           q == RdCeil(e, s)
           r == RdCeil(d + e, s)
<1>1. p \in Int /\ q \in Int /\ r \in Int
  BY DEF RdCeil
<1>2. s * p < d + s /\ s * q < e + s /\ s * r >= d + e
  BY DEF RdCeil
<1> HIDE DEF p, q, r
<1>3. s * (p + q - 2) < s * r
  <2>1. s * (p + q - 2) = s * p + s * q - s - s
    BY <1>1
  <2> QED BY <1>1, <1>2, <2>1
<1>4. p + q - 2 < r
  BY <1>1, <1>3
<1>5. p + q <= r + 1
  BY <1>1, <1>4
<1> QED BY <1>5 DEF p, q, r

(***************************************************************************)
(* The needle, as its way from the start of the arc                        *)
(***************************************************************************)
LEMMA RaTurn ==
  ASSUME NEW a \in Int
  PROVE  /\ RdTurn(a) \in 0 .. RdCircle - 1
         /\ a \in 0 .. RdCircle - 1 => RdTurn(a) = a
         /\ a \in RdCircle .. 2 * RdCircle - 1 => RdTurn(a) = a - RdCircle
         /\ a \in 2 * RdCircle .. 3 * RdCircle - 1 => RdTurn(a) = a - 2 * RdCircle
         /\ a \in (-RdCircle) .. -1 => RdTurn(a) = a + RdCircle
<1>1. RdCircle \in Nat \ {0}
  BY RdAssumption
<1> QED BY <1>1 DEF RdTurn

\* An angle that many units after the start of the arc.
LEMMA RaBack ==
  ASSUME NEW start \in 0 .. RdCircle, NEW y \in 0 .. RdCircle
  PROVE  RdRel(RdTurn(start + y), start) = IF y = RdCircle THEN 0 ELSE y
<1>1. RdCircle \in Nat \ {0}
  BY RdAssumption
<1>2. start + y \in Int
  OBVIOUS
<1>3. RdTurn(start + y) = IF start + y < RdCircle THEN start + y
                          ELSE IF start + y < 2 * RdCircle THEN start + y - RdCircle ELSE 0
  BY <1>1, <1>2, RaTurn
<1> DEFINE b == RdTurn(start + y) - start
<1>4. b \in Int
  BY <1>1, <1>3
<1>5. CASE start + y < RdCircle
  <2>1. b = y /\ y < RdCircle
    BY <1>1, <1>3, <1>5
  <2> QED BY <1>1, <1>4, <2>1, RaTurn DEF RdRel
<1>6. CASE ~(start + y < RdCircle) /\ start + y < 2 * RdCircle
  <2>1. b = y - RdCircle
    BY <1>1, <1>3, <1>6
  <2> HIDE DEF b
  <2>2. RdTurn(b) = IF y = RdCircle THEN 0 ELSE y
    BY <1>1, <1>4, <2>1, RaTurn
  <2> QED BY <2>2 DEF RdRel, b
<1>7. CASE start + y = 2 * RdCircle
  <2>1. b = -RdCircle /\ y = RdCircle
    BY <1>1, <1>3, <1>7
  <2> HIDE DEF b
  <2>2. RdTurn(b) = 0
    BY <1>1, <1>4, <2>1, RaTurn
  <2> QED BY <2>1, <2>2 DEF RdRel, b
<1> QED BY <1>1, <1>5, <1>6, <1>7

\* Two places on the arc, as near as their ways from its start say.
RaNear(x, f, w) ==
  LET e == IF x <= f THEN f - x ELSE x - f IN e < w \/ e > RdCircle - w

LEMMA RaGap ==
  ASSUME NEW start \in 0 .. RdCircle, NEW a \in 0 .. RdCircle - 1, NEW b \in 0 .. RdCircle - 1,
         NEW w \in 1 .. RdCircle
  PROVE  RdGap(a, b) < w <=> RaNear(RdRel(b, start), RdRel(a, start), w)
<1>1. RdCircle \in Nat \ {0}
  BY RdAssumption
<1>2. a - b \in Int /\ a - start \in Int /\ b - start \in Int
  BY <1>1
<1> DEFINE f == RdRel(a, start)
           x == RdRel(b, start)
           d == RdTurn(a - b)
<1>3. f = IF a - start < 0 THEN a - start + RdCircle ELSE a - start
  BY <1>1, <1>2, RaTurn DEF RdRel
<1>4. x = IF b - start < 0 THEN b - start + RdCircle ELSE b - start
  BY <1>1, <1>2, RaTurn DEF RdRel
<1>5. d = IF a - b < 0 THEN a - b + RdCircle ELSE a - b
  BY <1>1, <1>2, RaTurn
<1>6. RdGap(a, b) = IF d <= RdCircle - d THEN d ELSE RdCircle - d
  BY DEF RdGap
<1> HIDE DEF f, x, d
<1>7. RdGap(a, b) < w <=> RaNear(x, f, w)
  BY <1>1, <1>3, <1>4, <1>5, <1>6 DEF RaNear
<1> QED BY <1>7 DEF f, x


(***************************************************************************)
(* The ticks until the next hit                                            *)
(***************************************************************************)
RaPlaced(x, d, n) ==
  /\ x \in 0 .. n /\ d \in {-1, 1}
  /\ d = 1 => x < n
  /\ d = -1 => IF n = RdCircle THEN x = 0 ELSE x > 0

\* Where a tick takes the needle, and which way it then goes.
RaX(x, d, n, s) ==
  LET y == x + d * s
  IN IF y >= n THEN (IF n = RdCircle THEN 0 ELSE n) ELSE IF y <= 0 THEN 0 ELSE y
RaD(x, d, n, s) == LET y == x + d * s IN IF y >= n THEN -1 ELSE IF y <= 0 THEN 1 ELSE d

\* An arc of the whole circle: round to where the band's front meets the enemy, with a
\* tick at the wall.
RaFront(f, w) == IF f >= w THEN f - w + 1 ELSE RdCircle + f - w + 1
RaWaitRound(x, d, f, n, w, s) ==
  LET low == RaFront(f, w)
  IN IF d = -1 THEN 1 + RdCeil(low, s)
     ELSE IF x < low THEN RdCeil(low - x, s) ELSE RdCeil(n - x, s) + 1 + RdCeil(low, s)

\* The band leaves the enemy at its far side, and meets it there on the way back.
RaWaitFar(x, d, f, n, w, s) ==
  LET far == f + w - 1
  IN IF d = 1 THEN RdCeil(n - x, s) + RdCeil(n - far, s)
     ELSE IF x > far THEN RdCeil(x - far, s) ELSE RdCeil(x, s) + RdCeil(n, s) + RdCeil(n - far, s)

\* It does not, so it leaves it at its near side.
RaWaitNear(x, d, f, n, w, s) ==
  LET low == f - w + 1
  IN IF d = -1 THEN RdCeil(x, s) + RdCeil(low, s)
     ELSE IF x < low THEN RdCeil(low - x, s) ELSE RdCeil(n - x, s) + RdCeil(n, s) + RdCeil(low, s)

RaWait(x, d, f, n, w, s) ==
  IF n = RdCircle THEN RaWaitRound(x, d, f, n, w, s)
  ELSE IF f + w <= n THEN RaWaitFar(x, d, f, n, w, s) ELSE RaWaitNear(x, d, f, n, w, s)

\* What the arcs, bands and speeds are when the wiper runs.
RaWiper(f, n, w, s) ==
  /\ n \in 1 .. RdCircle /\ f \in 0 .. n /\ f < RdCircle /\ w \in Nat \ {0} /\ s \in Nat \ {0}
  /\ n >= 2 * w /\ s < 2 * w /\ s + 2 * w <= RdCircle

LEMMA RaPlacedNext ==
  ASSUME NEW x, NEW d, NEW n \in 1 .. RdCircle, NEW s \in Nat \ {0}, RaPlaced(x, d, n)
  PROVE  RaPlaced(RaX(x, d, n, s), RaD(x, d, n, s), n)
<1>1. RdCircle \in Nat \ {0}
  BY RdAssumption
<1>2. x \in 0 .. n /\ (d = 1 \/ d = -1)
  BY DEF RaPlaced
<1>3. CASE d = 1
  BY <1>1, <1>2, <1>3 DEF RaPlaced, RaX, RaD
<1>4. CASE d = -1
  BY <1>1, <1>2, <1>4 DEF RaPlaced, RaX, RaD
<1> QED BY <1>2, <1>3, <1>4

\* A tick that does not hit leaves one less to wait.
LEMMA RaTickFar ==
  ASSUME NEW x, NEW d, NEW f, NEW n, NEW w, NEW s, RaPlaced(x, d, n), RaWiper(f, n, w, s),
         n # RdCircle, f + w <= n
  PROVE  LET y == RaX(x, d, n, s)
             e == RaD(x, d, n, s)
         IN \/ RaWaitFar(y, e, f, n, w, s) <= RaWaitFar(x, d, f, n, w, s) - 1
            \/ RaNear(y, f, w) /\ ~RaNear(x, f, w)
<1> DEFINE y == RaX(x, d, n, s)
           e == RaD(x, d, n, s)
           far == f + w - 1
           K(a) == RdCeil(a, s)
<1>1. /\ RdCircle \in Nat \ {0} /\ x \in 0 .. n /\ n \in 1 .. RdCircle /\ f \in 0 .. n /\ w \in Nat \ {0} /\ s \in Nat \ {0}
      /\ n >= 2 * w /\ s < 2 * w /\ s + 2 * w <= RdCircle /\ far \in Nat /\ far < n /\ d \in {-1, 1}
  BY RdAssumption DEF RaPlaced, RaWiper
<1>2. \A a \in Int : K(a) \in Int /\ K(a - s) = K(a) - 1 /\ (a >= 1 => K(a) >= 1) /\ (a >= 0 => K(a) >= 0)
  BY <1>1, RaCeil
<1> HIDE DEF K
<1>3. CASE d = 1
  <2>1. x < n /\ K(n - x) >= 1 /\ K(n - far) \in Int /\ K(n - x) \in Int /\ K(n - x - s) = K(n - x) - 1
    BY <1>1, <1>2, <1>3 DEF RaPlaced
  <2>2. RaWaitFar(x, d, f, n, w, s) = K(n - x) + K(n - far)
    BY <1>3 DEF RaWaitFar, K
  <2>3. CASE x + s >= n
    <3>1. y = n /\ e = -1
      BY <1>1, <1>3, <2>3 DEF RaX, RaD
    <3>2. RaWaitFar(n, -1, f, n, w, s) = K(n - far)
      BY <1>1 DEF RaWaitFar, K
    <3> QED BY <2>1, <2>2, <3>1, <3>2
  <2>4. CASE ~(x + s >= n)
    <3>1. y = x + s /\ e = 1 /\ n - y = n - x - s
      BY <1>1, <1>3, <2>4 DEF RaX, RaD
    <3>2. RaWaitFar(y, e, f, n, w, s) = K(n - y) + K(n - far)
      BY <3>1 DEF RaWaitFar, K
    <3> QED BY <2>1, <2>2, <3>1, <3>2
  <2> QED BY <2>3, <2>4
<1>4. CASE d = -1 /\ x > far
  <2>1. RaWaitFar(x, d, f, n, w, s) = K(x - far)
    BY <1>4 DEF RaWaitFar, K
  <2>2. CASE x - s > far
    <3>1. y = x - s /\ e = -1 /\ y - far = x - far - s
      BY <1>1, <1>4, <2>2 DEF RaX, RaD
    <3>2. RaWaitFar(y, e, f, n, w, s) = K(y - far)
      BY <1>1, <2>2, <3>1 DEF RaWaitFar, K
    <3>3. K(x - far - s) = K(x - far) - 1 /\ K(x - far) \in Int
      BY <1>1, <1>2
    <3> QED BY <2>1, <3>1, <3>2, <3>3
  <2>3. CASE ~(x - s > far)
    <3>1. y = IF x - s <= 0 THEN 0 ELSE x - s
      BY <1>1, <1>4, <2>3 DEF RaX
    <3>2. RaNear(y, f, w) /\ ~RaNear(x, f, w)
      BY <1>1, <1>4, <2>3, <3>1 DEF RaNear
    <3> QED BY <3>2
  <2> QED BY <2>2, <2>3
<1>5. CASE d = -1 /\ ~(x > far)
  <2>1. x > 0 /\ K(x) >= 1 /\ K(x) \in Int /\ K(n) \in Int /\ K(n - far) \in Int /\ K(x - s) = K(x) - 1
    BY <1>1, <1>2, <1>5 DEF RaPlaced
  <2>2. RaWaitFar(x, d, f, n, w, s) = K(x) + K(n) + K(n - far)
    BY <1>5 DEF RaWaitFar, K
  <2>3. CASE x - s <= 0
    <3>1. y = 0 /\ e = 1
      BY <1>1, <1>5, <2>3 DEF RaX, RaD
    <3>2. RaWaitFar(0, 1, f, n, w, s) = K(n) + K(n - far)
      BY <1>1 DEF RaWaitFar, K
    <3> QED BY <2>1, <2>2, <3>1, <3>2
  <2>4. CASE ~(x - s <= 0)
    <3>1. y = x - s /\ e = -1 /\ ~(y > far)
      BY <1>1, <1>5, <2>4 DEF RaX, RaD
    <3>2. RaWaitFar(y, e, f, n, w, s) = K(y) + K(n) + K(n - far)
      BY <3>1 DEF RaWaitFar, K
    <3> QED BY <2>1, <2>2, <3>1, <3>2
  <2> QED BY <2>3, <2>4
<1> QED BY <1>1, <1>3, <1>4, <1>5


LEMMA RaTickNear ==
  ASSUME NEW x, NEW d, NEW f, NEW n, NEW w, NEW s, RaPlaced(x, d, n), RaWiper(f, n, w, s),
         n # RdCircle, ~(f + w <= n)
  PROVE  LET y == RaX(x, d, n, s)
             e == RaD(x, d, n, s)
         IN \/ RaWaitNear(y, e, f, n, w, s) <= RaWaitNear(x, d, f, n, w, s) - 1
            \/ RaNear(y, f, w) /\ ~RaNear(x, f, w)
<1> DEFINE y == RaX(x, d, n, s)
           e == RaD(x, d, n, s)
           low == f - w + 1
           K(a) == RdCeil(a, s)
<1>1. /\ RdCircle \in Nat \ {0} /\ x \in 0 .. n /\ n \in 1 .. RdCircle /\ f \in 0 .. n /\ w \in Nat \ {0} /\ s \in Nat \ {0}
      /\ n >= 2 * w /\ s < 2 * w /\ s + 2 * w <= RdCircle /\ low \in Nat \ {0} /\ low <= n /\ d \in {-1, 1}
      /\ n < RdCircle
  BY RdAssumption DEF RaPlaced, RaWiper
<1>2. \A a \in Int : K(a) \in Int /\ K(a - s) = K(a) - 1 /\ (a >= 1 => K(a) >= 1) /\ (a >= 0 => K(a) >= 0)
  BY <1>1, RaCeil
<1> HIDE DEF K
<1>3. CASE d = -1
  <2>1. x > 0 /\ K(x) >= 1 /\ K(low) \in Int /\ K(x) \in Int /\ K(x - s) = K(x) - 1
    BY <1>1, <1>2, <1>3 DEF RaPlaced
  <2>2. RaWaitNear(x, d, f, n, w, s) = K(x) + K(low)
    BY <1>3 DEF RaWaitNear, K
  <2>3. CASE x - s <= 0
    <3>1. y = 0 /\ e = 1
      BY <1>1, <1>3, <2>3 DEF RaX, RaD
    <3>2. RaWaitNear(0, 1, f, n, w, s) = K(low)
      BY <1>1 DEF RaWaitNear, K
    <3> QED BY <2>1, <2>2, <3>1, <3>2
  <2>4. CASE ~(x - s <= 0)
    <3>1. y = x - s /\ e = -1
      BY <1>1, <1>3, <2>4 DEF RaX, RaD
    <3>2. RaWaitNear(y, e, f, n, w, s) = K(y) + K(low)
      BY <3>1 DEF RaWaitNear, K
    <3> QED BY <2>1, <2>2, <3>1, <3>2
  <2> QED BY <2>3, <2>4
<1>4. CASE d = 1 /\ x < low
  <2>1. RaWaitNear(x, d, f, n, w, s) = K(low - x)
    BY <1>4 DEF RaWaitNear, K
  <2>2. CASE x + s < low
    <3>1. y = x + s /\ e = 1 /\ low - y = low - x - s
      BY <1>1, <1>4, <2>2 DEF RaX, RaD
    <3>2. RaWaitNear(y, e, f, n, w, s) = K(low - y)
      BY <1>1, <2>2, <3>1 DEF RaWaitNear, K
    <3>3. K(low - x - s) = K(low - x) - 1 /\ K(low - x) \in Int
      BY <1>1, <1>2
    <3> QED BY <2>1, <3>1, <3>2, <3>3
  <2>3. CASE ~(x + s < low)
    <3>1. y = IF x + s >= n THEN n ELSE x + s
      BY <1>1, <1>4, <2>3 DEF RaX
    <3>2. RaNear(y, f, w) /\ ~RaNear(x, f, w)
      BY <1>1, <1>4, <2>3, <3>1 DEF RaNear
    <3> QED BY <3>2
  <2> QED BY <2>2, <2>3
<1>5. CASE d = 1 /\ ~(x < low)
  <2>1. /\ x < n /\ K(n - x) >= 1 /\ K(n - x) \in Int /\ K(n) \in Int /\ K(low) \in Int
        /\ K(n - x - s) = K(n - x) - 1
    BY <1>1, <1>2, <1>5 DEF RaPlaced
  <2>2. RaWaitNear(x, d, f, n, w, s) = K(n - x) + K(n) + K(low)
    BY <1>5 DEF RaWaitNear, K
  <2>3. CASE x + s >= n
    <3>1. y = n /\ e = -1
      BY <1>1, <1>5, <2>3 DEF RaX, RaD
    <3>2. RaWaitNear(n, -1, f, n, w, s) = K(n) + K(low)
      BY <1>1 DEF RaWaitNear, K
    <3> QED BY <2>1, <2>2, <3>1, <3>2
  <2>4. CASE ~(x + s >= n)
    <3>1. y = x + s /\ e = 1 /\ ~(y < low) /\ n - y = n - x - s
      BY <1>1, <1>5, <2>4 DEF RaX, RaD
    <3>2. RaWaitNear(y, e, f, n, w, s) = K(n - y) + K(n) + K(low)
      BY <3>1 DEF RaWaitNear, K
    <3> QED BY <2>1, <2>2, <3>1, <3>2
  <2> QED BY <2>3, <2>4
<1> QED BY <1>1, <1>3, <1>4, <1>5

LEMMA RaTickRound ==
  ASSUME NEW x, NEW d, NEW f, NEW w, NEW s, RaPlaced(x, d, RdCircle), RaWiper(f, RdCircle, w, s)
  PROVE  LET y == RaX(x, d, RdCircle, s)
             e == RaD(x, d, RdCircle, s)
         IN \/ RaWaitRound(y, e, f, RdCircle, w, s) <= RaWaitRound(x, d, f, RdCircle, w, s) - 1
            \/ RaNear(y, f, w) /\ ~RaNear(x, f, w)
<1> DEFINE n == RdCircle
           y == RaX(x, d, n, s)
           e == RaD(x, d, n, s)
           low == RaFront(f, w)
           K(a) == RdCeil(a, s)
<1>1. /\ n \in Nat \ {0} /\ x \in 0 .. n - 1 /\ f \in 0 .. n - 1 /\ w \in Nat \ {0} /\ s \in Nat \ {0}
      /\ s < 2 * w /\ s + 2 * w <= n /\ d \in {-1, 1}
      /\ low = (IF f >= w THEN f - w + 1 ELSE n + f - w + 1) /\ low \in 1 .. n
  BY RdAssumption DEF RaPlaced, RaWiper, RaFront
<1>2. \A a \in Int : K(a) \in Int /\ K(a - s) = K(a) - 1 /\ (a >= 1 => K(a) >= 1) /\ (a >= 0 => K(a) >= 0)
  BY <1>1, RaCeil
<1> HIDE DEF K, low
<1>3. CASE d = -1
  <2>1. x = 0 /\ K(low) \in Int /\ low - 0 = low
    BY <1>1, <1>2, <1>3 DEF RaPlaced
  <2>2. RaWaitRound(x, d, f, n, w, s) = 1 + K(low)
    BY <1>3 DEF RaWaitRound, K, low
  <2>3. y = 0 /\ e = 1
    BY <1>1, <1>3, <2>1 DEF RaX, RaD
  <2>4. RaWaitRound(0, 1, f, n, w, s) = K(low - 0)
    BY <1>1 DEF RaWaitRound, K, low
  <2> QED BY <2>1, <2>2, <2>3, <2>4
<1>4. CASE d = 1 /\ x < low
  <2>1. RaWaitRound(x, d, f, n, w, s) = K(low - x)
    BY <1>4 DEF RaWaitRound, K, low
  <2>2. CASE x + s < low
    <3>1. y = x + s /\ e = 1 /\ low - y = low - x - s
      BY <1>1, <1>4, <2>2 DEF RaX, RaD
    <3>2. RaWaitRound(y, e, f, n, w, s) = K(low - y)
      BY <1>1, <2>2, <3>1 DEF RaWaitRound, K, low
    <3>3. K(low - x - s) = K(low - x) - 1 /\ K(low - x) \in Int
      BY <1>1, <1>2
    <3> QED BY <2>1, <3>1, <3>2, <3>3
  <2>3. CASE ~(x + s < low)
    <3>1. y = IF x + s >= n THEN 0 ELSE x + s
      BY <1>1, <1>4, <2>3 DEF RaX
    <3>2. RaNear(y, f, w) /\ ~RaNear(x, f, w)
      BY <1>1, <1>4, <2>3, <3>1 DEF RaNear
    <3> QED BY <3>2
  <2> QED BY <2>2, <2>3
<1>5. CASE d = 1 /\ ~(x < low)
  <2>1. /\ x < n /\ K(n - x) >= 1 /\ K(n - x) \in Int /\ K(low) \in Int
        /\ K(n - x - s) = K(n - x) - 1
    BY <1>1, <1>2, <1>5
  <2>2. RaWaitRound(x, d, f, n, w, s) = K(n - x) + 1 + K(low)
    BY <1>5 DEF RaWaitRound, K, low
  <2>3. CASE x + s >= n
    <3>1. y = 0 /\ e = -1
      BY <1>1, <1>5, <2>3 DEF RaX, RaD
    <3>2. RaWaitRound(0, -1, f, n, w, s) = 1 + K(low)
      BY DEF RaWaitRound, K, low
    <3> QED BY <2>1, <2>2, <3>1, <3>2
  <2>4. CASE ~(x + s >= n)
    <3>1. y = x + s /\ e = 1 /\ ~(y < low) /\ n - y = n - x - s
      BY <1>1, <1>5, <2>4 DEF RaX, RaD
    <3>2. RaWaitRound(y, e, f, n, w, s) = K(n - y) + 1 + K(low)
      BY <3>1 DEF RaWaitRound, K, low
    <3> QED BY <2>1, <2>2, <3>1, <3>2
  <2> QED BY <2>3, <2>4
<1> QED BY <1>1, <1>3, <1>4, <1>5

\* Whatever the arc, a tick of the wiper hits or leaves one less to wait.
LEMMA RaTick ==
  ASSUME NEW x, NEW d, NEW f, NEW n, NEW w, NEW s, RaPlaced(x, d, n), RaWiper(f, n, w, s)
  PROVE  LET y == RaX(x, d, n, s)
             e == RaD(x, d, n, s)
         IN \/ RaWait(y, e, f, n, w, s) <= RaWait(x, d, f, n, w, s) - 1
            \/ RaNear(y, f, w) /\ ~RaNear(x, f, w)
BY RaTickFar, RaTickNear, RaTickRound DEF RaWait

\* There is a tick to wait at least, and never more than there and back, and one.
LEMMA RaWaitBounds ==
  ASSUME NEW x, NEW d, NEW f, NEW n, NEW w, NEW s, RaPlaced(x, d, n), RaWiper(f, n, w, s)
  PROVE  RaWait(x, d, f, n, w, s) \in 1 .. 2 * RdCeil(n, s) + 1
<1> DEFINE K(a) == RdCeil(a, s)
           far == f + w - 1
           low == f - w + 1
           front == RaFront(f, w)
<1>1. /\ RdCircle \in Nat \ {0} /\ x \in 0 .. n /\ n \in 1 .. RdCircle /\ f \in 0 .. n /\ f < RdCircle
      /\ w \in Nat \ {0} /\ s \in Nat \ {0} /\ n >= 2 * w /\ d \in {-1, 1}
      /\ d = 1 => x < n
      /\ d = -1 => IF n = RdCircle THEN x = 0 ELSE x > 0
  BY RdAssumption DEF RaPlaced, RaWiper
<1>2. \A a \in Int : K(a) \in Int /\ (a >= 1 => K(a) >= 1) /\ (a >= 0 => K(a) >= 0)
  BY <1>1, RaCeil
<1>3. \A a, b \in Int : a <= b => K(a) <= K(b)
  BY <1>1, RaCeilMono
<1>4. \A a, b \in Int : K(a) + K(b) <= K(a + b) + 1
  BY <1>1, RaCeilSum
<1> HIDE DEF K
<1>5. K(n) \in Int /\ K(n) >= 1 /\ K(n - x) \in Int /\ (x < n => K(n - x) >= 1) /\ K(n - x) <= K(n)
      /\ K(x) \in Int /\ (x > 0 => K(x) >= 1) /\ K(x) >= 0 /\ K(n - x) >= 0
  BY <1>1, <1>2, <1>3
<1>6. CASE n = RdCircle
  <2>1. front \in 1 .. n
    BY <1>1, <1>6 DEF RaFront
  <2> HIDE DEF front
  <2>2. K(front) \in Int /\ K(front) >= 1 /\ K(front) <= K(n)
    BY <1>1, <1>2, <1>3, <2>1
  <2>3. d = 1 /\ x < front => K(front - x) \in Int /\ K(front - x) >= 1 /\ K(front - x) <= K(n)
    BY <1>1, <1>2, <1>3, <2>1
  <2>4. ~(x < front) => K(n - x) + K(front) <= K(n) + 1
    <3>1. ASSUME ~(x < front) PROVE K(n - x) <= K(n - front)
      <4>1. n - x \in Int /\ n - front \in Int /\ n - x <= n - front
        BY <1>1, <2>1, <3>1
      <4> QED BY <1>3, <4>1
    <3>2. n - front \in Int /\ front \in Int /\ n - front + front = n
      BY <1>1, <2>1
    <3>3. K(n - front) + K(front) <= K(n - front + front) + 1 /\ K(n - front) \in Int
      BY <1>2, <1>4, <3>2
    <3> QED BY <3>1, <3>2, <3>3, <1>5, <2>2
  <2>5. RaWait(x, d, f, n, w, s) = IF d = -1 THEN 1 + K(front)
                                   ELSE IF x < front THEN K(front - x) ELSE K(n - x) + 1 + K(front)
    BY <1>6 DEF RaWait, RaWaitRound, K, front
  <2> QED BY <1>1, <1>5, <2>2, <2>3, <2>4, <2>5 DEF K
<1>7. CASE n # RdCircle /\ f + w <= n
  <2>1. far \in 0 .. n - 1
    BY <1>1, <1>7
  <2>2. RaWait(x, d, f, n, w, s) = IF d = 1 THEN K(n - x) + K(n - far)
                                   ELSE IF x > far THEN K(x - far) ELSE K(x) + K(n) + K(n - far)
    BY <1>7 DEF RaWait, RaWaitFar, K
  <2> HIDE DEF far
  <2>3. K(n - far) \in Int /\ K(n - far) >= 1 /\ K(n - far) <= K(n)
    BY <1>1, <1>2, <1>3, <2>1
  <2>4. x > far => K(x - far) \in Int /\ K(x - far) >= 1 /\ K(x - far) <= K(n)
    BY <1>1, <1>2, <1>3, <2>1
  <2>5. ~(x > far) => K(x) + K(n - far) <= K(n) + 1
    <3>1. ASSUME ~(x > far) PROVE K(x) <= K(far)
      <4>1. x \in Int /\ far \in Int /\ x <= far
        BY <1>1, <2>1, <3>1
      <4> QED BY <1>3, <4>1
    <3>2. n - far \in Int /\ far \in Int /\ far + (n - far) = n
      BY <1>1, <2>1
    <3>3. K(far) + K(n - far) <= K(far + (n - far)) + 1 /\ K(far) \in Int
      BY <1>2, <1>4, <3>2
    <3> QED BY <3>1, <3>2, <3>3, <1>5, <2>3
  <2> QED BY <1>1, <1>5, <1>7, <2>2, <2>3, <2>4, <2>5 DEF K
<1>8. CASE n # RdCircle /\ ~(f + w <= n)
  <2>1. low \in 1 .. n
    BY <1>1, <1>8
  <2>2. RaWait(x, d, f, n, w, s) = IF d = -1 THEN K(x) + K(low)
                                   ELSE IF x < low THEN K(low - x) ELSE K(n - x) + K(n) + K(low)
    BY <1>8 DEF RaWait, RaWaitNear, K
  <2> HIDE DEF low
  <2>3. K(low) \in Int /\ K(low) >= 1 /\ K(low) <= K(n) /\ K(x) <= K(n)
    BY <1>1, <1>2, <1>3, <2>1
  <2>4. x < low => K(low - x) \in Int /\ K(low - x) >= 1 /\ K(low - x) <= K(n)
    BY <1>1, <1>2, <1>3, <2>1
  <2>5. ~(x < low) => K(n - x) + K(low) <= K(n) + 1
    <3>1. ASSUME ~(x < low) PROVE K(n - x) <= K(n - low)
      <4>1. n - x \in Int /\ n - low \in Int /\ n - x <= n - low
        BY <1>1, <2>1, <3>1
      <4> QED BY <1>3, <4>1
    <3>2. n - low \in Int /\ low \in Int /\ n - low + low = n
      BY <1>1, <2>1
    <3>3. K(n - low) + K(low) <= K(n - low + low) + 1 /\ K(n - low) \in Int
      BY <1>2, <1>4, <3>2
    <3> QED BY <3>1, <3>2, <3>3, <1>5, <2>3
  <2> QED BY <1>1, <1>5, <1>8, <2>2, <2>3, <2>4, <2>5 DEF K
<1> QED BY <1>6, <1>7, <1>8


(***************************************************************************)
(* The inductive invariant                                                 *)
(***************************************************************************)
RaTowerOf ==
  [ phase : {"BUILD", "WAVE"}, built : BOOLEAN, configured : BOOLEAN, disabled : BOOLEAN,
    start : 0 .. RdCircle, end : 0 .. RdCircle, restrict : BOOLEAN, speed : RdSpeeds, width : RdWidths,
    calls : Nat ]
RaSystemOf == [angle : 0 .. RdCircle, dir : {-1, 1}, band : BOOLEAN, timer : Nat]
RaFoeOf == [at : 0 .. RdCircle - 1, here : BOOLEAN, hit : BOOLEAN, since : Nat]

RaFrom(sy, t) == IF sy.angle # RdNowhere THEN sy.angle ELSE IF t.restrict THEN t.start ELSE 0
RaAt(sy, t) == RdRel(RaFrom(sy, t), t.start)
RaAimed(t, foe) == foe.here /\ (t.restrict => RdInArc(foe.at, t))
RaUnder(sy, t, foe) == RaAimed(t, foe) /\ RdGap(foe.at, sy.angle) < t.width

\* How far the needle is behind the end of the enemy's band, the long way round.
RaPast(sy, t, at) == RdTurn(RaFrom(sy, t) - at + t.width - 1)

RaLeft(sy, t, at) ==
  IF RdNarrow(t) THEN IF sy.timer > 0 THEN sy.timer ELSE 1
  ELSE IF t.restrict THEN RaWait(RaAt(sy, t), sy.dir, RdRel(at, t.start), RdSpan(t.start, t.end), t.width, t.speed)
  ELSE RdCeil(RdCircle - RaPast(sy, t, at), t.speed)

\* The needle is on its arc, on its way.
RaOnArc(t, sy) == t.restrict => t.start # t.end /\ RaPlaced(RaAt(sy, t), sy.dir, RdSpan(t.start, t.end))

RaTyped(t, sy, foe) == t \in RaTowerOf /\ sy \in RaSystemOf /\ foe \in RaFoeOf

RaGood(t, sy, foe) ==
  /\ RaTyped(t, sy, foe) /\ RaOnArc(t, sy) /\ sy.timer <= 2 * t.width
  /\ ~foe.here \/ RdNarrow(t) => ~sy.band
  /\ t.phase = "BUILD" => ~foe.here
  /\ sy.band => sy.angle # RdNowhere /\ RaUnder(sy, t, foe)
  /\ ~RaAimed(t, foe) => foe.since = 0
  /\ RaAimed(t, foe) => foe.since + RaLeft(sy, t, foe.at) <= RdPeriod(t) + 1

RadarInv == RaGood(rdTower, rdSystem, rdFoe)

LEMMA RaNumbers ==
  ASSUME NEW t \in RaTowerOf
  PROVE  /\ RdCircle \in Nat \ {0} /\ t.speed \in 1 .. RdCircle /\ t.width \in 1 .. RdCircle
         /\ t.speed < 2 * t.width /\ t.speed + 2 * t.width <= RdCircle
         /\ t.start \in 0 .. RdCircle /\ t.end \in 0 .. RdCircle /\ t.restrict \in BOOLEAN
BY RdAssumption DEF RaTowerOf

LEMMA RaSpan ==
  ASSUME NEW t \in RaTowerOf
  PROVE  /\ RdSpan(t.start, t.end) \in 0 .. RdCircle
         /\ t.start # t.end => RdSpan(t.start, t.end) \in 1 .. RdCircle
BY RaNumbers DEF RdSpan

LEMMA RaAngles ==
  ASSUME NEW t \in RaTowerOf, NEW sy \in RaSystemOf
  PROVE  /\ sy.angle # RdNowhere => RaFrom(sy, t) \in 0 .. RdCircle - 1
         /\ RaFrom(sy, t) \in 0 .. RdCircle /\ (~t.restrict => RaFrom(sy, t) \in 0 .. RdCircle - 1)
         /\ sy.angle \in 0 .. RdCircle /\ sy.dir \in {-1, 1} /\ sy.band \in BOOLEAN /\ sy.timer \in Nat
BY RaNumbers DEF RaSystemOf, RaFrom, RdNowhere

LEMMA RaRelType == ASSUME NEW a \in Int, NEW b \in Int PROVE RdRel(a, b) \in 0 .. RdCircle - 1
BY RaTurn DEF RdRel

LEMMA RaPeriod == ASSUME NEW t \in RaTowerOf PROVE RdPeriod(t) \in Nat
<1> DEFINE s == t.speed
           n == RdSpan(t.start, t.end)
<1>1. s \in Nat \ {0} /\ t.width \in Nat /\ RdCircle \in Nat /\ n \in Nat
  BY RaNumbers, RaSpan
<1> HIDE DEF s, n
<1>2. RdCeil(RdCircle, s) \in Nat /\ RdCeil(n, s) \in Nat
  <2>1. RdCeil(RdCircle, s) \in Int /\ RdCeil(RdCircle, s) >= 0
    BY <1>1, RaCeil
  <2>2. RdCeil(n, s) \in Int /\ RdCeil(n, s) >= 0
    BY <1>1, RaCeil
  <2> QED BY <2>1, <2>2
<1>3. RdPeriod(t) = IF RdNarrow(t) THEN 2 * t.width ELSE IF t.restrict THEN 2 * RdCeil(n, s) ELSE RdCeil(RdCircle, s)
  BY DEF RdPeriod, n, s
<1> QED BY <1>1, <1>2, <1>3

\* A wide arc, and an enemy on it.
LEMMA RaIsWiper ==
  ASSUME NEW t \in RaTowerOf, t.restrict, t.start # t.end, ~RdNarrow(t), NEW at \in 0 .. RdCircle - 1, RdInArc(at, t)
  PROVE  RaWiper(RdRel(at, t.start), RdSpan(t.start, t.end), t.width, t.speed)
<1> DEFINE f == RdRel(at, t.start)
           n == RdSpan(t.start, t.end)
<1>1. f \in 0 .. RdCircle - 1 /\ n \in 1 .. RdCircle
  <2>1. at \in Int /\ t.start \in Int
    BY RaNumbers
  <2> QED BY <2>1, RaSpan, RaRelType
<1>2. f <= n /\ ~(n < 2 * t.width)
  BY DEF RdInArc, RdNarrow
<1> HIDE DEF f, n
<1>3. RaWiper(f, n, t.width, t.speed)
  BY <1>1, <1>2, RaNumbers DEF RaWiper
<1> QED BY <1>3 DEF f, n

LEMMA RaLeftBounds ==
  ASSUME NEW t, NEW sy, NEW foe, RaTyped(t, sy, foe), RaOnArc(t, sy), sy.timer <= 2 * t.width, RaAimed(t, foe)
  PROVE  RaLeft(sy, t, foe.at) \in 1 .. RdPeriod(t) + 1
<1>1. t \in RaTowerOf /\ sy \in RaSystemOf /\ foe.at \in 0 .. RdCircle - 1 /\ RdCircle \in Nat \ {0}
  BY RdAssumption DEF RaTyped, RaFoeOf
<1>2. CASE RdNarrow(t)
  BY <1>1, <1>2, RaNumbers, RaAngles DEF RaLeft, RdPeriod
<1>3. CASE ~RdNarrow(t) /\ t.restrict
  <2>1. RaWiper(RdRel(foe.at, t.start), RdSpan(t.start, t.end), t.width, t.speed)
    BY <1>1, <1>3, RaIsWiper DEF RaOnArc, RaAimed
  <2>2. RaPlaced(RaAt(sy, t), sy.dir, RdSpan(t.start, t.end))
    BY <1>3 DEF RaOnArc
  <2>3. RaWait(RaAt(sy, t), sy.dir, RdRel(foe.at, t.start), RdSpan(t.start, t.end), t.width, t.speed)
          \in 1 .. 2 * RdCeil(RdSpan(t.start, t.end), t.speed) + 1
    BY <2>1, <2>2, RaWaitBounds
  <2> QED BY <1>3, <2>3 DEF RaLeft, RdPeriod
<1>4. CASE ~RdNarrow(t) /\ ~t.restrict
  <2> DEFINE p == RaPast(sy, t, foe.at)
             s == t.speed
  <2>1. RaFrom(sy, t) - foe.at + t.width - 1 \in Int
    BY <1>1, RaNumbers, RaAngles
  <2>2. p \in 0 .. RdCircle - 1 /\ s \in Nat \ {0}
    BY <1>1, <2>1, RaTurn, RaNumbers DEF RaPast
  <2>3. RaLeft(sy, t, foe.at) = RdCeil(RdCircle - p, s) /\ RdPeriod(t) = RdCeil(RdCircle, s)
    BY <1>4 DEF RaLeft, RdPeriod
  <2> HIDE DEF p, s
  <2>4. RdCircle - p \in Int /\ RdCircle - p >= 1 /\ RdCircle - p <= RdCircle /\ RdCircle \in Int
    BY <1>1, <2>2
  <2>5. RdCeil(RdCircle - p, s) \in Int /\ RdCeil(RdCircle - p, s) >= 1 /\ RdCeil(RdCircle, s) \in Int
        /\ RdCeil(RdCircle - p, s) <= RdCeil(RdCircle, s)
    BY <2>2, <2>4, RaCeil, RaCeilMono
  <2> QED BY <2>3, <2>5
<1> QED BY <1>1, <1>2, <1>3, <1>4, RaNumbers


(***************************************************************************)
(* A tick of the needle                                                    *)
(***************************************************************************)
\* What a tick leaves alone, and that the needle is somewhere after it.
LEMMA RaAdvancedType ==
  ASSUME NEW t \in RaTowerOf, NEW sy \in RaSystemOf
  PROVE  LET m == RdAdvanced(sy, t)
         IN m \in RaSystemOf /\ m.angle \in 0 .. RdCircle - 1 /\ m.band = sy.band /\ m.timer = sy.timer
<1> DEFINE from == RaFrom(sy, t)
           span == RdSpan(t.start, t.end)
           at == IF RdRel(from, t.start) > span THEN span ELSE RdRel(from, t.start)
           s == at + sy.dir * t.speed
           Put(a, d) == [sy EXCEPT !.angle = RdTurn(a), !.dir = d]
<1>1. /\ from \in Int /\ span \in Int /\ sy.dir \in {-1, 1} /\ t.speed \in Int /\ t.start \in Int
      /\ t.restrict \in BOOLEAN
  BY RaNumbers, RaAngles, RaSpan
<1> HIDE DEF from, span
<1>2. RdRel(from, t.start) \in Int
  <2>1. from \in Int /\ t.start \in Int /\ RdCircle \in Nat
    BY <1>1, RdAssumption
  <2>2. RdRel(from, t.start) \in 0 .. RdCircle - 1
    BY <2>1, RaRelType
  <2> QED BY <2>1, <2>2
<1>3. s \in Int
  BY <1>1, <1>2
<1> HIDE DEF at, s
<1>4. RdAdvanced(sy, t) \in {Put(from + t.speed, sy.dir), Put(t.start + span, -1), Put(t.start, 1), Put(t.start + s, sy.dir)}
  <2>1. [sy EXCEPT !.angle = RdTurn(from + t.speed)] = Put(from + t.speed, sy.dir)
    BY DEF RaSystemOf
  <2>2. [sy EXCEPT !.angle = RdTurn(t.start + s)] = Put(t.start + s, sy.dir)
    BY DEF RaSystemOf
  <2>3. RdAdvanced(sy, t) =
          CASE ~t.restrict -> [sy EXCEPT !.angle = RdTurn(from + t.speed)]
            [] t.restrict /\ s >= span -> [sy EXCEPT !.angle = RdTurn(t.start + span), !.dir = -1]
            [] t.restrict /\ s < span /\ s <= 0 -> [sy EXCEPT !.angle = t.start % RdCircle, !.dir = 1]
            [] OTHER -> [sy EXCEPT !.angle = RdTurn(t.start + s)]
    BY DEF RdAdvanced, from, span, at, s, RaFrom
  <2>4. t.start % RdCircle = RdTurn(t.start)
    BY DEF RdTurn
  <2> QED BY <1>1, <1>3, <2>1, <2>2, <2>3, <2>4
<1>5. \A a \in Int, d \in {-1, 1} :
        LET m == Put(a, d)
        IN m \in RaSystemOf /\ m.angle \in 0 .. RdCircle - 1 /\ m.band = sy.band /\ m.timer = sy.timer
  <2> TAKE a \in Int, d \in {-1, 1}
  <2>1. RdTurn(a) \in 0 .. RdCircle - 1 /\ RdTurn(a) \in 0 .. RdCircle
    BY RaTurn, RdAssumption
  <2> QED BY <2>1 DEF RaSystemOf
<1>6. from + t.speed \in Int /\ t.start + span \in Int /\ t.start + s \in Int
  BY <1>1, <1>3
<1> HIDE DEF Put
<1> QED BY <1>1, <1>4, <1>5, <1>6

\* On an arc, the tick is that of RaX and RaD.
LEMMA RaAdvancedWiper ==
  ASSUME NEW t \in RaTowerOf, NEW sy \in RaSystemOf, t.restrict, RaOnArc(t, sy)
  PROVE  LET m == RdAdvanced(sy, t)
             n == RdSpan(t.start, t.end)
         IN RaAt(m, t) = RaX(RaAt(sy, t), sy.dir, n, t.speed) /\ m.dir = RaD(RaAt(sy, t), sy.dir, n, t.speed)
<1> DEFINE from == RaFrom(sy, t)
           n == RdSpan(t.start, t.end)
           x == RdRel(from, t.start)
           s == x + sy.dir * t.speed
           m == RdAdvanced(sy, t)
<1>1. /\ from \in Int /\ n \in 1 .. RdCircle /\ sy.dir \in {-1, 1} /\ t.speed \in Nat /\ t.start \in 0 .. RdCircle
      /\ RdCircle \in Nat \ {0} /\ RaPlaced(x, sy.dir, n)
  BY RaNumbers, RaAngles, RaSpan DEF RaOnArc, RaAt
<1>2. x = RaAt(sy, t)
  BY DEF RaAt
<1> HIDE DEF from, n
<1>3. x \in 0 .. n
  BY <1>1 DEF RaPlaced
<1>4. s \in Int
  BY <1>1, <1>3
<1>5. m = CASE ~t.restrict -> [sy EXCEPT !.angle = RdTurn(from + t.speed)]
            [] t.restrict /\ s >= n -> [sy EXCEPT !.angle = RdTurn(t.start + n), !.dir = -1]
            [] t.restrict /\ s < n /\ s <= 0 -> [sy EXCEPT !.angle = t.start % RdCircle, !.dir = 1]
            [] OTHER -> [sy EXCEPT !.angle = RdTurn(t.start + s)]
  <2>1. ~(x > n)
    BY <1>1, <1>3
  <2> QED BY <2>1 DEF RdAdvanced, from, n, RaFrom
<1>6. m \in RaSystemOf /\ m.angle \in 0 .. RdCircle - 1
  BY RaAdvancedType
<1>7. RaAt(m, t) = RdRel(m.angle, t.start)
  BY <1>1, <1>6 DEF RaAt, RaFrom, RdNowhere
<1> HIDE DEF s, x, m
<1>8. CASE s >= n
  <2>1. m = [sy EXCEPT !.angle = RdTurn(t.start + n), !.dir = -1]
    BY <1>1, <1>4, <1>5, <1>8
  <2>2. m.angle = RdTurn(t.start + n) /\ m.dir = -1
    BY <2>1 DEF RaSystemOf
  <2>3. RdRel(RdTurn(t.start + n), t.start) = IF n = RdCircle THEN 0 ELSE n
    BY <1>1, RaBack
  <2>4. RaX(x, sy.dir, n, t.speed) = (IF n = RdCircle THEN 0 ELSE n) /\ RaD(x, sy.dir, n, t.speed) = -1
    BY <1>8 DEF RaX, RaD, s
  <2> QED BY <1>2, <1>7, <2>2, <2>3, <2>4 DEF m, n
<1>9. CASE s < n /\ s <= 0
  <2>1. m = [sy EXCEPT !.angle = t.start % RdCircle, !.dir = 1]
    BY <1>1, <1>4, <1>5, <1>9
  <2>2. m.angle = RdTurn(t.start + 0) /\ m.dir = 1
    BY <1>1, <2>1 DEF RaSystemOf, RdTurn
  <2>3. RdRel(RdTurn(t.start + 0), t.start) = 0
    BY <1>1, RaBack
  <2>4. RaX(x, sy.dir, n, t.speed) = 0 /\ RaD(x, sy.dir, n, t.speed) = 1
    BY <1>1, <1>4, <1>9 DEF RaX, RaD, s
  <2> QED BY <1>2, <1>7, <2>2, <2>3, <2>4 DEF m, n
<1>10. CASE s < n /\ s > 0
  <2>1. m = [sy EXCEPT !.angle = RdTurn(t.start + s)]
    BY <1>1, <1>4, <1>5, <1>10
  <2>2. m.angle = RdTurn(t.start + s) /\ m.dir = sy.dir
    BY <2>1 DEF RaSystemOf
  <2>3. RdRel(RdTurn(t.start + s), t.start) = s
    BY <1>1, <1>4, <1>10, RaBack
  <2>4. RaX(x, sy.dir, n, t.speed) = s /\ RaD(x, sy.dir, n, t.speed) = sy.dir
    BY <1>1, <1>4, <1>10 DEF RaX, RaD, s
  <2> QED BY <1>2, <1>7, <2>2, <2>3, <2>4 DEF m, n
<1> QED BY <1>1, <1>4, <1>8, <1>9, <1>10

\* Without an arc, the band passes the enemy or is the tick's step nearer to it.
LEMMA RaAdvancedFree ==
  ASSUME NEW t \in RaTowerOf, NEW sy \in RaSystemOf, ~t.restrict, NEW at \in 0 .. RdCircle - 1
  PROVE  LET m == RdAdvanced(sy, t)
             p == RaPast(sy, t, at)
             q == RaPast(m, t, at)
         IN /\ m.dir = sy.dir
            /\ \/ q = p + t.speed
               \/ RdGap(at, m.angle) < t.width /\ (sy.angle = RdNowhere \/ ~(RdGap(at, sy.angle) < t.width))
<1> DEFINE from == RaFrom(sy, t)
           m == RdAdvanced(sy, t)
           s == t.speed
           w == t.width
           p == RaPast(sy, t, at)
           q == RaPast(m, t, at)
           C == RdCircle
<1>1. /\ from \in 0 .. C - 1 /\ s \in 1 .. C /\ w \in 1 .. C /\ s < 2 * w /\ s + 2 * w <= C /\ C \in Nat \ {0}
      /\ at \in 0 .. C - 1
  BY RaNumbers, RaAngles
<1>2. m = [sy EXCEPT !.angle = RdTurn(from + s)]
  BY DEF RdAdvanced, RaFrom
<1>3. m.angle = RdTurn(from + s) /\ m.dir = sy.dir
  BY <1>2 DEF RaSystemOf
<1>4. m \in RaSystemOf /\ m.angle \in 0 .. C - 1
  BY RaAdvancedType
<1>5. RaFrom(m, t) = m.angle /\ (sy.angle # RdNowhere => sy.angle = from)
  BY <1>1, <1>4 DEF RaFrom, RdNowhere
<1>6. p = RdTurn(from - at + w - 1) /\ q = RdTurn(m.angle - at + w - 1)
  BY <1>5 DEF RaPast
<1>7. m.angle = IF from + s < C THEN from + s ELSE from + s - C
  <2>1. from + s \in Int
    BY <1>1
  <2> QED BY <1>1, <1>3, <2>1, RaTurn
<1> DEFINE mo == m.angle
<1> HIDE DEF from, m, p, q, s, w, mo
<1>8. mo \in 0 .. C - 1 /\ mo = (IF from + s < C THEN from + s ELSE from + s - C)
  BY <1>4, <1>7 DEF mo
\* A needle a is over the enemy just when it is less than the band past the band's near side.
<1>9. \A a \in 0 .. C - 1 : RdTurn(a - at + w - 1) \in 0 .. C - 1
                            /\ (RdGap(at, a) < w <=> RdTurn(a - at + w - 1) <= 2 * w - 2)
  <2> TAKE a \in 0 .. C - 1
  <2>1. a - at + w - 1 \in Int /\ at - a \in Int
    BY <1>1
  <2>2. RdTurn(a - at + w - 1) = IF a - at + w - 1 < 0 THEN a - at + w - 1 + C
                                 ELSE IF a - at + w - 1 < C THEN a - at + w - 1 ELSE a - at + w - 1 - C
    BY <1>1, <2>1, RaTurn
  <2>3. RdTurn(at - a) = IF at - a < 0 THEN at - a + C ELSE at - a
    BY <1>1, <2>1, RaTurn
  <2>4. RdGap(at, a) = IF RdTurn(at - a) <= C - RdTurn(at - a) THEN RdTurn(at - a) ELSE C - RdTurn(at - a)
    BY DEF RdGap
  <2> QED BY <1>1, <2>2, <2>3, <2>4
<1>10. p = RdTurn(from - at + w - 1) /\ p \in 0 .. C - 1 /\ (RdGap(at, from) < w <=> p <= 2 * w - 2)
  BY <1>1, <1>6, <1>9
<1>11. q = RdTurn(mo - at + w - 1) /\ q \in 0 .. C - 1 /\ (RdGap(at, mo) < w <=> q <= 2 * w - 2)
  BY <1>6, <1>8, <1>9 DEF mo
<1>12. q = IF p + s < C THEN p + s ELSE p + s - C
  <2>1. from - at + w - 1 \in Int /\ mo - at + w - 1 \in Int
    BY <1>1, <1>8
  <2>2. p = IF from - at + w - 1 < 0 THEN from - at + w - 1 + C
            ELSE IF from - at + w - 1 < C THEN from - at + w - 1 ELSE from - at + w - 1 - C
    BY <1>1, <1>10, <2>1, RaTurn
  <2>3. q = IF mo - at + w - 1 < 0 THEN mo - at + w - 1 + C
            ELSE IF mo - at + w - 1 < C THEN mo - at + w - 1 ELSE mo - at + w - 1 - C
    BY <1>1, <1>8, <1>11, <2>1, RaTurn
  <2> QED BY <1>1, <1>8, <1>10, <1>11, <2>2, <2>3
<1>13. CASE p + s < C
  BY <1>3, <1>12, <1>13 DEF m, p, q, s
<1>14. CASE ~(p + s < C)
  <2>1. q <= 2 * w - 2 /\ ~(p <= 2 * w - 2)
    BY <1>1, <1>10, <1>12, <1>14
  <2>2. RdGap(at, mo) < w /\ ~(RdGap(at, from) < w)
    BY <1>10, <1>11, <2>1
  <2> QED BY <1>3, <1>5, <2>2 DEF m, w, mo
<1> QED BY <1>13, <1>14


\* One tick of the needle: the enemy it comes over is hit, any other waits a tick less.
LEMMA RaTickKeeps ==
  ASSUME NEW t, NEW sy, NEW foe, RaTyped(t, sy, foe), RaOnArc(t, sy), ~RdNarrow(t), RaAimed(t, foe),
         sy.band => sy.angle # RdNowhere /\ RaUnder(sy, t, foe)
  PROVE  LET m == RdAdvanced(sy, t)
         IN \/ RaLeft(m, t, foe.at) <= RaLeft(sy, t, foe.at) - 1
            \/ RaUnder(m, t, foe) /\ ~sy.band
<1> DEFINE m == RdAdvanced(sy, t)
           at == foe.at
<1>1. t \in RaTowerOf /\ sy \in RaSystemOf /\ at \in 0 .. RdCircle - 1 /\ t.restrict \in BOOLEAN
  BY RaNumbers DEF RaTyped, RaFoeOf
<1>2. m \in RaSystemOf /\ m.angle \in 0 .. RdCircle - 1
  BY <1>1, RaAdvancedType
<1>3. RaUnder(m, t, foe) <=> RdGap(at, m.angle) < t.width
  BY DEF RaUnder
<1>4. sy.band => sy.angle # RdNowhere /\ RdGap(at, sy.angle) < t.width
  BY DEF RaUnder
<1> HIDE DEF m, at
<1>5. CASE t.restrict
  <2> DEFINE n == RdSpan(t.start, t.end)
             f == RdRel(at, t.start)
             x == RaAt(sy, t)
             y == RaAt(m, t)
  <2>1. y = RaX(x, sy.dir, n, t.speed) /\ m.dir = RaD(x, sy.dir, n, t.speed)
    BY <1>1, <1>5, RaAdvancedWiper DEF m
  <2>2. RaWiper(f, n, t.width, t.speed) /\ RaPlaced(x, sy.dir, n)
    BY <1>1, <1>5, RaIsWiper DEF RaOnArc, RaAimed, at
  <2>3. RaLeft(sy, t, at) = RaWait(x, sy.dir, f, n, t.width, t.speed)
        /\ RaLeft(m, t, at) = RaWait(y, m.dir, f, n, t.width, t.speed)
    BY <1>5 DEF RaLeft
  <2>4. /\ t.start \in 0 .. RdCircle /\ t.width \in 1 .. RdCircle
        /\ RaFrom(m, t) = m.angle /\ y = RdRel(m.angle, t.start)
    BY <1>1, <1>2, RaNumbers DEF RaAt, RaFrom, RdNowhere
  <2>5. sy.angle # RdNowhere => sy.angle \in 0 .. RdCircle - 1 /\ x = RdRel(sy.angle, t.start)
    BY <1>1, RaAngles DEF RaAt, RaFrom
  <2>6. RdGap(at, m.angle) < t.width <=> RaNear(y, f, t.width)
    BY <1>1, <1>2, <2>4, RaGap
  <2>7. sy.angle # RdNowhere => (RdGap(at, sy.angle) < t.width <=> RaNear(x, f, t.width))
    BY <1>1, <2>4, <2>5, RaGap
  <2> HIDE DEF n, f, x, y
  <2>8. \/ RaWait(y, m.dir, f, n, t.width, t.speed) <= RaWait(x, sy.dir, f, n, t.width, t.speed) - 1
        \/ RaNear(y, f, t.width) /\ ~RaNear(x, f, t.width)
    BY <2>1, <2>2, RaTick
  <2> QED BY <1>3, <1>4, <2>3, <2>6, <2>7, <2>8 DEF m, at
<1>6. CASE ~t.restrict
  <2> DEFINE p == RaPast(sy, t, at)
             q == RaPast(m, t, at)
             s == t.speed
  <2>1. \/ q = p + s
        \/ RdGap(at, m.angle) < t.width /\ (sy.angle = RdNowhere \/ ~(RdGap(at, sy.angle) < t.width))
    BY <1>1, <1>6, RaAdvancedFree DEF m
  <2>2. CASE q = p + s
    <3>1. RaFrom(sy, t) - at + t.width - 1 \in Int /\ RdCircle \in Nat /\ s \in Nat \ {0}
      BY <1>1, RaNumbers, RaAngles
    <3>2. p \in 0 .. RdCircle - 1
      BY <3>1, RaTurn DEF RaPast
    <3>3. RaLeft(sy, t, at) = RdCeil(RdCircle - p, s) /\ RaLeft(m, t, at) = RdCeil(RdCircle - q, s)
      BY <1>6 DEF RaLeft, RdNarrow
    <3> HIDE DEF p, q, s
    <3>4. RdCircle - p \in Int /\ RdCircle - q = RdCircle - p - s
      BY <2>2, <3>1, <3>2
    <3>5. RdCeil(RdCircle - p - s, s) = RdCeil(RdCircle - p, s) - 1
      BY <3>1, <3>4, RaCeil
    <3>6. RdCeil(RdCircle - q, s) = RdCeil(RdCircle - p, s) - 1
      BY <3>4, <3>5
    <3>7. RaLeft(m, t, at) = RaLeft(sy, t, at) - 1
      BY <3>3, <3>6
    <3>8. RdCeil(RdCircle - p, s) \in Int
      BY <3>1, <3>4, RaCeil
    <3> QED BY <3>3, <3>7, <3>8 DEF m, at
  <2>3. CASE RdGap(at, m.angle) < t.width /\ (sy.angle = RdNowhere \/ ~(RdGap(at, sy.angle) < t.width))
    BY <1>3, <1>4, <2>3 DEF m, at
  <2> QED BY <2>1, <2>2, <2>3
<1> QED BY <1>1, <1>5, <1>6

\* What a tick makes of the enemy.
RaHit(foe) == [foe EXCEPT !.hit = TRUE, !.since = 0]
RaSpared(t, foe) ==
  [foe EXCEPT !.since = IF RaAimed(t, foe) THEN foe.since + 1 ELSE 0, !.hit = foe.hit /\ RaAimed(t, foe)]

LEMMA RaFoeAfter ==
  ASSUME NEW t, NEW foe \in RaFoeOf, NEW g, g = RaHit(foe) \/ g = RaSpared(t, foe)
  PROVE  /\ g \in RaFoeOf /\ g.at = foe.at /\ g.here = foe.here
         /\ (RaAimed(t, g) <=> RaAimed(t, foe))
         /\ g = RaHit(foe) => g.since = 0
         /\ g = RaSpared(t, foe) => g.since = IF RaAimed(t, foe) THEN foe.since + 1 ELSE 0
<1>1. CASE g = RaHit(foe)
  <2>1. g \in RaFoeOf /\ g.at = foe.at /\ g.here = foe.here /\ g.since = 0
    BY <1>1 DEF RaHit, RaFoeOf
  <2>2. foe.since \in Nat
    BY DEF RaFoeOf
  <2>3. RaAimed(t, foe) => g # RaSpared(t, foe)
    <3>1. RaAimed(t, foe) => RaSpared(t, foe).since = foe.since + 1
      BY DEF RaSpared, RaFoeOf
    <3> QED BY <2>1, <2>2, <3>1
  <2> QED BY <2>1, <2>3 DEF RaAimed
<1>2. CASE g = RaSpared(t, foe)
  <2> DEFINE aimed == RaAimed(t, foe)
  <2>1. RaAimed(t, foe) \in BOOLEAN
    BY DEF RaAimed, RaFoeOf, RdInArc
  <2> HIDE DEF aimed
  <2>2. g = [foe EXCEPT !.since = IF aimed THEN foe.since + 1 ELSE 0, !.hit = foe.hit /\ aimed]
    BY <1>2 DEF RaSpared, aimed
  <2> DEFINE next == IF aimed THEN foe.since + 1 ELSE 0
             still == foe.hit /\ aimed
  <2>5. next \in Nat /\ still \in BOOLEAN
    BY <2>1 DEF RaFoeOf, aimed
  <2>6. g = [foe EXCEPT !.since = next, !.hit = still]
    BY <2>2
  <2> HIDE DEF next, still
  <2>7. g \in RaFoeOf /\ g.at = foe.at /\ g.here = foe.here /\ g.since = next
    BY <2>5, <2>6 DEF RaFoeOf
  <2>3. g \in RaFoeOf /\ g.at = foe.at /\ g.here = foe.here /\ g.since = IF aimed THEN foe.since + 1 ELSE 0
    BY <2>7 DEF next
  <2>4. aimed => g # RaHit(foe)
    <3>1. RaHit(foe).since = 0 /\ foe.since \in Nat
      BY DEF RaHit, RaFoeOf
    <3> QED BY <2>3, <3>1
  <2> QED BY <2>3, <2>4 DEF RaAimed, aimed
<1> QED BY <1>1, <1>2

LEMMA RaSweepKeeps ==
  ASSUME NEW t, NEW sy, NEW foe, RaGood(t, sy, foe), ~RdNarrow(t), t.phase = "WAVE",
         NEW m, m = RdAdvanced(sy, t),
         NEW z, z = [m EXCEPT !.band = RaUnder(m, t, foe)],
         NEW g, g = IF RaUnder(m, t, foe) /\ ~sy.band THEN RaHit(foe) ELSE RaSpared(t, foe)
  PROVE  RaGood(t, z, g)
<1>1. /\ RaTyped(t, sy, foe) /\ RaOnArc(t, sy) /\ sy.timer <= 2 * t.width
      /\ (~foe.here \/ RdNarrow(t) => ~sy.band) /\ (t.phase = "BUILD" => ~foe.here)
      /\ (sy.band => sy.angle # RdNowhere /\ RaUnder(sy, t, foe))
      /\ (~RaAimed(t, foe) => foe.since = 0)
      /\ (RaAimed(t, foe) => foe.since + RaLeft(sy, t, foe.at) <= RdPeriod(t) + 1)
  BY DEF RaGood
<1>2. t \in RaTowerOf /\ sy \in RaSystemOf /\ foe \in RaFoeOf
  BY <1>1 DEF RaTyped
<1>3. m \in RaSystemOf /\ m.angle \in 0 .. RdCircle - 1 /\ m.timer = sy.timer
  BY <1>2, RaAdvancedType
<1>4. RaUnder(m, t, foe) \in BOOLEAN
  BY <1>2 DEF RaUnder, RaAimed, RaFoeOf, RdInArc
<1>5. z \in RaSystemOf /\ z.angle = m.angle /\ z.dir = m.dir /\ z.timer = sy.timer /\ z.band = RaUnder(m, t, foe)
  BY <1>3, <1>4 DEF RaSystemOf
<1>6. RaFrom(z, t) = RaFrom(m, t)
  BY <1>5 DEF RaFrom
<1>7. RaAt(z, t) = RaAt(m, t)
  BY <1>6 DEF RaAt
<1>8. RaLeft(z, t, foe.at) = RaLeft(m, t, foe.at)
  BY <1>3, <1>5, <1>6, <1>7 DEF RaLeft, RaPast
<1>9. /\ g \in RaFoeOf /\ g.at = foe.at /\ g.here = foe.here /\ (RaAimed(t, g) <=> RaAimed(t, foe))
      /\ (RaUnder(m, t, foe) /\ ~sy.band => g.since = 0)
      /\ (~(RaUnder(m, t, foe) /\ ~sy.band) => g.since = IF RaAimed(t, foe) THEN foe.since + 1 ELSE 0)
  BY <1>2, RaFoeAfter
<1>10. RaOnArc(t, z)
  <2>1. ASSUME t.restrict
        PROVE  t.start # t.end /\ RaPlaced(RaAt(z, t), z.dir, RdSpan(t.start, t.end))
    <3> DEFINE n == RdSpan(t.start, t.end)
    <3>1. RaPlaced(RaAt(sy, t), sy.dir, n) /\ t.start # t.end
      BY <1>1, <2>1 DEF RaOnArc
    <3>2. RaAt(m, t) = RaX(RaAt(sy, t), sy.dir, n, t.speed) /\ m.dir = RaD(RaAt(sy, t), sy.dir, n, t.speed)
      BY <1>1, <1>2, <2>1, RaAdvancedWiper
    <3>3. n \in 1 .. RdCircle /\ t.speed \in Nat \ {0}
      BY <1>2, <3>1, RaSpan, RaNumbers
    <3> HIDE DEF n
    <3>4. RaPlaced(RaAt(m, t), m.dir, n)
      BY <3>1, <3>2, <3>3, RaPlacedNext
    <3> QED BY <1>5, <1>7, <3>1, <3>4 DEF n
  <2> QED BY <2>1 DEF RaOnArc
<1>11. RaTyped(t, z, g)
  BY <1>2, <1>5, <1>9 DEF RaTyped
<1>12. RaAimed(t, g) => RaLeft(z, t, g.at) \in 1 .. RdPeriod(t) + 1
  BY <1>1, <1>5, <1>10, <1>11, RaLeftBounds
<1>13. RaAimed(t, foe) => RaLeft(sy, t, foe.at) \in 1 .. RdPeriod(t) + 1
  BY <1>1, RaLeftBounds
<1>14. RdPeriod(t) \in Nat /\ foe.since \in Nat
  BY <1>2, RaPeriod DEF RaFoeOf
<1>15. RaAimed(t, g) => g.since + RaLeft(z, t, g.at) <= RdPeriod(t) + 1
  <2>1. CASE RaUnder(m, t, foe) /\ ~sy.band
    BY <1>9, <1>12, <1>14, <2>1
  <2>2. CASE ~(RaUnder(m, t, foe) /\ ~sy.band) /\ RaAimed(t, foe)
    <3>1. RaLeft(m, t, foe.at) <= RaLeft(sy, t, foe.at) - 1
      BY <1>1, <2>2, RaTickKeeps
    <3> QED BY <1>1, <1>8, <1>9, <1>12, <1>13, <1>14, <2>2, <3>1
  <2> QED BY <1>9, <2>1, <2>2
<1>16. ~RaAimed(t, g) => g.since = 0
  BY <1>9
<1>17. RaUnder(z, t, g) <=> RaUnder(m, t, foe)
  BY <1>5, <1>9 DEF RaUnder
<1>18. z.angle # RdNowhere
  BY <1>3, <1>5 DEF RdNowhere
<1>19. ~g.here => ~z.band
  BY <1>5, <1>9 DEF RaUnder, RaAimed
<1> QED BY <1>1, <1>5, <1>10, <1>11, <1>15, <1>16, <1>17, <1>18, <1>19 DEF RaGood


\* A pulse of a narrow arc: the timer counts down to the next one.
LEMMA RaPulseKeeps ==
  ASSUME NEW t, NEW sy, NEW foe, RaGood(t, sy, foe), RdNarrow(t), t.phase = "WAVE",
         NEW z, z = [RdAdvanced(sy, t) EXCEPT
                       !.timer = IF sy.timer - 1 <= 0 THEN @ - 1 + ((2 * t.width) \div t.speed) ELSE @ - 1],
         NEW g, g = IF sy.timer - 1 <= 0 /\ RaAimed(t, foe) THEN RaHit(foe) ELSE RaSpared(t, foe)
  PROVE  RaGood(t, z, g)
<1> DEFINE m == RdAdvanced(sy, t)
           k == sy.timer
           interval == (2 * t.width) \div t.speed
           l == IF k - 1 <= 0 THEN k - 1 + interval ELSE k - 1
<1>1. /\ RaTyped(t, sy, foe) /\ RaOnArc(t, sy) /\ k <= 2 * t.width
      /\ ~sy.band /\ (t.phase = "BUILD" => ~foe.here)
      /\ (~RaAimed(t, foe) => foe.since = 0)
      /\ (RaAimed(t, foe) => foe.since + RaLeft(sy, t, foe.at) <= RdPeriod(t) + 1)
  BY DEF RaGood
<1>2. t \in RaTowerOf /\ sy \in RaSystemOf /\ foe \in RaFoeOf /\ k \in Nat
  BY <1>1, RaAngles DEF RaTyped
<1>3. m \in RaSystemOf /\ m.timer = k /\ ~m.band
  BY <1>1, <1>2, RaAdvancedType
<1>4. interval \in 1 .. 2 * t.width /\ t.width \in Nat
  <2> DEFINE w == t.width
             s == t.speed
  <2>1. w \in Nat \ {0} /\ s \in Nat \ {0} /\ s < 2 * w
    BY <1>2, RaNumbers
  <2> HIDE DEF w, s
  <2>2. (2 * w) \div s \in 1 .. 2 * w
    BY <2>1
  <2> QED BY <2>1, <2>2 DEF w, s
<1> HIDE DEF m, k, interval
<1>5. l \in 0 .. 2 * t.width /\ (k - 1 > 0 => l = k - 1 /\ l > 0)
  BY <1>1, <1>2, <1>4
<1>6. z = [m EXCEPT !.timer = l]
  BY <1>3 DEF m, k, interval
<1> HIDE DEF l
<1>7. z \in RaSystemOf /\ z.angle = m.angle /\ z.dir = m.dir /\ z.timer = l /\ ~z.band
  <2>1. l \in Nat
    BY <1>4, <1>5
  <2> QED BY <1>3, <1>6, <2>1 DEF RaSystemOf
<1>8. /\ g \in RaFoeOf /\ g.at = foe.at /\ g.here = foe.here /\ (RaAimed(t, g) <=> RaAimed(t, foe))
      /\ (k - 1 <= 0 /\ RaAimed(t, foe) => g.since = 0)
      /\ (~(k - 1 <= 0 /\ RaAimed(t, foe)) => g.since = IF RaAimed(t, foe) THEN foe.since + 1 ELSE 0)
  BY <1>2, RaFoeAfter DEF k
<1>9. RaFrom(z, t) = RaFrom(m, t)
  BY <1>7 DEF RaFrom
<1>10. RaAt(z, t) = RaAt(m, t)
  BY <1>9 DEF RaAt
<1>11. RaOnArc(t, z)
  <2> DEFINE n == RdSpan(t.start, t.end)
  <2>1. t.restrict
    BY DEF RdNarrow
  <2>2. RaPlaced(RaAt(sy, t), sy.dir, n) /\ t.start # t.end
    BY <1>1, <2>1 DEF RaOnArc
  <2>3. RaAt(m, t) = RaX(RaAt(sy, t), sy.dir, n, t.speed) /\ m.dir = RaD(RaAt(sy, t), sy.dir, n, t.speed)
    BY <1>1, <1>2, <2>1, RaAdvancedWiper DEF m
  <2>4. n \in 1 .. RdCircle /\ t.speed \in Nat \ {0}
    BY <1>2, <2>2, RaSpan, RaNumbers
  <2> HIDE DEF n
  <2>5. RaPlaced(RaAt(m, t), m.dir, n)
    BY <2>2, <2>3, <2>4, RaPlacedNext
  <2> QED BY <1>7, <1>10, <2>2, <2>5 DEF RaOnArc, n
<1>12. RaTyped(t, z, g)
  BY <1>2, <1>7, <1>8 DEF RaTyped
<1>13. z.timer <= 2 * t.width
  BY <1>4, <1>5, <1>7
<1>14. RaAimed(t, g) => RaLeft(z, t, g.at) \in 1 .. RdPeriod(t) + 1
  BY <1>11, <1>12, <1>13, RaLeftBounds
<1>15. RdPeriod(t) \in Nat /\ foe.since \in Nat
  BY <1>2, RaPeriod DEF RaFoeOf
<1>16. RaAimed(t, g) => g.since + RaLeft(z, t, g.at) <= RdPeriod(t) + 1
  <2>1. CASE k - 1 <= 0 /\ RaAimed(t, foe)
    BY <1>8, <1>14, <1>15, <2>1
  <2>2. CASE ~(k - 1 <= 0) /\ RaAimed(t, foe)
    <3>1. RaLeft(sy, t, foe.at) = k /\ RaLeft(z, t, foe.at) = k - 1
      BY <1>2, <1>5, <1>7, <2>2 DEF RaLeft, k
    <3>2. g.since = foe.since + 1
      BY <1>8, <2>2
    <3> QED BY <1>1, <1>2, <1>8, <1>15, <2>2, <3>1, <3>2
  <2> QED BY <1>2, <1>8, <2>1, <2>2
<1>17. ~RaAimed(t, g) => g.since = 0
  BY <1>8
<1>18. t.phase = "BUILD" => ~g.here
  BY <1>1, <1>8
<1> QED BY <1>7, <1>11, <1>12, <1>13, <1>16, <1>17, <1>18 DEF RaGood

(***************************************************************************)
(* The other actions                                                       *)
(***************************************************************************)
\* With no enemy, nothing is counted.
LEMMA RaGoodWithout ==
  ASSUME NEW t, NEW sy, NEW foe, RaTyped(t, sy, foe), RaOnArc(t, sy), sy.timer <= 2 * t.width,
         ~foe.here, foe.since = 0, ~sy.band
  PROVE  RaGood(t, sy, foe)
BY DEF RaGood, RaAimed

LEMMA RaForgotten ==
  ASSUME NEW t \in RaTowerOf, t.restrict => t.start # t.end
  PROVE  RdForgotten \in RaSystemOf /\ RaOnArc(t, RdForgotten)
<1>1. RdForgotten \in RaSystemOf
  BY RdAssumption DEF RdForgotten, RaSystemOf, RdNowhere
<1>2. ASSUME t.restrict PROVE RaPlaced(RaAt(RdForgotten, t), RdForgotten.dir, RdSpan(t.start, t.end))
  <2>1. RaFrom(RdForgotten, t) = t.start /\ RdForgotten.dir = 1
    BY <1>2 DEF RaFrom, RdForgotten
  <2>2. RdCircle \in Nat \ {0} /\ t.start \in Int /\ t.start - t.start = 0
    BY RaNumbers
  <2>3. RaAt(RdForgotten, t) = 0
    BY <2>1, <2>2, RaTurn DEF RaAt, RdRel
  <2>4. RdSpan(t.start, t.end) \in 1 .. RdCircle
    BY <1>2, RaSpan
  <2> QED BY <2>1, <2>2, <2>3, <2>4 DEF RaPlaced
<1> QED BY <1>1, <1>2 DEF RaOnArc

LEMMA RaInitial == RdInit => RadarInv
<1> SUFFICES ASSUME RdInit PROVE RadarInv
  OBVIOUS
<1>1. rdTower \in RaTowerOf /\ ~rdTower.restrict
  <2>1. RdCircle \in Nat \ {0} /\ RdCircle \div 4 \in 0 .. RdCircle
    BY RdAssumption
  <2>2. PICK speed \in RdSpeeds, width \in RdWidths :
          rdTower = [ phase |-> "BUILD", built |-> TRUE, configured |-> FALSE, disabled |-> FALSE, start |-> 0,
                      end |-> RdCircle \div 4, restrict |-> FALSE, speed |-> speed, width |-> width, calls |-> 0 ]
    BY DEF RdInit
  <2> DEFINE quarter == RdCircle \div 4
  <2> HIDE DEF quarter
  <2>3. rdTower = [ phase |-> "BUILD", built |-> TRUE, configured |-> FALSE, disabled |-> FALSE, start |-> 0,
                    end |-> quarter, restrict |-> FALSE, speed |-> speed, width |-> width, calls |-> 0 ]
        /\ quarter \in 0 .. RdCircle /\ 0 \in 0 .. RdCircle
    BY <2>1, <2>2 DEF quarter
  <2> QED BY <2>3 DEF RaTowerOf
<1>2. rdSystem = RdForgotten /\ RdForgotten.timer = 0 /\ ~RdForgotten.band
  BY DEF RdInit, RdForgotten
<1>3. rdFoe \in RaFoeOf /\ ~rdFoe.here /\ rdFoe.since = 0
  BY RdAssumption DEF RdInit, RaFoeOf
<1>4. rdSystem \in RaSystemOf /\ RaOnArc(rdTower, rdSystem)
  BY <1>1, <1>2, RaForgotten
<1>5. rdTower.width \in Nat
  BY <1>1, RaNumbers
<1> QED BY <1>1, <1>2, <1>3, <1>4, <1>5, RaGoodWithout DEF RadarInv, RaTyped

\* Between waves the tower, and the entries of its system, may change.
LEMMA RaBuildStep ==
  ASSUME RadarInv, RdApply \/ RdUpgrade \/ RdSold \/ RdWaveStart
  PROVE  RadarInv'
<1>1. /\ rdTower \in RaTowerOf /\ rdSystem \in RaSystemOf /\ rdFoe \in RaFoeOf
      /\ RaOnArc(rdTower, rdSystem) /\ rdSystem.timer <= 2 * rdTower.width
      /\ (rdTower.phase = "BUILD" => ~rdFoe.here /\ ~rdSystem.band /\ rdFoe.since = 0)
  BY DEF RadarInv, RaGood, RaTyped, RaAimed
<1>2. rdTower.phase = "BUILD" /\ rdFoe' = rdFoe
  BY DEF RdApply, RdPanel, RdUpgrade, RdSold, RdWaveStart
<1>3. ASSUME rdTower' \in RaTowerOf, rdSystem' \in RaSystemOf, RaOnArc(rdTower, rdSystem)',
             (rdSystem.timer <= 2 * rdTower.width)', ~rdSystem'.band
      PROVE  RadarInv'
  BY <1>1, <1>2, <1>3, RaGoodWithout DEF RadarInv, RaTyped
<1>4. RdForgotten.timer = 0 /\ ~RdForgotten.band
  BY DEF RdForgotten
<1>5. CASE RdApply
  <2>1. PICK arc \in RdArcs, restrict \in BOOLEAN :
          /\ restrict => arc[1] # arc[2]
          /\ rdTower' = [rdTower EXCEPT !.start = arc[1], !.end = arc[2], !.restrict = restrict,
                                        !.configured = TRUE, !.calls = @ + 1]
    BY <1>5 DEF RdApply
  <2>2. arc[1] \in 0 .. RdCircle /\ arc[2] \in 0 .. RdCircle
    BY RdAssumption
  <2>3. rdTower' \in RaTowerOf /\ rdTower'.start = arc[1] /\ rdTower'.end = arc[2] /\ rdTower'.restrict = restrict
    <3> DEFINE calls == rdTower.calls + 1
               first == arc[1]
               last == arc[2]
    <3>1. calls \in Nat /\ first \in 0 .. RdCircle /\ last \in 0 .. RdCircle
      BY <1>1, <2>2 DEF RaTowerOf
    <3>2. rdTower' = [rdTower EXCEPT !.start = first, !.end = last, !.restrict = restrict,
                                     !.configured = TRUE, !.calls = calls]
      BY <2>1
    <3> HIDE DEF calls, first, last
    <3>3. rdTower' \in RaTowerOf /\ rdTower'.start = first /\ rdTower'.end = last /\ rdTower'.restrict = restrict
      BY <1>1, <3>1, <3>2 DEF RaTowerOf
    <3> QED BY <3>3 DEF first, last
  <2>4. RdForgotten \in RaSystemOf /\ RaOnArc(rdTower', RdForgotten)
    BY <2>1, <2>3, RaForgotten
  <2>5. rdSystem' = RdForgotten
    BY <1>5 DEF RdApply
  <2>6. rdTower'.width \in Nat
    BY <2>3, RaNumbers
  <2> QED BY <1>3, <1>4, <2>3, <2>4, <2>5, <2>6
<1>6. CASE RdUpgrade
  <2>1. PICK speed \in RdSpeeds, width \in RdWidths :
          /\ width >= rdTower.width
          /\ rdTower' = [rdTower EXCEPT !.speed = speed, !.width = width, !.calls = @ + 1]
    BY <1>6 DEF RdUpgrade
  <2>2. rdTower' \in RaTowerOf /\ rdTower'.width = width /\ rdTower'.start = rdTower.start
        /\ rdTower'.end = rdTower.end /\ rdTower'.restrict = rdTower.restrict
    <3> DEFINE calls == rdTower.calls + 1
    <3>1. calls \in Nat /\ rdTower' = [rdTower EXCEPT !.speed = speed, !.width = width, !.calls = calls]
      BY <1>1, <2>1 DEF RaTowerOf
    <3> HIDE DEF calls
    <3> QED BY <1>1, <3>1 DEF RaTowerOf
  <2>3. rdSystem' = rdSystem
    BY <1>6 DEF RdUpgrade
  <2>4. RaOnArc(rdTower', rdSystem)
    BY <1>1, <2>2 DEF RaOnArc, RaAt, RaFrom
  <2>5. rdTower.width \in Nat /\ rdTower'.width \in Nat /\ rdSystem.timer \in Nat
    BY <1>1, <2>2, RaNumbers, RaAngles
  <2>6. rdSystem.timer <= 2 * rdTower'.width
    BY <1>1, <2>1, <2>2, <2>5
  <2> QED BY <1>1, <1>2, <1>3, <2>2, <2>3, <2>4, <2>6
<1>7. CASE RdSold
  <2>1. rdTower' = [rdTower EXCEPT !.built = FALSE] /\ rdSystem' = RdForgotten
    BY <1>7 DEF RdSold
  <2>2. rdTower' \in RaTowerOf /\ rdTower'.start = rdTower.start /\ rdTower'.end = rdTower.end
        /\ rdTower'.restrict = rdTower.restrict
    BY <1>1, <2>1 DEF RaTowerOf
  <2>3. RdForgotten \in RaSystemOf /\ RaOnArc(rdTower', RdForgotten)
    BY <1>1, <2>2, RaForgotten DEF RaOnArc
  <2>4. rdTower'.width \in Nat
    BY <2>2, RaNumbers
  <2> QED BY <1>3, <1>4, <2>1, <2>2, <2>3, <2>4
<1>8. CASE RdWaveStart
  <2>1. rdTower' = [rdTower EXCEPT !.phase = "WAVE"] /\ rdSystem' = rdSystem
    BY <1>8 DEF RdWaveStart
  <2>2. rdTower' \in RaTowerOf /\ rdTower'.start = rdTower.start /\ rdTower'.end = rdTower.end
        /\ rdTower'.restrict = rdTower.restrict /\ rdTower'.width = rdTower.width
    BY <1>1, <2>1 DEF RaTowerOf
  <2>3. RaOnArc(rdTower', rdSystem)
    BY <1>1, <2>2 DEF RaOnArc, RaAt, RaFrom
  <2> QED BY <1>1, <1>2, <1>3, <2>1, <2>2, <2>3
<1> QED BY <1>5, <1>6, <1>7, <1>8

\* An enemy that comes waits for a turn of the needle at most; one that goes does not wait.
LEMMA RaFoeStep ==
  ASSUME RadarInv, RdComes \/ RdGoes
  PROVE  RadarInv'
<1>1. /\ rdTower \in RaTowerOf /\ rdSystem \in RaSystemOf /\ rdFoe \in RaFoeOf
      /\ RaOnArc(rdTower, rdSystem) /\ rdSystem.timer <= 2 * rdTower.width
      /\ (rdTower.phase = "BUILD" => ~rdFoe.here)
  BY DEF RadarInv, RaGood, RaTyped
<1>2. rdTower' = rdTower /\ rdSystem' = [rdSystem EXCEPT !.band = FALSE]
  BY DEF RdComes, RdGoes
<1>3. PICK at \in 0 .. RdCircle - 1, here \in BOOLEAN :
        /\ rdFoe' = [at |-> at, here |-> here, hit |-> FALSE, since |-> 0]
        /\ here => rdTower.phase = "WAVE"
  <2>1. 0 \in 0 .. RdCircle - 1
    BY RdAssumption
  <2> QED BY <2>1 DEF RdComes, RdGoes
<1>4. rdFoe' \in RaFoeOf /\ rdFoe'.since = 0 /\ rdFoe'.here = here
  BY <1>3 DEF RaFoeOf
<1>5. rdSystem' \in RaSystemOf /\ rdSystem'.angle = rdSystem.angle /\ rdSystem'.dir = rdSystem.dir
      /\ rdSystem'.timer = rdSystem.timer /\ ~rdSystem'.band
  BY <1>1, <1>2 DEF RaSystemOf
<1>6. RaOnArc(rdTower, rdSystem')
  BY <1>1, <1>5 DEF RaOnArc, RaAt, RaFrom
<1>7. RaTyped(rdTower, rdSystem', rdFoe')
  BY <1>1, <1>4, <1>5 DEF RaTyped
<1>8. RaAimed(rdTower, rdFoe') => RaLeft(rdSystem', rdTower, rdFoe'.at) \in 1 .. RdPeriod(rdTower) + 1
  BY <1>1, <1>5, <1>6, <1>7, RaLeftBounds
<1>9. RaAimed(rdTower, rdFoe') => rdFoe'.since + RaLeft(rdSystem', rdTower, rdFoe'.at) <= RdPeriod(rdTower) + 1
  <2>1. RdPeriod(rdTower) \in Nat
    BY <1>1, RaPeriod
  <2> QED BY <1>4, <1>8, <2>1
<1>10. RaGood(rdTower, rdSystem', rdFoe')
  BY <1>1, <1>3, <1>4, <1>5, <1>6, <1>7, <1>9 DEF RaGood
<1> QED BY <1>2, <1>10 DEF RadarInv

\* The end of a wave, and a buff that disables the tower, leave its needle where it is.
LEMMA RaTowerStep ==
  ASSUME RadarInv, RdWaveEnd \/ RdDisable
  PROVE  RadarInv'
<1>1. RaGood(rdTower, rdSystem, rdFoe) /\ rdTower \in RaTowerOf /\ rdTower.disabled \in BOOLEAN
  BY DEF RadarInv, RaGood, RaTyped, RaTowerOf
<1>2. rdSystem' = rdSystem /\ rdFoe' = rdFoe
  BY DEF RdWaveEnd, RdDisable
<1>3. /\ rdTower' \in RaTowerOf /\ rdTower'.start = rdTower.start /\ rdTower'.end = rdTower.end
      /\ rdTower'.restrict = rdTower.restrict /\ rdTower'.width = rdTower.width /\ rdTower'.speed = rdTower.speed
      /\ (rdTower'.phase = "BUILD" => rdTower.phase = "BUILD" \/ ~rdFoe.here)
  <2>1. CASE RdWaveEnd
    BY <1>1, <2>1 DEF RdWaveEnd, RaTowerOf
  <2>2. CASE RdDisable
    <3>1. rdTower' = [rdTower EXCEPT !.disabled = ~rdTower.disabled]
      BY <2>2 DEF RdDisable
    <3> QED BY <1>1, <3>1 DEF RaTowerOf
  <2> QED BY <2>1, <2>2
<1>4. RdNarrow(rdTower') <=> RdNarrow(rdTower)
  BY <1>3 DEF RdNarrow
<1>5. RdPeriod(rdTower') = RdPeriod(rdTower)
  BY <1>3, <1>4 DEF RdPeriod
<1>6. RaAimed(rdTower', rdFoe) <=> RaAimed(rdTower, rdFoe)
  BY <1>3 DEF RaAimed, RdInArc
<1>7. RaFrom(rdSystem, rdTower') = RaFrom(rdSystem, rdTower)
  BY <1>3 DEF RaFrom
<1>8. RaLeft(rdSystem, rdTower', rdFoe.at) = RaLeft(rdSystem, rdTower, rdFoe.at)
  BY <1>3, <1>4, <1>7 DEF RaLeft, RaAt, RaPast
<1>9. RaOnArc(rdTower', rdSystem) <=> RaOnArc(rdTower, rdSystem)
  BY <1>3, <1>7 DEF RaOnArc, RaAt
<1>10. RaUnder(rdSystem, rdTower', rdFoe) <=> RaUnder(rdSystem, rdTower, rdFoe)
  BY <1>3, <1>6 DEF RaUnder
<1>11. RaGood(rdTower', rdSystem, rdFoe)
  BY <1>1, <1>3, <1>4, <1>5, <1>6, <1>8, <1>9, <1>10 DEF RaGood, RaTyped
<1> QED BY <1>2, <1>11 DEF RadarInv

LEMMA RaStep == RadarInv /\ [RdNext]_rdVars => RadarInv'
<1> SUFFICES ASSUME RadarInv, [RdNext]_rdVars PROVE RadarInv'
  OBVIOUS
<1>1. ASSUME rdTower.phase = "WAVE", RdSweep, UNCHANGED rdTower PROVE RadarInv'
  <2> DEFINE m == RdAdvanced(rdSystem, rdTower)
  <2>1. RdUnder(m, rdTower) <=> RaUnder(m, rdTower, rdFoe)
    BY DEF RdUnder, RaUnder, RdAimed, RaAimed
  <2>2. rdSystem' = [m EXCEPT !.band = RaUnder(m, rdTower, rdFoe)]
    <3>1. RdUnder(m, rdTower) = RaUnder(m, rdTower, rdFoe)
      BY DEF RdUnder, RaUnder, RdAimed, RaAimed
    <3> QED BY <1>1, <3>1 DEF RdSweep
  <2>3. rdFoe' = IF RaUnder(m, rdTower, rdFoe) /\ ~rdSystem.band THEN RaHit(rdFoe) ELSE RaSpared(rdTower, rdFoe)
    <3>1. RdHit => rdFoe' = RaHit(rdFoe)
      BY DEF RdHit, RaHit
    <3>2. RdSpared => rdFoe' = RaSpared(rdTower, rdFoe)
      BY DEF RdSpared, RaSpared, RdAimed, RaAimed
    <3>3. IF RdRises(m) THEN RdHit ELSE RdSpared
      BY <1>1 DEF RdSweep
    <3>4. RdRises(m) <=> RaUnder(m, rdTower, rdFoe) /\ ~rdSystem.band
      <4>1. m.band = rdSystem.band
        BY RaAdvancedType DEF RadarInv, RaGood, RaTyped
      <4> QED BY <2>1, <4>1 DEF RdRises
    <3> HIDE DEF m
    <3> QED BY <3>1, <3>2, <3>3, <3>4
  <2>4. ~RdNarrow(rdTower) /\ RaGood(rdTower, rdSystem, rdFoe)
    BY <1>1 DEF RdSweep, RadarInv
  <2>5. RaGood(rdTower, rdSystem', rdFoe')
    BY <1>1, <2>2, <2>3, <2>4, RaSweepKeeps
  <2> QED BY <1>1, <2>5 DEF RadarInv
<1>2. ASSUME rdTower.phase = "WAVE", RdPulse, UNCHANGED rdTower PROVE RadarInv'
  <2> DEFINE t == rdTower
  <2>1. rdSystem' = [RdAdvanced(rdSystem, t) EXCEPT
                       !.timer = IF rdSystem.timer - 1 <= 0 THEN @ - 1 + ((2 * t.width) \div t.speed) ELSE @ - 1]
    BY <1>2 DEF RdPulse
  <2>2. rdFoe' = IF rdSystem.timer - 1 <= 0 /\ RaAimed(t, rdFoe) THEN RaHit(rdFoe) ELSE RaSpared(t, rdFoe)
    BY <1>2 DEF RdPulse, RdHit, RdSpared, RaHit, RaSpared, RdAimed, RaAimed
  <2>3. RdNarrow(t) /\ RaGood(t, rdSystem, rdFoe)
    BY <1>2 DEF RdPulse, RadarInv
  <2>4. RaGood(t, rdSystem', rdFoe')
    BY <1>2, <2>1, <2>2, <2>3, RaPulseKeeps
  <2> QED BY <1>2, <2>4 DEF RadarInv
<1>3. CASE UNCHANGED rdVars
  BY <1>3 DEF RadarInv, rdVars
<1> QED BY <1>1, <1>2, <1>3, RaBuildStep, RaFoeStep, RaTowerStep DEF RdNext, RdTick

\* Whatever the arc, no enemy waits longer than the needle's period.
LEMMA RaStruck == RadarInv => NoFoeForgotten
<1> SUFFICES ASSUME RadarInv PROVE NoFoeForgotten
  OBVIOUS
<1>1. /\ RaTyped(rdTower, rdSystem, rdFoe) /\ RaOnArc(rdTower, rdSystem) /\ rdSystem.timer <= 2 * rdTower.width
      /\ (~RaAimed(rdTower, rdFoe) => rdFoe.since = 0)
      /\ (RaAimed(rdTower, rdFoe) => rdFoe.since + RaLeft(rdSystem, rdTower, rdFoe.at) <= RdPeriod(rdTower) + 1)
  BY DEF RadarInv, RaGood
<1>2. RdPeriod(rdTower) \in Nat /\ rdFoe.since \in Nat
  BY <1>1, RaPeriod DEF RaTyped, RaFoeOf
<1>3. RaAimed(rdTower, rdFoe) => RaLeft(rdSystem, rdTower, rdFoe.at) \in 1 .. RdPeriod(rdTower) + 1
  BY <1>1, RaLeftBounds
<1>4. CASE RaAimed(rdTower, rdFoe)
  BY <1>1, <1>2, <1>3, <1>4 DEF NoFoeForgotten
<1>5. CASE ~RaAimed(rdTower, rdFoe)
  BY <1>1, <1>2, <1>5 DEF NoFoeForgotten
<1> QED BY <1>4, <1>5

(***************************************************************************)
(* THE THEOREMS                                                            *)
(***************************************************************************)

LEMMA PlayStep ==
  ASSUME [PlNext]_plVars
  PROVE  [PgNext]_pgVars /\ [LmNext]_lmVars /\ [HuNext]_huVars /\ [RdNext]_rdVars /\ [MuNext]_muVars
BY DEF PlNext, plVars

\* A behaviour of the game page is one of its event log: what ReplayLog_proof shows of the
\* recorder, the log and the spectator holds in the composition.
THEOREM PlayLog == PlSpec => RlInit /\ [][RlNext]_rlVars
<1>1. PlInit => RlInit
  BY DEF PlInit
<1>2. [PlNext]_plVars => [RlNext]_rlVars
  BY DEF PlNext, plVars
<1> QED BY <1>1, <1>2, PTL DEF PlSpec

\* The invariant behind PageInStep, for useGameLoop, useFirstEncounterCards, the keys of
\* GameView and the modal slot of uiStore.
THEOREM PgInvHolds == PlSpec => []PgInv
<1>1. PlInit => PgInv
  BY PgInitial DEF PlInit
<1>2. PgInv /\ [PlNext]_plVars => PgInv'
  BY PgStep, PlayStep
<1> QED BY <1>1, <1>2, PTL DEF PlSpec

\* One engine is alive and none outlives the page, the loop stands exactly while the page
\* says so, and every question has been answered or is on show.
THEOREM PageInStepHolds == PlSpec => []PageInStep
<1>1. PgInv => PageInStep
  BY DEF PgInv
<1> QED BY <1>1, PgInvHolds, PTL

\* The board that is painted, the placement and the keyboard follow one rule, and a replay
\* shows the level that was played: generated-level-context, TowerPlacementSystem, the
\* cursor of the canvas and ReplayView, for every grid, seed and number of loads.
THEOREM LevelAgreesHolds == PlSpec => []LevelAgrees
<1>1. PlInit => LevelInv
  BY LmInitial DEF PlInit
<1>2. LevelInv /\ [PlNext]_plVars => LevelInv'
  BY LmStepKeeps, PlayStep
<1>3. LevelInv => LevelAgrees
  BY LmAgreed
<1> QED BY <1>1, <1>2, <1>3, PTL DEF PlSpec

\* The HUD shows the engine of the page, and the checkpoint it offers is that of the wave
\* that was lost: gameStore's listeners, wireEngine and the retry dialog of GameView.
THEOREM CopyHoldsAlways == PlSpec => []CopyHolds
<1>1. PlInit => HudInv
  BY HuInitial DEF PlInit
<1>2. HudInv /\ [PlNext]_plVars => HudInv'
  BY HuStep, PlayStep
<1>3. HudInv => CopyHolds
  BY HuKeptOffered
<1> QED BY <1>1, <1>2, <1>3, PTL DEF PlSpec

\* The invariant behind NoFoeForgotten, for the needle, the arcs and the pulse of
\* RadarTowerSystem: the ticks left until the next hit, and those since the last.
THEOREM RadarInvHolds == PlSpec => []RadarInv
<1>1. PlInit => RadarInv
  BY RaInitial DEF PlInit
<1>2. RadarInv /\ [PlNext]_plVars => RadarInv'
  BY RaStep, PlayStep
<1> QED BY <1>1, <1>2, PTL DEF PlSpec

\* No enemy within a radar's reach falls silent: whatever the circle, the arc it is restricted
\* to, the speed and the band, it is struck again within the time the needle takes to come back.
THEOREM NoFoeForgottenHolds == PlSpec => []NoFoeForgotten
<1>1. RadarInv => NoFoeForgotten
  BY RaStruck
<1> QED BY <1>1, RadarInvHolds, PTL

\* The invariant behind MusicOfPage: AssetManager under useGlobalMusic and useEngineAudio.
THEOREM MuInvHolds == PlSpec => []MuInv
<1>1. PlInit => MuInv
  BY MuInitial DEF PlInit
<1>2. MuInv /\ [PlNext]_plVars => MuInv'
  BY MuStep, PlayStep
<1> QED BY <1>1, <1>2, PTL DEF PlSpec

\* The page has its own music, whatever fades are cut and whenever the player first acts.
THEOREM MusicOfPageHolds == PlSpec => []MusicOfPage
<1>1. MuInv => MusicOfPage
  BY Slugs DEF MuInv, MuMenu, MuGame, MusicOfPage
<1> QED BY <1>1, MuInvHolds, PTL
=============================================================================
