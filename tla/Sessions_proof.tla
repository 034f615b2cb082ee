---------------------------- MODULE Sessions_proof ----------------------------
(***************************************************************************)
(* Inv is an inductive invariant of Sessions: it holds in the initial      *)
(* states and every action of Next preserves it, for any number of         *)
(* sessions and of requests in flight, any workload and any bounds.        *)
(***************************************************************************)
EXTENDS Sessions, TLAPS

(***************************************************************************)
(* What the operations of the aggregate do to one row                      *)
(***************************************************************************)
LEMMA RowFacts ==
  /\ NoRow \in Row /\ NoRow.status = "none"
  /\ \A row \in Row : row.status \in {"none", "active", "completed", "abandoned"}
BY BoundsAssumption DEF NoRow, Row, Statuses, NoValue

LEMMA EntryFacts ==
  /\ NoEntry \notin Entries
  /\ \A row \in Row : EntryOf(row) \in Entries
BY BoundsAssumption DEF Row, NoValue, NoEntry, Entries, EntryOf

LEMMA NewRowFacts ==
  ASSUME NEW ranked \in BOOLEAN
  PROVE  /\ NewRow(ranked) \in Row /\ NewRow(ranked).status = "active"
         /\ NewRow(ranked).refl = FALSE /\ NewRow(ranked).ranked = ranked
<1>1. NoRow \in Row /\ NoRow.refl = FALSE
  BY RowFacts DEF NoRow
<1>. QED  BY <1>1 DEF NewRow, Row, Statuses

LEMMA AbandonedFacts ==
  ASSUME NEW row \in Row
  PROVE  /\ Abandoned(row) \in Row
         /\ Abandoned(row).status = IF row.status = "active" THEN "abandoned" ELSE row.status
         /\ Abandoned(row).ranked = row.ranked /\ Abandoned(row).refl = row.refl
BY DEF Abandoned, Row, Statuses

LEMMA ReflectedFacts ==
  ASSUME NEW row \in Row, NEW text \in BOOLEAN
  PROVE  /\ Reflected(row, text) \in Row
         /\ Reflected(row, text).status = row.status /\ Reflected(row, text).ranked = row.ranked
BY DEF Reflected, Row, Statuses

LEMMA UpdatedFacts ==
  ASSUME NEW row \in Row,
         NEW wave \in {NoValue} \cup 0..(MaxWave + 1), NEW score \in {NoValue} \cup 0..LevelScore
  PROVE  /\ Updated(row, wave, score) \in Row
         /\ Updated(row, wave, score).status = row.status
         /\ Updated(row, wave, score).ranked = row.ranked
         /\ Updated(row, wave, score).refl = row.refl
<1>1. AtMost(wave, MaxWave) \in 0..MaxWave \/ wave = NoValue
  BY BoundsAssumption DEF AtMost
<1>. QED  BY <1>1 DEF Updated, Row

LEMMA CompletedFacts ==
  ASSUME NEW row \in Row, NEW score \in 0..LevelScore, NEW waves \in 0..LevelWaves,
         NEW total \in {NoValue} \cup 0..MaxTotal
  PROVE  /\ Completed(row, score, waves, total) \in Row
         /\ Completed(row, score, waves, total).status = "completed"
         /\ Completed(row, score, waves, total).ranked = row.ranked
         /\ Completed(row, score, waves, total).refl = row.refl
BY DEF Completed, Row, Statuses

LEMMA WrittenFacts ==
  ASSUME NEW mine \in Row, NEW read \in Row, NEW now \in Row
  PROVE  /\ Written(mine, read, now) \in Row
         /\ Written(mine, read, now).status =
              IF mine.status # read.status THEN mine.status ELSE now.status
         /\ Written(mine, read, now).ranked = now.ranked
         /\ Written(mine, read, now).refl = IF mine.refl # read.refl THEN mine.refl ELSE now.refl
BY DEF Written, Column, Row

(***************************************************************************)
(* What no step does to a row that exists: remove it, change who is        *)
(* ranked, or bring an ended session back to life                          *)
(***************************************************************************)
RowsFollow ==
  \A s \in Sids :
    /\ rows[s].status # "none" => rows'[s].status # "none" /\ rows'[s].ranked = rows[s].ranked
    /\ rows[s].status \in Ended => rows'[s].status \in Ended

LEMMA InitInv == Init => Inv
<1>. SUFFICES ASSUME Init PROVE Inv
  OBVIOUS
<1>1. TypeOK
  BY RowFacts, IdsAssumption DEF Init, TypeOK, Logs, Pcs
<1>2. CreatorAlone /\ HoldsLive /\ Named /\ Writing /\ Saving /\ InsertReady
  BY RowFacts, IdsAssumption DEF Init, CreatorAlone, HoldsLive, Named, Writing, Saving,
     InsertReady, Creating
<1>3. ResultKept /\ CheckDue
  BY RowFacts DEF Init, ResultKept, CheckDue
<1>4. OneActive /\ BoardOnlyRanked /\ EffectsOnce /\ ReflectedCompleted
  BY DEF Init, OneActive, BoardOnlyRanked, EffectsOnce, ReflectedCompleted, NoRow
<1>. QED  BY <1>1, <1>2, <1>3, <1>4 DEF Inv

LEMMA CreateBeginInv ==
  ASSUME NEW r \in Reqs, Inv, CreateBegin(r)
  PROVE  Inv'
<1>. USE DEF CreateBegin, Goto, db, effect
<1>1. TypeOK'
  BY DEF Inv, TypeOK, Pcs
<1>2. CreatorAlone'
  BY IdsAssumption DEF Inv, CreatorAlone
<1>3. HoldsLive'
  BY DEF Inv, HoldsLive
<1>4. Named'
  BY DEF Inv, Named
<1>5. Writing'
  BY DEF Inv, Writing
<1>6. Saving'
  BY DEF Inv, Saving
<1>7. InsertReady'
  BY DEF Inv, InsertReady
<1>8. ResultKept'
  BY DEF Inv, ResultKept
<1>9. CheckDue'
  BY DEF Inv, CheckDue
<1>10. OneActive' /\ BoardOnlyRanked' /\ EffectsOnce' /\ ReflectedCompleted'
  BY DEF Inv, OneActive, BoardOnlyRanked, EffectsOnce, ReflectedCompleted
<1>. QED  BY <1>1, <1>2, <1>3, <1>4, <1>5, <1>6, <1>7, <1>8, <1>9, <1>10 DEF Inv

LEMMA CreateFindStaleInv ==
  ASSUME NEW r \in Reqs, Inv, CreateFindStale(r)
  PROVE  Inv'
<1>. USE DEF CreateFindStale, Goto, Stale, db, locks, effect
<1>1. TypeOK'
  <2>1. CASE \E s \in Sids : /\ sid' = [sid EXCEPT ![r] = s]
                             /\ snap' = [snap EXCEPT ![r] = Abandoned(rows[s])]
                             /\ Goto(r, "staleReread")
    <3>1. PICK s \in Sids : /\ sid' = [sid EXCEPT ![r] = s]
                            /\ snap' = [snap EXCEPT ![r] = Abandoned(rows[s])]
                            /\ Goto(r, "staleReread")
      BY <2>1
    <3>2. Abandoned(rows[s]) \in Row
      BY AbandonedFacts DEF Inv, TypeOK
    <3>. QED  BY <3>1, <3>2 DEF Inv, TypeOK, Pcs
  <2>2. CASE Goto(r, "findActive") /\ UNCHANGED <<sid, snap>>
    BY <2>2 DEF Inv, TypeOK, Pcs
  <2>. QED  BY <2>1, <2>2
<1>2. CreatorAlone'
  BY DEF Inv, TypeOK, CreatorAlone, Creating
<1>3. HoldsLive'
  BY DEF Inv, TypeOK, HoldsLive
<1>4. Named'
  BY DEF Inv, TypeOK, Named
<1>5. Writing'
  BY DEF Inv, TypeOK, Writing, Named
<1>6. Saving'
  BY AbandonedFacts, IdsAssumption DEF Inv, TypeOK, Saving, Named, Ended
<1>7. InsertReady'
  BY DEF Inv, TypeOK, InsertReady
<1>8. ResultKept'
  BY AbandonedFacts DEF Inv, TypeOK, ResultKept, ReflectedCompleted
<1>9. CheckDue'
  BY DEF Inv, TypeOK, CheckDue
<1>10. OneActive' /\ BoardOnlyRanked' /\ EffectsOnce' /\ ReflectedCompleted'
  BY DEF Inv, OneActive, BoardOnlyRanked, EffectsOnce, ReflectedCompleted
<1>. QED  BY <1>1, <1>2, <1>3, <1>4, <1>5, <1>6, <1>7, <1>8, <1>9, <1>10 DEF Inv

LEMMA CreateFindActiveInv ==
  ASSUME NEW r \in Reqs, Inv, CreateFindActive(r)
  PROVE  Inv'
<1>. USE DEF CreateFindActive, Goto, Free, Lock, db, effect
<1>1. TypeOK'
  <2>1. /\ cur' \in [Reqs -> Sids \cup {NoSid}]
        /\ rowLock' \in [Sids -> Reqs \cup {NoReq}]
    BY DEF Inv, TypeOK
  <2>2. pc' \in [Reqs -> Pcs]
    BY DEF Inv, TypeOK, Pcs
  <2>. QED  BY <2>1, <2>2 DEF Inv, TypeOK
<1>2. CreatorAlone'
  BY DEF Inv, CreatorAlone, Creating
<1>3. HoldsLive'
  BY IdsAssumption DEF Inv, TypeOK, HoldsLive
<1>4. Named'
  BY DEF Inv, TypeOK, Named
<1>5. Writing'
  BY IdsAssumption DEF Inv, TypeOK, Writing
<1>6. Saving'
  BY DEF Inv, Saving
<1>7. InsertReady'
  BY DEF Inv, TypeOK, InsertReady, OneActive
<1>8. ResultKept'
  BY DEF Inv, ResultKept
<1>9. CheckDue'
  BY DEF Inv, CheckDue
<1>10. OneActive' /\ BoardOnlyRanked' /\ EffectsOnce' /\ ReflectedCompleted'
  BY DEF Inv, OneActive, BoardOnlyRanked, EffectsOnce, ReflectedCompleted
<1>. QED  BY <1>1, <1>2, <1>3, <1>4, <1>5, <1>6, <1>7, <1>8, <1>9, <1>10 DEF Inv

LEMMA CreateInsertInv ==
  ASSUME NEW r \in Reqs, Inv, CreateInsert(r)
  PROVE  Inv'
<1>. USE DEF CreateInsert, Unlock, Finish, effect, Goto
<1>1. PICK n \in Sids, ranked \in BOOLEAN :
         /\ rows[n].status = "none"
         /\ rows' = [s \in Sids |->
              IF s = n THEN NewRow(ranked)
              ELSE IF s = sid[r] THEN Written(snap[r], seen[r], rows[s])
              ELSE IF s = cur[r] THEN Abandoned(rows[s])
              ELSE rows[s]]
  OBVIOUS
<1>. DEFINE mine == Written(snap[r], seen[r], rows[sid[r]])
       other == Abandoned(rows[cur[r]])
<1>2. sid[r] \in Sids => /\ mine \in Row /\ mine.status \in Ended
                         /\ mine.ranked = rows[sid[r]].ranked
                         /\ mine.status = "completed" => result[sid[r]] # NoEntry
                         /\ mine.refl => result[sid[r]] # NoEntry
  <2>1. CASE sid[r] \in Sids
    <3>1. snap[r] \in Row /\ seen[r] \in Row /\ rows[sid[r]] \in Row
      BY <2>1 DEF Inv, TypeOK
    <3>2. /\ mine \in Row /\ mine.ranked = rows[sid[r]].ranked
          /\ mine.status = IF snap[r].status # seen[r].status THEN snap[r].status ELSE rows[sid[r]].status
          /\ mine.refl = IF snap[r].refl # seen[r].refl THEN snap[r].refl ELSE rows[sid[r]].refl
      BY <3>1, WrittenFacts
    <3>3. /\ snap[r].status \in Ended
          /\ seen[r].status = "active" \/ rows[sid[r]].status \in Ended
      BY <2>1 DEF Inv, Saving
    <3>4. /\ snap[r].status = "completed" \/ rows[sid[r]].status = "completed" => result[sid[r]] # NoEntry
          /\ snap[r].refl \/ rows[sid[r]].refl => result[sid[r]] # NoEntry
      BY <2>1, <3>3 DEF Inv, ResultKept, ReflectedCompleted, Ended
    <3>. HIDE DEF mine
    <3>. QED  BY <3>1, <3>2, <3>3, <3>4 DEF Ended, Row
  <2>. QED  BY <2>1
<1>3. cur[r] \in Sids => /\ other \in Row /\ other.status \in Ended
                         /\ other.ranked = rows[cur[r]].ranked
                         /\ other.status = "completed" => result[cur[r]] # NoEntry
                         /\ other.refl => result[cur[r]] # NoEntry
  BY RowFacts, AbandonedFacts DEF Inv, TypeOK, Named, ResultKept, ReflectedCompleted, Ended
<1>4. /\ NewRow(ranked) \in Row /\ NewRow(ranked).status = "active" /\ NewRow(ranked).refl = FALSE
      /\ n # sid[r] /\ n # cur[r]
  BY <1>1, NewRowFacts DEF Inv, Named
<1>5. rows' = [s \in Sids |-> IF s = n THEN NewRow(ranked)
                              ELSE IF s = sid[r] THEN mine
                              ELSE IF s = cur[r] THEN other ELSE rows[s]]
  BY <1>1
<1>. HIDE DEF mine, other
<1>6. /\ rows' \in [Sids -> Row]
      /\ rows'[n].status = "active" /\ rows'[n].refl = FALSE
      /\ \A s \in Sids \ {n} : rows'[s].status # "active"
  BY <1>2, <1>3, <1>4, <1>5 DEF Inv, TypeOK, InsertReady, Ended
<1>7. RowsFollow
  BY <1>2, <1>3, <1>4, <1>5 DEF RowsFollow, Ended
<1>8. \A s \in Sids : /\ rows'[s].status = "completed" => result[s] # NoEntry
                      /\ rows'[s].refl => result[s] # NoEntry
  BY <1>2, <1>3, <1>5, <1>6 DEF Inv, ResultKept, ReflectedCompleted
<1>9. TypeOK'
  BY <1>6, RowFacts DEF Inv, TypeOK, Pcs
<1>10. CreatorAlone'
  BY DEF Inv, TypeOK, CreatorAlone, Creating
<1>11. HoldsLive'
  BY DEF Inv, HoldsLive, Writing
<1>12. Named'
  BY <1>7, RowFacts, IdsAssumption DEF Inv, TypeOK, Named, RowsFollow
<1>13. Writing'
  BY IdsAssumption DEF Inv, TypeOK, Writing
<1>14. Saving'
  BY <1>7 DEF Inv, TypeOK, Saving, RowsFollow
<1>15. InsertReady'
  BY DEF Inv, TypeOK, InsertReady, CreatorAlone, Creating
<1>16. ResultKept'
  BY <1>7, <1>8, IdsAssumption DEF Inv, TypeOK, ResultKept, Named, RowsFollow
<1>17. CheckDue'
  BY <1>7 DEF Inv, CheckDue, Named, RowsFollow
<1>18. OneActive'
  BY <1>6 DEF OneActive
<1>19. BoardOnlyRanked'
  BY <1>7 DEF Inv, BoardOnlyRanked, ResultKept, RowsFollow
<1>20. EffectsOnce'
  BY DEF Inv, EffectsOnce
<1>21. ReflectedCompleted'
  BY <1>8 DEF ReflectedCompleted
<1>. QED  BY <1>9, <1>10, <1>11, <1>12, <1>13, <1>14, <1>15, <1>16, <1>17, <1>18, <1>19,
             <1>20, <1>21 DEF Inv

LEMMA SaveRereadInv ==
  ASSUME NEW r \in Reqs, Inv, SaveReread(r)
  PROVE  Inv'
<1>. USE DEF SaveReread, Goto, db, locks, effect
<1>1. TypeOK'
  BY DEF Inv, TypeOK, Pcs, Named
<1>2. CreatorAlone'
  BY DEF Inv, CreatorAlone, Creating
<1>3. HoldsLive'
  BY DEF Inv, HoldsLive
<1>4. Named'
  BY DEF Inv, Named
<1>5. Writing'
  BY DEF Inv, Writing
<1>6. Saving'
  BY RowFacts DEF Inv, TypeOK, Saving, Named, Ended
<1>7. InsertReady'
  BY DEF Inv, InsertReady
<1>8. ResultKept'
  BY DEF Inv, ResultKept
<1>9. CheckDue'
  BY DEF Inv, CheckDue
<1>10. OneActive' /\ BoardOnlyRanked' /\ EffectsOnce' /\ ReflectedCompleted'
  BY DEF Inv, OneActive, BoardOnlyRanked, EffectsOnce, ReflectedCompleted
<1>. QED  BY <1>1, <1>2, <1>3, <1>4, <1>5, <1>6, <1>7, <1>8, <1>9, <1>10 DEF Inv

LEMMA SaveFlushInv ==
  ASSUME NEW r \in Reqs, Inv, SaveFlush(r)
  PROVE  Inv'
<1>. USE DEF SaveFlush, Goto, Free, Lock, db, effect
<1>1. TypeOK'
  BY DEF Inv, TypeOK, Pcs
<1>2. CreatorAlone'
  BY DEF Inv, CreatorAlone, Creating
<1>3. HoldsLive'
  BY IdsAssumption DEF Inv, HoldsLive
<1>4. Named'
  BY DEF Inv, Named
<1>5. Writing'
  BY IdsAssumption DEF Inv, TypeOK, Writing
<1>6. Saving'
  BY DEF Inv, Saving
<1>7. InsertReady'
  BY DEF Inv, InsertReady
<1>8. ResultKept'
  BY DEF Inv, ResultKept
<1>9. CheckDue'
  BY DEF Inv, CheckDue
<1>10. OneActive' /\ BoardOnlyRanked' /\ EffectsOnce' /\ ReflectedCompleted'
  BY DEF Inv, OneActive, BoardOnlyRanked, EffectsOnce, ReflectedCompleted
<1>. QED  BY <1>1, <1>2, <1>3, <1>4, <1>5, <1>6, <1>7, <1>8, <1>9, <1>10 DEF Inv

LEMMA SaveCommitInv ==
  ASSUME NEW r \in Reqs, Inv, SaveCommit(r)
  PROVE  Inv'
<1>. USE DEF SaveCommit, Unlock, Finish, effect, Goto
<1>1. sid[r] \in Sids
  BY DEF Inv, Named
<1>2. /\ rows' \in [Sids -> Row]
      /\ \A s \in Sids : rows'[s].status = "active" => rows[s].status = "active"
  BY <1>1, WrittenFacts DEF Inv, TypeOK, Saving, Ended
<1>3. RowsFollow
  BY WrittenFacts DEF RowsFollow, Inv, TypeOK, Saving, Ended
<1>4. \A s \in Sids : /\ rows'[s].status = "completed" => result[s] # NoEntry
                      /\ rows'[s].refl => result[s] # NoEntry
  <2>1. ASSUME NEW s \in Sids, s # sid[r] PROVE rows'[s] = rows[s]
    BY <1>1, <2>1 DEF Inv, TypeOK
  <2>2. /\ rows'[sid[r]].status = "completed" => result[sid[r]] # NoEntry
        /\ rows'[sid[r]].refl => result[sid[r]] # NoEntry
    <3>1. /\ rows'[sid[r]] = Written(snap[r], seen[r], rows[sid[r]])
          /\ snap[r] \in Row /\ seen[r] \in Row /\ rows[sid[r]] \in Row
          /\ snap[r].status # "none"
      BY <1>1, RowFacts DEF Inv, TypeOK, Saving, Ended
    <3>2. /\ rows'[sid[r]].status \in {snap[r].status, rows[sid[r]].status}
          /\ rows'[sid[r]].refl \in {snap[r].refl, rows[sid[r]].refl}
      BY <3>1, WrittenFacts
    <3>. QED  BY <1>1, <3>1, <3>2 DEF Inv, ResultKept, ReflectedCompleted
  <2>. QED  BY <2>1, <2>2 DEF Inv, ResultKept, ReflectedCompleted
<1>5. TypeOK'
  BY <1>2, RowFacts DEF Inv, TypeOK, Pcs
<1>6. CreatorAlone'
  BY DEF Inv, CreatorAlone, Creating
<1>7. HoldsLive'
  BY DEF Inv, HoldsLive, Writing
<1>8. Named'
  BY <1>3, RowFacts DEF Inv, TypeOK, Named, Writing, RowsFollow
<1>9. Writing'
  BY DEF Inv, TypeOK, Writing
<1>10. Saving'
  BY <1>3 DEF Inv, TypeOK, Saving, RowsFollow
<1>11. InsertReady'
  BY <1>3, RowFacts DEF Inv, TypeOK, InsertReady, Ended, Named, RowsFollow
<1>12. ResultKept'
  BY <1>3, <1>4, IdsAssumption DEF Inv, TypeOK, ResultKept, Named, RowsFollow
<1>13. CheckDue'
  BY <1>3 DEF Inv, CheckDue, Named, RowsFollow
<1>14. OneActive'
  BY <1>3, RowFacts DEF Inv, TypeOK, OneActive, Named, Ended, RowsFollow
<1>15. BoardOnlyRanked'
  BY <1>3 DEF Inv, BoardOnlyRanked, Named, RowsFollow
<1>16. EffectsOnce'
  BY DEF Inv, EffectsOnce
<1>17. ReflectedCompleted'
  BY <1>4 DEF ReflectedCompleted
<1>. QED  BY <1>5, <1>6, <1>7, <1>8, <1>9, <1>10, <1>11, <1>12, <1>13, <1>14, <1>15,
             <1>16, <1>17 DEF Inv

LEMMA UpdateCommitInv ==
  ASSUME NEW r \in Reqs, Inv, UpdateCommit(r)
  PROVE  Inv'
<1>. USE DEF UpdateCommit, Unlock, Finish, effect, Goto
<1>1. PICK wave \in {NoValue} \cup 0..(MaxWave + 1), score \in {NoValue} \cup 0..LevelScore :
         rows' = [rows EXCEPT ![sid[r]] = Updated(@, wave, score)]
  OBVIOUS
<1>2. sid[r] \in Sids /\ rows[sid[r]].status = "active"
  BY DEF Inv, HoldsLive
<1>3. rows[sid[r]] \in Row
  BY <1>2 DEF Inv, TypeOK
<1>. DEFINE new == Updated(rows[sid[r]], wave, score)
<1>4. /\ new \in Row /\ new.status = "active" /\ new.ranked = rows[sid[r]].ranked
      /\ new.refl = rows[sid[r]].refl
  BY <1>2, <1>3, UpdatedFacts
<1>5. rows' = [rows EXCEPT ![sid[r]] = new]
  BY <1>1
<1>. HIDE DEF new
<1>6. /\ rows' \in [Sids -> Row]
      /\ \A s \in Sids : /\ rows'[s].status = rows[s].status /\ rows'[s].ranked = rows[s].ranked
                         /\ rows'[s].refl = rows[s].refl
  BY <1>2, <1>4, <1>5 DEF Inv, TypeOK
<1>7. RowsFollow
  BY <1>6 DEF RowsFollow
<1>8. TypeOK'
  BY <1>6, RowFacts DEF Inv, TypeOK, Pcs
<1>9. CreatorAlone'
  BY DEF Inv, CreatorAlone, Creating
<1>10. HoldsLive'
  BY DEF Inv, TypeOK, HoldsLive
<1>11. Named'
  BY <1>7, RowFacts DEF Inv, TypeOK, Named, Writing, RowsFollow
<1>12. Writing'
  BY DEF Inv, TypeOK, Writing
<1>13. Saving'
  BY <1>7 DEF Inv, Saving, RowsFollow
<1>14. InsertReady'
  BY DEF Inv, InsertReady, HoldsLive
<1>15. ResultKept'
  BY <1>6, IdsAssumption DEF Inv, TypeOK, ResultKept
<1>16. CheckDue'
  BY DEF Inv, CheckDue, HoldsLive, Ended
<1>17. OneActive'
  BY DEF Inv, OneActive, HoldsLive
<1>18. BoardOnlyRanked'
  BY <1>7 DEF Inv, BoardOnlyRanked, Named, RowsFollow
<1>19. EffectsOnce'
  BY DEF Inv, EffectsOnce
<1>20. ReflectedCompleted'
  BY <1>6 DEF Inv, ReflectedCompleted
<1>. QED  BY <1>8, <1>9, <1>10, <1>11, <1>12, <1>13, <1>14, <1>15, <1>16, <1>17, <1>18,
             <1>19, <1>20 DEF Inv

LEMMA RefuseInv ==
  ASSUME NEW r \in Reqs, Inv, Refuse(r)
  PROVE  Inv'
<1>. USE DEF Refuse, Unlock, Finish, db, effect, Goto
<1>1. TypeOK'
  BY RowFacts DEF Inv, TypeOK, Pcs
<1>2. CreatorAlone'
  BY DEF Inv, CreatorAlone, Creating
<1>3. HoldsLive'
  BY DEF Inv, TypeOK, HoldsLive
<1>4. Named'
  BY RowFacts DEF Inv, TypeOK, Named, Writing
<1>5. Writing'
  BY DEF Inv, TypeOK, Writing
<1>6. Saving'
  BY DEF Inv, Saving
<1>7. InsertReady'
  BY DEF Inv, InsertReady
<1>8. ResultKept'
  BY IdsAssumption DEF Inv, TypeOK, ResultKept
<1>9. CheckDue'
  BY DEF Inv, CheckDue
<1>10. OneActive' /\ BoardOnlyRanked' /\ EffectsOnce' /\ ReflectedCompleted'
  BY DEF Inv, OneActive, BoardOnlyRanked, EffectsOnce, ReflectedCompleted
<1>. QED  BY <1>1, <1>2, <1>3, <1>4, <1>5, <1>6, <1>7, <1>8, <1>9, <1>10 DEF Inv

LEMMA EndCommitInv ==
  ASSUME NEW r \in Reqs, Inv, EndCommit(r)
  PROVE  Inv'
<1>. USE DEF EndCommit, Goto, Unlock, VerifiedTotals
<1>1. sid[r] \in Sids /\ rows[sid[r]].status = "active"
  BY DEF Inv, HoldsLive
<1>2. PICK sent \in {NoValue} \cup 0..LevelScore, w \in 0..LevelWaves, cap \in WaveCaps :
         LET proven == log[sid[r]]
             score  == IF sent = NoValue THEN rows[sid[r]].score ELSE sent
             waves  == IF proven = NoValue THEN w ELSE proven IN
         /\ CanComplete(rows[sid[r]], score, waves, cap, proven)
         /\ \E total \in VerifiedTotals(waves, proven) :
              LET done == Completed(rows[sid[r]], score, waves, total) IN
              /\ rows' = [rows EXCEPT ![sid[r]] = done]
              /\ snap' = [snap EXCEPT ![r] = done]
              /\ result' = [result EXCEPT ![sid[r]] = EntryOf(done)]
  OBVIOUS
<1>. DEFINE score == IF sent = NoValue THEN rows[sid[r]].score ELSE sent
       waves == IF log[sid[r]] = NoValue THEN w ELSE log[sid[r]]
<1>3. rows[sid[r]] \in Row /\ log[sid[r]] \in Logs /\ cap \in Nat
  BY <1>1, IdsAssumption DEF Inv, TypeOK
<1>4. score \in 0..LevelScore
  BY <1>3 DEF Row
<1>5. waves \in Nat
  BY <1>3 DEF Logs
<1>6. waves \in 0..LevelWaves
  BY <1>3, <1>5, BoundsAssumption DEF CanComplete, AtMost
<1>7. PICK total \in VerifiedTotals(waves, log[sid[r]]) :
         LET done == Completed(rows[sid[r]], score, waves, total) IN
         /\ rows' = [rows EXCEPT ![sid[r]] = done]
         /\ snap' = [snap EXCEPT ![r] = done]
         /\ result' = [result EXCEPT ![sid[r]] = EntryOf(done)]
  BY <1>2
<1>8. total \in {NoValue} \cup 0..MaxTotal
  BY BoundsAssumption
<1>. HIDE DEF score, waves
<1>. DEFINE done == Completed(rows[sid[r]], score, waves, total)
<1>9. /\ done \in Row /\ done.status = "completed"
      /\ done.ranked = rows[sid[r]].ranked /\ done.refl = rows[sid[r]].refl
      /\ EntryOf(done) \in Entries /\ EntryOf(done) # NoEntry
  BY <1>3, <1>4, <1>6, <1>8, CompletedFacts, EntryFacts
<1>10. /\ rows' = [rows EXCEPT ![sid[r]] = done]
      /\ snap' = [snap EXCEPT ![r] = done]
      /\ result' = [result EXCEPT ![sid[r]] = EntryOf(done)]
  BY <1>7
<1>. HIDE DEF done
<1>11. rows' \in [Sids -> Row] /\ snap' \in [Reqs -> Row]
  BY <1>9, <1>10 DEF Inv, TypeOK
<1>12. RowsFollow
  BY <1>9, <1>10 DEF RowsFollow, Ended
<1>13. TypeOK'
  BY <1>9, <1>10 DEF Inv, TypeOK, Pcs
<1>14. CreatorAlone'
  BY DEF Inv, CreatorAlone, Creating
<1>15. HoldsLive'
  BY DEF Inv, TypeOK, HoldsLive
<1>16. Named'
  BY <1>12 DEF Inv, Named, HoldsLive, RowsFollow
<1>17. Writing'
  BY DEF Inv, Writing
<1>18. Saving'
  BY <1>12 DEF Inv, Saving, RowsFollow
<1>19. InsertReady'
  BY DEF Inv, InsertReady, HoldsLive
<1>20. ResultKept'
  BY <1>1, <1>2, <1>3, <1>4, <1>5, <1>6, <1>7, <1>8, <1>9, <1>10, <1>11, <1>12, RowFacts,
     IdsAssumption DEF Inv, TypeOK, ResultKept, Named, Saving, ReflectedCompleted,
     HoldsLive, Ended, RowsFollow
<1>21. CheckDue'
  BY <1>9, <1>10 DEF Inv, TypeOK, CheckDue, HoldsLive, Ended
<1>22. OneActive'
  BY DEF Inv, OneActive, HoldsLive
<1>23. BoardOnlyRanked'
  BY <1>9, <1>10 DEF Inv, BoardOnlyRanked
<1>24. EffectsOnce'
  BY DEF Inv, EffectsOnce
<1>25. ReflectedCompleted'
  BY <1>9, <1>10 DEF Inv, ReflectedCompleted
<1>. QED  BY <1>13, <1>14, <1>15, <1>16, <1>17, <1>18, <1>19, <1>20, <1>21, <1>22, <1>23,
             <1>24, <1>25 DEF Inv

LEMMA BoardHandlerInv ==
  ASSUME NEW r \in Reqs, Inv, BoardHandler(r)
  PROVE  Inv'
<1>. USE DEF BoardHandler, Goto, Insert, db, locks
<1>1. TypeOK'
  BY EntryFacts DEF Inv, TypeOK, Pcs
<1>2. CreatorAlone'
  BY DEF Inv, CreatorAlone, Creating
<1>3. HoldsLive'
  BY DEF Inv, HoldsLive
<1>4. Named'
  BY DEF Inv, Named
<1>5. Writing'
  BY DEF Inv, Writing
<1>6. Saving'
  BY DEF Inv, Saving
<1>7. InsertReady'
  BY DEF Inv, InsertReady
<1>8. ResultKept'
  BY DEF Inv, ResultKept
<1>9. CheckDue'
  BY DEF Inv, CheckDue
<1>10. OneActive'
  BY DEF Inv, OneActive
<1>11. BoardOnlyRanked'
  BY DEF Inv, BoardOnlyRanked, ResultKept
<1>12. EffectsOnce'
  BY DEF Inv, EffectsOnce
<1>13. ReflectedCompleted'
  BY DEF Inv, ReflectedCompleted
<1>. QED  BY <1>1, <1>2, <1>3, <1>4, <1>5, <1>6, <1>7, <1>8, <1>9, <1>10, <1>11, <1>12,
             <1>13 DEF Inv

LEMMA AchievementHandlerInv ==
  ASSUME NEW r \in Reqs, Inv, AchievementHandler(r)
  PROVE  Inv'
<1>. USE DEF AchievementHandler, Goto, db, locks
<1>1. TypeOK'
  BY DEF Inv, TypeOK, Pcs, Named
<1>2. CreatorAlone'
  BY DEF Inv, CreatorAlone, Creating
<1>3. HoldsLive'
  BY DEF Inv, HoldsLive
<1>4. Named'
  BY DEF Inv, Named
<1>5. Writing'
  BY DEF Inv, Writing
<1>6. Saving'
  BY DEF Inv, Saving
<1>7. InsertReady'
  BY DEF Inv, InsertReady
<1>8. ResultKept'
  BY DEF Inv, ResultKept
<1>9. CheckDue'
  BY DEF Inv, TypeOK, CheckDue
<1>10. OneActive'
  BY DEF Inv, OneActive
<1>11. BoardOnlyRanked'
  BY DEF Inv, BoardOnlyRanked
<1>12. EffectsOnce'
  BY DEF Inv, EffectsOnce, CheckDue
<1>13. ReflectedCompleted'
  BY DEF Inv, ReflectedCompleted
<1>. QED  BY <1>1, <1>2, <1>3, <1>4, <1>5, <1>6, <1>7, <1>8, <1>9, <1>10, <1>11, <1>12,
             <1>13 DEF Inv

LEMMA IaComputeInv ==
  ASSUME NEW r \in Reqs, Inv, IaCompute(r)
  PROVE  Inv'
<1>. USE DEF IaCompute, Goto, db, locks, effect
<1>1. TypeOK'
  BY DEF Inv, TypeOK, Pcs
<1>2. CreatorAlone'
  BY DEF Inv, CreatorAlone, Creating
<1>3. HoldsLive'
  BY DEF Inv, HoldsLive
<1>4. Named'
  BY DEF Inv, Named
<1>5. Writing'
  BY DEF Inv, Writing
<1>6. Saving'
  BY DEF Inv, Saving
<1>7. InsertReady'
  BY DEF Inv, InsertReady
<1>8. ResultKept'
  BY DEF Inv, ResultKept
<1>9. CheckDue'
  BY DEF Inv, CheckDue
<1>10. OneActive' /\ BoardOnlyRanked' /\ EffectsOnce' /\ ReflectedCompleted'
  BY DEF Inv, OneActive, BoardOnlyRanked, EffectsOnce, ReflectedCompleted
<1>. QED  BY <1>1, <1>2, <1>3, <1>4, <1>5, <1>6, <1>7, <1>8, <1>9, <1>10 DEF Inv

LEMMA IaSaveInv ==
  ASSUME NEW r \in Reqs, Inv, IaSave(r)
  PROVE  Inv'
<1>. USE DEF IaSave, Finish, db, locks, Goto
<1>1. TypeOK'
  BY RowFacts DEF Inv, TypeOK, Pcs
<1>2. CreatorAlone'
  BY DEF Inv, CreatorAlone, Creating
<1>3. HoldsLive'
  BY DEF Inv, HoldsLive
<1>4. Named'
  BY RowFacts DEF Inv, TypeOK, Named, Writing
<1>5. Writing'
  BY DEF Inv, TypeOK, Writing
<1>6. Saving'
  BY DEF Inv, Saving
<1>7. InsertReady'
  BY DEF Inv, InsertReady
<1>8. ResultKept'
  BY IdsAssumption DEF Inv, TypeOK, ResultKept
<1>9. CheckDue'
  BY DEF Inv, CheckDue
<1>10. OneActive' /\ BoardOnlyRanked' /\ EffectsOnce' /\ ReflectedCompleted'
  BY DEF Inv, OneActive, BoardOnlyRanked, EffectsOnce, ReflectedCompleted
<1>. QED  BY <1>1, <1>2, <1>3, <1>4, <1>5, <1>6, <1>7, <1>8, <1>9, <1>10 DEF Inv

LEMMA CatchUpInv ==
  ASSUME NEW r \in Reqs, Inv, CatchUp(r)
  PROVE  Inv'
<1>. USE DEF CatchUp, Finish, Insert, db, locks, Goto
<1>1. TypeOK'
  BY RowFacts, EntryFacts DEF Inv, TypeOK, Pcs
<1>2. CreatorAlone'
  BY DEF Inv, CreatorAlone, Creating
<1>3. HoldsLive'
  BY DEF Inv, HoldsLive
<1>4. Named'
  BY RowFacts DEF Inv, TypeOK, Named, Writing
<1>5. Writing'
  BY DEF Inv, TypeOK, Writing
<1>6. Saving'
  BY DEF Inv, Saving
<1>7. InsertReady'
  BY DEF Inv, InsertReady
<1>8. ResultKept'
  BY IdsAssumption DEF Inv, TypeOK, ResultKept
<1>9. CheckDue'
  BY DEF Inv, CheckDue
<1>10. OneActive'
  BY DEF Inv, OneActive
<1>11. BoardOnlyRanked'
  BY DEF Inv, BoardOnlyRanked, ResultKept
<1>12. EffectsOnce'
  BY DEF Inv, EffectsOnce
<1>13. ReflectedCompleted'
  BY DEF Inv, ReflectedCompleted
<1>. QED  BY <1>1, <1>2, <1>3, <1>4, <1>5, <1>6, <1>7, <1>8, <1>9, <1>10, <1>11, <1>12,
             <1>13 DEF Inv

LEMMA AppendCommitInv ==
  ASSUME NEW r \in Reqs, Inv, AppendCommit(r)
  PROVE  Inv'
<1>. USE DEF AppendCommit, Finish, locks, effect, Goto
<1>1. TypeOK'
  BY RowFacts DEF Inv, TypeOK, Pcs, Logs, Named
<1>2. CreatorAlone'
  BY DEF Inv, CreatorAlone, Creating
<1>3. HoldsLive'
  BY DEF Inv, HoldsLive
<1>4. Named'
  BY RowFacts DEF Inv, TypeOK, Named, Writing
<1>5. Writing'
  BY DEF Inv, TypeOK, Writing
<1>6. Saving'
  BY DEF Inv, Saving
<1>7. InsertReady'
  BY DEF Inv, InsertReady
<1>8. ResultKept'
  BY IdsAssumption DEF Inv, TypeOK, ResultKept
<1>9. CheckDue'
  BY DEF Inv, CheckDue
<1>10. OneActive' /\ BoardOnlyRanked' /\ EffectsOnce' /\ ReflectedCompleted'
  BY DEF Inv, OneActive, BoardOnlyRanked, EffectsOnce, ReflectedCompleted
<1>. QED  BY <1>1, <1>2, <1>3, <1>4, <1>5, <1>6, <1>7, <1>8, <1>9, <1>10 DEF Inv

LEMMA HandlerFailsInv ==
  ASSUME NEW r \in Reqs, Inv, HandlerFails(r)
  PROVE  Inv'
<1>. USE DEF HandlerFails, Goto, Finish, db, locks
<1>1. CASE pc[r] = "board" /\ Goto(r, "achieve") /\ UNCHANGED <<sid, cur, snap, seen, iaRead>>
  <2>. USE <1>1
  <2>1. TypeOK'
    BY IdsAssumption DEF Inv, TypeOK, Pcs
  <2>2. CreatorAlone'
    BY DEF Inv, CreatorAlone, Creating
  <2>3. HoldsLive'
    BY DEF Inv, HoldsLive
  <2>4. Named'
    BY DEF Inv, Named
  <2>5. Writing'
    BY DEF Inv, Writing
  <2>6. Saving'
    BY DEF Inv, Saving
  <2>7. InsertReady'
    BY DEF Inv, InsertReady
  <2>8. ResultKept'
    BY DEF Inv, ResultKept
  <2>9. CheckDue'
    BY DEF Inv, CheckDue
  <2>10. OneActive' /\ BoardOnlyRanked' /\ EffectsOnce' /\ ReflectedCompleted'
    BY DEF Inv, OneActive, BoardOnlyRanked, EffectsOnce, ReflectedCompleted
  <2>. QED  BY <2>1, <2>2, <2>3, <2>4, <2>5, <2>6, <2>7, <2>8, <2>9, <2>10 DEF Inv
<1>2. CASE pc[r] = "achieve" /\ Goto(r, "ia") /\ UNCHANGED <<sid, cur, snap, seen, iaRead>>
  <2>. USE <1>2
  <2>1. TypeOK'
    BY IdsAssumption DEF Inv, TypeOK, Pcs
  <2>2. CreatorAlone'
    BY DEF Inv, CreatorAlone, Creating
  <2>3. HoldsLive'
    BY DEF Inv, HoldsLive
  <2>4. Named'
    BY DEF Inv, Named
  <2>5. Writing'
    BY DEF Inv, Writing
  <2>6. Saving'
    BY DEF Inv, Saving
  <2>7. InsertReady'
    BY DEF Inv, InsertReady
  <2>8. ResultKept'
    BY DEF Inv, ResultKept
  <2>9. CheckDue'
    BY DEF Inv, CheckDue
  <2>10. OneActive' /\ BoardOnlyRanked' /\ EffectsOnce' /\ ReflectedCompleted'
    BY DEF Inv, OneActive, BoardOnlyRanked, EffectsOnce, ReflectedCompleted
  <2>. QED  BY <2>1, <2>2, <2>3, <2>4, <2>5, <2>6, <2>7, <2>8, <2>9, <2>10 DEF Inv
<1>3. CASE pc[r] \in {"ia", "iaSave", "catchup"} /\ Finish(r)
  <2>. USE <1>3
  <2>1. TypeOK'
    BY RowFacts, IdsAssumption DEF Inv, TypeOK, Pcs
  <2>2. CreatorAlone'
    BY DEF Inv, CreatorAlone, Creating
  <2>3. HoldsLive'
    BY DEF Inv, HoldsLive
  <2>4. Named'
    BY RowFacts DEF Inv, TypeOK, Named, Writing
  <2>5. Writing'
    BY DEF Inv, TypeOK, Writing
  <2>6. Saving'
    BY DEF Inv, Saving
  <2>7. InsertReady'
    BY DEF Inv, InsertReady
  <2>8. ResultKept'
    BY IdsAssumption DEF Inv, TypeOK, ResultKept
  <2>9. CheckDue'
    BY DEF Inv, CheckDue
  <2>10. OneActive' /\ BoardOnlyRanked' /\ EffectsOnce' /\ ReflectedCompleted'
    BY DEF Inv, OneActive, BoardOnlyRanked, EffectsOnce, ReflectedCompleted
  <2>. QED  BY <2>1, <2>2, <2>3, <2>4, <2>5, <2>6, <2>7, <2>8, <2>9, <2>10 DEF Inv
<1>. QED  BY <1>1, <1>2, <1>3

LEMMA CrashInv ==
  ASSUME NEW r \in Reqs, Inv, Crash(r)
  PROVE  Inv'
<1>. USE DEF Crash, Unlock, Finish, db, Goto
<1>1. TypeOK'
  BY RowFacts, IdsAssumption DEF Inv, TypeOK, Pcs
<1>2. CreatorAlone'
  BY DEF Inv, TypeOK, CreatorAlone, Creating
<1>3. HoldsLive'
  BY DEF Inv, TypeOK, HoldsLive
<1>4. Named'
  BY RowFacts, IdsAssumption DEF Inv, TypeOK, Named
<1>5. Writing'
  BY IdsAssumption DEF Inv, TypeOK, Writing
<1>6. Saving'
  BY DEF Inv, TypeOK, Saving
<1>7. InsertReady'
  BY DEF Inv, TypeOK, InsertReady
<1>8. ResultKept'
  BY IdsAssumption DEF Inv, TypeOK, ResultKept
<1>9. CheckDue'
  BY DEF Inv, TypeOK, CheckDue
<1>10. OneActive' /\ BoardOnlyRanked' /\ EffectsOnce' /\ ReflectedCompleted'
  BY DEF Inv, OneActive, BoardOnlyRanked, EffectsOnce, ReflectedCompleted
<1>. QED  BY <1>1, <1>2, <1>3, <1>4, <1>5, <1>6, <1>7, <1>8, <1>9, <1>10 DEF Inv

LEMMA StaleAbandonedInv ==
  ASSUME NEW s \in Sids, Free(s), Inv, StaleAbandoned(s)
  PROVE  Inv'
<1>. USE DEF StaleAbandoned, Stale, locks, local, effect, Free
<1>1. /\ rows[s].status = "active"
      /\ rows' \in [Sids -> Row]
      /\ rows'[s].status = "abandoned" /\ rows'[s].ranked = rows[s].ranked
      /\ rows'[s].refl = rows[s].refl /\ \A t \in Sids \ {s} : rows'[t] = rows[t]
  BY AbandonedFacts DEF Inv, TypeOK
<1>2. RowsFollow
  BY <1>1 DEF RowsFollow, Ended
<1>3. TypeOK'
  BY <1>1 DEF Inv, TypeOK
<1>4. CreatorAlone'
  BY DEF Inv, CreatorAlone
<1>5. HoldsLive'
  BY IdsAssumption DEF Inv, HoldsLive
<1>6. Named'
  BY <1>2 DEF Inv, Named, RowsFollow
<1>7. Writing'
  BY DEF Inv, Writing
<1>8. Saving'
  BY DEF Inv, Saving, Ended
<1>9. InsertReady'
  BY DEF Inv, InsertReady
<1>10. ResultKept'
  BY <1>1, <1>2 DEF Inv, ResultKept, RowsFollow
<1>11. CheckDue'
  BY DEF Inv, CheckDue, Ended
<1>12. OneActive'
  BY DEF Inv, OneActive
<1>13. BoardOnlyRanked'
  BY <1>2 DEF Inv, BoardOnlyRanked, RowsFollow
<1>14. EffectsOnce'
  BY DEF Inv, EffectsOnce
<1>15. ReflectedCompleted'
  BY <1>1 DEF Inv, ReflectedCompleted
<1>. QED  BY <1>3, <1>4, <1>5, <1>6, <1>7, <1>8, <1>9, <1>10, <1>11, <1>12, <1>13, <1>14,
             <1>15 DEF Inv

LEMMA AbandonReadInv ==
  ASSUME NEW r \in Reqs, NEW s \in Sids, Inv, AbandonRead(r, s)
  PROVE  Inv'
<1>. USE DEF AbandonRead, Goto, db, locks, effect
<1>1. TypeOK'
  BY AbandonedFacts DEF Inv, TypeOK, Pcs
<1>2. CreatorAlone'
  BY DEF Inv, CreatorAlone, Creating
<1>3. HoldsLive'
  BY DEF Inv, HoldsLive
<1>4. Named'
  BY DEF Inv, TypeOK, Named
<1>5. Writing'
  BY DEF Inv, Writing
<1>6. Saving'
  BY AbandonedFacts, RowFacts DEF Inv, TypeOK, Saving, Ended
<1>7. InsertReady'
  BY DEF Inv, InsertReady
<1>8. ResultKept'
  BY AbandonedFacts DEF Inv, TypeOK, ResultKept, ReflectedCompleted, Ended
<1>9. CheckDue'
  BY DEF Inv, CheckDue
<1>10. OneActive' /\ BoardOnlyRanked' /\ EffectsOnce' /\ ReflectedCompleted'
  BY DEF Inv, OneActive, BoardOnlyRanked, EffectsOnce, ReflectedCompleted
<1>. QED  BY <1>1, <1>2, <1>3, <1>4, <1>5, <1>6, <1>7, <1>8, <1>9, <1>10 DEF Inv

LEMMA GetActiveReadInv ==
  ASSUME NEW r \in Reqs, NEW s \in Sids, Inv, GetActiveRead(r, s)
  PROVE  Inv'
BY AbandonReadInv DEF GetActiveRead

\* Both kinds of request that lock a live row first.
LockLive(r, s, l) ==
  /\ pc[r] = "idle" /\ Free(s) /\ rows[s].status = "active"
  /\ Lock(r, s) /\ Goto(r, l) /\ sid' = [sid EXCEPT ![r] = s]
  /\ UNCHANGED <<db, userLock, cur, snap, seen, iaRead, effect>>

LEMMA LockLiveInv ==
  ASSUME NEW r \in Reqs, NEW s \in Sids, NEW l \in {"update", "end"}, Inv, LockLive(r, s, l)
  PROVE  Inv'
<1>. USE DEF LockLive, Free, Lock, Goto, db, effect
<1>1. TypeOK'
  BY DEF Inv, TypeOK, Pcs
<1>2. CreatorAlone'
  BY DEF Inv, CreatorAlone, Creating
<1>3. HoldsLive'
  BY IdsAssumption DEF Inv, TypeOK, HoldsLive
<1>4. Named'
  BY DEF Inv, TypeOK, Named
<1>5. Writing'
  BY IdsAssumption DEF Inv, Writing
<1>6. Saving'
  BY DEF Inv, Saving
<1>7. InsertReady'
  BY DEF Inv, InsertReady
<1>8. ResultKept'
  BY DEF Inv, ResultKept, Named
<1>9. CheckDue'
  BY DEF Inv, CheckDue
<1>10. OneActive' /\ BoardOnlyRanked' /\ EffectsOnce' /\ ReflectedCompleted'
  BY DEF Inv, OneActive, BoardOnlyRanked, EffectsOnce, ReflectedCompleted
<1>. QED  BY <1>1, <1>2, <1>3, <1>4, <1>5, <1>6, <1>7, <1>8, <1>9, <1>10 DEF Inv

LEMMA UpdateLockInv ==
  ASSUME NEW r \in Reqs, NEW s \in Sids, Inv, UpdateLock(r, s)
  PROVE  Inv'
<1>1. CASE Free(s) /\ StaleAbandoned(s)
  BY <1>1, StaleAbandonedInv
<1>2. CASE LockLive(r, s, "update")
  BY <1>2, LockLiveInv
<1>. QED  BY <1>1, <1>2 DEF UpdateLock, LockLive

LEMMA ReflectInv ==
  ASSUME NEW r \in Reqs, NEW s \in Sids, Inv, Reflect(r, s)
  PROVE  Inv'
<1>. USE DEF Reflect, Free, locks, local, effect
<1>1. PICK text \in BOOLEAN : rows' = [rows EXCEPT ![s] = Reflected(@, text)]
  OBVIOUS
<1>2. /\ rows' \in [Sids -> Row] /\ rows[s].status = "completed"
      /\ \A t \in Sids : /\ rows'[t].status = rows[t].status /\ rows'[t].ranked = rows[t].ranked
                         /\ t # s => rows'[t] = rows[t]
  BY ReflectedFacts DEF Inv, TypeOK, CanReflect
<1>3. RowsFollow
  BY <1>2 DEF RowsFollow
<1>4. TypeOK'
  BY <1>2 DEF Inv, TypeOK
<1>5. CreatorAlone'
  BY DEF Inv, CreatorAlone
<1>6. HoldsLive'
  BY IdsAssumption DEF Inv, HoldsLive
<1>7. Named'
  BY <1>3 DEF Inv, Named, RowsFollow
<1>8. Writing'
  BY DEF Inv, Writing
<1>9. Saving'
  BY <1>3 DEF Inv, Saving, RowsFollow
<1>10. InsertReady'
  BY <1>2 DEF Inv, InsertReady
<1>11. ResultKept'
  BY <1>2 DEF Inv, ResultKept
<1>12. CheckDue'
  BY <1>3 DEF Inv, CheckDue, RowsFollow
<1>13. OneActive'
  BY <1>2 DEF Inv, OneActive
<1>14. BoardOnlyRanked'
  BY <1>3 DEF Inv, BoardOnlyRanked, ResultKept, RowsFollow
<1>15. EffectsOnce'
  BY DEF Inv, EffectsOnce
<1>16. ReflectedCompleted'
  BY <1>2 DEF Inv, ReflectedCompleted, ResultKept
<1>. QED  BY <1>4, <1>5, <1>6, <1>7, <1>8, <1>9, <1>10, <1>11, <1>12, <1>13, <1>14,
             <1>15, <1>16 DEF Inv

LEMMA EndLockInv ==
  ASSUME NEW r \in Reqs, NEW s \in Sids, Inv, EndLock(r, s)
  PROVE  Inv'
<1>1. CASE Free(s) /\ StaleAbandoned(s)
  BY <1>1, StaleAbandonedInv
<1>2. CASE LockLive(r, s, "end")
  BY <1>2, LockLiveInv
<1>3. CASE /\ pc[r] = "idle" /\ rows[s].status = "completed" /\ Goto(r, "catchup")
           /\ sid' = [sid EXCEPT ![r] = s] /\ snap' = [snap EXCEPT ![r] = rows[s]]
           /\ UNCHANGED <<db, locks, cur, seen, iaRead, effect>>
  <2>. USE DEF Goto, db, locks, effect
  <2>1. TypeOK'
    BY <1>3 DEF Inv, TypeOK, Pcs
  <2>2. CreatorAlone'
    BY <1>3 DEF Inv, CreatorAlone, Creating
  <2>3. HoldsLive'
    BY <1>3 DEF Inv, HoldsLive
  <2>4. Named'
    BY <1>3 DEF Inv, TypeOK, Named
  <2>5. Writing'
    BY <1>3 DEF Inv, Writing
  <2>6. Saving'
    BY <1>3 DEF Inv, Saving
  <2>7. InsertReady'
    BY <1>3 DEF Inv, InsertReady
  <2>8. ResultKept'
    BY <1>3 DEF Inv, TypeOK, ResultKept, Ended
  <2>9. CheckDue'
    BY <1>3 DEF Inv, CheckDue
  <2>10. OneActive' /\ BoardOnlyRanked' /\ EffectsOnce' /\ ReflectedCompleted'
    BY <1>3 DEF Inv, OneActive, BoardOnlyRanked, EffectsOnce, ReflectedCompleted
  <2>. QED  BY <2>1, <2>2, <2>3, <2>4, <2>5, <2>6, <2>7, <2>8, <2>9, <2>10 DEF Inv
<1>. QED  BY <1>1, <1>2, <1>3 DEF EndLock, LockLive

LEMMA AppendReadInv ==
  ASSUME NEW r \in Reqs, NEW s \in Sids, Inv, AppendRead(r, s)
  PROVE  Inv'
<1>. USE DEF AppendRead, Goto, db, locks, effect
<1>1. TypeOK'
  BY DEF Inv, TypeOK, Pcs
<1>2. CreatorAlone'
  BY DEF Inv, CreatorAlone, Creating
<1>3. HoldsLive'
  BY DEF Inv, HoldsLive
<1>4. Named'
  BY DEF Inv, TypeOK, Named
<1>5. Writing'
  BY DEF Inv, Writing
<1>6. Saving'
  BY DEF Inv, Saving
<1>7. InsertReady'
  BY DEF Inv, InsertReady
<1>8. ResultKept'
  BY DEF Inv, ResultKept, Named
<1>9. CheckDue'
  BY DEF Inv, CheckDue
<1>10. OneActive' /\ BoardOnlyRanked' /\ EffectsOnce' /\ ReflectedCompleted'
  BY DEF Inv, OneActive, BoardOnlyRanked, EffectsOnce, ReflectedCompleted
<1>. QED  BY <1>1, <1>2, <1>3, <1>4, <1>5, <1>6, <1>7, <1>8, <1>9, <1>10 DEF Inv

LEMMA AgeInv ==
  ASSUME NEW s \in Sids, Inv, Age(s)
  PROVE  Inv'
<1>. USE DEF Age, locks, local, effect
<1>1. TypeOK'
  BY DEF Inv, TypeOK
<1>2. CreatorAlone'
  BY DEF Inv, CreatorAlone
<1>3. HoldsLive'
  BY DEF Inv, HoldsLive
<1>4. Named'
  BY DEF Inv, Named
<1>5. Writing'
  BY DEF Inv, Writing
<1>6. Saving'
  BY DEF Inv, Saving
<1>7. InsertReady'
  BY DEF Inv, InsertReady
<1>8. ResultKept'
  BY DEF Inv, ResultKept
<1>9. CheckDue'
  BY DEF Inv, CheckDue
<1>10. OneActive' /\ BoardOnlyRanked' /\ EffectsOnce' /\ ReflectedCompleted'
  BY DEF Inv, OneActive, BoardOnlyRanked, EffectsOnce, ReflectedCompleted
<1>. QED  BY <1>1, <1>2, <1>3, <1>4, <1>5, <1>6, <1>7, <1>8, <1>9, <1>10 DEF Inv

LEMMA StutterInv == Inv /\ UNCHANGED vars => Inv'
BY DEF vars, db, locks, local, effect, Inv, TypeOK, CreatorAlone, HoldsLive, Named, Writing,
       Saving, InsertReady, ResultKept, CheckDue, OneActive, BoardOnlyRanked, EffectsOnce,
       ReflectedCompleted

LEMMA NextInv == Inv /\ [Next]_vars => Inv'
<1>. SUFFICES ASSUME Inv, [Next]_vars PROVE Inv'
  OBVIOUS
<1>1. CASE UNCHANGED vars
  BY <1>1, StutterInv
<1>2. ASSUME NEW r \in Reqs, Arrive(r) PROVE Inv'
  BY <1>2, CreateBeginInv, AbandonReadInv, GetActiveReadInv, UpdateLockInv, ReflectInv,
     EndLockInv, AppendReadInv DEF Arrive
<1>3. ASSUME NEW r \in Reqs, Proceed(r) PROVE Inv'
  BY <1>3, CreateFindStaleInv, CreateFindActiveInv, CreateInsertInv, SaveRereadInv,
     SaveFlushInv, SaveCommitInv, UpdateCommitInv, RefuseInv, EndCommitInv,
     BoardHandlerInv, AchievementHandlerInv, IaComputeInv, IaSaveInv, CatchUpInv,
     AppendCommitInv DEF Proceed
<1>4. ASSUME NEW r \in Reqs, HandlerFails(r) \/ Crash(r) PROVE Inv'
  BY <1>4, HandlerFailsInv, CrashInv
<1>5. ASSUME NEW s \in Sids, Age(s) PROVE Inv'
  BY <1>5, AgeInv
<1>. QED  BY <1>1, <1>2, <1>3, <1>4, <1>5 DEF Next

(***************************************************************************)
(* The steps that write a row, and what they make of it                    *)
(***************************************************************************)
LEMMA RowWriters ==
  ASSUME [Next]_vars
  PROVE  \/ UNCHANGED rows
         \/ \E r \in Reqs : CreateInsert(r) \/ SaveCommit(r) \/ UpdateCommit(r) \/ EndCommit(r)
         \/ \E s \in Sids : StaleAbandoned(s)
         \/ \E r \in Reqs, s \in Sids : Reflect(r, s)
<1>1. CASE UNCHANGED vars
  BY <1>1 DEF vars, db
<1>2. ASSUME NEW r \in Reqs, Arrive(r)
      PROVE  \/ UNCHANGED rows
             \/ \E s \in Sids : StaleAbandoned(s) \/ Reflect(r, s)
  BY <1>2 DEF Arrive, CreateBegin, AbandonRead, GetActiveRead, UpdateLock, EndLock, AppendRead, db
<1>3. ASSUME NEW r \in Reqs, Proceed(r)
      PROVE  \/ UNCHANGED rows
             \/ CreateInsert(r) \/ SaveCommit(r) \/ UpdateCommit(r) \/ EndCommit(r)
  BY <1>3 DEF Proceed, CreateFindStale, CreateFindActive, SaveReread, SaveFlush, Refuse,
     BoardHandler, AchievementHandler, IaCompute, IaSave, CatchUp, AppendCommit, db
<1>4. ASSUME NEW r \in Reqs, HandlerFails(r) \/ Crash(r) PROVE UNCHANGED rows
  BY <1>4 DEF HandlerFails, Crash, db
<1>5. ASSUME NEW s \in Sids, Age(s) PROVE UNCHANGED rows
  BY <1>5 DEF Age
<1>. QED  BY <1>1, <1>2, <1>3, <1>4, <1>5 DEF Next

\* The active row an unlocked save meets becomes an abandoned one: had the
\* save seen another status, or a completed one, the row would have ended.
LEMMA SavedRow ==
  ASSUME Inv, NEW r \in Reqs, sid[r] \in Sids,
         pc[r] = "commit" \/ pc[r] = "insert"
  PROVE  LET row == Written(snap[r], seen[r], rows[sid[r]]) IN
           /\ row.status # "none" /\ row.status # "active"
           /\ rows[sid[r]].status = "active" => row.status = "abandoned"
<1>1. /\ snap[r] \in Row /\ seen[r] \in Row /\ rows[sid[r]] \in Row
      /\ snap[r].status \in Ended
      /\ seen[r].status = "active" \/ rows[sid[r]].status \in Ended
      /\ snap[r].status = "completed" => rows[sid[r]].status \in Ended
  BY DEF Inv, TypeOK, Saving, ResultKept, Ended
<1>2. Written(snap[r], seen[r], rows[sid[r]]).status =
        IF snap[r].status # seen[r].status THEN snap[r].status ELSE rows[sid[r]].status
  BY <1>1, WrittenFacts
<1>. QED  BY <1>1, <1>2 DEF Ended

LEMMA CompletedRow ==
  ASSUME NEW r \in Reqs, EndCommit(r)
  PROVE  \E score, waves, total, cap, proven :
           /\ CanComplete(rows[sid[r]], score, waves, cap, proven)
           /\ rows' = [rows EXCEPT ![sid[r]] = Completed(rows[sid[r]], score, waves, total)]
<1>1. PICK sent \in {NoValue} \cup 0..LevelScore, w \in 0..LevelWaves, cap \in WaveCaps :
         LET proven == log[sid[r]]
             score  == IF sent = NoValue THEN rows[sid[r]].score ELSE sent
             waves  == IF proven = NoValue THEN w ELSE proven IN
         /\ CanComplete(rows[sid[r]], score, waves, cap, proven)
         /\ \E total \in VerifiedTotals(waves, proven) :
              LET done == Completed(rows[sid[r]], score, waves, total) IN
              /\ rows' = [rows EXCEPT ![sid[r]] = done]
              /\ snap' = [snap EXCEPT ![r] = done]
              /\ result' = [result EXCEPT ![sid[r]] = EntryOf(done)]
  BY DEF EndCommit
<1>. DEFINE score == IF sent = NoValue THEN rows[sid[r]].score ELSE sent
            waves == IF log[sid[r]] = NoValue THEN w ELSE log[sid[r]]
<1>2. PICK total : rows' = [rows EXCEPT ![sid[r]] = Completed(rows[sid[r]], score, waves, total)]
  BY <1>1
<1>3. CanComplete(rows[sid[r]], score, waves, cap, log[sid[r]])
  BY <1>1
<1>. HIDE DEF score, waves
<1>. QED  BY <1>2, <1>3

(***************************************************************************)
(* LiveProgress                                                            *)
(***************************************************************************)
LEMMA UpdatedGrows ==
  ASSUME NEW row \in Row, NEW wave \in {NoValue} \cup 0..(MaxWave + 1),
         NEW score \in {NoValue} \cup 0..LevelScore, CanUpdate(row, wave, score)
  PROVE  Updated(row, wave, score).score >= row.score /\ Updated(row, wave, score).wave >= row.wave
<1>1. row.wave \in 0..MaxWave /\ row.score \in 0..LevelScore
  BY DEF Row
<1>2. /\ Updated(row, wave, score).wave = IF wave = NoValue THEN row.wave ELSE AtMost(wave, MaxWave)
      /\ Updated(row, wave, score).score = IF score = NoValue THEN row.score ELSE score
  BY DEF Updated, Row
<1>. QED  BY <1>1, <1>2, BoundsAssumption DEF CanUpdate, AtMost, NoValue

LEMMA LiveProgressStep ==
  ASSUME Inv, [Next]_vars, NEW s \in Sids, rows[s].status = "active",
         rows'[s].status \in {"active", "completed"}
  PROVE  rows'[s].score >= rows[s].score /\ rows'[s].wave >= rows[s].wave
<1>0. /\ rows \in [Sids -> Row] /\ rows[s] \in Row
      /\ rows[s].score \in Nat /\ rows[s].wave \in Nat
  BY BoundsAssumption DEF Inv, TypeOK, Row
<1>1. CASE rows'[s] = rows[s]
  BY <1>0, <1>1
<1>2. ASSUME NEW r \in Reqs, CreateInsert(r) PROVE rows'[s] = rows[s]
  <2>1. PICK n \in Sids, ranked \in BOOLEAN :
          /\ rows[n].status = "none"
          /\ rows'[s] = IF s = n THEN NewRow(ranked)
                        ELSE IF s = sid[r] THEN Written(snap[r], seen[r], rows[s])
                        ELSE IF s = cur[r] THEN Abandoned(rows[s]) ELSE rows[s]
    BY <1>2 DEF CreateInsert
  <2>2. s = sid[r] => Written(snap[r], seen[r], rows[s]).status = "abandoned"
    BY <1>2, SavedRow DEF CreateInsert
  <2>3. Abandoned(rows[s]).status = "abandoned"
    BY <1>0, AbandonedFacts
  <2>. QED  BY <2>1, <2>2, <2>3
<1>3. ASSUME NEW r \in Reqs, SaveCommit(r) PROVE rows'[s] = rows[s]
  <2>1. sid[r] \in Sids /\ pc[r] = "commit"
    BY <1>3 DEF SaveCommit, Inv, Named
  <2>2. rows'[s] = IF s = sid[r] THEN Written(snap[r], seen[r], rows[s]) ELSE rows[s]
    BY <1>0, <1>3, <2>1 DEF SaveCommit
  <2>3. s = sid[r] => Written(snap[r], seen[r], rows[s]).status = "abandoned"
    BY <2>1, SavedRow
  <2>. QED  BY <2>2, <2>3
<1>4. ASSUME NEW r \in Reqs, UpdateCommit(r)
      PROVE  rows'[s].score >= rows[s].score /\ rows'[s].wave >= rows[s].wave
  <2>1. PICK wave \in {NoValue} \cup 0..(MaxWave + 1), score \in {NoValue} \cup 0..LevelScore :
          /\ CanUpdate(rows[sid[r]], wave, score)
          /\ rows' = [rows EXCEPT ![sid[r]] = Updated(@, wave, score)]
    BY <1>4 DEF UpdateCommit
  <2>2. CASE s = sid[r]
    BY <1>0, <2>1, <2>2, UpdatedGrows
  <2>3. CASE s # sid[r]
    BY <1>0, <1>1, <2>1, <2>3
  <2>. QED  BY <2>2, <2>3
<1>5. ASSUME NEW r \in Reqs, EndCommit(r)
      PROVE  rows'[s].score >= rows[s].score /\ rows'[s].wave >= rows[s].wave
  <2>1. PICK score, waves, total, cap, proven :
          /\ CanComplete(rows[sid[r]], score, waves, cap, proven)
          /\ rows' = [rows EXCEPT ![sid[r]] = Completed(rows[sid[r]], score, waves, total)]
    BY <1>5, CompletedRow
  <2>2. CASE s = sid[r]
    BY <1>0, <2>1, <2>2 DEF CanComplete, Completed, Row
  <2>3. CASE s # sid[r]
    BY <1>0, <1>1, <2>1, <2>3
  <2>. QED  BY <2>2, <2>3
<1>6. ASSUME NEW u \in Sids, StaleAbandoned(u) PROVE rows'[s] = rows[s]
  BY <1>0, <1>6, AbandonedFacts DEF StaleAbandoned
<1>7. ASSUME NEW r \in Reqs, NEW u \in Sids, Reflect(r, u) PROVE rows'[s] = rows[s]
  BY <1>0, <1>7 DEF Reflect, CanReflect
<1>. QED  BY <1>1, <1>2, <1>3, <1>4, <1>5, <1>6, <1>7, RowWriters

(***************************************************************************)
(* Refinement: the active row is the slot of ActiveSlot                    *)
(***************************************************************************)
LEMMA TheActive ==
  ASSUME OneActive
  PROVE  /\ \A s \in Sids : rows[s].status = "active" => CurrentActive = s
         /\ (\A s \in Sids : rows[s].status # "active") => CurrentActive = NoSid
BY DEF OneActive, CurrentActive

\* The same of the next state.
LEMMA TheActiveNext ==
  ASSUME OneActive'
  PROVE  /\ \A s \in Sids : rows'[s].status = "active" => CurrentActive' = s
         /\ (\A s \in Sids : rows'[s].status # "active") => CurrentActive' = NoSid
BY DEF OneActive, CurrentActive

\* No session comes to life here, so the slot is as it was or empty.
NoOpening ==
  \A s \in Sids :
    /\ rows'[s].status = "active" => rows[s].status = "active"
    /\ rows'[s].status = "none" <=> rows[s].status = "none"

LEMMA NoOpeningSlot ==
  ASSUME OneActive, OneActive', NoOpening
  PROVE  [Slot!Next]_<<CurrentActive, {s \in Sids : rows[s].status # "none"}>>
<1>. DEFINE created == {s \in Sids : rows[s].status # "none"}
<1>1. created' = created
  BY DEF NoOpening
<1>2. CASE \E s \in Sids : rows'[s].status = "active"
  <2>1. PICK s \in Sids : rows'[s].status = "active"
    BY <1>2
  <2>2. rows[s].status = "active"
    BY <2>1 DEF NoOpening
  <2>3. CurrentActive = s
    BY <2>2, TheActive
  <2>4. CurrentActive' = s
    BY <2>1, TheActiveNext
  <2>. QED  BY <1>1, <2>3, <2>4
<1>3. CASE \A s \in Sids : rows'[s].status # "active"
  <2>1. CASE \A s \in Sids : rows[s].status # "active"
    BY <1>1, <1>3, <2>1, TheActive, TheActiveNext
  <2>2. CASE \E s \in Sids : rows[s].status = "active"
    <3>1. CurrentActive # NoSid /\ CurrentActive' = NoSid
      BY <1>3, <2>2, TheActive, TheActiveNext, IdsAssumption
    <3>. QED  BY <1>1, <3>1 DEF Slot!Next, Slot!Close
  <2>. QED  BY <2>1, <2>2
<1>. QED  BY <1>2, <1>3

LEMMA CreateInsertOpens ==
  ASSUME Inv, Inv', NEW r \in Reqs, CreateInsert(r)
  PROVE  [Slot!Next]_<<CurrentActive, {s \in Sids : rows[s].status # "none"}>>
<1>. DEFINE created == {s \in Sids : rows[s].status # "none"}
<1>1. PICK n \in Sids, ranked \in BOOLEAN :
        /\ rows[n].status = "none"
        /\ rows' = [s \in Sids |->
              IF s = n THEN NewRow(ranked)
              ELSE IF s = sid[r] THEN Written(snap[r], seen[r], rows[s])
              ELSE IF s = cur[r] THEN Abandoned(rows[s])
              ELSE rows[s]]
  BY DEF CreateInsert
<1>2. rows'[n].status = "active"
  BY <1>1, NewRowFacts
<1>3. CurrentActive' = n
  BY <1>2, TheActiveNext DEF Inv
<1>4. ASSUME NEW s \in Sids, s # n PROVE rows'[s].status = "none" <=> rows[s].status = "none"
  <2>1. s = sid[r] => rows'[s].status # "none" /\ rows[s].status # "none"
    BY <1>1, <1>4, SavedRow DEF CreateInsert, Inv, Named
  <2>2. s = cur[r] => rows[s].status # "none"
    BY DEF Inv, Named
  <2>3. rows[s].status # "none" => Abandoned(rows[s]).status # "none"
    BY AbandonedFacts DEF Inv, TypeOK
  <2>. QED  BY <1>1, <1>4, <2>1, <2>2, <2>3
<1>5. created' = created \cup {n} /\ n \notin created
  BY <1>1, <1>2, <1>4
<1>6. Slot!Open(n)
  BY <1>3, <1>5 DEF Slot!Open
<1>. QED  BY <1>6 DEF Slot!Next

LEMMA SlotStep ==
  ASSUME Inv, Inv', [Next]_vars
  PROVE  [Slot!Next]_<<CurrentActive, {s \in Sids : rows[s].status # "none"}>>
<1>0. rows \in [Sids -> Row] /\ OneActive /\ OneActive'
  BY DEF Inv, TypeOK
<1>1. CASE UNCHANGED rows
  <2>1. NoOpening
    BY <1>1 DEF NoOpening
  <2>. QED  BY <1>0, <2>1, NoOpeningSlot
<1>2. ASSUME NEW r \in Reqs, SaveCommit(r) PROVE NoOpening
  <2>1. /\ sid[r] \in Sids /\ pc[r] = "commit" /\ rows[sid[r]].status # "none"
        /\ rows' = [rows EXCEPT ![sid[r]] = Written(snap[r], seen[r], rows[sid[r]])]
    BY <1>2 DEF SaveCommit, Inv, Named
  <2>. QED  BY <1>0, <2>1, SavedRow DEF NoOpening
<1>3. ASSUME NEW r \in Reqs, UpdateCommit(r) PROVE NoOpening
  <2>1. PICK wave \in {NoValue} \cup 0..(MaxWave + 1), score \in {NoValue} \cup 0..LevelScore :
          rows' = [rows EXCEPT ![sid[r]] = Updated(@, wave, score)]
    BY <1>3 DEF UpdateCommit
  <2>. QED  BY <1>0, <2>1, UpdatedFacts DEF NoOpening
<1>4. ASSUME NEW r \in Reqs, EndCommit(r) PROVE NoOpening
  <2>1. /\ sid[r] \in Sids /\ rows[sid[r]].status = "active"
        /\ \E score, waves, total :
             rows' = [rows EXCEPT ![sid[r]] = Completed(rows[sid[r]], score, waves, total)]
    <3>1. sid[r] \in Sids /\ rows[sid[r]].status = "active"
      BY <1>4 DEF EndCommit, Inv, HoldsLive
    <3>2. PICK score, waves, total, cap, proven :
            rows' = [rows EXCEPT ![sid[r]] = Completed(rows[sid[r]], score, waves, total)]
      BY <1>4, CompletedRow
    <3>. QED  BY <3>1, <3>2
  <2>. QED  BY <1>0, <2>1 DEF NoOpening, Completed, Row
<1>5. ASSUME NEW u \in Sids, StaleAbandoned(u) PROVE NoOpening
  BY <1>0, <1>5, AbandonedFacts DEF StaleAbandoned, Stale, NoOpening
<1>6. ASSUME NEW r \in Reqs, NEW u \in Sids, Reflect(r, u) PROVE NoOpening
  BY <1>0, <1>6, ReflectedFacts DEF Reflect, NoOpening
<1>. QED
  BY <1>0, <1>1, <1>2, <1>3, <1>4, <1>5, <1>6, CreateInsertOpens, NoOpeningSlot, RowWriters

(***************************************************************************)
(* The theorems                                                            *)
(***************************************************************************)
\* Inv holds in every reachable state of the session service.
THEOREM SessionsInv == Spec => []Inv
<1>. QED  BY InitInv, NextInv, PTL DEF Spec

\* Every variable keeps its type, whatever the clients send: the scores and
\* waves of rows, aggregates in memory and entries stay within the level.
THEOREM TypeCorrect == Spec => []TypeOK
<1>1. Inv => TypeOK
  BY DEF Inv
<1>. QED  BY <1>1, SessionsInv, PTL

\* A user never has two ACTIVE sessions: create_session's advisory lock is
\* enough, and uq_one_active_per_user is never hit.
THEOREM OneActiveHolds == Spec => []OneActive
<1>1. Inv => OneActive
  BY DEF Inv
<1>. QED  BY <1>1, SessionsInv, PTL

\* Achievements are evaluated at most once per session.
THEOREM EffectsOnceHolds == Spec => []EffectsOnce
<1>1. Inv => EffectsOnce
  BY DEF Inv
<1>. QED  BY <1>1, SessionsInv, PTL

\* Leaderboard entries belong to ranked sessions that completed.
THEOREM BoardOnlyRankedHolds == Spec => []BoardOnlyRanked
<1>1. Inv => BoardOnlyRanked
  BY DEF Inv
<1>. QED  BY <1>1, SessionsInv, PTL

\* Reflections belong to sessions that completed.
THEOREM ReflectedCompletedHolds == Spec => []ReflectedCompleted
<1>1. Inv => ReflectedCompleted
  BY DEF Inv
<1>. QED  BY <1>1, SessionsInv, PTL

\* A live session's score and wave never go back.
THEOREM LiveProgressHolds == Spec => LiveProgress
<1>1. Inv /\ [Next]_vars =>
        [\A s \in Sids :
           rows[s].status = "active" /\ rows'[s].status \in {"active", "completed"}
             => rows'[s].score >= rows[s].score /\ rows'[s].wave >= rows[s].wave]_vars
  BY LiveProgressStep
<1>. QED  BY <1>1, SessionsInv, PTL DEF Spec, LiveProgress

\* Whatever requests interleave, the rows behave as one slot that is opened
\* with a fresh session and closed, and never reopened.
THEOREM ImplementsSlot == Spec => SlotRefined
<1>1. Init => Slot!Init
  BY DEF Init, Slot!Init, CurrentActive, NoRow
<1>2. Inv /\ Inv' /\ [Next]_vars =>
        [Slot!Next]_<<CurrentActive, {s \in Sids : rows[s].status # "none"}>>
  BY SlotStep
<1>. QED  BY <1>1, <1>2, SessionsInv, PTL DEF Spec, SlotRefined, Slot!Spec
=============================================================================
