---------------------------- MODULE RunSync_proof ----------------------------
(***************************************************************************)
(* SyncInv is an inductive invariant of RunSync: for any number of runs,   *)
(* waves, attempts, sessions and faults, the session the page works on is  *)
(* the one of its latest create call; and while nothing is lost, the end   *)
(* of a run is sent after the last answer to its snapshots.                *)
(***************************************************************************)
EXTENDS RunSync, SequenceTheorems, TLAPS

(***************************************************************************)
(* What the server does to the rows: none goes, none changes its call      *)
(***************************************************************************)
Kept(new) ==
  /\ new \in Seq(Row) /\ DOMAIN rows \subseteq DOMAIN new
  /\ \A s \in DOMAIN rows : new[s].gen = rows[s].gen

LEMMA AbandonedKept ==
  ASSUME rows \in Seq(Row), NEW from
  PROVE  Kept(Abandoned(from)) /\ DOMAIN Abandoned(from) = DOMAIN rows
<1>. DEFINE n == Len(rows)
            new == Abandoned(from)
<1>1. n \in Nat /\ DOMAIN rows = 1..n /\ \A s \in 1..n : rows[s] \in Row
  OBVIOUS
<1>2. \A s \in 1..n : new[s] \in Row /\ new[s].gen = rows[s].gen
  BY <1>1 DEF Abandoned, Row
<1>3. new \in [1..n -> Row]
  BY <1>1, <1>2 DEF Abandoned
<1>4. new \in Seq(Row)
  BY <1>1, <1>3, SeqDef
<1>. QED  BY <1>1, <1>2, <1>3, <1>4 DEF Kept

LEMMA OpenedKept ==
  ASSUME rows \in Seq(Row), NEW run \in Nat, NEW gen \in Nat
  PROVE  /\ Kept(Opened(run, gen))
         /\ Len(rows) + 1 \in DOMAIN Opened(run, gen)
         /\ Opened(run, gen)[Len(rows) + 1].gen = gen
<1>. DEFINE old == Abandoned(Active)
            row == [status |-> "active", run |-> run, gen |-> gen]
<1>1. old \in Seq(Row) /\ DOMAIN old = DOMAIN rows /\ \A s \in DOMAIN rows : old[s].gen = rows[s].gen
  BY AbandonedKept DEF Kept
<1>2. row \in Row
  BY DEF Row
<1>3. Len(old) = Len(rows)
  BY <1>1
<1>4. /\ Append(old, row) \in Seq(Row) /\ DOMAIN Append(old, row) = 1..(Len(old) + 1)
      /\ \A s \in 1..Len(old) : Append(old, row)[s] = old[s]
      /\ Append(old, row)[Len(old) + 1] = row
  BY <1>1, <1>2
<1>5. Opened(run, gen) = Append(old, row)
  BY DEF Opened
<1>. HIDE DEF old, row
<1>6. DOMAIN rows = 1..Len(old) /\ Len(old) \in Nat
  BY <1>1, <1>3
<1>7. row.gen = gen
  BY DEF row
<1>. QED  BY <1>1, <1>3, <1>4, <1>5, <1>6, <1>7 DEF Kept

LEMMA CompletedKept ==
  ASSUME rows \in Seq(Row), NEW s \in DOMAIN rows
  PROVE  Kept([rows EXCEPT ![s].status = "completed"])
<1>. DEFINE n == Len(rows)
            new == [rows EXCEPT ![s].status = "completed"]
<1>1. n \in Nat /\ DOMAIN rows = 1..n /\ \A i \in 1..n : rows[i] \in Row
  OBVIOUS
<1>2. \A i \in 1..n : new[i] \in Row /\ new[i].gen = rows[i].gen
  BY <1>1 DEF Row
<1>3. new \in [1..n -> Row]
  BY <1>1, <1>2
<1>4. new \in Seq(Row)
  BY <1>1, <1>3, SeqDef
<1>. QED  BY <1>1, <1>2, <1>3, <1>4 DEF Kept

LEMMA SameKept ==
  ASSUME rows \in Seq(Row), rows' = rows
  PROVE  Kept(rows')
BY DEF Kept

\* What the invariant says of the rows goes on to hold of any rows that kept them.
LEMMA RowsFacts ==
  ASSUME SyncInv, Kept(rows')
  PROVE  /\ rows' \in Seq(Row) /\ strays \subseteq DOMAIN rows'
         /\ \A t \in creates : t.row # NoRow => t.row \in DOMAIN rows' /\ rows'[t.row].gen = t.gen
         /\ \A e \in enders : e.stage \in {"post", "ok", "failed"} => e.row \in DOMAIN rows'
         /\ sync.id # NoRow => sync.id \in DOMAIN rows' /\ rows'[sync.id].gen = sync.cgen
BY DEF SyncInv, SyncTypeOK, CallsNamed, EndsNamed, IdNamed, LatestAdopted, Kept

LEMMA TaskFacts ==
  ASSUME NEW run \in Nat, NEW gen \in Nat, NEW by \in {"start", "end"}
  PROVE  Task(run, gen, by) \in Create /\ Task(run, gen, by).row = NoRow
BY DEF Task, Create, NoRow

LEMMA SendingFacts ==
  ASSUME NEW y, y.last \in Nat, NEW snapshot \in Snapshot
  PROVE  Sending(y, snapshot) \in Nat
BY DEF Sending, Snapshot, NoSnapshot, NoJob

(***************************************************************************)
(* The initial states                                                      *)
(***************************************************************************)
LEMMA SyncInitial == SyncInit => SyncInv
<1>. SUFFICES ASSUME SyncInit PROVE SyncInv
  OBVIOUS
<1>1. rows \in Seq(Row) /\ strays \subseteq DOMAIN rows
  <2>. DEFINE left == [status |-> "active", run |-> 0, gen |-> 0]
  <2>1. left \in Row
    BY DEF Row
  <2>2. (rows = <<>> \/ rows = <<left>>) /\ strays = {}
    BY DEF SyncInit
  <2>. HIDE DEF left
  <2>3. <<>> \in Seq(Row) /\ <<left>> \in Seq(Row)
    BY <2>1
  <2>. QED  BY <2>2, <2>3
<1>2. sync \in Fields
  <2>1. 0 \in Nat /\ NoSnapshot \in Snapshot /\ NoRow \in Nat /\ FALSE \in BOOLEAN
    BY DEF Snapshot, NoRow
  <2>2. [id |-> NoRow, level |-> FALSE, cgen |-> 0, sgen |-> 0, last |-> 0, pending |-> NoSnapshot] \in Fields
    BY <2>1, Zenon DEF Fields
  <2>. QED  BY <2>2, Zenon DEF SyncInit
<1>3. tab \in Run /\ creates \subseteq Create /\ loop \in Nat /\ enders \subseteq Ender
        /\ cleanup \in Nat /\ faults \in Nat
  BY DEF SyncInit, Run, NoJob
<1>4. SyncTypeOK
  BY <1>1, <1>2, <1>3 DEF SyncTypeOK
<1>. QED  BY <1>4 DEF SyncInit, SyncInv, CallsNamed, EndsNamed, IdNamed, LatestAdopted, NoRow

(***************************************************************************)
(* The game: no row changes, and a new call takes the session away         *)
(***************************************************************************)
LEMMA GameKeeps ==
  ASSUME SyncInv, Game
  PROVE  SyncInv'
<1>0. /\ tab \in Run /\ sync \in Fields /\ creates \subseteq Create /\ loop \in Nat
      /\ enders \subseteq Ender /\ cleanup \in Nat /\ faults \in Nat /\ rows \in Seq(Row)
      /\ NoSnapshot \in Snapshot /\ NoRow \in Nat
  BY DEF SyncInv, SyncTypeOK, Snapshot, NoRow
<1>r. rows' = rows
  BY DEF Game, Retry, LevelStart, WaveEnd, RunOver, Exit
<1>k. /\ rows' \in Seq(Row) /\ strays \subseteq DOMAIN rows'
      /\ \A t \in creates : t.row # NoRow => t.row \in DOMAIN rows' /\ rows'[t.row].gen = t.gen
      /\ \A e \in enders : e.stage \in {"post", "ok", "failed"} => e.row \in DOMAIN rows'
      /\ sync.id # NoRow => sync.id \in DOMAIN rows' /\ rows'[sync.id].gen = sync.cgen
  BY <1>0, <1>r, SameKept, RowsFacts
<1>1. CASE Retry
  <2>1. tab' \in Run /\ sync' \in Fields /\ sync'.id = sync.id /\ sync'.cgen = sync.cgen
    BY <1>0, <1>1 DEF Retry, Run, Fields
  <2>2. UNCHANGED <<creates, loop, enders, strays, cleanup, faults>>
    BY <1>1 DEF Retry
  <2>. QED  BY <1>0, <1>k, <2>1, <2>2 DEF SyncInv, SyncTypeOK, CallsNamed, EndsNamed, IdNamed, LatestAdopted
<1>2. CASE LevelStart
  <2>. DEFINE call == Task(tab.run + 1, sync.cgen + 1, "start")
  <2>1. call \in Create /\ call.row = NoRow
    BY <1>0, TaskFacts DEF Run, Fields
  <2>2. tab' \in Run /\ sync' \in Fields /\ sync'.id = NoRow
    <3>1. tab' \in Run
      BY <1>0, <1>2 DEF LevelStart, Run
    <3>. DEFINE next == sync.cgen + 1
    <3>2. next \in Nat /\ sync' = [sync EXCEPT !.id = NoRow, !.level = TRUE, !.cgen = next]
      BY <1>0, <1>2 DEF LevelStart, Fields
    <3>. HIDE DEF next
    <3>. QED  BY <1>0, <3>1, <3>2, Zenon DEF Fields
  <2>3. creates' = creates \cup {call} /\ cleanup' \in Nat /\ UNCHANGED <<loop, enders, strays, faults>>
    BY <1>0, <1>2 DEF LevelStart
  <2>. HIDE DEF call
  <2>. QED  BY <1>0, <1>k, <2>1, <2>2, <2>3 DEF SyncInv, SyncTypeOK, CallsNamed, EndsNamed, IdNamed, LatestAdopted
<1>3. CASE WaveEnd
  <2>. DEFINE snapshot == [wave |-> tab.wave + 1, gen |-> sync.sgen]
  <2>1. snapshot \in Snapshot
    BY <1>0 DEF Snapshot, Run, Fields
  <2>2. Sending(sync, snapshot) \in Nat
    BY <1>0, <2>1, SendingFacts DEF Fields
  <2>3. /\ sync' = sync \/ sync' = [sync EXCEPT !.pending = snapshot]
                        \/ sync' = [sync EXCEPT !.pending = NoSnapshot]
        /\ loop' = loop \/ loop' = Sending(sync, snapshot)
        /\ tab' = [tab EXCEPT !.wave = @ + 1]
        /\ UNCHANGED <<creates, enders, strays, cleanup, faults>>
    BY <1>3 DEF WaveEnd
  <2>. HIDE DEF snapshot
  <2>4. tab' \in Run /\ sync' \in Fields /\ sync'.id = sync.id /\ sync'.cgen = sync.cgen
    BY <1>0, <2>1, <2>3 DEF Run, Fields
  <2>. QED  BY <1>0, <1>k, <2>2, <2>3, <2>4 DEF SyncInv, SyncTypeOK, CallsNamed, EndsNamed, IdNamed, LatestAdopted
<1>4. CASE RunOver
  <2>. DEFINE e == [run |-> tab.run, stage |-> "drain", row |-> NoRow]
  <2>1. e \in Ender /\ e.stage = "drain"
    BY <1>0 DEF Ender, Run
  <2>2. tab' \in Run /\ (enders' = enders \/ enders' = {e}) /\ UNCHANGED <<sync, creates, loop, strays, cleanup, faults>>
    BY <1>0, <1>4 DEF RunOver, Run
  <2>. HIDE DEF e
  <2>. QED  BY <1>0, <1>k, <2>1, <2>2 DEF SyncInv, SyncTypeOK, CallsNamed, EndsNamed, IdNamed, LatestAdopted
<1>5. CASE Exit
  <2>1. tab' \in Run /\ sync' \in Fields /\ sync'.id = NoRow
    <3>1. tab' \in Run
      BY <1>0, <1>5 DEF Exit, Run
    <3>. DEFINE c == sync.cgen + 1
                s == sync.sgen + 1
    <3>2. /\ c \in Nat /\ s \in Nat /\ 0 \in Nat
          /\ sync' = [sync EXCEPT !.id = NoRow, !.level = FALSE, !.last = 0, !.pending = NoSnapshot,
                                  !.cgen = c, !.sgen = s]
      BY <1>0, <1>5 DEF Exit, Fields
    <3>. HIDE DEF c, s
    <3>. QED  BY <1>0, <3>1, <3>2, Zenon DEF Fields
  <2>2. strays' \subseteq strays \cup (IF sync.id = NoRow THEN {} ELSE {sync.id})
          /\ UNCHANGED <<creates, loop, enders, cleanup, faults>>
    BY <1>5 DEF Exit
  <2>3. strays' \subseteq DOMAIN rows'
    BY <1>k, <2>2
  <2>. QED  BY <1>0, <1>k, <2>1, <2>2, <2>3 DEF SyncInv, SyncTypeOK, CallsNamed, EndsNamed, IdNamed, LatestAdopted
<1>. QED  BY <1>1, <1>2, <1>3, <1>4, <1>5 DEF Game

(***************************************************************************)
(* The requests: what the server answers, and what the page makes of it    *)
(***************************************************************************)
LEMMA CreatesKeep ==
  ASSUME SyncInv, NEW t \in creates, CreateHandled(t) \/ CreateRetry(t) \/ CreateAnswered(t)
  PROVE  SyncInv'
<1>0. /\ tab \in Run /\ sync \in Fields /\ creates \subseteq Create /\ loop \in Nat
      /\ enders \subseteq Ender /\ cleanup \in Nat /\ faults \in Nat /\ rows \in Seq(Row)
      /\ strays \subseteq DOMAIN rows /\ NoRow \in Nat
      /\ t \in Create /\ (t.row # NoRow => t.row \in DOMAIN rows /\ rows[t.row].gen = t.gen)
  BY DEF SyncInv, SyncTypeOK, CallsNamed, NoRow
<1>1. CASE CreateHandled(t)
  <2>. DEFINE opened == Opened(t.run, t.gen)
              n == Len(rows) + 1
              ok == [t EXCEPT !.net = "ok", !.row = n]
              failed == [t EXCEPT !.net = "failed"]
  <2>1. Kept(opened) /\ n \in DOMAIN opened /\ opened[n].gen = t.gen
    BY <1>0, OpenedKept DEF Create
  <2>0. n \in Nat
    BY <1>0
  <2>. HIDE DEF n
  <2>2. ok \in Create /\ ok.row = n /\ ok.gen = t.gen
    BY <1>0, <2>0 DEF Create
  <2>3. failed \in Create /\ failed.row = t.row /\ failed.gen = t.gen
    BY <1>0 DEF Create
  <2>4. /\ \/ rows' = opened /\ creates' = (creates \ {t}) \cup {ok}
           \/ creates' = (creates \ {t}) \cup {failed} /\ (rows' = rows \/ rows' = opened)
        /\ faults' \in Nat /\ UNCHANGED <<tab, sync, loop, enders, strays, cleanup>>
    BY <1>0, <1>1 DEF CreateHandled, Sound, Fault, n
  <2>. HIDE DEF opened, ok, failed
  <2>5. Kept(rows')
    BY <1>0, <2>1, <2>4, SameKept
  <2>6. CallsNamed' /\ creates' \subseteq Create
    <3>1. \A c \in creates : c.row # NoRow => c.row \in DOMAIN rows' /\ rows'[c.row].gen = c.gen
      BY <2>5, RowsFacts
    <3>2. CASE rows' = opened /\ creates' = (creates \ {t}) \cup {ok}
      BY <1>0, <2>1, <2>2, <3>1, <3>2 DEF CallsNamed
    <3>3. CASE creates' = (creates \ {t}) \cup {failed}
      BY <1>0, <2>3, <3>1, <3>3 DEF CallsNamed
    <3>. QED  BY <2>4, <3>2, <3>3
  <2>. QED  BY <1>0, <2>4, <2>5, <2>6, RowsFacts DEF SyncInv, SyncTypeOK, EndsNamed, IdNamed, LatestAdopted
<1>2. CASE CreateRetry(t)
  <2>. DEFINE next == t.try + 1
              again == [t EXCEPT !.net = "out", !.try = next]
  <2>0. next \in Nat
    BY <1>0 DEF Create
  <2>. HIDE DEF next
  <2>1. again \in Create /\ again.row = t.row /\ again.gen = t.gen
    BY <1>0, <2>0 DEF Create
  <2>2. creates' = (creates \ {t}) \cup {again} /\ UNCHANGED <<tab, sync, loop, enders, strays, cleanup, rows, faults>>
    BY <1>2 DEF CreateRetry, next
  <2>. HIDE DEF again
  <2>. QED  BY <1>0, <2>1, <2>2 DEF SyncInv, SyncTypeOK, CallsNamed, EndsNamed, IdNamed, LatestAdopted
<1>3. CASE CreateAnswered(t)
  <2>. DEFINE row == IF t.gen = sync.cgen THEN t.row ELSE NoRow
              waiting == {w \in Waiting(t) : row # NoRow}
  <2>1. row \in Nat /\ (row # NoRow => row \in DOMAIN rows /\ rows[row].gen = sync.cgen)
    BY <1>0 DEF Create
  <2>2. /\ creates' = creates \ {t} /\ UNCHANGED <<tab, loop, cleanup, rows, faults>>
        /\ strays' \subseteq strays \cup (IF t.row # NoRow THEN {t.row} ELSE {})
        /\ enders' = enders \/ enders' = (enders \ Waiting(t)) \cup {Posting(e, row) : e \in waiting}
        /\ sync' \in {sync, [sync EXCEPT !.id = row], [sync EXCEPT !.id = row, !.sgen = t.gen, !.last = 0]}
    BY <1>3 DEF CreateAnswered
  <2>. HIDE DEF row
  <2>3. sync' \in Fields /\ sync'.cgen = sync.cgen /\ sync'.id \in {sync.id, row}
    <3>1. t.gen \in Nat /\ 0 \in Nat
      BY <1>0 DEF Create
    <3>2. CASE sync' = sync
      BY <1>0, <3>2
    <3>3. CASE sync' = [sync EXCEPT !.id = row]
      BY <1>0, <2>1, <3>3 DEF Fields
    <3>4. CASE sync' = [sync EXCEPT !.id = row, !.sgen = t.gen, !.last = 0]
      BY <1>0, <2>1, <3>1, <3>4 DEF Fields
    <3>. QED  BY <2>2, <3>2, <3>3, <3>4
  <2>4. enders' \subseteq Ender /\ \A e \in enders' : e.stage \in {"post", "ok", "failed"} => e \in enders \/ (e.row = row /\ row # NoRow)
    <3>1. \A e \in waiting : Posting(e, row) \in Ender /\ Posting(e, row).row = row /\ row # NoRow
      BY <1>0, <2>1 DEF Waiting, Posting, Ender
    <3>0. enders \subseteq Ender
      BY <1>0
    <3>. DEFINE posted == {Posting(e, row) : e \in waiting}
    <3>2. \A p \in posted : p \in Ender /\ p.row = row /\ row # NoRow
      BY <3>1
    <3>3. enders' = enders \/ enders' = (enders \ Waiting(t)) \cup posted
      BY <2>2
    <3>. HIDE DEF posted
    <3>4. \A e \in enders' : e \in enders \/ (e \in Ender /\ e.row = row /\ row # NoRow)
      BY <3>2, <3>3, Zenon
    <3>. QED  BY <3>0, <3>4, Zenon
  <2>5. strays' \subseteq DOMAIN rows
    BY <1>0, <2>2
  <2>. HIDE DEF waiting
  <2>6. EndsNamed' /\ CallsNamed'
    BY <2>1, <2>2, <2>4 DEF SyncInv, EndsNamed, CallsNamed
  <2>7. IdNamed' /\ LatestAdopted'
    BY <2>1, <2>2, <2>3 DEF SyncInv, IdNamed, LatestAdopted
  <2>. QED  BY <1>0, <2>2, <2>3, <2>4, <2>5, <2>6, <2>7 DEF SyncInv, SyncTypeOK
<1>. QED  BY <1>1, <1>2, <1>3

LEMMA StraysKeep ==
  ASSUME SyncInv, CleanupGet \/ \E s \in strays : StrayAbandoned(s)
  PROVE  SyncInv'
<1>0. /\ tab \in Run /\ sync \in Fields /\ creates \subseteq Create /\ loop \in Nat
      /\ enders \subseteq Ender /\ cleanup \in Nat /\ faults \in Nat /\ rows \in Seq(Row)
      /\ strays \subseteq DOMAIN rows
  BY DEF SyncInv, SyncTypeOK
<1>1. CASE CleanupGet
  <2>1. /\ cleanup' \in Nat /\ strays' \subseteq DOMAIN rows
        /\ UNCHANGED <<tab, sync, creates, loop, enders, rows, faults>>
    BY <1>0, <1>1 DEF CleanupGet, Active
  <2>. QED  BY <1>0, <2>1 DEF SyncInv, SyncTypeOK, CallsNamed, EndsNamed, IdNamed, LatestAdopted
<1>2. ASSUME NEW s \in strays, StrayAbandoned(s)
      PROVE  SyncInv'
  <2>1. (rows' = rows \/ rows' = Abandoned({s})) /\ faults' \in Nat
    BY <1>0, <1>2 DEF StrayAbandoned, Sound, Fault
  <2>2. strays' \subseteq strays /\ UNCHANGED <<tab, sync, creates, loop, enders, cleanup>>
    BY <1>2 DEF StrayAbandoned
  <2>3. Kept(rows')
    BY <1>0, <2>1, AbandonedKept, SameKept
  <2>. QED  BY <1>0, <2>1, <2>2, <2>3, RowsFacts
            DEF SyncInv, SyncTypeOK, CallsNamed, EndsNamed, IdNamed, LatestAdopted
<1>. QED  BY <1>1, <1>2

LEMMA PushKeeps ==
  ASSUME SyncInv, PushAnswered
  PROVE  SyncInv'
<1>0. /\ tab \in Run /\ sync \in Fields /\ creates \subseteq Create /\ loop \in Nat
      /\ enders \subseteq Ender /\ cleanup \in Nat /\ faults \in Nat /\ rows \in Seq(Row)
      /\ NoSnapshot \in Snapshot /\ NoRow \in Nat /\ NoJob \in Nat
  BY DEF SyncInv, SyncTypeOK, Snapshot, NoRow, NoJob
<1>. DEFINE sent == [sync EXCEPT !.last = loop]
            lost == [sync EXCEPT !.pending = NoSnapshot]
<1>1. Sending(sent, sync.pending) \in Nat
  BY <1>0, SendingFacts DEF Fields
<1>2. /\ loop' \in {NoJob, Sending(sent, sync.pending)} /\ faults' \in Nat
      /\ sync' \in {[sent EXCEPT !.pending = NoSnapshot], lost, [lost EXCEPT !.id = NoRow]}
      /\ UNCHANGED <<tab, creates, enders, strays, cleanup, rows>>
  BY <1>0 DEF PushAnswered, Sound, Fault
<1>3. sync' \in Fields /\ sync'.cgen = sync.cgen /\ sync'.id \in {sync.id, NoRow}
  BY <1>0, <1>2 DEF Fields
<1>4. loop' \in Nat
  BY <1>0, <1>1, <1>2
<1>. HIDE DEF sent, lost
<1>. QED  BY <1>0, <1>2, <1>3, <1>4 DEF SyncInv, SyncTypeOK, CallsNamed, EndsNamed, IdNamed, LatestAdopted

LEMMA EndsKeep ==
  ASSUME SyncInv, NEW e \in enders, DrainDone(e) \/ EndHandled(e) \/ EndAnswered(e)
  PROVE  SyncInv'
<1>0. /\ tab \in Run /\ sync \in Fields /\ creates \subseteq Create /\ loop \in Nat
      /\ enders \subseteq Ender /\ cleanup \in Nat /\ faults \in Nat /\ rows \in Seq(Row)
      /\ strays \subseteq DOMAIN rows /\ NoRow \in Nat /\ e \in Ender
  BY DEF SyncInv, SyncTypeOK, NoRow
<1>1. CASE DrainDone(e)
  <2>. DEFINE next == sync.cgen + 1
              post == Posting(e, sync.id)
              wait == [e EXCEPT !.stage = "create"]
              call == Task(e.run, next, "end")
  <2>1. next \in Nat
    BY <1>0 DEF Fields
  <2>. HIDE DEF next
  <2>2. post \in Ender /\ post.row = sync.id /\ wait \in Ender /\ wait.stage = "create"
    BY <1>0 DEF Posting, Ender, Fields
  <2>3. call \in Create /\ call.row = NoRow
    BY <1>0, <2>1, TaskFacts DEF Ender
  <2>4. /\ faults' \in Nat /\ UNCHANGED <<tab, loop, strays, cleanup, rows>>
        /\ \/ /\ sync.id # NoRow /\ enders' = (enders \ {e}) \cup {post} /\ UNCHANGED <<sync, creates>>
           \/ /\ sync.id = NoRow /\ sync' = [sync EXCEPT !.cgen = next]
              /\ creates' = creates \cup {call} /\ enders' = (enders \ {e}) \cup {wait}
           \/ enders' = enders \ {e} /\ UNCHANGED <<sync, creates>>
    BY <1>0, <1>1 DEF DrainDone, Sound, Fault, next
  <2>5. sync' \in Fields /\ (sync' = sync \/ (sync.id = NoRow /\ sync'.id = NoRow))
    BY <1>0, <2>1, <2>4 DEF Fields
  <2>. HIDE DEF post, wait, call
  <2>6. creates' \subseteq Create /\ CallsNamed'
    BY <1>0, <2>3, <2>4 DEF SyncInv, CallsNamed
  <2>7. enders' \subseteq Ender
    BY <1>0, <2>2, <2>4
  <2>8. EndsNamed'
    BY <2>2, <2>4 DEF SyncInv, EndsNamed, IdNamed
  <2>9. IdNamed' /\ LatestAdopted'
    BY <2>4, <2>5 DEF SyncInv, IdNamed, LatestAdopted
  <2>. QED  BY <1>0, <2>4, <2>5, <2>6, <2>7, <2>8, <2>9 DEF SyncInv, SyncTypeOK
<1>2. CASE EndHandled(e)
  <2>. DEFINE applied == [rows EXCEPT ![e.row].status = "completed"]
              good == [e EXCEPT !.stage = "ok"]
              bad == [e EXCEPT !.stage = "failed"]
  <2>1. good \in Ender /\ good.row = e.row /\ bad \in Ender /\ bad.row = e.row
    BY <1>0 DEF Ender
  <2>2. e.row \in DOMAIN rows
    BY <1>2 DEF EndHandled, SyncInv, EndsNamed
  <2>3. Kept(applied)
    BY <1>0, <2>2, CompletedKept
  <2>4. /\ faults' \in Nat /\ UNCHANGED <<tab, sync, creates, loop, strays, cleanup>>
        /\ (rows' = rows \/ rows' = applied)
        /\ enders' \in {(enders \ {e}) \cup {good}, (enders \ {e}) \cup {bad}}
    BY <1>0, <1>2 DEF EndHandled, Sound, Fault
  <2>. HIDE DEF applied, good, bad
  <2>5. Kept(rows')
    BY <1>0, <2>3, <2>4, SameKept
  <2>6. DOMAIN rows \subseteq DOMAIN rows'
    BY <2>5 DEF Kept
  <2>7. enders' \subseteq Ender
    BY <1>0, <2>1, <2>4
  <2>8. EndsNamed'
    BY <2>1, <2>2, <2>4, <2>6 DEF SyncInv, EndsNamed
  <2>. QED  BY <1>0, <2>4, <2>5, <2>7, <2>8, RowsFacts
            DEF SyncInv, SyncTypeOK, CallsNamed, IdNamed, LatestAdopted
<1>3. CASE EndAnswered(e)
  <2>1. enders' \subseteq enders /\ UNCHANGED <<tab, creates, loop, strays, cleanup, rows, faults>>
        /\ (sync' = sync \/ sync' = [sync EXCEPT !.id = NoRow, !.level = FALSE])
    BY <1>3 DEF EndAnswered
  <2>2. sync' \in Fields /\ (sync' = sync \/ sync'.id = NoRow)
    BY <1>0, <2>1, Zenon DEF Fields
  <2>. QED  BY <1>0, <2>1, <2>2 DEF SyncInv, SyncTypeOK, CallsNamed, EndsNamed, IdNamed, LatestAdopted
<1>. QED  BY <1>1, <1>2, <1>3

(***************************************************************************)
(* Every step keeps the invariant                                          *)
(***************************************************************************)
LEMMA SyncStep == SyncInv /\ [SyncNext]_syncVars => SyncInv'
<1>. SUFFICES ASSUME SyncInv, [SyncNext]_syncVars PROVE SyncInv'
  OBVIOUS
<1>1. CASE Game
  BY <1>1, GameKeeps
<1>2. CASE Network
  <2>1. CASE CleanupGet \/ \E s \in strays : StrayAbandoned(s)
    BY <2>1, StraysKeep
  <2>2. CASE \E t \in creates : CreateHandled(t) \/ CreateRetry(t) \/ CreateAnswered(t)
    BY <2>2, CreatesKeep
  <2>3. CASE PushAnswered
    BY <2>3, PushKeeps
  <2>4. CASE \E e \in enders : DrainDone(e) \/ EndHandled(e) \/ EndAnswered(e)
    BY <2>4, EndsKeep
  <2>. QED  BY <1>2, <2>1, <2>2, <2>3, <2>4 DEF Network
<1>3. CASE UNCHANGED syncVars
  BY <1>3 DEF syncVars, SyncInv, SyncTypeOK, CallsNamed, EndsNamed, IdNamed, LatestAdopted
<1>. QED  BY <1>1, <1>2, <1>3 DEF SyncNext

\* The invariant of the composable and its requests, behind both theorems below.
THEOREM SyncInvHolds == SyncSpec => []SyncInv
BY SyncInitial, SyncStep, PTL DEF SyncSpec

\* The fields of useSessionSync, its requests and the sessions on the server keep
\* their types, and a stray to be abandoned is always a session the server opened.
THEOREM SyncTypeCorrect == SyncSpec => []SyncTypeOK
<1>1. SyncInv => SyncTypeOK
  BY DEF SyncInv
<1>. QED  BY <1>1, SyncInvHolds, PTL

\* Whatever is lost, late or retried, in however many runs of the page, the session
\* useSessionSync writes to is the one its latest create call opened: an answer whose
\* generation is over is never adopted.
THEOREM LatestAdoptedHolds == SyncSpec => []LatestAdopted
<1>1. SyncInv => LatestAdopted
  BY DEF SyncInv
<1>. QED  BY <1>1, SyncInvHolds, PTL

(***************************************************************************)
(* The terminal payload comes last                                         *)
(***************************************************************************)
\* Every create call has a generation of its own, none from the future.
OneCallEach ==
  /\ \A t \in creates : t.gen <= sync.cgen
  /\ \A t, u \in creates : t.gen = u.gen => t = u

\* While the create call of an end is the current one there is no session that a
\* snapshot could be sent to.
EndsQuiet ==
  faults = 0 => \A t \in creates : t.by = "end" /\ t.gen = sync.cgen => sync.id = NoRow /\ loop = NoJob

TurnsInv == OneCallEach /\ EndsQuiet

\* A call goes on under its generation, is dropped, or a new one is made.
LEMMA CallsGoOn ==
  ASSUME OneCallEach, NEW t \in creates, NEW u, u.gen = t.gen,
         creates' = (creates \ {t}) \cup {u}, sync' = sync
  PROVE  OneCallEach'
BY DEF OneCallEach

LEMMA CallsAdded ==
  ASSUME SyncTypeOK, OneCallEach, NEW t, t.gen = sync.cgen + 1, sync'.cgen = sync.cgen + 1, creates' = creates \cup {t}
  PROVE  OneCallEach' /\ \A u \in creates : u.gen # sync'.cgen
<1>1. sync.cgen \in Nat /\ \A u \in creates : u.gen \in Nat /\ u.gen <= sync.cgen
  BY DEF SyncTypeOK, Fields, Create, OneCallEach
<1>. QED  BY <1>1 DEF OneCallEach

LEMMA TaskGen ==
  ASSUME NEW run, NEW gen, NEW by
  PROVE  Task(run, gen, by).gen = gen /\ Task(run, gen, by).by = by
BY DEF Task

\* What neither makes a call nor leaves the quiet of an end.
LEMMA TurnsStay ==
  ASSUME TurnsInv, UNCHANGED creates, sync'.cgen = sync.cgen, faults' = 0 => faults = 0,
         sync'.id = sync.id \/ sync'.id = NoRow, loop' = loop \/ loop' = NoJob \/ (faults' = 0 => sync.id # NoRow \/ loop # NoJob)
  PROVE  TurnsInv'
BY DEF TurnsInv, OneCallEach, EndsQuiet

LEMMA GameTurns ==
  ASSUME SyncTypeOK, TurnsInv, Game
  PROVE  TurnsInv'
<1>0. sync \in Fields /\ sync.cgen \in Nat /\ faults' = faults
  BY DEF SyncTypeOK, Fields, Game, Retry, LevelStart, WaveEnd, RunOver, Exit
<1>1. CASE Retry \/ RunOver
  <2>1. sync'.cgen = sync.cgen /\ sync'.id = sync.id /\ UNCHANGED <<creates, loop>>
    BY <1>0, <1>1 DEF Retry, RunOver, Fields
  <2>. QED  BY <1>0, <2>1, TurnsStay
<1>2. CASE LevelStart
  <2>. DEFINE t == Task(tab.run + 1, sync.cgen + 1, "start")
  <2>1. sync'.cgen = sync.cgen + 1 /\ creates' = creates \cup {t}
    BY <1>0, <1>2 DEF LevelStart, Fields
  <2>2. t.gen = sync.cgen + 1 /\ t.by = "start"
    BY TaskGen
  <2>. HIDE DEF t
  <2>3. OneCallEach' /\ \A u \in creates : u.gen # sync'.cgen
    BY <2>1, <2>2, CallsAdded DEF TurnsInv
  <2>. QED  BY <2>1, <2>2, <2>3 DEF TurnsInv, EndsQuiet
<1>3. CASE WaveEnd
  <2>1. UNCHANGED creates /\ sync'.cgen = sync.cgen /\ sync'.id = sync.id
    BY <1>0, <1>3 DEF WaveEnd, Fields
  <2>2. loop' = loop \/ sync.id # NoRow
    BY <1>3 DEF WaveEnd
  <2>. QED  BY <1>0, <2>1, <2>2, TurnsStay
<1>4. CASE Exit
  <2>1. UNCHANGED creates /\ sync'.cgen = sync.cgen + 1
    BY <1>0, <1>4 DEF Exit, Fields
  <2>2. \A u \in creates : u.gen \in Nat /\ u.gen <= sync.cgen
    BY DEF SyncTypeOK, Create, TurnsInv, OneCallEach
  <2>3. \A u \in creates : u.gen <= sync'.cgen /\ u.gen # sync'.cgen
    BY <1>0, <2>1, <2>2
  <2>. QED  BY <2>1, <2>3 DEF TurnsInv, OneCallEach, EndsQuiet
<1>. QED  BY <1>1, <1>2, <1>3, <1>4 DEF Game

\* The answer to a create call of an end finds the quiet of EndsQuiet, or is refused.
LEMMA CreatesTurns ==
  ASSUME SyncTypeOK, TurnsInv, NEW t \in creates, CreateHandled(t) \/ CreateRetry(t) \/ CreateAnswered(t)
  PROVE  TurnsInv'
<1>0. sync \in Fields /\ t \in Create /\ faults \in Nat
  BY DEF SyncTypeOK
<1>1. CASE CreateHandled(t) \/ CreateRetry(t)
  <2>. DEFINE n == Len(rows) + 1
              more == t.try + 1
              took == [t EXCEPT !.net = "ok", !.row = n]
              lost == [t EXCEPT !.net = "failed"]
              again == [t EXCEPT !.net = "out", !.try = more]
  <2>a. \A u \in {took, lost, again} : u.gen = t.gen /\ u.by = t.by
    <3>. HIDE DEF n, more
    <3>. QED  BY <1>0 DEF Create
  <2>b. \E u \in {took, lost, again} : creates' = (creates \ {t}) \cup {u}
    BY <1>1 DEF CreateHandled, CreateRetry
  <2>c. UNCHANGED <<sync, loop>> /\ (faults' = faults \/ faults' = faults + 1)
    BY <1>1 DEF CreateHandled, CreateRetry, Sound, Fault
  <2>. HIDE DEF took, lost, again
  <2>1. PICK u : creates' = (creates \ {t}) \cup {u} /\ u.gen = t.gen /\ u.by = t.by
    BY <2>a, <2>b
  <2>2. OneCallEach'
    BY <2>1, <2>c, CallsGoOn DEF TurnsInv
  <2>3. faults' = 0 => faults = 0
    BY <1>0, <2>c
  <2>. QED  BY <2>1, <2>2, <2>3, <2>c DEF TurnsInv, EndsQuiet
<1>2. CASE CreateAnswered(t)
  <2>1. creates' = creates \ {t} /\ UNCHANGED <<loop, faults>> /\ sync'.cgen = sync.cgen
    BY <1>0, <1>2 DEF CreateAnswered, Fields
  <2>2. OneCallEach'
    BY <2>1 DEF TurnsInv, OneCallEach
  <2>3. CASE t.gen = sync.cgen
    BY <2>1, <2>2, <2>3 DEF TurnsInv, OneCallEach, EndsQuiet
  <2>4. CASE t.gen # sync.cgen
    <3>1. sync'.id = sync.id \/ sync'.id = NoRow
      BY <1>0, <1>2, <2>4 DEF CreateAnswered, Fields
    <3>. QED  BY <2>1, <2>2, <3>1 DEF TurnsInv, EndsQuiet
  <2>. QED  BY <2>3, <2>4
<1>. QED  BY <1>1, <1>2

LEMMA EndsTurns ==
  ASSUME SyncTypeOK, TurnsInv, NEW e \in enders, DrainDone(e) \/ EndHandled(e) \/ EndAnswered(e)
  PROVE  TurnsInv'
<1>0. sync \in Fields /\ faults \in Nat /\ (faults' = 0 => faults = 0)
  BY DEF SyncTypeOK, DrainDone, EndHandled, EndAnswered, Sound, Fault
<1>1. CASE DrainDone(e) /\ UNCHANGED <<sync, creates>>
  BY <1>0, <1>1, TurnsStay DEF DrainDone
<1>2. CASE DrainDone(e) /\ ~UNCHANGED <<sync, creates>>
  <2>. DEFINE t == Task(e.run, sync.cgen + 1, "end")
  <2>1. /\ sync.id = NoRow /\ sync' = [sync EXCEPT !.cgen = @ + 1] /\ creates' = creates \cup {t}
        /\ ((Drained /\ Sound) \/ (~Drained /\ Fault)) /\ loop' = loop
    BY <1>2 DEF DrainDone
  <2>2. sync'.cgen = sync.cgen + 1 /\ sync'.id = NoRow
    BY <1>0, <2>1 DEF Fields
  <2>3. t.gen = sync.cgen + 1
    BY TaskGen
  <2>. HIDE DEF t
  <2>4. OneCallEach'
    BY <2>1, <2>2, <2>3, CallsAdded DEF TurnsInv
  <2>5. loop' = loop
    BY <1>2 DEF DrainDone
  <2>6. faults' = 0 => loop = NoJob
    BY <1>0, <2>1 DEF Drained, Fault
  <2>. QED  BY <2>2, <2>4, <2>5, <2>6 DEF TurnsInv, EndsQuiet
<1>3. CASE EndHandled(e)
  <2>1. UNCHANGED <<sync, creates, loop>>
    BY <1>3 DEF EndHandled
  <2>. QED  BY <1>0, <2>1, TurnsStay
<1>4. CASE EndAnswered(e)
  <2>1. sync'.cgen = sync.cgen /\ (sync'.id = sync.id \/ sync'.id = NoRow)
    BY <1>0, <1>4 DEF EndAnswered, Fields
  <2>. QED  BY <1>0, <1>4, <2>1, TurnsStay DEF EndAnswered
<1>. QED  BY <1>1, <1>2, <1>3, <1>4

LEMMA TurnsStep ==
  ASSUME SyncTypeOK, TurnsInv, [SyncNext]_syncVars
  PROVE  TurnsInv'
<1>0. faults \in Nat /\ sync \in Fields
  BY DEF SyncTypeOK
<1>1. CASE Game
  BY <1>1, GameTurns
<1>2. CASE CleanupGet \/ \E s \in strays : StrayAbandoned(s)
  <2>1. UNCHANGED <<sync, creates, loop>> /\ (faults' = faults \/ faults' = faults + 1)
    BY <1>2 DEF CleanupGet, StrayAbandoned, Sound, Fault
  <2>2. faults' = 0 => faults = 0
    BY <1>0, <2>1
  <2>. QED  BY <2>1, <2>2, TurnsStay
<1>3. CASE PushAnswered
  <2>1. loop # NoJob /\ UNCHANGED creates /\ (faults' = 0 => faults = 0)
    BY <1>0, <1>3 DEF PushAnswered, Sound, Fault
  <2>2. sync'.cgen = sync.cgen /\ (sync'.id = sync.id \/ sync'.id = NoRow)
    BY <1>0, <1>3 DEF PushAnswered, Fields
  <2>. QED  BY <2>1, <2>2, TurnsStay
<1>4. CASE \E t \in creates : CreateHandled(t) \/ CreateRetry(t) \/ CreateAnswered(t)
  BY <1>4, CreatesTurns
<1>5. CASE \E e \in enders : DrainDone(e) \/ EndHandled(e) \/ EndAnswered(e)
  BY <1>5, EndsTurns
<1>6. CASE UNCHANGED syncVars
  BY <1>6, TurnsStay DEF syncVars
<1>. QED  BY <1>1, <1>2, <1>3, <1>4, <1>5, <1>6 DEF SyncNext, Network

\* Who begins to post the end is an end whose wait is over, or one whose create call
\* was answered while it was the current one.
LEMMA PostsQuietly ==
  ASSUME SyncTypeOK, TurnsInv, SyncNext, NEW e \in enders', e \notin enders, e.stage = "post", faults' = 0
  PROVE  loop = NoJob
<1>0. faults \in Nat /\ enders \subseteq Ender
  BY DEF SyncTypeOK
<1>1. CASE Game
  <2>1. enders' = enders \/ enders' = {[run |-> tab.run, stage |-> "drain", row |-> NoRow]}
    BY <1>1 DEF Game, Retry, LevelStart, WaveEnd, RunOver, Exit
  <2>. QED  BY <2>1
<1>2. CASE CleanupGet \/ PushAnswered \/ \E s \in strays : StrayAbandoned(s)
  BY <1>2 DEF CleanupGet, PushAnswered, StrayAbandoned
<1>3. ASSUME NEW t \in creates, CreateHandled(t) \/ CreateRetry(t) \/ CreateAnswered(t)
      PROVE  loop = NoJob
  <2>1. t.by # "start" /\ t.gen = sync.cgen /\ faults' = faults
    BY <1>3 DEF CreateHandled, CreateRetry, CreateAnswered
  <2>2. t.by = "end"
    BY <2>1 DEF SyncTypeOK, Create
  <2>. QED  BY <2>1, <2>2 DEF TurnsInv, EndsQuiet
<1>4. ASSUME NEW w \in enders, DrainDone(w) \/ EndHandled(w) \/ EndAnswered(w)
      PROVE  loop = NoJob
  <2>1. CASE DrainDone(w)
    BY <1>0, <2>1 DEF DrainDone, Drained, Fault
  <2>2. CASE EndHandled(w)
    <3>1. \E at \in {"ok", "failed"} : enders' = (enders \ {w}) \cup {[w EXCEPT !.stage = at]}
      BY <2>2 DEF EndHandled
    <3>2. \A at \in {"ok", "failed"} : [w EXCEPT !.stage = at].stage = at
      BY <1>0 DEF Ender
    <3>. QED  BY <3>1, <3>2
  <2>3. CASE EndAnswered(w)
    BY <2>3 DEF EndAnswered
  <2>. QED  BY <1>4, <2>1, <2>2, <2>3
<1>. QED  BY <1>1, <1>2, <1>3, <1>4 DEF SyncNext, Network

\* In however many runs of the page, and however the create call of an end crosses a
\* retry or an exit: where nothing was lost and no wait was cut off, endRun posts the
\* end when no snapshot is under way.
THEOREM EndAfterPushesHolds == SyncSpec => EndAfterPushes
<1>1. SyncInit => TurnsInv
  BY DEF SyncInit, TurnsInv, OneCallEach, EndsQuiet
<1>2. SyncTypeOK /\ TurnsInv /\ [SyncNext]_syncVars => TurnsInv'
  BY TurnsStep
<1>3. SyncTypeOK /\ TurnsInv /\ [SyncNext]_syncVars
        => [\A e \in enders' \ enders : e.stage = "post" /\ faults' = 0 => loop = NoJob]_syncVars
  BY PostsQuietly
<1>. QED  BY <1>1, <1>2, <1>3, SyncTypeCorrect, PTL DEF SyncSpec, EndAfterPushes

(***************************************************************************)
(* Nothing is left active                                                  *)
(***************************************************************************)
\* What is active after the server has done its part.
LEMMA AbandonedActive ==
  ASSUME rows \in Seq(Row), NEW from, rows' = Abandoned(from)
  PROVE  Active' = Active \ from
<1>1. DOMAIN rows' = DOMAIN rows
  BY DEF Abandoned
<1>2. \A s \in DOMAIN rows : rows[s] \in Row
  OBVIOUS
<1>3. \A s \in DOMAIN rows : rows'[s].status = "active" <=> rows[s].status = "active" /\ s \notin from
  BY <1>2 DEF Abandoned, Row
<1>. QED  BY <1>1, <1>3 DEF Active

LEMMA OpenedActive ==
  ASSUME rows \in Seq(Row), NEW run \in Nat, NEW gen \in Nat, rows' = Opened(run, gen)
  PROVE  Active' \subseteq {Len(rows) + 1}
<1>. DEFINE old == Abandoned(Active)
            row == [status |-> "active", run |-> run, gen |-> gen]
<1>1. old \in Seq(Row) /\ DOMAIN old = DOMAIN rows
  BY AbandonedKept DEF Kept
<1>2. \A s \in DOMAIN rows : old[s].status # "active"
  <2>1. \A s \in DOMAIN rows : rows[s] \in Row
    OBVIOUS
  <2>. QED  BY <2>1 DEF Abandoned, Active, Row
<1>3. Len(old) = Len(rows) /\ DOMAIN rows = 1..Len(rows) /\ Len(rows) \in Nat
  BY <1>1
<1>4. rows' = Append(old, row)
  BY DEF Opened
<1>5. row \in Row
  BY DEF Row
<1>. HIDE DEF old, row
<1>6. DOMAIN rows' = 1..(Len(rows) + 1) /\ \A s \in 1..Len(rows) : rows'[s] = old[s]
  BY <1>1, <1>3, <1>4, <1>5
<1>. QED  BY <1>2, <1>3, <1>6 DEF Active

LEMMA CompletedActive ==
  ASSUME rows \in Seq(Row), NEW s \in DOMAIN rows, rows' = [rows EXCEPT ![s].status = "completed"]
  PROVE  Active' = Active \ {s}
<1>1. \A i \in DOMAIN rows : rows[i] \in Row
  OBVIOUS
<1>2. \A i \in DOMAIN rows : rows'[i].status = "active" <=> rows[i].status = "active" /\ i # s
  BY <1>1 DEF Row
<1>. QED  BY <1>2 DEF Active

FirstRunParts == CallsOpen /\ OneEnd /\ NoneLate /\ \A s \in Active : Owed(s)

\* Before the first run nothing but its start happens.
LEMMA StartsUntouched ==
  ASSUME SyncInv, FirstRunInv, [SyncNext]_syncVars, tab.run = 0
  PROVE  \/ UNCHANGED syncVars
         \/ LevelStart /\ Untouched
<1>1. Untouched
  BY DEF FirstRunInv
<1>. QED  BY <1>1 DEF Untouched, SyncNext, Game, Network, Retry, WaveEnd, RunOver, Exit, CleanupGet, PushAnswered

\* A step within the first run, without a loss: the run was under way before it.
LEMMA WithinFirst ==
  ASSUME SyncInv, [SyncNext]_syncVars, ~LevelStart
  PROVE  tab'.run = tab.run /\ (FirstRun' => FirstRun)
<1>0. tab \in Run /\ faults \in Nat
  BY DEF SyncInv, SyncTypeOK
<1>1. faults' \in {faults, faults + 1}
  BY DEF SyncNext, Game, Network, Retry, WaveEnd, RunOver, Exit, CleanupGet, PushAnswered, CreateHandled,
         CreateRetry, CreateAnswered, StrayAbandoned, DrainDone, EndHandled, EndAnswered, Sound, Fault, syncVars
<1>2. /\ tab'.run = tab.run
      /\ tab'.at \in {"play", "over", "left"} => tab.at \in {"play", "over", "left"}
  BY <1>0 DEF Run, SyncNext, Game, Network, Retry, WaveEnd, RunOver, Exit, CleanupGet, PushAnswered, CreateHandled,
         CreateRetry, CreateAnswered, StrayAbandoned, DrainDone, EndHandled, EndAnswered, syncVars
<1>. QED  BY <1>0, <1>1, <1>2 DEF FirstRun

LEMMA FirstStarts ==
  ASSUME SyncInv, FirstRunInv, LevelStart, FirstRun'
  PROVE  FirstRunParts'
<1>0. tab \in Run /\ sync \in Fields /\ rows' = rows
  BY DEF SyncInv, SyncTypeOK, LevelStart
<1>1. tab'.run = tab.run + 1 /\ tab'.at = "play"
  BY DEF LevelStart
<1>2. tab.run = 0
  BY <1>0, <1>1 DEF FirstRun, Run
<1>. DEFINE t == Task(tab.run + 1, sync.cgen + 1, "start")
<1>3. creates' = {t} /\ enders' = {}
  BY <1>2 DEF FirstRunInv, Untouched, LevelStart
<1>4. sync'.cgen = sync.cgen + 1 /\ sync'.id = NoRow /\ sync'.level = TRUE /\ sync.cgen \in Nat
  BY <1>0 DEF LevelStart, Fields
<1>5. t.gen = sync.cgen + 1 /\ t.by = "start" /\ t.net = "out"
  BY DEF Task
<1>. HIDE DEF t
<1>6. CallsOpen'
  BY <1>3, <1>4, <1>5 DEF CallsOpen
<1>7. OneEnd' /\ NoneLate'
  BY <1>1, <1>3, <1>4, <1>5 DEF OneEnd, NoneLate
<1>8. \A s : Owed(s)'
  BY <1>3, <1>5 DEF Owed
<1>. QED  BY <1>6, <1>7, <1>8 DEF FirstRunParts

\* Neither the run, its calls nor its sessions change.
LEMMA FirstStays ==
  ASSUME FirstRunParts, UNCHANGED <<creates, enders, rows>>, strays \subseteq strays', tab'.at = tab.at,
         sync'.id = sync.id, sync'.level = sync.level, sync'.cgen = sync.cgen
  PROVE  FirstRunParts'
<1>1. CallsOpen'
  BY DEF FirstRunParts, CallsOpen
<1>2. OneEnd' /\ NoneLate'
  BY DEF FirstRunParts, OneEnd, NoneLate
<1>3. Active' = Active
  BY DEF Active
<1>4. \A s \in Active' : Owed(s)'
  BY <1>3 DEF FirstRunParts, Owed
<1>. QED  BY <1>1, <1>2, <1>4 DEF FirstRunParts

LEMMA FirstGame ==
  ASSUME SyncInv, FirstRunParts, Game, ~LevelStart, FirstRun'
  PROVE  FirstRunParts'
<1>0. tab \in Run /\ sync \in Fields /\ rows' = rows /\ sync.cgen \in Nat /\ 0 \notin Active
  BY DEF SyncInv, SyncTypeOK, Game, Retry, LevelStart, WaveEnd, RunOver, Exit, Active, Fields
<1>a. Active' = Active
  BY <1>0 DEF Active
<1>1. CASE Retry
  BY <1>1 DEF Retry, FirstRun
<1>2. CASE WaveEnd
  <2>1. tab'.at = tab.at /\ sync'.id = sync.id /\ sync'.level = sync.level /\ sync'.cgen = sync.cgen
    BY <1>0, <1>2 DEF WaveEnd, Fields, Run
  <2>. QED  BY <1>2, <2>1, FirstStays DEF WaveEnd
<1>3. CASE RunOver
  <2>. DEFINE e == [run |-> tab.run, stage |-> "drain", row |-> NoRow]
  <2>1. enders = {} /\ sync.level /\ \A t \in creates : t.by # "end"
    BY <1>3 DEF RunOver, FirstRunParts, OneEnd
  <2>2. enders' = {e} /\ e.stage = "drain" /\ tab'.at = "over" /\ tab.at = "play" /\ UNCHANGED <<sync, creates, strays>>
    BY <1>0, <1>3, <2>1 DEF RunOver, Run
  <2>. HIDE DEF e
  <2>3. CallsOpen'
    BY <2>2 DEF FirstRunParts, CallsOpen
  <2>4. OneEnd' /\ NoneLate'
    BY <2>1, <2>2 DEF OneEnd, NoneLate
  <2>5. \A s \in Active' : Owed(s)'
    BY <1>a, <2>1, <2>2 DEF FirstRunParts, Owed
  <2>. QED  BY <2>3, <2>4, <2>5 DEF FirstRunParts
<1>4. CASE Exit
  <2>1. enders' = {} /\ enders = {} /\ \A t \in creates : t.by # "end"
    BY <1>4 DEF Exit, FirstRunParts, OneEnd
  <2>2. sync'.id = NoRow /\ sync'.cgen = sync.cgen + 1 /\ tab'.at = "left" /\ UNCHANGED creates
    BY <1>0, <1>4 DEF Exit, Fields, Run
  <2>3. \A t \in creates : t.gen <= sync'.cgen /\ t.gen # sync'.cgen
    <3>1. \A t \in creates : t.gen \in Nat /\ t.gen <= sync.cgen
      BY DEF FirstRunParts, CallsOpen, SyncInv, SyncTypeOK, Create
    <3>. QED  BY <1>0, <2>2, <3>1
  <2>4. CallsOpen'
    BY <2>2, <2>3 DEF FirstRunParts, CallsOpen
  <2>5. OneEnd' /\ NoneLate'
    BY <2>1, <2>2, <2>3 DEF OneEnd, NoneLate
  <2>6. strays \subseteq strays' /\ (sync.id # NoRow => sync.id \in strays')
    BY <1>4 DEF Exit
  <2>7. \A s \in Active' : Owed(s)'
    BY <1>0, <1>a, <2>1, <2>2, <2>6 DEF FirstRunParts, Owed, NoRow
  <2>. QED  BY <2>4, <2>5, <2>7 DEF FirstRunParts
<1>. QED  BY <1>1, <1>2, <1>3, <1>4 DEF Game

LEMMA FirstHandled ==
  ASSUME SyncInv, FirstRunParts, NEW t \in creates, CreateHandled(t), faults = 0, faults' = 0
  PROVE  FirstRunParts'
<1>0. rows \in Seq(Row) /\ t \in Create
  BY DEF SyncInv, SyncTypeOK
<1>. DEFINE n == Len(rows) + 1
            ok == [t EXCEPT !.net = "ok", !.row = n]
<1>1. n \in Nat \ {0}
  BY <1>0
<1>2. /\ rows' = Opened(t.run, t.gen) /\ creates' = (creates \ {t}) \cup {ok}
      /\ UNCHANGED <<tab, sync, enders, strays>>
  BY DEF CreateHandled, Fault
<1>3. Active' \subseteq {n}
  BY <1>0, <1>2, OpenedActive DEF Create
<1>. HIDE DEF n
<1>4. ok.net = "ok" /\ ok.row = n /\ ok.gen = t.gen /\ ok.by = t.by /\ ok.run = t.run
  BY <1>0 DEF Create
<1>. HIDE DEF ok
<1>5. CallsOpen'
  BY <1>1, <1>2, <1>4 DEF FirstRunParts, CallsOpen, NoRow
<1>6. OneEnd' /\ NoneLate'
  BY <1>2, <1>4 DEF FirstRunParts, OneEnd, NoneLate
<1>7. \A s \in Active' : Owed(s)'
  BY <1>2, <1>3, <1>4 DEF Owed
<1>. QED  BY <1>5, <1>6, <1>7 DEF FirstRunParts

LEMMA FirstAnswered ==
  ASSUME SyncInv, FirstRunParts, NEW t \in creates, CreateAnswered(t), tab.at # "boot"
  PROVE  FirstRunParts'
<1>0. /\ sync \in Fields /\ t \in Create /\ t.net = "ok" /\ t.row # NoRow /\ enders \subseteq Ender
      /\ \A u \in creates : u \in Create
  BY DEF SyncInv, SyncTypeOK, FirstRunParts, CallsOpen, CreateAnswered
<1>1. creates' = creates \ {t} /\ UNCHANGED <<tab, rows>>
  BY DEF CreateAnswered
<1>2. Active' = Active
  BY <1>1 DEF Active
<1>3. sync'.cgen = sync.cgen /\ sync'.level = sync.level
  BY <1>0 DEF CreateAnswered, Fields
<1>4. CASE t.gen # sync.cgen
  <2>1. t.by = "start" /\ sync' = sync /\ enders' = enders /\ strays' = strays \cup {t.row}
    BY <1>0, <1>4 DEF Create, CreateAnswered, FirstRunParts, OneEnd
  <2>2. CallsOpen'
    BY <1>1, <2>1 DEF FirstRunParts, CallsOpen
  <2>3. OneEnd' /\ NoneLate'
    BY <1>1, <1>4, <2>1 DEF FirstRunParts, OneEnd, NoneLate
  <2>4. \A s \in Active' : Owed(s)'
    BY <1>0, <1>1, <1>2, <2>1 DEF FirstRunParts, Owed
  <2>. QED  BY <2>2, <2>3, <2>4 DEF FirstRunParts
<1>5. CASE t.gen = sync.cgen
  <2>1. \A u \in creates' : u.gen # sync.cgen /\ u.by # "end" /\ u \in creates
    BY <1>1, <1>5 DEF FirstRunParts, CallsOpen, OneEnd
  <2>2. sync.id = NoRow /\ sync'.id = t.row /\ strays' = strays /\ tab.at # "left"
    BY <1>0, <1>5 DEF FirstRunParts, CallsOpen, NoneLate, CreateAnswered, Fields
  <2>3. CallsOpen'
    BY <1>1, <1>3, <2>1 DEF FirstRunParts, CallsOpen
  <2>4. NoneLate'
    BY <1>1, <1>3, <2>1, <2>2 DEF NoneLate
  <2>5. 0 \notin Active
    BY DEF SyncInv, SyncTypeOK, Active
  <2>6. CASE t.by = "start"
    <3>1. enders' = enders
      BY <2>6 DEF CreateAnswered
    <3>2. OneEnd'
      BY <1>1, <1>3, <2>1, <3>1 DEF FirstRunParts, OneEnd
    <3>3. tab.at = "over" => \E e \in enders : e.stage = "drain"
      BY <1>5, <2>6 DEF FirstRunParts, NoneLate
    <3>4. tab.at \in {"play", "over"}
      BY <2>2 DEF SyncInv, SyncTypeOK, Run
    <3>5. \A s \in Active : t.row = s => Owed(s)'
      BY <1>1, <2>2, <3>1, <3>3, <3>4 DEF Owed
    <3>6. \A s \in Active : Owed(s) /\ t.row # s => Owed(s)'
      BY <1>0, <1>1, <2>2, <2>5, <3>1 DEF Owed, NoRow
    <3>. QED  BY <1>2, <2>3, <2>4, <3>2, <3>5, <3>6 DEF FirstRunParts
  <2>7. CASE t.by = "end"
    <3>1. PICK e \in enders : e.stage = "create" /\ e.run = t.run
      BY <2>7 DEF FirstRunParts, OneEnd
    <3>2. enders = {e} /\ tab.at = "over"
      BY <3>1 DEF FirstRunParts, OneEnd
    <3>3. Waiting(t) = {e}
      BY <3>1, <3>2 DEF Waiting
    <3>4. enders' = {Posting(e, t.row)}
      BY <1>0, <1>5, <2>7, <3>2, <3>3 DEF CreateAnswered
    <3>5. Posting(e, t.row).stage = "post" /\ Posting(e, t.row).row = t.row
      BY <1>0, <3>1 DEF Posting, Ender
    <3>6. OneEnd'
      BY <1>1, <2>1, <3>2, <3>4, <3>5 DEF OneEnd
    <3>7. \A s \in Active : Owed(s)'
      BY <1>0, <1>1, <2>2, <2>5, <3>1, <3>2, <3>4, <3>5 DEF FirstRunParts, Owed, NoRow
    <3>. QED  BY <1>2, <2>3, <2>4, <3>6, <3>7 DEF FirstRunParts
  <2>. QED  BY <1>0, <2>6, <2>7 DEF Create
<1>. QED  BY <1>4, <1>5

LEMMA FirstEnds ==
  ASSUME SyncInv, FirstRunParts, NEW e \in enders, DrainDone(e) \/ EndHandled(e) \/ EndAnswered(e),
         faults = 0, faults' = 0
  PROVE  FirstRunParts'
<1>0. /\ sync \in Fields /\ sync.cgen \in Nat /\ rows \in Seq(Row) /\ enders = {e} /\ tab.at = "over" /\ e \in Ender
      /\ 0 \notin Active /\ \A t \in creates : t.gen \in Nat
  BY DEF SyncInv, SyncTypeOK, Fields, FirstRunParts, OneEnd, Active, Create
<1>1. CASE DrainDone(e) /\ sync.id # NoRow
  <2>. DEFINE post == Posting(e, sync.id)
  <2>1. post.stage = "post" /\ post.row = sync.id
    BY <1>0 DEF Posting, Ender
  <2>2. enders' = {post} /\ UNCHANGED <<sync, creates, tab, strays, rows>>
    BY <1>0, <1>1 DEF DrainDone
  <2>. HIDE DEF post
  <2>3. \A t \in creates : t.gen # sync.cgen /\ t.by # "end"
    BY <1>1 DEF FirstRunParts, CallsOpen, OneEnd
  <2>4. CallsOpen'
    BY <2>2 DEF FirstRunParts, CallsOpen
  <2>5. OneEnd' /\ NoneLate'
    BY <1>0, <2>1, <2>2, <2>3 DEF OneEnd, NoneLate
  <2>6. e.stage # "post"
    BY <1>1 DEF DrainDone
  <2>7. \A s \in Active' : Owed(s)'
    BY <1>0, <2>1, <2>2, <2>6 DEF FirstRunParts, Owed, Active
  <2>. QED  BY <2>4, <2>5, <2>7 DEF FirstRunParts
<1>2. CASE DrainDone(e) /\ sync.id = NoRow
  <2>. DEFINE t == Task(e.run, sync.cgen + 1, "end")
              wait == [e EXCEPT !.stage = "create"]
  <2>1. e.stage = "drain" /\ sync.level
    BY <1>2 DEF DrainDone, FirstRunParts, OneEnd
  <2>2. /\ sync' = [sync EXCEPT !.cgen = @ + 1] /\ creates' = creates \cup {t}
        /\ enders' = {wait} /\ UNCHANGED <<tab, strays, rows>>
    BY <1>0, <1>2, <2>1 DEF DrainDone
  <2>3. sync'.cgen = sync.cgen + 1 /\ sync'.id = NoRow
    BY <1>0, <1>2, <2>2 DEF Fields
  <2>4. t.gen = sync.cgen + 1 /\ t.by = "end" /\ t.net = "out" /\ t.run = e.run
    BY DEF Task
  <2>5. wait.stage = "create" /\ wait.run = e.run
    BY <1>0 DEF Ender
  <2>. HIDE DEF t, wait
  <2>6. \A u \in creates : u.gen <= sync.cgen /\ u.by # "end"
    BY <1>0, <2>1 DEF FirstRunParts, CallsOpen, OneEnd
  <2>7. CallsOpen'
    <3>1. \A u \in creates : u.gen <= sync'.cgen /\ u.gen # sync'.cgen
      BY <1>0, <2>3, <2>6
    <3>2. sync.cgen + 1 <= sync'.cgen
      BY <1>0, <2>3
    <3>. QED  BY <2>2, <2>3, <2>4, <3>1, <3>2 DEF FirstRunParts, CallsOpen
  <2>8. OneEnd' /\ NoneLate'
    <3>1. \A u \in creates : u.gen # sync'.cgen
      BY <1>0, <2>3, <2>6
    <3>. QED  BY <1>0, <2>2, <2>3, <2>4, <2>5, <2>6, <3>1 DEF OneEnd, NoneLate
  <2>9. \A s : Owed(s)'
    BY <2>2, <2>4 DEF Owed
  <2>. QED  BY <2>7, <2>8, <2>9 DEF FirstRunParts
<1>3. CASE EndHandled(e)
  <2>. DEFINE next == IF rows[e.row].status = "active" THEN [e EXCEPT !.stage = "ok"] ELSE [e EXCEPT !.stage = "failed"]
  <2>0. e.stage = "post" /\ e.row \in DOMAIN rows
    BY <1>3 DEF EndHandled, SyncInv, EndsNamed
  <2>1. /\ enders' = {next} /\ UNCHANGED <<tab, sync, creates, strays>>
        /\ rows' = IF rows[e.row].status = "active" THEN [rows EXCEPT ![e.row].status = "completed"] ELSE rows
    BY <1>0, <1>3 DEF EndHandled, Fault
  <2>2. next.stage \in {"ok", "failed"}
    BY <1>0 DEF Ender
  <2>. HIDE DEF next
  <2>3. Active' = Active \ {e.row}
    <3>1. CASE rows[e.row].status = "active"
      BY <1>0, <2>0, <2>1, <3>1, CompletedActive
    <3>2. CASE rows[e.row].status # "active"
      BY <2>1, <3>2 DEF Active
    <3>. QED  BY <3>1, <3>2
  <2>4. \A t \in creates : t.by # "end" /\ ~(t.by = "start" /\ t.gen = sync.cgen)
    BY <1>0, <2>0 DEF FirstRunParts, OneEnd, NoneLate
  <2>5. CallsOpen'
    BY <2>1 DEF FirstRunParts, CallsOpen
  <2>6. OneEnd' /\ NoneLate'
    BY <1>0, <2>1, <2>2, <2>4 DEF OneEnd, NoneLate
  <2>7. \A s \in Active' : Owed(s)'
    BY <1>0, <2>0, <2>1, <2>3 DEF FirstRunParts, Owed
  <2>. QED  BY <2>5, <2>6, <2>7 DEF FirstRunParts
<1>4. CASE EndAnswered(e)
  <2>1. /\ e.stage \in {"ok", "failed"} /\ enders' = {} /\ UNCHANGED <<tab, creates, strays, rows>>
        /\ sync' = sync \/ sync' = [sync EXCEPT !.id = NoRow, !.level = FALSE]
    BY <1>0, <1>4 DEF EndAnswered
  <2>2. sync'.cgen = sync.cgen /\ sync'.id \in {sync.id, NoRow}
    BY <1>0, <2>1 DEF Fields
  <2>3. \A t \in creates : t.by # "end" /\ ~(t.by = "start" /\ t.gen = sync.cgen)
    BY <1>0, <2>1 DEF FirstRunParts, OneEnd, NoneLate
  <2>4. CallsOpen'
    BY <2>1, <2>2 DEF FirstRunParts, CallsOpen
  <2>5. OneEnd' /\ NoneLate'
    BY <1>0, <2>1, <2>2, <2>3 DEF OneEnd, NoneLate
  <2>6. \A s \in Active' : Owed(s)'
    BY <1>0, <2>1 DEF FirstRunParts, Owed, Active
  <2>. QED  BY <2>4, <2>5, <2>6 DEF FirstRunParts
<1>. QED  BY <1>1, <1>2, <1>3, <1>4

\* The first run goes on: every request leaves the session it is about to another one.
LEMMA FirstNetwork ==
  ASSUME SyncInv, FirstRunParts, Network, FirstRun, faults' = 0
  PROVE  FirstRunParts'
<1>0. sync \in Fields /\ rows \in Seq(Row) /\ faults = 0 /\ tab.at # "boot"
  BY DEF SyncInv, SyncTypeOK, FirstRun
<1>1. CASE CleanupGet
  BY <1>1, FirstStays DEF CleanupGet
<1>2. CASE PushAnswered
  <2>0. \/ sync' = [[sync EXCEPT !.last = loop] EXCEPT !.pending = NoSnapshot]
        \/ sync' = [sync EXCEPT !.pending = NoSnapshot]
    BY <1>0, <1>2 DEF PushAnswered, Fault
  <2>1. sync'.id = sync.id /\ sync'.level = sync.level /\ sync'.cgen = sync.cgen
    BY <1>0, <2>0 DEF Fields
  <2>. QED  BY <1>2, <2>1, FirstStays DEF PushAnswered
<1>3. ASSUME NEW t \in creates, CreateHandled(t) \/ CreateRetry(t) \/ CreateAnswered(t)
      PROVE  FirstRunParts'
  <2>1. ~CreateRetry(t)
    BY DEF CreateRetry, FirstRunParts, CallsOpen
  <2>. QED  BY <1>0, <1>3, <2>1, FirstHandled, FirstAnswered
<1>4. ASSUME NEW s \in strays, StrayAbandoned(s)
      PROVE  FirstRunParts'
  <2>1. /\ strays' = strays \ {s} /\ rows' = Abandoned({s})
        /\ UNCHANGED <<tab, sync, creates, enders>>
    BY <1>0, <1>4 DEF StrayAbandoned, Fault
  <2>2. Active' = Active \ {s}
    BY <1>0, <2>1, AbandonedActive
  <2>3. CallsOpen'
    BY <2>1 DEF FirstRunParts, CallsOpen
  <2>4. OneEnd' /\ NoneLate'
    BY <2>1 DEF FirstRunParts, OneEnd, NoneLate
  <2>5. \A r \in Active' : Owed(r)'
    BY <2>1, <2>2 DEF FirstRunParts, Owed
  <2>. QED  BY <2>3, <2>4, <2>5 DEF FirstRunParts
<1>5. ASSUME NEW e \in enders, DrainDone(e) \/ EndHandled(e) \/ EndAnswered(e)
      PROVE  FirstRunParts'
  BY <1>0, <1>5, FirstEnds
<1>. QED  BY <1>1, <1>2, <1>3, <1>4, <1>5 DEF Network

LEMMA FirstRunStep ==
  ASSUME SyncInv, FirstRunInv, [SyncNext]_syncVars
  PROVE  FirstRunInv'
<1>0. tab \in Run
  BY DEF SyncInv, SyncTypeOK
<1>1. CASE LevelStart
  <2>1. tab'.run = tab.run + 1 /\ tab.run \in Nat
    BY <1>0, <1>1 DEF LevelStart, Run
  <2>. QED  BY <1>1, <2>1, FirstStarts DEF FirstRunInv, FirstRunParts
<1>2. CASE ~LevelStart
  <2>1. tab'.run = tab.run /\ (FirstRun' => FirstRun)
    BY <1>2, WithinFirst
  <2>2. tab'.run = 0 => Untouched'
    <3>1. tab.run = 0 => UNCHANGED syncVars
      BY <1>2, StartsUntouched
    <3>. QED  BY <2>1, <3>1 DEF syncVars, FirstRunInv, Untouched
  <2>3. ASSUME FirstRun' PROVE FirstRunParts'
    <3>1. FirstRun /\ FirstRunParts /\ faults = 0 /\ faults' = 0
      BY <2>1, <2>3 DEF FirstRunInv, FirstRunParts, FirstRun
    <3>2. CASE UNCHANGED syncVars
      BY <3>1, <3>2, FirstStays DEF syncVars
    <3>. QED  BY <1>2, <2>3, <3>1, <3>2, FirstGame, FirstNetwork DEF SyncNext
  <2>. QED  BY <2>2, <2>3 DEF FirstRunInv, FirstRunParts
<1>. QED  BY <1>1, <1>2

\* While the first run of the page goes on or its requests are under way, and nothing was
\* lost, something under way answers for every session that is active on the server.
THEOREM FirstRunInvHolds == SyncSpec => []FirstRunInv
<1>1. SyncInit => FirstRunInv
  BY DEF SyncInit, FirstRunInv, FirstRun, Untouched
<1>. QED  BY <1>1, FirstRunStep, SyncInvHolds, PTL DEF SyncSpec

\* However the create call, its answer, the exit, the end and the clean-up of an earlier
\* session cross: when all requests of the first run have been answered and none was lost,
\* the server has no active session left.
THEOREM NothingLeftActiveHolds == SyncSpec => []NothingLeftActive
<1>1. FirstRunInv => NothingLeftActive
  <2>. SUFFICES ASSUME FirstRunInv, Quiet, tab.run = 1, tab.at \in {"over", "left"}, faults = 0
                PROVE  Active = {}
    BY DEF NothingLeftActive
  <2>1. FirstRun
    BY DEF FirstRun
  <2>. QED  BY <2>1 DEF FirstRunInv, Owed, Quiet
<1>. QED  BY <1>1, FirstRunInvHolds, PTL
=============================================================================
