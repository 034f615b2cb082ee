------------------------------ MODULE RunSync -------------------------------
(***************************************************************************)
(* One game page and the server: useSessionSync opens a play session when  *)
(* a level starts, pushes a snapshot after each wave and ends the session  *)
(* with the run.  A second run starts in the same page when a lost Star-5  *)
(* run is retried from its checkpoint, while requests of the first may     *)
(* still be on their way.  Each await is a place where anything else may   *)
(* happen; a request is handled by the server some time after it was sent, *)
(* and answered some time after that.                                      *)
(***************************************************************************)
EXTENDS Integers, Sequences, FiniteSets

CONSTANTS
  MaxRuns,     \* runs started in the page
  MaxWaves,    \* waves cleared in one run
  MaxTries,    \* attempts of one createSessionWithRetry
  MaxRows,     \* sessions the server opens
  MaxFaults    \* lost requests, lost answers, drains cut off by the deadline

ASSUME RunSyncAssumption == {MaxRuns, MaxWaves, MaxTries, MaxRows, MaxFaults} \subseteq Nat

VARIABLES
  tab,      \* the game: which run, whether it goes on, waves cleared
  sync,     \* the variables of useSessionSync
  creates,  \* createSessionWithRetry calls under way
  loop,     \* the wave whose snapshot the WAVE_END loop is sending, 0 for none
  enders,   \* endRun calls under way
  strays,   \* abandon requests under way
  cleanup,  \* GET /active requests of cleanupOrphanSession under way
  rows,     \* game_sessions of this player, in the order they were opened
  faults
syncVars == <<tab, sync, creates, loop, enders, strays, cleanup, rows, faults>>

NoRow == 0
NoJob == 0
NoSnapshot == [wave |-> 0]

(* ---- the server, external to the page ------------------------------------ *)
Active == {s \in DOMAIN rows : rows[s].status = "active"}

Abandoned(from) == [s \in DOMAIN rows |->
  IF s \in from /\ rows[s].status = "active" THEN [rows[s] EXCEPT !.status = "abandoned"] ELSE rows[s]]

\* create_session abandons the active session before it opens the new one.
Opened(run, gen) == Append(Abandoned(Active), [status |-> "active", run |-> run, gen |-> gen])

\* A request has an outcome, and may be lost on either way.
Fault == faults < MaxFaults /\ faults' = faults + 1
Sound == faults' = faults

(* ---- starting a run -------------------------------------------------------- *)
Task(run, gen, by) == [run |-> run, gen |-> gen, by |-> by, try |-> 1, net |-> "out", row |-> NoRow]

\* Leaving the page for good, or tearing the engine down for a retry, unbinds.
Retry ==
  /\ tab.at = "over" /\ tab.run < MaxRuns
  /\ tab' = [tab EXCEPT !.at = "boot"]
  /\ sync' = [sync EXCEPT !.level = FALSE]
  /\ UNCHANGED <<creates, loop, enders, strays, cleanup, rows, faults>>

\* bind() and the LEVEL_START handler run in one task: GET /active and POST
\* /sessions leave the page together.
LevelStart ==
  /\ tab.at = "boot"
  /\ tab' = [at |-> "play", run |-> tab.run + 1, wave |-> 0]
  /\ sync' = [sync EXCEPT !.id = NoRow, !.level = TRUE, !.cgen = @ + 1]
  /\ creates' = creates \cup {Task(tab.run + 1, sync.cgen + 1, "start")}
  /\ cleanup' = cleanup + 1
  /\ UNCHANGED <<loop, enders, strays, rows, faults>>

CleanupGet ==
  /\ cleanup > 0 /\ cleanup' = cleanup - 1
  /\ strays' = strays \cup Active
  /\ UNCHANGED <<tab, sync, creates, loop, enders, rows, faults>>

(* ---- createSessionWithRetry ------------------------------------------------- *)
CreateHandled(t) ==
  /\ t.net = "out" /\ Len(rows) < MaxRows
  /\ \/ /\ Sound /\ rows' = Opened(t.run, t.gen)
        /\ creates' = (creates \ {t}) \cup {[t EXCEPT !.net = "ok", !.row = Len(rows) + 1]}
     \/ /\ Fault /\ creates' = (creates \ {t}) \cup {[t EXCEPT !.net = "failed"]}
        /\ \/ UNCHANGED rows
           \/ rows' = Opened(t.run, t.gen)
  /\ UNCHANGED <<tab, sync, loop, enders, strays, cleanup>>

\* A failed attempt is repeated after a pause, by a generation still current.
CreateRetry(t) ==
  /\ t.net = "failed" /\ t.try < MaxTries /\ t.gen = sync.cgen
  /\ creates' = (creates \ {t}) \cup {[t EXCEPT !.net = "out", !.try = @ + 1]}
  /\ UNCHANGED <<tab, sync, loop, enders, strays, cleanup, rows, faults>>

Posting(e, row) == [e EXCEPT !.stage = "post", !.row = row]
Waiting(t) == {e \in enders : e.stage = "create" /\ e.run = t.run}

\* Mutant: the late session is taken although its generation is over.
CreateAnsweredLate(t) ==
  /\ t.net = "ok" \/ (t.net = "failed" /\ (t.try = MaxTries \/ t.gen # sync.cgen))
  /\ creates' = creates \ {t}
  /\ UNCHANGED strays
  /\ sync' = IF t.by = "start" THEN [sync EXCEPT !.id = t.row, !.sgen = t.gen, !.last = 0]
             ELSE [sync EXCEPT !.id = t.row]
  /\ enders' = IF t.by = "start" THEN enders
               ELSE (enders \ Waiting(t)) \cup {Posting(e, t.row) : e \in Waiting(t)}
  /\ UNCHANGED <<tab, loop, cleanup, rows, faults>>

\* The call returns: with the session while its generation is current, with null
\* otherwise; a session that came too late is abandoned without waiting.
\* endRun assigns the answer whatever it is, LEVEL_START only when it is current.
CreateAnswered(t) ==
  /\ t.net = "ok" \/ (t.net = "failed" /\ (t.try = MaxTries \/ t.gen # sync.cgen))
  /\ LET current == t.gen = sync.cgen
         row     == IF current THEN t.row ELSE NoRow
     IN /\ creates' = creates \ {t}
        /\ strays' = IF ~current /\ t.row # NoRow THEN strays \cup {t.row} ELSE strays
        /\ sync' = IF t.by = "end" THEN [sync EXCEPT !.id = row]
                   ELSE IF current THEN [sync EXCEPT !.id = row, !.sgen = t.gen, !.last = 0]
                   ELSE sync
        /\ enders' = IF t.by = "start" THEN enders
                     ELSE (enders \ Waiting(t)) \cup {Posting(e, row) : e \in {w \in Waiting(t) : row # NoRow}}
  /\ UNCHANGED <<tab, loop, cleanup, rows, faults>>

StrayAbandoned(s) ==
  /\ strays' = strays \ {s}
  /\ \/ Sound /\ rows' = Abandoned({s})
     \/ Fault /\ UNCHANGED rows
  /\ UNCHANGED <<tab, sync, creates, loop, enders, cleanup>>

(* ---- the WAVE_END loop -------------------------------------------------------- *)
\* What the loop does with the snapshot that waits: the wave it sends now.
Sending(y, snapshot) ==
  IF y.id = NoRow \/ snapshot = NoSnapshot THEN NoJob
  ELSE IF snapshot.gen # y.sgen \/ snapshot.wave = y.last THEN NoJob
  ELSE snapshot.wave

\* The queue has one place: a newer snapshot replaces an older one.
WaveEnd ==
  /\ tab.at = "play" /\ tab.wave < MaxWaves
  /\ tab' = [tab EXCEPT !.wave = @ + 1]
  /\ LET snapshot == [wave |-> tab.wave + 1, gen |-> sync.sgen] IN
     IF sync.id = NoRow THEN UNCHANGED <<sync, loop>>
     ELSE IF loop # NoJob THEN sync' = [sync EXCEPT !.pending = snapshot] /\ UNCHANGED loop
     ELSE sync' = [sync EXCEPT !.pending = NoSnapshot] /\ loop' = Sending(sync, snapshot)
  /\ UNCHANGED <<creates, enders, strays, cleanup, rows, faults>>

\* The answer to the snapshot.  A failure throws the waiting one away; an expired
\* login the session too.
PushAnswered ==
  /\ loop # NoJob
  /\ LET sent == [sync EXCEPT !.last = loop]
         lost == [sync EXCEPT !.pending = NoSnapshot]
     IN \/ Sound /\ loop' = Sending(sent, sync.pending) /\ sync' = [sent EXCEPT !.pending = NoSnapshot]
        \/ Sound /\ sync.id \notin Active /\ loop' = NoJob /\ sync' = lost
        \/ Fault /\ loop' = NoJob /\ sync' \in {lost, [lost EXCEPT !.id = NoRow]}
  /\ UNCHANGED <<tab, creates, enders, strays, cleanup, rows>>

(* ---- endRun ---------------------------------------------------------------------- *)
\* LEVEL_END or GAME_OVER.
RunOver ==
  /\ tab.at = "play"
  /\ tab' = [tab EXCEPT !.at = "over"]
  /\ enders' = IF enders # {} THEN enders ELSE {[run |-> tab.run, stage |-> "drain", row |-> NoRow]}
  /\ UNCHANGED <<sync, creates, loop, strays, cleanup, rows, faults>>

Drained == loop = NoJob

\* Mutant: the terminal payload does not wait for the snapshots.
DrainDoneEarly(e) ==
  /\ e.stage = "drain" /\ Sound
  /\ IF sync.id = NoRow
     THEN enders' = enders \ {e} /\ UNCHANGED <<sync, creates>>
     ELSE /\ enders' = (enders \ {e}) \cup {Posting(e, sync.id)}
          /\ UNCHANGED <<sync, creates>>
  /\ UNCHANGED <<tab, loop, strays, cleanup, rows>>

\* The wait is over: no snapshot is under way, or twelve seconds have passed.
\* A session that was never opened is opened now, under a new generation.
DrainDone(e) ==
  /\ e.stage = "drain"
  /\ \/ Drained /\ Sound
     \/ ~Drained /\ Fault
  /\ IF sync.id # NoRow
     THEN /\ enders' = (enders \ {e}) \cup {Posting(e, sync.id)}
          /\ UNCHANGED <<sync, creates>>
     ELSE IF sync.level
     THEN /\ sync' = [sync EXCEPT !.cgen = @ + 1]
          /\ creates' = creates \cup {Task(e.run, sync.cgen + 1, "end")}
          /\ enders' = (enders \ {e}) \cup {[e EXCEPT !.stage = "create"]}
     ELSE enders' = enders \ {e} /\ UNCHANGED <<sync, creates>>
  /\ UNCHANGED <<tab, loop, strays, cleanup, rows>>

EndHandled(e) ==
  /\ e.stage = "post"
  /\ LET taken   == rows[e.row].status = "active"
         applied == [rows EXCEPT ![e.row].status = "completed"]
     IN \/ /\ Sound /\ enders' = (enders \ {e}) \cup {[e EXCEPT !.stage = IF taken THEN "ok" ELSE "failed"]}
           /\ rows' = IF taken THEN applied ELSE rows
        \/ /\ Fault /\ enders' = (enders \ {e}) \cup {[e EXCEPT !.stage = "failed"]}
           /\ rows' \in {rows, IF taken THEN applied ELSE rows}
  /\ UNCHANGED <<tab, sync, creates, loop, strays, cleanup>>

EndAnswered(e) ==
  /\ e.stage \in {"ok", "failed"}
  /\ enders' = enders \ {e}
  /\ sync' = IF e.stage = "ok" THEN [sync EXCEPT !.id = NoRow, !.level = FALSE] ELSE sync
  /\ UNCHANGED <<tab, creates, loop, strays, cleanup, rows, faults>>

(* ---- abandonRun ------------------------------------------------------------------- *)
\* Mutant: the generations are not bumped.
ExitQuietly ==
  /\ tab.at = "play"
  /\ tab' = [tab EXCEPT !.at = "left"]
  /\ strays' = IF sync.id = NoRow THEN strays ELSE strays \cup {sync.id}
  /\ sync' = [sync EXCEPT !.id = NoRow, !.level = FALSE, !.last = 0, !.pending = NoSnapshot]
  /\ UNCHANGED <<creates, loop, enders, cleanup, rows, faults>>

Exit ==
  /\ tab.at = "play"
  /\ tab' = [tab EXCEPT !.at = "left"]
  /\ strays' = IF sync.id = NoRow THEN strays ELSE strays \cup {sync.id}
  /\ sync' = [sync EXCEPT !.id = NoRow, !.level = FALSE, !.last = 0, !.pending = NoSnapshot,
                          !.cgen = @ + 1, !.sgen = @ + 1]
  /\ UNCHANGED <<creates, loop, enders, cleanup, rows, faults>>

(* ---- specification ------------------------------------------------------------------ *)
\* A session of an earlier visit may still be active.
SyncInit ==
  /\ tab = [at |-> "boot", run |-> 0, wave |-> 0]
  /\ sync = [id |-> NoRow, level |-> FALSE, cgen |-> 0, sgen |-> 0, last |-> 0, pending |-> NoSnapshot]
  /\ creates = {} /\ loop = NoJob /\ enders = {} /\ strays = {} /\ cleanup = 0
  /\ rows \in {<<>>, <<[status |-> "active", run |-> 0, gen |-> 0]>>}
  /\ faults = 0

Game == Retry \/ LevelStart \/ WaveEnd \/ RunOver \/ Exit

Network ==
  \/ CleanupGet
  \/ \E t \in creates : CreateHandled(t) \/ CreateRetry(t) \/ CreateAnswered(t)
  \/ \E s \in strays : StrayAbandoned(s)
  \/ PushAnswered
  \/ \E e \in enders : DrainDone(e) \/ EndHandled(e) \/ EndAnswered(e)

SyncNext == Game \/ Network
SyncSpec == SyncInit /\ [][SyncNext]_syncVars

(* ---- properties ------------------------------------------------------------------- *)
\* The session the page works on is always the one its latest create call opened:
\* a create that was overtaken by a retry, an end or an exit is never adopted.
LatestAdopted == sync.id # NoRow => rows[sync.id].gen = sync.cgen

\* Without faults the terminal payload is sent when the snapshot before it has
\* been answered.
EndAfterPushes ==
  [][\A e \in enders' \ enders : e.stage = "post" /\ faults' = 0 => loop = NoJob]_syncVars

Quiet == creates = {} /\ loop = NoJob /\ enders = {} /\ strays = {} /\ cleanup = 0

\* When the first run of the page is over or was left and every request of it has
\* been answered, no session is left active on the server, if nothing was lost.
NothingLeftActive == Quiet /\ tab.run = 1 /\ tab.at \in {"over", "left"} /\ faults = 0 => Active = {}

(* ---- the inductive invariant behind LatestAdopted ------------------------------------ *)
Run      == [at : {"boot", "play", "over", "left"}, run : Nat, wave : Nat]
Row      == [status : {"active", "completed", "abandoned"}, run : Nat, gen : Nat]
Snapshot == {NoSnapshot} \cup [wave : Nat, gen : Nat]
Fields   == [id : Nat, level : BOOLEAN, cgen : Nat, sgen : Nat, last : Nat, pending : Snapshot]
Create   == [run : Nat, gen : Nat, by : {"start", "end"}, try : Nat, net : {"out", "ok", "failed"}, row : Nat]
Ender    == [run : Nat, stage : {"drain", "create", "post", "ok", "failed"}, row : Nat]

\* The variables of the composable, the requests and the rows have their types.
SyncTypeOK ==
  /\ tab \in Run /\ sync \in Fields
  /\ creates \subseteq Create /\ loop \in Nat /\ enders \subseteq Ender
  /\ strays \subseteq DOMAIN rows /\ cleanup \in Nat /\ rows \in Seq(Row) /\ faults \in Nat

\* A session a call or an end speaks of is one the server opened, for that call.
CallsNamed == \A t \in creates : t.row # NoRow => t.row \in DOMAIN rows /\ rows[t.row].gen = t.gen
EndsNamed  == \A e \in enders : e.stage \in {"post", "ok", "failed"} => e.row \in DOMAIN rows
IdNamed    == sync.id # NoRow => sync.id \in DOMAIN rows

SyncInv == SyncTypeOK /\ CallsNamed /\ EndsNamed /\ IdNamed /\ LatestAdopted

(* ---- the inductive invariant behind NothingLeftActive -------------------------------- *)
\* The first run of the page, with nothing lost so far.
FirstRun == tab.run = 1 /\ tab.at \in {"play", "over", "left"} /\ faults = 0

\* Before it, nothing was asked of the server.
Untouched ==
  /\ tab.at = "boot" /\ sync.id = NoRow /\ loop = NoJob /\ cleanup = 0
  /\ creates = {} /\ enders = {} /\ strays = {}

\* A create call that is under way opens a session when it is answered; two have two
\* generations, and the page has no session while the latest is under way.
CallsOpen ==
  /\ \A t \in creates : t.gen <= sync.cgen /\ (t.net = "out" \/ (t.net = "ok" /\ t.row # NoRow))
  /\ \A t, u \in creates : t.gen = u.gen => t = u
  /\ \A t \in creates : t.gen = sync.cgen => sync.id = NoRow

\* A run is ended once, and only when it is over.  While the end waits for the snapshots
\* the level still counts; the session that the end itself opens is the latest.
OneEnd ==
  /\ \A e, f \in enders : e = f
  /\ enders # {} => tab.at = "over"
  /\ tab.at = "play" => sync.level
  /\ \A e \in enders : e.stage = "drain" => sync.level
  /\ \A t \in creates : t.by = "end" =>
       t.gen = sync.cgen /\ \E e \in enders : e.stage = "create" /\ e.run = t.run

\* The session of a run that was left is not the page's any more; one that is still being
\* opened for a run that is over is waited for.
NoneLate ==
  /\ tab.at = "left" => sync.id = NoRow /\ \A t \in creates : t.gen # sync.cgen
  /\ tab.at = "over" => \A t \in creates : t.by = "start" /\ t.gen = sync.cgen =>
                          \E e \in enders : e.stage = "drain"

\* Something under way closes the session s: an abandon or an end of it, the answer of
\* the call that opened it, a call that opens another, or the run whose session it is.
Owed(s) ==
  \/ s \in strays
  \/ \E t \in creates : t.net = "out" \/ t.row = s
  \/ \E e \in enders : e.stage = "post" /\ e.row = s
  \/ sync.id = s /\ (tab.at = "play" \/ \E e \in enders : e.stage = "drain")

FirstRunInv ==
  /\ tab.run = 0 => Untouched
  /\ FirstRun => CallsOpen /\ OneEnd /\ NoneLate /\ \A s \in Active : Owed(s)

=============================================================================
