------------------------------ MODULE Sessions ------------------------------
(***************************************************************************)
(* The play sessions of one user in the database, and the HTTP requests    *)
(* that work on them at the same time.  Every query of the session service *)
(* is scoped to one user, so users do not interact.                        *)
(*                                                                         *)
(* A request is one transaction at READ COMMITTED: a plain SELECT sees the *)
(* committed rows and takes no lock, SELECT ... FOR UPDATE and UPDATE wait *)
(* for the row lock, and writes appear when the transaction commits.  Two  *)
(* statements of one transaction are two steps whenever another request's  *)
(* commit between them can change the outcome.  After its commit an /end   *)
(* request runs three handlers, each in a transaction of its own.          *)
(***************************************************************************)
EXTENDS SessionAggregate

CONSTANTS
  Sids,        \* session ids
  Reqs,        \* requests in flight at once
  Workload,    \* kinds of request the clients send
  NoSid, NoReq,
  WaveCaps,    \* wave caps a challenge may impose, the level's own included
  MaxLog,      \* bound on the waveEnd events of one replay log
  MaxFaults    \* bound on failed handlers and crashed requests

Kinds == {"create", "abandon", "active", "update", "reflect", "end", "append"}

ASSUME IdsAssumption == /\ Workload \subseteq Kinds
                        /\ NoSid \notin Sids /\ NoReq \notin Reqs
                        /\ WaveCaps \subseteq Nat /\ MaxLog \in Nat /\ MaxFaults \in Nat

VARIABLES
  rows,      \* game_sessions, committed
  log,       \* waveEnd events recorded per session, NoValue for an empty log
  aged,      \* sessions older than the stale cutoff
  rowLock,   \* holder of each row lock
  userLock,  \* holder of the per-user advisory lock of create_session
  pc,        \* next statement of each request
  sid,       \* the session a request works on
  cur,       \* the active session create_session found and locked
  snap,      \* the aggregate a request holds in memory
  seen,      \* the row as save() read it again before writing
  iaRead,    \* sessions counted by a running accuracy refresh
  board,     \* leaderboard entries
  checked,   \* how often the achievement check ran for a session
  iaSeen,    \* sessions the user's stored accuracy accounts for
  result,    \* history: the entry each session completed with
  faults     \* failed handlers and crashed requests so far

db     == <<rows, log, aged>>
locks  == <<rowLock, userLock>>
local  == <<pc, sid, cur, snap, seen, iaRead>>
effect == <<board, checked, iaSeen, result, faults>>
vars   == <<db, locks, local, effect>>

Pcs == {"idle", "update", "end", "append", "reread", "flush", "commit",
        "stale", "staleReread", "staleFlush", "findActive", "insert",
        "board", "achieve", "ia", "iaSave", "catchup"}
Logs    == {NoValue} \cup 0..MaxLog
Entries == [score : 0..LevelScore, waves : 0..LevelWaves, total : {NoValue} \cup 0..MaxTotal]
NoEntry == [score |-> NoValue, waves |-> NoValue, total |-> NoValue]

EntryOf(row) == [score |-> row.score, waves |-> row.waves, total |-> row.total]

TypeOK ==
  /\ rows \in [Sids -> Row] /\ log \in [Sids -> Logs] /\ aged \subseteq Sids
  /\ rowLock \in [Sids -> Reqs \cup {NoReq}] /\ userLock \in Reqs \cup {NoReq}
  /\ pc \in [Reqs -> Pcs]
  /\ sid \in [Reqs -> Sids \cup {NoSid}] /\ cur \in [Reqs -> Sids \cup {NoSid}]
  /\ snap \in [Reqs -> Row] /\ seen \in [Reqs -> Row] /\ iaRead \in [Reqs -> SUBSET Sids]
  /\ board \in [Sids -> Entries \cup {NoEntry}] /\ checked \in [Sids -> Nat]
  /\ iaSeen \subseteq Sids /\ result \in [Sids -> Entries \cup {NoEntry}]
  /\ faults \in 0..MaxFaults

Init ==
  /\ rows = [s \in Sids |-> NoRow] /\ log = [s \in Sids |-> NoValue] /\ aged = {}
  /\ rowLock = [s \in Sids |-> NoReq] /\ userLock = NoReq
  /\ pc = [r \in Reqs |-> "idle"]
  /\ sid = [r \in Reqs |-> NoSid] /\ cur = [r \in Reqs |-> NoSid]
  /\ snap = [r \in Reqs |-> NoRow] /\ seen = [r \in Reqs |-> NoRow]
  /\ iaRead = [r \in Reqs |-> {}]
  /\ board = [s \in Sids |-> NoEntry] /\ checked = [s \in Sids |-> 0]
  /\ iaSeen = {} /\ result = [s \in Sids |-> NoEntry]
  /\ faults = 0

(* ---- helpers ----------------------------------------------------------- *)
Goto(r, l) == pc' = [pc EXCEPT ![r] = l]

Free(s) == rowLock[s] = NoReq
Lock(r, s) == rowLock' = [rowLock EXCEPT ![s] = r]

\* Mutant: only the advisory lock is released.
UnlockUserOnly(r) ==
  UNCHANGED rowLock /\ userLock' = IF userLock = r THEN NoReq ELSE userLock

\* The request is over: its locks go and nothing of it is left in memory.
Unlock(r) ==
  /\ rowLock' = [s \in Sids |-> IF rowLock[s] = r THEN NoReq ELSE rowLock[s]]
  /\ userLock' = IF userLock = r THEN NoReq ELSE userLock
Finish(r) ==
  /\ Goto(r, "idle")
  /\ sid' = [sid EXCEPT ![r] = NoSid] /\ cur' = [cur EXCEPT ![r] = NoSid]
  /\ snap' = [snap EXCEPT ![r] = NoRow] /\ seen' = [seen EXCEPT ![r] = NoRow]
  /\ iaRead' = [iaRead EXCEPT ![r] = {}]

\* is_stale, read against the clock
Stale(s) == rows[s].status = "active" /\ s \in aged

\* What an UPDATE leaves in a row: SQLAlchemy writes the columns in which
\* the aggregate differs from the row save() read, and no other.
Column(mine, read, now) == IF mine # read THEN mine ELSE now
Written(mine, read, now) ==
  [status |-> Column(mine.status, read.status, now.status),
   ranked |-> now.ranked,
   wave   |-> Column(mine.wave, read.wave, now.wave),
   score  |-> Column(mine.score, read.score, now.score),
   waves  |-> Column(mine.waves, read.waves, now.waves),
   total  |-> Column(mine.total, read.total, now.total),
   refl   |-> Column(mine.refl, read.refl, now.refl)]

(* ---- time -------------------------------------------------------------- *)
\* The cutoff passes for a running session.
Age(s) ==
  /\ rows[s].status = "active" /\ s \notin aged
  /\ aged' = aged \cup {s}
  /\ UNCHANGED <<rows, log, locks, local, effect>>

(* ---- create_session ---------------------------------------------------- *)
\* Mutant: no advisory lock.
CreateBeginUnlocked(r) ==
  /\ pc[r] = "idle" /\ \E s \in Sids : rows[s].status = "none"
  /\ Goto(r, "stale")
  /\ UNCHANGED <<db, locks, sid, cur, snap, seen, iaRead, effect>>

CreateBegin(r) ==
  /\ pc[r] = "idle" /\ userLock = NoReq
  /\ \E s \in Sids : rows[s].status = "none"       \* bound: ids left
  /\ userLock' = r
  /\ Goto(r, "stale")
  /\ UNCHANGED <<db, rowLock, sid, cur, snap, seen, iaRead, effect>>

\* find_stale_sessions reads without a lock and abandons in memory.
CreateFindStale(r) ==
  /\ pc[r] = "stale"
  /\ \/ \E s \in Sids :
          /\ Stale(s)
          /\ sid' = [sid EXCEPT ![r] = s]
          /\ snap' = [snap EXCEPT ![r] = Abandoned(rows[s])]
          /\ Goto(r, "staleReread")
     \/ /\ \A s \in Sids : ~Stale(s)
        /\ Goto(r, "findActive")
        /\ UNCHANGED <<sid, snap>>
  /\ UNCHANGED <<db, locks, cur, seen, iaRead, effect>>

\* Mutants: SELECT ... FOR UPDATE SKIP LOCKED, and a plain SELECT.
CreateFindActiveSkipLocked(r) ==
  /\ pc[r] = "findActive"
  /\ LET found == {s \in Sids : rows[s].status = "active" /\ s # sid[r] /\ Free(s)} IN
       \/ found = {} /\ UNCHANGED <<cur, rowLock>>
       \/ \E s \in found : Lock(r, s) /\ cur' = [cur EXCEPT ![r] = s]
  /\ Goto(r, "insert")
  /\ UNCHANGED <<db, userLock, sid, snap, seen, iaRead, effect>>
CreateFindActivePlain(r) ==
  /\ pc[r] = "findActive"
  /\ LET found == {s \in Sids : rows[s].status = "active" /\ s # sid[r]} IN
       \/ found = {} /\ UNCHANGED cur
       \/ \E s \in found : cur' = [cur EXCEPT ![r] = s]
  /\ Goto(r, "insert")
  /\ UNCHANGED <<db, locks, sid, snap, seen, iaRead, effect>>

\* find_active_by_user_for_update: its own pending abandon is visible to it.
CreateFindActive(r) ==
  /\ pc[r] = "findActive"
  /\ LET found == {s \in Sids : rows[s].status = "active" /\ s # sid[r]} IN
       \/ /\ found = {}
          /\ UNCHANGED <<cur, rowLock>>
       \/ \E s \in found : /\ Free(s) /\ Lock(r, s)
                           /\ cur' = [cur EXCEPT ![r] = s]
  /\ Goto(r, "insert")
  /\ UNCHANGED <<db, userLock, sid, snap, seen, iaRead, effect>>

\* Abandon what was found, insert the new row, commit.
CreateInsert(r) ==
  /\ pc[r] = "insert"
  /\ \E n \in Sids, ranked \in BOOLEAN :
       /\ rows[n].status = "none"
       /\ rows' = [s \in Sids |->
            IF s = n THEN NewRow(ranked)
            ELSE IF s = sid[r] THEN Written(snap[r], seen[r], rows[s])
            ELSE IF s = cur[r] THEN Abandoned(rows[s])
            ELSE rows[s]]
  /\ Unlock(r) /\ Finish(r)
  /\ UNCHANGED <<log, aged, effect>>

(* ---- save() of an aggregate that was read without a lock ---------------- *)
SaveReread(r) ==
  /\ pc[r] \in {"reread", "staleReread"}
  /\ seen' = [seen EXCEPT ![r] = rows[sid[r]]]
  /\ Goto(r, IF pc[r] = "reread" THEN "flush" ELSE "staleFlush")
  /\ UNCHANGED <<db, locks, sid, cur, snap, iaRead, effect>>

\* The UPDATE waits for the row lock.
SaveFlush(r) ==
  /\ pc[r] \in {"flush", "staleFlush"}
  /\ Free(sid[r]) /\ Lock(r, sid[r])
  /\ Goto(r, IF pc[r] = "flush" THEN "commit" ELSE "findActive")
  /\ UNCHANGED <<db, userLock, sid, cur, snap, seen, iaRead, effect>>

SaveCommit(r) ==
  /\ pc[r] = "commit"
  /\ rows' = [rows EXCEPT ![sid[r]] = Written(snap[r], seen[r], @)]
  /\ Unlock(r) /\ Finish(r)
  /\ UNCHANGED <<log, aged, effect>>

(* ---- abandon_session, get_active_for_user ------------------------------- *)
\* Both read without a lock; abandon() is a no-op on an ended session, but
\* the aggregate is saved either way.
AbandonRead(r, s) ==
  /\ pc[r] = "idle" /\ rows[s].status # "none"
  /\ sid' = [sid EXCEPT ![r] = s]
  /\ snap' = [snap EXCEPT ![r] = Abandoned(rows[s])]
  /\ Goto(r, "reread")
  /\ UNCHANGED <<db, locks, cur, seen, iaRead, effect>>

\* GET /active writes only when the active session turns out stale.
GetActiveRead(r, s) == Stale(s) /\ AbandonRead(r, s)

(* ---- requests that lock the row first ------------------------------------ *)
\* _ensure_not_stale_or_abandon: abandon, commit, raise SessionStaleError.
StaleAbandoned(s) ==
  /\ Stale(s)
  /\ rows' = [rows EXCEPT ![s] = Abandoned(@)]
  /\ UNCHANGED <<log, aged, locks, local, effect>>

UpdateLock(r, s) ==
  /\ pc[r] = "idle" /\ Free(s)
  /\ \/ StaleAbandoned(s)
     \/ /\ rows[s].status = "active" /\ ~Stale(s)
        /\ Lock(r, s) /\ Goto(r, "update") /\ sid' = [sid EXCEPT ![r] = s]
        /\ UNCHANGED <<db, userLock, cur, snap, seen, iaRead, effect>>

UpdateCommit(r) ==
  /\ pc[r] = "update"
  /\ \E wave \in {NoValue} \cup 0..(MaxWave + 1), score \in {NoValue} \cup 0..LevelScore :
       /\ CanUpdate(rows[sid[r]], wave, score)
       /\ rows' = [rows EXCEPT ![sid[r]] = Updated(@, wave, score)]
  /\ Unlock(r) /\ Finish(r)
  /\ UNCHANGED <<log, aged, effect>>

Reflect(r, s) ==
  /\ pc[r] = "idle" /\ Free(s) /\ CanReflect(rows[s])
  /\ \E text \in BOOLEAN : rows' = [rows EXCEPT ![s] = Reflected(@, text)]
  /\ UNCHANGED <<log, aged, locks, local, effect>>

\* A domain error rolls the transaction back and releases its locks.
Refuse(r) ==
  /\ pc[r] \in {"update", "end"}
  /\ Unlock(r) /\ Finish(r)
  /\ UNCHANGED <<db, effect>>

(* ---- end_session ----------------------------------------------------------- *)
\* Mutant: a retry on a completed session runs every handler again.
EndLockReplayAll(r, s) ==
  /\ pc[r] = "idle" /\ Free(s)
  /\ \/ /\ rows[s].status = "active"
        /\ Lock(r, s) /\ Goto(r, "end") /\ sid' = [sid EXCEPT ![r] = s]
        /\ UNCHANGED <<db, userLock, cur, snap, seen, iaRead, effect>>
     \/ /\ rows[s].status = "completed"
        /\ Goto(r, "board")
        /\ sid' = [sid EXCEPT ![r] = s] /\ snap' = [snap EXCEPT ![r] = rows[s]]
        /\ UNCHANGED <<db, locks, cur, seen, iaRead, effect>>

EndLock(r, s) ==
  /\ pc[r] = "idle" /\ Free(s)
  /\ \/ StaleAbandoned(s)
     \/ /\ rows[s].status = "active" /\ ~Stale(s)
        /\ Lock(r, s) /\ Goto(r, "end") /\ sid' = [sid EXCEPT ![r] = s]
        /\ UNCHANGED <<db, userLock, cur, snap, seen, iaRead, effect>>
     \/ /\ rows[s].status = "completed"      \* a retry: leaderboard only
        /\ Goto(r, "catchup")
        /\ sid' = [sid EXCEPT ![r] = s] /\ snap' = [snap EXCEPT ![r] = rows[s]]
        /\ UNCHANGED <<db, locks, cur, seen, iaRead, effect>>

\* _verify_score: 0 without evidence, else recomputed, or cleared when the
\* inputs are incomplete.
VerifiedTotals(waves, proven) ==
  IF proven = NoValue /\ waves = 0 THEN {0} ELSE {NoValue} \cup 0..MaxTotal

\* A non-empty replay log overrides the wave count the client submits.
EndCommit(r) ==
  /\ pc[r] = "end"
  /\ LET s == sid[r]
         proven == log[s] IN
     \E sent \in {NoValue} \cup 0..LevelScore, w \in 0..LevelWaves, cap \in WaveCaps :
       LET score == IF sent = NoValue THEN rows[s].score ELSE sent
           waves == IF proven = NoValue THEN w ELSE proven IN
       /\ CanComplete(rows[s], score, waves, cap, proven)
       /\ \E total \in VerifiedTotals(waves, proven) :
            LET done == Completed(rows[s], score, waves, total) IN
            /\ rows' = [rows EXCEPT ![s] = done]
            /\ snap' = [snap EXCEPT ![r] = done]
            /\ result' = [result EXCEPT ![s] = EntryOf(done)]
  /\ Unlock(r) /\ Goto(r, "board")
  /\ UNCHANGED <<log, aged, sid, cur, seen, iaRead, board, checked, iaSeen, faults>>

(* ---- post-commit handlers ---------------------------------------------------- *)
\* Mutants: practice sessions are ranked too; the handler trusts the row.
InsertAny(r) ==
  board' = IF board[sid[r]] = NoEntry
           THEN [board EXCEPT ![sid[r]] = EntryOf(snap[r])] ELSE board
InsertIfStillCompleted(r) ==
  board' = IF /\ snap[r].ranked /\ board[sid[r]] = NoEntry
              /\ rows[sid[r]].status = "completed"
           THEN [board EXCEPT ![sid[r]] = EntryOf(snap[r])] ELSE board

\* Insert if absent: uq_leaderboard_session_id turns a lost race into a no-op.
Insert(r) ==
  board' = IF snap[r].ranked /\ board[sid[r]] = NoEntry
           THEN [board EXCEPT ![sid[r]] = EntryOf(snap[r])] ELSE board

BoardHandler(r) ==
  /\ pc[r] = "board"
  /\ Insert(r) /\ Goto(r, "achieve")
  /\ UNCHANGED <<db, locks, sid, cur, snap, seen, iaRead,
                 checked, iaSeen, result, faults>>

AchievementHandler(r) ==
  /\ pc[r] = "achieve"
  /\ checked' = [checked EXCEPT ![sid[r]] = @ + 1]
  /\ Goto(r, "ia")
  /\ UNCHANGED <<db, locks, sid, cur, snap, seen, iaRead,
                 board, iaSeen, result, faults>>

\* The accuracy is computed from the rows, then stored on the user.
IaCompute(r) ==
  /\ pc[r] = "ia"
  /\ iaRead' = [iaRead EXCEPT ![r] = {s \in Sids : rows[s].status = "completed"}]
  /\ Goto(r, "iaSave")
  /\ UNCHANGED <<db, locks, sid, cur, snap, seen, effect>>

IaSave(r) ==
  /\ pc[r] = "iaSave"
  /\ iaSeen' = iaRead[r]
  /\ Finish(r)
  /\ UNCHANGED <<db, locks, board, checked, result, faults>>

\* replay_leaderboard: neither achievements nor accuracy.
CatchUp(r) ==
  /\ pc[r] = "catchup"
  /\ Insert(r) /\ Finish(r)
  /\ UNCHANGED <<db, locks, checked, iaSeen, result, faults>>

(* ---- replay log ---------------------------------------------------------------- *)
\* append_events checks the status without a lock, then inserts.
AppendRead(r, s) ==
  /\ pc[r] = "idle" /\ rows[s].status = "active"
  /\ sid' = [sid EXCEPT ![r] = s]
  /\ Goto(r, "append")
  /\ UNCHANGED <<db, locks, cur, snap, seen, iaRead, effect>>

AppendCommit(r) ==
  /\ pc[r] = "append"
  /\ \E k \in 0..1 :                          \* waveEnd events in the batch
       LET n == k + (IF log[sid[r]] = NoValue THEN 0 ELSE log[sid[r]]) IN
       /\ n <= MaxLog
       /\ log' = [log EXCEPT ![sid[r]] = n]
  /\ Finish(r)
  /\ UNCHANGED <<rows, aged, locks, effect>>

(* ---- faults ----------------------------------------------------------------------- *)
\* dispatch() logs a failing handler and goes on with the next one.
HandlerFails(r) ==
  /\ faults < MaxFaults /\ faults' = faults + 1
  /\ \/ pc[r] = "board" /\ Goto(r, "achieve") /\ UNCHANGED <<sid, cur, snap, seen, iaRead>>
     \/ pc[r] = "achieve" /\ Goto(r, "ia") /\ UNCHANGED <<sid, cur, snap, seen, iaRead>>
     \/ pc[r] \in {"ia", "iaSave", "catchup"} /\ Finish(r)
  /\ UNCHANGED <<db, locks, board, checked, iaSeen, result>>

\* The worker or its connection dies: the database rolls back.
Crash(r) ==
  /\ faults < MaxFaults /\ faults' = faults + 1
  /\ pc[r] # "idle"
  /\ Unlock(r) /\ Finish(r)
  /\ UNCHANGED <<db, board, checked, iaSeen, result>>

(* ---- specification ------------------------------------------------------------------ *)
\* The client sends a request.
Arrive(r) ==
  \/ "create" \in Workload /\ CreateBegin(r)
  \/ \E s \in Sids :
       \/ "abandon" \in Workload /\ AbandonRead(r, s)
       \/ "active"  \in Workload /\ GetActiveRead(r, s)
       \/ "update"  \in Workload /\ UpdateLock(r, s)
       \/ "reflect" \in Workload /\ Reflect(r, s)
       \/ "end"     \in Workload /\ EndLock(r, s)
       \/ "append"  \in Workload /\ AppendRead(r, s)

\* A request that was accepted goes on.
Proceed(r) ==
  \/ CreateFindStale(r) \/ CreateFindActive(r) \/ CreateInsert(r)
  \/ SaveReread(r) \/ SaveFlush(r) \/ SaveCommit(r)
  \/ UpdateCommit(r) \/ EndCommit(r) \/ Refuse(r)
  \/ BoardHandler(r) \/ AchievementHandler(r) \/ IaCompute(r) \/ IaSave(r) \/ CatchUp(r)
  \/ AppendCommit(r)

Next ==
  \/ \E r \in Reqs : Arrive(r) \/ Proceed(r) \/ HandlerFails(r) \/ Crash(r)
  \/ \E s \in Sids : Age(s)

Spec == Init /\ [][Next]_vars

\* A worker thread runs an accepted request to its end, and PostgreSQL
\* queues the waiters of a row lock, so a waiter is not overtaken for ever.
FairSpec ==
  /\ Spec
  /\ \A r \in Reqs : /\ WF_vars(Proceed(r))
                     /\ SF_vars(SaveFlush(r)) /\ SF_vars(CreateFindActive(r))

(***************************************************************************)
(* Properties                                                              *)
(***************************************************************************)
\* At most one ACTIVE session per user.  The model has no unique index: the
\* advisory lock of create_session alone keeps uq_one_active_per_user from
\* ever being hit, whatever /end, PATCH and /abandon do meanwhile.
OneActive ==
  \A s, t \in Sids : rows[s].status = "active" /\ rows[t].status = "active" => s = t

\* A leaderboard entry belongs to a session that did complete and that was
\* neither practice nor preview, also when it comes from a retried /end or
\* the row was overwritten by a racing abandon in between.
BoardOnlyRanked ==
  \A s \in Sids : board[s] # NoEntry => rows[s].ranked /\ result[s] # NoEntry

\* Two concurrent /end calls for one session, or a retry after a crash,
\* never evaluate its achievements twice.
EffectsOnce == \A s \in Sids : checked[s] <= 1

\* A reflection is only ever attached to a session that did complete.
ReflectedCompleted == \A s \in Sids : rows[s].refl => result[s] # NoEntry

\* While a session stays live, and when it completes, its reported wave and
\* score never go back, whichever stale aggregate other requests hold.
LiveProgress ==
  [][\A s \in Sids :
       rows[s].status = "active" /\ rows'[s].status \in {"active", "completed"}
         => rows'[s].score >= rows[s].score /\ rows'[s].wave >= rows[s].wave]_vars

\* The code keeps the promise of ActiveSlot.
CurrentActive ==
  IF \E s \in Sids : rows[s].status = "active"
  THEN CHOOSE s \in Sids : rows[s].status = "active" ELSE NoSid
Slot == INSTANCE ActiveSlot WITH
          active <- CurrentActive, created <- {s \in Sids : rows[s].status # "none"}
SlotRefined == Slot!Spec

\* Every accepted request ends: the advisory lock and the row locks are
\* taken in an order that cannot deadlock.
RequestsEnd == \A r \in Reqs : pc[r] # "idle" ~> pc[r] = "idle"

\* Only an injected fault keeps a ranked, completed session off the board.
BoardReached ==
  \A s \in Sids : result[s] # NoEntry /\ rows[s].ranked
                    ~> board[s] # NoEntry \/ faults > 0

(* ---- claims of comments and docstrings that the code does not keep -------- *)
\* aggregate.py: COMPLETED and ABANDONED are terminal, so that abandoning
\* an ended session is a no-op.
OnlyAllowedTransitions ==
  [][\A s \in Sids : rows'[s].status # rows[s].status
       => <<rows[s].status, rows'[s].status>> \in AllowedTransitions]_vars

(***************************************************************************)
(* The inductive invariant behind OneActive, BoardOnlyRanked, EffectsOnce  *)
(* and ReflectedCompleted                                                  *)
(***************************************************************************)
Creating == {"stale", "staleReread", "staleFlush", "findActive", "insert"}
Ended    == {"completed", "abandoned"}

\* Who creates holds the advisory lock.
CreatorAlone == \A r \in Reqs : pc[r] \in Creating => userLock = r

\* A request past SELECT ... FOR UPDATE holds the lock of a live row.
HoldsLive ==
  \A r \in Reqs : pc[r] \in {"update", "end"} =>
    sid[r] \in Sids /\ rowLock[sid[r]] = r /\ rows[sid[r]].status = "active"

\* The session a request names has a row; a request that has read nothing
\* names none and has no aggregate in memory.
Named ==
  \A r \in Reqs :
    /\ pc[r] \in {"reread", "flush", "commit", "staleReread", "staleFlush",
                  "append", "board", "achieve", "ia", "catchup"} => sid[r] \in Sids
    /\ pc[r] \in {"idle", "stale"} => sid[r] = NoSid
    /\ pc[r] = "idle" => snap[r].status = "none"
    /\ sid[r] \in Sids => rows[sid[r]].status # "none"
    /\ cur[r] \in Sids => rows[cur[r]].status # "none"

\* A request whose UPDATE was issued, and create_session for the session it
\* found, hold the row lock until they commit.
Writing ==
  \A r \in Reqs :
    /\ pc[r] \in {"commit", "findActive", "insert"} /\ sid[r] \in Sids => rowLock[sid[r]] = r
    /\ cur[r] \in Sids => pc[r] = "insert" /\ rowLock[cur[r]] = r

\* What an unlocked save is about to write is an ended session; a row that
\* was ended when save() read it stays ended.
Saving ==
  \A r \in Reqs :
    /\ pc[r] \in {"reread", "flush", "commit", "staleReread", "staleFlush"}
         => snap[r].status \in Ended
    /\ pc[r] \in {"findActive", "insert"} /\ sid[r] \in Sids => snap[r].status \in Ended
    /\ pc[r] \in {"flush", "commit", "staleFlush", "findActive", "insert"} /\ sid[r] \in Sids
         => seen[r].status = "active" \/ rows[sid[r]].status \in Ended

\* create_session abandons every active row it is about to join.
InsertReady ==
  \A r \in Reqs : pc[r] = "insert" =>
    \A s \in Sids : rows[s].status = "active" => s = sid[r] \/ s = cur[r]

\* What completes has a result; memory and rows agree on who is ranked.
ResultKept ==
  /\ \A s \in Sids : /\ rows[s].status = "completed" => result[s] # NoEntry
                     /\ result[s] # NoEntry => rows[s].status # "none"
  /\ \A r \in Reqs : sid[r] \in Sids /\ snap[r].status # "none" =>
       /\ snap[r].status = "completed" =>
            result[sid[r]] # NoEntry /\ rows[sid[r]].status \in Ended
       /\ snap[r].refl => result[sid[r]] # NoEntry
       /\ snap[r].ranked = rows[sid[r]].ranked
  /\ \A r \in Reqs : pc[r] \in {"board", "catchup"} => snap[r].status = "completed"

\* The achievement check is still due at most once per ended session.
CheckDue ==
  /\ \A s \in Sids : checked[s] # 0 => rows[s].status \in Ended
  /\ \A r \in Reqs : pc[r] \in {"board", "achieve"} =>
       /\ rows[sid[r]].status \in Ended /\ checked[sid[r]] = 0
       /\ \A q \in Reqs : pc[q] \in {"board", "achieve"} /\ sid[q] = sid[r] => q = r

Inv ==
  /\ TypeOK /\ CreatorAlone /\ HoldsLive /\ Named /\ Writing /\ Saving /\ InsertReady
  /\ ResultKept /\ CheckDue
  /\ OneActive /\ BoardOnlyRanked /\ EffectsOnce /\ ReflectedCompleted
=============================================================================
