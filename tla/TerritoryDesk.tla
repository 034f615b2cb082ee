--------------------------- MODULE TerritoryDesk ---------------------------
(***************************************************************************)
(* The pages of Grabbing Territory: the list, an activity, its form, the   *)
(* result of a play, over the one territoryStore, which outlives every     *)
(* page and is told about a logout only.  An activity is known by its name *)
(* and a slot by the activity it belongs to.  Names start with Td, this    *)
(* module being composed with others in Pages.                             *)
(***************************************************************************)
EXTENDS Integers, Sequences

CONSTANTS
  TdActs,    \* activities, the ones still to be created included
  TdVisits,  \* bound on the pages opened
  TdRuns,    \* bound on the sessions played to their end
  TdFaults   \* bound on the answers lost

ASSUME TdAssumption == TdVisits \in Nat /\ TdRuns \in Nat /\ TdFaults \in Nat

VARIABLES
  tdServer,  \* activities: absent, open or settled; sessions: what was decided
  tdPage,    \* the route, and how many pages were opened
  tdView,    \* the page's own state
  tdStore,   \* territoryStore
  tdCalls,   \* requests whose answer may still arrive
  tdTab      \* the run of the game, sessionStorage, answers received, faults
tdVars == <<tdServer, tdPage, tdView, tdStore, tdCalls, tdTab>>

TdNobody == "none"
TdBlank == [preview |-> TdNobody, asking |-> TdNobody, busy |-> FALSE, outcome |-> TdNobody]
TdEmptyStore == [listed |-> FALSE, of |-> TdNobody, settled |-> FALSE, loading |-> FALSE,
                 errDetail |-> TdNobody, errSettle |-> TdNobody, errPlay |-> 0]

\* A request of page n, about an activity, a slot and a session.
TdCall(n, op, act, slot, sid) ==
  [op |-> op, act |-> act, slot |-> slot, sid |-> sid, n |-> n, stage |-> "sent", res |-> "none"]
TdAsk(op, act) == TdCall(tdPage.n + 1, op, act, TdNobody, 0)

(* ---- the server, external to these pages ------------------------------------ *)
\* A play is refused for a slot of another activity, a settled one, a used session.
TdRefused(c) ==
  CASE c.op = "detail" -> tdServer.acts[c.act] = "absent"
    [] c.op = "settle" -> tdServer.acts[c.act] # "open"
    [] c.op = "play" -> c.slot # c.act \/ tdServer.acts[c.act] # "open" \/ tdServer.plays[c.sid] # TdNobody
    [] c.op = "create" -> tdServer.acts[c.act] # "absent"
    [] OTHER -> FALSE

TdHandled(c) ==
  /\ c.stage = "sent" /\ ~TdRefused(c)
  /\ \E outcome \in IF c.op = "play" THEN {"seized", "beaten"} ELSE {"none"} :
       /\ tdServer' = CASE c.op = "settle" -> [tdServer EXCEPT !.acts[c.act] = "settled"]
                        [] c.op = "create" -> [tdServer EXCEPT !.acts[c.act] = "open"]
                        [] c.op = "play" -> [tdServer EXCEPT !.plays[c.sid] = outcome]
                        [] OTHER -> tdServer
       /\ tdCalls' = (tdCalls \ {c}) \cup
            {[c EXCEPT !.stage = "done",
                !.res = CASE c.op = "detail" -> tdServer.acts[c.act] [] c.op = "play" -> outcome [] OTHER -> "none"]}
  /\ UNCHANGED <<tdPage, tdView, tdStore, tdTab>>

(* ---- the pages ------------------------------------------------------------------ *)
\* A page is opened with its requests; what the page before asked for still arrives.
\* From one activity to another the page is reused.
TdOpen(kind, act, view, store, calls) ==
  /\ tdPage.n < TdVisits
  /\ tdPage' = [kind |-> kind, act |-> act, n |-> tdPage.n + 1,
                since |-> IF kind = "detail" /\ tdPage.kind = "detail" THEN tdPage.since ELSE tdPage.n + 1]
  /\ tdView' = view /\ tdStore' = store
  /\ tdCalls' = calls \cup
       {c \in tdCalls : c.op # "list"}
  /\ UNCHANGED tdServer

TdList ==
  /\ tdPage.kind # "away"
  /\ TdOpen("list", TdNobody, TdBlank, tdStore, {TdAsk("list", TdNobody)})
  /\ UNCHANGED tdTab

\* watch(activityId), immediate: the detail is cleared and loaded.  The recommendation
\* loaded beside it only points at a slot.
TdCleared == [tdStore EXCEPT !.of = TdNobody, !.errDetail = TdNobody, !.loading = TRUE]
TdAsked(act) == {TdAsk("detail", act)}

TdClick(act) ==
  /\ tdPage.kind = "list" /\ tdStore.listed /\ tdServer.acts[act] # "absent"
  /\ TdOpen("detail", act, TdBlank, TdCleared, TdAsked(act))
  /\ UNCHANGED tdTab

\* What a reused page keeps; the router takes the confirmation down.
TdReused == [tdView EXCEPT !.asking = TdNobody]

\* The browser's history from one activity to another.
TdHop(act) ==
  /\ tdPage.kind = "detail" /\ act # tdPage.act /\ tdServer.acts[act] # "absent"
  /\ TdOpen("detail", act, TdReused, TdCleared, TdAsked(act))
  /\ UNCHANGED tdTab

\* The form of a teacher; one submission at a time.
TdForm ==
  /\ tdPage.kind = "list" /\ tdTab.role = "teacher"
  /\ TdOpen("form", TdNobody, TdBlank, tdStore, {})
  /\ UNCHANGED tdTab

TdSubmit(act) ==
  /\ tdPage.kind = "form" /\ ~tdView.busy /\ tdServer.acts[act] = "absent"
  /\ \A c \in tdCalls : c.op # "create"
  /\ tdView' = [tdView EXCEPT !.busy = TRUE]
  /\ tdCalls' = tdCalls \cup {TdCall(tdPage.n, "create", act, TdNobody, 0)}
  /\ UNCHANGED <<tdServer, tdPage, tdStore, tdTab>>

(* ---- an activity ------------------------------------------------------------------- *)
\* What the page shows: an error hides the detail and its buttons.
TdShows == tdPage.kind = "detail" /\ ~tdStore.loading /\ tdStore.of # TdNobody
           /\ tdStore.errDetail = TdNobody /\ tdStore.errSettle = TdNobody

\* startRun with the route's activity and the slot of the detail.
TdPlay(slot) ==
  /\ tdPage.n < TdVisits /\ Len(tdTab.ended) < TdRuns
  /\ tdTab' = [tdTab EXCEPT !.game = [act |-> tdPage.act, slot |-> slot]]
  /\ tdPage' = [tdPage EXCEPT !.kind = "game", !.n = @ + 1]
  /\ tdView' = TdBlank
  /\ UNCHANGED <<tdServer, tdStore, tdCalls>>

\* The preview is there while its slot is one of the detail; the detail may have been
\* replaced under it.
TdPreviewing == tdPage.kind = "detail" /\ tdView.preview # TdNobody /\ tdView.preview = tdStore.of

\* The button of a slot; a student's, before the deadline.
TdSlot ==
  /\ TdShows /\ tdTab.role = "student" /\ ~tdStore.settled /\ ~TdPreviewing
  /\ IF tdTab.skip
     THEN TdPlay(tdStore.of)
     ELSE /\ tdView' = [tdView EXCEPT !.preview = tdStore.of]
          /\ UNCHANGED <<tdServer, tdPage, tdStore, tdCalls, tdTab>>

TdPreview ==
  /\ TdPreviewing
  /\ \/ TdPlay(tdView.preview)
     \/ /\ tdView' = [tdView EXCEPT !.preview = TdNobody]
        /\ UNCHANGED <<tdServer, tdPage, tdStore, tdCalls, tdTab>>

\* The checkbox of the preview, kept in local storage.
TdSkip ==
  /\ TdPreviewing
  /\ tdTab' = [tdTab EXCEPT !.skip = ~@]
  /\ UNCHANGED <<tdServer, tdPage, tdView, tdStore, tdCalls>>

\* handleSettle: a confirmation, then the activity the route names by now; the request
\* bears the one that was asked about in the place of its slot.
TdSettle ==
  /\ TdShows /\ tdTab.role = "teacher" /\ ~tdStore.settled /\ ~tdView.busy /\ tdView.asking = TdNobody
  /\ tdView' = [tdView EXCEPT !.asking = tdPage.act]
  /\ UNCHANGED <<tdServer, tdPage, tdStore, tdCalls, tdTab>>

TdConfirm ==
  /\ tdPage.kind = "detail" /\ tdView.asking # TdNobody
  /\ tdView' = [tdView EXCEPT !.asking = TdNobody, !.busy = TRUE]
  /\ tdStore' = [tdStore EXCEPT !.errSettle = TdNobody]
  /\ tdCalls' = tdCalls \cup {TdCall(tdPage.n, "settle", tdPage.act, tdView.asking, 0)}
  /\ UNCHANGED <<tdServer, tdPage, tdTab>>

(* ---- the game and its result ----------------------------------------------------------- *)
\* What the result page of a session asks for on mount: nothing if the outcome is
\* remembered.
TdResult(sid, run) ==
  IF tdTab.cache[sid] # TdNobody THEN {} ELSE {TdCall(tdPage.n + 1, "play", run.act, run.slot, sid)}

\* playSlot clears the error of the last play; a remembered outcome does not.
TdShowResult(sid, run, ended) ==
  LET calls == TdResult(sid, run) IN
  /\ TdOpen("result", run.act, [TdBlank EXCEPT !.outcome = tdTab.cache[sid]],
            IF calls = {} THEN tdStore ELSE [tdStore EXCEPT !.errPlay = 0], calls)
  /\ tdTab' = [tdTab EXCEPT !.ended = ended, !.at = sid,
                 !.twice = @ \/ \E c \in tdCalls : c.op = "play" /\ c.sid = sid]

\* The run was won: navigateAfterGame.  It was lost: navigateAfterLoss.
TdWon ==
  /\ tdPage.kind = "game"
  /\ TdShowResult(Len(tdTab.ended) + 1, tdTab.game, Append(tdTab.ended, tdTab.game))
TdLost ==
  /\ tdPage.kind = "game"
  /\ TdOpen("detail", tdTab.game.act, TdBlank, TdCleared, TdAsked(tdTab.game.act))
  /\ UNCHANGED tdTab

\* Back in the history to the result of a session.
TdAgain(sid) ==
  /\ tdPage.kind \in {"list", "detail", "result"} /\ sid \in DOMAIN tdTab.ended
  /\ TdShowResult(sid, tdTab.ended[sid], tdTab.ended)

\* The page is loaded anew: memory is gone and nobody hears what was asked for, but
\* sessionStorage and the history stay.
TdReload ==
  /\ tdPage.kind = "result" /\ tdPage.n < TdVisits
  /\ tdPage' = [tdPage EXCEPT !.n = @ + 1, !.since = tdPage.n + 1]
  /\ tdView' = [TdBlank EXCEPT !.outcome = tdTab.cache[tdTab.at]]
  /\ tdStore' = TdEmptyStore
  /\ tdCalls' = TdResult(tdTab.at, tdTab.ended[tdTab.at]) \cup
                {[c EXCEPT !.n = 0] : c \in {d \in tdCalls : d.op = "play" /\ d.stage = "sent"}}
  /\ UNCHANGED <<tdServer, tdTab>>

TdLogout ==
  /\ tdPage.kind # "away"
  /\ TdOpen("away", TdNobody, TdBlank,
            [TdEmptyStore EXCEPT !.loading = tdStore.loading], {})
  /\ UNCHANGED tdTab
TdLogin ==
  /\ tdPage.kind = "away"
  /\ TdOpen("list", TdNobody, TdBlank, tdStore, {TdAsk("list", TdNobody)})
  /\ UNCHANGED tdTab

(* ---- answers ------------------------------------------------------------------------------ *)
TdTaken(c) == tdCalls' = tdCalls \ {c}

\* The store takes what comes, for whichever activity it was asked.
TdListed(c) ==
  /\ c.op = "list" /\ TdTaken(c)
  /\ tdStore' = [tdStore EXCEPT !.listed = TRUE]
  /\ UNCHANGED <<tdServer, tdPage, tdView, tdTab>>
TdDetailed(c) ==
  /\ c.op = "detail" /\ TdTaken(c)
  /\ tdStore' = [tdStore EXCEPT !.of = c.act, !.settled = c.res = "settled", !.loading = FALSE]
  /\ UNCHANGED <<tdServer, tdPage, tdView, tdTab>>

\* Whose page asked: busy flags and outcomes go to it alone.
TdOwn(c) == tdPage.since <= c.n

TdSettled(c) ==
  /\ c.op = "settle"
  /\ tdView' = IF TdOwn(c) THEN [tdView EXCEPT !.busy = FALSE] ELSE tdView
  /\ tdStore' = [tdStore EXCEPT !.loading = TRUE, !.errDetail = TdNobody]
  /\ tdCalls' = (tdCalls \ {c}) \cup
       {TdCall(tdPage.n, "detail", IF tdPage.kind = "detail" THEN tdPage.act ELSE c.act, TdNobody, 0)}
  /\ UNCHANGED <<tdServer, tdPage, tdTab>>

\* The new activity is opened, wherever the teacher is by now.
TdCreated(c) ==
  /\ c.op = "create" /\ tdPage.kind # "away" /\ tdPage.n < TdVisits
  /\ tdPage' = [kind |-> "detail", act |-> c.act, n |-> tdPage.n + 1,
                since |-> IF tdPage.kind = "detail" THEN tdPage.since ELSE tdPage.n + 1]
  /\ tdView' = IF tdPage.kind = "detail" THEN TdReused ELSE TdBlank
  /\ tdStore' = TdCleared
  /\ tdCalls' = (tdCalls \ {c}) \cup TdAsked(c.act)
  /\ UNCHANGED <<tdServer, tdTab>>

\* Mutant: the outcome is not remembered.
TdPlayedForgotten(c) ==
  /\ c.op = "play" /\ TdTaken(c)
  /\ tdTab' = IF c.n = 0 THEN tdTab ELSE [tdTab EXCEPT !.told = @ \cup {c.sid}]
  /\ tdView' = IF TdOwn(c) THEN [tdView EXCEPT !.outcome = c.res] ELSE tdView
  /\ UNCHANGED <<tdServer, tdPage, tdStore>>

\* The outcome is remembered, also by a page that was left meanwhile.
TdPlayed(c) ==
  /\ c.op = "play" /\ TdTaken(c)
  /\ tdTab' = IF c.n = 0 THEN tdTab ELSE [tdTab EXCEPT !.told = @ \cup {c.sid}, !.cache[c.sid] = c.res]
  /\ tdView' = IF TdOwn(c) THEN [tdView EXCEPT !.outcome = c.res] ELSE tdView
  /\ UNCHANGED <<tdServer, tdPage, tdStore>>

\* A refusal, or a lost request or answer: each operation has its own error.
TdFailed(c) ==
  /\ IF c.stage = "sent" /\ TdRefused(c) THEN UNCHANGED tdTab
     ELSE tdTab.faults < TdFaults /\ tdTab' = [tdTab EXCEPT !.faults = @ + 1]
  /\ TdTaken(c)
  /\ tdStore' = CASE c.op = "detail" -> [tdStore EXCEPT !.errDetail = c.act, !.loading = FALSE]
                  [] c.op = "settle" -> [tdStore EXCEPT !.errSettle = c.act]
                  [] c.op = "play" /\ c.n # 0 -> [tdStore EXCEPT !.errPlay = c.sid]
                  [] OTHER -> tdStore
  /\ tdView' = IF TdOwn(c) /\ c.op \in {"settle", "create"} THEN [tdView EXCEPT !.busy = FALSE] ELSE tdView
  /\ UNCHANGED <<tdServer, tdPage>>

(* ---- specification ---------------------------------------------------------------------------- *)
TdInit ==
  /\ \E open \in (SUBSET TdActs) \ {{}} :
       tdServer = [acts |-> [a \in TdActs |-> IF a \in open THEN "open" ELSE "absent"],
                   plays |-> [s \in 1..TdRuns |-> TdNobody]]
  /\ tdPage = [kind |-> "list", act |-> TdNobody, n |-> 1, since |-> 1]
  /\ tdView = TdBlank /\ tdStore = TdEmptyStore
  /\ tdCalls = {TdCall(1, "list", TdNobody, TdNobody, 0)}
  /\ \E role \in {"student", "teacher"} :
       tdTab = [role |-> role, skip |-> FALSE, game |-> [act |-> TdNobody, slot |-> TdNobody],
                ended |-> <<>>, at |-> 0, cache |-> [s \in 1..TdRuns |-> TdNobody], told |-> {},
                faults |-> 0, twice |-> FALSE]

TdNext ==
  \/ TdList \/ TdForm \/ TdSlot \/ TdPreview \/ TdSkip \/ TdSettle \/ TdConfirm
  \/ TdWon \/ TdLost \/ TdReload \/ TdLogout \/ TdLogin
  \/ \E act \in TdActs : TdClick(act) \/ TdHop(act) \/ TdSubmit(act)
  \/ \E sid \in 1..TdRuns : TdAgain(sid)
  \/ \E c \in tdCalls :
       \/ TdHandled(c) \/ TdFailed(c)
       \/ c.stage = "done" /\ (TdListed(c) \/ TdDetailed(c)
                                 \/ TdSettled(c) \/ TdCreated(c) \/ TdPlayed(c))

(* ---- properties --------------------------------------------------------------------------------- *)
\* Once the outcome of a session has been heard, its page shows it, however often the
\* page is opened or loaded again: the session is used up and no second post would be
\* answered.  A page opened while the first post was under way is left out.
OutcomeKept ==
  tdPage.kind = "result" /\ tdTab.at \in tdTab.told /\ ~tdTab.twice
    /\ (\A c \in tdCalls : c.op = "play" => c.sid # tdTab.at) =>
    tdView.outcome = tdServer.plays[tdTab.at]

(* ---- the inductive invariant behind OutcomeKept ---------------------------------------------------- *)
TdSessions == 1..TdRuns
TdPlayedOut(runs) == Len(runs) \in 0..TdRuns /\ runs = [i \in 1..Len(runs) |-> runs[i]]
TdOutcomes == {"seized", "beaten", TdNobody}
TdRequest(c, n) ==
  /\ c = [op |-> c.op, act |-> c.act, slot |-> c.slot, sid |-> c.sid, n |-> c.n, stage |-> c.stage, res |-> c.res]
  /\ c.n \in 0..n /\ (c.op = "play" => c.sid \in TdSessions)

\* The pages are numbered, the requests of an earlier page bear its number, and a
\* session is one that was played to its end.
TdTypeOK ==
  /\ tdServer = [acts |-> tdServer.acts, plays |-> tdServer.plays]
  /\ tdServer.plays \in [TdSessions -> TdOutcomes]
  /\ tdPage = [kind |-> tdPage.kind, act |-> tdPage.act, n |-> tdPage.n, since |-> tdPage.since]
  /\ tdPage.n \in Nat /\ tdPage.since \in 1..tdPage.n
  /\ tdView = [preview |-> tdView.preview, asking |-> tdView.asking, busy |-> tdView.busy, outcome |-> tdView.outcome]
  /\ \A c \in tdCalls : TdRequest(c, tdPage.n)
  /\ tdTab = [role |-> tdTab.role, skip |-> tdTab.skip, game |-> tdTab.game, ended |-> tdTab.ended, at |-> tdTab.at,
              cache |-> tdTab.cache, told |-> tdTab.told, faults |-> tdTab.faults, twice |-> tdTab.twice]
  /\ TdPlayedOut(tdTab.ended)
  /\ tdTab.cache \in [TdSessions -> TdOutcomes] /\ tdTab.told \subseteq TdSessions /\ tdTab.twice \in BOOLEAN
  /\ tdPage.kind = "result" => tdTab.at \in TdSessions
  /\ tdPage.kind = "game" => Len(tdTab.ended) < TdRuns

\* What a request was answered, what the tab remembers and what was heard is what the
\* server has decided.
OutcomesTrue ==
  /\ \A c \in tdCalls : c.op = "play" /\ c.stage = "done" => c.res = tdServer.plays[c.sid] /\ c.res # TdNobody
  /\ \A s \in TdSessions : tdTab.cache[s] # TdNobody => tdTab.cache[s] = tdServer.plays[s]
  /\ \A s \in tdTab.told : tdTab.cache[s] # TdNobody

\* A result page hears its own session only, and hears it unless it was opened meanwhile.
OwnAnswer ==
  tdPage.kind = "result" =>
    /\ \A c \in tdCalls : c.op = "play" /\ tdPage.since <= c.n => c.sid = tdTab.at
    /\ ~tdTab.twice => \A c \in tdCalls : c.op = "play" /\ c.sid = tdTab.at /\ c.n # 0 => tdPage.since <= c.n
    /\ ~tdTab.twice /\ tdTab.at \in tdTab.told => tdView.outcome = tdServer.plays[tdTab.at]

OutcomeInv == TdTypeOK /\ OutcomesTrue /\ OwnAnswer
=============================================================================
