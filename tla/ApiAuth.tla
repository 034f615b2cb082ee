------------------------------ MODULE ApiAuth -------------------------------
(***************************************************************************)
(* The request wrapper of api.ts with the login state of authStore, in the *)
(* tabs of one browser.  The tabs share the cookies; a request that meets  *)
(* a stale access cookie refreshes it, once per tab and, under the lock    *)
(* 'mg-auth-refresh', once per browser.  The server rotates the refresh    *)
(* token and takes a second use of an old one for theft.  Names start with *)
(* Au, this module being composed with others in Pages.                    *)
(***************************************************************************)
EXTENDS Integers, FiniteSets

CONSTANTS
  AuTabs,     \* tabs of one browser
  AuLayouts,  \* sets of request() calls, each a tab and a number, that may be under way together
  AuRetries,  \* MAX_RETRIES of a GET, 2 in the code
  AuExpiries, \* times the access tokens expire, or the csrf cookie goes
  AuLogins,   \* bound on logins and logouts together
  AuFaults    \* bound on lost requests, lost answers and busy servers

ASSUME AuAssumption ==
  /\ AuLayouts \subseteq SUBSET (AuTabs \X Nat)
  /\ {AuRetries, AuExpiries, AuLogins, AuFaults} \subseteq Nat

VARIABLES
  auJar,     \* the cookies: access and refresh token (0 for none), csrf
  auServer,  \* access tokens that are valid, the state of every refresh token
  auCalls,   \* request() calls, per tab and slot
  auRefresh, \* the refresh a tab has under way
  auLock,    \* the tabs that hold the lock
  auTab,     \* authStore and login form of a tab
  auCount    \* faults, expiries, logins so far
auVars == <<auJar, auServer, auCalls, auRefresh, auLock, auTab, auCount>>

AuFault == auCount.faults < AuFaults /\ auCount' = [auCount EXCEPT !.faults = @ + 1]
AuHint == auJar.refresh # 0

AuIdle == [kind |-> "none", at |-> "idle", cred |-> 0, csrf |-> FALSE, tries |-> 0,
           authTried |-> FALSE, csrfTried |-> FALSE, answer |-> "none", applied |-> 0]
AuSent(c) == [c EXCEPT !.at = "out", !.cred = auJar.access, !.csrf = auJar.csrf]
AuSet(id, c) == auCalls' = [auCalls EXCEPT ![id] = c]
AuUnsafe(c) == c.kind \in {"write", "logout"}

(* ---- authStore ------------------------------------------------------------- *)
AuExpired(t) == IF t.expired THEN t ELSE [t EXCEPT !.expired = TRUE, !.user = FALSE]
AuSignedIn(t) == [t EXCEPT !.user = TRUE, !.expired = FALSE]

\* What the caller of the request does with its end: init and refreshProfile store the
\* user /me describes, a failed init clears it, logout clears it whatever happened.
AuEnd(t, c, ok) ==
  CASE c.kind = "init"    -> IF ok THEN [AuSignedIn(t) EXCEPT !.ready = TRUE] ELSE [t EXCEPT !.user = FALSE, !.ready = TRUE]
    [] c.kind = "profile" -> IF ok THEN [t EXCEPT !.user = TRUE] ELSE t
    [] c.kind = "logout"  -> [t EXCEPT !.user = FALSE]
    [] OTHER -> t

AuSettle(id, c, ok) ==
  /\ AuSet(id, AuIdle)
  /\ auTab' = [auTab EXCEPT ![id[1]] = AuEnd(@, c, ok)]

AuBoot(tab, id) ==
  /\ ~auTab[tab].ready /\ auCalls[id].at = "idle" /\ id[1] = tab
  /\ \A other \in DOMAIN auCalls : other[1] = tab => auCalls[other].kind # "init"
  /\ IF AuHint THEN AuSet(id, AuSent([AuIdle EXCEPT !.kind = "init"])) /\ UNCHANGED auTab
     ELSE auTab' = [auTab EXCEPT ![tab] = [@ EXCEPT !.user = FALSE, !.ready = TRUE]] /\ UNCHANGED auCalls
  /\ UNCHANGED <<auJar, auServer, auRefresh, auLock, auCount>>

\* A signed-in page writes, reads its profile, or logs out.
AuStart(id, kind) ==
  /\ auCalls[id].at = "idle" /\ auTab[id[1]].ready /\ auTab[id[1]].user
  /\ IF kind # "logout" THEN UNCHANGED auCount
     ELSE /\ auCount.logins < AuLogins /\ auCount' = [auCount EXCEPT !.logins = @ + 1]
          /\ \A other \in DOMAIN auCalls : other[1] = id[1] => auCalls[other].kind # "logout"
  /\ AuSet(id, AuSent([AuIdle EXCEPT !.kind = kind]))
  /\ UNCHANGED <<auJar, auServer, auRefresh, auLock, auTab>>

\* The form of AuthView: the password may be enough, or a code is asked for first.
AuCookies(n) ==
  /\ auServer' = [auServer EXCEPT !.valid = @ \cup {n},
                    !.tokens = [k \in 1..n |-> IF k = n THEN "live" ELSE @[k]]]
  /\ auJar' = [access |-> n, refresh |-> n, csrf |-> TRUE]

AuLogin(tab) ==
  /\ auTab[tab].ready /\ ~auTab[tab].user /\ auCount.logins < AuLogins
  /\ auCount' = [auCount EXCEPT !.logins = @ + 1]
  /\ \/ auTab[tab].form = "password" /\ auTab' = [auTab EXCEPT ![tab].form = "code"] /\ UNCHANGED <<auServer, auJar>>
     \/ /\ auTab' = [auTab EXCEPT ![tab] = [AuSignedIn(@) EXCEPT !.form = "password"]]
        /\ AuCookies(Cardinality(DOMAIN auServer.tokens) + 1)
  /\ UNCHANGED <<auCalls, auRefresh, auLock>>

AuCancel(tab) ==
  /\ auTab[tab].form = "code"
  /\ auTab' = [auTab EXCEPT ![tab].form = "password"]
  /\ UNCHANGED <<auJar, auServer, auCalls, auRefresh, auLock, auCount>>

(* ---- the server, external ----------------------------------------------------- *)
AuExpire ==
  /\ auCount.expiries < AuExpiries
  /\ auCount' = [auCount EXCEPT !.expiries = @ + 1]
  /\ \/ auServer.valid # {} /\ auServer' = [auServer EXCEPT !.valid = {}] /\ UNCHANGED auJar
     \/ auJar.csrf /\ auJar' = [auJar EXCEPT !.csrf = FALSE] /\ UNCHANGED auServer
  /\ UNCHANGED <<auCalls, auRefresh, auLock, auTab>>

AuVerdict(c) ==
  IF AuUnsafe(c) /\ ~c.csrf THEN "csrf"
  ELSE IF c.kind # "logout" /\ c.cred \notin auServer.valid THEN "401"
  ELSE "ok"

AuDone(c) == IF c.kind = "write" /\ AuVerdict(c) = "ok" THEN [c EXCEPT !.applied = @ + 1] ELSE c
AuBack(c, answer) == [c EXCEPT !.at = "back", !.answer = answer]

AuHandled(id) ==
  LET c == auCalls[id] IN
  /\ c.at = "out"
  /\ \/ AuSet(id, AuBack(AuDone(c), AuVerdict(c))) /\ UNCHANGED auCount
     \/ AuFault /\ \E lost \in {"busy", "net"} : AuSet(id, AuBack(AuDone(c), lost))
  /\ auServer' = IF c.kind = "logout" /\ AuVerdict(c) = "ok"
                 THEN [auServer EXCEPT !.valid = @ \ {c.cred}] ELSE auServer
  /\ UNCHANGED <<auJar, auRefresh, auLock, auTab>>

\* "busy" is a timeout or 502, 503, 504; "net" a fetch that failed, or a logout's 500.
AuLost(id) ==
  /\ auCalls[id].at = "out" /\ AuFault
  /\ \E lost \in {"busy", "net"} : AuSet(id, AuBack(auCalls[id], lost))
  /\ UNCHANGED <<auJar, auServer, auRefresh, auLock, auTab>>

(* ---- request(): what is done with an answer --------------------------------------- *)
\* Cookies set by an answer: a csrf token where it was missing, none after a logout.
AuJarAfter(c) ==
  IF c.answer \in {"busy", "net"} THEN auJar
  ELSE IF c.kind = "logout" /\ c.answer = "ok" THEN [access |-> 0, refresh |-> 0, csrf |-> TRUE]
  ELSE [auJar EXCEPT !.csrf = TRUE]

\* Mutant: every method is repeated.
AuRetriableAny(c) == c.answer = "busy" /\ c.tries < AuRetries

\* shouldRetry: a GET that met a timeout or 502, 503, 504; a failed fetch is no ApiError.
AuRetriable(c) == c.answer = "busy" /\ c.tries < AuRetries /\ ~AuUnsafe(c)

AuLogoutAgain(c) == c.kind = "logout" /\ c.answer = "net" /\ c.tries = 0

AuAnswered(id) ==
  LET c == auCalls[id] IN
  /\ c.at = "back"
  /\ auJar' = AuJarAfter(c)
  /\ CASE c.answer = "ok" -> AuSettle(id, c, TRUE)
       [] c.answer = "401" /\ (c.authTried \/ ~AuHint) ->
            /\ AuSet(id, AuIdle)
            /\ auTab' = [auTab EXCEPT ![id[1]] = AuEnd(AuExpired(@), c, FALSE)]
       [] c.answer = "401" /\ ~c.authTried /\ AuHint ->
            AuSet(id, [c EXCEPT !.at = "joining", !.authTried = TRUE]) /\ UNCHANGED auTab
       [] c.answer = "csrf" /\ c.kind = "write" /\ ~c.csrfTried ->
            AuSet(id, [c EXCEPT !.at = "again", !.csrfTried = TRUE]) /\ UNCHANGED auTab
       [] AuRetriable(c) \/ AuLogoutAgain(c) ->
            AuSet(id, [c EXCEPT !.at = "again", !.tries = @ + 1]) /\ UNCHANGED auTab
       [] OTHER -> AuSettle(id, c, FALSE)
  /\ UNCHANGED <<auServer, auRefresh, auLock, auCount>>

\* After the pause, the csrf warm-up or the refresh the request is built afresh.
AuAgain(id) ==
  /\ auCalls[id].at = "again" /\ AuSet(id, AuSent(auCalls[id]))
  /\ UNCHANGED <<auJar, auServer, auRefresh, auLock, auTab, auCount>>

(* ---- tryRefresh --------------------------------------------------------------------- *)
AuNoRefresh == [at |-> "none", token |-> 0, csrf |-> FALSE, warmed |-> FALSE, fresh |-> 0]

AuJoin(id) ==
  /\ auCalls[id].at = "joining" /\ AuSet(id, [auCalls[id] EXCEPT !.at = "waiting"])
  /\ auRefresh' = [auRefresh EXCEPT ![id[1]] = IF @.at = "none" THEN [@ EXCEPT !.at = "lock"] ELSE @]
  /\ UNCHANGED <<auJar, auServer, auLock, auTab, auCount>>

AuRefreshSent(r) == [r EXCEPT !.at = "out", !.token = auJar.refresh, !.csrf = auJar.csrf]

\* Mutant: a tab refreshes beside another one.
AuLockedAnyway(tab) ==
  /\ auRefresh[tab].at = "lock"
  /\ auLock' = auLock \cup {tab}
  /\ auRefresh' = [auRefresh EXCEPT ![tab] = AuRefreshSent(@)]
  /\ UNCHANGED <<auJar, auServer, auCalls, auTab, auCount>>

AuLocked(tab) ==
  /\ auRefresh[tab].at = "lock" /\ auLock = {}
  /\ auLock' = {tab}
  /\ auRefresh' = [auRefresh EXCEPT ![tab] = AuRefreshSent(@)]
  /\ UNCHANGED <<auJar, auServer, auCalls, auTab, auCount>>

\* consume: a live token is used up and replaced; one that was used before revokes all.
AuRefreshHandled(tab) ==
  LET r == auRefresh[tab]
      known == r.token \in DOMAIN auServer.tokens
      n == Cardinality(DOMAIN auServer.tokens) + 1
      answer(at, fresh) == auRefresh' = [auRefresh EXCEPT ![tab] = [@ EXCEPT !.at = at, !.fresh = fresh]]
  IN /\ r.at = "out"
     /\ IF ~r.csrf /\ known THEN UNCHANGED <<auServer, auCount>> /\ answer("csrf", 0)
        ELSE IF known /\ auServer.tokens[r.token] = "live"
        THEN /\ auServer' = [auServer EXCEPT !.valid = @ \cup {n}, !.tokens =
                  [k \in 1..n |-> IF k = n THEN "live" ELSE IF k = r.token THEN "used" ELSE @[k]]]
             /\ \/ answer("ok", n) /\ UNCHANGED auCount
                \/ answer("failed", 0) /\ AuFault
        ELSE /\ auServer' = IF known THEN [auServer EXCEPT !.reuse = TRUE,
                                !.tokens = [k \in DOMAIN @ |-> "revoked"]] ELSE auServer
             /\ answer("failed", 0) /\ UNCHANGED auCount
     /\ UNCHANGED <<auJar, auCalls, auLock, auTab>>

\* A 403 is followed by a GET that brings a csrf cookie, and one more try.
AuRefreshWarmed(tab) ==
  /\ auRefresh[tab].at = "csrf" /\ ~auRefresh[tab].warmed
  /\ auJar' = [auJar EXCEPT !.csrf = TRUE]
  /\ auRefresh' = [auRefresh EXCEPT ![tab] =
       [@ EXCEPT !.at = "out", !.token = auJar.refresh, !.csrf = TRUE, !.warmed = TRUE]]
  /\ UNCHANGED <<auServer, auCalls, auLock, auTab, auCount>>

\* Everyone in the tab who waits goes on: with the new cookies, or to the login page.
AuRefreshed(tab) ==
  LET r == auRefresh[tab]
      waiting == {id \in DOMAIN auCalls : id[1] = tab /\ auCalls[id].at = "waiting"}
  IN /\ r.at \in {"ok", "failed"} \/ (r.at = "csrf" /\ r.warmed)
     /\ auRefresh' = [auRefresh EXCEPT ![tab] = AuNoRefresh]
     /\ auLock' = auLock \ {tab}
     /\ auJar' = IF r.at = "ok" THEN [access |-> r.fresh, refresh |-> r.fresh, csrf |-> TRUE] ELSE auJar
     /\ auCalls' = [id \in DOMAIN auCalls |->
          IF id \notin waiting THEN auCalls[id]
          ELSE IF r.at = "ok" THEN [auCalls[id] EXCEPT !.at = "again"]
          ELSE AuIdle]
     /\ auTab' = IF r.at = "ok" \/ waiting = {} THEN auTab
                 ELSE [auTab EXCEPT ![tab] = [AuExpired(@) EXCEPT !.ready = TRUE]]
     /\ UNCHANGED <<auServer, auCount>>

(* ---- specification ---------------------------------------------------------------------- *)
\* The browser may hold the cookies of an earlier visit, fresh or stale.
AuInit ==
  /\ \E n \in {0, 1}, valid \in SUBSET {1} :
       /\ auJar = [access |-> n, refresh |-> n, csrf |-> TRUE]
       /\ auServer = [valid |-> valid, tokens |-> [k \in 1..n |-> "live"], reuse |-> FALSE]
       /\ n = 0 => valid = {}
  /\ \E ids \in AuLayouts : auCalls = [id \in ids |-> AuIdle]
  /\ auRefresh = [t \in AuTabs |-> AuNoRefresh]
  /\ auLock = {}
  /\ auTab = [t \in AuTabs |-> [user |-> FALSE, expired |-> FALSE, ready |-> FALSE, form |-> "password"]]
  /\ auCount = [faults |-> 0, expiries |-> 0, logins |-> 0]

AuNext ==
  \/ \E id \in DOMAIN auCalls :
       \/ AuBoot(id[1], id) \/ AuHandled(id) \/ AuLost(id) \/ AuAnswered(id) \/ AuAgain(id) \/ AuJoin(id)
       \/ \E kind \in {"write", "profile", "logout"} : AuStart(id, kind)
  \/ \E tab \in AuTabs :
       \/ AuLogin(tab) \/ AuCancel(tab)
       \/ AuLocked(tab) \/ AuRefreshHandled(tab) \/ AuRefreshWarmed(tab) \/ AuRefreshed(tab)
  \/ AuExpire

(* ---- properties ---------------------------------------------------------------------------- *)
\* However many requests and tabs meet the stale cookie at once, the server never takes
\* a refresh for theft unless the answer to an earlier one was lost.
ReuseOnlyAfterFault == auCount.faults = 0 => ~auServer.reuse

\* A write the wrapper sends again was refused before it did anything: no call is
\* applied twice, whatever is lost, expires or is refused in between.
AppliedOnce == \A id \in DOMAIN auCalls : auCalls[id].kind = "write" => auCalls[id].applied <= 1
=============================================================================
